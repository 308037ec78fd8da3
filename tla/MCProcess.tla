----------------------------- MODULE MCProcess ------------------------------
(* A small instance of Process for TLC: a log queue of three messages and  *)
(* both optional sinks.                                                    *)
EXTENDS Process

MCOptionalSinks == {"syslog", "udp"}
=============================================================================
