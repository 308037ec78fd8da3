----------------------------- MODULE MCStartup ------------------------------
(* A small instance of Startup for TLC: a complete configuration with one  *)
(* part of it varied at a time, and every pair of Level I entries against  *)
(* every Level II section.                                                 *)
EXTENDS Startup

Absent == [is |-> "absent", text |-> <<>>]
Wrong == [is |-> "wrong", text |-> <<>>]
Text(pieces) == [is |-> "text", text |-> pieces]

Enabled(name, mqtt) ==
    [object |-> TRUE, enable |-> "true", complete |-> TRUE, exists |-> TRUE,
     name |-> name, translation |-> 260, mqtt |-> mqtt]
Section(entries) == [is |-> "array", entries |-> entries]

Base ==
    [parses |-> TRUE, required |-> [i \in DOMAIN RequiredKeys |-> "text"],
     user |-> "none", nullGuid |-> TRUE, vscpkey |-> "text", keyFile |-> "good",
     logging |-> [l \in LogKeys |-> "absent"],
     mqtt |-> [block |-> "absent", base |-> Absent, drivers |-> Absent,
               discovery |-> Absent],
     drivers |-> TRUE,
     level |-> <<Section(<<Enabled("a", "good")>>), Section(<<Enabled("b", "absent")>>)>>]

GeneralConfigurations ==
    {[Base EXCEPT !.required[i] = v] :
        i \in DOMAIN RequiredKeys, v \in {"absent", "wrong"}} \cup
    {[Base EXCEPT !.vscpkey = v, !.keyFile = f] :
        v \in {"absent", "wrong", "text"}, f \in {"good", "short", "none"}} \cup
    {[Base EXCEPT !.logging[l] = v] : l \in LogKeys, v \in {"wrong", "value"}} \cup
    {[Base EXCEPT !.parses = FALSE],
     [Base EXCEPT !.logging["file-max-size"] = "zero"]} \cup
    {[Base EXCEPT !.user = u, !.nullGuid = n] :
        u \in {"none", "known", "unknown"}, n \in BOOLEAN}

MqttConfigurations ==
    {[Base EXCEPT !.mqtt = [block |-> "bad", base |-> Absent, drivers |-> Absent,
                            discovery |-> Absent]]} \cup
    {[Base EXCEPT !.mqtt = [block |-> "good", base |-> b, drivers |-> d,
                            discovery |-> Absent]] :
        b \in {Absent, Wrong, Text(<<>>), Text(<<"own">>)},
        d \in {Absent, Wrong, Text(<<"own">>)}}

(* Entries that are read, skipped, dropped, refused or end the process.    *)
EntrySet ==
    {Enabled(n, m) : n \in Names, m \in {"absent", "good"}} \cup
    {[Enabled("a", "good") EXCEPT !.exists = FALSE],
     [Enabled("a", "good") EXCEPT !.complete = FALSE],
     [Enabled("a", "good") EXCEPT !.enable = "absent"],
     [Enabled("a", "good") EXCEPT !.enable = "wrong"],
     [Enabled("a", "bad") EXCEPT !.enable = "false"],
     [Enabled("b", "absent") EXCEPT !.object = FALSE],
     Enabled("a", "bad")}

DriverConfigurations ==
    {[Base EXCEPT !.drivers = FALSE]} \cup
    {[Base EXCEPT !.level = <<s, Section(<<e>>)>>] :
        s \in {Section(<<c, d>>) : c, d \in EntrySet} \cup
              {[is |-> i, entries |-> <<>>] : i \in {"absent", "object", "scalar"}},
        e \in EntrySet} \cup
    {[Base EXCEPT !.level[2] = [is |-> i, entries |-> <<>>]] :
        i \in {"absent", "object", "scalar", "array"}}

MCConfigurations ==
    GeneralConfigurations \cup MqttConfigurations \cup DriverConfigurations
=============================================================================
