------------------------------ MODULE Process -------------------------------
(***************************************************************************)
(* The life of the process: main() and the signal handler in               *)
(* src/src/mqttvscpd.cpp, around the control object.  The drivers and the  *)
(* order of the shutdown inside run() and cleanup() are the subject of     *)
(* module Daemon; here they are one step each.                             *)
(*                                                                         *)
(* A signal may arrive before every step.  Once SetupLogger is done, each  *)
(* message goes into a queue of bounded length, which a thread of spdlog's *)
(* pool empties, and a caller who finds it full waits                      *)
(* (async_overflow_policy::block).  fork() copies the queue but not the    *)
(* thread.                                                                 *)
(***************************************************************************)
EXTENDS Naturals

CONSTANTS
    QueueSize,     \* length of the log queue, 8192 in the code
    OptionalSinks  \* sinks the configuration may add: syslog and UDP

ASSUME ProcessAssumption == QueueSize \in Nat \ {0}

VARIABLES
    ppc,         \* the next step of main(); "gone" when the process has ended
    standalone,  \* gbDontRunAsDaemon
    pool,        \* does the thread of the log pool run in this process?
    queue,       \* messages in the log queue
    enabled,     \* optional sinks the configuration asks for
    sinks,       \* sinks of the default logger
    gpobj,       \* what the global pointer refers to
    quit,        \* gpobj->m_bQuit
    pidFile,     \* whose pid /var/run/vscpd.pid holds
    privileged,  \* may the process create and remove files in /var/run?
    armed,       \* are the signal handlers installed?
    signalled,   \* has a stop signal arrived?
    status       \* how the process ends

logVars == <<pool, queue, enabled, sinks>>
objVars == <<gpobj, quit>>
sigVars == <<armed, signalled>>
pidVars == <<pidFile, privileged>>
vars == <<ppc, standalone, logVars, objVars, pidVars, sigVars, status>>

(* A pid file of an earlier or another daemon may be there.                *)
Init ==
    /\ ppc = "options"
    /\ standalone = FALSE
    /\ pool = TRUE /\ queue = 0
    /\ enabled = {} /\ sinks = {"console"}
    /\ gpobj = "null" /\ quit = FALSE
    /\ pidFile \in {"none", "other"} /\ privileged \in BOOLEAN
    /\ armed = FALSE /\ signalled = FALSE
    /\ status = "none"

(* A faulty variant of Enqueue, used in no specification: the queue is not *)
(* bounded.                                                                *)
EnqueueOverrun ==
    /\ queue' = queue + 1
    /\ UNCHANGED <<pool, enabled, sinks>>

(* One message stands for the several a step logs.                         *)
Enqueue ==
    /\ queue < QueueSize
    /\ queue' = queue + 1
    /\ UNCHANGED <<pool, enabled, sinks>>

(* unlink("/var/run/vscpd.pid"), whose result nobody looks at.             *)
Remove(may) == pidFile' = IF may THEN "none" ELSE pidFile

-----------------------------------------------------------------------------
(* Faulty variants of actions below, used in no specification.             *)

(* The control object kept in a local variable until it is initialized.    *)
NewControlObjectLocal ==
    /\ ppc = "new"
    /\ ppc' = "init"
    /\ quit' = FALSE
    /\ UNCHANGED <<standalone, logVars, gpobj, pidVars, sigVars, status>>

(* m_bQuit cleared when the main loop is entered.                          *)
RunClearsQuit ==
    /\ ppc = "run"
    /\ Enqueue
    /\ quit' = FALSE
    /\ ppc' = "loop"
    /\ UNCHANGED <<standalone, gpobj, pidVars, sigVars, status>>

(* m_bQuit cleared when init() reaches its end.                            *)
InitControlObjectClearsQuit ==
    /\ ppc = "init"
    /\ ppc' = "logger"
    /\ quit' = FALSE
    /\ privileged' \in {privileged, FALSE}
    /\ enabled' \in SUBSET OptionalSinks
    /\ sinks' \in {s \cup {"console", "file"} : s \in {enabled', enabled' \ {"udp"}}}
    /\ UNCHANGED <<standalone, pool, queue, gpobj, pidFile, sigVars, status>>

-----------------------------------------------------------------------------
(* The steps of main().                                                    *)

(* -g, -v and -h end the process, -s keeps it in the foreground.           *)
Options ==
    /\ ppc = "options"
    /\ \/ ppc' = "daemonize" /\ standalone' \in BOOLEAN /\ UNCHANGED status
       \/ ppc' = "gone" /\ status' = "usage" /\ UNCHANGED standalone
    /\ UNCHANGED <<logVars, objVars, pidVars, sigVars>>

(* The child of the fork goes on, without the threads of its parent.       *)
Daemonize ==
    /\ ppc = "daemonize"
    /\ \/ ppc' = "pid" /\ pool' = standalone /\ UNCHANGED status
       \/ ~standalone /\ ppc' = "gone" /\ status' = "fork" /\ UNCHANGED pool
    /\ UNCHANGED <<standalone, queue, enabled, sinks, objVars, pidVars, sigVars>>

WritePid ==
    /\ ppc = "pid"
    /\ ppc' = "chdir"
    /\ \/ UNCHANGED pidFile
       \/ /\ ~standalone /\ (privileged \/ pidFile = "other")
          /\ pidFile' = "own"
    /\ UNCHANGED <<standalone, logVars, objVars, privileged, sigVars, status>>

(* A process that cannot enter its folder removes the pid file and goes on.*)
Chdir ==
    /\ ppc = "chdir"
    /\ ppc' = "handlers"
    /\ UNCHANGED pidFile \/ Remove(privileged)
    /\ UNCHANGED <<standalone, logVars, objVars, privileged, sigVars, status>>

SetupSignalHandlers ==
    /\ ppc = "handlers"
    /\ ppc' = "new"
    /\ armed' = TRUE
    /\ UNCHANGED <<standalone, logVars, objVars, pidVars, signalled, status>>

NewControlObject ==
    /\ ppc = "new"
    /\ ppc' = "init"
    /\ gpobj' = "object"
    /\ quit' = FALSE
    /\ UNCHANGED <<standalone, logVars, pidVars, sigVars, status>>

(* init() replaces the console logger by one with the configured sinks (a  *)
(* UDP sink that cannot be made is left out), and may become another user. *)
InitControlObject ==
    /\ ppc = "init"
    /\ ppc' = "logger"
    /\ privileged' \in {privileged, FALSE}
    /\ enabled' \in SUBSET OptionalSinks
    /\ sinks' \in {s \cup {"console", "file"} : s \in {enabled', enabled' \ {"udp"}}}
    /\ UNCHANGED <<standalone, pool, queue, objVars, pidFile, sigVars, status>>

InitFails ==
    /\ ppc = "init"
    /\ ppc' = "shutdown"
    /\ status' = "init"
    /\ privileged' \in {privileged, FALSE}
    /\ Remove(privileged')
    /\ UNCHANGED <<standalone, logVars, objVars, sigVars>>

(* The log file that cannot be opened is an exception nobody catches.      *)
InitThrows ==
    /\ ppc = "init"
    /\ ppc' = "gone"
    /\ status' = "aborted"
    /\ UNCHANGED <<standalone, logVars, objVars, pidVars, sigVars>>

(* The asynchronous logger, with two sinks of its own, becomes the default.*)
SetupLogger ==
    /\ ppc = "logger"
    /\ \/ /\ ppc' = "run"
          /\ sinks' = {"console", "file"}
          /\ UNCHANGED status
       \/ ppc' = "shutdown" /\ status' = "logger" /\ UNCHANGED sinks
    /\ UNCHANGED <<standalone, pool, queue, enabled, objVars, pidVars, sigVars>>

(* run() up to its main loop.                                              *)
Run ==
    /\ ppc = "run"
    /\ Enqueue
    /\ ppc' = "loop"
    /\ UNCHANGED <<standalone, objVars, pidVars, sigVars, status>>

RunFails ==
    /\ ppc = "run"
    /\ Enqueue
    /\ ppc' = "shutdown"
    /\ status' = "run"
    /\ Remove(privileged)
    /\ UNCHANGED <<standalone, objVars, privileged, sigVars>>

(* The rest of run(), its own call of cleanup() included.                  *)
LoopEnds ==
    /\ ppc = "loop" /\ quit
    /\ Enqueue
    /\ ppc' = "cleanup"
    /\ UNCHANGED <<standalone, objVars, pidVars, sigVars, status>>

(* cleanup() always returns true.                                          *)
Cleanup ==
    /\ ppc = "cleanup"
    /\ Enqueue
    /\ ppc' = "delete"
    /\ UNCHANGED <<standalone, objVars, pidVars, sigVars, status>>

Delete ==
    /\ ppc = "delete"
    /\ Enqueue
    /\ ppc' = "unlink"
    /\ gpobj' = "dangling"
    /\ UNCHANGED <<standalone, quit, pidVars, sigVars, status>>

(* unlink() gets another path than the one that was written.               *)
Unlink ==
    /\ ppc = "unlink"
    /\ ppc' = "shutdown"
    /\ gpobj' = "null"
    /\ status' = "success"
    /\ UNCHANGED <<standalone, logVars, quit, pidVars, sigVars>>

(* spdlog::shutdown() sends the pool's thread a last message and joins it. *)
(* What joining a thread that fork() left behind does is not defined.      *)
Shutdown ==
    /\ ppc = "shutdown"
    /\ queue < QueueSize
    /\ ppc' \in IF pool THEN {"gone"} ELSE {"gone", "hung"}
    /\ queue' = IF pool THEN 0 ELSE queue
    /\ UNCHANGED <<standalone, pool, enabled, sinks, objVars, pidVars, sigVars,
                   status>>

Main ==
    \/ Options \/ Daemonize \/ WritePid \/ Chdir \/ SetupSignalHandlers
    \/ NewControlObject \/ InitControlObject \/ InitFails \/ InitThrows
    \/ SetupLogger \/ Run \/ RunFails \/ LoopEnds \/ Cleanup \/ Delete
    \/ Unlink \/ Shutdown

-----------------------------------------------------------------------------
(* The other threads.                                                      *)

(* The threads of the drivers and clients log while the main loop runs.    *)
Log ==
    /\ ppc = "loop"
    /\ Enqueue
    /\ UNCHANGED <<ppc, standalone, objVars, pidVars, sigVars, status>>

Drain ==
    /\ ppc # "gone" /\ pool /\ queue > 0
    /\ queue' = queue - 1
    /\ UNCHANGED <<ppc, standalone, pool, enabled, sinks, objVars, pidVars,
                   sigVars, status>>

End(how) == ppc' = "gone" /\ status' = how /\ UNCHANGED quit

(* A stop signal: the default action, or _sighandlerStop(), which goes     *)
(* through gpobj unconditionally.                                          *)
Signal ==
    /\ ppc # "gone"
    /\ signalled' = TRUE
    /\ \/ ~armed /\ End("killed")
       \/ /\ armed /\ gpobj = "object"
          /\ quit' = TRUE
          /\ UNCHANGED <<ppc, status>>
       \/ armed /\ gpobj # "object" /\ End("crashed")
       \/ armed /\ gpobj = "dangling" /\ UNCHANGED <<ppc, status, quit>>
    /\ UNCHANGED <<standalone, logVars, gpobj, pidVars, armed>>

Terminated == ppc = "gone" /\ UNCHANGED vars

Next == Main \/ Log \/ Drain \/ Signal \/ Terminated

(* A main thread that waits for a place in the queue gets one although     *)
(* other threads compete for it.                                           *)
Fairness == WF_vars(Main) /\ SF_vars(LoopEnds) /\ WF_vars(Drain)

Spec == Init /\ [][Next]_vars /\ Fairness

-----------------------------------------------------------------------------
(* Properties.                                                             *)

Steps == {"options", "daemonize", "pid", "chdir", "handlers", "new", "init",
          "logger", "run", "loop", "cleanup", "delete", "unlink", "shutdown",
          "hung", "gone"}

(* Every variable keeps its type; the log queue is never longer than the   *)
(* pool was made for.                                                      *)
TypeOK ==
    /\ ppc \in Steps
    /\ standalone \in BOOLEAN /\ pool \in BOOLEAN
    /\ queue \in 0..QueueSize
    /\ enabled \in SUBSET OptionalSinks
    /\ sinks \in SUBSET (OptionalSinks \cup {"console", "file"})
    /\ gpobj \in {"null", "object", "dangling"}
    /\ quit \in BOOLEAN
    /\ pidFile \in {"none", "own", "other"} /\ privileged \in BOOLEAN
    /\ armed \in BOOLEAN /\ signalled \in BOOLEAN
    /\ status \in {"none", "usage", "fork", "init", "logger", "run", "success",
                   "killed", "crashed", "aborted"}

(* The handlers of main() go through gpobj without a test, so a signal may *)
(* crash the process, but only between their installation and the          *)
(* assignment of gpobj, or after the delete: never while the daemon        *)
(* initializes, runs or cleans up.                                         *)
CrashWindow ==
    [][status' = "crashed" /\ status # "crashed"
         => ppc \in {"new", "unlink", "shutdown", "hung"}]_vars

(* The steps of main() before the signal handlers are installed, and those *)
(* between the assignment of gpobj and the delete.                         *)
Unarmed == {"options", "daemonize", "pid", "chdir", "handlers"}
Owned == {"init", "logger", "run", "loop", "cleanup", "delete"}

(* A stop signal the process has survived is in m_bQuit as long as there   *)
(* is a control object, whatever init(), the log set-up and run() do: the  *)
(* main loop never waits for a signal that came before it was entered.     *)
StopRemembered == signalled /\ ppc \in Owned => quit

(* Waiting for a thread of the log pool that fork() has left behind.       *)
Blocked == ~pool /\ (queue = QueueSize \/ ppc = "hung")

(* A stop signal at any time ends the process: also one that comes during  *)
(* the start is seen by the main loop.  The exception is a daemon that     *)
(* waits for the log thread it does not have.                              *)
StopHonoured == signalled ~> (ppc = "gone" \/ Blocked)

(* "Flush log every five seconds": a full log queue does not stay full.    *)
LogFlushed == queue = QueueSize ~> (queue < QueueSize \/ ppc = "gone")

(* A daemon configured to log to syslog does so while it runs.             *)
SyslogKept ==
    ppc \in {"run", "loop", "cleanup"} /\ "syslog" \in enabled
        => "syslog" \in sinks
=============================================================================
