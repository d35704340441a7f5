----------------------------- MODULE Supervisor ----------------------------
(***************************************************************************)
(* production_start.py: one process that starts the API and the worker,    *)
(* forwards SIGTERM and SIGINT to them, and ends both when it is told to   *)
(* stop or when one of them ends.                                          *)
(*                                                                         *)
(* The handler of a signal runs in the supervisor between any two of its   *)
(* steps; the children end, or go on in spite of a signal, as they like.   *)
(* Only a child that was killed is certain to end.                         *)
(***************************************************************************)
EXTENDS Integers

CONSTANTS
    Children,         \* how many processes are started: the API, the worker
    ExitCode,         \* Popen.returncode of a child; negative for a signal
    Signal            \* the signals handled

ASSUME SupervisorAssumption ==
    /\ Children \in Nat
    /\ ExitCode \subseteq -64..255
    /\ Signal \subseteq 1..64

VARIABLES
    child,            \* the processes, in the order in which they are started
    asked,            \* children that were sent SIGTERM or SIGINT
    killed,           \* children that were sent SIGKILL
    processes,        \* the supervisor's list is 1..processes
    requested,        \* requested_signal, 0 when there is none
    late,             \* children not in the list when the signal came
    sup               \* where run_supervisor is

vars == <<child, asked, killed, processes, requested, late, sup>>

Child == 1..Children
None == 0

Running(c) == child[c].state = "running"
Started == 1..processes

Init ==
    /\ child = [c \in Child |-> [state |-> "absent", code |-> 0]]
    /\ asked = {}
    /\ killed = {}
    /\ processes = 0
    /\ requested = None
    /\ late = {}
    /\ sup = [pc |-> "start", next |-> 1, targets |-> {}, result |-> 0, error |-> FALSE]

-----------------------------------------------------------------------------
(***************************************************************************)
(* _signal_running                                                         *)
(***************************************************************************)
SignalRunning(cs) == asked' = asked \cup {c \in cs : Running(c)}

ChildEnds ==
    /\ \E c \in Child, code \in ExitCode :
         /\ Running(c)
         /\ child' = [child EXCEPT ![c] = [state |-> "ended", code |-> code]]
    /\ UNCHANGED <<asked, killed, processes, requested, late, sup>>

KilledEnds ==
    /\ \E c \in killed :
         /\ Running(c)
         /\ child' = [child EXCEPT ![c] = [state |-> "ended", code |-> -9]]
    /\ UNCHANGED <<asked, killed, processes, requested, late, sup>>

(***************************************************************************)
(* handle_signal: the first signal is recorded and forwarded, later ones   *)
(* are ignored.                                                            *)
(***************************************************************************)
HandleSignal ==
    /\ sup.pc \notin {"returned", "raised"}
    /\ requested = None
    /\ \E s \in Signal : requested' = s
    /\ SignalRunning(Started)
    /\ late' = Child \ Started
    /\ UNCHANGED <<child, killed, processes, sup>>

-----------------------------------------------------------------------------
(***************************************************************************)
(* processes.append(popen(command)): a signal can come between the two.    *)
(***************************************************************************)
StartChild ==
    /\ sup.pc = "start"
    /\ processes < Children
    /\ child' = [child EXCEPT ![processes + 1].state = "running"]
    /\ sup' = [sup EXCEPT !.pc = "append"]
    /\ UNCHANGED <<asked, killed, processes, requested, late>>

AppendChild ==
    /\ sup.pc = "append"
    /\ processes' = processes + 1
    /\ sup' = [sup EXCEPT !.pc = "start"]
    /\ UNCHANGED <<child, asked, killed, requested, late>>

(***************************************************************************)
(* except BaseException: what was started is stopped before the error is   *)
(* raised again.                                                           *)
(***************************************************************************)
StartFails ==
    /\ sup.pc = "start"
    /\ processes < Children
    /\ SignalRunning(Started)
    /\ sup' = [sup EXCEPT !.pc = "wait", !.targets = Started, !.error = TRUE]
    /\ UNCHANGED <<child, killed, processes, requested, late>>

-----------------------------------------------------------------------------
CodeItself(code) == code

(***************************************************************************)
(* The code returned for a child that ended by itself.                     *)
(***************************************************************************)
Failure(code) == IF code > 0 THEN code ELSE 1

(***************************************************************************)
(* The loop: a recorded signal is looked at first, then every child.       *)
(***************************************************************************)
CheckSignal ==
    /\ sup.pc = "start"
    /\ processes = Children
    /\ sup' = IF requested # None
              THEN [sup EXCEPT !.pc = "wait", !.targets = Started, !.result = 128 + requested]
              ELSE [sup EXCEPT !.pc = "poll", !.next = 1]
    /\ UNCHANGED <<child, asked, killed, processes, requested, late>>

StopOthersSilently(c) == UNCHANGED asked

StopOthers(c) == SignalRunning(Started \ {c})

PollChild ==
    /\ sup.pc = "poll"
    /\ sup.next \in Started
    /\ \/ /\ Running(sup.next)
          /\ sup' = [sup EXCEPT !.next = sup.next + 1]
          /\ UNCHANGED asked
       \/ /\ ~ Running(sup.next)
          /\ StopOthers(sup.next)
          /\ sup' = [sup EXCEPT !.pc = "wait", !.targets = Started \ {sup.next},
                                !.result = Failure(child[sup.next].code)]
    /\ UNCHANGED <<child, killed, processes, requested, late>>

SleepAndRepeat ==
    /\ sup.pc = "poll"
    /\ sup.next \notin Started
    /\ sup' = [sup EXCEPT !.pc = "start"]
    /\ UNCHANGED <<child, asked, killed, processes, requested, late>>

-----------------------------------------------------------------------------
LetThemRun == UNCHANGED killed

KillRunning == killed' = killed \cup {c \in sup.targets : Running(c)}

(***************************************************************************)
(* _wait_then_kill: until all have ended or the deadline has passed, then  *)
(* what runs is killed and waited for.                                     *)
(***************************************************************************)
WaitEnds ==
    /\ sup.pc = "wait"
    /\ KillRunning
    /\ sup' = [sup EXCEPT !.pc = "reap"]
    /\ UNCHANGED <<child, asked, processes, requested, late>>

Reap ==
    /\ sup.pc = "reap"
    /\ \A c \in sup.targets : ~ Running(c)
    /\ sup' = [sup EXCEPT !.pc = IF sup.error THEN "raised" ELSE "returned"]
    /\ UNCHANGED <<child, asked, killed, processes, requested, late>>

Supervise ==
    \/ StartChild \/ AppendChild \/ StartFails
    \/ CheckSignal \/ PollChild \/ SleepAndRepeat
    \/ WaitEnds \/ Reap

Next == ChildEnds \/ KilledEnds \/ HandleSignal \/ Supervise

(***************************************************************************)
(* The supervisor is scheduled and its deadlines pass; SIGKILL ends a      *)
(* process.                                                                *)
(***************************************************************************)
Spec == Init /\ [][Next]_vars /\ WF_vars(Supervise) /\ WF_vars(KilledEnds)

-----------------------------------------------------------------------------
Over == sup.pc \in {"returned", "raised"}

(***************************************************************************)
(* Nobody is killed without having been asked to stop first, unless the    *)
(* signal came before that child was in the list: then nothing forwards it *)
(* and the child runs until the deadline.                                  *)
(***************************************************************************)
KilledWasAsked == killed \subseteq asked \cup late

(***************************************************************************)
(* What run_supervisor returns tells why: 128 plus the signal that was     *)
(* recorded, or the failure of a child that was not killed, which may be   *)
(* any positive code; never success, so that the platform starts the       *)
(* container again.                                                        *)
(***************************************************************************)
ExitTellsWhy ==
    sup.pc = "returned" =>
        \/ requested # None /\ sup.result = 128 + requested
        \/ /\ sup.result \in 1..255
           /\ \E c \in Child \ killed : /\ child[c].state = "ended"
                                        /\ sup.result = Failure(child[c].code)

(***************************************************************************)
(* After a signal, or once a child has ended, the supervisor ends too and  *)
(* leaves no child behind, even if the others ignore SIGTERM.              *)
(***************************************************************************)
StopTogether ==
    (requested # None \/ \E c \in Child : child[c].state = "ended")
        ~> (Over /\ \A c \in Child : ~ Running(c))
=============================================================================
