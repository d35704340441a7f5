-------------------------- MODULE SupervisorProofs -------------------------
(***************************************************************************)
(* Proofs about Supervisor, for any number of children, exit codes and     *)
(* signals.                                                                *)
(***************************************************************************)
EXTENDS Supervisor, TLAPS

SupPc == {"start", "append", "poll", "wait", "reap", "returned", "raised"}

SupervisorTypeOK ==
    /\ child \in [Child -> [state : {"absent", "running", "ended"}, code : {0, -9} \cup ExitCode]]
    /\ asked \subseteq Child
    /\ killed \subseteq Child
    /\ processes \in 0..Children
    /\ requested \in {None} \cup Signal
    /\ late \subseteq Child
    /\ sup \in [pc : SupPc, next : Nat, targets : SUBSET Child, result : Int, error : BOOLEAN]

(***************************************************************************)
(* A process runs only between the popen that started it and its end, and  *)
(* only the one being appended is not in the list.                         *)
(***************************************************************************)
Listed ==
    /\ sup.pc = "append" => processes < Children
    /\ \A c \in Child :
         child[c].state # "absent" <=> \/ c \in Started
                                       \/ sup.pc = "append" /\ c = processes + 1

(***************************************************************************)
(* Every child that still runs has been told to stop, unless it came after *)
(* the signal.                                                             *)
(***************************************************************************)
Told(c) == Running(c) => c \in asked \cup late

Stopping == sup.pc \in {"wait", "reap", "returned", "raised"}

AllTold ==
    /\ requested # None => /\ Child \ Started \subseteq late
                           /\ \A c \in Child : Told(c)
    /\ requested = None => late = {}
    /\ sup.pc = "wait" => \A c \in sup.targets : Told(c)
    /\ KilledWasAsked

(***************************************************************************)
(* Once it stops, the supervisor has looked at every child or waits for it.*)
(***************************************************************************)
Accounted ==
    /\ Stopping => \A c \in Child : c \in sup.targets \/ ~ Running(c)
    /\ sup.pc \in {"returned", "raised"} => \A c \in sup.targets : ~ Running(c)

(***************************************************************************)
(* The reason for the exit status outlives the killing: the child that     *)
(* ended by itself is not among those that are waited for.                 *)
(***************************************************************************)
Reason ==
    \/ requested # None /\ sup.result = 128 + requested
    \/ /\ sup.result \in 1..255
       /\ \E c \in Child \ (killed \cup sup.targets) :
            /\ child[c].state = "ended"
            /\ sup.result = Failure(child[c].code)

Explained ==
    /\ ~ Stopping => killed = {} /\ ~ sup.error
    /\ sup.pc = "wait" => killed = {}
    /\ killed \subseteq sup.targets
    /\ sup.pc = "returned" => ~ sup.error
    /\ Stopping /\ ~ sup.error => Reason

IInv == SupervisorTypeOK /\ Listed /\ AllTold /\ Accounted /\ Explained

LEMMA InitInv == Init => IInv
BY SupervisorAssumption
   DEF Init, IInv, SupervisorTypeOK, SupPc, Child, None, Listed, Started, AllTold, Told, Running,
       KilledWasAsked, Accounted, Stopping, Explained

LEMMA FailureCode ==
    ASSUME NEW code \in {0, -9} \cup ExitCode
    PROVE  Failure(code) \in 1..255
BY SupervisorAssumption DEF Failure

LEMMA ListBounds ==
    ASSUME SupervisorTypeOK
    PROVE  /\ Started \subseteq Child
           /\ processes = Children => Started = Child
           /\ requested \in Int
           /\ Signal \subseteq Int \ {None}
<1>1. processes \in 0..Children /\ requested \in {None} \cup Signal
  BY DEF SupervisorTypeOK
<1> QED
  BY <1>1, SupervisorAssumption DEF Started, Child, None

-----------------------------------------------------------------------------
(***************************************************************************)
(* A child that ends.                                                      *)
(***************************************************************************)
LEMMA EndKeeps ==
    ASSUME IInv, NEW c \in Child, NEW code \in {0, -9} \cup ExitCode, Running(c),
           child' = [child EXCEPT ![c] = [state |-> "ended", code |-> code]],
           UNCHANGED <<asked, killed, processes, requested, late, sup>>
    PROVE  IInv'
<1>1. SupervisorTypeOK'
  BY DEF IInv, SupervisorTypeOK, Child
<1>2. /\ \A d \in Child : d # c => child'[d] = child[d]
      /\ child'[c].state = "ended"
      /\ \A d \in Child : Running(d)' => Running(d)
  BY DEF IInv, SupervisorTypeOK, Running, Child
<1>3. Listed'
  BY <1>2 DEF IInv, Listed, Started, Running, Child
<1>4. AllTold'
  BY <1>2 DEF IInv, AllTold, Told, KilledWasAsked, Started, SupervisorTypeOK
<1>5. Accounted'
  BY <1>2 DEF IInv, Accounted, Stopping, Child
<1>6. Explained'
  <2>1. ASSUME Stopping, ~ sup.error
        PROVE  Reason'
    <3>1. Reason
      BY <2>1 DEF IInv, Explained
    <3>2. CASE requested # None /\ sup.result = 128 + requested
      BY <3>2 DEF Reason
    <3>3. ASSUME sup.result \in 1..255,
                 NEW d \in Child \ (killed \cup sup.targets),
                 child[d].state = "ended", sup.result = Failure(child[d].code)
          PROVE  Reason'
      <4>1. d # c
        BY <3>3 DEF Running
      <4>2. child'[d] = child[d]
        BY <4>1, <1>2
      <4> QED
        BY <3>3, <4>2 DEF Reason, Failure, Child
    <3> QED
      BY <3>1, <3>2, <3>3 DEF Reason
  <2> QED
    BY <2>1 DEF IInv, Explained, Stopping
<1> QED
  BY <1>1, <1>3, <1>4, <1>5, <1>6 DEF IInv

-----------------------------------------------------------------------------
(***************************************************************************)
(* A step that leaves the children, what was sent to them and where the    *)
(* supervisor stops as they are.                                           *)
(***************************************************************************)
LEMMA SignalKeeps ==
    ASSUME IInv, HandleSignal
    PROVE  IInv'
<1> PICK s \in Signal : requested' = s
  BY DEF HandleSignal
<1> USE DEF HandleSignal
<1>1. Started \subseteq Child /\ s # None /\ s \in Int
  BY ListBounds DEF IInv
<1>2. asked' = asked \cup {c \in Started : Running(c)}
  BY DEF SignalRunning
<1>3. SupervisorTypeOK'
  BY <1>1, <1>2 DEF IInv, SupervisorTypeOK
<1>4. Listed' /\ Accounted'
  BY DEF IInv, Listed, Accounted, Stopping, Started, Running
<1>5. AllTold'
  <2>1. \A c \in Child : Told(c)'
    BY <1>1, <1>2 DEF Told, Running
  <2> QED
    BY <1>1, <1>2, <2>1 DEF IInv, AllTold, KilledWasAsked, Started, SupervisorTypeOK
<1>6. Explained'
  BY DEF IInv, Explained, Stopping, Reason
<1> QED
  BY <1>3, <1>4, <1>5, <1>6 DEF IInv

LEMMA StartChildKeeps ==
    ASSUME IInv, StartChild
    PROVE  IInv'
<1> DEFINE n == processes + 1
<1> USE DEF StartChild
<1>1. /\ n \in Child /\ n \notin Started
      /\ child[n].state = "absent"
      /\ sup.pc = "start" /\ sup'.pc = "append"
      /\ \A c \in Child : c # n => child'[c] = child[c]
  BY SupervisorAssumption DEF IInv, SupervisorTypeOK, Listed, Child, Started
<1>2. SupervisorTypeOK'
  BY <1>1 DEF IInv, SupervisorTypeOK, SupPc
<1>3. Listed'
  <2>1. processes \in Int /\ processes < Children /\ UNCHANGED processes
    BY SupervisorAssumption DEF IInv, SupervisorTypeOK
  <2>2. child'[n].state = "running"
    BY <1>1 DEF IInv, SupervisorTypeOK
  <2> QED
    BY <1>1, <2>1, <2>2 DEF IInv, Listed, Started
<1>4. AllTold'
  BY <1>1 DEF IInv, AllTold, Told, Running, KilledWasAsked, Started
<1>5. Accounted' /\ Explained'
  BY <1>1 DEF IInv, SupervisorTypeOK, Accounted, Explained, Stopping
<1> QED
  BY <1>2, <1>3, <1>4, <1>5 DEF IInv

LEMMA AppendChildKeeps ==
    ASSUME IInv, AppendChild
    PROVE  IInv'
<1> USE DEF AppendChild
<1>1. /\ processes' = processes + 1 /\ processes \in Nat /\ processes < Children
      /\ Started' = Started \cup {processes + 1}
      /\ sup.pc = "append" /\ sup'.pc = "start" /\ sup'.error = sup.error
  BY SupervisorAssumption DEF IInv, SupervisorTypeOK, Listed, Started
<1>2. SupervisorTypeOK'
  BY <1>1, SupervisorAssumption DEF IInv, SupervisorTypeOK, SupPc
<1>3. Listed'
  BY <1>1 DEF IInv, Listed
<1>4. AllTold'
  BY <1>1 DEF IInv, AllTold, Told, Running, KilledWasAsked
<1>5. Accounted' /\ Explained'
  BY <1>1 DEF IInv, SupervisorTypeOK, Accounted, Explained, Stopping
<1> QED
  BY <1>2, <1>3, <1>4, <1>5 DEF IInv

(***************************************************************************)
(* The supervisor stops: all children are accounted for and told, and if   *)
(* no start failed there is a reason.                                      *)
(***************************************************************************)
LEMMA StopKeeps ==
    ASSUME IInv, sup.pc \in {"start", "poll"},
           NEW cs \in SUBSET Child,
           sup' = [sup EXCEPT !.pc = "wait", !.targets = cs, !.result = sup'.result,
                              !.error = sup'.error],
           sup'.result \in Int, sup'.error \in BOOLEAN,
           \A c \in Started : c \in cs \/ ~ Running(c),
           asked' \in SUBSET Child, asked \subseteq asked',
           \A c \in cs : Running(c) => c \in asked' \cup late,
           ~ sup'.error => Reason',
           UNCHANGED <<child, killed, processes, requested, late>>
    PROVE  IInv'
<1>1. sup'.pc = "wait" /\ sup'.targets = cs
  BY DEF IInv, SupervisorTypeOK
<1>2. SupervisorTypeOK'
  BY DEF IInv, SupervisorTypeOK, SupPc
<1>3. Listed'
  BY <1>1 DEF IInv, Listed, Started
<1>4. AllTold'
  BY <1>1 DEF IInv, AllTold, Told, Running, KilledWasAsked, Started
<1>5. Accounted'
  BY <1>1 DEF IInv, Listed, Accounted, Stopping, Running
<1>6. Explained'
  BY <1>1 DEF IInv, Explained, Stopping
<1> QED
  BY <1>2, <1>3, <1>4, <1>5, <1>6 DEF IInv

LEMMA StartFailsKeeps ==
    ASSUME IInv, StartFails
    PROVE  IInv'
<1> USE DEF StartFails
<1>1. Started \subseteq Child
  BY SupervisorAssumption DEF IInv, SupervisorTypeOK, Started, Child
<1>2. asked' = asked \cup {c \in Started : Running(c)}
  BY DEF SignalRunning
<1>3. sup'.error = TRUE /\ sup'.result \in Int /\ asked \subseteq Child
  BY DEF IInv, SupervisorTypeOK
<1>4. sup' = [sup EXCEPT !.pc = "wait", !.targets = Started, !.result = sup'.result,
                         !.error = sup'.error]
  BY DEF IInv, SupervisorTypeOK
<1> QED
  BY <1>1, <1>2, <1>3, <1>4, StopKeeps

LEMMA CheckSignalKeeps ==
    ASSUME IInv, CheckSignal
    PROVE  IInv'
<1> USE DEF CheckSignal
<1>1. Started = Child /\ ~ Stopping /\ requested \in Int
  BY ListBounds DEF IInv, Stopping
<1>2. CASE requested # None
  <2>1. /\ sup'.error = FALSE /\ sup'.result = 128 + requested /\ sup'.result \in Int
        /\ asked \subseteq Child
    BY <1>1, <1>2 DEF IInv, SupervisorTypeOK, Explained
  <2>2. sup' = [sup EXCEPT !.pc = "wait", !.targets = Started, !.result = sup'.result,
                           !.error = sup'.error]
    <3>1. sup \in [pc : SupPc, next : Nat, targets : SUBSET Child, result : Int, error : BOOLEAN]
      BY DEF IInv, SupervisorTypeOK
    <3>2. sup' = [sup EXCEPT !.pc = "wait", !.targets = Started, !.result = 128 + requested]
      BY <1>2
    <3>3. sup.error = FALSE
      BY <1>1 DEF IInv, Explained
    <3>4. QED
      BY <2>1, <3>1, <3>2, <3>3
  <2>3. Reason'
    BY <1>2, <2>1 DEF Reason
  <2>4. \A c \in Started : Running(c) => c \in asked' \cup late
    BY <1>1, <1>2 DEF IInv, AllTold, Told
  <2> QED
    BY <1>1, <2>1, <2>2, <2>3, <2>4, StopKeeps
<1>3. CASE requested = None
  <2>1. sup.pc = "start" /\ sup'.pc = "poll" /\ sup'.error = sup.error
    BY <1>3 DEF IInv, SupervisorTypeOK
  <2>2. SupervisorTypeOK'
    BY <1>3 DEF IInv, SupervisorTypeOK, SupPc
  <2>3. Listed' /\ AllTold' /\ Accounted' /\ Explained'
    BY <2>1 DEF IInv, SupervisorTypeOK, Listed, Started, AllTold, Told, Running,
                KilledWasAsked, Accounted, Stopping, Explained
  <2> QED
    BY <2>2, <2>3 DEF IInv
<1> QED
  BY <1>2, <1>3

LEMMA PollChildKeeps ==
    ASSUME IInv, PollChild
    PROVE  IInv'
<1> USE DEF PollChild
<1> DEFINE n == sup.next
<1>1. Started \subseteq Child /\ n \in Started /\ ~ Stopping /\ sup.pc = "poll"
  BY SupervisorAssumption DEF IInv, SupervisorTypeOK, Started, Child, Stopping
<1>2. CASE Running(n)
  <2>1. sup' = [sup EXCEPT !.next = n + 1] /\ UNCHANGED asked
    BY <1>2
  <2>2. /\ sup'.pc = "poll" /\ sup'.error = sup.error
    BY <1>1, <2>1 DEF IInv, SupervisorTypeOK
  <2>3. SupervisorTypeOK'
    BY <2>1 DEF IInv, SupervisorTypeOK, SupPc
  <2>4. Listed' /\ AllTold' /\ Accounted' /\ Explained'
    BY <1>1, <2>1, <2>2 DEF IInv, SupervisorTypeOK, Listed, Started, AllTold, Told, Running,
                KilledWasAsked, Accounted, Stopping, Explained
  <2> QED
    BY <2>3, <2>4 DEF IInv
<1>3. CASE ~ Running(n)
  <2>1. /\ sup' = [sup EXCEPT !.pc = "wait", !.targets = Started \ {n},
                              !.result = Failure(child[n].code)]
        /\ asked' = asked \cup {c \in Started \ {n} : Running(c)}
    BY <1>3 DEF StopOthers, SignalRunning
  <2>2. Failure(child[n].code) \in 1..255 /\ child[n].code = child'[n].code
    BY <1>1, FailureCode DEF IInv, SupervisorTypeOK
  <2>3. /\ sup'.error = FALSE /\ sup'.result = Failure(child[n].code)
        /\ sup'.targets = Started \ {n} /\ sup'.result \in Int /\ asked \subseteq Child
    BY <1>1, <2>1, <2>2 DEF IInv, SupervisorTypeOK, Explained
  <2>4. sup' = [sup EXCEPT !.pc = "wait", !.targets = Started \ {n}, !.result = sup'.result,
                           !.error = sup'.error]
    BY <1>1, <2>1, <2>3 DEF IInv, SupervisorTypeOK, Explained
  <2>5. child[n].state = "ended"
    <3>1. child[n].state \in {"absent", "running", "ended"} /\ child[n].state # "running"
      BY <1>1, <1>3 DEF IInv, SupervisorTypeOK, Running
    <3>2. child[n].state # "absent"
      BY <1>1 DEF IInv, Listed
    <3> QED
      BY <3>1, <3>2
  <2>6. Reason'
    <3>1. n \in Child \ (killed' \cup sup'.targets) /\ child'[n].state = "ended"
      BY <1>1, <2>3, <2>5 DEF IInv, Explained
    <3>2. sup'.result = Failure(child'[n].code) /\ sup'.result \in 1..255
      BY <2>2, <2>3
    <3> QED
      BY <3>1, <3>2 DEF Reason, Child, Failure
  <2>7. /\ Started \ {n} \in SUBSET Child
        /\ \A c \in Started : c \in Started \ {n} \/ ~ Running(c)
        /\ \A c \in Started \ {n} : Running(c) => c \in asked' \cup late
        /\ asked' \in SUBSET Child /\ asked \subseteq asked'
        /\ sup'.error \in BOOLEAN
    BY <1>1, <1>3, <2>1, <2>3
  <2>8. UNCHANGED <<child, killed, processes, requested, late>>
    OBVIOUS
  <2> HIDE DEF PollChild, n
  <2> QED
    BY <1>1, <2>3, <2>4, <2>6, <2>7, <2>8, StopKeeps
<1> QED
  BY <1>2, <1>3

LEMMA SleepKeeps ==
    ASSUME IInv, SleepAndRepeat
    PROVE  IInv'
<1> USE DEF SleepAndRepeat
<1>1. sup.pc = "poll" /\ sup'.pc = "start" /\ sup'.error = sup.error
  BY DEF IInv, SupervisorTypeOK
<1>2. SupervisorTypeOK'
  BY DEF IInv, SupervisorTypeOK, SupPc
<1>3. Listed' /\ AllTold' /\ Accounted' /\ Explained'
  BY <1>1 DEF IInv, SupervisorTypeOK, Listed, Started, AllTold, Told, Running,
              KilledWasAsked, Accounted, Stopping, Explained
<1> QED
  BY <1>2, <1>3 DEF IInv

LEMMA WaitKeeps ==
    ASSUME IInv, WaitEnds
    PROVE  IInv'
<1> USE DEF WaitEnds
<1>1. /\ sup.pc = "wait" /\ sup'.pc = "reap" /\ sup'.targets = sup.targets
      /\ sup'.error = sup.error /\ sup'.result = sup.result /\ sup.targets \subseteq Child
  BY DEF IInv, SupervisorTypeOK
<1>2. killed' = killed \cup {c \in sup.targets : Running(c)}
  BY DEF KillRunning
<1>3. SupervisorTypeOK'
  BY <1>1, <1>2 DEF IInv, SupervisorTypeOK, SupPc
<1>4. Listed' /\ Accounted'
  BY <1>1 DEF IInv, Listed, Accounted, Stopping, Running, Started
<1>5. AllTold'
  BY <1>1, <1>2 DEF IInv, AllTold, Told, Running, KilledWasAsked, Started
<1>6. Explained'
  <2>1. Stopping /\ killed' \subseteq sup'.targets
    BY <1>1, <1>2 DEF IInv, Explained, Stopping
  <2>2. Reason => Reason'
    BY <1>1, <2>1 DEF Reason, Failure, Child
  <2> QED
    BY <1>1, <2>1, <2>2 DEF IInv, Explained, Stopping
<1> QED
  BY <1>3, <1>4, <1>5, <1>6 DEF IInv

LEMMA ReapKeeps ==
    ASSUME IInv, Reap
    PROVE  IInv'
<1> USE DEF Reap
<1>1. /\ sup.pc = "reap" /\ sup'.targets = sup.targets
      /\ sup'.pc = IF sup.error THEN "raised" ELSE "returned"
      /\ sup'.error = sup.error /\ sup'.result = sup.result
      /\ \A c \in sup.targets : ~ Running(c)
  BY DEF IInv, SupervisorTypeOK
<1>2. SupervisorTypeOK'
  BY <1>1 DEF IInv, SupervisorTypeOK, SupPc
<1>3. Listed' /\ AllTold' /\ Accounted'
  BY <1>1 DEF IInv, Listed, Accounted, Stopping, Running, Started, AllTold, Told, KilledWasAsked
<1>4. Explained'
  BY <1>1 DEF IInv, Explained, Stopping, Reason, Failure, Child
<1> QED
  BY <1>2, <1>3, <1>4 DEF IInv

LEMMA NextKeeps == IInv /\ [Next]_vars => IInv'
<1> SUFFICES ASSUME IInv, [Next]_vars
             PROVE  IInv'
  OBVIOUS
<1>1. CASE ChildEnds
  BY <1>1, EndKeeps DEF ChildEnds
<1>2. CASE KilledEnds
  BY <1>2, EndKeeps DEF KilledEnds, IInv, SupervisorTypeOK
<1>3. CASE HandleSignal
  BY <1>3, SignalKeeps
<1>4. CASE Supervise
  BY <1>4, StartChildKeeps, AppendChildKeeps, StartFailsKeeps, CheckSignalKeeps,
     PollChildKeeps, SleepKeeps, WaitKeeps, ReapKeeps DEF Supervise
<1>5. CASE UNCHANGED vars
  BY <1>5 DEF vars, IInv, SupervisorTypeOK, Listed, AllTold, Told, KilledWasAsked, Accounted,
              Explained, Reason, Stopping, Started, Running, Child
<1> QED
  BY <1>1, <1>2, <1>3, <1>4, <1>5 DEF Next

LEMMA InvariantHolds == Spec => []IInv
BY InitInv, NextKeeps, PTL DEF Spec

(***************************************************************************)
(* _wait_then_kill kills only children that _signal_running was called     *)
(* for, or that a signal came too early for, however many there are.       *)
(***************************************************************************)
THEOREM NobodyKilledUnasked == Spec => []KilledWasAsked
<1>1. IInv => KilledWasAsked
  BY DEF IInv, AllTold
<1> QED
  BY <1>1, InvariantHolds, PTL

(***************************************************************************)
(* The exit status of run_supervisor is 128 plus the signal, or the        *)
(* failure of a child that ended by itself, never a success.               *)
(***************************************************************************)
THEOREM ExitStatusTellsWhy == Spec => []ExitTellsWhy
<1>1. IInv => ExitTellsWhy
  BY DEF IInv, Explained, Stopping, Reason, ExitTellsWhy
<1> QED
  BY <1>1, InvariantHolds, PTL

(***************************************************************************)
(* When run_supervisor returns or raises, no child runs: the safety part   *)
(* of StopTogether, also for a child that was started as a signal came or  *)
(* before the start of the next one failed.                                *)
(***************************************************************************)
NobodyLeft == Over => \A c \in Child : ~ Running(c)

(* run_supervisor leaves no child behind: its `finally` waits for all.     *)
THEOREM NobodyIsLeft == Spec => []NobodyLeft
<1>1. IInv => NobodyLeft
  BY DEF IInv, Accounted, Stopping, NobodyLeft, Over
<1> QED
  BY <1>1, InvariantHolds, PTL
=============================================================================
