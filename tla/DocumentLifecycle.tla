------------------------- MODULE DocumentLifecycle -------------------------
(***************************************************************************)
(* What ingestion promises about one document row, without saying who acts *)
(* or when.  A document is submitted once with its content and owner; its  *)
(* attempts move it between queued and processing; it may fail; it becomes *)
(* ready once, atomically with the chunks of its content, and then never   *)
(* changes.  Failure is not final: an attempt that began before it was     *)
(* recorded may still complete.                                            *)
(***************************************************************************)
CONSTANTS Document, Content, None

VARIABLES
    status,     \* status[d]
    source,     \* source[d]: the content submitted, None before
    chunks      \* chunks[d]: the content d's chunks were computed from

lifecycleVars == <<status, source, chunks>>

LifecycleInit ==
    /\ status = [d \in Document |-> "absent"]
    /\ source = [d \in Document |-> None]
    /\ chunks = [d \in Document |-> None]

Move(d, from, to) ==
    /\ status[d] \in from
    /\ status' = [status EXCEPT ![d] = to]
    /\ UNCHANGED <<source, chunks>>

Submit(d, c) ==
    /\ status[d] = "absent"
    /\ status' = [status EXCEPT ![d] = "queued"]
    /\ source' = [source EXCEPT ![d] = c]
    /\ UNCHANGED chunks

Begin(d) == Move(d, {"queued"}, "processing")
Requeue(d) == Move(d, {"processing"}, "queued")
Fail(d) == Move(d, {"queued", "processing"}, "failed")

Complete(d) ==
    /\ status[d] \in {"queued", "processing", "failed"}
    /\ status' = [status EXCEPT ![d] = "ready"]
    /\ chunks' = [chunks EXCEPT ![d] = source[d]]
    /\ UNCHANGED source

LifecycleNext ==
    \E d \in Document :
        \/ \E c \in Content : Submit(d, c)
        \/ Begin(d) \/ Requeue(d) \/ Fail(d) \/ Complete(d)

LifecycleSpec == LifecycleInit /\ [][LifecycleNext]_lifecycleVars
=============================================================================
