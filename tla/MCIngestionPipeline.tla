------------------------ MODULE MCIngestionPipeline ------------------------
(***************************************************************************)
(* Small instances of IngestionPipeline for TLC.                           *)
(***************************************************************************)
EXTENDS IngestionPipeline, TLC

CONSTANTS u1, u2, readable, unreadable, k1

MCForm(u, c, k, allow) ==
    [user |-> u, content |-> c, requestId |-> k, allowDuplicate |-> allow]

(***************************************************************************)
(* One upload and its retries under one UUID.                              *)
(***************************************************************************)
MCRetries == {MCForm(u1, readable, k1, FALSE)}

(***************************************************************************)
(* A UUID race with the same or other bytes, of which one is unreadable.   *)
(***************************************************************************)
MCRace == MCRetries \cup {MCForm(u1, unreadable, k1, TRUE)}

(***************************************************************************)
(* The race beside an upload without a UUID, which meets the duplicate     *)
(* check first, and another user's upload of the same bytes and UUID.      *)
(***************************************************************************)
MCCrowd == MCRace \cup {MCForm(u1, readable, None, FALSE),
                        MCForm(u2, readable, k1, FALSE)}

MCSymmetry == Permutations(Worker) \cup Permutations(Document)
=============================================================================
