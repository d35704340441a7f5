------------------------ MODULE MCQuestionAnswering ------------------------
(***************************************************************************)
(* A small instance of QuestionAnswering.                                  *)
(***************************************************************************)
EXTENDS QuestionAnswering

CONSTANTS q1, q2, x, xUpper, y, blank, unknown

MCQuestion == {q1, q2}
MCChunk == {1, 2}
MCClaim == {x, xUpper, y}
MCFold(c) == IF c = xUpper THEN x ELSE c

(***************************************************************************)
(* A list in which two claims differ in case only and one item is not a    *)
(* claim, and one without claims.                                          *)
(***************************************************************************)
MCClaimList == {<<x, xUpper, blank, y>>, <<>>}

(***************************************************************************)
(* The model may repeat itself or name a chunk it was not shown.           *)
(***************************************************************************)
MCChunkIds == {<<unknown, 2, 1, 2>>}
=============================================================================
