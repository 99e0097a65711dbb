--------------------------- MODULE MCDraftChunks ---------------------------
(***************************************************************************)
(* An instance of DraftChunks for TLC: two chunks of one rule, which the   *)
(* operator's own policy already has.                                      *)
(***************************************************************************)
EXTENDS DraftChunks, TLC

CONSTANTS k1, k2, n1, b1, b2, bOp, bNew, w1, w2

MCNameOf == (k1 :> n1) @@ (k2 :> n1)
MCBinaryOf == (k1 :> b1) @@ (k2 :> b2)
MCOperator == n1 :> {bOp}

AllKinds == ChunkKinds \cup OtherKinds

WorkerSymmetry == Permutations(Workers)
=============================================================================
