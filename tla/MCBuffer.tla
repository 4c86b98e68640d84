------------------------------ MODULE MCBuffer ------------------------------
(***************************************************************************)
(* Instance of Buffer for TLC: bytes are bits, CR is 1 and LF is 0, and    *)
(* the sizes are small enough for every index to reach every edge.         *)
(***************************************************************************)
EXTENDS Buffer

MCWidths == {1, 2}
=============================================================================
