----------------------------- MODULE MCSparseTree -----------------------------
(* Instances of SparseTree for TLC.                                        *)
EXTENDS SparseTree, TLC

CONSTANTS word, wide

MCValues == {word, wide}
MCWords == {word}
MCForeign == {[p \in Positions |-> IF p \in {0, 3} THEN word ELSE IF p = 1 THEN wide ELSE Null]}
=============================================================================
