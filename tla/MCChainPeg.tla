----------------------------- MODULE MCChainPeg -----------------------------
(***************************************************************************)
(* Instances of ChainPeg for TLC.                                          *)
(***************************************************************************)
EXTENDS ChainPeg, TLC

CONSTANTS hA, hB  \* two headers

\* One block under genesis (with or without simple transactions).
OneBlockParent == [h \in Headers |-> Genesis]
TwoTransactions == [h \in Headers |-> 2]
NoSimpleTx == [h \in Headers |-> {}]
SecondTxSimple == [h \in Headers |-> {1}]
AllTxSimple == [h \in Headers |-> {0, 1}]

\* Two siblings: one with a simple transaction beside another, one without
\* transactions, which nobody can challenge.
FirstHasTwo == [h \in Headers |-> IF h = hA THEN 2 ELSE 0]
FirstMixed == [h \in Headers |-> IF h = hA THEN {1} ELSE {}]

Symmetry == Permutations(Accounts)
=============================================================================
