--------------------------- MODULE MCTransactions ---------------------------
(***************************************************************************)
(* Instances of Transactions for TLC.                                      *)
(***************************************************************************)
EXTENDS Transactions, TLC

CONSTANTS t1, t2

NoSide == {}
TriggerOnT1 == {<<t1, t2>>}

Symmetry == Permutations(Sessions) \cup Permutations(Names)
=============================================================================
