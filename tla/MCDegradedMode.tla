---------------------------- MODULE MCDegradedMode ----------------------------
(***************************************************************************)
(* Instances of DegradedMode for TLC.                                      *)
(***************************************************************************)
EXTENDS DegradedMode, TLC

CONSTANTS s1, f1, m, p1, p2, t1, t2

\* Every packet carries an operation of its own.
Apart == (p1 :> t1) @@ (p2 :> t2)

\* The packets carry the same operation, encrypted twice.
Same == [p \in {p1, p2} |-> t1]

Single == [p \in {p1} |-> t1]

\* With Apart, exchanging the packets exchanges their operations.
ApartSymmetry ==
  {f \in Permutations({p1, p2, t1, t2}) :
     \A p \in {p1, p2} : f[p] \in {p1, p2} /\ f[Apart[p]] = Apart[f[p]]}
===============================================================================
