-------------------------------- MODULE Ledger --------------------------------
(***************************************************************************)
(* What the Back-Office promises to the terminals, whatever happens inside *)
(* it: the operations it has sealed form one list that only grows at its   *)
(* end, and no operation is ever sealed twice.  HashChain implements this  *)
(* specification; DegradedMode uses it as its picture of the Back-Office.  *)
(***************************************************************************)
EXTENDS Naturals, Sequences

CONSTANT Txns       \* transaction ids (the uuid inside the encrypted payload)

VARIABLE ledger     \* the ids sealed so far, in order

Sealed == {ledger[i] : i \in DOMAIN ledger}

Init == ledger = << >>

Seal(t) ==
  /\ t \notin Sealed
  /\ ledger' = Append(ledger, t)

Next == \E t \in Txns : Seal(t)

Spec == Init /\ [][Next]_ledger
===============================================================================
