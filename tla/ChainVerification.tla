--------------------------- MODULE ChainVerification --------------------------
(***************************************************************************)
(* verify_full_chain and verify_single_transaction, evaluated on every     *)
(* state of the tables that HashChain reaches: each is one SELECT at READ  *)
(* COMMITTED, so that it sees the committed links.                         *)
(***************************************************************************)
EXTENDS HashChain

\* "Proxy : DataHash represente le payload": what the verification hashes in
\* the place of the payload.
Proxy(l) == [_hash |-> l.dataHash]

\* expected_previous when the loop comes to row l: the hash of the row before.
Expected(l) ==
  LET before == {m \in links : m.seq < l.seq}
  IN  IF before = {}
        THEN GenesisHash
        ELSE (CHOOSE m \in before : \A o \in before : o.seq <= m.seq).hash

\* "Rupture de chaine": the row does not point to the row before it.
Rupture(l) == l.prev # Expected(l)

\* "Hash corrompu": the hash recomputed from the row is not the one it holds.
Corrupt(l) == ChainHash(Proxy(l), l.prev) # l.hash

Faulty == {l \in links : Rupture(l) \/ Corrupt(l)}

\* The loop returns at the first faulty row; no later row is looked at.
FirstFaulty == CHOOSE l \in Faulty : \A m \in Faulty : l.seq <= m.seq

\* verify_full_chain: valid, total, broken_at (0 for None) and the kind of error.
VerifyFullChain ==
  [valid  |-> Faulty = {},
   total  |-> Height,
   broken |-> IF Faulty = {} THEN 0 ELSE FirstFaulty.seq,
   error  |-> IF Faulty = {} THEN "none"
              ELSE IF Rupture(FirstFaulty) THEN "rupture" ELSE "corrupt"]

\* verify_single_transaction on payload p.
VerifySingle(p) ==
  \E l \in links : l.txn = p.txn /\ l.dataHash = DataHash(p)

-------------------------------------------------------------------------------
\* verify_single_transaction accepts the payload a terminal sent of every
\* sealed control, and no payload of an operation that is not sealed: a control
\* whose request was rolled back does not verify.
ControlVerifies ==
  \A t \in Txns :
    VerifySingle(Received(t)) <=>
      \E s \in sources : s.txn = t /\ s.kind = "controle"

\* "Une chaine correctement construite doit passer la verification."
BuiltChainVerifies == VerifyFullChain.valid
===============================================================================
