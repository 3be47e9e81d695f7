----------------------- MODULE ChainVerification_proofs -----------------------
(***************************************************************************)
(* Proof of what verify_single_transaction gets right, for every chain     *)
(* that the threads of HashChain can build.                                *)
(***************************************************************************)
EXTENDS ChainVerification, HashChain_refines, TLAPS

\* What process_controle and process_vente put under the data hash of a link.
DataOK == \A l \in links : l.dataHash = DataHash(DataToSeal(l.kind, l.txn))

\* The data of a new link is that of the request it seals.
LEMMA DataStep == IInv /\ DataOK /\ [Next]_vars => DataOK'
<1>1. SUFFICES ASSUME IInv, DataOK, [Next]_vars PROVE DataOK'
  OBVIOUS
<1>2. CASE links' = links
  BY <1>1, <1>2 DEF DataOK
<1>3. ASSUME NEW w \in Workers, pc[w] = "commit", CommitRows({w})
      PROVE  DataOK'
  <2>1. newLink[w] = {NextLink(w)}
    BY <1>1, <1>3 DEF IInv, ThreadOK
  <2>2. links' = links \cup {NextLink(w)}
    BY <1>3, <2>1 DEF CommitRows
  <2>3. /\ NextLink(w).kind = req[w].kind
        /\ NextLink(w).txn = req[w].txn
        /\ NextLink(w).dataHash = DataHash(DataToSeal(req[w].kind, req[w].txn))
    BY DEF NextLink
  <2>4. QED
    BY <1>1, <2>2, <2>3 DEF DataOK
<1>4. QED
  BY <1>1, <1>2, <1>3, StepEffect

\* A link verifies against the payload as received exactly if it is a control.
LEMMA VerifiesIfControl == IInv /\ DataOK => ControlVerifies
<1>1. SUFFICES ASSUME IInv, DataOK, NEW t \in Txns
               PROVE  VerifySingle(Received(t)) <=>
                        \E s \in sources : s.txn = t /\ s.kind = "controle"
  BY DEF ControlVerifies
<1>2. \A l \in links : l.kind \in Kinds
  BY <1>1 DEF IInv, TypeOK, Link
<1>3. \A l \in links : l.txn = t =>
        (l.dataHash = DataHash(Received(t)) <=> l.kind = "controle")
  <2>1. TAKE l \in links
  <2>2. HAVE l.txn = t
  <2>3. l.dataHash = DataHash([txn |-> t, billet |-> (l.kind = "vente")])
    BY <1>1, <2>2 DEF DataOK, DataToSeal
  <2>4. CASE l.kind = "controle"
    BY <2>3, <2>4 DEF Received
  <2>5. CASE l.kind = "vente"
    <3>1. l.dataHash.sha256.billet = TRUE
      <4>1. (l.kind = "vente") = TRUE
        BY <2>5
      <4>2. l.dataHash = DataHash([txn |-> t, billet |-> TRUE])
        BY <2>3, <4>1, Zenon
      <4>3. QED
        BY <4>2 DEF DataHash
    <3>2. DataHash(Received(t)).sha256.billet = FALSE
      BY DEF DataHash, Received
    <3>3. l.kind # "controle"
      BY <2>5
    <3>4. QED
      BY <3>1, <3>2, <3>3
  <2>6. QED
    BY <1>2, <2>4, <2>5 DEF Kinds
<1>4. VerifySingle(Received(t)) <=>
        \E l \in links : l.txn = t /\ l.kind = "controle"
  BY <1>3 DEF VerifySingle, Received
<1>5. (\E l \in links : l.txn = t /\ l.kind = "controle") <=>
        \E s \in sources : s.txn = t /\ s.kind = "controle"
  BY <1>1 DEF IInv, SourcesSealed
<1>6. QED
  BY <1>4, <1>5

-------------------------------------------------------------------------------
\* verify_single_transaction accepts the payloads of the sealed controls, as the
\* terminals sent them, and no other one: neither of a sale (process_vente puts
\* the ticket number in) nor of an operation that was rolled back.
THEOREM ControlsVerify == Spec => []ControlVerifies
<1>1. Init => DataOK
  BY DEF Init, DataOK
<1>2. IInv /\ DataOK /\ [Next]_vars => DataOK'
  BY DataStep
<1>3. IInv /\ DataOK => ControlVerifies
  BY VerifiesIfControl
<1>4. QED
  BY <1>1, <1>2, <1>3, Invariance, PTL DEF Spec
===============================================================================
