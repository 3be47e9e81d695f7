--------------------------- MODULE HashChain_proofs ---------------------------
(***************************************************************************)
(* Proof that IInv is an inductive invariant of HashChain, for any number  *)
(* of threads, transactions and requests, and that the safety properties   *)
(* checked by TLC follow from it.                                          *)
(***************************************************************************)
EXTENDS HashChain, TLAPS

USE BoundAssumption

\* The part of IInv that speaks of committed rows only.
ChainInv ==
  /\ CommittedApart
  /\ NoGap
  /\ HashesOK
  /\ ChainLinked
  /\ HistoryCommitted
  /\ SourcesSealed

\* It does not depend on anything but the two tables.
LEMMA ChainFrame ==
  ASSUME ChainInv, UNCHANGED <<links, sources>>
  PROVE  ChainInv'
BY DEF ChainInv, CommittedApart, NoGap, HashesOK, ChainLinked,
       HistoryCommitted, SourcesSealed

\* A thread that takes no step stays in order while links are only added.
LEMMA ThreadFrame ==
  ASSUME NEW w \in Workers, ThreadOK(w), links \subseteq links',
         pc'[w] = pc[w], req'[w] = req[w], last'[w] = last[w],
         newLink'[w] = newLink[w], newSource'[w] = newSource[w]
  PROVE  ThreadOK(w)'
BY DEF ThreadOK, HoldsLast, NextLink

\* Rolling back or forgetting uncommitted links creates no clash.
LEMMA ApartFrame ==
  ASSUME PendingApart, links' = links,
         \A w \in Workers : newLink'[w] \subseteq newLink[w]
  PROVE  PendingApart'
BY DEF PendingApart

\* Sealed operations stay sealed.
LEMMA AckFrame ==
  ASSUME AckSealed, links \subseteq links', replies' = replies
  PROVE  AckSealed'
BY DEF AckSealed

\* The row add_to_chain builds, when the thread is in order.
LEMMA NextLinkType ==
  ASSUME NEW w \in Workers, TypeOK, ThreadOK(w),
         pc[w] \in {"append", "commit"}
  PROVE  /\ NextLink(w) \in Link
         /\ NextLink(w).seq = last[w].seq + 1
         /\ NextLink(w).prev = last[w].hash
         /\ \E p \in Payloads :
              /\ NextLink(w).dataHash = DataHash(p)
              /\ NextLink(w).hash = Append(last[w].hash, p)
         /\ \E s \in newSource[w] :
              /\ newSource[w] = {s}
              /\ NextLink(w).kind = s.kind
              /\ NextLink(w).txn = s.txn
              /\ NextLink(w).src = s.id
<1> DEFINE data == DataToSeal(req[w].kind, req[w].txn)
           row == CHOOSE s \in newSource[w] : TRUE
<1>1. req[w] \in Requests
  BY DEF ThreadOK
<1>2. req[w].kind \in Kinds /\ req[w].txn \in Txns
  BY <1>1 DEF Requests
<1>3. data \in Payloads
  BY <1>2 DEF DataToSeal, Payloads
<1>4. PICK s \in newSource[w] : /\ newSource[w] = {s}
                                /\ s.kind = req[w].kind
                                /\ s.txn = req[w].txn
  BY DEF ThreadOK
<1>5. row = s
  BY <1>4
<1>6. s \in Source
  BY <1>4 DEF TypeOK
<1>7. s.id \in Nat
  BY <1>6 DEF Source
<1>8. last[w].seq \in Nat /\ last[w].hash \in Seq(Payloads)
  BY DEF TypeOK
<1>9. NextLink(w) = [seq |-> last[w].seq + 1, txn |-> req[w].txn,
                     kind |-> req[w].kind, src |-> s.id,
                     dataHash |-> DataHash(data), prev |-> last[w].hash,
                     hash |-> Append(last[w].hash, data)]
  BY <1>5 DEF NextLink, ChainHash
<1>10. Append(last[w].hash, data) \in Seq(Payloads)
  BY <1>3, <1>8
<1>11. NextLink(w) \in Link
  BY <1>2, <1>3, <1>7, <1>8, <1>9, <1>10 DEF Link
<1>12. QED
  BY <1>3, <1>4, <1>9, <1>11

\* Committing one pending link, together with its source row, extends the
\* chain by one link.
LEMMA CommitExtends ==
  ASSUME IInv, NEW w \in Workers, pc[w] = "commit", CommitRows({w})
  PROVE  /\ ChainInv'
         /\ links \subseteq links'
         /\ links' \subseteq Link
         /\ sources' \subseteq Source
         /\ \E l \in links' : l.txn = req[w].txn
<1> DEFINE n == NextLink(w)
<1>1. TypeOK /\ ThreadOK(w) /\ PendingApart
  BY DEF IInv
<1>2. newLink[w] = {n}
  BY <1>1 DEF ThreadOK
<1>3. PICK s \in newSource[w] : /\ newSource[w] = {s}
                                /\ n.kind = s.kind
                                /\ n.txn = s.txn
                                /\ n.src = s.id
  BY <1>1, NextLinkType
<1>4. links' = links \cup {n} /\ sources' = sources \cup {s}
  BY <1>2, <1>3 DEF CommitRows
<1>5. n \in Link /\ n.seq = last[w].seq + 1 /\ n.prev = last[w].hash
  BY <1>1, NextLinkType
<1>6. PICK p \in Payloads : /\ n.dataHash = DataHash(p)
                            /\ n.hash = Append(last[w].hash, p)
  BY <1>1, NextLinkType
<1>7. last[w].seq \in Nat /\ last[w].hash \in Seq(Payloads)
  BY <1>1 DEF TypeOK
<1>8. \A l \in links : l.seq \in Nat /\ l.hash \in Seq(Payloads)
  BY <1>1 DEF TypeOK, Link
<1>9. \A m \in links : n.txn # m.txn /\ n.seq # m.seq
  BY <1>1, <1>2 DEF PendingApart, Clash
<1>10. \/ last[w] = Genesis
       \/ \E l \in links : l.seq = last[w].seq /\ l.hash = last[w].hash
  BY <1>1 DEF ThreadOK, HoldsLast
<1>11. Genesis.seq = 0 /\ Genesis.hash = << >> /\ GenesisHash = << >>
  BY DEF Genesis, GenesisHash
<1>12. CommittedApart'
  BY <1>4, <1>9 DEF IInv, CommittedApart, Clash
<1>13. n.seq >= 1 /\ Len(n.hash) = n.seq
  <2>1. Len(n.hash) = Len(last[w].hash) + 1
    BY <1>6, <1>7
  <2>2. Len(last[w].hash) = last[w].seq
    BY <1>10, <1>11 DEF IInv, HashesOK
  <2>3. QED
    BY <1>5, <1>7, <2>1, <2>2
<1>14. HashesOK'
  BY <1>4, <1>13 DEF IInv, HashesOK
<1>15. \A i \in 1..last[w].seq : \E m \in links : m.seq = i
  BY <1>10, <1>11 DEF IInv, NoGap
<1>16. NoGap'
  <2>1. \A i \in 1..n.seq : \E m \in links' : m.seq = i
    <3>1. n.seq = last[w].seq + 1 /\ n \in links' /\ links \subseteq links'
      BY <1>4, <1>5
    <3>2. TAKE i \in 1..n.seq
    <3>3. i \in 1..last[w].seq \/ i = n.seq
      BY <1>7, <3>1
    <3>4. QED
      BY <1>15, <3>1, <3>3
  <2>2. QED
    BY <1>4, <2>1 DEF IInv, NoGap
<1>17. ChainLinked'
  <2>1. \A l, m \in links' : l.seq = m.seq => l = m
    BY <1>12 DEF CommittedApart, Clash
  <2>2. \/ n.seq = 1 /\ n.prev = GenesisHash
        \/ \E m \in links : m.seq + 1 = n.seq /\ m.hash = n.prev
    BY <1>5, <1>10, <1>11
  <2>3. QED
    BY <1>4, <2>1, <2>2 DEF IInv, ChainLinked
<1>18. \A l \in links : l.seq < n.seq
  \* Otherwise the chain would already have a link numbered n.seq.
  <2>1. SUFFICES ASSUME NEW l \in links, ~(l.seq < n.seq)
                 PROVE  FALSE
    OBVIOUS
  <2>2. n.seq \in 1..l.seq
    BY <1>5, <1>7, <1>8, <2>1
  <2>3. PICK m \in links : m.seq = n.seq
    BY <2>2 DEF IInv, NoGap
  <2>4. QED
    BY <1>9, <2>3
<1>19. HistoryCommitted'
  <2>1. n.hash[n.seq] = p /\ n.seq \in DOMAIN n.hash
    BY <1>5, <1>6, <1>7, <1>10, <1>11, <1>13
  <2>2. \A m \in links : /\ m.seq \in DOMAIN n.hash
                         /\ DataHash(n.hash[m.seq]) = m.dataHash
    <3>1. SUFFICES ASSUME NEW m \in links
                   PROVE  /\ m.seq \in DOMAIN n.hash
                          /\ DataHash(n.hash[m.seq]) = m.dataHash
      OBVIOUS
    <3>2. m.seq < n.seq /\ m.seq >= 1 /\ m.seq \in Nat
      BY <1>8, <1>18 DEF IInv, HashesOK
    <3>3. last[w] # Genesis
      BY <1>5, <1>11, <3>2
    <3>4. PICK l \in links : l.seq = last[w].seq /\ l.hash = last[w].hash
      BY <1>10, <3>3
    <3>5. m.seq <= l.seq
      BY <1>5, <1>7, <3>2, <3>4
    <3>6. m.seq \in DOMAIN l.hash /\ DataHash(l.hash[m.seq]) = m.dataHash
      BY <3>5 DEF IInv, HistoryCommitted
    <3>7. n.hash[m.seq] = l.hash[m.seq] /\ m.seq \in DOMAIN n.hash
      BY <1>6, <1>7, <3>4, <3>6
    <3>8. QED
      BY <3>6, <3>7
  <2>3. \A l \in links : ~(n.seq <= l.seq)
    BY <1>5, <1>7, <1>8, <1>18
  <2>4. QED
    BY <1>4, <1>6, <2>1, <2>2, <2>3 DEF IInv, HistoryCommitted
<1>20. SourcesSealed'
  <2>1. \A r \in sources' :
          \E l \in links' : l.kind = r.kind /\ l.src = r.id /\ l.txn = r.txn
    BY <1>3, <1>4 DEF IInv, SourcesSealed
  <2>2. \A l \in links' :
          \E r \in sources' : l.kind = r.kind /\ l.src = r.id /\ l.txn = r.txn
    BY <1>3, <1>4 DEF IInv, SourcesSealed
  <2>3. \A r \in sources : r.txn # s.txn
    BY <1>3, <1>9 DEF IInv, SourcesSealed
  <2>4. \A r, q \in sources' : r.txn = q.txn => r = q
    BY <1>4, <2>3 DEF IInv, SourcesSealed
  <2>5. QED
    BY <2>1, <2>2, <2>4 DEF SourcesSealed
<1>21. s \in Source /\ n.txn = req[w].txn
  BY <1>1, <1>3 DEF TypeOK, NextLink
<1>22. QED
  BY <1>1, <1>4, <1>5, <1>12, <1>14, <1>16, <1>17, <1>19, <1>20, <1>21
     DEF ChainInv, TypeOK

\* Two threads never hold uncommitted links at the same time: the second one
\* would clash with the link numbers below its own.
LEMMA OnePending ==
  ASSUME IInv, NEW w \in Workers, NEW v \in Workers,
         pc[w] = "commit", pc[v] = "commit"
  PROVE  w = v
<1>1. SUFFICES ASSUME w # v PROVE FALSE
  OBVIOUS
<1>2. \A u \in Workers :
        pc[u] = "commit" =>
          /\ newLink[u] = {NextLink(u)}
          /\ NextLink(u).seq \in Nat
          /\ \A i \in 1..(NextLink(u).seq - 1) : \E m \in links : m.seq = i
          /\ \A m \in links : NextLink(u).seq # m.seq
          /\ NextLink(u).seq >= 1
  <2>1. SUFFICES ASSUME NEW u \in Workers, pc[u] = "commit"
                 PROVE  /\ newLink[u] = {NextLink(u)}
                        /\ NextLink(u).seq \in Nat
                        /\ \A i \in 1..(NextLink(u).seq - 1) :
                             \E m \in links : m.seq = i
                        /\ \A m \in links : NextLink(u).seq # m.seq
                        /\ NextLink(u).seq >= 1
    OBVIOUS
  <2>2. TypeOK /\ ThreadOK(u) /\ PendingApart
    BY DEF IInv
  <2>3. newLink[u] = {NextLink(u)}
    BY <2>1, <2>2 DEF ThreadOK
  <2>4. last[u].seq \in Nat /\ NextLink(u).seq = last[u].seq + 1
    BY <2>1, <2>2, NextLinkType DEF TypeOK
  <2>5. \/ last[u] = Genesis
        \/ \E l \in links : l.seq = last[u].seq /\ l.hash = last[u].hash
    BY <2>1, <2>2 DEF ThreadOK, HoldsLast
  <2>6. \A i \in 1..last[u].seq : \E m \in links : m.seq = i
    BY <2>5 DEF IInv, NoGap, Genesis
  <2>7. \A m \in links : NextLink(u).seq # m.seq
    BY <2>2, <2>3 DEF PendingApart, Clash
  <2>8. last[u].seq = NextLink(u).seq - 1
    BY <2>4
  <2>9. QED
    BY <2>3, <2>4, <2>6, <2>7, <2>8
<1>3. NextLink(w).seq # NextLink(v).seq
  BY <1>1, <1>2 DEF IInv, PendingApart, Clash
<1>4. CASE NextLink(w).seq < NextLink(v).seq
  <2>1. NextLink(w).seq \in 1..(NextLink(v).seq - 1)
    BY <1>2, <1>4
  <2>2. QED
    BY <1>2, <2>1
<1>5. CASE NextLink(v).seq < NextLink(w).seq
  <2>1. NextLink(v).seq \in 1..(NextLink(w).seq - 1)
    BY <1>2, <1>5
  <2>2. QED
    BY <1>2, <2>1
<1>6. QED
  BY <1>2, <1>3, <1>4, <1>5

\* Closing a session leaves its thread idle and the others as they were.
LEMMA CloseThreads ==
  ASSUME TypeOK, \A u \in Workers : ThreadOK(u), links \subseteq links',
         NEW w \in Workers, CloseSession(w)
  PROVE  /\ \A u \in Workers : ThreadOK(u)'
         /\ \A u \in Workers : newLink'[u] \subseteq newLink[u]
<1>1. ThreadOK(w)'
  BY DEF CloseSession, TypeOK, ThreadOK, HoldsLast
<1>2. \A u \in Workers \ {w} : ThreadOK(u)'
  BY ThreadFrame DEF CloseSession, TypeOK
<1>3. \A u \in Workers : newLink'[u] \subseteq newLink[u]
  BY DEF CloseSession, TypeOK
<1>4. QED
  BY <1>1, <1>2, <1>3

\* The types after a session is closed.
LEMMA CloseTypes ==
  ASSUME TypeOK, NEW w \in Workers, CloseSession(w), ThreadOK(w),
         pc[w] # "idle", UNCHANGED <<ids, served>>,
         links' \subseteq Link, sources' \subseteq Source,
         NEW status \in {200, 409, 422, 500}, Reply(w, status)
  PROVE  TypeOK'
<1>1. req[w].txn \in Txns
  BY DEF ThreadOK, Requests
<1>2. replies' \subseteq Txns \X {200, 409, 422, 500}
  BY <1>1 DEF TypeOK, Reply
<1>3. Genesis \in [seq : Nat, hash : Seq(Payloads)]
  BY DEF Genesis, GenesisHash
<1>4. QED
  BY <1>2, <1>3 DEF TypeOK, CloseSession

\* A request that ends without committing anything.
LEMMA EndStep ==
  ASSUME IInv, NEW w \in Workers, pc[w] # "idle", CloseSession(w),
         UNCHANGED <<links, sources, ids, served>>,
         NEW status \in {200, 409, 422, 500}, Reply(w, status),
         status \in {200, 409} => \E l \in links : l.txn = req[w].txn
  PROVE  IInv'
<1>1. TypeOK /\ (\A u \in Workers : ThreadOK(u)) /\ PendingApart /\ ChainInv
  BY DEF IInv, ChainInv
<1>2. TypeOK'
  <2>1. links' \subseteq Link /\ sources' \subseteq Source
    BY <1>1 DEF TypeOK
  <2>2. QED
    BY <1>1, <2>1, CloseTypes
<1>3. /\ \A u \in Workers : ThreadOK(u)'
      /\ \A u \in Workers : newLink'[u] \subseteq newLink[u]
  BY <1>1, CloseThreads
<1>4. PendingApart'
  BY <1>1, <1>3, ApartFrame
<1>5. ChainInv'
  BY <1>1, ChainFrame
<1>6. AckSealed'
  BY DEF IInv, AckSealed, Reply
<1>7. QED
  BY <1>2, <1>3, <1>4, <1>5, <1>6 DEF IInv, ChainInv

\* A request whose rows are committed.
LEMMA CommitStep ==
  ASSUME IInv, NEW w \in Workers, pc[w] = "commit", CommitRows({w}),
         CloseSession(w), UNCHANGED <<ids, served>>,
         NEW status \in {200, 409, 422, 500}, Reply(w, status)
  PROVE  IInv'
<1>1. TypeOK /\ (\A u \in Workers : ThreadOK(u))
  BY DEF IInv
<1>2. /\ ChainInv'
      /\ links \subseteq links'
      /\ links' \subseteq Link
      /\ sources' \subseteq Source
      /\ \E l \in links' : l.txn = req[w].txn
  BY CommitExtends
<1>3. TypeOK'
  BY <1>1, <1>2, CloseTypes
<1>4. /\ \A u \in Workers : ThreadOK(u)'
      /\ \A u \in Workers : newLink'[u] \subseteq newLink[u]
  BY <1>1, <1>2, CloseThreads
<1>5. PendingApart'
  <2>1. newLink'[w] = {}
    BY <1>1 DEF CloseSession, TypeOK
  <2>2. \A u \in Workers \ {w} : newLink'[u] = newLink[u] /\ newLink[u] = {}
    BY <1>1, OnePending DEF CloseSession, TypeOK, ThreadOK
  <2>3. QED
    BY <2>1, <2>2 DEF PendingApart
<1>6. AckSealed'
  BY <1>2 DEF IInv, AckSealed, Reply
<1>7. QED
  BY <1>2, <1>3, <1>4, <1>5, <1>6 DEF IInv, ChainInv

-------------------------------------------------------------------------------
(***************************************************************************)
(* The actions that only move thread w to its next statement.              *)
(***************************************************************************)

\* A step of w that touches neither the committed rows nor the replies.
LEMMA MoveStep ==
  ASSUME IInv, NEW w \in Workers, ThreadOK(w)', TypeOK', PendingApart',
         UNCHANGED <<links, sources, replies>>,
         \A u \in Workers \ {w} :
           /\ pc'[u] = pc[u]
           /\ req'[u] = req[u]
           /\ last'[u] = last[u]
           /\ newLink'[u] = newLink[u]
           /\ newSource'[u] = newSource[u]
  PROVE  IInv'
<1>1. \A u \in Workers \ {w} : ThreadOK(u)'
  BY ThreadFrame DEF IInv
<1>2. ChainInv'
  BY ChainFrame DEF IInv, ChainInv
<1>3. AckSealed'
  BY AckFrame DEF IInv
<1>4. QED
  BY <1>1, <1>2, <1>3 DEF IInv, ChainInv

\* Receive: the thread takes a request and holds no row yet.
LEMMA ReceiveStep ==
  ASSUME IInv, NEW w \in Workers, NEW k \in Kinds, NEW t \in Txns,
         Receive(w, k, t)
  PROVE  IInv'
<1>1. TypeOK /\ ThreadOK(w)
  BY DEF IInv
<1>2. TypeOK'
  BY <1>1 DEF TypeOK, Receive, Requests, Statements
<1>3. ThreadOK(w)'
  BY <1>1 DEF TypeOK, Receive, Requests, ThreadOK, HoldsLast
<1>4. PendingApart'
  BY DEF IInv, PendingApart, Receive
<1>5. QED
  BY <1>1, <1>2, <1>3, <1>4, MoveStep DEF Receive, TypeOK

\* Check: a duplicate that is reported has its link committed, for the shared
\* read waits for uncommitted ones.
LEMMA CheckStep ==
  ASSUME IInv, NEW w \in Workers, Check(w)
  PROVE  IInv'
<1>1. TypeOK /\ ThreadOK(w) /\ pc[w] = "check"
  BY DEF IInv, Check
<1>2. CASE IsDuplicate(req[w].txn) /\ Reply(w, 409) /\ CloseSession(w)
  <2>1. \E l \in links : l.txn = req[w].txn
    BY <1>1, <1>2 DEF Check, IsDuplicate, Rows, Readable, ThreadOK
  <2>2. QED
    BY <1>1, <1>2, <2>1, EndStep DEF Check
<1>3. CASE Reply(w, 422) /\ CloseSession(w)
  BY <1>1, <1>3, EndStep DEF Check
<1>4. CASE /\ pc' = [pc EXCEPT ![w] = "insert"]
           /\ UNCHANGED <<req, last, scan, newLink, newSource, replies>>
  <2>1. TypeOK'
    BY <1>1, <1>4 DEF Check, TypeOK, Statements
  <2>2. ThreadOK(w)'
    BY <1>1, <1>4 DEF Check, TypeOK, ThreadOK, HoldsLast
  <2>3. PendingApart'
    BY <1>4 DEF Check, IInv, PendingApart
  <2>4. UNCHANGED <<links, sources, replies>>
    BY <1>4 DEF Check
  <2>5. \A u \in Workers \ {w} :
          /\ pc'[u] = pc[u]
          /\ req'[u] = req[u]
          /\ last'[u] = last[u]
          /\ newLink'[u] = newLink[u]
          /\ newSource'[u] = newSource[u]
    BY <1>1, <1>4 DEF TypeOK
  <2>6. QED
    BY <2>1, <2>2, <2>3, <2>4, <2>5, MoveStep
<1>5. QED
  BY <1>2, <1>3, <1>4 DEF Check

\* InsertSource: exactly one uncommitted source row, that of the request.
LEMMA InsertSourceStep ==
  ASSUME IInv, NEW w \in Workers, InsertSource(w)
  PROVE  IInv'
<1> DEFINE k == req[w].kind
           row == [kind |-> k, id |-> ids[k] + 1, txn |-> req[w].txn]
<1>1. TypeOK /\ ThreadOK(w) /\ pc[w] = "insert"
  BY DEF IInv, InsertSource
<1>2. req[w] \in Requests /\ k \in Kinds /\ req[w].txn \in Txns
  BY <1>1 DEF ThreadOK, Requests
<1>3. ids[k] + 1 \in Nat
  BY <1>1, <1>2 DEF TypeOK
<1>4. row \in Source
  BY <1>2, <1>3 DEF Source
<1>5. /\ ids' = [ids EXCEPT ![k] = ids[k] + 1]
      /\ newSource' = [newSource EXCEPT ![w] = {row}]
      /\ pc' = [pc EXCEPT ![w] = "seal"]
      /\ UNCHANGED <<req, last, scan, links, newLink, sources, replies, served>>
  BY DEF InsertSource
<1>6. TypeOK'
  <2>1. ids' \in [Kinds -> Nat]
    BY <1>1, <1>3, <1>5 DEF TypeOK
  <2>2. newSource' \in [Workers -> SUBSET Source]
    BY <1>1, <1>4, <1>5 DEF TypeOK
  <2>3. pc' \in [Workers -> Statements \cup {"idle"}]
    BY <1>1, <1>5 DEF TypeOK, Statements
  <2>4. QED
    BY <1>1, <1>5, <2>1, <2>2, <2>3 DEF TypeOK
<1>7. ThreadOK(w)'
  <2>1. newSource'[w] = {row} /\ pc'[w] = "seal"
    BY <1>1, <1>5 DEF TypeOK
  <2>2. newLink'[w] = {} /\ req'[w] = req[w]
    BY <1>1, <1>5 DEF ThreadOK
  <2>3. row.kind = req[w].kind /\ row.txn = req[w].txn
    OBVIOUS
  <2>4. QED
    BY <1>2, <2>1, <2>2, <2>3 DEF ThreadOK, HoldsLast
<1>8. PendingApart'
  BY <1>5 DEF IInv, PendingApart
<1>9. QED
  BY <1>1, <1>5, <1>6, <1>7, <1>8, MoveStep DEF TypeOK

\* AwaitLast: only the position of the scan changes.
LEMMA AwaitLastStep ==
  ASSUME IInv, NEW w \in Workers, AwaitLast(w)
  PROVE  IInv'
<1>1. TypeOK /\ PendingApart
  BY DEF IInv
<1>2. PICK l \in Rows : scan' = [scan EXCEPT ![w] = l.seq]
  BY DEF AwaitLast
<1>3. UNCHANGED <<pc, req, last, links, newLink, sources, newSource, ids,
                  replies, served>>
  BY DEF AwaitLast
<1>4. l \in Link
  BY <1>1 DEF TypeOK, Rows
<1>5. scan' \in [Workers -> Nat]
  BY <1>1, <1>2, <1>4 DEF TypeOK, Link
<1>6. TypeOK'
  BY <1>1, <1>3, <1>5 DEF TypeOK
<1>7. ThreadOK(w)'
  BY <1>3, ThreadFrame DEF IInv
<1>8. PendingApart'
  BY <1>1, <1>3, ApartFrame
<1>9. QED
  BY <1>3, <1>6, <1>7, <1>8, MoveStep

\* GetLast: a row that no other thread has locked is committed.
LEMMA GetLastStep ==
  ASSUME IInv, NEW w \in Workers, GetLast(w)
  PROVE  IInv'
<1>1. TypeOK /\ ThreadOK(w) /\ PendingApart /\ pc[w] = "seal"
  BY DEF IInv, GetLast
<1>2. /\ scan' = [scan EXCEPT ![w] = 0]
      /\ pc' = [pc EXCEPT ![w] = "append"]
      /\ UNCHANGED <<req, links, newLink, sources, newSource, ids, replies,
                     served>>
  BY DEF GetLast
<1>3. \/ last' = [last EXCEPT ![w] = Genesis]
      \/ \E l \in links : last' = [last EXCEPT ![w] = [seq  |-> l.seq,
                                                       hash |-> l.hash]]
  <2>1. \A l \in Rows : ~LockedFor(w, l) => l \in links
    BY <1>1 DEF Rows, LockedFor, Locks, ThreadOK
  <2>2. QED
    BY <2>1 DEF GetLast
<1>4. PICK r : /\ last' = [last EXCEPT ![w] = r]
               /\ \/ r = Genesis
                  \/ \E l \in links : r = [seq |-> l.seq, hash |-> l.hash]
  BY <1>3
<1>5. r \in [seq : Nat, hash : Seq(Payloads)]
  <2>1. CASE r = Genesis
    <3>1. << >> \in Seq(Payloads)
      OBVIOUS
    <3>2. QED
      BY <2>1, <3>1 DEF Genesis, GenesisHash
  <2>2. CASE \E l \in links : r = [seq |-> l.seq, hash |-> l.hash]
    <3>1. PICK l \in links : r = [seq |-> l.seq, hash |-> l.hash]
      BY <2>2
    <3>2. l.seq \in Nat /\ l.hash \in Seq(Payloads)
      BY <1>1 DEF TypeOK, Link
    <3>3. QED
      BY <3>1, <3>2
  <2>3. QED
    BY <1>4, <2>1, <2>2
<1>6. TypeOK'
  <2>1. last' \in [Workers -> [seq : Nat, hash : Seq(Payloads)]]
    BY <1>1, <1>4, <1>5 DEF TypeOK
  <2>2. scan' \in [Workers -> Nat]
    BY <1>1, <1>2 DEF TypeOK
  <2>3. pc' \in [Workers -> Statements \cup {"idle"}]
    BY <1>1, <1>2 DEF TypeOK, Statements
  <2>4. QED
    BY <1>1, <1>2, <2>1, <2>2, <2>3 DEF TypeOK
<1>7. ThreadOK(w)'
  <2>1. last'[w] = r /\ pc'[w] = "append"
    BY <1>1, <1>2, <1>4 DEF TypeOK
  <2>2. \/ r = Genesis
        \/ \E l \in links' : l.seq = r.seq /\ l.hash = r.hash
    BY <1>2, <1>4
  <2>3. newLink'[w] = {} /\ newSource'[w] = newSource[w] /\ req'[w] = req[w]
    BY <1>1, <1>2 DEF ThreadOK
  <2>4. QED
    BY <1>1, <2>1, <2>2, <2>3 DEF ThreadOK, HoldsLast
<1>8. PendingApart'
  BY <1>1, <1>2, ApartFrame
<1>9. \A u \in Workers \ {w} :
        /\ pc'[u] = pc[u]
        /\ req'[u] = req[u]
        /\ last'[u] = last[u]
        /\ newLink'[u] = newLink[u]
        /\ newSource'[u] = newSource[u]
  BY <1>1, <1>2, <1>4 DEF TypeOK
<1>10. QED
  BY <1>2, <1>6, <1>7, <1>8, <1>9, MoveStep

\* SealLink: the UNIQUE constraints keep the new link apart from all rows.
LEMMA SealLinkStep ==
  ASSUME IInv, NEW w \in Workers, SealLink(w)
  PROVE  IInv'
<1> DEFINE n == NextLink(w)
<1>1. TypeOK /\ ThreadOK(w) /\ PendingApart /\ pc[w] = "append"
  BY DEF IInv, SealLink
<1>2. /\ newLink' = [newLink EXCEPT ![w] = {n}]
      /\ pc' = [pc EXCEPT ![w] = "commit"]
      /\ UNCHANGED <<req, last, scan, links, sources, newSource, ids, replies,
                     served>>
      /\ \A l \in Rows : ~Clash(l, n)
  BY DEF SealLink
<1>3. n \in Link
  BY <1>1, NextLinkType
<1>4. TypeOK'
  <2>1. newLink' \in [Workers -> SUBSET Link]
    BY <1>1, <1>2, <1>3 DEF TypeOK
  <2>2. pc' \in [Workers -> Statements \cup {"idle"}]
    BY <1>1, <1>2 DEF TypeOK, Statements
  <2>3. QED
    BY <1>1, <1>2, <2>1, <2>2 DEF TypeOK
<1>5. ThreadOK(w)'
  <2>1. newLink'[w] = {n} /\ pc'[w] = "commit"
    BY <1>1, <1>2 DEF TypeOK
  <2>2. NextLink(w)' = n
    BY <1>2 DEF NextLink
  <2>3. req'[w] = req[w] /\ last'[w] = last[w] /\ newSource'[w] = newSource[w]
    BY <1>2
  <2>4. QED
    BY <1>1, <1>2, <2>1, <2>2, <2>3 DEF ThreadOK, HoldsLast
<1>6. \A u \in Workers \ {w} :
        /\ pc'[u] = pc[u]
        /\ req'[u] = req[u]
        /\ last'[u] = last[u]
        /\ newLink'[u] = newLink[u]
        /\ newSource'[u] = newSource[u]
  BY <1>1, <1>2 DEF TypeOK
<1>7. PendingApart'
  <2>1. newLink'[w] = {n}
    BY <1>1, <1>2 DEF TypeOK
  <2>2. \A m \in Rows : ~Clash(n, m) /\ ~Clash(m, n)
    BY <1>2 DEF Clash
  <2>3. \A u \in Workers \ {w} : \A m \in newLink[u] : m \in Rows
    BY DEF Rows
  <2>4. \A m \in links : m \in Rows
    BY DEF Rows
  <2>5. \A u \in Workers : \A l \in newLink'[u] : \A m \in links' : ~Clash(l, m)
    BY <1>1, <1>2, <1>6, <2>1, <2>2, <2>4 DEF PendingApart
  <2>6. \A u \in Workers : \A l \in newLink'[u] :
          \A v \in Workers \ {u} : \A m \in newLink'[v] : ~Clash(l, m)
    BY <1>1, <1>6, <2>1, <2>2, <2>3 DEF PendingApart
  <2>7. QED
    BY <2>5, <2>6 DEF PendingApart
<1>8. QED
  BY <1>2, <1>4, <1>5, <1>6, <1>7, MoveStep

-------------------------------------------------------------------------------
(***************************************************************************)
(* The actions that end a request, and the crash of the process.           *)
(***************************************************************************)

\* A commit that may or may not have been executed adds the rows of at most one
\* thread.
LEMMA CrashStep ==
  ASSUME IInv, Crash
  PROVE  IInv'
<1>1. TypeOK /\ (\A u \in Workers : ThreadOK(u))
  BY DEF IInv
<1>2. /\ pc' = [w \in Workers |-> "idle"]
      /\ req' = [w \in Workers |-> NoRequest]
      /\ last' = [w \in Workers |-> Genesis]
      /\ scan' = [w \in Workers |-> 0]
      /\ newLink' = [w \in Workers |-> {}]
      /\ newSource' = [w \in Workers |-> {}]
      /\ UNCHANGED <<ids, replies, served>>
  BY DEF Crash
<1>3. PICK ws \in SUBSET {w \in Workers : pc[w] = "commit"} : CommitRows(ws)
  BY DEF Crash
<1>4. /\ ChainInv'
      /\ links \subseteq links'
      /\ links' \subseteq Link
      /\ sources' \subseteq Source
  <2>1. CASE ws = {}
    <3>1. UNCHANGED <<links, sources>>
      BY <1>3, <2>1 DEF CommitRows
    <3>2. QED
      BY <1>1, <3>1, ChainFrame DEF IInv, ChainInv, TypeOK
  <2>2. CASE ws # {}
    <3>1. PICK w \in ws : TRUE
      BY <2>2
    <3>2. w \in Workers /\ pc[w] = "commit"
      BY <1>3, <3>1
    <3>3. ws = {w}
      BY <1>3, <3>1, OnePending
    <3>4. CommitRows({w})
      BY <1>3, <3>3
    <3>5. QED
      BY <3>2, <3>4, CommitExtends
  <2>3. QED
    BY <2>1, <2>2
<1>5. TypeOK'
  <2>1. Genesis \in [seq : Nat, hash : Seq(Payloads)]
    BY DEF Genesis, GenesisHash
  <2>2. QED
    BY <1>1, <1>2, <1>4, <2>1 DEF TypeOK
<1>6. \A w \in Workers : ThreadOK(w)'
  BY <1>2 DEF ThreadOK, HoldsLast
<1>7. PendingApart'
  BY <1>2 DEF PendingApart
<1>8. AckSealed'
  BY <1>2, <1>4, AckFrame DEF IInv
<1>9. QED
  BY <1>4, <1>5, <1>6, <1>7, <1>8 DEF IInv, ChainInv

\* Abort: the rows of the thread are rolled back or, of a failing commit, kept.
LEMMA AbortStep ==
  ASSUME IInv, NEW w \in Workers, Abort(w)
  PROVE  IInv'
<1>1. CASE CommitRows({})
  <2>1. UNCHANGED <<links, sources>>
    BY <1>1 DEF CommitRows
  <2>2. QED
    BY <2>1, EndStep DEF Abort
<1>2. CASE pc[w] = "commit" /\ CommitRows({w})
  BY <1>2, CommitStep DEF Abort
<1>3. QED
  BY <1>1, <1>2 DEF Abort

-------------------------------------------------------------------------------
\* The initial state satisfies the invariant.
LEMMA InitInv == Init => IInv
<1>1. SUFFICES ASSUME Init PROVE IInv
  OBVIOUS
<1>2. TypeOK
  <2>1. Genesis \in [seq : Nat, hash : Seq(Payloads)]
    BY DEF Genesis, GenesisHash
  <2>2. QED
    BY <1>1, <2>1 DEF Init, TypeOK
<1>3. \A w \in Workers : ThreadOK(w)
  BY <1>1 DEF Init, ThreadOK, HoldsLast
<1>4. QED
  BY <1>1, <1>2, <1>3 DEF Init, IInv, PendingApart, CommittedApart, NoGap,
     HashesOK, ChainLinked, HistoryCommitted, SourcesSealed, AckSealed

\* Every step preserves it.
LEMMA NextInv == IInv /\ [Next]_vars => IInv'
<1>1. SUFFICES ASSUME IInv, [Next]_vars PROVE IInv'
  OBVIOUS
<1>2. CASE \E w \in Workers, k \in Kinds, t \in Txns : Receive(w, k, t)
  BY <1>1, <1>2, ReceiveStep
<1>3. ASSUME NEW w \in Workers, Step(w) PROVE IInv'
  <2>1. CASE Check(w)
    BY <1>1, <2>1, CheckStep
  <2>2. CASE InsertSource(w)
    BY <1>1, <2>2, InsertSourceStep
  <2>3. CASE AwaitLast(w)
    BY <1>1, <2>3, AwaitLastStep
  <2>4. CASE GetLast(w)
    BY <1>1, <2>4, GetLastStep
  <2>5. CASE SealLink(w)
    BY <1>1, <2>5, SealLinkStep
  <2>6. CASE SealRefused(w)
    BY <1>1, <2>6, EndStep DEF SealRefused
  <2>7. CASE Commit(w)
    BY <1>1, <2>7, CommitStep DEF Commit
  <2>8. QED
    BY <1>3, <2>1, <2>2, <2>3, <2>4, <2>5, <2>6, <2>7 DEF Step
<1>4. ASSUME NEW w \in Workers, Abort(w) PROVE IInv'
  BY <1>1, <1>4, AbortStep
<1>5. CASE Crash
  BY <1>1, <1>5, CrashStep
<1>6. CASE UNCHANGED vars
  <2>1. \A w \in Workers : ThreadOK(w)'
    BY <1>1, <1>6 DEF vars, IInv, ThreadOK, HoldsLast, NextLink
  <2>2. QED
    BY <1>1, <1>6, <2>1 DEF vars, IInv, TypeOK, PendingApart, CommittedApart,
       NoGap, HashesOK, ChainLinked, HistoryCommitted, SourcesSealed, AckSealed
<1>7. QED
  BY <1>1, <1>2, <1>3, <1>4, <1>5, <1>6 DEF Next

\* The inductive invariant holds in every reachable state, whatever the number
\* of threads, requests, aborts and crashes (get_last_chain_hash, add_to_chain
\* and the two services that call them).
THEOREM Invariance == Spec => []IInv
<1>1. Init => IInv
  BY InitInv
<1>2. IInv /\ [Next]_vars => IInv'
  BY NextInv
<1>3. QED
  BY <1>1, <1>2, PTL DEF Spec

\* Every variable keeps its type.
THEOREM TypeCorrect == Spec => []TypeOK
<1>1. IInv => TypeOK
  BY DEF IInv
<1>2. QED
  BY <1>1, Invariance, PTL

\* The committed links are one chain from the genesis hash, without fork or
\* gap, although get_last_chain_hash may return a stale link.
THEOREM ChainIsLinked == Spec => []ChainLinked
<1>1. IInv => ChainLinked
  BY DEF IInv
<1>2. QED
  BY <1>1, Invariance, PTL

\* Each chain hash commits to the data of all links up to its own.
THEOREM HistoryIsCommitted == Spec => []HistoryCommitted
<1>1. IInv => HistoryCommitted
  BY DEF IInv
<1>2. QED
  BY <1>1, Invariance, PTL

\* Source rows and links correspond one to one: nothing is recorded without
\* being sealed, sealed without being recorded, or recorded twice.
THEOREM SourcesAreSealed == Spec => []SourcesSealed
<1>1. IInv => SourcesSealed
  BY DEF IInv
<1>2. QED
  BY <1>1, Invariance, PTL

\* An operation answered 200 or 409 is in the chain.
THEOREM AcknowledgedIsSealed == Spec => []AckSealed
<1>1. IInv => AckSealed
  BY DEF IInv
<1>2. QED
  BY <1>1, Invariance, PTL
===============================================================================
