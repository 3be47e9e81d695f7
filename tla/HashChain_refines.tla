-------------------------- MODULE HashChain_refines ---------------------------
(***************************************************************************)
(* Proof that HashChain implements Ledger: read in the order of Sequence,  *)
(* the committed links are a list of operations that only grows at its     *)
(* end, by operations that are not in it.                                  *)
(* And, from the same invariants, that its locks cannot deadlock.          *)
(***************************************************************************)
EXTENDS HashChain_proofs

\* h is the number of the last committed link, 0 if there is none.
IsHeight(h) ==
  /\ h = 0 \/ \E l \in links : l.seq = h
  /\ \A l \in links : l.seq <= h

\* There is a last link.  (Nothing in IInv says that links is finite.)
HasHeight == \E h \in Nat : IsHeight(h)

\* The expression that Height abbreviates picks that number.
LEMMA ChosenHeight ==
  ASSUME NEW S, \A l \in S : l.seq \in Nat,
         NEW h \in Nat, h = 0 \/ \E l \in S : l.seq = h,
         \A l \in S : l.seq <= h
  PROVE  (CHOOSE n \in {0} \cup {l.seq : l \in S} : \A l \in S : l.seq <= n) = h
<1> DEFINE N == {0} \cup {l.seq : l \in S}
           n == CHOOSE i \in N : \A l \in S : l.seq <= i
<1>1. h \in N
  OBVIOUS
<1>2. n \in N /\ \A l \in S : l.seq <= n
  BY <1>1
<1>3. n \in Nat /\ n <= h
  BY <1>2
<1>4. h <= n
  BY <1>2, <1>3
<1>5. QED
  BY <1>3, <1>4

\* The expression that Sequence uses picks the one link with a given number.
LEMMA ChosenLink ==
  ASSUME NEW S, \A l, m \in S : l.seq = m.seq => l = m, NEW m \in S
  PROVE  (CHOOSE l \in S : l.seq = m.seq) = m
  OBVIOUS

\* Height and Sequence in terms of the links they stand for.
LEMMA SequenceIs ==
  ASSUME IInv, NEW h \in Nat, IsHeight(h)
  PROVE  /\ Height = h
         /\ \A i \in 1..h : \E m \in links : m.seq = i
         /\ \A l \in links : l.seq \in 1..h /\ Sequence[l.seq] = l.txn
         /\ Sequence \in Seq(Txns)
         /\ Len(Sequence) = h
<1>1. \A l \in links : l.seq \in Nat /\ l.seq >= 1 /\ l.txn \in Txns
  BY DEF IInv, TypeOK, Link, HashesOK
<1>2. \A l, m \in links : l.seq = m.seq => l = m
  BY DEF IInv, ChainLinked
<1>3. Height = h
  BY <1>1, ChosenHeight DEF Height, IsHeight
<1>4. \A i \in 1..h : \E m \in links : m.seq = i
  <2>1. TAKE i \in 1..h
  <2>2. PICK l \in links : l.seq = h
    BY <2>1 DEF IsHeight
  <2>3. QED
    BY <2>1, <2>2 DEF IInv, NoGap
<1>5. \A l \in links : l.seq \in 1..h
  BY <1>1 DEF IsHeight
<1>6. Sequence = [i \in 1..h |-> (CHOOSE l \in links : l.seq = i).txn]
  BY <1>3 DEF Sequence
<1>7. \A l \in links : Sequence[l.seq] = l.txn
  <2>1. TAKE l \in links
  <2>2. (CHOOSE k \in links : k.seq = l.seq) = l
    BY <1>2, ChosenLink
  <2>3. QED
    BY <1>5, <1>6, <2>2
<1>8. \A i \in 1..h : Sequence[i] \in Txns
  BY <1>1, <1>4, <1>7
<1>9. Sequence \in [1..h -> Txns]
  BY <1>6, <1>8
<1>10. QED
  BY <1>3, <1>4, <1>5, <1>7, <1>9

-------------------------------------------------------------------------------
\* A step leaves the chain alone or commits the link of one thread.
LEMMA StepEffect ==
  ASSUME IInv, [Next]_vars
  PROVE  \/ links' = links
         \/ \E w \in Workers : pc[w] = "commit" /\ CommitRows({w})
<1>1. CASE \E w \in Workers, k \in Kinds, t \in Txns : Receive(w, k, t)
  BY <1>1 DEF Receive
<1>2. CASE \E w \in Workers : Step(w)
  BY <1>2 DEF Step, Check, InsertSource, AwaitLast, GetLast, SealLink,
              SealRefused, Commit
<1>3. CASE \E w \in Workers : Abort(w)
  <2>1. PICK w \in Workers : Abort(w)
    BY <1>3
  <2>2. CASE CommitRows({})
    BY <2>2 DEF CommitRows
  <2>3. CASE pc[w] = "commit" /\ CommitRows({w})
    BY <2>3
  <2>4. QED
    BY <2>1, <2>2, <2>3 DEF Abort
<1>4. CASE Crash
  <2>1. PICK ws \in SUBSET {w \in Workers : pc[w] = "commit"} : CommitRows(ws)
    BY <1>4 DEF Crash
  <2>2. CASE ws = {}
    BY <2>1, <2>2 DEF CommitRows
  <2>3. CASE ws # {}
    <3>1. PICK w \in ws : TRUE
      BY <2>3
    <3>2. w \in Workers /\ pc[w] = "commit" /\ ws = {w}
      BY <2>1, <3>1, OnePending
    <3>3. QED
      BY <2>1, <3>2
  <2>4. QED
    BY <2>2, <2>3
<1>5. CASE UNCHANGED vars
  BY <1>5 DEF vars
<1>6. QED
  BY <1>1, <1>2, <1>3, <1>4, <1>5 DEF Next

\* The uncommitted link of a thread is the next one after the last.
LEMMA PendingNext ==
  ASSUME IInv, NEW w \in Workers, pc[w] = "commit", NEW h \in Nat, IsHeight(h)
  PROVE  /\ newLink[w] = {NextLink(w)}
         /\ NextLink(w).seq = h + 1
         /\ NextLink(w).txn \in Txns
         /\ \A l \in links : l.txn # NextLink(w).txn
<1> DEFINE n == NextLink(w)
<1>1. TypeOK /\ ThreadOK(w) /\ PendingApart
  BY DEF IInv
<1>2. newLink[w] = {n}
  BY <1>1 DEF ThreadOK
<1>3. n \in Link /\ n.seq = last[w].seq + 1 /\ last[w].seq \in Nat
  <2>1. n \in Link /\ n.seq = last[w].seq + 1
    BY <1>1, NextLinkType
  <2>2. last[w].seq \in Nat
    BY <1>1 DEF TypeOK
  <2>3. QED
    BY <2>1, <2>2
<1>4. \A l \in links : l.txn # n.txn /\ l.seq # n.seq
  BY <1>1, <1>2 DEF PendingApart, Clash
<1>5. last[w].seq <= h
  <2>1. \/ last[w] = Genesis
        \/ \E l \in links : l.seq = last[w].seq
    BY <1>1 DEF ThreadOK, HoldsLast
  <2>2. QED
    BY <2>1 DEF IsHeight, Genesis
<1>6. \A i \in 1..h : \E m \in links : m.seq = i
  BY SequenceIs
<1>7. n.seq \notin 1..h
  BY <1>4, <1>6
<1>8. n.seq = h + 1
  BY <1>3, <1>5, <1>7
<1>9. n.txn \in Txns
  BY <1>3 DEF Link
<1>10. QED
  BY <1>2, <1>4, <1>8, <1>9

\* So the chain grows by one link when a thread commits.
LEMMA NextHeight ==
  ASSUME IInv, NEW w \in Workers, pc[w] = "commit", CommitRows({w}),
         NEW h \in Nat, IsHeight(h)
  PROVE  /\ links' = links \cup {NextLink(w)}
         /\ NextLink(w).seq = h + 1
         /\ NextLink(w).txn \in Txns
         /\ \A l \in links : l.txn # NextLink(w).txn
BY PendingNext DEF CommitRows

\* Committing a link seals its operation.
LEMMA CommitSeals ==
  ASSUME IInv, HasHeight, NEW w \in Workers, pc[w] = "commit", CommitRows({w}),
         IInv'
  PROVE  HasHeight' /\ Promise!Next
<1> DEFINE n == NextLink(w)
<1>1. PICK h \in Nat : IsHeight(h)
  BY DEF HasHeight
<1>2. /\ links' = links \cup {n}
      /\ n.seq = h + 1
      /\ n.txn \in Txns
      /\ \A l \in links : l.txn # n.txn
  BY <1>1, NextHeight
<1>3. h + 1 \in Nat /\ IsHeight(h + 1)'
  <2>1. \A l \in links : l.seq \in Nat /\ l.seq <= h
    BY <1>1 DEF IsHeight, IInv, TypeOK, Link
  <2>2. \A l \in links' : l.seq <= h + 1
    BY <1>2, <2>1
  <2>3. QED
    BY <1>2, <2>2 DEF IsHeight
<1>4. HasHeight'
  BY <1>3 DEF HasHeight
<1>5. /\ \A i \in 1..h : \E m \in links : m.seq = i
      /\ \A l \in links : l.seq \in 1..h /\ Sequence[l.seq] = l.txn
      /\ Sequence \in Seq(Txns)
      /\ Len(Sequence) = h
  BY <1>1, SequenceIs
<1>6. \A l, m \in links' : l.seq = m.seq => l = m
  BY DEF IInv, ChainLinked
<1>7. Height' = h + 1
  <2>1. \A l \in links' : l.seq \in Nat
    BY DEF IInv, TypeOK, Link
  <2>2. QED
    BY <1>3, <2>1, ChosenHeight DEF Height, IsHeight
<1>8. Sequence' = [i \in 1..(h + 1) |-> (CHOOSE l \in links' : l.seq = i).txn]
  BY <1>7 DEF Sequence
<1>9. \A l \in links' : l.seq \in 1..(h + 1) => Sequence'[l.seq] = l.txn
  <2>1. TAKE l \in links'
  <2>2. (CHOOSE k \in links' : k.seq = l.seq) = l
    BY <1>6, ChosenLink
  <2>3. QED
    BY <1>8, <2>2
<1>10. Sequence' = Append(Sequence, n.txn)
  <2>1. \A i \in 1..h : Sequence'[i] = Sequence[i]
    <3>1. TAKE i \in 1..h
    <3>2. PICK m \in links : m.seq = i
      BY <1>5
    <3>3. m \in links' /\ i \in 1..(h + 1)
      BY <1>2
    <3>4. QED
      BY <1>5, <1>9, <3>2, <3>3
  <2>2. Sequence'[h + 1] = n.txn
    BY <1>2, <1>9
  <2>3. DOMAIN Sequence' = 1..(h + 1)
    BY <1>8
  <2>4. Sequence' = [i \in 1..(h + 1) |-> IF i = h + 1 THEN n.txn ELSE Sequence[i]]
    <3>1. \A i \in 1..(h + 1) :
            Sequence'[i] = IF i = h + 1 THEN n.txn ELSE Sequence[i]
      <4>1. TAKE i \in 1..(h + 1)
      <4>2. i = h + 1 \/ (i \in 1..h /\ i # h + 1)
        OBVIOUS
      <4>3. QED
        BY <2>1, <2>2, <4>2
    <3>2. Sequence' = [i \in 1..(h + 1) |-> Sequence'[i]]
      BY <1>8
    <3>3. QED
      BY <3>1, <3>2
  <2>5. Append(Sequence, n.txn)
          = [i \in 1..(h + 1) |-> IF i = h + 1 THEN n.txn ELSE Sequence[i]]
    BY <1>2, <1>5
  <2>6. QED
    BY <2>4, <2>5
<1>11. n.txn \notin Promise!Sealed
  <2>1. \A i \in DOMAIN Sequence : Sequence[i] # n.txn
    BY <1>2, <1>5
  <2>2. QED
    BY <2>1 DEF Promise!Sealed
<1>12. QED
  BY <1>2, <1>4, <1>10, <1>11 DEF Promise!Next, Promise!Seal

\* The chain starts empty.
LEMMA InitMaps == Init => HasHeight /\ Promise!Init
<1>1. SUFFICES ASSUME Init PROVE HasHeight /\ Promise!Init
  OBVIOUS
<1>2. links = {} /\ 0 \in Nat /\ IsHeight(0)
  BY <1>1 DEF Init, IsHeight
<1>3. HasHeight
  BY <1>2 DEF HasHeight
<1>4. Len(Sequence) = 0 /\ Sequence \in Seq(Txns)
  BY <1>1, <1>2, InitInv, SequenceIs
<1>5. Sequence = << >>
  BY <1>4
<1>6. QED
  BY <1>3, <1>5 DEF Promise!Init

\* Every step of the threads seals one operation or none.
LEMMA StepMaps ==
  IInv /\ IInv' /\ HasHeight /\ [Next]_vars
    => HasHeight' /\ [Promise!Next]_Sequence
<1>1. SUFFICES ASSUME IInv, IInv', HasHeight, [Next]_vars
               PROVE  HasHeight' /\ [Promise!Next]_Sequence
  OBVIOUS
<1>2. CASE links' = links
  BY <1>1, <1>2 DEF HasHeight, IsHeight, Sequence, Height
<1>3. CASE \E w \in Workers : pc[w] = "commit" /\ CommitRows({w})
  BY <1>1, <1>3, CommitSeals
<1>4. QED
  BY <1>1, <1>2, <1>3, StepEffect

\* process_controle and process_vente, run by any number of threads, with
\* rollbacks and crashes, are for a terminal one ledger in which every
\* operation is sealed at most once.
THEOREM LedgerImplemented == Spec => ImplementsLedger
<1>1. Init => HasHeight /\ Promise!Init
  BY InitMaps
<1>2. IInv /\ IInv' /\ HasHeight /\ [Next]_vars
        => HasHeight' /\ [Promise!Next]_Sequence
  BY StepMaps
<1>3. QED
  BY <1>1, <1>2, Invariance, PTL DEF Spec, ImplementsLedger, Promise!Spec

-------------------------------------------------------------------------------
(***************************************************************************)
(* No deadlock.  A thread at "commit" waits for nobody; only threads at    *)
(* "append" and "commit" have locks; a thread at "append" waits only for   *)
(* an uncommitted link, hence for a thread at "commit".                    *)
(***************************************************************************)

\* Only a thread about to commit has an uncommitted link, and it has one.
LEMMA PendingAtCommit ==
  ASSUME IInv, NEW v \in Workers, NEW l \in newLink[v]
  PROVE  pc[v] = "commit" /\ l = NextLink(v)
<1>1. newLink[v] = IF pc[v] = "commit" THEN {NextLink(v)} ELSE {}
  BY DEF IInv, ThreadOK
<1>2. QED
  BY <1>1

\* The backward scan always meets a first row, unless there is none ahead of it:
\* the numbers of all rows are 1..h, and h + 1 if a link is uncommitted.
LEMMA HasTop ==
  ASSUME IInv, HasHeight, NEW w \in Workers, Ahead(w) # {}
  PROVE  \E l \in Rows : IsTop(w, l)
<1> DEFINE s == scan[w]
<1>1. PICK h \in Nat : IsHeight(h)
  BY DEF HasHeight
<1>2. s \in Nat
  BY DEF IInv, TypeOK
<1>3. \A l \in Rows : l \in links \/ l.seq = h + 1
  <2>1. SUFFICES ASSUME NEW v \in Workers, NEW l \in newLink[v]
                 PROVE  l.seq = h + 1
    BY DEF Rows
  <2>2. pc[v] = "commit" /\ l = NextLink(v)
    BY PendingAtCommit
  <2>3. QED
    BY <1>1, <2>2, PendingNext
<1>4. \A l \in links : l.seq \in 1..h
  BY <1>1, SequenceIs
<1>5. \A i \in 1..h : \E m \in links : m.seq = i
  BY <1>1, SequenceIs
<1>6. links \subseteq Rows
  BY DEF Rows
<1>7. CASE \E l \in Ahead(w) : l.seq = h + 1
  BY <1>3, <1>4, <1>7 DEF IsTop, Ahead
<1>8. CASE (\A l \in Ahead(w) : l.seq # h + 1) /\ (s = 0 \/ h < s)
  <2>1. \A l \in Ahead(w) : l \in links
    BY <1>3, <1>8 DEF Ahead
  <2>2. h \in 1..h
    BY <1>4, <2>1
  <2>3. PICK m \in links : m.seq = h
    BY <1>5, <2>2
  <2>4. m \in Ahead(w)
    BY <1>2, <1>6, <1>8, <2>3 DEF Ahead
  <2>5. \A l \in Ahead(w) : l.seq <= m.seq
    BY <1>4, <2>1, <2>3
  <2>6. QED
    BY <1>6, <2>4, <2>5 DEF IsTop
<1>9. CASE s # 0 /\ s <= h
  <2>1. PICK m \in links : m.seq = s
    BY <1>2, <1>5, <1>9
  <2>2. m \in Ahead(w) /\ \A l \in Ahead(w) : l.seq <= m.seq
    BY <1>2, <1>6, <1>9, <2>1 DEF Ahead
  <2>3. QED
    BY <1>6, <2>2 DEF IsTop
<1>10. QED
  BY <1>2, <1>7, <1>8, <1>9

\* A thread whose next statement is blocked waits for a thread that is further
\* on than itself.
LEMMA Blocker ==
  ASSUME IInv, HasHeight, NEW w \in Workers, pc[w] # "idle", ~CanStep(w)
  PROVE  \E v \in Workers :
           /\ WaitsFor(w, v)
           /\ pc[v] = "commit" \/ (pc[w] = "seal" /\ pc[v] = "append")
<1>1. pc[w] \in {"check", "seal", "append"}
  BY DEF IInv, TypeOK, Statements, CanStep
<1>2. CASE pc[w] = "check"
  <2>1. PICK v \in Workers \ {w} : \E l \in newLink[v] : l.txn = req[w].txn
    BY <1>2 DEF CanStep, Readable
  <2>2. QED
    BY <1>2, <2>1, PendingAtCommit DEF WaitsFor
<1>3. CASE pc[w] = "seal"
  <2>1. Ahead(w) # {} /\ \A l \in Rows : IsTop(w, l) => LockedFor(w, l)
    BY <1>3 DEF CanStep
  <2>2. PICK l \in Rows : IsTop(w, l)
    BY <2>1, HasTop
  <2>3. PICK v \in Workers \ {w} : Locks(v, l)
    BY <2>1, <2>2 DEF LockedFor
  <2>4. pc[v] \in {"append", "commit"}
    BY <2>3, PendingAtCommit DEF Locks, HoldsLast
  <2>5. QED
    BY <1>3, <2>2, <2>3, <2>4 DEF WaitsFor
<1>4. CASE pc[w] = "append"
  <2>1. PICK l \in Rows : Clash(l, NextLink(w))
    BY <1>4 DEF CanStep
  <2>2. l \notin links
    BY <1>4, <2>1 DEF CanStep
  <2>3. PICK v \in Workers : l \in newLink[v]
    BY <2>2 DEF Rows
  <2>4. pc[v] = "commit"
    BY <2>3, PendingAtCommit
  <2>5. QED
    BY <1>4, <2>1, <2>3, <2>4 DEF WaitsFor
<1>5. QED
  BY <1>1, <1>2, <1>3, <1>4

\* Following the waits leads, in two steps at most, to a thread that can execute.
LEMMA WaitsEnd == IInv /\ HasHeight => NoDeadlock
<1>1. SUFFICES ASSUME IInv, HasHeight, NEW ws \in SUBSET Workers,
                      NEW w \in ws, pc[w] # "idle",
                      \A u \in ws, v \in Workers : WaitsFor(u, v) => v \in ws,
                      \A u \in ws : ~CanStep(u)
               PROVE  FALSE
  BY DEF NoDeadlock
<1>2. \A u \in ws : pc[u] # "commit"
  BY <1>1 DEF CanStep
<1>3. \A u \in ws : pc[u] # "idle" =>
        pc[u] = "seal" /\ \E v \in ws : pc[v] = "append"
  <2>1. SUFFICES ASSUME NEW u \in ws, pc[u] # "idle"
                 PROVE  pc[u] = "seal" /\ \E v \in ws : pc[v] = "append"
    OBVIOUS
  <2>2. PICK v \in Workers :
          /\ WaitsFor(u, v)
          /\ pc[v] = "commit" \/ (pc[u] = "seal" /\ pc[v] = "append")
    BY <1>1, <2>1, Blocker
  <2>3. v \in ws /\ pc[v] # "commit"
    BY <1>1, <1>2, <2>2
  <2>4. QED
    BY <2>2, <2>3
<1>4. QED
  BY <1>1, <1>3

\* However many requests are under way, the locks of the anti-replay SELECT, of
\* get_last_chain_hash and of add_to_chain never leave a set of threads stuck.
THEOREM NoDeadlockEver == Spec => []NoDeadlock
<1>1. Init => HasHeight
  BY InitMaps
<1>2. IInv /\ IInv' /\ HasHeight /\ [Next]_vars => HasHeight'
  BY StepMaps
<1>3. IInv /\ HasHeight => NoDeadlock
  BY WaitsEnd
<1>4. QED
  BY <1>1, <1>2, <1>3, Invariance, PTL DEF Spec
===============================================================================
