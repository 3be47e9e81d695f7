-------------------------- MODULE DegradedMode_proofs -------------------------
(***************************************************************************)
(* Proofs about DegradedMode, for any sets of tasks, packets and         *)
(* operations, any limits, and with restarts and SQLite errors or without. *)
(***************************************************************************)
EXTENDS DegradedMode, FiniteSetTheorems, WellFoundedInduction, TLAPS

-------------------------------------------------------------------------------
(***************************************************************************)
(* The connectivity status.                                                *)
(***************************************************************************)

\* The count never exceeds the limit, and reaches it with the change of status.
StatusInv ==
  /\ status \in {"online", "offline"}
  /\ failures \in 0..MaxFailures
  /\ StatusByFailures

\* A check of any task keeps it.
LEMMA StatusCheck ==
  ASSUME StatusInv, NEW k,
         Net!CheckBegins(k) \/ Net!CheckSucceeds(k) \/ Net!CheckFails(k)
  PROVE  StatusInv'
<1> USE LimitsAssumption DEF StatusInv, StatusByFailures, Net!StatusByFailures
<1>1. CASE Net!CheckBegins(k)
  BY <1>1 DEF Net!CheckBegins
<1>2. CASE Net!CheckSucceeds(k)
  BY <1>2 DEF Net!CheckSucceeds
<1>3. CASE Net!CheckFails(k)
  BY <1>3 DEF Net!CheckFails
<1>4. QED
  BY <1>1, <1>2, <1>3

\* Every set of natural numbers that is not empty has a least element.
\* The sets of the elements up to one of them are ordered by inclusion, which is
\* well-founded on finite sets.
LEMMA HasLeast ==
  ASSUME NEW S \in SUBSET Nat, S # {}
  PROVE  \E x \in S : \A y \in S : x <= y
<1> DEFINE Upto(x) == {y \in S : y <= x}
           Family  == {Upto(x) : x \in S}
           R       == StrictSubsetOrdering(S)
<1>1. Family \subseteq FiniteSubsetsOf(S)
  <2> SUFFICES ASSUME NEW x \in S PROVE IsFiniteSet(Upto(x))
    BY DEF FiniteSubsetsOf
  <2>1. Upto(x) \in SUBSET Nat /\ x \in Nat /\ \A s \in Upto(x) : s <= x
    OBVIOUS
  <2>2. QED
    BY <2>1, FS_BoundedSetOfNaturals
<1>2. PICK T \in Family : \A U \in Family : ~(<<U, T>> \in R)
  <2>1. IsWellFoundedOn(R, FiniteSubsetsOf(S))
    BY FS_StrictSubsetOrderingWellFounded
  <2>2. Family # {}
    OBVIOUS
  <2> HIDE DEF R, Family
  <2>3. QED
    BY <1>1, <2>1, <2>2, WFMin
<1>3. PICK x \in S : T = Upto(x)
  OBVIOUS
<1>4. ASSUME NEW y \in S PROVE x <= y
  <2>1. SUFFICES ASSUME y < x PROVE FALSE
    OBVIOUS
  <2>2. x \in Nat /\ y \in Nat /\ \A z \in S : z \in Nat
    OBVIOUS
  <2>3. Upto(y) \subseteq Upto(x)
    <3>1. \A z \in S : z <= y => z <= x
      BY <2>1, <2>2
    <3>2. QED
      BY <3>1
  <2>4. x \in Upto(x) /\ x \notin Upto(y)
    BY <2>1, <2>2
  <2>5. <<Upto(y), Upto(x)>> \in R
    BY <2>3, <2>4 DEF StrictSubsetOrdering
  <2>6. QED
    BY <1>2, <1>3, <2>5
<1>5. QED
  BY <1>4

\* The row that sync_pending sends is one of the batch.
LEMMA CurrentInRest ==
  ASSUME NEW k, task[k].rest \in SUBSET Nat, task[k].rest # {}
  PROVE  Current(k) \in task[k].rest
BY HasLeast DEF Current

-------------------------------------------------------------------------------
(***************************************************************************)
(* The inductive invariant.                                                *)
(***************************************************************************)

LEMMA InitOK == Init => IInv
<1> SUFFICES ASSUME Init PROVE IInv
  OBVIOUS
<1>1. StatusByFailures /\ Net!TypeOK
  BY LimitsAssumption
     DEF Init, Net!Init, Net!TypeOK, Net!Statuses, StatusByFailures,
         Net!StatusByFailures
<1>2. \A k \in Tasks : task[k] = Idle
  BY DEF Init
<1>3. Ids = {}
  BY DEF Init, Ids
<1>4. TypeOK
  <2>1. Idle \in TaskStates
    BY DEF Idle, TaskStates, Awaits, Answers
  <2>2. task \in [Tasks -> TaskStates]
    BY <2>1 DEF Init
  <2>3. buffer \in Seq(Rows) /\ ledger \in Seq(Txns)
    BY DEF Init, BO!Init
  <2>4. syncing \in BOOLEAN /\ orphans \subseteq Txns /\ acked \subseteq Packets
    BY DEF Init
  <2>5. QED
    BY <1>1, <2>2, <2>3, <2>4 DEF TypeOK
<1>5. (\A k \in Tasks : TaskOK(k)) /\ OneSync
  BY <1>2 DEF TaskOK, OneSync, InSync, Idle, Taken
<1>6. MarkedSealed /\ AckedStored
  BY <1>3 DEF MarkedSealed, AckedStored, Init
<1>7. QED
  BY <1>1, <1>4, <1>5, <1>6 DEF IInv

\* The buffer keeps its rows, and new rows are not marked.
Grown ==
  /\ buffer' \in Seq(Rows)
  /\ Ids \subseteq Ids'
  /\ \A i \in Ids : buffer'[i] = buffer[i]
  /\ \A i \in Ids' \ Ids : ~buffer'[i].synced

LEMMA SameBuffer ==
  ASSUME buffer \in Seq(Rows), buffer' = buffer
  PROVE  Grown
BY DEF Grown, Ids

LEMMA NewRowTyped ==
  ASSUME NEW p \in Packets
  PROVE  NewRow(p) \in Rows
BY LimitsAssumption DEF NewRow, Rows

LEMMA Inserted ==
  ASSUME buffer \in Seq(Rows), NEW p \in Packets,
         buffer' = Append(buffer, NewRow(p))
  PROVE  Grown /\ Buffered(p)'
<1>1. NewRow(p) \in Rows
  BY NewRowTyped
<1>2. /\ buffer' \in Seq(Rows)
      /\ Ids = 1..Len(buffer)
      /\ Ids' = 1..(Len(buffer) + 1)
      /\ \A i \in Ids : buffer'[i] = buffer[i]
      /\ buffer'[Len(buffer) + 1] = NewRow(p)
  BY <1>1 DEF Ids
<1>3. Grown
  BY <1>2 DEF Grown, NewRow
<1>4. Len(buffer) + 1 \in Ids' /\ buffer'[Len(buffer) + 1].packet = p
  BY <1>2 DEF NewRow
<1>5. QED
  BY <1>3, <1>4 DEF Buffered

LEMMA GrownKeeps ==
  ASSUME Grown
  PROVE  /\ Pending \subseteq Pending'
         /\ \A p : Buffered(p) => Buffered(p)'
BY DEF Grown, Pending, Buffered

\* What a step of task k does to its own and to the other tasks, to the buffer
\* and to the acknowledgements, unless it settles a row.
Effect(k) ==
  /\ task' \in [Tasks -> TaskStates']
  /\ \A j \in Tasks : j # k => task'[j] = task[j]
  /\ Grown
  /\ acked' \subseteq Packets
  /\ \A p \in acked' \ acked : Buffered(p)' \/ Content[p] \in (BO!Sealed)'

\* A task outside of sync_pending.
Out(k) ==
  /\ task[k].at \in {"idle", "probe", "send"}
  /\ task[k].at # "idle" /\ k \in Submitters => task[k].job \in Packets
  /\ task[k].at = "send" => k \in Submitters
  /\ task[k].answer # "none" => task[k].at = "send"
  /\ ~Taken(task[k].answer)

LEMMA OutOK ==
  ASSUME NEW k, Out(k)
  PROVE  TaskOK(k) /\ ~InSync(k)
BY DEF Out, TaskOK, InSync

\* A task keeps its part of the invariant while another one moves.
LEMMA OthersKeep ==
  ASSUME NEW j, TaskOK(j), task'[j] = task[j],
         task[j].rest \in SUBSET Ids, Ids \in SUBSET Nat,
         \A i \in Ids : buffer'[i].packet = buffer[i].packet,
         InSync(j) => syncing' /\ Pending \subseteq Pending',
         BO!Sealed \subseteq (BO!Sealed)'
  PROVE  TaskOK(j)' /\ InSync(j)' = InSync(j)
<1>1. Current(j)' = Current(j)
  BY DEF Current
<1>2. InSync(j)' = InSync(j)
  BY DEF InSync
<1>3. Posted(j)' = Posted(j)
  <2>1. CASE task[j].at = "post"
    <3>1. Current(j) \in task[j].rest
      BY <2>1, CurrentInRest DEF TaskOK
    <3>2. QED
      BY <1>1, <2>1, <3>1 DEF Posted
  <2>2. CASE task[j].at # "post"
    BY <2>2 DEF Posted
  <2>3. QED
    BY <2>1, <2>2
<1>4. QED
  BY <1>2, <1>3 DEF TaskOK

LEMMA MarkedKept ==
  ASSUME MarkedSealed, Grown, BO!Sealed \subseteq (BO!Sealed)'
  PROVE  MarkedSealed'
BY DEF MarkedSealed, Grown

LEMMA AckedKept ==
  ASSUME AckedStored, \A p : Buffered(p) => Buffered(p)',
         \A p \in acked' \ acked : Buffered(p)' \/ Content[p] \in (BO!Sealed)',
         BO!Sealed \subseteq (BO!Sealed)'
  PROVE  AckedStored'
BY DEF AckedStored

\* A step of task k that has such an effect keeps the invariant, if task k itself
\* is as it should be, and respects the lock.
LEMMA MoveOK ==
  ASSUME IInv, NEW k \in Tasks, Effect(k), TaskOK(k)',
         syncing' \in BOOLEAN,
         \A j \in Tasks : j # k /\ InSync(j) => syncing',
         InSync(k)' => InSync(k) \/ ~syncing,
         BO!Sealed \subseteq (BO!Sealed)',
         ledger' \in Seq(Txns), orphans' \subseteq Txns,
         Net!TypeOK', StatusByFailures'
  PROVE  IInv'
<1>1. Ids \in SUBSET Nat /\ \A j \in Tasks : task[j].rest \in SUBSET Ids
  BY DEF IInv, TypeOK, TaskStates, Ids
<1>2. /\ Pending \subseteq Pending'
      /\ \A p : Buffered(p) => Buffered(p)'
  BY GrownKeeps DEF Effect
<1>3. TypeOK'
  BY DEF TypeOK, Effect, Grown
<1>4. ASSUME NEW j \in Tasks, j # k
      PROVE  TaskOK(j)' /\ InSync(j)' = InSync(j)
  <2>1. TaskOK(j) /\ task'[j] = task[j]
    BY <1>4 DEF IInv, Effect
  <2>2. \A i \in Ids : buffer'[i].packet = buffer[i].packet
    BY DEF Effect, Grown
  <2>3. QED
    BY <1>1, <1>2, <1>4, <2>1, <2>2, OthersKeep
<1>5. \A j \in Tasks : TaskOK(j)'
  BY <1>4
<1>6. OneSync'
  <2>1. \A j \in Tasks : InSync(j) => syncing
    BY DEF IInv, TaskOK
  <2>2. \A j \in Tasks : j # k => ~(InSync(j)' /\ InSync(k)')
    BY <1>4, <2>1 DEF IInv, OneSync
  <2>3. QED
    BY <1>4, <2>2 DEF IInv, OneSync
<1>7. MarkedSealed' /\ AckedStored'
  BY <1>2, MarkedKept, AckedKept DEF Effect, IInv
<1>8. QED
  BY <1>3, <1>5, <1>6, <1>7 DEF IInv

-------------------------------------------------------------------------------
(***************************************************************************)
(* What the parts of the steps do.                                         *)
(***************************************************************************)

\* The states of the other tasks stay typed as the buffer grows.
LEMMA TasksTyped ==
  ASSUME task \in [Tasks -> TaskStates], Ids \subseteq Ids', NEW k \in Tasks,
         NEW r \in TaskStates', task' = [task EXCEPT ![k] = r]
  PROVE  /\ task' \in [Tasks -> TaskStates']
         /\ task'[k] = r
         /\ \A j \in Tasks : j # k => task'[j] = task[j]
<1>1. TaskStates \subseteq TaskStates'
  BY DEF TaskStates
<1>2. QED
  BY <1>1

LEMMA IdleTyped == Idle \in TaskStates /\ Idle \in TaskStates'
BY DEF Idle, TaskStates, Awaits, Answers

LEMMA IdleOut ==
  ASSUME NEW k, task[k] = Idle
  PROVE  Out(k)
BY DEF Idle, Out, Taken

LEMMA EndsEffect ==
  ASSUME TypeOK, NEW k \in Tasks, Ends(k)
  PROVE  Effect(k) /\ Out(k)'
<1>1. Grown
  BY SameBuffer DEF Ends, TypeOK
<1>2. /\ task' \in [Tasks -> TaskStates']
      /\ task'[k] = Idle
      /\ \A j \in Tasks : j # k => task'[j] = task[j]
  BY <1>1, TasksTyped, IdleTyped DEF Ends, TypeOK, Grown
<1>3. Out(k)'
  BY <1>2 DEF Idle, Out, Taken
<1>4. QED
  BY <1>1, <1>2, <1>3 DEF Effect, Ends, TypeOK

LEMMA StoreEffect ==
  ASSUME TypeOK, NEW k \in Tasks, task[k].job \in Packets, Store(k)
  PROVE  Effect(k) /\ Out(k)'
<1>1. CASE Ends(k)
  BY <1>1, EndsEffect
<1>2. ASSUME NEW p \in Packets,
             buffer' = Append(buffer, NewRow(p)),
             acked' = acked \cup {p} \/ acked' = acked,
             task' = [task EXCEPT ![k] = Idle]
      PROVE  Effect(k) /\ Out(k)'
  <2>1. Grown /\ Buffered(p)'
    BY <1>2, Inserted DEF TypeOK
  <2>2. /\ task' \in [Tasks -> TaskStates']
        /\ task'[k] = Idle
        /\ \A j \in Tasks : j # k => task'[j] = task[j]
    BY <1>2, <2>1, TasksTyped, IdleTyped DEF TypeOK, Grown
  <2>3. Out(k)'
    BY <2>2 DEF Idle, Out, Taken
  <2>4. acked' \subseteq Packets /\ \A q \in acked' \ acked : Buffered(q)'
    BY <1>2, <2>1 DEF TypeOK
  <2>5. QED
    BY <2>1, <2>2, <2>3, <2>4 DEF Effect
<1>3. QED
  BY <1>1, <1>2 DEF Store

\* A task that comes back from the check or from a synchronization.
LEMMA ReturnsEffect ==
  ASSUME TypeOK, NEW k \in Tasks, k \in Submitters => task[k].job \in Packets,
         Returns(k)
  PROVE  Effect(k) /\ Out(k)'
<1>1. CASE Ends(k)
  BY <1>1, EndsEffect
<1>2. CASE k \in Submitters /\ Store(k)
  BY <1>2, StoreEffect
<1>3. CASE /\ k \in Submitters
           /\ task' = [task EXCEPT ![k].at = "send", ![k].rest = {},
                                   ![k].errors = {}, ![k].answer = "sent"]
           /\ UNCHANGED <<buffer, acked>>
  <2> DEFINE r == [task[k] EXCEPT !.at = "send", !.rest = {}, !.errors = {},
                                  !.answer = "sent"]
  <2>1. task[k] \in TaskStates
    BY DEF TypeOK
  <2>2. /\ r \in TaskStates'
        /\ r.at = "send" /\ r.answer = "sent" /\ r.job = task[k].job
    BY <2>1 DEF TaskStates, Awaits, Answers
  <2>3. task' = [task EXCEPT ![k] = r]
    BY <1>3, <2>1 DEF TypeOK
  <2>4. Grown
    BY <1>3, SameBuffer DEF TypeOK
  <2> HIDE DEF r
  <2>5. /\ task' \in [Tasks -> TaskStates']
        /\ task'[k] = r
        /\ \A j \in Tasks : j # k => task'[j] = task[j]
    BY <2>2, <2>3, <2>4, TasksTyped DEF TypeOK, Grown
  <2>6. Out(k)'
    BY <1>3, <2>2, <2>5 DEF Out, Taken
  <2>7. QED
    BY <1>3, <2>4, <2>5, <2>6 DEF Effect, TypeOK
<1>4. QED
  BY <1>1, <1>2, <1>3 DEF Returns

LEMMA PostEffect ==
  ASSUME TypeOK, NEW k \in Tasks, k \in Submitters => task[k].job \in Packets,
         NEW batch \in SUBSET Pending, batch # {}, NEW errors \in SUBSET Ids,
         Post(k, batch, errors), syncing'
  PROVE  Effect(k) /\ TaskOK(k)'
<1> DEFINE r == [task[k] EXCEPT !.at = "post", !.rest = batch,
                                !.errors = errors, !.answer = "sent"]
<1>1. task[k] \in TaskStates /\ batch \in SUBSET Ids
  BY DEF TypeOK, Pending
<1>2. Grown /\ Ids' = Ids /\ Pending' = Pending
  BY SameBuffer DEF TypeOK, Post, Ids, Pending
<1>3. /\ r \in TaskStates'
      /\ r.at = "post" /\ r.rest = batch /\ r.answer = "sent"
      /\ r.job = task[k].job
  BY <1>1, <1>2 DEF TaskStates, Awaits, Answers
<1>4. task' = [task EXCEPT ![k] = r]
  BY <1>1 DEF Post, TypeOK
<1> HIDE DEF r
<1>5. /\ task' \in [Tasks -> TaskStates']
      /\ task'[k] = r
      /\ \A j \in Tasks : j # k => task'[j] = task[j]
  BY <1>2, <1>3, <1>4, TasksTyped DEF TypeOK, Grown
<1>6. TaskOK(k)'
  BY <1>2, <1>3, <1>5 DEF TaskOK, Taken
<1>7. QED
  BY <1>2, <1>5, <1>6 DEF Effect, Post, TypeOK

\* A batch takes at least the first pending row.
LEMMA BatchNonempty ==
  ASSUME TypeOK, Pending # {}
  PROVE  Batch # {}
<1>1. Pending \in SUBSET Nat
  BY DEF Pending, Ids, TypeOK
<1>2. PICK i \in Pending : \A j \in Pending : i <= j
  BY <1>1, HasLeast
<1>3. {j \in Pending : j < i} = {}
  <2>1. \A j \in Pending : ~(j < i)
    BY <1>1, <1>2
  <2>2. QED
    BY <2>1
<1>4. Cardinality({j \in Pending : j < i}) < BatchSize
  BY <1>3, FS_EmptySet, LimitsAssumption
<1>5. QED
  BY <1>2, <1>4 DEF Batch

LEMMA SyncEffect ==
  ASSUME TypeOK, NEW k \in Tasks, k \in Submitters => task[k].job \in Packets,
         Sync(k)
  PROVE  /\ Effect(k) /\ TaskOK(k)'
         /\ syncing' \in BOOLEAN
         /\ syncing => syncing'
         /\ InSync(k)' => ~syncing
<1>1. CASE Returns(k) /\ syncing' = syncing
  <2>1. Effect(k) /\ Out(k)'
    BY <1>1, ReturnsEffect
  <2>2. TaskOK(k)' /\ ~InSync(k)'
    BY <2>1 DEF Out, TaskOK, InSync
  <2>3. QED
    BY <1>1, <2>1, <2>2 DEF TypeOK
<1>2. CASE Returns(k) /\ ~syncing /\ syncing' = TRUE
  <2>1. Effect(k) /\ Out(k)'
    BY <1>2, ReturnsEffect
  <2>2. TaskOK(k)' /\ ~InSync(k)'
    BY <2>1 DEF Out, TaskOK, InSync
  <2>3. QED
    BY <1>2, <2>1, <2>2
<1>3. CASE /\ ~syncing /\ syncing' = TRUE
           /\ Pending # {} /\ Post(k, Batch, {})
  <2>1. Batch \in SUBSET Pending /\ Batch # {}
    BY <1>3, BatchNonempty DEF Batch
  <2>2. Effect(k) /\ TaskOK(k)'
    BY <1>3, <2>1, PostEffect
  <2>3. QED
    BY <1>3, <2>2
<1>4. QED
  BY <1>1, <1>2, <1>3 DEF Sync

-------------------------------------------------------------------------------
(***************************************************************************)
(* The steps.                                                              *)
(***************************************************************************)

LEMMA MonitorCheck ==
  ASSUME IInv, NEW k \in Tasks,
         Net!CheckBegins(k) \/ Net!CheckSucceeds(k) \/ Net!CheckFails(k)
  PROVE  Net!TypeOK' /\ StatusByFailures'
<1>1. StatusInv
  BY DEF IInv, TypeOK, Net!TypeOK, Net!Statuses, StatusInv
<1>2. StatusInv'
  BY <1>1, StatusCheck
<1>3. was' \in [Tasks -> Net!Statuses \cup {"none"}]
  BY DEF IInv, TypeOK, Net!TypeOK, Net!Statuses, Net!CheckBegins,
         Net!CheckSucceeds, Net!CheckFails, Net!CheckDone
<1>4. QED
  BY <1>2, <1>3 DEF StatusInv, Net!TypeOK, Net!Statuses

LEMMA MonitorFrame ==
  ASSUME IInv, UNCHANGED <<status, failures, was>>
  PROVE  Net!TypeOK' /\ StatusByFailures'
BY DEF IInv, TypeOK, Net!TypeOK, StatusByFailures, Net!StatusByFailures

LEMMA SealedFrame ==
  ASSUME UNCHANGED ledger
  PROVE  (BO!Sealed)' = BO!Sealed
BY DEF BO!Sealed

LEMMA SealedGrows ==
  ASSUME ledger \in Seq(Txns), NEW t \in Txns, ledger' = Append(ledger, t)
  PROVE  /\ ledger' \in Seq(Txns)
         /\ t \in (BO!Sealed)'
         /\ BO!Sealed \subseteq (BO!Sealed)'
<1>1. /\ ledger' \in Seq(Txns)
      /\ DOMAIN ledger = 1..Len(ledger)
      /\ DOMAIN ledger' = 1..(Len(ledger) + 1)
      /\ ledger'[Len(ledger) + 1] = t
      /\ \A i \in 1..Len(ledger) : ledger'[i] = ledger[i]
  OBVIOUS
<1>2. Len(ledger) + 1 \in DOMAIN ledger' /\ DOMAIN ledger \subseteq DOMAIN ledger'
  BY <1>1
<1>3. QED
  BY <1>1, <1>2 DEF BO!Sealed

\* Whoever is in sync_pending holds the lock.
LEMMA LockHeld ==
  ASSUME IInv
  PROVE  /\ \A j \in Tasks : InSync(j) => syncing
         /\ \A j, k \in Tasks : InSync(j) /\ InSync(k) => j = k
BY DEF IInv, TaskOK, OneSync

\* The task starts or is handed on without sync_pending.
LEMMA StepOut ==
  ASSUME IInv, NEW k \in Tasks, Effect(k), Out(k)',
         UNCHANGED <<syncing, ledger, orphans>>, Net!TypeOK', StatusByFailures'
  PROVE  IInv'
<1>1. TaskOK(k)' /\ ~InSync(k)'
  BY DEF Out, TaskOK, InSync
<1>2. BO!Sealed \subseteq (BO!Sealed)'
  BY SealedFrame
<1>3. \A j \in Tasks : InSync(j) => syncing'
  BY LockHeld
<1>4. syncing' \in BOOLEAN /\ ledger' \in Seq(Txns) /\ orphans' \subseteq Txns
  BY DEF IInv, TypeOK
<1>5. QED
  BY <1>1, <1>2, <1>3, <1>4, MoveOK

LEMMA SubmitOK ==
  ASSUME IInv, NEW k \in Tasks, NEW p \in Packets, Submit(k, p)
  PROVE  IInv'
<1> DEFINE r == [Idle EXCEPT !.at = "probe", !.job = p]
<1>1. /\ r \in TaskStates'
      /\ r.at = "probe" /\ r.job = p /\ r.answer = "none"
  BY DEF Idle, TaskStates, Awaits, Answers
<1>2. task' = [task EXCEPT ![k] = r] /\ UNCHANGED <<buffer, acked>>
  BY DEF Submit
<1> HIDE DEF r
<1>3. Grown
  BY <1>2, SameBuffer DEF IInv, TypeOK
<1>4. /\ task' \in [Tasks -> TaskStates']
      /\ task'[k] = r
      /\ \A j \in Tasks : j # k => task'[j] = task[j]
  BY <1>1, <1>2, <1>3, TasksTyped DEF IInv, TypeOK, Grown
<1>5. Effect(k)
  BY <1>2, <1>3, <1>4 DEF Effect, IInv, TypeOK
<1>6. Out(k)'
  BY <1>1, <1>4 DEF Out, Taken
<1>7. Net!TypeOK' /\ StatusByFailures'
  BY MonitorCheck DEF Submit
<1>8. QED
  BY <1>5, <1>6, <1>7, StepOut DEF Submit

LEMMA CheckOK ==
  ASSUME IInv, Check
  PROVE  IInv'
<1> DEFINE r == [task[Monitor] EXCEPT !.at = "probe"]
<1>1. Monitor \in Tasks /\ Monitor \notin Submitters
  BY TasksAssumption DEF Tasks
<1>2. r \in TaskStates' /\ r.at = "probe" /\ r.answer = "none"
  BY DEF Check, Idle, TaskStates, Awaits, Answers
<1>3. task' = [task EXCEPT ![Monitor] = r] /\ UNCHANGED <<buffer, acked>>
  BY DEF Check
<1> HIDE DEF r
<1>4. Grown
  BY <1>3, SameBuffer DEF IInv, TypeOK
<1>5. /\ task' \in [Tasks -> TaskStates']
      /\ task'[Monitor] = r
      /\ \A j \in Tasks : j # Monitor => task'[j] = task[j]
  BY <1>1, <1>2, <1>3, <1>4, TasksTyped DEF IInv, TypeOK, Grown
<1>6. Effect(Monitor)
  BY <1>3, <1>4, <1>5 DEF Effect, IInv, TypeOK
<1>7. Out(Monitor)'
  BY <1>1, <1>2, <1>5 DEF Out, Taken
<1>8. Net!TypeOK' /\ StatusByFailures'
  BY <1>1, MonitorCheck DEF Check
<1>9. QED
  BY <1>1, <1>6, <1>7, <1>8, StepOut DEF Check

\* A step that calls sync_pending.
LEMMA StepSync ==
  ASSUME IInv, NEW k \in Tasks, k \in Submitters => task[k].job \in Packets,
         Sync(k), UNCHANGED <<ledger, orphans>>, Net!TypeOK', StatusByFailures'
  PROVE  IInv'
<1>1. /\ Effect(k) /\ TaskOK(k)'
      /\ syncing' \in BOOLEAN
      /\ syncing => syncing'
      /\ InSync(k)' => ~syncing
  BY SyncEffect DEF IInv
<1>2. BO!Sealed \subseteq (BO!Sealed)'
  BY SealedFrame
<1>3. \A j \in Tasks : InSync(j) => syncing'
  BY <1>1, LockHeld
<1>4. ledger' \in Seq(Txns) /\ orphans' \subseteq Txns
  BY DEF IInv, TypeOK
<1>5. QED
  BY <1>1, <1>2, <1>3, <1>4, MoveOK

LEMMA ProbeEndsOK ==
  ASSUME IInv, NEW k \in Tasks, ProbeEnds(k)
  PROVE  IInv'
<1>1. k \in Submitters => task[k].job \in Packets
  BY DEF IInv, TaskOK, ProbeEnds
<1>2. Net!TypeOK' /\ StatusByFailures'
  BY MonitorCheck DEF ProbeEnds
<1>3. CASE Sync(k)
  BY <1>1, <1>2, <1>3, StepSync DEF ProbeEnds
<1>4. CASE Returns(k) /\ UNCHANGED syncing
  <2>1. Effect(k) /\ Out(k)'
    BY <1>1, <1>4, ReturnsEffect DEF IInv
  <2>2. QED
    BY <1>2, <1>4, <2>1, StepOut DEF ProbeEnds
<1>5. QED
  BY <1>3, <1>4 DEF ProbeEnds

LEMMA ForceSyncOK ==
  ASSUME IInv, NEW k \in Tasks, ForceSync(k)
  PROVE  IInv'
<1>1. k \notin Submitters
  BY TasksAssumption DEF ForceSync
<1>2. Net!TypeOK' /\ StatusByFailures'
  BY MonitorFrame DEF ForceSync, monitorVars
<1>3. QED
  BY <1>1, <1>2, StepSync DEF ForceSync

\* The holder of the lock leaves sync_pending and releases it.
LEMMA Releases ==
  ASSUME IInv, NEW k \in Tasks, InSync(k), Returns(k), syncing' = FALSE,
         UNCHANGED <<ledger, orphans>>, Net!TypeOK', StatusByFailures'
  PROVE  IInv'
<1>1. k \in Submitters => task[k].job \in Packets
  BY DEF IInv, TaskOK, InSync
<1>2. Effect(k) /\ Out(k)'
  BY <1>1, ReturnsEffect DEF IInv
<1>3. TaskOK(k)' /\ ~InSync(k)'
  BY <1>2 DEF Out, TaskOK, InSync
<1>4. \A j \in Tasks : j # k => ~InSync(j)
  BY LockHeld
<1>5. BO!Sealed \subseteq (BO!Sealed)'
  BY SealedFrame
<1>6. ledger' \in Seq(Txns) /\ orphans' \subseteq Txns
  BY DEF IInv, TypeOK
<1>7. QED
  BY <1>2, <1>3, <1>4, <1>5, <1>6, MoveOK

LEMMA PauseEndsOK ==
  ASSUME IInv, NEW k \in Tasks, PauseEnds(k)
  PROVE  IInv'
<1>1. InSync(k) /\ syncing
  BY LockHeld DEF PauseEnds, InSync
<1>2. Net!TypeOK' /\ StatusByFailures'
  BY MonitorFrame DEF PauseEnds, monitorVars
<1>3. CASE /\ NextBatch(k) # {}
           /\ Post(k, NextBatch(k), task[k].errors)
           /\ UNCHANGED syncing
  <2>1. /\ k \in Submitters => task[k].job \in Packets
        /\ task[k].rest \in SUBSET Pending
    BY <1>1 DEF IInv, TaskOK, InSync
  <2>2. NextBatch(k) \in SUBSET Pending
    BY <2>1 DEF NextBatch, Batch
  <2>3. task[k].errors \in SUBSET Ids
    BY DEF IInv, TypeOK, TaskStates
  <2>4. Effect(k) /\ TaskOK(k)'
    BY <1>1, <1>3, <2>1, <2>2, <2>3, PostEffect DEF IInv
  <2>5. \A j \in Tasks : InSync(j) => syncing'
    BY <1>1, <1>3
  <2>6. BO!Sealed \subseteq (BO!Sealed)'
    BY SealedFrame DEF PauseEnds
  <2>7. /\ syncing' \in BOOLEAN
        /\ ledger' \in Seq(Txns) /\ orphans' \subseteq Txns
    BY <1>3 DEF IInv, TypeOK, PauseEnds
  <2>8. QED
    BY <1>1, <1>2, <2>4, <2>5, <2>6, <2>7, MoveOK
<1>4. CASE syncing' = FALSE /\ Returns(k)
  BY <1>1, <1>2, <1>4, Releases DEF PauseEnds
<1>5. QED
  BY <1>3, <1>4 DEF PauseEnds

LEMMA SyncRaisesOK ==
  ASSUME IInv, NEW k \in Tasks, SyncRaises(k)
  PROVE  IInv'
<1>1. InSync(k)
  BY DEF SyncRaises, InSync
<1>2. Net!TypeOK' /\ StatusByFailures'
  BY MonitorFrame DEF SyncRaises, monitorVars
<1>3. QED
  BY <1>1, <1>2, Releases DEF SyncRaises

LEMMA SendEndsOK ==
  ASSUME IInv, NEW k \in Tasks, SendEnds(k)
  PROVE  IInv'
<1>1. Net!TypeOK' /\ StatusByFailures'
  BY MonitorFrame DEF SendEnds
<1>2. task[k].at = "send" /\ task[k].job \in Packets
  BY DEF IInv, TaskOK, SendEnds
<1>3. CASE Store(k)
  BY <1>1, <1>2, <1>3, StoreEffect, StepOut DEF SendEnds, IInv
<1>4. CASE /\ task[k].answer = "200"
           /\ acked' = acked \cup {task[k].job}
           /\ task' = [task EXCEPT ![k] = Idle]
           /\ UNCHANGED buffer
  <2>1. Posted(k) = Content[task[k].job]
    BY <1>2 DEF Posted
  <2>2. Content[task[k].job] \in BO!Sealed
    BY <1>4, <2>1 DEF IInv, TaskOK, Taken
  <2>3. (BO!Sealed)' = BO!Sealed
    BY SealedFrame DEF SendEnds
  <2>4. Grown
    BY <1>4, SameBuffer DEF IInv, TypeOK
  <2>5. /\ task' \in [Tasks -> TaskStates']
        /\ task'[k] = Idle
        /\ \A j \in Tasks : j # k => task'[j] = task[j]
    BY <1>4, <2>4, TasksTyped, IdleTyped DEF IInv, TypeOK, Grown
  <2>6. /\ acked' \subseteq Packets
        /\ \A p \in acked' \ acked : Content[p] \in (BO!Sealed)'
    BY <1>2, <1>4, <2>2, <2>3 DEF IInv, TypeOK
  <2>7. Effect(k)
    BY <2>4, <2>5, <2>6 DEF Effect
  <2>8. Out(k)'
    BY <2>5 DEF Idle, Out, Taken
  <2>9. QED
    BY <1>1, <2>7, <2>8, StepOut DEF SendEnds
<1>5. QED
  BY <1>3, <1>4 DEF SendEnds

\* A row of the batch is settled, or has failed once more.
LEMMA RowSettled ==
  ASSUME buffer \in Seq(Rows), NEW i \in Pending, NEW a,
         Taken(a) => Content[buffer[i].packet] \in BO!Sealed, MarkedSealed,
         UNCHANGED ledger,
         buffer' = [buffer EXCEPT ![i] = IF Taken(a) THEN Marked(@)
                                                     ELSE Failed(@)]
  PROVE  /\ buffer' \in Seq(Rows)
         /\ Ids' = Ids
         /\ \A j \in Ids : buffer'[j].packet = buffer[j].packet
         /\ Pending \ {i} \subseteq Pending'
         /\ MarkedSealed'
<1> DEFINE row == IF Taken(a) THEN Marked(buffer[i]) ELSE Failed(buffer[i])
<1>1. /\ i \in Ids /\ Ids = 1..Len(buffer)
      /\ buffer[i] \in Rows
      /\ buffer[i].retry < MaxRetry
  BY DEF Pending, Ids
<1>2. /\ Marked(buffer[i]) \in Rows /\ Marked(buffer[i]).packet = buffer[i].packet
      /\ Failed(buffer[i]) \in Rows /\ Failed(buffer[i]).packet = buffer[i].packet
      /\ Failed(buffer[i]).synced = buffer[i].synced
  <2> DEFINE old == buffer[i]
  <2>1. /\ old \in [packet : Packets, retry : 0..MaxRetry, synced : BOOLEAN]
        /\ old.retry < MaxRetry
    BY <1>1 DEF Rows
  <2> HIDE DEF old
  <2>2. old.retry + 1 \in 0..MaxRetry
    BY <2>1, LimitsAssumption
  <2>3. /\ [old EXCEPT !.synced = TRUE]
             \in [packet : Packets, retry : 0..MaxRetry, synced : BOOLEAN]
        /\ [old EXCEPT !.synced = TRUE].packet = old.packet
    BY <2>1
  <2>4. /\ [old EXCEPT !.retry = @ + 1]
             \in [packet : Packets, retry : 0..MaxRetry, synced : BOOLEAN]
        /\ [old EXCEPT !.retry = @ + 1].packet = old.packet
        /\ [old EXCEPT !.retry = @ + 1].synced = old.synced
    BY <2>1, <2>2
  <2>5. QED
    BY <2>3, <2>4 DEF old, Rows, Marked, Failed
<1>3. /\ row \in Rows /\ row.packet = buffer[i].packet
      /\ row.synced => Taken(a) \/ buffer[i].synced
  BY <1>2
<1>4. buffer' = [buffer EXCEPT ![i] = row]
  OBVIOUS
<1> HIDE DEF row
<1>5. /\ buffer' \in Seq(Rows)
      /\ Ids' = Ids
      /\ buffer'[i] = row
      /\ \A j \in Ids : j # i => buffer'[j] = buffer[j]
  BY <1>1, <1>3, <1>4 DEF Ids
<1>6. Pending \ {i} \subseteq Pending'
  BY <1>5 DEF Pending
<1>7. (BO!Sealed)' = BO!Sealed
  BY SealedFrame
<1>8. MarkedSealed'
  BY <1>1, <1>3, <1>5, <1>7 DEF MarkedSealed
<1>9. QED
  BY <1>3, <1>5, <1>6, <1>8

LEMMA PostEndsOK ==
  ASSUME IInv, NEW k \in Tasks, PostEnds(k)
  PROVE  IInv'
<1> DEFINE i == Current(k)
           a == task[k].answer
           r == [task[k] EXCEPT !.at = "pause", !.rest = @ \ {i},
                                !.errors = IF Taken(a) THEN @ ELSE @ \cup {i},
                                !.answer = "none"]
<1>1. /\ InSync(k) /\ syncing /\ task[k] \in TaskStates
      /\ task[k].rest # {} /\ task[k].rest \subseteq Pending
      /\ k \in Submitters => task[k].job \in Packets
      /\ Taken(a) => Posted(k) \in BO!Sealed
  BY DEF PostEnds, IInv, TypeOK, TaskOK, InSync
<1>2. i \in task[k].rest /\ i \in Pending /\ i \in Ids
  <2>1. task[k].rest \in SUBSET Nat
    BY <1>1 DEF Pending, Ids, IInv, TypeOK
  <2>2. QED
    BY <1>1, <2>1, CurrentInRest DEF Pending
<1>3. Taken(a) => Content[buffer[i].packet] \in BO!Sealed
  BY <1>1 DEF Posted, PostEnds
<1>4. /\ buffer' \in Seq(Rows)
      /\ Ids' = Ids
      /\ \A j \in Ids : buffer'[j].packet = buffer[j].packet
      /\ Pending \ {i} \subseteq Pending'
      /\ MarkedSealed'
  <2>1. buffer' = [buffer EXCEPT ![i] = IF Taken(a) THEN Marked(@) ELSE Failed(@)]
    BY DEF PostEnds
  <2>2. buffer \in Seq(Rows) /\ MarkedSealed /\ UNCHANGED ledger
    BY DEF PostEnds, IInv, TypeOK
  <2> HIDE DEF i, a
  <2>3. QED
    BY <1>2, <1>3, <2>1, <2>2, RowSettled
<1>5. /\ r \in TaskStates /\ TaskStates' = TaskStates
      /\ r.at = "pause" /\ r.rest = task[k].rest \ {i} /\ r.answer = "none"
      /\ r.job = task[k].job
  BY <1>1, <1>2, <1>4 DEF TaskStates, Awaits, Answers
<1>6. task' = [task EXCEPT ![k] = r]
  BY <1>1 DEF PostEnds, IInv, TypeOK
<1> HIDE DEF r
<1>7. /\ task' \in [Tasks -> TaskStates']
      /\ task'[k] = r
      /\ \A j \in Tasks : j # k => task'[j] = task[j]
  BY <1>5, <1>6 DEF IInv, TypeOK
<1>8. Net!TypeOK' /\ StatusByFailures'
  BY MonitorFrame DEF PostEnds
<1>9. TypeOK'
  BY <1>4, <1>7, <1>8 DEF TypeOK, IInv, PostEnds
<1>10. (BO!Sealed)' = BO!Sealed
  BY SealedFrame DEF PostEnds
<1>11. TaskOK(k)'
  BY <1>1, <1>4, <1>5, <1>7 DEF TaskOK, Taken, InSync, PostEnds
<1>12. ASSUME NEW j \in Tasks, j # k
       PROVE  TaskOK(j)' /\ ~InSync(j)'
  <2>1. TaskOK(j) /\ ~InSync(j)
    BY <1>1, <1>12, LockHeld DEF IInv
  <2>2. task[j].rest \in SUBSET Ids /\ Ids \in SUBSET Nat
    BY DEF IInv, TypeOK, TaskStates, Ids
  <2>3. QED
    BY <1>4, <1>7, <1>10, <1>12, <2>1, <2>2, OthersKeep
<1>13. OneSync'
  BY <1>12 DEF OneSync
<1>14. AckedStored'
  BY <1>4, <1>10 DEF AckedStored, Buffered, PostEnds, IInv
<1>15. QED
  BY <1>4, <1>8, <1>9, <1>11, <1>12, <1>13, <1>14 DEF IInv

\* A task that waits has posted an operation of its own or of its batch.
LEMMA WaitingPosts ==
  ASSUME IInv, NEW k \in Tasks, Waiting(k)
  PROVE  task[k].at \in {"post", "send"} /\ Posted(k) \in Txns
<1>1. task[k].at \in {"post", "send"}
  BY DEF IInv, TaskOK, Waiting
<1>2. CASE task[k].at = "post"
  <2>1. task[k].rest # {} /\ task[k].rest \subseteq Pending
    BY <1>2 DEF IInv, TaskOK, InSync
  <2>2. task[k].rest \in SUBSET Nat
    BY <2>1 DEF Pending, Ids, IInv, TypeOK
  <2>3. Current(k) \in Ids
    BY <2>1, <2>2, CurrentInRest DEF Pending
  <2>4. buffer[Current(k)].packet \in Packets
    <3>1. buffer[Current(k)] \in Rows
      BY <2>3 DEF IInv, TypeOK, Ids
    <3>2. QED
      BY <3>1 DEF Rows
  <2>5. QED
    BY <1>2, <2>4, ContentAssumption DEF Posted
<1>3. CASE task[k].at = "send"
  BY <1>3, ContentAssumption DEF IInv, TaskOK, Posted
<1>4. QED
  BY <1>1, <1>2, <1>3

LEMMA OrphansTyped ==
  ASSUME IInv, NEW ks \in SUBSET Tasks, Orphaned(ks)
  PROVE  orphans' \subseteq Txns
<1>1. \A k \in ks : Waiting(k) => Posted(k) \in Txns
  BY WaitingPosts
<1>2. QED
  BY <1>1 DEF Orphaned, IInv, TypeOK

\* An answer arrives, or will not arrive any more.
LEMMA AnswerOK ==
  ASSUME IInv, NEW k \in Tasks, NEW a \in Answers \ {"none"},
         task[k].at \in {"post", "send"}, Answer(k, a),
         Taken(a) => Posted(k) \in (BO!Sealed)',
         BO!Sealed \subseteq (BO!Sealed)',
         ledger' \in Seq(Txns), orphans' \subseteq Txns,
         UNCHANGED <<status, failures, was, syncing, buffer, acked>>
  PROVE  IInv'
<1> DEFINE r == [task[k] EXCEPT !.answer = a]
<1>1. task[k] \in TaskStates /\ TaskOK(k)
  BY DEF IInv, TypeOK
<1>2. Grown /\ Ids' = Ids /\ Pending' = Pending
  BY SameBuffer DEF IInv, TypeOK, Ids, Pending
<1>3. /\ r \in TaskStates'
      /\ r.answer = a /\ r.at = task[k].at /\ r.rest = task[k].rest
      /\ r.job = task[k].job
  BY <1>1, <1>2 DEF TaskStates, Awaits, Answers
<1>4. task' = [task EXCEPT ![k] = r]
  BY DEF Answer
<1> HIDE DEF r
<1>5. /\ task' \in [Tasks -> TaskStates']
      /\ task'[k] = r
      /\ \A j \in Tasks : j # k => task'[j] = task[j]
  BY <1>2, <1>3, <1>4, TasksTyped DEF IInv, TypeOK, Grown
<1>6. Effect(k)
  BY <1>2, <1>5 DEF Effect, IInv, TypeOK
<1>7. Posted(k)' = Posted(k)
  <2>1. Current(k)' = Current(k)
    BY <1>3, <1>5 DEF Current
  <2>2. QED
    BY <1>3, <1>5, <2>1 DEF Posted
<1>8. TaskOK(k)' /\ InSync(k)' = InSync(k)
  BY <1>1, <1>2, <1>3, <1>5, <1>7 DEF TaskOK, InSync
<1>9. Net!TypeOK' /\ StatusByFailures'
  BY MonitorFrame
<1>10. syncing' \in BOOLEAN /\ \A j \in Tasks : InSync(j) => syncing'
  BY LockHeld DEF IInv, TypeOK
<1>11. QED
  BY <1>6, <1>8, <1>9, <1>10, MoveOK

LEMMA RespondsOK ==
  ASSUME IInv, NEW k \in Tasks, Responds(k)
  PROVE  IInv'
<1>1. CASE BoSeals(k)
  <2>1. task[k].at \in {"post", "send"} /\ Posted(k) \in Txns
    BY <1>1, WaitingPosts DEF BoSeals
  <2>2. /\ ledger' \in Seq(Txns)
        /\ Posted(k) \in (BO!Sealed)'
        /\ BO!Sealed \subseteq (BO!Sealed)'
    BY <1>1, <2>1, SealedGrows DEF BoSeals, BO!Seal, IInv, TypeOK
  <2>3. orphans' \subseteq Txns
    BY <1>1 DEF BoSeals, IInv, TypeOK
  <2>4. PICK a \in {"200", "refused"} : Answer(k, a)
    BY <1>1 DEF BoSeals
  <2>5. a \in Answers \ {"none"}
    BY DEF Answers
  <2>6. QED
    BY <1>1, <2>1, <2>2, <2>3, <2>4, <2>5, AnswerOK DEF BoSeals
<1>2. CASE BoHasIt(k)
  <2>1. task[k].at \in {"post", "send"}
    BY <1>2, WaitingPosts DEF BoHasIt
  <2>2. (BO!Sealed)' = BO!Sealed
    BY <1>2, SealedFrame DEF BoHasIt
  <2>3. ledger' \in Seq(Txns) /\ orphans' \subseteq Txns
    BY <1>2 DEF BoHasIt, IInv, TypeOK
  <2>4. "409" \in Answers \ {"none"}
    BY DEF Answers
  <2>5. QED
    BY <1>2, <2>1, <2>2, <2>3, <2>4, AnswerOK DEF BoHasIt
<1>3. CASE BoRefuses(k)
  <2>1. task[k].at \in {"post", "send"}
    BY <1>3, WaitingPosts DEF BoRefuses
  <2>2. (BO!Sealed)' = BO!Sealed
    BY <1>3, SealedFrame DEF BoRefuses
  <2>3. ledger' \in Seq(Txns) /\ orphans' \subseteq Txns
    BY <1>3 DEF BoRefuses, IInv, TypeOK
  <2>4. "refused" \in Answers \ {"none"} /\ ~Taken("refused")
    BY DEF Answers, Taken
  <2>5. QED
    BY <1>3, <2>1, <2>2, <2>3, <2>4, AnswerOK DEF BoRefuses
<1>4. CASE Lost(k)
  <2>1. (BO!Sealed)' = BO!Sealed
    BY <1>4, SealedFrame DEF Lost
  <2>2. orphans' \subseteq Txns
    BY <1>4, OrphansTyped DEF Lost
  <2>3. ledger' \in Seq(Txns)
    BY <1>4 DEF Lost, IInv, TypeOK
  <2>4. "lost" \in Answers \ {"none"} /\ ~Taken("lost")
    BY DEF Answers, Taken
  <2>5. QED
    BY <1>4, <2>1, <2>2, <2>3, <2>4, AnswerOK DEF Lost
<1>5. QED
  BY <1>1, <1>2, <1>3, <1>4 DEF Responds

\* What is left of the invariant when tasks, buffer and acknowledgements stay.
LEMMA LedgerMoves ==
  ASSUME IInv, BO!Sealed \subseteq (BO!Sealed)', ledger' \in Seq(Txns),
         orphans' \subseteq Txns,
         UNCHANGED <<status, failures, was, task, syncing, buffer, acked>>
  PROVE  IInv'
<1>1. Monitor \in Tasks
  BY DEF Tasks
<1>2. Grown /\ Ids' = Ids /\ Pending' = Pending
  BY SameBuffer DEF IInv, TypeOK, Ids, Pending
<1>3. TaskStates' = TaskStates
  BY <1>2 DEF TaskStates
<1>4. Effect(Monitor)
  BY <1>2, <1>3 DEF Effect, IInv, TypeOK
<1>5. TaskOK(Monitor)' /\ InSync(Monitor)' = InSync(Monitor)
  <2>1. task[Monitor].rest \in SUBSET Ids /\ Ids \in SUBSET Nat
    BY <1>1 DEF IInv, TypeOK, TaskStates, Ids
  <2>2. InSync(Monitor) => syncing' /\ Pending \subseteq Pending'
    BY <1>1, <1>2, LockHeld
  <2>3. QED
    BY <1>1, <2>1, <2>2, OthersKeep DEF IInv
<1>6. Net!TypeOK' /\ StatusByFailures'
  BY MonitorFrame
<1>7. syncing' \in BOOLEAN /\ \A j \in Tasks : InSync(j) => syncing'
  BY LockHeld DEF IInv, TypeOK
<1>8. QED
  BY <1>1, <1>4, <1>5, <1>6, <1>7, MoveOK

LEMMA OrphanArrivesOK ==
  ASSUME IInv, NEW t \in Txns, OrphanArrives(t)
  PROVE  IInv'
<1>1. ledger' \in Seq(Txns) /\ BO!Sealed \subseteq (BO!Sealed)'
  BY SealedGrows DEF OrphanArrives, BO!Seal, IInv, TypeOK
<1>2. orphans' \subseteq Txns
  BY DEF OrphanArrives, IInv, TypeOK
<1>3. QED
  BY <1>1, <1>2, LedgerMoves DEF OrphanArrives

LEMMA RestartOK ==
  ASSUME IInv, Restart
  PROVE  IInv'
<1>1. Net!TypeOK' /\ StatusByFailures'
  BY LimitsAssumption
     DEF Restart, Net!TypeOK, Net!Statuses, StatusByFailures,
         Net!StatusByFailures
<1>2. Ids' = Ids /\ (BO!Sealed)' = BO!Sealed
  BY SealedFrame DEF Restart, Ids
<1>3. task' \in [Tasks -> TaskStates']
  BY IdleTyped DEF Restart
<1>4. orphans' \subseteq Txns
  BY OrphansTyped DEF Restart
<1>5. TypeOK'
  BY <1>1, <1>3, <1>4 DEF TypeOK, IInv, Restart
<1>6. ASSUME NEW k \in Tasks PROVE TaskOK(k)' /\ ~InSync(k)'
  <2>1. task'[k] = Idle
    BY DEF Restart
  <2>2. QED
    BY <2>1 DEF Idle, TaskOK, InSync, Taken
<1>7. OneSync'
  BY <1>6 DEF OneSync
<1>8. MarkedSealed' /\ AckedStored'
  BY <1>2 DEF MarkedSealed, AckedStored, Buffered, IInv, Restart
<1>9. QED
  BY <1>1, <1>5, <1>6, <1>7, <1>8 DEF IInv

LEMMA NextOK == IInv /\ [Next]_vars => IInv'
<1> SUFFICES ASSUME IInv, [Next]_vars PROVE IInv'
  OBVIOUS
<1>1. ASSUME NEW k \in Tasks, Starts(k) PROVE IInv'
  BY <1>1, SubmitOK, CheckOK, ForceSyncOK DEF Starts
<1>2. ASSUME NEW k \in Tasks, Proceeds(k) PROVE IInv'
  BY <1>2, ProbeEndsOK, PostEndsOK, PauseEndsOK, SyncRaisesOK, SendEndsOK
     DEF Proceeds
<1>3. ASSUME NEW k \in Tasks, Responds(k) PROVE IInv'
  BY <1>3, RespondsOK
<1>4. ASSUME NEW t \in Txns, OrphanArrives(t) PROVE IInv'
  BY <1>4, OrphanArrivesOK
<1>5. CASE Restart
  BY <1>5, RestartOK
<1>6. CASE UNCHANGED vars
  <2>1. (BO!Sealed)' = BO!Sealed
    BY <1>6, SealedFrame DEF vars
  <2>2. QED
    BY <1>6, <2>1, LedgerMoves DEF vars, IInv, TypeOK
<1>7. QED
  BY <1>1, <1>2, <1>3, <1>4, <1>5, <1>6 DEF Next, Runs

-------------------------------------------------------------------------------
(***************************************************************************)
(* The theorems.                                                           *)
(***************************************************************************)

\* The invariant holds in every state the terminal, the network and the
\* Back-Office reach.
THEOREM Invariance == Spec => []IInv
BY InitOK, NextOK, PTL DEF Spec

\* Type correctness; in it, that no more than MAX_RETRY failed attempts are ever
\* counted for a row (increment_retry).
THEOREM TypeCorrect == Spec => []TypeOK
<1>1. IInv => TypeOK
  BY DEF IInv
<1>2. QED
  BY <1>1, Invariance, PTL

\* The terminal calls itself offline exactly when the last MAX_FAILURES checks
\* failed, for any number of overlapping checks (_check_connectivity).
THEOREM StatusFollowsFailures == Spec => []StatusByFailures
<1>1. IInv => StatusByFailures
  BY DEF IInv
<1>2. QED
  BY <1>1, Invariance, PTL

\* Two cycles of synchronization never run at a time (_syncing), whoever starts
\* them, and although SQLite may raise in the middle of one.
THEOREM OneSyncEver == Spec => []OneSync
<1>1. IInv => OneSync
  BY DEF IInv
<1>2. QED
  BY <1>1, Invariance, PTL

\* A row that was marked, or has no attempts left, is not sent by a batch that
\* was read before (sync_pending).
THEOREM NeverSentAgain == Spec => []NeverResent
<1>1. IInv => NeverResent
  <2> SUFFICES ASSUME IInv, NEW k \in Tasks, task[k].at = "post"
               PROVE  Current(k) \in Pending
    BY DEF NeverResent
  <2>1. task[k].rest # {} /\ task[k].rest \subseteq Pending
    BY DEF IInv, TaskOK, InSync
  <2>2. task[k].rest \in SUBSET Nat
    BY <2>1 DEF Pending, Ids, IInv, TypeOK
  <2>3. QED
    BY <2>1, <2>2, CurrentInRest
<1>2. QED
  BY <1>1, Invariance, PTL

\* Whatever is lost, late, refused or restarted: a packet whose agent was told
\* success is sealed, or its row is unmarked: to be sent again, or given up and
\* listed as such by get_failed_transactions.
THEOREM AcknowledgedNotLost == Spec => []AckedNotLost
<1>1. IInv => AckedNotLost
  <2> SUFFICES ASSUME IInv, NEW p \in acked, Content[p] \notin BO!Sealed
               PROVE  \E i \in Pending \cup GivenUp : buffer[i].packet = p
    BY DEF AckedNotLost
  <2>1. PICK i \in Ids : buffer[i].packet = p
    BY DEF IInv, AckedStored, Buffered
  <2>2. ~buffer[i].synced
    BY <2>1 DEF IInv, MarkedSealed
  <2>3. buffer[i].retry \in Nat
    <3>1. buffer[i] \in Rows
      BY DEF IInv, TypeOK, Ids
    <3>2. QED
      BY <3>1, LimitsAssumption DEF Rows
  <2>4. i \in Pending \cup GivenUp
    BY <2>2, <2>3, LimitsAssumption DEF Pending, GivenUp
  <2>5. QED
    BY <2>1, <2>4
<1>2. QED
  BY <1>1, Invariance, PTL

===============================================================================
