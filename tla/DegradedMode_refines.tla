------------------------- MODULE DegradedMode_refines -------------------------
(***************************************************************************)
(* Proof that DegradedMode implements Delivery: with its tasks, its lock   *)
(* and its monitor left out, the terminal is a set of stored packets, one  *)
(* of which may be on its way, that changes only as Delivery says.         *)
(***************************************************************************)
EXTENDS DegradedMode_proofs

\* UNIQUE(transaction_id).  IInv does not need it; the set of the rows does, or
\* settling one row would leave an equal one behind.
OneRowEach == \A i, j \in Ids : buffer[i].packet = buffer[j].packet => i = j

\* An attempt goes on, or it is over.
SendingStays == Sending' = Sending
SendingStops == Sending' = {}

\* What a step of the terminal may do to what Delivery sees.
Stores(p) ==
  /\ ~Buffered(p)
  /\ buffer' = Append(buffer, NewRow(p))
  /\ acked' = acked \/ acked' = acked \cup {p}
  /\ SendingStays \/ SendingStops
  /\ UNCHANGED ledger

Confirms(p) ==
  /\ Content[p] \in BO!Sealed
  /\ acked' = acked \cup {p}
  /\ SendingStays
  /\ UNCHANGED <<ledger, buffer>>

Sends(i) ==
  /\ Sending = {}
  /\ Sending' = {buffer[i].packet}
  /\ UNCHANGED <<ledger, buffer, acked>>

Settles(i) ==
  /\ buffer[i].packet \in Sending
  /\ Content[buffer[i].packet] \in BO!Sealed
  /\ buffer' = [buffer EXCEPT ![i] = Marked(@)]
  /\ SendingStops
  /\ UNCHANGED <<ledger, acked>>

Fails(i) ==
  /\ buffer[i].packet \in Sending
  /\ buffer' = [buffer EXCEPT ![i] = Failed(@)]
  /\ SendingStops
  /\ UNCHANGED <<ledger, acked>>

Seals(t) == BO!Seal(t) /\ SendingStays /\ UNCHANGED <<buffer, acked>>

Idles ==
  /\ SendingStays \/ SendingStops
  /\ UNCHANGED <<ledger, buffer, acked>>

BufferStep ==
  \/ Idles
  \/ \E p \in Packets : Stores(p) \/ Confirms(p)
  \/ \E t \in Txns : Seals(t)
  \/ \E i \in Pending : Sends(i) \/ Settles(i) \/ Fails(i)

-------------------------------------------------------------------------------
(***************************************************************************)
(* What happens to the packet that is being sent.                          *)
(***************************************************************************)

\* A task that sends a row of its batch sends one of the buffer.
LEMMA CurrentRow ==
  ASSUME IInv, NEW k \in Tasks, task[k].at = "post"
  PROVE  Current(k) \in Pending /\ Current(k) \in Ids
<1>1. task[k].rest # {} /\ task[k].rest \subseteq Pending
  BY DEF IInv, TaskOK, InSync
<1>2. task[k].rest \in SUBSET Nat
  BY <1>1 DEF Pending, Ids, IInv, TypeOK
<1>3. QED
  BY <1>1, <1>2, CurrentInRest DEF Pending

\* The step leaves alone which tasks send, and what.
LEMMA StaysIf ==
  ASSUME IInv,
         \A i \in Ids : buffer'[i].packet = buffer[i].packet,
         \A j \in Tasks : task'[j].at = "post" <=> task[j].at = "post",
         \A j \in Tasks : task[j].at = "post" => task'[j].rest = task[j].rest
  PROVE  SendingStays
<1>1. ASSUME NEW j \in Tasks, task[j].at = "post"
      PROVE  buffer'[Current(j)'].packet = buffer[Current(j)].packet
  <2>1. Current(j)' = Current(j)
    BY <1>1 DEF Current
  <2>2. QED
    BY <1>1, <2>1, CurrentRow
<1>2. QED
  BY <1>1 DEF SendingStays, Sending

\* Under the lock the task that sends is the only one.
LEMMA AloneStops ==
  ASSUME IInv, NEW k \in Tasks, InSync(k), task'[k].at # "post",
         \A j \in Tasks : j # k => task'[j] = task[j]
  PROVE  SendingStops
<1>1. \A j \in Tasks : j # k => task[j].at # "post"
  BY LockHeld DEF InSync
<1>2. QED
  BY <1>1 DEF SendingStops, Sending

\* A task that leaves sync_pending, or was not in it, ends its own attempt only.
LEMMA OutSending ==
  ASSUME IInv, NEW k \in Tasks, Effect(k), Out(k)'
  PROVE  SendingStays \/ SendingStops
<1>1. /\ task'[k].at # "post"
      /\ \A j \in Tasks : j # k => task'[j] = task[j]
      /\ \A i \in Ids : buffer'[i].packet = buffer[i].packet
  BY DEF Effect, Out, Grown
<1>2. CASE task[k].at = "post"
  BY <1>1, <1>2, AloneStops DEF InSync
<1>3. CASE task[k].at # "post"
  BY <1>1, <1>3, StaysIf
<1>4. QED
  BY <1>2, <1>3

\* A batch begins, or goes on, when nothing is being sent.
LEMMA PostIs ==
  ASSUME IInv, NEW k \in Tasks, k \in Submitters => task[k].job \in Packets,
         NEW batch \in SUBSET Pending, batch # {}, NEW errors \in SUBSET Ids,
         Post(k, batch, errors), syncing', task[k].at # "post",
         \A j \in Tasks : j # k => ~InSync(j), UNCHANGED ledger
  PROVE  BufferStep
<1>1. \A j \in Tasks : task[j].at # "post"
  BY DEF InSync
<1>2. \A j \in Tasks : j # k => task'[j] = task[j]
  BY PostEffect DEF Effect, IInv
<1>3. task'[k].at = "post" /\ task'[k].rest = batch
  BY DEF Post, IInv, TypeOK, TaskStates
<1> DEFINE i == Current(k)'
<1>4. i \in batch
  <2>1. \E x \in batch : \A y \in batch : x <= y
    BY HasLeast DEF Pending, Ids, IInv, TypeOK
  <2>2. QED
    BY <1>3, <2>1 DEF Current
<1>5. Sending = {}
  BY <1>1 DEF Sending
<1>6. Sending' = {buffer[i].packet}
  <2>1. buffer' = buffer
    BY DEF Post
  <2>2. \A j \in Tasks : task'[j].at = "post" <=> j = k
    BY <1>1, <1>2, <1>3
  <2>3. QED
    BY <2>1, <2>2 DEF Sending
<1> HIDE DEF i
<1>7. i \in Pending /\ Sends(i)
  BY <1>4, <1>5, <1>6 DEF Sends, Post
<1>8. QED
  BY <1>7 DEF BufferStep

-------------------------------------------------------------------------------
(***************************************************************************)
(* Every step of the code is one of those.                                 *)
(***************************************************************************)

\* Storing a packet adds its row, or the task ends.
LEMMA StoreIs ==
  ASSUME IInv, NEW k \in Tasks, task[k].job \in Packets, Store(k),
         UNCHANGED ledger
  PROVE  BufferStep
<1>1. SendingStays \/ SendingStops
  BY StoreEffect, OutSending DEF IInv
<1>2. CASE Ends(k)
  BY <1>1, <1>2 DEF Ends, BufferStep, Idles
<1>3. CASE ~Ends(k)
  <2>1. Stores(task[k].job)
    BY <1>1, <1>3 DEF Store, Stores
  <2>2. QED
    BY <2>1 DEF BufferStep
<1>4. QED
  BY <1>2, <1>3

\* Coming back from the check, or from a synchronization, stores one row or none.
LEMMA ReturnsIs ==
  ASSUME IInv, NEW k \in Tasks, k \in Submitters => task[k].job \in Packets,
         Returns(k), UNCHANGED ledger
  PROVE  BufferStep
<1>1. SendingStays \/ SendingStops
  BY ReturnsEffect, OutSending DEF IInv
<1>2. CASE k \in Submitters /\ Store(k)
  BY <1>2, StoreIs
<1>3. CASE UNCHANGED <<buffer, acked>>
  BY <1>1, <1>3 DEF BufferStep, Idles
<1>4. QED
  BY <1>2, <1>3 DEF Returns, Ends

LEMMA SyncIs ==
  ASSUME IInv, NEW k \in Tasks, k \in Submitters => task[k].job \in Packets,
         Sync(k), UNCHANGED ledger
  PROVE  BufferStep
<1>1. CASE Returns(k)
  BY <1>1, ReturnsIs
<1>2. CASE /\ ~syncing
           /\ Pending # {}
           /\ syncing' = TRUE
           /\ Post(k, Batch, {})
  <2>1. Batch \in SUBSET Pending /\ Batch # {}
    BY <1>2, BatchNonempty DEF Batch, IInv
  <2>2. \A j \in Tasks : ~InSync(j)
    BY <1>2, LockHeld
  <2>3. QED
    BY <1>2, <2>1, <2>2, PostIs DEF InSync
<1>3. QED
  BY <1>1, <1>2 DEF Sync

\* sync_pending settles, or fails, the row it has just sent.
LEMMA PostEndsIs ==
  ASSUME IInv, NEW k \in Tasks, PostEnds(k)
  PROVE  BufferStep
<1> DEFINE i == Current(k)
           a == task[k].answer
<1>1. task[k].at = "post" /\ InSync(k) /\ (Taken(a) => Posted(k) \in BO!Sealed)
  BY DEF PostEnds, IInv, TaskOK, InSync
<1>2. i \in Pending
  BY <1>1, CurrentRow
<1>3. /\ buffer[i].packet \in Sending
      /\ Taken(a) => Content[buffer[i].packet] \in BO!Sealed
  BY <1>1 DEF Posted, Sending
<1>4. SendingStops
  <2>1. /\ task'[k].at # "post"
        /\ \A j \in Tasks : j # k => task'[j] = task[j]
    BY DEF PostEnds, IInv, TypeOK, TaskStates
  <2>2. QED
    BY <1>1, <2>1, AloneStops
<1>5. /\ buffer' = [buffer EXCEPT ![i] = IF Taken(a) THEN Marked(@)
                                                     ELSE Failed(@)]
      /\ UNCHANGED <<ledger, acked>>
  BY DEF PostEnds
<1> HIDE DEF i, a
<1>6. Settles(i) \/ Fails(i)
  BY <1>3, <1>4, <1>5 DEF Settles, Fails
<1>7. QED
  BY <1>2, <1>6 DEF BufferStep

LEMMA SendEndsIs ==
  ASSUME IInv, NEW k \in Tasks, SendEnds(k)
  PROVE  BufferStep
<1>1. task[k].at = "send" /\ k \in Submitters /\ task[k].job \in Packets
  BY DEF IInv, TaskOK, SendEnds
<1>2. CASE Store(k)
  BY <1>1, <1>2, StoreIs DEF SendEnds
<1>3. CASE /\ task[k].answer = "200"
           /\ acked' = acked \cup {task[k].job}
           /\ task' = [task EXCEPT ![k] = Idle]
           /\ UNCHANGED buffer
  <2>1. Content[task[k].job] \in BO!Sealed
    BY <1>1, <1>3 DEF IInv, TaskOK, Taken, Posted
  <2>2. SendingStays
    <3>1. /\ task'[k].at # "post"
          /\ \A j \in Tasks : j # k => task'[j] = task[j]
      BY <1>3 DEF Idle, IInv, TypeOK
    <3>2. QED
      BY <1>1, <1>3, <3>1, StaysIf
  <2>3. Confirms(task[k].job)
    BY <1>3, <2>1, <2>2 DEF Confirms, SendEnds
  <2>4. QED
    BY <1>1, <2>3 DEF BufferStep
<1>4. QED
  BY <1>2, <1>3 DEF SendEnds

LEMMA ProceedsIs ==
  ASSUME IInv, NEW k \in Tasks, Proceeds(k)
  PROVE  BufferStep
<1>1. task[k].at # "idle" => (k \in Submitters => task[k].job \in Packets)
  BY DEF IInv, TaskOK
<1>2. CASE ProbeEnds(k)
  BY <1>1, <1>2, SyncIs, ReturnsIs DEF ProbeEnds
<1>3. CASE PostEnds(k)
  BY <1>3, PostEndsIs
<1>4. CASE PauseEnds(k)
  <2>1. CASE Returns(k)
    BY <1>1, <1>4, <2>1, ReturnsIs DEF PauseEnds
  <2>2. CASE /\ NextBatch(k) # {}
             /\ Post(k, NextBatch(k), task[k].errors)
             /\ UNCHANGED syncing
    <3>1. InSync(k) /\ syncing /\ \A j \in Tasks : j # k => ~InSync(j)
      BY <1>4, LockHeld DEF PauseEnds, InSync
    <3>2. task[k].rest \in SUBSET Pending /\ task[k].errors \in SUBSET Ids
      BY <3>1 DEF IInv, TypeOK, TaskStates, TaskOK
    <3>3. NextBatch(k) \in SUBSET Pending
      BY <3>2 DEF NextBatch, Batch
    <3>4. QED
      BY <1>1, <1>4, <2>2, <3>1, <3>2, <3>3, PostIs DEF PauseEnds
  <2>3. QED
    BY <1>4, <2>1, <2>2 DEF PauseEnds
<1>5. CASE SyncRaises(k)
  BY <1>1, <1>5, ReturnsIs DEF SyncRaises
<1>6. CASE SendEnds(k)
  BY <1>6, SendEndsIs
<1>7. QED
  BY <1>2, <1>3, <1>4, <1>5, <1>6 DEF Proceeds

\* An answer, or its loss, leaves the attempt under way.
LEMMA AnswerStays ==
  ASSUME IInv, NEW k \in Tasks, NEW a, Answer(k, a), UNCHANGED buffer
  PROVE  SendingStays
<1>1. \A j \in Tasks : task'[j].at = task[j].at /\ task'[j].rest = task[j].rest
  BY DEF Answer, IInv, TypeOK, TaskStates
<1>2. QED
  BY <1>1, StaysIf

LEMMA StartsIs ==
  ASSUME IInv, NEW k \in Tasks, Starts(k)
  PROVE  BufferStep
<1>1. CASE ForceSync(k)
  <2>1. k \notin Submitters
    BY <1>1, TasksAssumption DEF ForceSync
  <2>2. QED
    BY <1>1, <2>1, SyncIs DEF ForceSync
<1>2. CASE \E p \in Packets : Submit(k, p)
  <2>1. \A j \in Tasks : task'[j].at = "post" <=> task[j].at = "post"
    BY <1>2 DEF Submit, Idle, IInv, TypeOK, TaskStates
  <2>2. \A j \in Tasks : task[j].at = "post" => task'[j] = task[j]
    BY <1>2 DEF Submit, Idle, IInv, TypeOK
  <2>3. SendingStays
    BY <1>2, <2>1, <2>2, StaysIf DEF Submit
  <2>4. QED
    BY <1>2, <2>3 DEF Submit, BufferStep, Idles
<1>3. CASE k = Monitor /\ Check
  <2>1. \A j \in Tasks : task'[j].at = "post" <=> task[j].at = "post"
    BY <1>3 DEF Check, Idle, IInv, TypeOK, TaskStates
  <2>2. \A j \in Tasks : task[j].at = "post" => task'[j] = task[j]
    BY <1>3 DEF Check, Idle, IInv, TypeOK
  <2>3. SendingStays
    BY <1>3, <2>1, <2>2, StaysIf DEF Check
  <2>4. QED
    BY <1>3, <2>3 DEF Check, BufferStep, Idles
<1>4. QED
  BY <1>1, <1>2, <1>3 DEF Starts

LEMMA RespondsIs ==
  ASSUME IInv, NEW k \in Tasks, Responds(k)
  PROVE  BufferStep
<1>1. SendingStays
  BY AnswerStays DEF Responds, BoSeals, BoHasIt, BoRefuses, Lost
<1>2. CASE BoSeals(k)
  <2>1. Posted(k) \in Txns /\ Seals(Posted(k))
    BY <1>1, <1>2, WaitingPosts DEF BoSeals, Seals
  <2>2. QED
    BY <2>1 DEF BufferStep
<1>3. CASE ~BoSeals(k)
  BY <1>1, <1>3 DEF Responds, BoHasIt, BoRefuses, Lost, BufferStep, Idles
<1>4. QED
  BY <1>2, <1>3

LEMMA StepIs ==
  ASSUME IInv, [Next]_vars
  PROVE  BufferStep
<1>1. ASSUME NEW k \in Tasks, Starts(k) PROVE BufferStep
  BY <1>1, StartsIs
<1>2. ASSUME NEW k \in Tasks, Proceeds(k) PROVE BufferStep
  BY <1>2, ProceedsIs
<1>3. ASSUME NEW k \in Tasks, Responds(k) PROVE BufferStep
  BY <1>3, RespondsIs
<1>4. ASSUME NEW t \in Txns, OrphanArrives(t) PROVE BufferStep
  <2>1. SendingStays
    BY <1>4, StaysIf DEF OrphanArrives
  <2>2. QED
    BY <1>4, <2>1 DEF OrphanArrives, Seals, BufferStep
<1>5. CASE Restart
  <2>1. SendingStops
    BY <1>5 DEF Restart, SendingStops, Sending, Idle
  <2>2. QED
    BY <1>5, <2>1 DEF Restart, BufferStep, Idles
<1>6. CASE UNCHANGED vars
  <2>1. SendingStays
    BY <1>6, StaysIf DEF vars
  <2>2. QED
    BY <1>6, <2>1 DEF vars, BufferStep, Idles
<1>7. QED
  BY <1>1, <1>2, <1>3, <1>4, <1>5, <1>6 DEF Next, Runs

-------------------------------------------------------------------------------
(***************************************************************************)
(* Each of them is a step of Delivery, or none.                            *)
(***************************************************************************)

Outbox == {buffer[i] : i \in Ids}

\* Inserting a row adds it to the set of rows, and to no other.
LEMMA StoresMaps ==
  ASSUME TypeOK, OneRowEach, NEW p \in Packets, Stores(p)
  PROVE  OneRowEach' /\ Promise!Store(p)
<1>1. NewRow(p) \in Rows
  BY NewRowTyped
<1>2. /\ Ids = 1..Len(buffer)
      /\ Ids' = 1..(Len(buffer) + 1)
      /\ \A i \in Ids : buffer'[i] = buffer[i]
      /\ buffer'[Len(buffer) + 1] = NewRow(p)
      /\ Len(buffer) \in Nat
  BY <1>1 DEF Stores, TypeOK, Ids
<1>3. \A i \in Ids : buffer[i].packet # p
  BY DEF Stores, Buffered
<1>4. NewRow(p).packet = p
  BY DEF NewRow
<1>5. Ids' = Ids \cup {Len(buffer) + 1}
  BY <1>2
<1>6. OneRowEach'
  BY <1>2, <1>3, <1>4, <1>5 DEF OneRowEach
<1>7. Outbox' = Outbox \cup {NewRow(p)}
  BY <1>2, <1>5 DEF Outbox
<1>8. \A r \in Outbox : r.packet # p
  BY <1>3 DEF Outbox
<1>9. QED
  BY <1>6, <1>7, <1>8
     DEF Outbox, NewRow, Stores, SendingStays, SendingStops, Promise!Store

\* Changing one row changes that element of the set of rows.
LEMMA RowReplaced ==
  ASSUME TypeOK, OneRowEach, NEW i \in Ids, NEW row, row.packet = buffer[i].packet,
         buffer' = [buffer EXCEPT ![i] = row]
  PROVE  OneRowEach' /\ Outbox' = (Outbox \ {buffer[i]}) \cup {row}
<1>1. /\ Ids' = Ids
      /\ buffer'[i] = row
      /\ \A j \in Ids : j # i => buffer'[j] = buffer[j]
  BY DEF TypeOK, Ids
<1>2. OneRowEach'
  BY <1>1 DEF OneRowEach
<1>3. \A j \in Ids : j # i => buffer[j] # buffer[i]
  BY DEF OneRowEach
<1>4. Outbox' = {buffer[j] : j \in Ids \ {i}} \cup {row}
  BY <1>1 DEF Outbox
<1>5. Outbox \ {buffer[i]} = {buffer[j] : j \in Ids \ {i}}
  BY <1>3 DEF Outbox
<1>6. QED
  BY <1>2, <1>4, <1>5

LEMMA SettlesMaps ==
  ASSUME TypeOK, OneRowEach, NEW i \in Pending, Settles(i)
  PROVE  OneRowEach' /\ Promise!Settle(buffer[i])
<1>1. i \in Ids
  BY DEF Pending
<1>2. Marked(buffer[i]).packet = buffer[i].packet
  <2>1. buffer[i] \in Rows
    BY <1>1 DEF TypeOK, Ids
  <2>2. QED
    BY <2>1 DEF Rows, Marked
<1>3. buffer' = [buffer EXCEPT ![i] = Marked(buffer[i])]
  BY DEF Settles
<1>4. /\ OneRowEach'
      /\ Outbox' = (Outbox \ {buffer[i]}) \cup {Marked(buffer[i])}
  BY <1>1, <1>2, <1>3, RowReplaced
<1>5. QED
  BY <1>1, <1>4
     DEF Outbox, Marked, Settles, SendingStops, BO!Sealed, Promise!BO!Sealed,
         Promise!Settle, Promise!Replace

LEMMA FailsMaps ==
  ASSUME TypeOK, OneRowEach, NEW i \in Pending, Fails(i)
  PROVE  OneRowEach' /\ Promise!Fail(buffer[i])
<1>1. i \in Ids
  BY DEF Pending
<1>2. Failed(buffer[i]).packet = buffer[i].packet
  <2>1. buffer[i] \in Rows
    BY <1>1 DEF TypeOK, Ids
  <2>2. QED
    BY <2>1 DEF Rows, Failed
<1>3. buffer' = [buffer EXCEPT ![i] = Failed(buffer[i])]
  BY DEF Fails
<1>4. /\ OneRowEach'
      /\ Outbox' = (Outbox \ {buffer[i]}) \cup {Failed(buffer[i])}
  BY <1>1, <1>2, <1>3, RowReplaced
<1>5. QED
  BY <1>1, <1>4
     DEF Outbox, Failed, Fails, SendingStops, Promise!Fail, Promise!Replace

LEMMA SendsMaps ==
  ASSUME TypeOK, OneRowEach, NEW i \in Pending, Sends(i)
  PROVE  OneRowEach' /\ Promise!Send(buffer[i])
<1>1. OneRowEach' /\ Outbox' = Outbox
  BY DEF Sends, OneRowEach, Ids, Outbox
<1>2. Promise!Open(buffer[i])
  BY DEF Pending, Promise!Open
<1>3. QED
  BY <1>1, <1>2 DEF Outbox, Sends, Promise!Send

LEMMA StepMaps ==
  IInv /\ OneRowEach /\ [Next]_vars => OneRowEach' /\ [Promise!Next]_Promise!vars
<1> SUFFICES ASSUME IInv, OneRowEach, [Next]_vars
             PROVE  OneRowEach' /\ [Promise!Next]_Promise!vars
  OBVIOUS
<1>1. TypeOK
  BY DEF IInv
<1>2. CASE Idles
  <2>1. OneRowEach' /\ Outbox' = Outbox
    BY <1>2 DEF Idles, OneRowEach, Ids, Outbox
  <2>2. CASE Sending' = Sending
    BY <1>2, <2>1, <2>2 DEF Idles, Outbox, Promise!vars
  <2>3. CASE Sending' # Sending
    <3>1. Promise!Interrupt
      BY <1>2, <2>1, <2>3
         DEF Idles, SendingStays, SendingStops, Outbox, Promise!Interrupt
    <3>2. QED
      BY <2>1, <3>1 DEF Promise!Next
  <2>4. QED
    BY <2>2, <2>3
<1>3. ASSUME NEW p \in Packets, Stores(p)
      PROVE  OneRowEach' /\ Promise!Next
  BY <1>1, <1>3, StoresMaps DEF Promise!Next
<1>4. ASSUME NEW p \in Packets, Confirms(p)
      PROVE  OneRowEach' /\ Promise!Next
  <2>1. OneRowEach' /\ Outbox' = Outbox
    BY <1>4 DEF Confirms, OneRowEach, Ids, Outbox
  <2>2. Promise!Confirm(p)
    BY <1>4, <2>1
       DEF Confirms, SendingStays, Outbox, BO!Sealed, Promise!BO!Sealed,
           Promise!Confirm
  <2>3. QED
    BY <2>1, <2>2 DEF Promise!Next
<1>5. ASSUME NEW t \in Txns, Seals(t)
      PROVE  OneRowEach' /\ Promise!Next
  <2>1. OneRowEach' /\ Outbox' = Outbox
    BY <1>5 DEF Seals, OneRowEach, Ids, Outbox
  <2>2. Promise!Seal(t)
    BY <1>5, <2>1
       DEF Seals, SendingStays, Outbox, BO!Seal, BO!Sealed, Promise!BO!Seal,
           Promise!BO!Sealed, Promise!Seal
  <2>3. QED
    BY <2>1, <2>2 DEF Promise!Next
<1>6. ASSUME NEW i \in Pending, Sends(i) \/ Settles(i) \/ Fails(i)
      PROVE  OneRowEach' /\ Promise!Next
  <2> DEFINE Moves(r) == Promise!Send(r) \/ Promise!Settle(r) \/ Promise!Fail(r)
  <2>1. i \in Ids
    BY DEF Pending
  <2>2. OneRowEach' /\ Moves(buffer[i])
    BY <1>1, <1>6, SendsMaps, SettlesMaps, FailsMaps
  <2>3. PICK r \in Outbox : r = buffer[i]
    BY <2>1 DEF Outbox
  <2>4. Moves(r)
    BY <2>2, <2>3
       DEF Promise!Send, Promise!Settle, Promise!Fail, Promise!Open,
           Promise!Replace
  <2>5. QED
    BY <2>2, <2>4 DEF Outbox, Promise!Next
<1>7. QED
  BY <1>2, <1>3, <1>4, <1>5, <1>6, StepIs DEF BufferStep

LEMMA InitMaps == Init => OneRowEach /\ Promise!Init
<1> SUFFICES ASSUME Init PROVE OneRowEach /\ Promise!Init
  OBVIOUS
<1>1. Ids = {} /\ acked = {} /\ BO!Init
  BY DEF Init, Ids
<1>2. Sending = {}
  BY DEF Init, Sending, Idle
<1>3. QED
  BY <1>1, <1>2 DEF OneRowEach, BO!Init, Promise!Init, Promise!BO!Init

-------------------------------------------------------------------------------
(***************************************************************************)
(* The theorems.                                                           *)
(***************************************************************************)

\* submit_operation, sync_pending and force_sync, run by any number of tasks
\* under any loss, delay, restart or SQLite error, and whichever packets carry
\* the same operation, are for the agent one store of packets that keeps the
\* promise of Delivery: it sends them one at a time, and none that is settled or
\* given up.
THEOREM DeliveryImplemented == Spec => ImplementsDelivery
<1>1. Init => OneRowEach /\ Promise!Init
  BY InitMaps
<1>2. IInv /\ OneRowEach /\ [Next]_vars
        => OneRowEach' /\ [Promise!Next]_Promise!vars
  BY StepMaps
<1>3. QED
  BY <1>1, <1>2, Invariance, PTL DEF Spec, ImplementsDelivery, Promise!Spec
===============================================================================
