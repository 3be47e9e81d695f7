----------------------------- MODULE DegradedMode -----------------------------
(***************************************************************************)
(* The terminal side: DegradedService with its NetworkMonitor, its         *)
(* SyncService and the SQLite table transaction_buffer, talking to a       *)
(* Back-Office of which only the Ledger is known.                          *)
(*                                                                         *)
(* Everything runs in one asyncio loop, so the code between two awaits is  *)
(* one step of one task.  The tasks are the monitor loop, the handlers of  *)
(* /degraded/submit/* and the handlers of /degraded/sync.  A submitted     *)
(* packet has two ids: the one outside, drawn when the packet is encrypted *)
(* and kept UNIQUE by SQLite, names the packet; the one inside, drawn when *)
(* the operation is built, names the operation, and is read and sealed by  *)
(* the Back-Office alone.  An operation encrypted twice is two packets.    *)
(***************************************************************************)
EXTENDS Naturals, Sequences, FiniteSets

CONSTANTS
  Packets,        \* packets, by the transaction_id of EncryptedPayload
  Txns,           \* operations, by the transaction_id of OperationPayload
  Content,        \* Content[p]: the operation encrypted in packet p
  Submitters,     \* tasks that serve POST /degraded/submit/...
  Manuals,        \* tasks that serve POST /degraded/sync
  Monitor,        \* the task of NetworkMonitor.start
  MaxFailures,    \* MAX_FAILURES, 3 in the code
  MaxRetry,       \* MAX_RETRY, 5 in the code
  BatchSize,      \* SYNC_BATCH_SIZE, 20 in the code
  MayCrash,       \* whether the terminal may be restarted
  SqliteMayFail   \* whether an SQLite call may raise (disk full, locked file)

Tasks == Submitters \cup Manuals \cup {Monitor}

ASSUME TasksAssumption ==
  /\ Submitters \cap Manuals = {}
  /\ Monitor \notin Submitters \cup Manuals

ASSUME LimitsAssumption ==
  /\ MaxFailures \in Nat \ {0}
  /\ MaxRetry \in Nat \ {0}
  /\ BatchSize \in Nat \ {0}

ASSUME ContentAssumption == Content \in [Packets -> Txns]

ASSUME FailuresAssumption == MayCrash \in BOOLEAN /\ SqliteMayFail \in BOOLEAN

VARIABLES
  status, failures, was,         \* of NetworkMonitor
  task,       \* task[k]: where task k waits, and its local variables
  syncing,    \* _syncing, the lock of SyncService
  buffer,     \* the rows of transaction_buffer; local_id is the index
  ledger,     \* what the Back-Office has sealed
  orphans,    \* operations in requests nobody waits for any more
  acked       \* packets whose submission was answered success = True

monitorVars == <<status, failures, was>>
vars == <<status, failures, was, task, syncing, buffer, ledger, orphans,
          acked>>

Net == INSTANCE NetworkMonitor WITH Checkers <- Tasks
BO  == INSTANCE Ledger

-------------------------------------------------------------------------------
(***************************************************************************)
(* The local variables of a task.  at: the await it is suspended in        *)
(*   "probe"  GET /health          "post"   POST of a buffered packet      *)
(*   "pause"  asyncio.sleep(0.1)   "send"   POST of its own packet         *)
(* job: the packet that a submitter serves; rest: what is left of the      *)
(* batch of sync_pending; errors: the rows in its list of errors; answer:  *)
(* the state of the POST under way.                                        *)
(***************************************************************************)
NoPacket == "none"

Idle == [at |-> "idle", job |-> NoPacket, rest |-> {}, errors |-> {},
         answer |-> "none"]

Ids == DOMAIN buffer

\* Mutant: one attempt too many.
PendingOnceMore ==
  {i \in Ids : ~buffer[i].synced /\ buffer[i].retry <= MaxRetry}

\* get_pending_transactions and get_pending_count.
Pending == {i \in Ids : ~buffer[i].synced /\ buffer[i].retry < MaxRetry}

\* get_failed_transactions: what is left to "une intervention manuelle".
GivenUp == {i \in Ids : ~buffer[i].synced /\ buffer[i].retry >= MaxRetry}

\* The first BatchSize pending rows in the order of insertion.
Batch == {i \in Pending : Cardinality({j \in Pending : j < i}) < BatchSize}

\* The row of the batch that task k is sending.
Current(k) ==
  CHOOSE i \in task[k].rest : \A j \in task[k].rest : i <= j

InSync(k) == task[k].at \in {"post", "pause"}

\* The operation in the POST that task k waits for: the Back-Office decrypts
\* the packet and looks at nothing else of it.
Posted(k) ==
  Content[IF task[k].at = "post" THEN buffer[Current(k)].packet ELSE task[k].job]

\* Mutant: transaction_id is not UNIQUE.
BufferedNever(p) == FALSE

Buffered(p) == \E i \in Ids : buffer[i].packet = p

-------------------------------------------------------------------------------
Init ==
  /\ Net!Init
  /\ BO!Init
  /\ task = [k \in Tasks |-> Idle]
  /\ syncing = FALSE
  /\ buffer = << >>
  /\ orphans = {}
  /\ acked = {}

\* Task k ends; nothing is stored or acknowledged.
Ends(k) ==
  /\ task' = [task EXCEPT ![k] = Idle]
  /\ UNCHANGED <<buffer, acked>>

\* The row push_transaction inserts.
NewRow(p) == [packet |-> p, retry |-> 0, synced |-> FALSE]

\* _store_locally: one committed INSERT, a count, then the local answer.  The
\* UNIQUE constraint, or SQLite, may refuse the row: the handler raises.
Store(k) ==
  LET p == task[k].job
  IN  \/ /\ ~Buffered(p)
         /\ buffer' = Append(buffer, NewRow(p))
         /\ \/ acked' = acked \cup {p}
            \/ SqliteMayFail /\ UNCHANGED acked
         /\ task' = [task EXCEPT ![k] = Idle]
      \/ (Buffered(p) \/ SqliteMayFail) /\ Ends(k)

\* What follows force_check in submit_operation, once its callbacks returned:
\* it reads _online again.  The other tasks are done.
Returns(k) ==
  IF k \notin Submitters
    THEN Ends(k)
    ELSE \/ /\ status' = "online"
            /\ task' = [task EXCEPT ![k].at = "send", ![k].rest = {},
                                    ![k].errors = {}, ![k].answer = "sent"]
            /\ UNCHANGED <<buffer, acked>>
         \/ /\ status' = "offline"
            /\ Store(k)

\* Send the first row of a batch.
Post(k, batch, errors) ==
  /\ task' = [task EXCEPT ![k].at = "post", ![k].rest = batch,
                          ![k].errors = errors, ![k].answer = "sent"]
  /\ UNCHANGED <<buffer, acked>>

\* Mutant: sync_pending does not look at its lock.
SyncNoLock(k) ==
  \/ /\ Pending = {}
     /\ Returns(k)
     /\ UNCHANGED syncing
  \/ /\ Pending # {}
     /\ syncing' = TRUE
     /\ Post(k, Batch, {})

\* sync_pending up to its first await.  get_pending_count is called after the
\* lock is taken and before the try whose finally releases it.
Sync(k) ==
  \/ /\ syncing \/ Pending = {} \/ SqliteMayFail
     /\ Returns(k)
     /\ UNCHANGED syncing
  \/ /\ ~syncing
     /\ Pending # {}
     /\ syncing' = TRUE
     /\ Post(k, Batch, {})
  \/ /\ SqliteMayFail
     /\ ~syncing
     /\ syncing' = TRUE
     /\ Returns(k)

-------------------------------------------------------------------------------
(***************************************************************************)
(* The tasks.                                                              *)
(***************************************************************************)

\* submit_operation for packet p, up to GET /health.  The agent may submit the
\* same packet again, and the same operation in another packet.
Submit(k, p) ==
  /\ k \in Submitters
  /\ task[k] = Idle
  /\ Net!CheckBegins(k)
  /\ task' = [task EXCEPT ![k] = [Idle EXCEPT !.at = "probe", !.job = p]]
  /\ UNCHANGED <<syncing, buffer, ledger, orphans, acked>>

\* One turn of NetworkMonitor.start.
Check ==
  /\ task[Monitor] = Idle
  /\ Net!CheckBegins(Monitor)
  /\ task' = [task EXCEPT ![Monitor].at = "probe"]
  /\ UNCHANGED <<syncing, buffer, ledger, orphans, acked>>

\* Mutant: no callback is registered for the restored network.
ProbeEndsUnheard(k) ==
  /\ task[k].at = "probe"
  /\ Net!CheckSucceeds(k) \/ Net!CheckFails(k)
  /\ Returns(k)
  /\ UNCHANGED <<syncing, ledger, orphans>>

\* GET /health is answered or fails; _on_network_restored is the one callback.
ProbeEnds(k) ==
  /\ task[k].at = "probe"
  /\ Net!CheckSucceeds(k) \/ Net!CheckFails(k)
  /\ IF Net!ChangeSeen(k) /\ status' = "online"
       THEN Sync(k)
       ELSE Returns(k) /\ UNCHANGED syncing
  /\ UNCHANGED <<ledger, orphans>>

\* force_sync; offline it refuses and changes nothing.
ForceSync(k) ==
  /\ k \in Manuals
  /\ task[k] = Idle
  /\ status = "online"
  /\ UNCHANGED monitorVars
  /\ Sync(k)
  /\ UNCHANGED <<ledger, orphans>>

\* Mutant: an answer other than 200 or 409 is taken for a success, too.
TakenAny(answer) == answer # "lost"

\* The statuses _send_transaction takes for a success.
Taken(answer) == answer \in {"200", "409"}

\* Mutant: a failed attempt is not counted.
FailedUncounted(row) == row

\* mark_synchronized; increment_retry.
Marked(row) == [row EXCEPT !.synced = TRUE]

Failed(row) == [row EXCEPT !.retry = @ + 1]

\* sync_pending after the POST of a row.
PostEnds(k) ==
  LET i == Current(k)
      a == task[k].answer
  IN  /\ task[k].at = "post"
      /\ a # "sent"
      /\ buffer' = [buffer EXCEPT ![i] = IF Taken(a) THEN Marked(@)
                                                     ELSE Failed(@)]
      /\ task' = [task EXCEPT ![k].at = "pause",
                              ![k].rest = @ \ {i},
                              ![k].errors = IF Taken(a) THEN @ ELSE @ \cup {i},
                              ![k].answer = "none"]
      /\ UNCHANGED <<status, failures, was, syncing, ledger, orphans, acked>>

\* Mutant: the cycle ends with its first batch.
NextBatchNone(k) == task[k].rest

\* The rows to send after the pause: the rest of the batch, or a new batch.
NextBatch(k) == IF task[k].rest = {} THEN Batch ELSE task[k].rest

\* The pause ends.  With nothing left the lock is released and the caller of
\* sync_pending goes on.
PauseEnds(k) ==
  /\ task[k].at = "pause"
  /\ UNCHANGED monitorVars
  /\ \/ /\ NextBatch(k) # {}
        /\ Post(k, NextBatch(k), task[k].errors)
        /\ UNCHANGED syncing
     \/ /\ NextBatch(k) = {}
        /\ syncing' = FALSE
        /\ Returns(k)
  /\ UNCHANGED <<ledger, orphans>>

\* SQLite raises inside the try of sync_pending, as a row is marked or as the
\* next batch is read: the finally releases the lock.
SyncRaises(k) ==
  /\ SqliteMayFail
  /\ \/ task[k].at = "post" /\ task[k].answer # "sent"
     \/ task[k].at = "pause" /\ task[k].rest = {}
  /\ UNCHANGED monitorVars
  /\ syncing' = FALSE
  /\ Returns(k)
  /\ UNCHANGED <<ledger, orphans>>

\* _send_direct: 200 is passed on, anything else falls back to the buffer.
SendEnds(k) ==
  /\ task[k].at = "send"
  /\ task[k].answer # "sent"
  /\ \/ /\ task[k].answer = "200"
        /\ acked' = acked \cup {task[k].job}
        /\ task' = [task EXCEPT ![k] = Idle]
        /\ UNCHANGED buffer
     \/ /\ task[k].answer # "200"
        /\ Store(k)
  /\ UNCHANGED <<status, failures, was, syncing, ledger, orphans>>

-------------------------------------------------------------------------------
(***************************************************************************)
(* The Back-Office and the network, as HashChain lets them be.             *)
(***************************************************************************)
Answer(k, a) == task' = [task EXCEPT ![k].answer = a]

Waiting(k) == task[k].answer = "sent"

\* The operation is sealed; the answer is 200, or 500 if only the commit's
\* acknowledgement was lost.
BoSeals(k) ==
  /\ Waiting(k)
  /\ BO!Seal(Posted(k))
  /\ Answer(k, "200") \/ Answer(k, "refused")
  /\ UNCHANGED <<status, failures, was, syncing, buffer, orphans, acked>>

\* assert_not_duplicate finds the operation.
BoHasIt(k) ==
  /\ Waiting(k)
  /\ Posted(k) \in BO!Sealed
  /\ Answer(k, "409")
  /\ UNCHANGED <<status, failures, was, syncing, buffer, ledger, orphans,
                 acked>>

\* 401, 403, 400, 422 or 500: nothing is sealed.
BoRefuses(k) ==
  /\ Waiting(k)
  /\ Answer(k, "refused")
  /\ UNCHANGED <<status, failures, was, syncing, buffer, ledger, orphans,
                 acked>>

\* Requests whose sender gave up and that may still be executed.  (One for a
\* sealed operation would only be answered 409, to nobody.)
Orphaned(ks) ==
  orphans' = (orphans \cup {Posted(k) : k \in {j \in ks : Waiting(j)}})
               \ BO!Sealed

\* A timeout or a network error: the request or its answer is lost, or the
\* request is still on its way.
Lost(k) ==
  /\ task[k].at \in {"post", "send"}
  /\ task[k].answer # "lost"
  /\ Answer(k, "lost")
  /\ Orphaned({k})
  /\ UNCHANGED <<status, failures, was, syncing, buffer, ledger, acked>>

\* The Back-Office executes a request whose sender gave up.
OrphanArrives(t) ==
  /\ t \in orphans
  /\ BO!Seal(t)
  /\ orphans' = orphans \ {t}
  /\ UNCHANGED <<status, failures, was, task, syncing, buffer, acked>>

\* The terminal restarts: tasks, lock and monitor start afresh, the buffer is
\* in SQLite, requests under way may still arrive.
Restart ==
  /\ MayCrash
  /\ status' = "online"
  /\ failures' = 0
  /\ was' = [k \in Tasks |-> "none"]
  /\ task' = [k \in Tasks |-> Idle]
  /\ syncing' = FALSE
  /\ Orphaned(Tasks)
  /\ UNCHANGED <<buffer, ledger, acked>>

-------------------------------------------------------------------------------
\* What task k does once it is no longer kept waiting.
Proceeds(k) ==
  \/ ProbeEnds(k)
  \/ PostEnds(k)
  \/ PauseEnds(k)
  \/ SyncRaises(k)
  \/ SendEnds(k)

Starts(k) ==
  \/ \E p \in Packets : Submit(k, p)
  \/ k = Monitor /\ Check
  \/ ForceSync(k)

Responds(k) == BoSeals(k) \/ BoHasIt(k) \/ BoRefuses(k) \/ Lost(k)

\* Everything but a restart.
Runs ==
  \/ \E k \in Tasks : Starts(k) \/ Proceeds(k) \/ Responds(k)
  \/ \E t \in Txns : OrphanArrives(t)

Next == Runs \/ Restart

Spec == Init /\ [][Next]_vars

\* httpx and asyncio resume every task in the end: every request has a timeout.
Fairness ==
  \A k \in Tasks : WF_vars(Proceeds(k)) /\ WF_vars(Responds(k))

FairSpec == Spec /\ Fairness

-------------------------------------------------------------------------------
Rows == [packet : Packets, retry : 0..MaxRetry, synced : BOOLEAN]

Awaits == {"idle", "probe", "post", "pause", "send"}

Answers == {"none", "sent", "200", "409", "refused", "lost"}

TaskStates == [at : Awaits, job : Packets \cup {NoPacket}, rest : SUBSET Ids,
               errors : SUBSET Ids, answer : Answers]

\* retry : 0..MaxRetry is a claim of its own: no failed attempt is counted for a
\* row without attempts left, however many tasks call sync_pending.  (An attempt
\* that a restart or an SQLite error interrupts is not counted at all.)
TypeOK ==
  /\ Net!TypeOK
  /\ task \in [Tasks -> TaskStates]
  /\ syncing \in BOOLEAN
  /\ buffer \in Seq(Rows)
  /\ ledger \in Seq(Txns)
  /\ orphans \subseteq Txns
  /\ acked \subseteq Packets

\* The terminal calls itself offline exactly when the last MAX_FAILURES health
\* checks failed, however the checks of the monitor and of the submissions
\* overlap, and whatever a callback does in between.
StatusByFailures == Net!StatusByFailures

\* What the agent was told is recorded is sealed by the Back-Office, or in the
\* buffer and known to be missing there: to be sent again, or, its attempts used
\* up, listed by get_failed_transactions and waiting for somebody to act.  So
\* through lost answers, late requests, operations encrypted twice, restarts and
\* SQLite errors, no packet is marked as sent, or dropped, of an operation that
\* was not sealed (_send_direct, _store_locally, mark_synchronized).
AckedNotLost ==
  \A p \in acked :
    \/ Content[p] \in BO!Sealed
    \/ \E i \in Pending \cup GivenUp : buffer[i].packet = p

\* "empeche deux synchronisations simultanees": the restored network, every
\* submission that sees it restored and the manual synchronizations never run
\* two cycles at a time, also when SQLite raises in the middle of one.
OneSync == \A j, k \in Tasks : InSync(j) /\ InSync(k) => j = k

\* "mais ne sera plus renvoyee": no row of a batch read earlier is sent after
\* it was marked synchronized or ran out of attempts in the meantime.
NeverResent ==
  \A k \in Tasks : task[k].at = "post" => Current(k) \in Pending

\* The stored packet that is being sent, if any.
Sending ==
  {buffer[Current(k)].packet : k \in {j \in Tasks : task[j].at = "post"}}

Promise == INSTANCE Delivery WITH outbox <- {buffer[i] : i \in Ids},
                                  sending <- Sending

\* Read as a set of rows, the buffer keeps the promise of the terminal: each
\* packet is stored once, and taken out of the store to be sent one at a time
\* and only while it has attempts left; only the outcome of sending it changes
\* its row, and marks it only if its operation is sealed (push_transaction,
\* sync_pending, mark_synchronized, increment_retry, however tasks overlap).
ImplementsDelivery == Promise!Spec

-------------------------------------------------------------------------------
(***************************************************************************)
(* Why the invariants hold.                                                *)
(***************************************************************************)

\* Between two awaits of a task: a submitter has its packet; only a task
\* that waits for a POST has an answer; a batch consists of pending rows and is
\* sent under the lock; 200 and 409 are answers for sealed operations.
TaskOK(k) ==
  /\ task[k].at # "idle" /\ k \in Submitters => task[k].job \in Packets
  /\ task[k].at = "send" => k \in Submitters
  /\ task[k].answer # "none" => task[k].at \in {"post", "send"}
  /\ InSync(k) => syncing /\ task[k].rest \subseteq Pending
  /\ task[k].at = "post" => task[k].rest # {}
  /\ Taken(task[k].answer) => Posted(k) \in BO!Sealed

\* Only what is sealed is marked.
MarkedSealed ==
  \A i \in Ids :
    buffer[i].synced => Content[buffer[i].packet] \in BO!Sealed

\* What was acknowledged is stored or sealed.
AckedStored == \A p \in acked : Buffered(p) \/ Content[p] \in BO!Sealed

\* The inductive invariant: at every await the invariants above hold because of
\* what each task knows, of OneSync, and of the lock.
IInv ==
  /\ TypeOK
  /\ StatusByFailures
  /\ \A k \in Tasks : TaskOK(k)
  /\ OneSync
  /\ MarkedSealed
  /\ AckedStored

-------------------------------------------------------------------------------
\* Every request to the terminal is answered and the monitor comes round again,
\* whatever the Back-Office and the network do.
TasksEnd == \A k \in Tasks : task[k].at # "idle" ~> task[k].at = "idle"

\* Packet p is stored, and the next get_pending_transactions may return it.
Waits(p) == \E i \in Pending : buffer[i].packet = p

\* A cycle of synchronization is under way.
Cycle == \E k \in Tasks : InSync(k)

\* A cycle of synchronization settles every row that is pending while it runs,
\* those stored meanwhile included: each is in the end marked or out of
\* attempts, unless the cycle is over before; and only a restart or an SQLite
\* error ends a cycle while a row is pending (sync_pending).
SyncDrains ==
  /\ \A p \in Packets : Cycle /\ Waits(p) ~> ~Waits(p) \/ ~Cycle
  /\ [][Cycle /\ ~Cycle' /\ Runs =>
          Pending = {} \/ \E k \in Tasks : SyncRaises(k)]_vars

\* Task k ends a check that finds the network restored.
Restored(k) == ProbeEnds(k) /\ Net!ChangeSeen(k) /\ status' = "online"

\* Also what is stored while no synchronization runs (a direct send that fails
\* on a terminal that is online), and what a restart left over, is settled, if
\* the restarts cease, the network goes away, and a check sees it restored,
\* again and again.  Without that last premise nothing starts a synchronization.
RestoredDrains ==
  /\ <>[][Runs]_vars
  /\ []<><<\E k \in Tasks : Restored(k)>>_vars
  => \A p \in Packets : Waits(p) ~> ~Waits(p)

\* "Si echec -> incremente retry_count, reessaiera au prochain cycle": a row
\* that failed in this cycle is not sent again in this cycle.
OneAttemptPerCycle ==
  \A k \in Tasks : task[k].at = "post" => Current(k) \notin task[k].errors

\* "Verrou pour eviter les synchronisations paralleles": the lock is held only
\* while a synchronization runs.
LockReleased == syncing => \E k \in Tasks : InSync(k)
===============================================================================
