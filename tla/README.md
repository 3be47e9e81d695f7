# Verification of the PDA / Back-Office operation pipeline

Agents on trains record controls and ticket sales on a PDA terminal. The
terminal sends each operation, encrypted, to the Back-Office, which seals it in
a chain of hashes next to the row it stores. When the network is down the
terminal keeps the encrypted packets in SQLite and sends them later.

This directory holds TLA+ models of that pipeline, TLC configurations that
check them on small instances, and TLAPS proofs. Every definition is translated
from the code under `src/`; `PROJECT.json` (`map`) gives its lines.

    tlc -workers 2 -config MCHashChain_safety.cfg MCHashChain
    tlapm HashChain_proofs.tla       (also HashChain_refines, ChainVerification_proofs,
                                      DegradedMode_proofs, DegradedMode_refines,
                                      Auth_proofs, Intake_proofs)

## 1. Inventory

| Component | Code | State | Operations | Modelled in |
|---|---|---|---|---|
| Operation intake and sealing | `app/operations/*_service.py`, `anti_replay.py`, `operations_router.py`, `app/integrite/hashchain.py`, `hash.py`, `integrite_service.py`, `app/db/migration_hashchain.sql`, `db/database.py` | tables `Controle`, `VenteBillet`, `HashChain`; one SQL transaction per request | `POST /operations/{controle,vente}[/chiffre]` | `HashChain` |
| Chain verification | `hashchain.py`, `integrite_service.py` | reads `HashChain` | `verify_full_chain`, `verify_single_transaction` | `ChainVerification` |
| Connectivity monitor | `app/degradedMode/network_monitor.py` | `_online`, `_consecutive_failures`, `was_online` of each check under way | `start` (every 15 s), `force_check` | `NetworkMonitor` |
| Degraded mode and synchronization | `degradedMode_service.py`, `sync_service.py`, `buffer_store.py`, `local_db.py`, `degradedMode_router.py` | table `transaction_buffer`, `_syncing`, suspended coroutines | `submit_operation`, `_send_direct`, `_store_locally`, `sync_pending`, `force_sync` | `DegradedMode` |
| Authentication | `app/auth/auth_service.py`, `device.py`, `password.py` | tables `Utilisateur`, `DeviceUtilisateur` | `login`, `change_password`, `register_device`, `update_device` | `Auth` |
| Sessions | `app/auth/session.py`, `dependencies.py` | none (signed tokens, 8 h) | `create_session`, `get_current_agent` | `Auth` |
| Cryptography | `app/crypto/*` | two key files | `encrypt_payload`, `decrypt_payload`, `init_keys` | `Intake`; the ciphers are a library's |
| Schemas, payload construction, validation | `operations/schemas.py`, `payload_builder.py`, `_validate_*` of the services, column types in `SCRIPT_DB_PB_s.txt` | none | pure | `Payloads`, used by `Intake` |
| Scripts, deployment, `main.py` | `db/seed.py`, SQL scripts, Docker files | none | one-off | constraints and columns only; `main.py` is empty |

Interaction. A submission on the terminal checks the connection, then either
sends the packet itself or stores it. The monitor, or any submission that finds
the network restored, runs the synchronization as a callback; a manual request
runs it, too. Synchronization posts the stored packets one by one; 200 and 409
both settle a row, anything else costs one of its five attempts. The Back-Office
serves each POST in a thread of its own: duplicate check against `HashChain`,
validation, insertion into `Controle` or `VenteBillet`, reading the last link,
inserting the new link, commit. Before that, a route has checked the token and
the device, decrypted the packet with the key file made at start-up, and passed
the data through schema and builder (routes in clear) or through
`OperationPayload` (encrypted routes). An encrypted operation has two ids: the
outer one, drawn at every encryption (`crypto_service.py:38`), is the key of the
row in SQLite; the inner one, drawn when the payload is built
(`payload_builder.py:24`), is what the Back-Office checks and seals. Nothing ties
the two together: an operation encrypted twice is two packets
(`tests/test_crypto.py:89-93`), and only the Back-Office recognizes it. What the
terminal relies on is the module `Ledger`, over inner ids; what the terminal in
turn promises its agent is the module `Delivery`, over packets.

What is hard, and which properties look at it, is listed per source line under
`hazards` in `PROJECT.json`:

* Back-Office: concurrent threads between the check, the read of the last link
  and the insertion; locks that are waited for; a statement that fails after
  another one succeeded; a commit whose answer is lost; a crash. It is correct
  when the chain is linear and complete, when each stored operation has exactly
  one link, and when an answer 200 or 409 is never wrong.
* Terminal: one asyncio loop, but every `await` lets other tasks run. Statuses
  and batches are read before an `await` and used after it, a lock is taken
  outside its `try`, requests time out and may still be executed, the terminal
  restarts. It is correct when nothing it acknowledged is lost, when
  synchronizations exclude one another and when a settled row is not sent again.
* Verification: it must accept exactly what the Back-Office built.
* Authentication: every SQL statement is committed by itself, so that the
  counter of attempts, the device and the password may change between two
  statements of one login; tokens outlive what they were issued for. It is
  correct when login's answers to guesses are bounded, a blocked account stays
  blocked, and access ends.
* Intake: the key files are written in steps and found half-written by the next
  start; four layers each have their own idea of a valid operation. It is
  correct when a key in use is never replaced, no intact packet is called
  falsified, and the layers agree.

Facts about the repository at this commit that a reader of the models should
know: `main.py` is empty, so nothing registers the routers, starts the degraded
service or serves `/health`; `degradedMode_router.py` imports `get_db_stats`
from `buffer_store` (it is in `local_db`) and passes the agent's id where a
token is expected. `DegradedMode` models the service as its classes define it,
started as `DegradedService.start` says. The endpoints without encryption draw a
new transaction id for every call, so a client that repeats such a call creates
a second operation; `AckSealed` and `SourcesSealed` speak of transaction ids.
`register_device` says it returns False for an agent that has a device, but asks
for the pair, so that another device of the agent ends in the constraint's
`IntegrityError`. `change_password` looks at neither `Etat` nor the attempts, and
its own "Ancien mot de passe incorrect" (line 126) is neither counted nor limited.
`verify_full_chain` returns at the first row whose recomputed hash differs from
the stored one; as that is every row (finding 5), it never compares a later row
with the one before it, and a missing link goes unreported. A
key file that does not load is a `ValueError`, which the encrypted routes answer
with "Falsification détectée". Two `GET` routes use `text` without importing it.

## 2. Modules

Two modules are abstract. `Ledger` says what the Back-Office promises: a sequence
of transaction ids to which `Seal(t)` appends an id that is not in it; `HashChain`
implements it. `Delivery` says what the terminal promises on top of that: a set of stored
packets, each stored once (`Store`), taken out to be sent one at a time and only
while it is open (`Send`: neither settled nor given up), after which it is settled
if the ledger has its operation (`Settle`), or the failure is counted (`Fail`), or
neither, if the terminal restarts or SQLite raises (`Interrupt`); success is told
only of what is stored or in the ledger (`Confirm`). A packet is given up after
`MaxRetry` counted failures; how often it is sent has no bound, since an
interrupted attempt is not counted. `DegradedMode` implements `Delivery`, which
has no tasks, no lock, no batch, no answers and no restart: that they do not show
is what the refinement is about.

### HashChain

One process per thread of the server's pool. `pc[w]` names the SQL statement
the thread executes next, so that a step is one statement with the Python code
up to the next one:

| `pc` | Action | Code |
|---|---|---|
| `idle` | `Receive` | the route, after token, device and AES-GCM tag are accepted |
| `check` | `Check` | `assert_not_duplicate`, then `_validate_*` (409, 422 or go on) |
| `insert` | `InsertSource` | `_insert_controle` / `_insert_vente` |
| `seal` | `AwaitLast`, `GetLast` | `get_last_chain_hash`, waiting or not |
| `append` | `SealLink`, `SealRefused` | the INSERT of `add_to_chain`, or its `IntegrityError` (500) |
| `commit` | `Commit` | `db.commit()` and the answer 200 |
| any but `idle` | `Abort` | a statement raises (lost connection, refused value, deadlock victim): 500, `db.close()` rolls back; of a failing commit nobody knows whether it was done |
| - | `Crash` | the process dies; SQL Server rolls back |

`links` and `sources` are the committed rows, `newLink[w]` and `newSource[w]`
those of an open transaction. SQL Server runs at its default isolation, READ
COMMITTED with locks: `Readable` makes a shared read wait for rows that are
X-locked, `Clash` makes an INSERT wait for, or fail on, a row with an equal
unique key, and `LockedFor` makes the UPDLOCK scan wait for a row another
transaction has inserted or read. That scan goes backwards through the index
and, once it waited on a row, continues from there: `scan[w]` is that row. The
U lock is held until the end of the transaction (`HoldsLast`). `WaitsFor(w, v)` and
`CanStep(w)` read off these guards who blocks whom, for the property `NoDeadlock`.

Data. A payload is its id plus whether `process_vente` has put the ticket number
in. SHA-256 is injective: `DataHash` is a term, and a chain hash is the
sequence of the payloads hashed into it. Salts are left out because a link and
its verification use the same one. `Valid` is the set of payloads that pass
validation.

### ChainVerification

Extends `HashChain` with the two verifications as operators over the committed
rows: each is a single SELECT followed by pure code, evaluated on every reachable
state. (That a scan under READ COMMITTED sees the rows of one instant is an
abstraction.) `Faulty` are the rows that either test of the loop would stop at;
the loop returns at the first one, `FirstFaulty`, with its kind of error.

### NetworkMonitor and DegradedMode

`NetworkMonitor` is `_check_connectivity` for a set of tasks that may be inside
it at the same time; `was[k]` is the local `was_online` of task `k`.
`DegradedMode` instantiates it (`Net`) with its own tasks and `Ledger` (`BO`)
as the Back-Office. `Packets` are outer ids and `Txns` inner ones; `Content[p]` is
the operation in packet `p`, and several packets may have the same. SQLite keeps
packets, the Back-Office seals `Posted(k)`, the content of the packet under way.
A task is suspended at one of its awaits:

| `task[k].at` | Await | What follows |
|---|---|---|
| `probe` | `GET /health` | `ProbeEnds`: status, callback, and for a submission the choice between sending and storing |
| `send` | POST of `_send_direct` | `SendEnds`: answer passed on, or stored |
| `post` | POST of `_send_transaction` | `PostEnds`: `mark_synchronized` or `increment_retry` |
| `pause` | `asyncio.sleep(0.1)` | `PauseEnds`: next row, next batch, or lock released |

`SyncRaises`, and the disjuncts guarded by `SqliteMayFail` in `Sync` and
`Store`, are SQLite calls that raise. `BoSeals`, `BoHasIt`, `BoRefuses` and
`Lost` are the answers a POST may get; after `Lost` the request may be
`orphaned` and be executed later (`OrphanArrives`). `Restart` resets everything
but SQLite.

### Auth

A thread is at the SQL statement it executes next; each statement is committed
before the next. The Python code after a SELECT belongs to the step of the
SELECT. A login refused by what it read first is no step; the refusals of
`change_password` are alternatives of `ChangePassword` that change nothing.

| `thread[t].at` | Action | Code |
|---|---|---|
| `idle` | `Login` | `login` up to the verified password: row, `Etat`, attempts, password |
| `count` | `IncrementAttempts` | `_increment_attempts`, answer 401 |
| `device` | `CheckDevice` | `is_device_registered`, answer 403 or on |
| `reset` | `ResetAttempts` | `_reset_attempts` |
| `session` | `CreateSession` | `_update_last_connection`, `create_session` |
| `idle`, `write` | `ChangePassword`, `WritePassword` | `change_password` before and from its UPDATE |
| `idle`, `insert` | `RegisterDevice`, `InsertDevice` | `register_device`; the INSERT may meet `UQ_MatriculeUtilisateur` |
| - | `UpdateDevice` | `update_device`, one statement |
| any but `idle` | `Fails` | a statement raises, or the server stops |

`Administer` is the administrator whom the error messages name. A token is not
stored: `life[x]` is how long the last token of the pair (agent, device) `x`
is still accepted, `Tick` lets time pass, and `Accepts(x)` is what
`get_current_agent` decides. `wrong[a]` counts the answers "Mot de passe
incorrect" of `login` since the last reset; no code has it, it is what
`LoginGuessesBounded` is about. A wrong password whose UPDATE raises is answered
500 instead and counts as no answer; those `change_password` answers are not in
it. A salted hash stands for its password.

### Payloads and Intake

`Payloads` is pure: a JSON value is its kind and a number that is 0 exactly when
Python takes the value for false. `IsRequest` are the request schemas, `Build` is
`payload_builder`, `Validate` the two `_validate_*` methods (with the `TypeError`
of a comparison that fails), `Fits` the columns, `Process` the outcome: 200, 422
or 500. Amounts are counted in half dirhams so that the rounding of
`decimal(18, 0)` shows. What SQL Server converts to the type of a column (text to
`datetime`, rounding, an empty text to 0) is external behaviour, stated at `Fits`.

`Intake` puts the routes, the packets and the key files around it. `private` and
`public` are the two files: absent, torn (opened, not yet written) or a pair.
`server` goes through `init_keys` and `save_keypair` one write at a time;
`Crash` stops it anywhere. A packet carries the pair it was encrypted with, the
device in clear, its content, and whether it is still intact; it stays in the
network, so that it can be sent again, to either route. `answer` records the
answer of the last request for the properties and is cleared before anything
else happens.

The definitions that a comment calls mutants are the same code with a plausible
bug (a missing constraint, a lock that is not tested, a reset that is forgotten).
`PROJECT.json` (`mutants`) says which property each one breaks when it takes the
place of the real definition: at least one for every property that holds.

## 3. What the runs check

| Run (`PROJECT.json`) | Instance | Result |
|---|---|---|
| `chain_safety` | 3 threads, 2 ids, 4 requests | `TypeOK`, `ChainLinked`, `HistoryCommitted`, `SourcesSealed`, `AckSealed`, `NoDeadlock`, `IInv` hold |
| `chain_live` | 3 threads, 3 ids, 3 requests, fairness | `ImplementsLedger` holds: `HashChain` refines `Ledger` with `ledger <- Sequence`; `ControlVerifies`, `Answered` hold |
| `chain_updlock` | 2 threads, 2 ids, 2 requests | `ReadIsLast` is violated |
| `verify_full` | 2 threads, 2 ids, 3 requests | `BuiltChainVerifies` is violated |
| `terminal_safety` | monitor, 1 submission, 1 manual synchronization at a time, 2 packets with an operation each, restarts, SQLite errors | `TypeOK`, `StatusByFailures`, `AckedNotLost`, `OneSync`, `NeverResent`, `IInv` hold |
| `terminal_live` | the same tasks, 2 packets with the same operation, restarts, no SQLite errors, fairness | `TasksEnd`, `SyncDrains`, `RestoredDrains` hold; `ImplementsDelivery` holds: `DegradedMode` refines `Delivery` with `outbox` the set of the rows of the buffer and `sending` the packet being posted from it |
| `terminal_cycle`, `terminal_lock` | 1 packet | `OneAttemptPerCycle`, `LockReleased` are violated |
| `monitor_overlap` | 2 overlapping checks | `EveryChangeSeen` is violated |
| `auth_safety` | 3 threads, 1 agent, 2 devices, 2 passwords, 3 attempts | `TypeOK`, `LoginGuessesBounded`, `GuessInv`, `BlockedIsFinal`, `NoNewAccess`, `AccessEnds` hold |
| `intake_safety` | 2 key pairs, 2 devices, a control and a sale with each field replaced by each kind of value | `TypeOK`, `KeysKept`, `NoFalseAlarm`, `ClearSales`, `ClearNeverFails`, `RowsPlausible` hold |
| `intake_date` | as above | `DateOptional` is violated |

Bounds. With three threads a holder, a waiter and a late-comer meet on the last
link; four requests over two ids contain retries of a sealed id, concurrent
copies and a chain of two. One pair of (endpoint, id) does not validate. In
`chain_live` there are three ids, so that the ledger grows to three, and of the
sales only one validates (`OneSale`). Any
number of requests may fail or crash the server. On the terminal
two packets and batches of one or two rows give a batch with a rest, a second
batch, and a row that is overtaken by another; either packet may be submitted
again and again. `MaxRetry = 2` has a first, a last and a forbidden attempt;
`MaxFailures = 2` a failure that does not yet change the status (`terminal_live`
has 1, which only makes the network seem lost sooner). `terminal_live` has no
SQLite errors, because after `LockReleased` is violated no synchronization starts
any more; restarts are part of it. That `Delivery` is implemented with SQLite
errors, and with other contents of packets, is what the theorem adds. The constants of the code (3, 5, 20) are larger but are only
compared, never computed with. Three logins can be past the check of the
counter at once, which is where `LoginGuessesBounded` is tight; agents do not
interact, so one is enough, and a token that lives for one tick is as good as a
longer one, because only the order of expiry and of the other steps matters. Two
key pairs are the one in use and the one a start after a crash would generate.
The requests of `MCIntake` are an ordinary control and an ordinary sale, each
with every field replaced by every kind of value, and the amounts and numbers of
travellers around every bound of the code. Runs of `HashChain` do not check deadlock,
because the bound on requests stops the system; the runs of `DegradedMode` do.

Symmetry is used only in runs that check invariants: for the threads of
`HashChain`, whose transactions `Valid` tells apart, and in `terminal_safety` for
the exchange of both packets together with their operations (`ApartSymmetry`).

What the terminal does not promise. `AckedNotLost` counts a row whose attempts
are used up as kept: `get_failed_transactions` lists it for "une intervention
manuelle", and no code sends it again. That it can get there within one cycle
without network is finding 1.

Fairness. `HashChain`: `WF(Step(w))`, a thread whose next statement is not
blocked executes it; nothing is assumed of arrivals, aborts and crashes, and a
blocked statement need not time out. `DegradedMode`: `WF(Proceeds(k))`, asyncio
resumes every task whose await is over, and `WF(Responds(k))`, every POST ends
in an answer or in the timeout httpx sets (`SEND_TIMEOUT_S`). The health probe has a timeout of
its own, so `ProbeEnds` is part of `Proceeds`.
`NoDeadlock` says, without fairness, that waits form no cycle and that what a
thread waits for is never held by one without a request; `Answered` adds that no
thread keeps a lock for ever. That
one thread is not overtaken for ever is not in it, since requests are bounded;
SQL Server grants locks in the order of arrival, which the model does not use.
Nothing makes the agent submit, the monitor's timer fire, or a network call
succeed: `RestoredDrains` has as its premise that from some time on the terminal
is not restarted and that the network is lost and a check sees it restored again
and again, and says that then every stored row is marked or has used its attempts,
what the restarts left over included. A restart itself is no such check
(`Restored(k)` is a step `ProbeEnds(k)`). Without that premise nothing starts a
synchronization: a row stored by a direct send that failed, or left over by a
restart, waits while the terminal is online. `Auth`: `WF(Tick)`, time passes; `AccessEnds` needs
nothing of the threads, and holds although a login in progress may issue a token
after the account was disabled.

### Disagreements found

Each violated property is a sentence of the repository; the counterexample is
what the code does (`findings`).

1. `OneAttemptPerCycle`: `sync_service.py:34` says a failed row is tried again
   at the next cycle; the loop of line 76 reads it again at once, so that one
   cycle without network uses up all attempts. The rows are then abandoned,
   though `buffer_store.py:57-58` means the limit for what the Back-Office rejects.
2. `LockReleased`: `_syncing` is set before the `try`; an SQLite error in
   `get_pending_count` leaves it set until the terminal restarts.
3. `EveryChangeSeen`: overlapping checks change the status without a callback.
   A restored network can go unnoticed, and with it the synchronization.
4. `ReadIsLast`: UPDLOCK does not serialize the readers of the last link. The
   UNIQUE constraint on `Sequence` does, with a 500 for the slower request:
   `ChainLinked` holds all the same.
5. `BuiltChainVerifies`: `verify_full_chain` hashes the data hash where
   `add_to_chain` hashed the payload, and reports every non-empty chain.
6. `DateOptional`: an operation in clear without a date gets the present time as
   `isoformat()` writes it, with microseconds and an offset; a `datetime` column
   does not convert that text, and the operation is answered 500.

A sale is sealed with the ticket number inside, so the payload its terminal sent
does not verify; `ControlVerifies` speaks of controls only for that reason.

## 4. What is proved

The theorems hold for every value of the constants under the named assumptions of
the modules, and for every set of requests, packets, passwords and tasks. The
assumptions are: bounds and limits are natural numbers, positive where the code
has a positive constant (`MaxRequests`, `LimitsAssumption`); the kinds of tasks
of the terminal are disjoint (`TasksAssumption`); a packet has one operation in it
(`ContentAssumption`; which one, and whether others have it too, is left open); the server's pool is finite
(`ThreadsAssumption`, for counting); a malformed password is none that can be
typed (`PasswordsAssumption`); the words for files without a key are no keys
(`KeyPairsAssumption`); requests and contents consist of JSON values
(`DataAssumption`).

| Theorem | States |
|---|---|
| `Invariance` | `Spec => []IInv` |
| `TypeCorrect` | `Spec => []TypeOK` |
| `ChainIsLinked` | `Spec => []ChainLinked` |
| `HistoryIsCommitted` | `Spec => []HistoryCommitted` |
| `SourcesAreSealed` | `Spec => []SourcesSealed` |
| `AcknowledgedIsSealed` | `Spec => []AckSealed` |
| `LedgerImplemented` (`HashChain_refines`) | `Spec => ImplementsLedger` |
| `NoDeadlockEver` (`HashChain_refines`) | `Spec => []NoDeadlock` |
| `ControlsVerify` (`ChainVerification_proofs`) | `Spec => []ControlVerifies` |
| `Invariance`, `TypeCorrect`, `StatusFollowsFailures`, `OneSyncEver`, `NeverSentAgain`, `AcknowledgedNotLost` (`DegradedMode_proofs`) | `IInv`, `TypeOK`, `StatusByFailures`, `OneSync`, `NeverResent`, `AckedNotLost` of the terminal |
| `DeliveryImplemented` (`DegradedMode_refines`) | `Spec => ImplementsDelivery` |
| `TypeCorrect`, `GuessInvariant`, `LoginGuessesAreBounded`, `BlockedStaysShut`, `NoNewAccessEver` (`Auth_proofs`) | `TypeOK`, `GuessInv`, `LoginGuessesBounded`, `BlockedIsFinal`, `NoNewAccess` |
| `TypeCorrect`, `KeysAreKept`, `NoFalseAlarmEver`, `RowsArePlausible`, `ClearSalesEver`, `ClearFailuresExplained` (`Intake_proofs`) | `TypeOK`, `KeysKept`, `NoFalseAlarm`, `RowsPlausible`, `ClearSales`, `ClearNeverFails` |

The first six are in `HashChain_proofs`.

The chain. None of the safety properties is inductive: a link is committed
long after the decision what it contains, and what the thread read as the last
link may be stale by then. `IInv` adds what keeps that harmless.

* `ThreadOK(w)`: a thread's uncommitted rows are determined by `pc[w]`,
  `req[w]` and `last[w]`, and `last[w]` is the genesis or was a committed link.
* `PendingApart`: an uncommitted link shares neither id nor number with any
  other row. This is where the UNIQUE constraints enter, and the reason why the
  proof nowhere needs the U lock.
* `CommittedApart`, `NoGap`, `HashesOK`: committed numbers are `1..n` without
  repetition, and the hash of link `i` covers `i` payloads.

If the link to be committed extends link `j` and the chain had already grown
beyond `j`, `NoGap` gives a link `j + 1`, which `PendingApart` excludes: so the
new link extends the last one, and `ChainLinked` and `HistoryCommitted` are
kept. This is lemma `CommitExtends`. `OnePending` shows that in every state at
most one thread has an uncommitted link, so that a crash in the middle of
several commits is a single commit for the chain; all other actions leave the
tables alone (`ChainFrame`, `ThreadFrame`, `ApartFrame`, `AckFrame`).

The refinement needs one more invariant, `HasHeight`: there is a last link
(`IInv` alone does not say that `links` is finite). With it `SequenceIs` shows
that `Sequence` is the list of the ids by number, `NextHeight` that the link
being committed has the number after the last one, and `CommitSeals` that
committing it is a step of `Ledger`. `StepEffect`: every other step leaves the
chain, hence the ledger, alone.

`NoDeadlock` follows from the same invariants. A thread about to commit waits for
nobody. One about to append waits only for a thread with an uncommitted link that
clashes with its own, and that one is about to commit (`PendingAtCommit`). One at
the duplicate check waits only for such a thread, too. One that
reads the last link waits for the holder of the topmost row it has not passed
(`HasTop`, which needs `HasHeight`), and a holder is past its own read. So waits
only go forward, and lemma `WaitsEnd` ends at a thread that can go on after two
steps. That `CanStep(w)` is the guard of `w`'s step is read off the actions;
`ENABLED` is beyond the prover, and `Answered`, which depends on it, is checked.

`ControlsVerify` adds `DataOK`: the data hash of a link is that of the payload its
request left to be sealed.

The terminal. `AckedNotLost`, `OneSync` and `NeverResent` need one another: a row
of a batch is still pending when its turn comes only because nobody else settles
rows meanwhile, and a row may be marked only because 200 and 409 are answers for
what is sealed. `IInv` says what each task knows at its await (`TaskOK`), that
marked rows are sealed (`MarkedSealed`) and that acknowledged ones are stored or
sealed (`AckedStored`). Every step but `PostEnds` and `Restart` only lets the
buffer grow (`Effect`), and lemma `MoveOK` shows once that such a step keeps the
other tasks' part; `RowSettled` is `PostEnds`. That the row to send exists is
`HasLeast`: every set of natural numbers has a least element.

The refinement of `Delivery` reads the buffer as a set, which needs `OneRowEach`:
no two rows have the same packet, so that changing one row changes one element
(`RowReplaced`). `Sending` has at most one element because of `OneSync`, and the
packet in it is open because the rest of a batch is pending (`TaskOK`). `StepIs`
goes through the actions and shows, from `IInv`, that each stores, confirms, sends,
settles, fails, interrupts or seals, or does none of it; `PostEndsIs` is where a
task settles the row it chose before its await. `StepMaps` translates each case
into an action of `Delivery`.

Authentication. `LoginGuessesBounded` is not inductive, since the counter is read long before it is
written. `GuessInv` bounds the counter plus the logins that have yet to count:
whoever is admitted sees a counter below the limit, and there are at most as
many of them as threads. Cardinalities of the sets of such threads are handled with the
library's theorems on finite sets. The bound is one of `login` alone.
`NoNewAccess` is the part of `AccessEnds` that needs no fairness: each of its three
ways to be shut out includes that no login is past the check in question, and
`LoginMoves` says how a thread gets past one. That the tokens issued before run
out, `Tick` by `Tick`, is left to TLC.

Intake. `KeysKept` needs to know how far `save_keypair` has come: the public key is
written by a server that holds the pair in its private file already. The
properties of answers hold because the answer of a step is a function of the
request; the proofs of `ClearSales` and `ClearNeverFails` go through the layers
in the order of the code, for any request made of JSON values.

Only model-checked: the liveness properties (`Answered`, `TasksEnd`, `SyncDrains`,
`RestoredDrains`, `AccessEnds`), because fairness is out of the prover's reach.
What TLC shows of them holds for the instances above.

## 5. Not modelled

* Time on the terminal: the order of sending is the order of insertion, while
  the code sorts by a wall clock that may be set back.
* `IsFirstConnexion`, `DateConnection` and the other timestamps of
  `Utilisateur`, which are written and decide nothing; the session key, which
  the login returns and no code uses.
* That of two concurrent password changes the last one wins although its old
  password is no longer valid: the model does it (`WritePassword`), but no
  document of the repository says it should not.
* A second server process that makes keys at the same time: the Docker file
  starts one. How a public key gets to a terminal. A crash between the two key
  files leaves a server that is up without a usable public key until somebody
  removes the private one; nothing in the repository promises otherwise.
* Optional numbers and texts that no code tests; `numero_billet` stands for
  them. The row of a sale against its link: the link seals the amount as sent,
  the column rounds it, and no verification reads the row.
* Deletions and damage in the table `HashChain`: `verify_full_chain` as it is would
  report a corruption at the first row whatever is missing (finding 5), so that
  there is nothing to say of what it finds.
* The `GET` routes, the statistics of the terminal and `sync_log`: they change
  nothing, or are not called.
* `seed.py`, deployment, and `main.py`, which is empty.

## 6. Plan

1. Done: `Ledger`, `HashChain` with its proofs and the refinement of `Ledger`,
   `ChainVerification`, `NetworkMonitor`, `DegradedMode` with its proofs and the
   refinement of `Delivery`, `Auth`, `Payloads` and `Intake`, with proofs of every
   safety property the passing runs check.
2. `DegradedMode` uses `Ledger` for the Back-Office, and `HashChain` is proved to
   implement it. What is left is to check the two detailed modules together, on
   the smallest instance that has a retry on both sides.
3. Liveness for larger instances.
