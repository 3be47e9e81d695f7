------------------------------- MODULE HashChain ------------------------------
(***************************************************************************)
(* The Back-Office side: the threads that serve POST /operations/          *)
(* {controle,vente}[/chiffre], each running process_controle or            *)
(* process_vente in a SQL transaction of its own (get_db), and the tables  *)
(* they share: the source tables Controle and VenteBillet, and HashChain.  *)
(*                                                                         *)
(* A step is one SQL statement together with the Python code up to the     *)
(* next one.  SQL Server is at its default isolation, READ COMMITTED with  *)
(* locks: a row written by an open transaction is X-locked, a reader that  *)
(* meets it waits.                                                         *)
(***************************************************************************)
EXTENDS Naturals, Sequences

CONSTANTS
  Workers,      \* threads of the server's pool
  Txns,         \* transaction ids of the payloads
  Valid,        \* the <<endpoint, id>> pairs whose payload passes validation
  MaxRequests   \* bound: requests received in a behaviour

Kinds == {"controle", "vente"}

ASSUME ValidAssumption == Valid \subseteq Kinds \X Txns
ASSUME BoundAssumption == MaxRequests \in Nat

VARIABLES
  pc,           \* pc[w]: the statement thread w executes next
  req,          \* req[w]: the request it serves
  last,         \* last[w]: the last link as get_last_chain_hash returned it
  scan,         \* scan[w]: number of the row its UPDLOCK scan waits for, 0 if none
  links,        \* committed rows of HashChain
  newLink,      \* newLink[w]: row of HashChain inserted by w, not committed
  sources,      \* committed rows of Controle and VenteBillet
  newSource,    \* newSource[w]: source row inserted by w, not committed
  ids,          \* last IDENTITY value each source table gave out
  replies,      \* <<transaction id, HTTP status>> pairs sent so far
  served        \* requests received so far

vars == <<pc, req, last, scan, links, newLink, sources, newSource, ids,
          replies, served>>

-------------------------------------------------------------------------------
(***************************************************************************)
(* Payloads and hashes.  A payload is its id and whether the ticket number *)
(* process_vente writes into it is there.  SHA-256 is taken as injective:  *)
(* the data hash is a term over the payload; a chain hash, computed from a *)
(* payload and the previous chain hash, is the sequence of all payloads    *)
(* hashed so far.  The salt is left out: a link and its verification use   *)
(* the same one.                                                           *)
(***************************************************************************)
Payloads == [txn : Txns, billet : BOOLEAN]

Received(t) == [txn |-> t, billet |-> FALSE]

\* Mutant: a ticket number is written into every payload.
DataToSealTicket(k, t) == [txn |-> t, billet |-> TRUE]

\* process_vente adds numero_billet to the payload before it is sealed.
DataToSeal(k, t) == [txn |-> t, billet |-> (k = "vente")]

DataHash(p) == [sha256 |-> p]

\* Mutants: the previous hash is left out of the chain hash; the data hash is
\* hashed in place of the payload, as the verification does.
ChainHashAlone(p, previous) == <<p>>
ChainHashOfHash(p, previous) == Append(previous, DataHash(p))

ChainHash(p, previous) == Append(previous, p)

GenesisHash == << >>

Genesis == [seq |-> 0, hash |-> GenesisHash]

NoRequest == [kind |-> "none"]

Requests == [kind : Kinds, txn : Txns]

Link == [seq : Nat, txn : Txns, kind : Kinds, src : Nat,
         dataHash : {DataHash(p) : p \in Payloads},
         prev : Seq(Payloads), hash : Seq(Payloads)]

Source == [kind : Kinds, id : Nat, txn : Txns]

-------------------------------------------------------------------------------
(***************************************************************************)
(* Tables and locks.                                                       *)
(***************************************************************************)

\* All rows of HashChain, those of open transactions included.
Rows == links \cup UNION {newLink[w] : w \in Workers}

\* Threads that hold the U lock of the row they read as the last one.
HoldsLast(v) == pc[v] \in {"append", "commit"}

\* v holds an X or a U lock on row l.
Locks(v, l) == l \in newLink[v] \/ (HoldsLast(v) /\ last[v].seq = l.seq)

LockedFor(w, l) == \E v \in Workers \ {w} : Locks(v, l)

\* Mutant: the anti-replay SELECT reads WITH (NOLOCK).
ReadableNoLock(w, t) == TRUE

\* A shared read of the rows of transaction t does not have to wait.
Readable(w, t) ==
  \A v \in Workers \ {w} : \A l \in newLink[v] : l.txn # t

\* Mutants: one of the two UNIQUE constraints is missing.
ClashTxnOnly(l, m) == l.txn = m.txn
ClashSeqOnly(l, m) == l.seq = m.seq

\* UQ_TransactionId and UQ_Sequence.
Clash(l, m) == l.txn = m.txn \/ l.seq = m.seq

-------------------------------------------------------------------------------
Init ==
  /\ pc = [w \in Workers |-> "idle"]
  /\ req = [w \in Workers |-> NoRequest]
  /\ last = [w \in Workers |-> Genesis]
  /\ scan = [w \in Workers |-> 0]
  /\ links = {}
  /\ newLink = [w \in Workers |-> {}]
  /\ sources = {}
  /\ newSource = [w \in Workers |-> {}]
  /\ ids = [k \in Kinds |-> 0]
  /\ replies = {}
  /\ served = 0

\* Mutant: the session is not closed when the request ends, so the thread's link
\* stays X-locked by a connection nobody uses.
CloseSessionLeaky(w) ==
  /\ pc' = [pc EXCEPT ![w] = "idle"]
  /\ req' = [req EXCEPT ![w] = NoRequest]
  /\ last' = [last EXCEPT ![w] = Genesis]
  /\ scan' = [scan EXCEPT ![w] = 0]
  /\ newLink' = newLink
  /\ newSource' = [newSource EXCEPT ![w] = {}]

\* The session of w is closed: what it did not commit is rolled back, its locks
\* are released, and the thread is free.
CloseSession(w) ==
  /\ pc' = [pc EXCEPT ![w] = "idle"]
  /\ req' = [req EXCEPT ![w] = NoRequest]
  /\ last' = [last EXCEPT ![w] = Genesis]
  /\ scan' = [scan EXCEPT ![w] = 0]
  /\ newLink' = [newLink EXCEPT ![w] = {}]
  /\ newSource' = [newSource EXCEPT ![w] = {}]

Reply(w, status) == replies' = replies \cup {<<req[w].txn, status>>}

\* A request arrives whose token, device and AES-GCM tag are in order (the other
\* ones are answered 401, 403 or 400 before any table is touched).  The
\* encrypted endpoints may receive the same payload any number of times.
Receive(w, k, t) ==
  /\ pc[w] = "idle"
  /\ served < MaxRequests
  /\ served' = served + 1
  /\ req' = [req EXCEPT ![w] = [kind |-> k, txn |-> t]]
  /\ pc' = [pc EXCEPT ![w] = "check"]
  /\ UNCHANGED <<last, scan, links, newLink, sources, newSource, ids, replies>>

IsDuplicate(t) == \E l \in Rows : l.txn = t

\* _validate_controle and _validate_vente.
Accepted(r) == <<r.kind, r.txn>> \in Valid

\* assert_not_duplicate, then the validation of the payload.
Check(w) ==
  /\ pc[w] = "check"
  /\ Readable(w, req[w].txn)
  /\ \/ /\ IsDuplicate(req[w].txn)
        /\ Reply(w, 409)
        /\ CloseSession(w)
     \/ /\ ~IsDuplicate(req[w].txn)
        /\ ~Accepted(req[w])
        /\ Reply(w, 422)
        /\ CloseSession(w)
     \/ /\ ~IsDuplicate(req[w].txn)
        /\ Accepted(req[w])
        /\ pc' = [pc EXCEPT ![w] = "insert"]
        /\ UNCHANGED <<req, last, scan, newLink, newSource, replies>>
  /\ UNCHANGED <<links, sources, ids, served>>

\* Mutant: the source row is committed on its own.
InsertSourceAutocommit(w) ==
  LET k == req[w].kind
      row == [kind |-> k, id |-> ids[k] + 1, txn |-> req[w].txn]
  IN  /\ pc[w] = "insert"
      /\ ids' = [ids EXCEPT ![k] = @ + 1]
      /\ newSource' = [newSource EXCEPT ![w] = {row}]
      /\ sources' = sources \cup {row}
      /\ pc' = [pc EXCEPT ![w] = "seal"]
      /\ UNCHANGED <<req, last, scan, links, newLink, replies, served>>

\* _insert_controle or _insert_vente.  IDENTITY values are not given back.
InsertSource(w) ==
  LET k == req[w].kind
  IN  /\ pc[w] = "insert"
      /\ ids' = [ids EXCEPT ![k] = @ + 1]
      /\ newSource' = [newSource EXCEPT
                         ![w] = {[kind |-> k, id |-> ids[k] + 1,
                                  txn |-> req[w].txn]}]
      /\ pc' = [pc EXCEPT ![w] = "seal"]
      /\ UNCHANGED <<req, last, scan, links, newLink, sources, replies, served>>

(***************************************************************************)
(* get_last_chain_hash: SELECT TOP 1 ... WITH (UPDLOCK) ORDER BY Sequence  *)
(* DESC, a backward scan of the index on Sequence.  It stops at the first  *)
(* row, waits there if another transaction has that row locked, and goes   *)
(* on from that row (not from the top again) when the lock is granted.     *)
(***************************************************************************)
Ahead(w) == {l \in Rows : scan[w] = 0 \/ l.seq <= scan[w]}

IsTop(w, l) == l \in Ahead(w) /\ \A m \in Ahead(w) : m.seq <= l.seq

AwaitLast(w) ==
  /\ pc[w] = "seal"
  /\ \E l \in Rows :
       /\ IsTop(w, l)
       /\ LockedFor(w, l)
       /\ scan[w] # l.seq
       /\ scan' = [scan EXCEPT ![w] = l.seq]
  /\ UNCHANGED <<pc, req, last, links, newLink, sources, newSource, ids,
                 replies, served>>

GetLast(w) ==
  /\ pc[w] = "seal"
  /\ \/ /\ Ahead(w) = {}
        /\ last' = [last EXCEPT ![w] = Genesis]
     \/ \E l \in Rows :
          /\ IsTop(w, l)
          /\ ~LockedFor(w, l)
          /\ last' = [last EXCEPT ![w] = [seq |-> l.seq, hash |-> l.hash]]
  /\ scan' = [scan EXCEPT ![w] = 0]
  /\ pc' = [pc EXCEPT ![w] = "append"]
  /\ UNCHANGED <<req, links, newLink, sources, newSource, ids, replies, served>>

\* The row add_to_chain builds from what get_last_chain_hash returned.
NextLink(w) ==
  LET data == DataToSeal(req[w].kind, req[w].txn)
      row  == CHOOSE s \in newSource[w] : TRUE
  IN  [seq      |-> last[w].seq + 1,
       txn      |-> req[w].txn,
       kind     |-> req[w].kind,
       src      |-> row.id,
       dataHash |-> DataHash(data),
       prev     |-> last[w].hash,
       hash     |-> ChainHash(data, last[w].hash)]

\* add_to_chain: the INSERT waits while a row it clashes with is uncommitted.
SealLink(w) ==
  /\ pc[w] = "append"
  /\ \A l \in Rows : ~Clash(l, NextLink(w))
  /\ newLink' = [newLink EXCEPT ![w] = {NextLink(w)}]
  /\ pc' = [pc EXCEPT ![w] = "commit"]
  /\ UNCHANGED <<req, last, scan, links, sources, newSource, ids, replies,
                 served>>

\* The INSERT violates UQ_TransactionId or UQ_Sequence: an unhandled
\* IntegrityError, so the session is rolled back and the client gets a 500.
SealRefused(w) ==
  /\ pc[w] = "append"
  /\ \E l \in links : Clash(l, NextLink(w))
  /\ Reply(w, 500)
  /\ CloseSession(w)
  /\ UNCHANGED <<links, sources, ids, served>>

\* db.commit() makes the source row and its link visible together.
CommitRows(ws) ==
  /\ links' = links \cup UNION {newLink[w] : w \in ws}
  /\ sources' = sources \cup UNION {newSource[w] : w \in ws}

Commit(w) ==
  /\ pc[w] = "commit"
  /\ CommitRows({w})
  /\ Reply(w, 200)
  /\ CloseSession(w)
  /\ UNCHANGED <<ids, served>>

\* A statement raises (connection lost, value refused by a column): 500 and
\* rollback; of a commit whose answer is lost nobody knows whether it was done.
Abort(w) ==
  /\ pc[w] # "idle"
  /\ \/ CommitRows({})
     \/ pc[w] = "commit" /\ CommitRows({w})
  /\ Reply(w, 500)
  /\ CloseSession(w)
  /\ UNCHANGED <<ids, served>>

\* The server process dies: no thread answers, SQL Server rolls back what is
\* not committed; a commit under way may or may not get through.
Crash ==
  /\ \E w \in Workers : pc[w] # "idle"
  /\ \E ws \in SUBSET {w \in Workers : pc[w] = "commit"} : CommitRows(ws)
  /\ pc' = [w \in Workers |-> "idle"]
  /\ req' = [w \in Workers |-> NoRequest]
  /\ last' = [w \in Workers |-> Genesis]
  /\ scan' = [w \in Workers |-> 0]
  /\ newLink' = [w \in Workers |-> {}]
  /\ newSource' = [w \in Workers |-> {}]
  /\ UNCHANGED <<ids, replies, served>>

\* What thread w does when no statement of its own fails.
Step(w) ==
  \/ Check(w)
  \/ InsertSource(w)
  \/ AwaitLast(w)
  \/ GetLast(w)
  \/ SealLink(w)
  \/ SealRefused(w)
  \/ Commit(w)

Next ==
  \/ \E w \in Workers, k \in Kinds, t \in Txns : Receive(w, k, t)
  \/ \E w \in Workers : Step(w) \/ Abort(w)
  \/ Crash

Spec == Init /\ [][Next]_vars

\* A thread whose next statement is not blocked eventually executes it.
Fairness == \A w \in Workers : WF_vars(Step(w))

FairSpec == Spec /\ Fairness

-------------------------------------------------------------------------------
Statements == {"check", "insert", "seal", "append", "commit"}

TypeOK ==
  /\ pc \in [Workers -> Statements \cup {"idle"}]
  /\ req \in [Workers -> Requests \cup {NoRequest}]
  /\ last \in [Workers -> [seq : Nat, hash : Seq(Payloads)]]
  /\ scan \in [Workers -> Nat]
  /\ links \subseteq Link
  /\ newLink \in [Workers -> SUBSET Link]
  /\ sources \subseteq Source
  /\ newSource \in [Workers -> SUBSET Source]
  /\ ids \in [Kinds -> Nat]
  /\ replies \subseteq Txns \X {200, 409, 422, 500}
  /\ served \in 0..MaxRequests

\* The committed links form one chain without fork or gap: sequence numbers
\* are unique, the first link points to the genesis hash and every other one
\* to the chain hash of the link before it (get_last_chain_hash and
\* add_to_chain under concurrent requests, aborts and crashes).
ChainLinked ==
  /\ \A l, m \in links : l.seq = m.seq => l = m
  /\ \A l \in links :
       \/ l.seq = 1 /\ l.prev = GenesisHash
       \/ \E m \in links : m.seq + 1 = l.seq /\ m.hash = l.prev

\* The chain hash of a link commits to the data of every link before it: a
\* change of any sealed payload changes all later chain hashes.
HistoryCommitted ==
  \A l, m \in links :
    m.seq <= l.seq => /\ m.seq \in DOMAIN l.hash
                      /\ DataHash(l.hash[m.seq]) = m.dataHash

\* "si l'un echoue, les deux sont annules": every committed row of Controle or
\* VenteBillet has its link, every link its row, and one transaction id has at
\* most one row in both tables together.
SourcesSealed ==
  /\ \A s \in sources :
       \E l \in links : l.kind = s.kind /\ l.src = s.id /\ l.txn = s.txn
  /\ \A l \in links :
       \E s \in sources : l.kind = s.kind /\ l.src = s.id /\ l.txn = s.txn
  /\ \A r, s \in sources : r.txn = s.txn => r = s

\* A terminal that is told 200 or 409 may forget the operation (SyncService
\* marks it synchronized): it is sealed, in a committed link, and stays so.
AckSealed ==
  \A r \in replies :
    r[2] \in {200, 409} => \E l \in links : l.txn = r[1]

\* The ids in chain order.
Height == CHOOSE n \in {0} \cup {l.seq : l \in links} :
            \A l \in links : l.seq <= n

Sequence == [i \in 1..Height |-> (CHOOSE l \in links : l.seq = i).txn]

Promise == INSTANCE Ledger WITH ledger <- Sequence

\* The threads together implement the ledger that the terminals rely on.
ImplementsLedger == Promise!Spec

-------------------------------------------------------------------------------
(***************************************************************************)
(* Who waits for whom.                                                     *)
(***************************************************************************)

\* The next statement of w is not blocked.
CanStep(w) ==
  \/ pc[w] = "check" /\ Readable(w, req[w].txn)
  \/ pc[w] \in {"insert", "commit"}
  \/ /\ pc[w] = "seal"
     /\ \/ Ahead(w) = {}
        \/ \E l \in Rows : IsTop(w, l) /\ (LockedFor(w, l) => scan[w] # l.seq)
  \/ /\ pc[w] = "append"
     /\ \/ \A l \in Rows : ~Clash(l, NextLink(w))
        \/ \E l \in links : Clash(l, NextLink(w))

\* The next statement of w meets a lock that v holds.
WaitsFor(w, v) ==
  /\ v # w
  /\ \/ pc[w] = "check" /\ \E l \in newLink[v] : l.txn = req[w].txn
     \/ pc[w] = "seal" /\ \E l \in Rows : IsTop(w, l) /\ Locks(v, l)
     \/ pc[w] = "append" /\ \E l \in newLink[v] : Clash(l, NextLink(w))

\* No set of threads is stuck: if it serves a request and contains every thread
\* that its members wait for, one of them can execute its next statement.  So
\* the locks of get_last_chain_hash, add_to_chain and the anti-replay SELECT
\* make no cycle, and none is held by a thread without a request.
NoDeadlock ==
  \A ws \in SUBSET Workers :
    /\ \E w \in ws : pc[w] # "idle"
    /\ \A w \in ws, v \in Workers : WaitsFor(w, v) => v \in ws
    => \E w \in ws : CanStep(w)

\* No thread is left waiting for a lock for ever: every request is answered.
Answered == \A w \in Workers : pc[w] # "idle" ~> pc[w] = "idle"

\* What UPDLOCK is there for, in the words of get_last_chain_hash ("eviter les
\* conditions de concurrence lors d'insertions paralleles"): while a thread
\* holds what it read as the last link, that is the last committed link.
ReadIsLast ==
  \A w \in Workers : pc[w] = "append" => last[w].seq = Height

-------------------------------------------------------------------------------
(***************************************************************************)
(* The inductive invariant behind the safety properties.                   *)
(***************************************************************************)

\* Thread w holds the rows its statement counter says, and what it read as the
\* last link is the genesis or a committed link.
ThreadOK(w) ==
  /\ pc[w] # "idle" => req[w] \in Requests
  /\ IF pc[w] \in {"seal", "append", "commit"}
       THEN \E s \in newSource[w] :
              /\ newSource[w] = {s}
              /\ s.kind = req[w].kind
              /\ s.txn = req[w].txn
       ELSE newSource[w] = {}
  /\ newLink[w] = IF pc[w] = "commit" THEN {NextLink(w)} ELSE {}
  /\ HoldsLast(w) =>
       \/ last[w] = Genesis
       \/ \E l \in links : l.seq = last[w].seq /\ l.hash = last[w].hash

\* An uncommitted link clashes with no other row.
PendingApart ==
  \A w \in Workers : \A l \in newLink[w] :
    /\ \A m \in links : ~Clash(l, m)
    /\ \A v \in Workers \ {w} : \A m \in newLink[v] : ~Clash(l, m)

CommittedApart == \A l, m \in links : Clash(l, m) => l = m

\* The committed sequence numbers are 1..n.
NoGap == \A l \in links : \A i \in 1..l.seq : \E m \in links : m.seq = i

\* A link's hash is its predecessor's with its own data at the end.
HashesOK == \A l \in links : l.seq >= 1 /\ Len(l.hash) = l.seq

\* The inductive invariant: committed and uncommitted rows together are what a
\* serial execution of the committed requests would have left, because the
\* UNIQUE constraints, and not the U lock, keep a stale read from extending the
\* chain.
IInv ==
  /\ TypeOK
  /\ \A w \in Workers : ThreadOK(w)
  /\ PendingApart
  /\ CommittedApart
  /\ NoGap
  /\ HashesOK
  /\ ChainLinked
  /\ HistoryCommitted
  /\ SourcesSealed
  /\ AckSealed
===============================================================================
