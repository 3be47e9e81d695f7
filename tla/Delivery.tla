------------------------------- MODULE Delivery -------------------------------
(***************************************************************************)
(* What the terminal promises for the packets of its agent, whatever tasks *)
(* do it, in which order and after how many restarts: a packet is stored   *)
(* at most once; stored packets are sent one at a time, and only those not *)
(* settled and not given up; a packet is settled only when the Back-Office *)
(* has sealed the operation in it, given up only after MaxRetry attempts   *)
(* that failed, and the agent is told success only of what is stored or    *)
(* sealed.  An attempt may be interrupted without being counted, so that   *)
(* the number of times a packet is sent has no bound.                      *)
(* DegradedMode implements this specification.                             *)
(***************************************************************************)
EXTENDS Naturals, Sequences

CONSTANTS
  Packets,    \* packets
  Txns,       \* operations
  Content,    \* Content[p]: the operation in packet p
  MaxRetry    \* failed attempts after which a stored packet is given up

VARIABLES
  ledger,     \* the operations the Back-Office has sealed
  outbox,     \* the stored packets, each with its failed attempts
  sending,    \* the stored packet being sent, a set of at most one
  acked       \* the packets the agent was told success of

vars == <<ledger, outbox, sending, acked>>

BO == INSTANCE Ledger

\* The packet may still be sent.
Open(r) == ~r.synced /\ r.retry < MaxRetry

Replace(r, s) == outbox' = (outbox \ {r}) \cup {s}

Init ==
  /\ BO!Init
  /\ outbox = {}
  /\ sending = {}
  /\ acked = {}

\* A packet is stored; the agent is told, unless the terminal fails first.  The
\* failure that makes it store the packet may also interrupt an attempt.
Store(p) ==
  /\ \A r \in outbox : r.packet # p
  /\ outbox' = outbox \cup {[packet |-> p, retry |-> 0, synced |-> FALSE]}
  /\ acked' = acked \/ acked' = acked \cup {p}
  /\ sending' = sending \/ sending' = {}
  /\ UNCHANGED ledger

\* The agent is told that the Back-Office has the operation.
Confirm(p) ==
  /\ Content[p] \in BO!Sealed
  /\ acked' = acked \cup {p}
  /\ UNCHANGED <<ledger, outbox, sending>>

\* An attempt to send a stored packet begins.
Send(r) ==
  /\ Open(r)
  /\ sending = {}
  /\ sending' = {r.packet}
  /\ UNCHANGED <<ledger, outbox, acked>>

\* It ends, and the operation is known to be sealed.
Settle(r) ==
  /\ r.packet \in sending
  /\ Content[r.packet] \in BO!Sealed
  /\ Replace(r, [r EXCEPT !.synced = TRUE])
  /\ sending' = {}
  /\ UNCHANGED <<ledger, acked>>

\* It ends without that being known.
Fail(r) ==
  /\ r.packet \in sending
  /\ Replace(r, [r EXCEPT !.retry = @ + 1])
  /\ sending' = {}
  /\ UNCHANGED <<ledger, acked>>

\* The terminal restarts, or cannot record how the attempt ended.
Interrupt ==
  /\ sending # {}
  /\ sending' = {}
  /\ UNCHANGED <<ledger, outbox, acked>>

\* The Back-Office seals an operation, at whatever time its request arrives.
Seal(t) ==
  /\ BO!Seal(t)
  /\ UNCHANGED <<outbox, sending, acked>>

Next ==
  \/ \E p \in Packets : Store(p) \/ Confirm(p)
  \/ \E r \in outbox : Send(r) \/ Settle(r) \/ Fail(r)
  \/ Interrupt
  \/ \E t \in Txns : Seal(t)

Spec == Init /\ [][Next]_vars
===============================================================================
