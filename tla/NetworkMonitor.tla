---------------------------- MODULE NetworkMonitor ----------------------------
(***************************************************************************)
(* The connectivity monitor of the terminal.  Its loop calls               *)
(* _check_connectivity every 15 s; force_check, called by every submitted  *)
(* operation, runs the same method, so that several checks may overlap:    *)
(* each reads _online before it awaits GET /health and compares after.     *)
(* The code between two awaits is one step (asyncio has one thread).       *)
(***************************************************************************)
EXTENDS Naturals

CONSTANTS
  Checkers,     \* the tasks that may be inside _check_connectivity
  MaxFailures   \* MAX_FAILURES, 3 in the code

VARIABLES
  status,       \* _online, as "online" or "offline"
  failures,     \* _consecutive_failures; values above MaxFailures are alike
  was           \* was[k]: the was_online of the check k runs, "none" if none

monitorVars == <<status, failures, was>>

Statuses == {"online", "offline"}

Init ==
  /\ status = "online"
  /\ failures = 0
  /\ was = [k \in Checkers |-> "none"]

\* _check_connectivity up to the answer of GET /health.
CheckBegins(k) ==
  /\ was[k] = "none"
  /\ was' = [was EXCEPT ![k] = status]
  /\ UNCHANGED <<status, failures>>

\* At the end of a check: the status it leaves is not the one it began with,
\* so that it calls the on_online or on_offline callbacks.
ChangeSeen(k) == was[k] # status'

CheckDone(k) == was' = [was EXCEPT ![k] = "none"]

\* Mutant: a check that succeeds does not reset the count.
CheckSucceedsNoReset(k) ==
  /\ was[k] # "none"
  /\ failures' = failures
  /\ status' = "online"
  /\ CheckDone(k)

CheckSucceeds(k) ==
  /\ was[k] # "none"
  /\ failures' = 0
  /\ status' = "online"
  /\ CheckDone(k)

\* A timeout, a refused connection or an error status.
CheckFails(k) ==
  /\ was[k] # "none"
  /\ failures' = IF failures < MaxFailures THEN failures + 1 ELSE failures
  /\ status' = IF failures' = MaxFailures THEN "offline" ELSE status
  /\ CheckDone(k)

Next ==
  \E k \in Checkers : CheckBegins(k) \/ CheckSucceeds(k) \/ CheckFails(k)

Spec == Init /\ [][Next]_monitorVars

TypeOK ==
  /\ status \in Statuses
  /\ failures \in 0..MaxFailures
  /\ was \in [Checkers -> Statuses \cup {"none"}]

\* The terminal calls itself offline exactly when the last MAX_FAILURES checks
\* failed, however checks overlap.
StatusByFailures == status = "offline" <=> failures = MaxFailures

\* "appelle des callbacks quand le statut reseau change (online -> offline ou
\* offline -> online)": a step that changes the status ends a check that sees
\* the change.
EveryChangeSeen ==
  [][status' # status =>
       \E k \in Checkers : was'[k] # was[k] /\ ChangeSeen(k)]_monitorVars
===============================================================================
