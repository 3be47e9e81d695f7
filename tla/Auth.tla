--------------------------------- MODULE Auth ---------------------------------
(***************************************************************************)
(* Authentication in the Back-Office: AuthService (login,                  *)
(* change_password), the device binding of device.py, and the tokens of    *)
(* session.py, which every protected route checks with get_current_agent.  *)
(*                                                                         *)
(* Calls are served by threads.  Each SQL statement is committed before    *)
(* the next one is executed, so one step of a thread is one statement with *)
(* the Python code up to the next one; SQL Server makes an UPDATE of a row *)
(* atomic.  A login that is refused by what its first SELECT returned      *)
(* changes nothing, and is no step of the model; the refusals of           *)
(* change_password are shown, as one of them tells that a password is      *)
(* wrong.                                                                  *)
(***************************************************************************)
EXTENDS Naturals, FiniteSets

CONSTANTS
  Threads,      \* threads of the server's pool
  Agents,       \* matricules
  Passwords,    \* what may be typed
  Malformed,    \* a stored Password without "$" (the row the SQL script inserts)
  Devices,      \* device ids
  MaxAttempts,  \* MAX_ATTEMPTS, 3 in the code
  JwtExpire     \* JWT_EXPIRE_MINUTES, in ticks of the clock

ASSUME LimitsAssumption == MaxAttempts \in Nat \ {0} /\ JwtExpire \in Nat \ {0}

ASSUME ThreadsAssumption == IsFiniteSet(Threads)

ASSUME PasswordsAssumption == Malformed \notin Passwords

VARIABLES
  user,     \* the rows of Utilisateur, by agent
  devices,  \* the rows of DeviceUtilisateur: pairs of an agent and a device
  thread,   \* what each thread does next, and its local variables
  life,     \* life[x]: ticks until the last token issued to the pair x expires
  wrong     \* wrong[a]: logins of a answered "Mot de passe incorrect" since the
            \* last reset

vars == <<user, devices, thread, life, wrong>>

Pairs == Agents \X Devices

States == {"absent", "active", "disabled"}   \* no row, Etat = 1, Etat = 0

\* A salted SHA-256 stands for the password it was computed from: two equal
\* passwords verify, two different ones do not.
UserRows ==
  [state : States, password : Passwords \cup {Malformed}, attempts : Nat]

\* NULL in ConnectionAttemptsNumber counts as 0.
Init ==
  /\ user \in [Agents -> {r \in [state : States,
                                 password : Passwords \cup {Malformed},
                                 attempts : {0}] :
                            r.state = "absent" => r.password = Malformed}]
  /\ devices = {}
  /\ thread = [t \in Threads |-> [at |-> "idle"]]
  /\ life = [x \in Pairs |-> 0]
  /\ wrong = [a \in Agents |-> 0]

-------------------------------------------------------------------------------
(***************************************************************************)
(* Threads.  at is the statement that comes next:                          *)
(*   "count"  _increment_attempts      "device"  is_device_registered      *)
(*   "reset"  _reset_attempts          "session" _update_last_connection   *)
(*   "write"  UPDATE of Password       "insert"  INSERT of the device      *)
(***************************************************************************)
Goes(t, next) == thread' = [thread EXCEPT ![t] = next]

Returns(t) == Goes(t, [at |-> "idle"])

Idle(t) == thread[t].at = "idle"

Blocked(a) == user[a].attempts >= MaxAttempts

\* Mutant: the account is refused from the attempt after the last one on.
AdmittedLate(a) ==
  /\ user[a].state = "active"
  /\ user[a].attempts <= MaxAttempts
  /\ user[a].password # Malformed

\* Mutant: a disabled account may log in.
AdmittedDisabled(a) ==
  /\ user[a].state # "absent"
  /\ ~Blocked(a)
  /\ user[a].password # Malformed

\* Steps 1 to 3 of login, and the format of the stored password (500).
Admitted(a) ==
  /\ user[a].state = "active"
  /\ ~Blocked(a)
  /\ user[a].password # Malformed

\* login up to its second statement: the password is verified against the row
\* that was read.
Login(t, a, p, d) ==
  /\ Idle(t)
  /\ Admitted(a)
  /\ IF p = user[a].password
       THEN Goes(t, [at |-> "device", pair |-> <<a, d>>])
       ELSE Goes(t, [at |-> "count", agent |-> a])
  /\ UNCHANGED <<user, devices, life, wrong>>

\* Mutant: the increment is not committed.
IncrementUncommitted(t) ==
  /\ thread[t].at = "count"
  /\ wrong' = [wrong EXCEPT ![thread[t].agent] = @ + 1]
  /\ Returns(t)
  /\ UNCHANGED <<user, devices, life>>

\* The statement computes the new value, not the thread.
IncrementAttempts(t) ==
  /\ thread[t].at = "count"
  /\ user' = [user EXCEPT ![thread[t].agent].attempts = @ + 1]
  /\ wrong' = [wrong EXCEPT ![thread[t].agent] = @ + 1]
  /\ Returns(t)
  /\ UNCHANGED <<devices, life>>

\* Mutant: the agent need not be bound to a device.
RegisteredAny(x) == TRUE

\* is_device_registered.
Registered(x) == x \in devices

CheckDevice(t) ==
  /\ thread[t].at = "device"
  /\ IF Registered(thread[t].pair)
       THEN Goes(t, [thread[t] EXCEPT !.at = "reset"])
       ELSE Returns(t)
  /\ UNCHANGED <<user, devices, life, wrong>>

Cleared(a) ==
  /\ user' = [user EXCEPT ![a].attempts = 0]
  /\ wrong' = [wrong EXCEPT ![a] = 0]

ResetAttempts(t) ==
  /\ thread[t].at = "reset"
  /\ Cleared(thread[t].pair[1])
  /\ Goes(t, [thread[t] EXCEPT !.at = "session"])
  /\ UNCHANGED <<devices, life>>

\* Mutant: a token lives one tick too long.
CreateSessionLonger(t) ==
  /\ thread[t].at = "session"
  /\ life' = [life EXCEPT ![thread[t].pair] = JwtExpire + 1]
  /\ Returns(t)
  /\ UNCHANGED <<user, devices, wrong>>

\* _update_last_connection, then create_session: the token is signed, not
\* stored, and names the agent and the device.
CreateSession(t) ==
  /\ thread[t].at = "session"
  /\ life' = [life EXCEPT ![thread[t].pair] = JwtExpire]
  /\ Returns(t)
  /\ UNCHANGED <<user, devices, wrong>>

\* change_password up to its UPDATE; neither Etat nor the attempts matter.  Its
\* refusals, "Ancien mot de passe incorrect" and that the new password is the old
\* one, are not counted, so that nothing limits them.
ChangePassword(t, a, old, new) ==
  /\ Idle(t)
  /\ user[a].state # "absent"
  /\ user[a].password # Malformed
  /\ IF old = user[a].password /\ new # old
       THEN Goes(t, [at |-> "write", agent |-> a, password |-> new])
       ELSE UNCHANGED thread
  /\ UNCHANGED <<user, devices, life, wrong>>

WritePassword(t) ==
  /\ thread[t].at = "write"
  /\ user' = [user EXCEPT ![thread[t].agent].password = thread[t].password]
  /\ Returns(t)
  /\ UNCHANGED <<devices, life, wrong>>

\* register_device up to its INSERT: it looks for the pair, not for the agent.
RegisterDevice(t, x) ==
  /\ Idle(t)
  /\ ~Registered(x)
  /\ Goes(t, [at |-> "insert", pair |-> x])
  /\ UNCHANGED <<user, devices, life, wrong>>

\* UQ_MatriculeUtilisateur: an agent has one device.
Unique(a) == \A x \in devices : x[1] # a

\* The INSERT, or its IntegrityError.
InsertDevice(t) ==
  LET x == thread[t].pair
  IN  /\ thread[t].at = "insert"
      /\ devices' = IF Unique(x[1]) THEN devices \cup {x} ELSE devices
      /\ Returns(t)
      /\ UNCHANGED <<user, life, wrong>>

\* update_device is a single statement.
UpdateDevice(x) ==
  /\ devices' = {IF y[1] = x[1] THEN x ELSE y : y \in devices}
  /\ UNCHANGED <<user, thread, life, wrong>>

\* A statement raises, or the server stops: tables and tokens stay.
Fails(t) ==
  /\ ~Idle(t)
  /\ Returns(t)
  /\ UNCHANGED <<user, devices, life, wrong>>

-------------------------------------------------------------------------------
\* Mutant: the token is decoded without looking at its expiry.
TickNoExpiry ==
  /\ life' = life
  /\ UNCHANGED <<user, devices, thread, wrong>>

\* Time passes; jwt.decode refuses a token whose exp is not in the future.
Tick ==
  /\ life' = [x \in Pairs |-> IF life[x] > 0 THEN life[x] - 1 ELSE 0]
  /\ UNCHANGED <<user, devices, thread, wrong>>

\* get_current_agent: some token of this agent and device is accepted.
Accepts(x) == life[x] > 0

\* "Contactez l'administrateur": he unblocks an account, disables it or
\* enables it again.
Administer(a) ==
  /\ user[a].state # "absent"
  /\ \/ Cleared(a)
     \/ /\ \E s \in {"active", "disabled"} : user' = [user EXCEPT ![a].state = s]
        /\ UNCHANGED wrong
  /\ UNCHANGED <<devices, thread, life>>

-------------------------------------------------------------------------------
Calls(t) ==
  \/ \E a \in Agents, p \in Passwords, d \in Devices : Login(t, a, p, d)
  \/ \E a \in Agents, old, new \in Passwords : ChangePassword(t, a, old, new)
  \/ \E x \in Pairs : RegisterDevice(t, x)

Proceeds(t) ==
  \/ IncrementAttempts(t)
  \/ CheckDevice(t)
  \/ ResetAttempts(t)
  \/ CreateSession(t)
  \/ WritePassword(t)
  \/ InsertDevice(t)

Next ==
  \/ \E t \in Threads : Calls(t) \/ Proceeds(t) \/ Fails(t)
  \/ \E x \in Pairs : UpdateDevice(x)
  \/ \E a \in Agents : Administer(a)
  \/ Tick

Spec == Init /\ [][Next]_vars

\* Time passes; nothing is assumed of the threads.
FairSpec == Spec /\ WF_vars(Tick)

-------------------------------------------------------------------------------
ThreadStates ==
  [at : {"idle"}]
    \cup [at : {"count"}, agent : Agents]
    \cup [at : {"device", "reset", "session", "insert"}, pair : Pairs]
    \cup [at : {"write"}, agent : Agents, password : Passwords]

\* life : 0..JwtExpire is a claim of its own: no token is accepted longer than
\* its lifetime after the login, however many logins follow one another.
TypeOK ==
  /\ user \in [Agents -> UserRows]
  /\ devices \subseteq Pairs
  /\ thread \in [Threads -> ThreadStates]
  /\ life \in [Pairs -> 0..JwtExpire]
  /\ wrong \in [Agents -> Nat]

\* The threads that are about to count a wrong password of agent a.
Counting(a) ==
  {t \in Threads : thread[t].at = "count" /\ thread[t].agent = a}

\* The most wrong passwords that login can answer between two resets: each of
\* the threads may have read the counter just before it reached the limit.
MaxGuesses == MaxAttempts - 1 + Cardinality(Threads)

\* "Compte bloque apres 3 tentatives": between two resets, however many logins
\* overlap, login answers "Mot de passe incorrect" for an agent at most as often
\* as the limit allows, plus once for each further thread that had read the
\* counter before.  This says nothing of change_password, whose own answers of
\* that kind are neither counted nor limited.
LoginGuessesBounded == \A a \in Agents : wrong[a] <= MaxGuesses

\* Why LoginGuessesBounded holds: a login that has yet to count was admitted below
\* the limit.
GuessInv ==
  \A a \in Agents :
    /\ wrong[a] <= user[a].attempts
    /\ user[a].attempts + Cardinality(Counting(a)) <= MaxGuesses

\* Agent a is blocked, and no login of his is past the check of the counter.
Shut(a) ==
  /\ Blocked(a)
  /\ \A t \in Threads :
       thread[t].at \in {"device", "reset"} => thread[t].pair[1] # a

\* A blocked account stays blocked until the administrator unblocks it, once
\* the logins that had read the counter before are over (one of them may still
\* succeed and reset the counter).
BlockedIsFinal ==
  [][\A a \in Agents : Shut(a) /\ ~Administer(a) => Shut(a)']_vars

\* A login of pair x is at one of the statements ats.
LoggingIn(x, ats) == \E t \in Threads : thread[t].at \in ats /\ thread[t].pair = x

\* Three ways to be shut out, each without a login that is past its check.
Disabled(x) ==
  /\ user[x[1]].state # "active"
  /\ ~LoggingIn(x, {"device", "reset", "session"})

ShutOut(x) == Shut(x[1]) /\ ~LoggingIn(x, {"session"})

Unbound(x) == x \notin devices /\ ~LoggingIn(x, {"reset", "session"})

NotProlonged(x) == life'[x] <= life[x]

\* Who is shut out gets no new token: once the logins under way are over, only
\* the administrator lets a disabled or blocked agent in again and only a
\* registration or replacement an unbound device, and until then no step prolongs
\* what get_current_agent still accepts.
NoNewAccess ==
  [][\A x \in Pairs :
       /\ Disabled(x) /\ ~Administer(x[1]) => Disabled(x)' /\ NotProlonged(x)
       /\ ShutOut(x) /\ ~Administer(x[1]) => ShutOut(x)' /\ NotProlonged(x)
       /\ Unbound(x) /\ x \notin devices' => Unbound(x)' /\ NotProlonged(x)]_vars

\* Tokens are not revoked, but they run out: an agent who stays disabled or
\* blocked, or a device that stays unbound from the agent, is in the end refused
\* by get_current_agent for good, also when logins were in progress.
AccessEnds ==
  \A x \in Pairs :
    (<>[](user[x[1]].state # "active") \/ <>[]Blocked(x[1]) \/ <>[](x \notin devices))
      => <>[]~Accepts(x)
===============================================================================
