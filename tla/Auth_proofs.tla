----------------------------- MODULE Auth_proofs ------------------------------
(***************************************************************************)
(* Proofs about Auth, for every number of threads, agents, passwords and   *)
(* devices, every limit of attempts and every lifetime of tokens.          *)
(***************************************************************************)
EXTENDS Auth, FiniteSetTheorems, TLAPS

-------------------------------------------------------------------------------
(***************************************************************************)
(* Type correctness.                                                       *)
(***************************************************************************)

\* The local variables of a thread, by the statement that comes next.
LEMMA ThreadFields ==
  ASSUME TypeOK, NEW t \in Threads
  PROVE  /\ thread[t].at \in {"idle", "count", "device", "reset", "session",
                              "insert", "write"}
         /\ thread[t].at \in {"count", "write"} => thread[t].agent \in Agents
         /\ thread[t].at = "write" => thread[t].password \in Passwords
         /\ thread[t].at \in {"device", "reset", "session", "insert"}
              => /\ thread[t].pair \in Pairs
                 /\ thread[t] = [at |-> thread[t].at, pair |-> thread[t].pair]
                 /\ thread[t].pair[1] \in Agents
<1>1. thread[t] \in ThreadStates
  BY DEF TypeOK
<1>2. CASE thread[t] \in [at : {"idle"}]
  BY <1>2
<1>3. CASE thread[t] \in [at : {"count"}, agent : Agents]
  BY <1>3
<1>4. CASE thread[t] \in [at : {"device", "reset", "session", "insert"},
                          pair : Pairs]
  BY <1>4 DEF Pairs
<1>5. CASE thread[t] \in [at : {"write"}, agent : Agents, password : Passwords]
  BY <1>5
<1>6. QED
  BY <1>1, <1>2, <1>3, <1>4, <1>5 DEF ThreadStates

\* A thread that goes on to a proper statement keeps the threads well typed.
LEMMA GoesTyped ==
  ASSUME TypeOK, NEW t \in Threads, NEW n \in ThreadStates, Goes(t, n)
  PROVE  thread' \in [Threads -> ThreadStates]
  BY DEF TypeOK, Goes

LEMMA ReturnsTyped ==
  ASSUME TypeOK, NEW t \in Threads, Returns(t)
  PROVE  thread' \in [Threads -> ThreadStates]
<1>1. [at |-> "idle"] \in ThreadStates
  BY DEF ThreadStates
<1>2. QED
  BY <1>1, GoesTyped DEF Returns

LEMMA TypeInit == Init => TypeOK
<1> SUFFICES ASSUME Init PROVE TypeOK
  OBVIOUS
<1>1. user \in [Agents -> UserRows]
  <2>1. user \in [Agents -> [state : States, password : Passwords \cup {Malformed},
                             attempts : {0}]]
    BY DEF Init
  <2>2. [state : States, password : Passwords \cup {Malformed}, attempts : {0}]
          \subseteq UserRows
    BY DEF UserRows
  <2>3. QED
    BY <2>1, <2>2
<1>2. thread \in [Threads -> ThreadStates]
  BY DEF Init, ThreadStates
<1>3. life \in [Pairs -> 0..JwtExpire]
  BY LimitsAssumption DEF Init
<1>4. QED
  BY <1>1, <1>2, <1>3 DEF Init, TypeOK

LEMMA TypeCalls ==
  ASSUME TypeOK, NEW t \in Threads, Calls(t)
  PROVE  TypeOK'
<1>1. ASSUME NEW a \in Agents, NEW p \in Passwords, NEW d \in Devices,
             Login(t, a, p, d)
      PROVE  TypeOK'
  <2>1. [at |-> "device", pair |-> <<a, d>>] \in ThreadStates
    BY DEF ThreadStates, Pairs
  <2>2. [at |-> "count", agent |-> a] \in ThreadStates
    BY DEF ThreadStates
  <2>3. thread' \in [Threads -> ThreadStates]
    BY <1>1, <2>1, <2>2, GoesTyped DEF Login
  <2>4. QED
    BY <1>1, <2>3 DEF Login, TypeOK
<1>2. ASSUME NEW a \in Agents, NEW old \in Passwords, NEW new \in Passwords,
             ChangePassword(t, a, old, new)
      PROVE  TypeOK'
  <2>1. [at |-> "write", agent |-> a, password |-> new] \in ThreadStates
    BY DEF ThreadStates
  <2>2. thread' \in [Threads -> ThreadStates]
    BY <1>2, <2>1, GoesTyped DEF ChangePassword, TypeOK
  <2>3. QED
    BY <1>2, <2>2 DEF ChangePassword, TypeOK
<1>3. ASSUME NEW x \in Pairs, RegisterDevice(t, x)
      PROVE  TypeOK'
  <2>1. [at |-> "insert", pair |-> x] \in ThreadStates
    BY DEF ThreadStates
  <2>2. thread' \in [Threads -> ThreadStates]
    BY <1>3, <2>1, GoesTyped DEF RegisterDevice
  <2>3. QED
    BY <1>3, <2>2 DEF RegisterDevice, TypeOK
<1>4. QED
  BY <1>1, <1>2, <1>3 DEF Calls

LEMMA TypeProceeds ==
  ASSUME TypeOK, NEW t \in Threads, Proceeds(t)
  PROVE  TypeOK'
<1>0. /\ thread[t].at \in {"count", "write"} => thread[t].agent \in Agents
      /\ thread[t].at = "write" => thread[t].password \in Passwords
      /\ thread[t].at \in {"device", "reset", "session", "insert"}
           => /\ thread[t].pair \in Pairs
              /\ thread[t] = [at |-> thread[t].at, pair |-> thread[t].pair]
              /\ thread[t].pair[1] \in Agents
  BY ThreadFields
<1>1. CASE IncrementAttempts(t)
  <2>1. thread' \in [Threads -> ThreadStates]
    BY <1>1, ReturnsTyped DEF IncrementAttempts
  <2>2. user' \in [Agents -> UserRows] /\ wrong' \in [Agents -> Nat]
    BY <1>0, <1>1 DEF IncrementAttempts, TypeOK, UserRows
  <2>3. QED
    BY <1>1, <2>1, <2>2 DEF IncrementAttempts, TypeOK
<1>2. CASE CheckDevice(t)
  <2>1. thread[t].at = "device"
          => [thread[t] EXCEPT !.at = "reset"] \in ThreadStates
    BY <1>0 DEF ThreadStates
  <2>2. thread' \in [Threads -> ThreadStates]
    BY <1>2, <2>1, GoesTyped, ReturnsTyped DEF CheckDevice
  <2>3. QED
    BY <1>2, <2>2 DEF CheckDevice, TypeOK
<1>3. CASE ResetAttempts(t)
  <2>1. thread[t].at = "reset"
          => [thread[t] EXCEPT !.at = "session"] \in ThreadStates
    BY <1>0 DEF ThreadStates
  <2>2. thread' \in [Threads -> ThreadStates]
    BY <1>3, <2>1, GoesTyped DEF ResetAttempts
  <2>3. user' \in [Agents -> UserRows] /\ wrong' \in [Agents -> Nat]
    BY <1>0, <1>3 DEF ResetAttempts, Cleared, TypeOK, UserRows
  <2>4. QED
    BY <1>3, <2>2, <2>3 DEF ResetAttempts, TypeOK
<1>4. CASE CreateSession(t)
  <2>1. thread' \in [Threads -> ThreadStates]
    BY <1>4, ReturnsTyped DEF CreateSession
  <2>2. JwtExpire \in 0..JwtExpire
    BY LimitsAssumption
  <2>3. life' \in [Pairs -> 0..JwtExpire]
    BY <1>0, <1>4, <2>2 DEF CreateSession, TypeOK
  <2>4. QED
    BY <1>4, <2>1, <2>3 DEF CreateSession, TypeOK
<1>5. CASE WritePassword(t)
  <2>1. thread' \in [Threads -> ThreadStates]
    BY <1>5, ReturnsTyped DEF WritePassword
  <2>2. user' \in [Agents -> UserRows]
    BY <1>0, <1>5 DEF WritePassword, TypeOK, UserRows
  <2>3. QED
    BY <1>5, <2>1, <2>2 DEF WritePassword, TypeOK
<1>6. CASE InsertDevice(t)
  <2>1. thread' \in [Threads -> ThreadStates]
    BY <1>6, ReturnsTyped DEF InsertDevice
  <2>2. devices' \subseteq Pairs
    BY <1>0, <1>6 DEF InsertDevice, TypeOK
  <2>3. QED
    BY <1>6, <2>1, <2>2 DEF InsertDevice, TypeOK
<1>7. QED
  BY <1>1, <1>2, <1>3, <1>4, <1>5, <1>6 DEF Proceeds

LEMMA TypeNext == TypeOK /\ [Next]_vars => TypeOK'
<1> SUFFICES ASSUME TypeOK, [Next]_vars PROVE TypeOK'
  OBVIOUS
<1>1. ASSUME NEW t \in Threads, Calls(t) PROVE TypeOK'
  BY <1>1, TypeCalls
<1>2. ASSUME NEW t \in Threads, Proceeds(t) PROVE TypeOK'
  BY <1>2, TypeProceeds
<1>3. ASSUME NEW t \in Threads, Fails(t) PROVE TypeOK'
  BY <1>3, ReturnsTyped DEF Fails, TypeOK
<1>4. ASSUME NEW x \in Pairs, UpdateDevice(x) PROVE TypeOK'
  BY <1>4 DEF UpdateDevice, TypeOK
<1>5. ASSUME NEW a \in Agents, Administer(a) PROVE TypeOK'
  <2>1. user' \in [Agents -> UserRows]
    BY <1>5 DEF Administer, Cleared, TypeOK, UserRows, States
  <2>2. wrong' \in [Agents -> Nat]
    BY <1>5 DEF Administer, Cleared, TypeOK
  <2>3. QED
    BY <1>5, <2>1, <2>2 DEF Administer, TypeOK
<1>6. CASE Tick
  <2>1. life' \in [Pairs -> 0..JwtExpire]
    BY <1>6, LimitsAssumption DEF Tick, TypeOK
  <2>2. QED
    BY <1>6, <2>1 DEF Tick, TypeOK
<1>7. CASE UNCHANGED vars
  BY <1>7 DEF vars, TypeOK
<1>8. QED
  BY <1>1, <1>2, <1>3, <1>4, <1>5, <1>6, <1>7 DEF Next

\* No state has an ill-typed row or thread, and no token, however many logins
\* overlap, is accepted longer than JWT_EXPIRE_MINUTES after the last of them.
THEOREM TypeCorrect == Spec => []TypeOK
  BY TypeInit, TypeNext, PTL DEF Spec

-------------------------------------------------------------------------------
(***************************************************************************)
(* The bound on wrong passwords that login answers.                        *)
(***************************************************************************)

\* GuessInv for one agent.
GuessOK(a) ==
  /\ wrong[a] <= user[a].attempts
  /\ user[a].attempts + Cardinality(Counting(a)) <= MaxGuesses

\* At most every thread counts a wrong password of the same agent.
LEMMA CountingBounded ==
  ASSUME NEW a
  PROVE  /\ IsFiniteSet(Counting(a))
         /\ Cardinality(Counting(a)) \in Nat
         /\ Cardinality(Threads) \in Nat
         /\ Cardinality(Counting(a)) <= Cardinality(Threads)
<1>1. Counting(a) \in SUBSET Threads
  BY DEF Counting
<1>2. QED
  BY <1>1, ThreadsAssumption, FS_Subset, FS_CardinalityType

LEMMA CountingBoundedNext ==
  ASSUME NEW a
  PROVE  /\ IsFiniteSet(Counting(a)')
         /\ Cardinality(Counting(a)') \in Nat
         /\ Cardinality(Counting(a)') <= Cardinality(Threads)
<1>1. Counting(a)' \in SUBSET Threads
  BY DEF Counting
<1>2. QED
  BY <1>1, ThreadsAssumption, FS_Subset, FS_CardinalityType

\* Nothing is lost as long as no further thread comes to count, and the counter
\* and the wrong answers stay as they are, or are cleared together.
LEMMA GuessFrame ==
  ASSUME TypeOK, NEW a \in Agents, GuessOK(a),
         Counting(a)' \subseteq Counting(a),
         \/ user'[a].attempts = user[a].attempts /\ wrong'[a] = wrong[a]
         \/ user'[a].attempts = 0 /\ wrong'[a] = 0
  PROVE  GuessOK(a)'
<1>1. Cardinality(Counting(a)') <= Cardinality(Counting(a))
  BY CountingBounded, FS_Subset
<1>2. user[a].attempts \in Nat /\ wrong[a] \in Nat
  BY DEF TypeOK, UserRows
<1>3. MaxGuesses \in Nat /\ MaxGuesses' = MaxGuesses
  BY CountingBounded, LimitsAssumption DEF MaxGuesses
<1>4. QED
  BY <1>1, <1>2, <1>3, CountingBounded, CountingBoundedNext DEF GuessOK

\* A thread that goes anywhere but to count adds nothing to what is counted.
LEMMA CountingFrame ==
  ASSUME TypeOK, NEW t \in Threads, NEW n, NEW a, Goes(t, n), n.at # "count"
  PROVE  Counting(a)' \subseteq Counting(a)
  BY DEF TypeOK, Goes, Counting

LEMMA CountingReturns ==
  ASSUME TypeOK, NEW t \in Threads, NEW a, Returns(t)
  PROVE  Counting(a)' \subseteq Counting(a)
  BY CountingFrame DEF Returns

LEMMA CountingStays ==
  ASSUME NEW a, UNCHANGED thread
  PROVE  Counting(a)' \subseteq Counting(a)
  BY DEF Counting

LEMMA GuessInit == Init => GuessInv
<1> SUFFICES ASSUME Init, NEW a \in Agents PROVE GuessOK(a)
  BY DEF GuessInv, GuessOK
<1>1. Counting(a) = {}
  BY DEF Init, Counting
<1>2. Cardinality(Counting(a)) = 0
  BY <1>1, FS_EmptySet
<1>3. user[a].attempts = 0 /\ wrong[a] = 0
  BY DEF Init
<1>4. MaxGuesses \in Nat
  BY CountingBounded, LimitsAssumption DEF MaxGuesses
<1>5. QED
  BY <1>2, <1>3, <1>4 DEF GuessOK

\* A login that is admitted was below the limit, and there are only so many
\* threads.
LEMMA GuessLogin ==
  ASSUME TypeOK, GuessInv, NEW t \in Threads, NEW b \in Agents, NEW p, NEW d,
         Login(t, b, p, d), NEW a \in Agents
  PROVE  GuessOK(a)'
<1>1. GuessOK(a)
  BY DEF GuessInv, GuessOK
<1>2. UNCHANGED <<user, wrong>>
  BY DEF Login
<1>3. CASE Goes(t, [at |-> "device", pair |-> <<b, d>>])
  BY <1>1, <1>2, <1>3, CountingFrame, GuessFrame
<1>4. CASE Goes(t, [at |-> "count", agent |-> b]) /\ a # b
  <2>1. Counting(a)' \subseteq Counting(a)
    BY <1>4 DEF TypeOK, Goes, Counting
  <2>2. QED
    BY <1>1, <1>2, <2>1, GuessFrame
<1>5. CASE a = b
  <2>1. user[a].attempts \in Nat /\ wrong[a] \in Nat
    BY DEF TypeOK, UserRows
  <2>2. user[a].attempts < MaxAttempts
    BY <1>5, <2>1, LimitsAssumption DEF Login, Admitted, Blocked
  <2>3. user[a].attempts <= MaxAttempts - 1
    BY <2>1, <2>2, LimitsAssumption
  <2>4. MaxGuesses' = MaxGuesses
    BY DEF MaxGuesses
  <2>5. QED
    BY <1>1, <1>2, <2>1, <2>3, <2>4, CountingBounded, CountingBoundedNext,
       LimitsAssumption DEF GuessOK, MaxGuesses
<1>6. QED
  BY <1>3, <1>4, <1>5 DEF Login

\* The thread that counts is one less that has yet to count.
LEMMA GuessIncrement ==
  ASSUME TypeOK, GuessInv, NEW t \in Threads, IncrementAttempts(t),
         NEW a \in Agents
  PROVE  GuessOK(a)'
<1>1. GuessOK(a)
  BY DEF GuessInv, GuessOK
<1>2. thread[t].at = "count" /\ thread[t].agent \in Agents
  BY ThreadFields DEF IncrementAttempts
<1>3. CASE thread[t].agent # a
  <2>1. Counting(a)' \subseteq Counting(a)
    BY CountingReturns DEF IncrementAttempts
  <2>2. user'[a].attempts = user[a].attempts /\ wrong'[a] = wrong[a]
    BY <1>2, <1>3 DEF IncrementAttempts, TypeOK
  <2>3. QED
    BY <1>1, <2>1, <2>2, GuessFrame
<1>4. CASE thread[t].agent = a
  <2>1. t \in Counting(a)
    BY <1>2, <1>4 DEF Counting
  <2>2. Counting(a)' = Counting(a) \ {t}
    BY <1>2, <1>4 DEF IncrementAttempts, Returns, Goes, Counting, TypeOK
  <2>3. Cardinality(Counting(a)') = Cardinality(Counting(a)) - 1
    BY <2>1, <2>2, CountingBounded, FS_RemoveElement
  <2>4. user'[a].attempts = user[a].attempts + 1 /\ wrong'[a] = wrong[a] + 1
    BY <1>2, <1>4 DEF IncrementAttempts, TypeOK, UserRows
  <2>5. user[a].attempts \in Nat /\ wrong[a] \in Nat
    BY DEF TypeOK, UserRows
  <2>6. MaxGuesses \in Nat /\ MaxGuesses' = MaxGuesses
    BY CountingBounded, LimitsAssumption DEF MaxGuesses
  <2>7. QED
    BY <1>1, <2>3, <2>4, <2>5, <2>6, CountingBounded DEF GuessOK
<1>5. QED
  BY <1>3, <1>4

LEMMA GuessNext == TypeOK /\ GuessInv /\ [Next]_vars => GuessInv'
<1> SUFFICES ASSUME TypeOK, GuessInv, [Next]_vars, NEW a \in Agents
             PROVE  GuessOK(a)'
  BY DEF GuessInv, GuessOK
<1>1. GuessOK(a)
  BY DEF GuessInv, GuessOK
<1>2. ASSUME UNCHANGED <<user, wrong>>, Counting(a)' \subseteq Counting(a)
      PROVE  GuessOK(a)'
  BY <1>1, <1>2, GuessFrame
<1>3. ASSUME NEW t \in Threads, Calls(t)
      PROVE  GuessOK(a)'
  <2>1. ASSUME NEW b \in Agents, NEW p \in Passwords, NEW d \in Devices,
               Login(t, b, p, d)
        PROVE  GuessOK(a)'
    BY <2>1, GuessLogin
  <2>2. ASSUME NEW b \in Agents, NEW old \in Passwords, NEW new \in Passwords,
               ChangePassword(t, b, old, new)
        PROVE  GuessOK(a)'
    BY <1>2, <2>2, CountingFrame, CountingStays DEF ChangePassword
  <2>3. ASSUME NEW x \in Pairs, RegisterDevice(t, x)
        PROVE  GuessOK(a)'
    BY <1>2, <2>3, CountingFrame DEF RegisterDevice
  <2>4. QED
    BY <1>3, <2>1, <2>2, <2>3 DEF Calls
<1>4. ASSUME NEW t \in Threads, Proceeds(t)
      PROVE  GuessOK(a)'
  <2>1. CASE IncrementAttempts(t)
    BY <2>1, GuessIncrement
  <2>2. CASE CheckDevice(t)
    <3>1. [thread[t] EXCEPT !.at = "reset"].at # "count"
      BY <2>2, ThreadFields DEF CheckDevice
    <3>2. Counting(a)' \subseteq Counting(a)
      BY <2>2, <3>1, CountingFrame, CountingReturns DEF CheckDevice
    <3>3. QED
      BY <1>2, <2>2, <3>2 DEF CheckDevice
  <2>3. CASE ResetAttempts(t)
    <3>1. thread[t].at = "reset"
      BY <2>3 DEF ResetAttempts
    <3>2. thread[t].pair[1] \in Agents
          /\ [thread[t] EXCEPT !.at = "session"].at # "count"
      BY <3>1, ThreadFields
    <3>3. Counting(a)' \subseteq Counting(a)
      BY <2>3, <3>2, CountingFrame DEF ResetAttempts
    <3>4. \/ user'[a].attempts = user[a].attempts /\ wrong'[a] = wrong[a]
          \/ user'[a].attempts = 0 /\ wrong'[a] = 0
      BY <2>3, <3>2 DEF ResetAttempts, Cleared, TypeOK, UserRows
    <3>5. QED
      BY <1>1, <3>3, <3>4, GuessFrame
  <2>4. CASE CreateSession(t)
    BY <1>2, <2>4, CountingReturns DEF CreateSession
  <2>5. CASE WritePassword(t)
    <3>1. Counting(a)' \subseteq Counting(a)
      BY <2>5, CountingReturns DEF WritePassword
    <3>2. user'[a].attempts = user[a].attempts /\ wrong'[a] = wrong[a]
      BY <2>5 DEF WritePassword, TypeOK, UserRows
    <3>3. QED
      BY <1>1, <3>1, <3>2, GuessFrame
  <2>6. CASE InsertDevice(t)
    BY <1>2, <2>6, CountingReturns DEF InsertDevice
  <2>7. QED
    BY <1>4, <2>1, <2>2, <2>3, <2>4, <2>5, <2>6 DEF Proceeds
<1>5. ASSUME NEW t \in Threads, Fails(t)
      PROVE  GuessOK(a)'
  BY <1>2, <1>5, CountingReturns DEF Fails
<1>6. ASSUME NEW x \in Pairs, UpdateDevice(x)
      PROVE  GuessOK(a)'
  BY <1>2, <1>6, CountingStays DEF UpdateDevice
<1>7. ASSUME NEW b \in Agents, Administer(b)
      PROVE  GuessOK(a)'
  <2>1. Counting(a)' \subseteq Counting(a)
    BY <1>7, CountingStays DEF Administer
  <2>2. \/ user'[a].attempts = user[a].attempts /\ wrong'[a] = wrong[a]
        \/ user'[a].attempts = 0 /\ wrong'[a] = 0
    BY <1>7 DEF Administer, Cleared, TypeOK, UserRows
  <2>3. QED
    BY <1>1, <2>1, <2>2, GuessFrame
<1>8. CASE Tick
  BY <1>2, <1>8, CountingStays DEF Tick
<1>9. CASE UNCHANGED vars
  BY <1>2, <1>9, CountingStays DEF vars
<1>10. QED
  BY <1>3, <1>4, <1>5, <1>6, <1>7, <1>8, <1>9 DEF Next

\* The counter of an account and the logins that have yet to count on it never
\* exceed the limit together, but for the threads that had read it before.
THEOREM GuessInvariant == Spec => []GuessInv
  BY TypeInit, TypeNext, GuessInit, GuessNext, PTL DEF Spec

\* Between two resets, however many logins overlap, login answers for an agent
\* that a password is wrong at most MAX_ATTEMPTS - 1 times plus once per thread.
\* (change_password, which the counter does not concern, is not included.)
THEOREM LoginGuessesAreBounded == Spec => []LoginGuessesBounded
<1>1. TypeOK /\ GuessInv => LoginGuessesBounded
  <2> SUFFICES ASSUME TypeOK, GuessInv, NEW a \in Agents
               PROVE  wrong[a] <= MaxGuesses
    BY DEF LoginGuessesBounded
  <2>1. /\ wrong[a] <= user[a].attempts
        /\ user[a].attempts + Cardinality(Counting(a)) <= MaxGuesses
    BY DEF GuessInv
  <2>2. user[a].attempts \in Nat /\ wrong[a] \in Nat
    BY DEF TypeOK, UserRows
  <2>3. MaxGuesses \in Nat
    BY CountingBounded, LimitsAssumption DEF MaxGuesses
  <2>4. QED
    BY <2>1, <2>2, <2>3, CountingBounded
<1>2. QED
  BY <1>1, TypeCorrect, GuessInvariant, PTL

-------------------------------------------------------------------------------
(***************************************************************************)
(* Blocked accounts.                                                       *)
(***************************************************************************)

\* One step cannot open a blocked account, unless the administrator takes it.
LEMMA ShutStays ==
  ASSUME TypeOK, [Next]_vars, NEW a \in Agents, Shut(a), ~Administer(a)
  PROVE  Shut(a)'
<1> DEFINE Past(t) == thread[t].at \in {"device", "reset"} /\ thread[t].pair[1] = a
<1>1. Blocked(a) /\ \A t \in Threads : ~Past(t)
  BY DEF Shut
<1>2. ASSUME Blocked(a)', \A t \in Threads : ~Past(t)'
      PROVE  Shut(a)'
  BY <1>2 DEF Shut
<1>3. ASSUME UNCHANGED user PROVE Blocked(a)'
  BY <1>1, <1>3 DEF Blocked
<1>4. ASSUME UNCHANGED thread PROVE \A t \in Threads : ~Past(t)'
  BY <1>1, <1>4
<1>5. ASSUME NEW t \in Threads, NEW n, Goes(t, n),
             ~(n.at \in {"device", "reset"} /\ n.pair[1] = a)
      PROVE  \A s \in Threads : ~Past(s)'
  BY <1>1, <1>5 DEF Goes, TypeOK
<1>6. ASSUME NEW t \in Threads, Returns(t)
      PROVE  \A s \in Threads : ~Past(s)'
  BY <1>5, <1>6 DEF Returns
<1>7. ASSUME NEW t \in Threads, Calls(t) PROVE Shut(a)'
  <2>1. ASSUME NEW b \in Agents, NEW p \in Passwords, NEW d \in Devices,
               Login(t, b, p, d)
        PROVE  Shut(a)'
    <3>1. b # a
      BY <1>1, <2>1 DEF Login, Admitted
    <3>2. \A s \in Threads : ~Past(s)'
      <4>1. CASE Goes(t, [at |-> "device", pair |-> <<b, d>>])
        BY <1>5, <3>1, <4>1
      <4>2. CASE Goes(t, [at |-> "count", agent |-> b])
        BY <1>5, <4>2
      <4>3. QED
        BY <2>1, <4>1, <4>2 DEF Login
    <3>3. QED
      BY <1>2, <1>3, <2>1, <3>2 DEF Login
  <2>2. ASSUME NEW b \in Agents, NEW old \in Passwords, NEW new \in Passwords,
               ChangePassword(t, b, old, new)
        PROVE  Shut(a)'
    BY <1>2, <1>3, <1>4, <1>5, <2>2 DEF ChangePassword
  <2>3. ASSUME NEW x \in Pairs, RegisterDevice(t, x)
        PROVE  Shut(a)'
    BY <1>2, <1>3, <1>5, <2>3 DEF RegisterDevice
  <2>4. QED
    BY <1>7, <2>1, <2>2, <2>3 DEF Calls
<1>8. ASSUME NEW t \in Threads, Proceeds(t) PROVE Shut(a)'
  <2>1. CASE IncrementAttempts(t)
    <3>1. thread[t].agent \in Agents
      BY <2>1, ThreadFields DEF IncrementAttempts
    <3>2. Blocked(a)'
      BY <1>1, <2>1, <3>1, LimitsAssumption
         DEF IncrementAttempts, Blocked, TypeOK, UserRows
    <3>3. QED
      BY <1>2, <1>6, <2>1, <3>2 DEF IncrementAttempts
  <2>2. CASE CheckDevice(t)
    <3>1. /\ thread[t].pair[1] # a
          /\ [thread[t] EXCEPT !.at = "reset"].pair = thread[t].pair
      BY <1>1, <2>2, ThreadFields DEF CheckDevice
    <3>2. \A s \in Threads : ~Past(s)'
      <4>1. CASE Goes(t, [thread[t] EXCEPT !.at = "reset"])
        BY <1>5, <3>1, <4>1
      <4>2. CASE Returns(t)
        BY <1>6, <4>2
      <4>3. QED
        BY <2>2, <4>1, <4>2 DEF CheckDevice
    <3>3. QED
      BY <1>2, <1>3, <2>2, <3>2 DEF CheckDevice
  <2>3. CASE ResetAttempts(t)
    <3>1. thread[t].at = "reset"
      BY <2>3 DEF ResetAttempts
    <3>2. thread[t].pair[1] # a
      BY <1>1, <3>1
    <3>3. /\ thread[t].pair[1] \in Agents
          /\ thread[t] = [at |-> "reset", pair |-> thread[t].pair]
      BY <3>1, ThreadFields
    <3>4. [thread[t] EXCEPT !.at = "session"].at = "session"
      BY <3>3
    <3>5. \A s \in Threads : ~Past(s)'
      BY <1>5, <2>3, <3>4 DEF ResetAttempts
    <3>6. Blocked(a)'
      BY <1>1, <2>3, <3>2, <3>3 DEF ResetAttempts, Cleared, Blocked, TypeOK
    <3>7. QED
      BY <1>2, <3>5, <3>6
  <2>4. CASE CreateSession(t)
    BY <1>2, <1>3, <1>6, <2>4 DEF CreateSession
  <2>5. CASE WritePassword(t)
    <3>1. Blocked(a)'
      BY <1>1, <2>5 DEF WritePassword, Blocked, TypeOK, UserRows
    <3>2. QED
      BY <1>2, <1>6, <2>5, <3>1 DEF WritePassword
  <2>6. CASE InsertDevice(t)
    BY <1>2, <1>3, <1>6, <2>6 DEF InsertDevice
  <2>7. QED
    BY <1>8, <2>1, <2>2, <2>3, <2>4, <2>5, <2>6 DEF Proceeds
<1>9. ASSUME NEW t \in Threads, Fails(t) PROVE Shut(a)'
  BY <1>2, <1>3, <1>6, <1>9 DEF Fails
<1>10. ASSUME NEW x \in Pairs, UpdateDevice(x) PROVE Shut(a)'
  BY <1>2, <1>3, <1>4, <1>10 DEF UpdateDevice
<1>11. ASSUME NEW b \in Agents, Administer(b), b # a PROVE Shut(a)'
  <2>1. Blocked(a)'
    BY <1>1, <1>11 DEF Administer, Cleared, Blocked, TypeOK
  <2>2. QED
    BY <1>2, <1>4, <1>11, <2>1 DEF Administer
<1>12. CASE Tick \/ UNCHANGED vars
  BY <1>2, <1>3, <1>4, <1>12 DEF Tick, vars
<1>13. QED
  BY <1>7, <1>8, <1>9, <1>10, <1>11, <1>12 DEF Next

\* "Contactez l'administrateur": once the logins that had read the counter are
\* over, nothing but the administrator opens a blocked account again.
THEOREM BlockedStaysShut == Spec => BlockedIsFinal
<1>1. TypeOK /\ [Next]_vars
        => [\A a \in Agents : Shut(a) /\ ~Administer(a) => Shut(a)']_vars
  BY ShutStays
<1>2. QED
  BY <1>1, TypeCorrect, PTL DEF Spec, BlockedIsFinal

-------------------------------------------------------------------------------
(***************************************************************************)
(* Access.                                                                 *)
(***************************************************************************)

\* How a thread comes to be in the middle of a login of pair x: it was there
\* already, or it has just passed the check that admits it to this statement.
LEMMA LoginMoves ==
  ASSUME TypeOK, [Next]_vars, NEW x \in Pairs, NEW s \in Threads,
         thread'[s].at \in {"device", "reset", "session"}, thread'[s].pair = x
  PROVE  \/ thread'[s] = thread[s]
         \/ thread'[s].at = "device" /\ Admitted(x[1])
         \/ /\ thread'[s].at = "reset" /\ Registered(x)
            /\ thread[s].at = "device" /\ thread[s].pair = x
         \/ /\ thread'[s].at = "session"
            /\ thread[s].at = "reset" /\ thread[s].pair = x
<1> DEFINE Goal == \/ thread'[s] = thread[s]
                   \/ thread'[s].at = "device" /\ Admitted(x[1])
                   \/ /\ thread'[s].at = "reset" /\ Registered(x)
                      /\ thread[s].at = "device" /\ thread[s].pair = x
                   \/ /\ thread'[s].at = "session"
                      /\ thread[s].at = "reset" /\ thread[s].pair = x
<1>1. ASSUME NEW t \in Threads, NEW n, Goes(t, n)
      PROVE  thread'[s] = thread[s] \/ (t = s /\ thread'[s] = n)
  BY <1>1 DEF Goes, TypeOK
<1>2. ASSUME NEW t \in Threads, NEW n, Goes(t, n),
             n.at \notin {"device", "reset", "session"}
      PROVE  Goal
  BY <1>1, <1>2
<1>3. ASSUME NEW t \in Threads, Returns(t) PROVE Goal
  BY <1>2, <1>3 DEF Returns
<1>4. ASSUME NEW t \in Threads, Calls(t) PROVE Goal
  <2>1. ASSUME NEW b \in Agents, NEW p \in Passwords, NEW d \in Devices,
               Login(t, b, p, d)
        PROVE  Goal
    <3>1. CASE Goes(t, [at |-> "device", pair |-> <<b, d>>])
      BY <1>1, <2>1, <3>1 DEF Login
    <3>2. CASE Goes(t, [at |-> "count", agent |-> b])
      BY <1>2, <3>2
    <3>3. QED
      BY <2>1, <3>1, <3>2 DEF Login
  <2>2. ASSUME NEW b \in Agents, NEW old \in Passwords, NEW new \in Passwords,
               ChangePassword(t, b, old, new)
        PROVE  Goal
    <3>1. CASE Goes(t, [at |-> "write", agent |-> b, password |-> new])
      BY <1>2, <3>1
    <3>2. CASE UNCHANGED thread
      BY <3>2
    <3>3. QED
      BY <2>2, <3>1, <3>2 DEF ChangePassword
  <2>3. ASSUME NEW y \in Pairs, RegisterDevice(t, y) PROVE Goal
    BY <1>2, <2>3 DEF RegisterDevice
  <2>4. QED
    BY <1>4, <2>1, <2>2, <2>3 DEF Calls
<1>5. ASSUME NEW t \in Threads, Proceeds(t) PROVE Goal
  <2>1. CASE CheckDevice(t)
    <3> DEFINE n == [thread[t] EXCEPT !.at = "reset"]
    <3>1. n.at = "reset" /\ n.pair = thread[t].pair
      <4>1. thread[t] = [at |-> thread[t].at, pair |-> thread[t].pair]
        BY <2>1, ThreadFields DEF CheckDevice
      <4>2. QED
        BY <4>1
    <3>2. CASE Registered(thread[t].pair) /\ Goes(t, n)
      BY <1>1, <2>1, <3>1, <3>2 DEF CheckDevice
    <3>3. QED
      BY <1>3, <2>1, <3>2 DEF CheckDevice
  <2>2. CASE ResetAttempts(t)
    <3> DEFINE n == [thread[t] EXCEPT !.at = "session"]
    <3>1. n.at = "session" /\ n.pair = thread[t].pair
      <4>1. thread[t] = [at |-> thread[t].at, pair |-> thread[t].pair]
        BY <2>2, ThreadFields DEF ResetAttempts
      <4>2. QED
        BY <4>1
    <3>2. QED
      BY <1>1, <2>2, <3>1 DEF ResetAttempts
  <2>3. QED
    BY <1>3, <1>5, <2>1, <2>2
       DEF Proceeds, IncrementAttempts, CreateSession, WritePassword, InsertDevice
<1>6. ASSUME NEW t \in Threads, Fails(t) PROVE Goal
  BY <1>3, <1>6 DEF Fails
<1>7. CASE UNCHANGED thread
  BY <1>7
<1>8. QED
  BY <1>4, <1>5, <1>6, <1>7 DEF Next, UpdateDevice, Administer, Tick, vars

\* Only the last step of a login prolongs the access of its pair.
LEMMA Prolonged ==
  ASSUME TypeOK, [Next]_vars, NEW x \in Pairs, ~LoggingIn(x, {"session"})
  PROVE  NotProlonged(x)
<1>1. life[x] \in Nat
  BY LimitsAssumption DEF TypeOK
<1>2. ASSUME UNCHANGED life PROVE NotProlonged(x)
  BY <1>1, <1>2 DEF NotProlonged
<1>3. ASSUME NEW t \in Threads, CreateSession(t) PROVE NotProlonged(x)
  <2>1. thread[t].pair # x
    BY <1>3 DEF LoggingIn, CreateSession
  <2>2. life'[x] = life[x]
    BY <1>3, <2>1 DEF CreateSession, TypeOK
  <2>3. QED
    BY <1>1, <2>2 DEF NotProlonged
<1>4. CASE Tick
  BY <1>1, <1>4 DEF Tick, NotProlonged
<1>5. ASSUME NEW t \in Threads, Calls(t) PROVE UNCHANGED life
  BY <1>5 DEF Calls, Login, ChangePassword, RegisterDevice
<1>6. ASSUME NEW t \in Threads, Proceeds(t), ~CreateSession(t)
      PROVE  UNCHANGED life
  BY <1>6 DEF Proceeds, IncrementAttempts, CheckDevice, ResetAttempts,
              WritePassword, InsertDevice
<1>7. QED
  BY <1>2, <1>3, <1>4, <1>5, <1>6 DEF Next, Fails, UpdateDevice, Administer, vars

\* Only the administrator changes Etat.
LEMMA StateKept ==
  ASSUME TypeOK, [Next]_vars, NEW a \in Agents, ~Administer(a)
  PROVE  user'[a].state = user[a].state
<1>1. ASSUME NEW b \in Agents, Cleared(b) PROVE user'[a].state = user[a].state
  BY <1>1 DEF Cleared, TypeOK, UserRows
<1>2. ASSUME NEW t \in Threads, Proceeds(t)
      PROVE  user'[a].state = user[a].state
  <2>1. CASE IncrementAttempts(t)
    BY <2>1, ThreadFields DEF IncrementAttempts, TypeOK, UserRows
  <2>2. CASE ResetAttempts(t)
    BY <1>1, <2>2, ThreadFields DEF ResetAttempts
  <2>3. CASE WritePassword(t)
    BY <2>3, ThreadFields DEF WritePassword, TypeOK, UserRows
  <2>4. QED
    BY <1>2, <2>1, <2>2, <2>3 DEF Proceeds, CheckDevice, CreateSession, InsertDevice
<1>3. ASSUME NEW b \in Agents, Administer(b)
      PROVE  user'[a].state = user[a].state
  BY <1>1, <1>3 DEF Administer, TypeOK
<1>4. ASSUME NEW t \in Threads, Calls(t) PROVE UNCHANGED user
  BY <1>4 DEF Calls, Login, ChangePassword, RegisterDevice
<1>5. QED
  BY <1>2, <1>3, <1>4 DEF Next, Fails, UpdateDevice, Tick, vars

\* A disabled agent, a blocked one and an unbound device get no new token, in any
\* interleaving of the statements of logins, registrations and replacements.
THEOREM NoNewAccessEver == Spec => NoNewAccess
<1>1. ASSUME TypeOK, [Next]_vars, NEW x \in Pairs
      PROVE  /\ Disabled(x) /\ ~Administer(x[1]) => Disabled(x)' /\ NotProlonged(x)
             /\ ShutOut(x) /\ ~Administer(x[1]) => ShutOut(x)' /\ NotProlonged(x)
             /\ Unbound(x) /\ x \notin devices' => Unbound(x)' /\ NotProlonged(x)
  <2>1. x[1] \in Agents
    BY DEF Pairs
  <2>2. ASSUME Disabled(x), ~Administer(x[1])
        PROVE  Disabled(x)' /\ NotProlonged(x)
    <3>1. user'[x[1]].state # "active"
      BY <1>1, <2>1, <2>2, StateKept DEF Disabled
    <3>2. ~LoggingIn(x, {"device", "reset", "session"})'
      BY <1>1, <2>2, LoginMoves DEF Disabled, LoggingIn, Admitted
    <3>3. ~LoggingIn(x, {"session"})
      BY <2>2 DEF Disabled, LoggingIn
    <3>4. QED
      BY <1>1, <3>1, <3>2, <3>3, Prolonged DEF Disabled
  <2>3. ASSUME ShutOut(x), ~Administer(x[1])
        PROVE  ShutOut(x)' /\ NotProlonged(x)
    <3>1. Shut(x[1])'
      BY <1>1, <2>1, <2>3, ShutStays DEF ShutOut
    <3>2. ~LoggingIn(x, {"session"})'
      BY <1>1, <2>3, LoginMoves DEF ShutOut, Shut, LoggingIn
    <3>3. QED
      BY <1>1, <2>3, <3>1, <3>2, Prolonged DEF ShutOut
  <2>4. ASSUME Unbound(x), x \notin devices'
        PROVE  Unbound(x)' /\ NotProlonged(x)
    <3>1. ~LoggingIn(x, {"reset", "session"})'
      BY <1>1, <2>4, LoginMoves DEF Unbound, LoggingIn, Registered
    <3>2. ~LoggingIn(x, {"session"})
      BY <2>4 DEF Unbound, LoggingIn
    <3>3. QED
      BY <1>1, <2>4, <3>1, <3>2, Prolonged DEF Unbound
  <2>5. QED
    BY <2>2, <2>3, <2>4
<1>2. TypeOK /\ [Next]_vars
        => [\A x \in Pairs :
              /\ Disabled(x) /\ ~Administer(x[1]) => Disabled(x)' /\ NotProlonged(x)
              /\ ShutOut(x) /\ ~Administer(x[1]) => ShutOut(x)' /\ NotProlonged(x)
              /\ Unbound(x) /\ x \notin devices'
                   => Unbound(x)' /\ NotProlonged(x)]_vars
  BY <1>1
<1>3. QED
  BY <1>2, TypeCorrect, PTL DEF Spec, NoNewAccess
===============================================================================
