-------------------------- MODULE RateLimit_proofs --------------------------
(***************************************************************************)
(* The safety properties of RateLimit.tla, for any number of concurrent    *)
(* sends and beacons, keys and crashes, and any limits and windows.        *)
(***************************************************************************)
EXTENDS RateLimit, TLAPS

\* Every budget has a scope, a positive limit and a positive window.
LEMMA ScopeFacts ==
  ASSUME NEW b \in Budgets
  PROVE  /\ ScopeOf(b) \in Scopes /\ KeyOf(b) \in Keys
         /\ Limit[ScopeOf(b)] \in Nat \ {0} /\ Window[ScopeOf(b)] \in Nat \ {0}
BY RateLimitConstants DEF Budgets, ScopeOf, Scopes, Keys

\* Separate key names: two budgets have two keys.
LEMMA KeysDiffer ==
  ASSUME NEW a \in Budgets, NEW b \in Budgets, KeyOf(a) = KeyOf(b)
  PROVE  a = b
<1>1. a = <<a[1], a[2]>> /\ b = <<b[1], b[2]>> /\ a[1] \in Scopes /\ b[1] \in Scopes
  BY DEF Budgets, Scopes
<1>2. a[2] = b[2] /\ Prefix(a[1]) = Prefix(b[1])
  BY DEF KeyOf, ScopeOf
<1>3. a[1] = b[1]
  BY <1>1, <1>2 DEF Prefix, Scopes
<1> QED
  BY <1>1, <1>2, <1>3

\* The budget a call asks for is one of Budgets, of the scope it is at.
LEMMA BudgetAtIsBudget ==
  ASSUME TypeOK, NEW c \in Calls
  PROVE  BudgetAt(c) \in Budgets /\ ScopeOf(BudgetAt(c)) = call[c].scope
<1>1. call[c].scope \in Scopes /\ call[c].print \in Prints /\ call[c].link \in PersonLinks
  BY DEF TypeOK, CallType
<1> QED
  BY <1>1 DEF BudgetAt, Budgets, ScopeOf, Scopes

\* No key, no call.
LEMMA InitIInv == Init => IInv
<1> SUFFICES ASSUME Init PROVE IInv
  OBVIOUS
<1>1. call \in [Calls -> CallType]
  BY DEF Init
<1> QED
  BY <1>1, ScopeFacts, RateLimitConstants
     DEF Init, IInv, TypeOK, CountIsExact, OnlyCrashLeavesKey, Forever, At

\* An answer moves the call and nothing else, and never to EXPIRE.
LEMMA AnswerMoves ==
  ASSUME TypeOK, NEW c \in Calls, NEW ok \in BOOLEAN, Answer(c, ok)
  PROVE  /\ call' \in [Calls -> CallType]
         /\ call'[c].pc # "expire"
         /\ \A d \in Calls \ {c} : call'[d] = call[d]
<1>1. call[c] \in CallType /\ call \in [Calls -> CallType]
  BY DEF TypeOK
<1> DEFINE pc == IF ~ ok THEN "denied" ELSE IF After(call[c].scope) = call[c].scope
                                            THEN "allowed" ELSE "incr"
           sc == IF ok THEN After(call[c].scope) ELSE call[c].scope
           K == [call[c] EXCEPT !.pc = pc, !.scope = sc]
<1>2. pc \in {"denied", "allowed", "incr"} /\ sc \in Scopes
  BY <1>1 DEF CallType, Scopes, After
<1>3. call' = [call EXCEPT ![c] = K]
  BY DEF Answer
<1> HIDE DEF pc, sc
<1>4. K \in CallType /\ K.pc = pc
  BY <1>1, <1>2 DEF CallType
<1> HIDE DEF K
<1> QED
  BY <1>1, <1>2, <1>3, <1>4

\* What is said of a key without a time to live survives the step of a call that
\* is not about to send EXPIRE to it.
LEMMA ExpirersStay ==
  ASSUME OnlyCrashLeavesKey, NEW c \in Calls, NEW k \in Keys, ~ (At(c, "expire") /\ KeyAt(c) = k),
         \A d \in Calls \ {c} : call'[d] = call[d], crashes' = crashes,
         count[k] > 0, ttl[k] = Forever, ~ crashes > 0
  PROVE  \E d \in Calls : At(d, "expire")' /\ KeyAt(d)' = k
<1>1. PICK d \in Calls : At(d, "expire") /\ KeyAt(d) = k
  BY DEF OnlyCrashLeavesKey
<1>2. d # c
  BY <1>1
<1> QED
  BY <1>1, <1>2 DEF At, KeyAt, BudgetAt

\* A call that begins sends no EXPIRE yet.
LEMMA BeginStep ==
  ASSUME IInv, NEW c \in Calls, Free(c), call'[c].pc = "incr",
         call' \in [Calls -> CallType], \A d \in Calls \ {c} : call'[d] = call[d],
         UNCHANGED <<count, ttl, passed, crashes>>
  PROVE  IInv'
<1>1. ~ At(c, "expire")
  BY DEF Free, At
<1>2. OnlyCrashLeavesKey'
  BY <1>1, ExpirersStay DEF IInv, OnlyCrashLeavesKey
<1>3. TypeOK' /\ CountIsExact'
  BY DEF IInv, TypeOK, CountIsExact
<1> QED
  BY <1>2, <1>3 DEF IInv, At

\* INCR: the key counts one more, and its budget as long as it lasts.
LEMMA IncrStep ==
  ASSUME IInv, NEW c \in Calls, Incr(c)
  PROVE  IInv'
<1> DEFINE k == KeyAt(c)
           b == BudgetAt(c)
           s == call[c].scope
           n == count[k] + 1
           ok == n <= Limit[s]
<1>0. TypeOK /\ call \in [Calls -> CallType] /\ call[c] \in CallType
  BY DEF IInv, TypeOK
<1>1. b \in Budgets /\ ScopeOf(b) = s /\ k = KeyOf(b) /\ k \in Keys /\ Limit[s] \in Nat \ {0}
  BY <1>0, BudgetAtIsBudget, ScopeFacts DEF KeyAt
<1>2. /\ count' = [count EXCEPT ![k] = IF ok THEN n ELSE Limit[s] + 1]
      /\ passed' = [passed EXCEPT ![b] = IF ok THEN passed[b] + 1 ELSE passed[b]]
      /\ IF n = 1 THEN call' = [call EXCEPT ![c].pc = "expire", ![c].ok = ok] ELSE Answer(c, ok)
      /\ UNCHANGED <<ttl, crashes>>
      /\ call[c].pc = "incr"
  BY DEF Incr, At
<1>3. count[k] \in Nat /\ passed[b] \in Nat /\ ok \in BOOLEAN
  BY <1>0, <1>1 DEF TypeOK
<1>4. /\ call' \in [Calls -> CallType]
      /\ \A d \in Calls \ {c} : call'[d] = call[d]
      /\ n = 1 => At(c, "expire")' /\ KeyAt(c)' = k /\ call'[c].ok
      /\ n # 1 => ~ At(c, "expire")'
  <2>1. CASE n = 1
    <3> DEFINE K == [call[c] EXCEPT !.pc = "expire", !.ok = ok]
    <3>1. /\ K \in CallType /\ K.pc = "expire" /\ K.scope = s /\ K.ok
          /\ K.print = call[c].print /\ K.link = call[c].link
      <4>1. ok = TRUE
        BY <1>1, <2>1
      <4> HIDE DEF ok
      <4> QED
        BY <1>0, <4>1 DEF CallType
    <3>2. call' = [call EXCEPT ![c] = K]
      BY <1>2, <2>1
    <3> HIDE DEF K
    <3> QED
      BY <1>0, <2>1, <3>1, <3>2 DEF At, KeyAt, BudgetAt
  <2>2. CASE n # 1
    BY <1>0, <1>2, <1>3, <2>2, AnswerMoves DEF At
  <2> QED
    BY <2>1, <2>2
<1>5. /\ count' \in [Keys -> Nat] /\ passed' \in [Budgets -> Nat]
      /\ \A j \in Keys \ {k} : count'[j] = count[j]
      /\ \A a \in Budgets \ {b} : passed'[a] = passed[a]
      /\ count'[k] = (IF ok THEN n ELSE Limit[s] + 1)
      /\ passed'[b] = (IF ok THEN passed[b] + 1 ELSE passed[b])
  <2> HIDE DEF k, b, s
  <2> QED
    BY <1>0, <1>1, <1>2, <1>3 DEF TypeOK
<1>6. CountIsExact'
  <2>1. passed[b] = IF count[k] <= Limit[s] THEN count[k] ELSE Limit[s]
    BY <1>1 DEF IInv, CountIsExact
  <2>2. passed'[b] = IF count'[k] <= Limit[s] THEN count'[k] ELSE Limit[s]
    BY <1>1, <1>3, <1>5, <2>1
  <2>3. \A a \in Budgets \ {b} : KeyOf(a) \in Keys \ {k}
    BY <1>1, KeysDiffer, ScopeFacts
  <2> HIDE DEF k, b, s, n, ok
  <2> QED
    BY <1>1, <1>5, <2>2, <2>3 DEF IInv, CountIsExact
<1>7. OnlyCrashLeavesKey'
  <2> SUFFICES ASSUME NEW j \in Keys, count'[j] > 0, ttl[j] = Forever, ~ crashes > 0
               PROVE  \E d \in Calls : At(d, "expire")' /\ KeyAt(d)' = j
    BY <1>2 DEF OnlyCrashLeavesKey
  <2>1. CASE n = 1 /\ j = k
    BY <1>4, <2>1
  <2>2. CASE ~ (n = 1 /\ j = k)
    <3>1. count[j] > 0
      BY <1>3, <1>5, <2>2
    <3> QED
      BY <1>2, <1>4, <3>1, ExpirersStay DEF IInv, At
  <2> QED
    BY <2>1, <2>2
<1>8. TypeOK'
  BY <1>0, <1>2, <1>4, <1>5 DEF TypeOK
<1>9. \A d \in Calls : At(d, "expire")' => call'[d].ok
  BY <1>3, <1>4 DEF IInv, At
<1> QED
  BY <1>6, <1>7, <1>8, <1>9 DEF IInv

\* EXPIRE: the key gets its scope's window, if it is still there.
LEMMA ExpireStep ==
  ASSUME IInv, NEW c \in Calls, Expire(c)
  PROVE  IInv'
<1> DEFINE k == KeyAt(c)
           b == BudgetAt(c)
<1>0. TypeOK /\ call[c] \in CallType
  BY DEF IInv, TypeOK
<1>1. /\ b \in Budgets /\ ScopeOf(b) = call[c].scope /\ k = KeyOf(b) /\ k \in Keys
      /\ Window[call[c].scope] \in Nat \ {0}
  BY <1>0, BudgetAtIsBudget, ScopeFacts DEF KeyAt
<1>2. /\ ttl' = IF count[k] > 0 THEN [ttl EXCEPT ![k] = Window[call[c].scope]] ELSE ttl
      /\ UNCHANGED <<count, passed, crashes>>
  BY DEF Expire
<1>3. /\ call' \in [Calls -> CallType] /\ \A d \in Calls \ {c} : call'[d] = call[d]
      /\ ~ At(c, "expire")'
  BY <1>0, AnswerMoves DEF Expire, CallType, At
<1> HIDE DEF k, b
<1>4. /\ ttl' \in [Keys -> Nat]
      /\ \A j \in Keys \ {k} : ttl'[j] = ttl[j]
      /\ count[k] > 0 => ttl'[k] = Window[call[c].scope]
      /\ ~ count[k] > 0 => ttl' = ttl
  BY <1>0, <1>1, <1>2 DEF TypeOK
<1>5. \A a \in Budgets : ttl'[KeyOf(a)] <= Window[ScopeOf(a)]
  <2> TAKE a \in Budgets
  <2>1. CASE a = b
    BY <1>0, <1>1, <1>4, <2>1 DEF TypeOK
  <2>2. CASE a # b
    <3>1. KeyOf(a) \in Keys \ {k}
      BY <1>1, <2>2, KeysDiffer, ScopeFacts
    <3> QED
      BY <1>0, <1>4, <3>1 DEF TypeOK
  <2> QED
    BY <2>1, <2>2
<1>6. TypeOK'
  BY <1>0, <1>2, <1>3, <1>4, <1>5 DEF TypeOK
<1>7. OnlyCrashLeavesKey'
  <2> SUFFICES ASSUME NEW j \in Keys, count[j] > 0, ttl'[j] = Forever, ~ crashes > 0
               PROVE  \E d \in Calls : At(d, "expire")' /\ KeyAt(d)' = j
    BY <1>2 DEF OnlyCrashLeavesKey
  <2>1. j # k /\ ttl[j] = Forever
    BY <1>1, <1>4 DEF Forever
  <2> QED
    BY <1>2, <1>3, <2>1, ExpirersStay DEF IInv, k
<1>8. CountIsExact'
  BY <1>2 DEF IInv, CountIsExact
<1>9. \A d \in Calls : At(d, "expire")' => call'[d].ok
  BY <1>3 DEF IInv, At
<1> QED
  BY <1>6, <1>7, <1>8, <1>9 DEF IInv

\* A tick: a key that goes takes its budget's count with it.
LEMMA TickStep ==
  ASSUME IInv, Tick
  PROVE  IInv'
<1>1. /\ count' = [k \in Keys |-> IF Due(k) THEN 0 ELSE count[k]]
      /\ passed' = [b \in Budgets |-> IF Due(KeyOf(b)) THEN 0 ELSE passed[b]]
      /\ ttl' = [k \in Keys |-> IF ttl[k] = Forever \/ Due(k) THEN Forever ELSE ttl[k] - 1]
      /\ UNCHANGED <<call, crashes>>
  BY DEF Tick
<1>2. /\ count \in [Keys -> Nat] /\ ttl \in [Keys -> Nat] /\ passed \in [Budgets -> Nat]
      /\ TypeOK
  BY DEF IInv, TypeOK
<1>3. ttl' \in [Keys -> Nat] /\ count' \in [Keys -> Nat] /\ passed' \in [Budgets -> Nat]
  BY <1>1, <1>2 DEF Forever, Due
<1>4. \A b \in Budgets : ttl'[KeyOf(b)] <= Window[ScopeOf(b)]
  BY <1>1, <1>2, ScopeFacts DEF TypeOK, Forever, Due
<1>5. TypeOK'
  BY <1>1, <1>2, <1>3, <1>4 DEF TypeOK
<1>6. CountIsExact'
  BY <1>1, ScopeFacts DEF IInv, CountIsExact
<1>7. \A k \in Keys : count'[k] > 0 /\ ttl'[k] = Forever => count[k] > 0 /\ ttl[k] = Forever
  BY <1>1, <1>2 DEF Forever, Due
<1>8. OnlyCrashLeavesKey'
  BY <1>1, <1>7 DEF IInv, OnlyCrashLeavesKey, At, KeyAt, BudgetAt
<1> QED
  BY <1>1, <1>5, <1>6, <1>8 DEF IInv, At

\* The invariant is inductive.
LEMMA IInvStep == IInv /\ [Next]_vars => IInv'
<1> SUFFICES ASSUME IInv, [Next]_vars PROVE IInv'
  OBVIOUS
<1>0. TypeOK /\ call \in [Calls -> CallType] /\ \A d \in Calls : call[d] \in CallType
  BY DEF IInv, TypeOK
<1>1. ASSUME NEW c \in Calls, NEW f \in Prints, NEW l \in PersonLinks, Begin(c, f, l)
      PROVE  IInv'
  <2>1. call' \in [Calls -> CallType] /\ call'[c].pc = "incr"
    BY <1>0, <1>1 DEF Begin, CallType, Scopes
  <2> QED
    BY <1>0, <1>1, <2>1, BeginStep DEF Begin
<1>2. ASSUME NEW c \in Calls, NEW f \in Prints, Beacon(c, f) PROVE IInv'
  <2> DEFINE K == [call[c] EXCEPT !.pc = "incr", !.scope = "trackFingerprint",
                                  !.print = f, !.ok = TRUE]
  <2>1. K \in CallType /\ K.pc = "incr"
    BY <1>0 DEF CallType, Scopes
  <2>2. call' = [call EXCEPT ![c] = K] /\ Free(c) /\ UNCHANGED <<count, ttl, passed, crashes>>
    BY <1>2 DEF Beacon
  <2> HIDE DEF K
  <2>3. /\ call' \in [Calls -> CallType] /\ call'[c].pc = "incr"
        /\ \A d \in Calls \ {c} : call'[d] = call[d]
    BY <1>0, <2>1, <2>2
  <2> QED
    BY <2>2, <2>3, BeginStep
<1>3. ASSUME NEW c \in Calls, Incr(c) PROVE IInv'
  BY <1>3, IncrStep
<1>4. ASSUME NEW c \in Calls, Expire(c) PROVE IInv'
  BY <1>4, ExpireStep
<1>5. CASE Tick
  BY <1>5, TickStep
<1>6. ASSUME NEW c \in Calls, Crash(c) PROVE IInv'
  <2> DEFINE K == [call[c] EXCEPT !.pc = "idle", !.scope = "fingerprint", !.ok = TRUE]
  <2>1. K \in CallType /\ K.pc = "idle"
    BY <1>0 DEF CallType, Scopes
  <2>2. call' = [call EXCEPT ![c] = K]
    BY <1>6 DEF Crash
  <2> HIDE DEF K
  <2>3. call' \in [Calls -> CallType] /\ \A d \in Calls : At(d, "expire")' => call'[d].ok
    BY <1>0, <2>1, <2>2 DEF IInv, At
  <2>4. crashes' \in 0..MaxCrashes /\ crashes' > 0
    BY <1>0, <1>6, RateLimitConstants DEF Crash, TypeOK
  <2> QED
    BY <1>0, <1>6, <2>3, <2>4 DEF IInv, TypeOK, CountIsExact, OnlyCrashLeavesKey, Crash
<1>7. CASE UNCHANGED vars
  BY <1>7 DEF vars, IInv, TypeOK, CountIsExact, OnlyCrashLeavesKey, At, KeyAt, BudgetAt
<1> QED
  BY <1>1, <1>2, <1>3, <1>4, <1>5, <1>6, <1>7 DEF Next

\* A budget of which every call is counted is never overdrawn.
LEMMA ExactIsAtMost == IInv => AtMostLimit
<1> SUFFICES ASSUME IInv, NEW b \in Budgets PROVE passed[b] <= Limit[ScopeOf(b)]
  BY DEF AtMostLimit
<1>1. count[KeyOf(b)] \in Nat /\ Limit[ScopeOf(b)] \in Nat
  BY ScopeFacts DEF IInv, TypeOK
<1> QED
  BY <1>1 DEF IInv, CountIsExact

\* Who is refused, is refused by INCR, and by a budget that is used up.
LEMMA RefusalStep ==
  ASSUME IInv, [Next]_vars, NEW c \in Calls, ~ At(c, "denied"), At(c, "denied")'
  PROVE  passed[BudgetAt(c)] = Limit[call[c].scope]
<1>0. TypeOK /\ call \in [Calls -> CallType] /\ call[c] \in CallType
  BY DEF IInv, TypeOK
<1>1. ASSUME NEW d \in Calls, d # c, call'[c] = call[c] PROVE FALSE
  BY <1>1 DEF At
<1>2. ASSUME NEW d \in Calls, NEW f \in Prints, NEW l \in PersonLinks, Begin(d, f, l) PROVE FALSE
  BY <1>0, <1>2 DEF Begin, At
<1>3. ASSUME NEW d \in Calls, NEW f \in Prints, Beacon(d, f) PROVE FALSE
  BY <1>0, <1>3 DEF Beacon, At, CallType
<1>4. ASSUME NEW d \in Calls, Crash(d) PROVE FALSE
  BY <1>0, <1>4 DEF Crash, At, CallType
<1>5. ASSUME NEW d \in Calls, Expire(d) PROVE FALSE
  <2>1. call[d].ok /\ call[d] \in CallType
    BY <1>0, <1>5 DEF IInv, Expire, TypeOK
  <2> QED
    BY <1>0, <1>5, <2>1 DEF Expire, Answer, At, CallType
<1>6. ASSUME NEW d \in Calls, Incr(d) PROVE passed[BudgetAt(c)] = Limit[call[c].scope]
  <2> DEFINE k == KeyAt(d)
             n == count[k] + 1
             ok == n <= Limit[call[d].scope]
  <2>1. IF n = 1 THEN call' = [call EXCEPT ![d].pc = "expire", ![d].ok = ok] ELSE Answer(d, ok)
    BY <1>6 DEF Incr
  <2>2. d = c /\ ~ ok
    BY <1>0, <2>1 DEF At, Answer, CallType
  <2>3. /\ BudgetAt(c) \in Budgets /\ ScopeOf(BudgetAt(c)) = call[c].scope
        /\ Limit[call[c].scope] \in Nat /\ count[KeyOf(BudgetAt(c))] \in Nat
    BY <1>0, BudgetAtIsBudget, ScopeFacts DEF TypeOK
  <2>4. count[KeyOf(BudgetAt(c))] >= Limit[call[c].scope]
    BY <2>2, <2>3 DEF KeyAt
  <2> QED
    BY <2>3, <2>4 DEF IInv, CountIsExact
<1>7. CASE Tick \/ UNCHANGED vars
  BY <1>7 DEF Tick, vars, At
<1> QED
  BY <1>2, <1>3, <1>4, <1>5, <1>6, <1>7 DEF Next

\* The invariant that carries the others, in every reachable state.
THEOREM Invariance == Spec => []IInv
BY InitIInv, IInvStep, PTL DEF Spec

\* Every variable keeps to its type, and no key outlives its scope's window.
THEOREM TypeInvariant == Spec => []TypeOK
BY Invariance, PTL DEF IInv

\* INCR alone decides: in no interleaving of concurrent calls is a budget
\* overdrawn before its key ends.
THEOREM LimitHolds == Spec => []AtMostLimit
BY Invariance, ExactIsAtMost, PTL

\* A counting key without a time to live has its EXPIRE on the way, unless a
\* process died between the two commands.
THEOREM KeysEnd == Spec => []OnlyCrashLeavesKey
BY Invariance, PTL DEF IInv

\* Only a used-up limit refuses: neither refused calls nor beacons cost a sender
\* anything.
THEOREM OnlyUsedUpRefuses == Spec => RefusedAtLimit
<1>1. IInv /\ [Next]_vars
        => [\A c \in Calls : ~ At(c, "denied") /\ At(c, "denied")'
              => passed[BudgetAt(c)] = Limit[call[c].scope]]_vars
  BY RefusalStep
<1> QED
  BY <1>1, Invariance, PTL DEF Spec, RefusedAtLimit
=============================================================================
