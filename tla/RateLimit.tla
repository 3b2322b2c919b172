----------------------------- MODULE RateLimit ------------------------------
(***************************************************************************)
(* The fixed-window limiter of core/rate_limit.py: INCR, then EXPIRE by    *)
(* the call that counted to one, as check_send_rate_limits runs it over    *)
(* the fingerprint's, the link's and the global key of a send, and         *)
(* check_track_rate_limit over two keys of a page's analytics beacon.      *)
(* Calls of the two web processes interleave between any two Redis         *)
(* commands.  Time is a clock of ticks; Redis deletes a key when its time  *)
(* to live runs out, and a key without one never.                          *)
(***************************************************************************)
EXTENDS Naturals, FiniteSets

CONSTANTS
  Calls,      \* sends and beacons in flight at the same time
  Prints,     \* sender fingerprints
  PersonLinks,\* links they send to
  Limit,      \* Limit[s]: calls let through per window, for scope s
  Window,     \* Window[s]: its window, in ticks
  MaxCrashes  \* bounds how often a web process dies

Scopes == {"fingerprint", "link", "global", "trackFingerprint", "trackGlobal"}

ASSUME RateLimitConstants ==
  /\ Limit \in [Scopes -> Nat \ {0}]
  /\ Window \in [Scopes -> Nat \ {0}]
  /\ MaxCrashes \in Nat
  /\ IsFiniteSet(Calls)

\* What a limit is about: one fingerprint's, one link's or everybody's calls of
\* one kind.
Budgets == {<<x, f>> : x \in {"fingerprint", "trackFingerprint"}, f \in Prints}
             \cup {<<"link", l>> : l \in PersonLinks}
             \cup {<<x, "all">> : x \in {"global", "trackGlobal"}}
ScopeOf(b) == b[1]

\* Mutant: beacons count on the keys of the sends.
MutSharedKeys(x) ==
  CASE x \in {"fingerprint", "trackFingerprint"} -> "rl:fp"
    [] x = "link" -> "rl:link"
    [] x \in {"global", "trackGlobal"} -> "rl:global:send"

\* The key names of the five calls of _check_window.
Prefix(x) ==
  CASE x = "fingerprint" -> "rl:fp"        [] x = "trackFingerprint" -> "rl:track:fp"
    [] x = "link" -> "rl:link"
    [] x = "global" -> "rl:global:send"    [] x = "trackGlobal" -> "rl:track:global"
KeyOf(b) == <<Prefix(ScopeOf(b)), b[2]>>
Keys == {KeyOf(b) : b \in Budgets}

Forever == 0   \* TTL of a key that has none

VARIABLES
  count,   \* count[k]: value of key k, 0 while there is no such key; all
           \* values above the limit are one, Limit + 1
  ttl,     \* ttl[k]: ticks until Redis deletes k, or Forever
  passed,  \* passed[b]: calls let through on budget b since its key was created
  call,    \* call[c]: where call c is, for whom, and how it ended
  crashes

vars == <<count, ttl, passed, call, crashes>>

CallType == [pc : {"idle", "incr", "expire", "allowed", "denied"},
             scope : Scopes, print : Prints, link : PersonLinks, ok : BOOLEAN]

Init ==
  /\ count = [k \in Keys |-> 0]
  /\ ttl = [k \in Keys |-> Forever]
  /\ passed = [b \in Budgets |-> 0]
  /\ call \in [Calls -> {x \in CallType : x.pc = "idle" /\ x.scope = "fingerprint" /\ x.ok}]
  /\ crashes = 0

-----------------------------------------------------------------------------
At(c, pc) == call[c].pc = pc

\* The budget a call asks for in its present scope, and its key.
BudgetAt(c) ==
  <<call[c].scope, CASE call[c].scope = "link" -> call[c].link
                     [] call[c].scope \in {"global", "trackGlobal"} -> "all"
                     [] OTHER -> call[c].print>>
KeyAt(c) == KeyOf(BudgetAt(c))

\* After a key has answered: the first refusal ends the call, with its scope,
\* and the keys after it are not touched.
After(x) == CASE x = "fingerprint" -> "link" [] x = "link" -> "global"
              [] x = "trackFingerprint" -> "trackGlobal" [] OTHER -> x

Answer(c, ok) ==
  LET x == call[c].scope IN
  call' = [call EXCEPT
    ![c].pc = IF ~ ok THEN "denied" ELSE IF After(x) = x THEN "allowed" ELSE "incr",
    ![c].scope = IF ok THEN After(x) ELSE x]

Free(c) == call[c].pc \in {"idle", "allowed", "denied"}

\* A send reaches the limiter.
Begin(c, f, l) ==
  /\ Free(c)
  /\ call' = [call EXCEPT ![c] = [pc |-> "incr", scope |-> "fingerprint",
                                  print |-> f, link |-> l, ok |-> TRUE]]
  /\ UNCHANGED <<count, ttl, passed, crashes>>

\* sender_track_event, for a body with an event of the allow-list; any other is
\* ignored before the limiter is asked.
Beacon(c, f) ==
  /\ Free(c)
  /\ call' = [call EXCEPT ![c] = [@ EXCEPT !.pc = "incr", !.scope = "trackFingerprint",
                                           !.print = f, !.ok = TRUE]]
  /\ UNCHANGED <<count, ttl, passed, crashes>>

\* Mutants: one call too many; no EXPIRE; EXPIRE by every call.
MutIncrOffByOne(c) ==
  /\ At(c, "incr")
  /\ LET k  == KeyAt(c)
         n  == count[k] + 1
         ok == n <= Limit[call[c].scope] + 1 IN
     /\ count' = [count EXCEPT ![k] = IF ok THEN n ELSE Limit[call[c].scope] + 1]
     /\ passed' = [passed EXCEPT ![BudgetAt(c)] = IF ok THEN @ + 1 ELSE @]
     /\ IF n = 1 THEN call' = [call EXCEPT ![c].pc = "expire", ![c].ok = ok]
                 ELSE Answer(c, ok)
  /\ UNCHANGED <<ttl, crashes>>
MutIncrOnly(c) ==
  /\ At(c, "incr")
  /\ LET k  == KeyAt(c)
         n  == count[k] + 1
         ok == n <= Limit[call[c].scope] IN
     /\ count' = [count EXCEPT ![k] = IF ok THEN n ELSE Limit[call[c].scope] + 1]
     /\ passed' = [passed EXCEPT ![BudgetAt(c)] = IF ok THEN @ + 1 ELSE @]
     /\ Answer(c, ok)
  /\ UNCHANGED <<ttl, crashes>>
MutExpireAlways(c) ==
  /\ At(c, "incr")
  /\ LET k  == KeyAt(c)
         n  == count[k] + 1
         ok == n <= Limit[call[c].scope] IN
     /\ count' = [count EXCEPT ![k] = IF ok THEN n ELSE Limit[call[c].scope] + 1]
     /\ passed' = [passed EXCEPT ![BudgetAt(c)] = IF ok THEN @ + 1 ELSE @]
     /\ call' = [call EXCEPT ![c].pc = "expire", ![c].ok = ok]
  /\ UNCHANGED <<ttl, crashes>>

\* _check_window: count = INCR; a count of one still has EXPIRE to do.
Incr(c) ==
  /\ At(c, "incr")
  /\ LET k  == KeyAt(c)
         n  == count[k] + 1
         ok == n <= Limit[call[c].scope] IN
     /\ count' = [count EXCEPT ![k] = IF ok THEN n ELSE Limit[call[c].scope] + 1]
     /\ passed' = [passed EXCEPT ![BudgetAt(c)] = IF ok THEN @ + 1 ELSE @]
     /\ IF n = 1 THEN call' = [call EXCEPT ![c].pc = "expire", ![c].ok = ok]
                 ELSE Answer(c, ok)
  /\ UNCHANGED <<ttl, crashes>>

\* _check_window: EXPIRE, which does nothing to a key that is not there.
Expire(c) ==
  /\ At(c, "expire")
  /\ LET k == KeyAt(c) IN
     ttl' = IF count[k] > 0 THEN [ttl EXCEPT ![k] = Window[call[c].scope]] ELSE ttl
  /\ Answer(c, call[c].ok)
  /\ UNCHANGED <<count, passed, crashes>>

\* One tick: keys whose time is up are gone.
Due(k) == ttl[k] # Forever /\ ttl[k] = 1

Tick ==
  /\ \E k \in Keys : ttl[k] # Forever
  /\ count' = [k \in Keys |-> IF Due(k) THEN 0 ELSE count[k]]
  /\ passed' = [b \in Budgets |-> IF Due(KeyOf(b)) THEN 0 ELSE passed[b]]
  /\ ttl' = [k \in Keys |-> IF ttl[k] = Forever \/ Due(k) THEN Forever ELSE ttl[k] - 1]
  /\ UNCHANGED <<call, crashes>>

\* The web process of call c dies, or its connection to Redis breaks: a send then
\* fails, a beacon is dropped.
Crash(c) ==
  /\ call[c].pc \in {"incr", "expire"}
  /\ crashes < MaxCrashes
  /\ crashes' = crashes + 1
  /\ call' = [call EXCEPT ![c] = [@ EXCEPT !.pc = "idle", !.scope = "fingerprint", !.ok = TRUE]]
  /\ UNCHANGED <<count, ttl, passed>>

Next ==
  \/ \E c \in Calls : \/ \E f \in Prints, l \in PersonLinks : Begin(c, f, l)
                      \/ \E f \in Prints : Beacon(c, f)
                      \/ Incr(c) \/ Expire(c) \/ Crash(c)
  \/ Tick

Spec == Init /\ [][Next]_vars

\* Processes run and time passes; nobody is obliged to send.
Fairness ==
  /\ WF_vars(Tick)
  /\ \A c \in Calls : WF_vars(Incr(c) \/ Expire(c))

FairSpec == Spec /\ Fairness

-----------------------------------------------------------------------------
(* Properties                                                              *)

TypeOK ==
  /\ count \in [Keys -> Nat]
  /\ ttl \in [Keys -> Nat]
  /\ passed \in [Budgets -> Nat]
  /\ \A b \in Budgets : ttl[KeyOf(b)] <= Window[ScopeOf(b)]
  /\ call \in [Calls -> CallType]
  /\ crashes \in 0..MaxCrashes

\* However the commands of concurrent calls interleave, no budget is overdrawn
\* between the creation of its key and its end.
AtMostLimit == \A b \in Budgets : passed[b] <= Limit[ScopeOf(b)]

\* A key that counts without a time to live is one whose first caller is about
\* to send EXPIRE - or died before it did.
OnlyCrashLeavesKey ==
  \A k \in Keys :
    count[k] > 0 /\ ttl[k] = Forever
      => crashes > 0 \/ \E c \in Calls : At(c, "expire") /\ KeyAt(c) = k

\* "beacon traffic can never consume a sender's message budget": nobody is
\* refused but by a limit that as many calls of the same kind, for the same
\* fingerprint or link, have used up in this window - whatever refused calls,
\* beacons and ends of windows came in between.
RefusedAtLimit ==
  [][\A c \in Calls : ~ At(c, "denied") /\ At(c, "denied")'
       => passed[BudgetAt(c)] = Limit[call[c].scope]]_vars

\* The inductive invariant of RateLimit_proofs: a key counts exactly what its
\* budget let through until the limit is reached, and the call that counted to
\* one was let through.
CountIsExact ==
  \A b \in Budgets :
    passed[b] = IF count[KeyOf(b)] <= Limit[ScopeOf(b)] THEN count[KeyOf(b)]
                                                        ELSE Limit[ScopeOf(b)]
IInv ==
  /\ TypeOK
  /\ CountIsExact
  /\ OnlyCrashLeavesKey
  /\ \A c \in Calls : At(c, "expire") => call[c].ok

\* "The smallest correct implementation": every window ends, so whoever was
\* refused is let through again later.  (Not after a crash between the two
\* commands: the key is there for ever, and once over the limit refuses all.)
WindowEnds == \A k \in Keys : count[k] > 0 ~> count[k] = 0

\* While no process dies every window does end, whatever the traffic: neither
\* refused calls nor a first caller that is slow to send EXPIRE can prolong it
\* for ever.
WindowEndsUnlessCrash == \A k \in Keys : count[k] > 0 ~> count[k] = 0 \/ crashes > 0
=============================================================================
