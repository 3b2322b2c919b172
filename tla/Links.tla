-------------------------------- MODULE Links -------------------------------
(***************************************************************************)
(* The life of personal links (core/services/links.py) as the bot's        *)
(* handlers drive it: on_create_link, _show_my_link (bot/handlers/start.py)*)
(* and on_regenerate_confirm (bot/handlers/settings.py).  aiogram runs     *)
(* every update as its own task with its own database session, so calls    *)
(* interleave at every await; a step of this module is one database        *)
(* statement or one commit.                                                *)
(*                                                                         *)
(* A commit that updates and inserts is one step: the row locks it takes   *)
(* and the wait of the unique index for an uncommitted rival make the      *)
(* state it is judged against the state it commits in.                     *)
(***************************************************************************)
EXTENDS Naturals

CONSTANTS
  Owners,    \* telegram users
  Calls,     \* handler invocations that may be in flight at the same time
  LinkIds,   \* ids of public_links rows; bounds how many links are issued
  None       \* "no row"

ASSUME NoneIsNoRow == None \notin LinkIds /\ None \notin Owners

VARIABLES
  users,     \* owners that have a row in users
  owner,     \* owner[l]: owner_user_id of row l, None while there is no row l
  state,     \* state[l]: "active", or why active = false; see States
  firsts,    \* firsts[o]: new_link_created events written for o
  call       \* call[c]: the local variables of handler invocation c

vars == <<users, owner, state, firsts, call>>

\* active = true is "active"; the code does not store why a link was turned
\* off, the model remembers it: "replaced" by regenerate_link, "disabled" by
\* moderation or by the report threshold.
States == {"absent", "active", "replaced", "disabled"}

Ops == {"create", "show", "regenerate"}

PCs == {"idle", "getUser", "insertUser", "winnerUser", "first", "show", "check",
        "insert", "winner", "readOld", "swap", "track", "trackFirst", "done", "raised"}

CallType == [pc : PCs, op : Ops, who : Owners \cup {None}, first : BOOLEAN,
             old : LinkIds \cup {None}, link : LinkIds \cup {None}]

NoCall == [pc |-> "idle", op |-> "show", who |-> None, first |-> FALSE,
           old |-> None, link |-> None]

LinksOf(o)  == {l \in LinkIds : owner[l] = o}
ActiveOf(o) == {l \in LinksOf(o) : state[l] = "active"}

Init ==
  /\ users = {}
  /\ owner = [l \in LinkIds |-> None]
  /\ state = [l \in LinkIds |-> "absent"]
  /\ firsts = [o \in Owners |-> 0]
  /\ call = [c \in Calls |-> NoCall]

-----------------------------------------------------------------------------
(* Steps of a call                                                         *)

At(c, pc) == call[c].pc = pc
Me(c)     == call[c].who

\* The call moves to pc and leaves its other local variables alone.
Goto(c, pc) == call' = [call EXCEPT ![c].pc = pc]

\* create_link / regenerate_link return row l to the handler.
Answer(c, l) ==
  call' = [call EXCEPT ![c].pc = "track", ![c].link = l]

NoWrite == UNCHANGED <<users, owner, state, firsts>>

\* A user taps a button: a fresh update, a fresh session.
Begin(c, o, op) ==
  /\ call[c].pc \in {"idle", "done", "raised"}
  /\ call' = [call EXCEPT ![c] = [NoCall EXCEPT !.pc = "getUser", !.op = op, !.who = o]]
  /\ NoWrite

\* What each handler does once it has its user.
AfterUser(op) ==
  CASE op = "create"     -> "first"
    [] op = "show"       -> "show"
    [] op = "regenerate" -> "readOld"

\* Mutant: takes it that a user who taps has a row.
MutGetUserUnchecked(c) ==
  /\ At(c, "getUser")
  /\ Goto(c, AfterUser(call[c].op))
  /\ NoWrite

\* get_or_create_user: session.get
GetUser(c) ==
  /\ At(c, "getUser")
  /\ Goto(c, IF Me(c) \in users THEN AfterUser(call[c].op) ELSE "insertUser")
  /\ NoWrite

\* get_or_create_user: the INSERT; the primary key decides between rivals.
InsertUser(c) ==
  /\ At(c, "insertUser")
  /\ \/ /\ Me(c) \notin users
        /\ users' = users \cup {Me(c)}
        /\ Goto(c, AfterUser(call[c].op))
     \/ /\ Me(c) \in users
        /\ Goto(c, "winnerUser")
        /\ UNCHANGED users
  /\ UNCHANGED <<owner, state, firsts>>

\* get_or_create_user: re-read after the IntegrityError, or raise.
WinnerUser(c) ==
  /\ At(c, "winnerUser")
  /\ Goto(c, IF Me(c) \in users THEN AfterUser(call[c].op) ELSE "raised")
  /\ NoWrite

\* on_create_link: is_first_ever_link = not has_any_link(...)
HasAnyLink(c) ==
  /\ At(c, "first")
  /\ \/ /\ LinksOf(Me(c)) = {}
        /\ call' = [call EXCEPT ![c].pc = "check", ![c].first = TRUE]
     \/ /\ LinksOf(Me(c)) # {}
        /\ Goto(c, "check")
  /\ NoWrite

\* _show_my_link: its own look before it calls create_link.
ShowActive(c) ==
  /\ At(c, "show")
  /\ \/ /\ ActiveOf(Me(c)) = {}
        /\ Goto(c, "check")
     \/ \E l \in ActiveOf(Me(c)) :
          call' = [call EXCEPT ![c].pc = "done", ![c].link = l]
  /\ NoWrite

\* create_link: return the active link if there is one.
CheckExisting(c) ==
  /\ At(c, "check")
  /\ \/ /\ ActiveOf(Me(c)) = {}
        /\ Goto(c, "insert")
     \/ \E l \in ActiveOf(Me(c)) : Answer(c, l)
  /\ NoWrite

\* Mutant: the index is not there.
MutNoIndex(o, ended) == TRUE

\* uq_one_active_link_per_owner: o may have row l active beside the rows that
\* are active after `ended` (the row this transaction turns off, if any).
IndexAllows(o, ended) == ActiveOf(o) \ {ended} = {}

\* Mutant: a row of o that was turned off is taken up again.
MutReviveRow(o, l) ==
  /\ \/ owner[l] = None
     \/ owner[l] = o /\ state[l] # "active"
  /\ owner' = [owner EXCEPT ![l] = o]

\* The row a transaction inserts: fresh, active by default, owned by o.
NewRow(o, l) ==
  /\ owner[l] = None
  /\ owner' = [owner EXCEPT ![l] = o]

\* create_link: the commit, or the IntegrityError of the unique index.
CommitInsert(c) ==
  /\ At(c, "insert")
  /\ \/ /\ IndexAllows(Me(c), None)
        /\ \E l \in LinkIds :
             /\ NewRow(Me(c), l)
             /\ state' = [state EXCEPT ![l] = "active"]
             /\ Answer(c, l)
     \/ /\ ~ IndexAllows(Me(c), None)
        /\ Goto(c, "winner")
        /\ UNCHANGED <<owner, state>>
  /\ UNCHANGED <<users, firsts>>

\* regenerate_link: read the link to retire.
ReadOld(c) ==
  /\ At(c, "readOld")
  /\ \/ /\ ActiveOf(Me(c)) = {}
        /\ Goto(c, "swap")
     \/ \E l \in ActiveOf(Me(c)) :
          call' = [call EXCEPT ![c].pc = "swap", ![c].old = l]
  /\ NoWrite

\* Mutant: the old row is not turned off.
MutKeepOld(old) == state

\* old.active = False, on the row as it is when the UPDATE gets its lock.
Retire(old) ==
  [l \in LinkIds |-> IF l = old /\ state[l] = "active" THEN "replaced" ELSE state[l]]

\* Mutant: the UPDATE of the old row has a commit of its own.
MutSwapInTwoCommits(c) ==
  /\ At(c, "swap")
  /\ LET old == call[c].old IN
     \/ /\ Retire(old) # state
        /\ state' = Retire(old)
        /\ UNCHANGED <<owner, call>>
     \/ /\ Retire(old) = state
        /\ IndexAllows(Me(c), old)
        /\ \E l \in LinkIds :
             /\ NewRow(Me(c), l)
             /\ state' = [state EXCEPT ![l] = "active"]
             /\ Answer(c, l)
     \/ /\ Retire(old) = state
        /\ ~ IndexAllows(Me(c), old)
        /\ Goto(c, "winner")
        /\ UNCHANGED <<owner, state>>
  /\ UNCHANGED <<users, firsts>>

\* regenerate_link: UPDATE of the old row and INSERT of the new one in one
\* transaction; a rival's active link rolls both back.
CommitSwap(c) ==
  /\ At(c, "swap")
  /\ LET old == call[c].old IN
     \/ /\ IndexAllows(Me(c), old)
        /\ \E l \in LinkIds :
             /\ NewRow(Me(c), l)
             /\ state' = [Retire(old) EXCEPT ![l] = "active"]
             /\ Answer(c, l)
     \/ /\ ~ IndexAllows(Me(c), old)
        /\ Goto(c, "winner")
        /\ UNCHANGED <<owner, state>>
  /\ UNCHANGED <<users, firsts>>

\* Mutant: the IntegrityError goes to the user, without a second look.
MutRaiseOnConflict(c) ==
  /\ At(c, "winner")
  /\ Goto(c, "raised")
  /\ NoWrite

\* Both: hand back whichever row won the race - or raise if none is active.
ReadWinner(c) ==
  /\ At(c, "winner")
  /\ \/ /\ ActiveOf(Me(c)) = {}
        /\ Goto(c, "raised")
     \/ \E l \in ActiveOf(Me(c)) : Answer(c, l)
  /\ NoWrite

\* track("link_created") or track("link_regenerated"); on_create_link goes on
\* to the new_link_created event if it saw no link before it created one.
TrackLink(c) ==
  /\ At(c, "track")
  /\ Goto(c, IF call[c].first THEN "trackFirst" ELSE "done")
  /\ NoWrite

\* track("new_link_created") and the one-time reply keyboard.
TrackFirst(c) ==
  /\ At(c, "trackFirst")
  /\ firsts' = [firsts EXCEPT ![Me(c)] = @ + 1]
  /\ Goto(c, "done")
  /\ UNCHANGED <<users, owner, state>>

-----------------------------------------------------------------------------
(* Around the calls                                                        *)

\* A moderator's disable_link decision, or the report threshold, turns an
\* active link off (Moderation.tla has these two in full).
Disable(l) ==
  /\ state[l] = "active"
  /\ state' = [state EXCEPT ![l] = "disabled"]
  /\ UNCHANGED <<users, owner, firsts, call>>

\* The bot process dies: every call in flight is gone, what it committed stays.
Crash ==
  /\ \E c \in Calls : call[c].pc # "idle"
  /\ call' = [c \in Calls |-> NoCall]
  /\ NoWrite

Step(c) ==
  \/ GetUser(c) \/ InsertUser(c) \/ WinnerUser(c)
  \/ HasAnyLink(c) \/ ShowActive(c)
  \/ CheckExisting(c) \/ CommitInsert(c)
  \/ ReadOld(c) \/ CommitSwap(c)
  \/ ReadWinner(c) \/ TrackLink(c) \/ TrackFirst(c)

Next ==
  \/ \E c \in Calls, o \in Owners, op \in Ops : Begin(c, o, op)
  \/ \E c \in Calls : Step(c)
  \/ \E l \in LinkIds : Disable(l)
  \/ Crash

Spec == Init /\ [][Next]_vars

-----------------------------------------------------------------------------
(* Properties                                                              *)

TypeOK ==
  /\ users \subseteq Owners
  /\ owner \in [LinkIds -> Owners \cup {None}]
  /\ state \in [LinkIds -> States]
  /\ firsts \in [Owners -> Nat]
  /\ call \in [Calls -> CallType]

\* However create, show and regenerate interleave, an owner never has two
\* links that accept messages (uq_one_active_link_per_owner is the guard).
AtMostOneActive ==
  \A o \in Owners : \A l, m \in ActiveOf(o) : l = m

\* Once regenerate_link has answered, the link it set out to retire accepts
\* no message any more and is not the one handed back - also when it lost the
\* race and its own UPDATE was rolled back.
RegenerateRetiresOld ==
  \A c \in Calls :
    /\ call[c].op = "regenerate"
    /\ call[c].pc \in {"track", "trackFirst", "done"}
    /\ call[c].old # None
    => /\ state[call[c].old] # "active"
       /\ call[c].link # call[c].old

\* Only moderation can leave an owner who ever had a link without one: no
\* interleaving of the owner's own calls, and no crash between them, does.
OnlyModerationUnlinks ==
  \A o \in Owners :
    LinksOf(o) # {} => \/ ActiveOf(o) # {}
                       \/ \E l \in LinksOf(o) : state[l] = "disabled"

\* create_link and regenerate_link raise only in the case their comment calls
\* "genuinely unexpected": a moderation action came between.
RaiseNeedsModeration ==
  \A c \in Calls :
    At(c, "raised") => \E l \in LinksOf(Me(c)) : state[l] = "disabled"

\* public_links.owner_user_id and events.user_id are foreign keys: no link and
\* no event is written before the row of its user is committed.
UserRowFirst ==
  /\ \A l \in LinkIds : owner[l] # None => owner[l] \in users
  /\ \A c \in Calls :
       call[c].pc \in {"first", "show", "check", "insert", "winner", "readOld",
                       "swap", "track", "trackFirst"} => Me(c) \in users
  /\ \A o \in Owners : firsts[o] > 0 => o \in users

-----------------------------------------------------------------------------
(* Why they hold: the inductive invariant of Links_proofs                  *)

RowIsOwned == \A l \in LinkIds : owner[l] = None <=> state[l] = "absent"

\* The local variables of a call mean what the code that set them says.
CallOK(c) ==
  /\ call[c].pc # "idle" => Me(c) \in Owners
  /\ At(c, "winnerUser") => Me(c) \in users
  /\ call[c].pc \in {"readOld", "swap"} => call[c].op = "regenerate"
  /\ call[c].pc \in {"getUser", "insertUser", "winnerUser", "first", "show", "check",
                    "insert", "readOld"} => call[c].old = None
  /\ call[c].old # None => Me(c) \in Owners /\ owner[call[c].old] = Me(c)
  /\ At(c, "winner") => LinksOf(Me(c)) # {}
  \* A rival's active row is why this call is here, so its own old row is not.
  /\ At(c, "winner") /\ call[c].old # None => state[call[c].old] # "active"

IInv ==
  /\ TypeOK
  /\ RowIsOwned
  /\ \A c \in Calls : CallOK(c)
  /\ AtMostOneActive
  /\ RegenerateRetiresOld
  /\ OnlyModerationUnlinks
  /\ RaiseNeedsModeration
  /\ UserRowFirst

-----------------------------------------------------------------------------
(* The abstract specification                                              *)

\* What LinkRegistry promises, read off the rows.
Current == [o \in Owners |-> IF ActiveOf(o) = {} THEN None
                             ELSE CHOOSE l \in ActiveOf(o) : TRUE]
RetiredLinks == {l \in LinkIds : state[l] \in {"replaced", "disabled"}}

Registry == INSTANCE LinkRegistry WITH current <- Current, retired <- RetiredLinks

\* Every step of every interleaving is one step of the registry, or none.
ImplementsRegistry == Registry!RSpec
=============================================================================
