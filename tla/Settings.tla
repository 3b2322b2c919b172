------------------------------ MODULE Settings ------------------------------
(***************************************************************************)
(* One user's preferences: the JSON column users.settings, which           *)
(* set_display_name, set_paused and set_prompt_key of core/services/       *)
(* links.py rewrite as a whole from the copy their session read, and the   *)
(* column users.lang.  The handlers are those of bot/handlers/settings.py  *)
(* and the start and language screens of bot/handlers/start.py.            *)
(*                                                                         *)
(* Every update has its own session, and a row that a session has loaded   *)
(* is not read again (expire_on_commit=False).  A step is one SELECT or    *)
(* one commit; between its SELECT and its commit a setter does not wait.   *)
(***************************************************************************)
EXTENDS Naturals, Sequences, FiniteSets

CONSTANTS
  Calls,       \* updates of this user in flight at the same time
  Prompts,     \* PRESET_KEYS
  Reasons,     \* SENDER_REASON_KEYS
  Names,       \* first names Telegram has for the user
  NoPrompt,    \* DEFAULT_KEY
  NoName,      \* no display_name in the column
  BadKey,      \* callback data that is no preset
  MaxCommits   \* bounds the changes that are committed

ASSUME SettingsConstants ==
  /\ Reasons \subseteq Prompts
  /\ NoPrompt \notin Prompts
  /\ BadKey \notin Prompts \cup {NoPrompt}
  /\ NoName \notin Names
  /\ MaxCommits \in Nat
  /\ IsFiniteSet(Calls)

VARIABLES
  exists,  \* the users row is there
  row,     \* its lang, and the three keys of its settings
  log,     \* the changes committed so far, in order
  events,  \* events[f]: link_paused and link_resumed, prompt_selected
  call     \* call[c]: local variables of update c

vars == <<exists, row, log, events, call>>

Langs  == {"uz", "ru"}
Fields == {"paused", "prompt", "name", "lang"}
Tracked == {"paused", "prompt"}

RowType == [paused : BOOLEAN, prompt : Prompts \cup {NoPrompt},
            name : Names \cup {NoName}, lang : Langs]

\* The row get_or_create_user inserts.
FreshRow(lang) == [paused |-> FALSE, prompt |-> NoPrompt, name |-> NoName, lang |-> lang]

\* What an update asks for: a screen, a new value of a field, or /start, which
\* brings the user's name and, from a sender's page, a reason (or none).
Requests ==
  {[op |-> "open", field |-> "lang", value |-> "uz", reason |-> NoPrompt]}
  \cup {[op |-> "set", field |-> "paused", value |-> b, reason |-> NoPrompt] : b \in BOOLEAN}
  \cup {[op |-> "set", field |-> "prompt", value |-> k, reason |-> NoPrompt] :
          k \in Prompts \cup {NoPrompt, BadKey}}
  \cup {[op |-> "set", field |-> "lang", value |-> l, reason |-> NoPrompt] : l \in Langs}
  \cup {[op |-> "start", field |-> "name", value |-> n, reason |-> r] :
          n \in Names, r \in Reasons \cup {NoPrompt}}

\* copy: the row as this session has it; since: how many changes it has seen;
\* began: how many there were when the update first looked.  The last two are
\* no variables of the code.
IdleCall == [pc |-> "idle", req |-> CHOOSE r \in Requests : r.op = "open", new |-> FALSE,
             copy |-> FreshRow("uz"), since |-> 0, began |-> 0]

Init ==
  /\ exists = FALSE
  /\ row = FreshRow("uz")
  /\ log = <<>>
  /\ events = [f \in Tracked |-> 0]
  /\ call = [c \in Calls |-> IdleCall]

-----------------------------------------------------------------------------
At(c, pc)   == call[c].pc = pc
Req(c)      == call[c].req
\* The update goes on at pc, or is over and its session closed.
Goto(c, pc) ==
  call' = [call EXCEPT ![c] = IF pc = "idle" THEN IdleCall ELSE [@ EXCEPT !.pc = pc]]
NoWrite     == UNCHANGED <<exists, row, log, events>>

\* The session loads the row (and keeps this copy of it).
Load(c, pc) ==
  call' = [call EXCEPT ![c].pc = pc, ![c].copy = row, ![c].since = Len(log)]

Begin(c, r) ==
  /\ At(c, "idle")
  /\ call' = [call EXCEPT ![c] = [IdleCall EXCEPT !.pc = IF r.op = "start" THEN "look" ELSE "get",
                                                 !.req = r, !.began = Len(log)]]
  /\ NoWrite

\* Mutant: everybody who comes with a reason is taken to be new.
MutLookAtReason(c) ==
  /\ At(c, "look")
  /\ IF exists
     THEN call' = [call EXCEPT ![c].pc = "change", ![c].copy = row, ![c].since = Len(log),
                               ![c].new = (Req(c).reason # NoPrompt)]
     ELSE call' = [call EXCEPT ![c].pc = "get", ![c].new = TRUE]
  /\ NoWrite

\* cmd_start: existing = session.get(...); a returning user needs no more.
LookExisting(c) ==
  /\ At(c, "look")
  /\ IF exists THEN Load(c, "change")
     ELSE call' = [call EXCEPT ![c].pc = "get", ![c].new = TRUE]
  /\ NoWrite

\* get_or_create_user: session.get
GetUser(c) ==
  /\ At(c, "get")
  /\ IF exists THEN Load(c, "change") ELSE Goto(c, "insert")
  /\ NoWrite

\* get_or_create_user: the INSERT, or the winner's row after its failure.
InsertUser(c) ==
  /\ At(c, "insert")
  /\ \/ /\ ~ exists
        /\ exists' = TRUE
        /\ \E lang \in Langs :
             /\ Req(c).op = "set" /\ Req(c).field = "lang" => lang = Req(c).value
             /\ Req(c).op = "open" \/ Req(c).field \in Tracked => lang = "uz"
             /\ row' = FreshRow(lang)
             /\ call' = [call EXCEPT ![c].pc = "change", ![c].copy = FreshRow(lang),
                                     ![c].since = Len(log)]
        /\ UNCHANGED <<log, events>>
     \/ /\ exists
        /\ Load(c, "change")
        /\ NoWrite

\* Mutant: the UPDATE writes every column of the copy, lang too.
MutWholeRow(c, f, v) == [call[c].copy EXCEPT ![f] = v]

\* The row after f of this session's copy was set to v: SQLAlchemy writes the
\* columns that changed, and users.settings is one column.
Written(c, f, v) ==
  IF f = "lang" THEN [row EXCEPT !.lang = v]
  ELSE [call[c].copy EXCEPT ![f] = v, !.lang = row.lang]

\* set_display_name, set_paused, set_prompt_key, user.lang = lang: nothing is
\* written when the copy has this value already.
Commit(c, f, v, by, pc) ==
  /\ Len(log) < MaxCommits
  /\ row' = Written(c, f, v)
  /\ log' = Append(log, [field |-> f, value |-> v, by |-> by, since |-> call[c].since,
                         began |-> call[c].began, real |-> row[f] # v])
  /\ call' = [call EXCEPT ![c] =
       IF pc = "idle" THEN IdleCall
       ELSE [@ EXCEPT !.pc = pc, !.copy = [call[c].copy EXCEPT ![f] = v], !.since = Len(log) + 1]]
  /\ UNCHANGED <<exists, events>>

Changes(c, f, v) == call[c].copy[f] # v

\* Where the handler goes on when set_display_name is done: set_prompt_key for
\* the reason a brand-new user came with.
AfterName(c) == IF call[c].new /\ Req(c).reason # NoPrompt THEN "reason" ELSE "idle"

\* Mutant: a double tap is written, and counted, again.
MutAlwaysChange(c) ==
  /\ At(c, "change")
  /\ Req(c).op = "set"
  /\ LET f == Req(c).field
         v == Req(c).value IN
     \/ /\ v # BadKey
        /\ Commit(c, f, v, "set", IF f \in Tracked THEN "track" ELSE "idle")
     \/ /\ v = BadKey
        /\ Goto(c, "idle")
        /\ NoWrite

\* The settings handlers; on_prompt_set refuses a key that is no preset.
ChangeField(c) ==
  /\ At(c, "change")
  /\ Req(c).op = "set"
  /\ LET f == Req(c).field
         v == Req(c).value IN
     \/ /\ v # BadKey
        /\ Changes(c, f, v)
        /\ Commit(c, f, v, "set", IF f \in Tracked THEN "track" ELSE "idle")
     \/ /\ v # BadKey => ~ Changes(c, f, v)
        /\ Goto(c, "idle")
        /\ NoWrite

\* A screen that only shows something.
ShowScreen(c) ==
  /\ At(c, "change")
  /\ Req(c).op = "open"
  /\ Goto(c, "idle")
  /\ NoWrite

\* cmd_start: set_display_name
ChangeName(c) ==
  /\ At(c, "change")
  /\ Req(c).op = "start"
  /\ \/ /\ Changes(c, "name", Req(c).value)
        /\ Commit(c, "name", Req(c).value, "start", AfterName(c))
     \/ /\ ~ Changes(c, "name", Req(c).value)
        /\ Goto(c, AfterName(c))
        /\ NoWrite

\* cmd_start: set_prompt_key(reason)
ApplyReason(c) ==
  /\ At(c, "reason")
  /\ \/ /\ Changes(c, "prompt", Req(c).reason)
        /\ Commit(c, "prompt", Req(c).reason, "reason", "idle")
     \/ /\ ~ Changes(c, "prompt", Req(c).reason)
        /\ Goto(c, "idle")
        /\ NoWrite

\* track("link_paused" | "link_resumed" | "prompt_selected")
Track(c) ==
  /\ At(c, "track")
  /\ events' = [events EXCEPT ![Req(c).field] = @ + 1]
  /\ Goto(c, "idle")
  /\ UNCHANGED <<exists, row, log>>

\* The bot process dies.
Crash ==
  /\ \E c \in Calls : ~ At(c, "idle")
  /\ call' = [c \in Calls |-> IdleCall]
  /\ NoWrite

Step(c) ==
  \/ LookExisting(c) \/ GetUser(c) \/ InsertUser(c) \/ ChangeField(c) \/ ShowScreen(c)
  \/ ChangeName(c) \/ ApplyReason(c) \/ Track(c)

Next ==
  \/ \E c \in Calls : (\E r \in Requests : Begin(c, r)) \/ Step(c)
  \/ Crash

Spec == Init /\ [][Next]_vars

-----------------------------------------------------------------------------
(* Properties                                                              *)

ValuesOf(f) == CASE f = "paused" -> BOOLEAN
                 [] f = "prompt" -> Prompts \cup {NoPrompt}
                 [] f = "name" -> Names \cup {NoName}
                 [] f = "lang" -> Langs

\* A set TLC cannot build, its values being of several kinds.
LogType == UNION {[field : {f}, value : ValuesOf(f), by : {"set", "start", "reason"},
                   since : Nat, began : Nat, real : BOOLEAN] : f \in Fields}

CallType == [pc : {"idle", "look", "get", "insert", "change", "reason", "track"}, req : Requests,
             new : BOOLEAN, copy : RowType, since : Nat, began : Nat]

TypeOK ==
  /\ exists \in BOOLEAN
  /\ row \in RowType
  /\ log \in Seq(LogType)
  /\ events \in [Tracked -> Nat]
  /\ call \in [Calls -> CallType]

CommitsOf(f) == {i \in DOMAIN log : log[i].field = f}
IsLast(i)    == \A j \in CommitsOf(log[i].field) : j <= i

\* A change that was confirmed to the user - a pause, a line, a name - is in the
\* row until another one takes its place, unless a later commit came from a
\* session that had read the row before it.  The language has a column of its
\* own and is not lost even then.
LostOnlyToOverlap ==
  \A i \in DOMAIN log :
    IsLast(i) /\ row[log[i].field] # log[i].value =>
      log[i].field # "lang" /\ \E j \in i + 1..Len(log) : log[j].since < i

\* "Only record an analytics event on a real transition, not on a double tap": a
\* commit that changed nothing overlapped another, and no event is without one.
EventsAreChanges ==
  /\ \A i \in DOMAIN log : ~ log[i].real => log[i].since < i - 1
  /\ \A f \in Tracked : events[f] <= Cardinality({i \in CommitsOf(f) : log[i].by = "set"})

\* "An old link's settings are never overwritten" by the reason somebody came
\* to the bot with: no line that was chosen before the update began is.
ReasonSparesChoices ==
  \A j \in DOMAIN log : log[j].by = "reason" =>
    \A i \in CommitsOf("prompt") : i < j => log[j].began < i

-----------------------------------------------------------------------------
(* The inductive invariant of Settings_proofs                              *)

InSettings == Fields \ {"lang"}

\* r has the last value each field of F got in the first n changes, unless a change
\* after that one came from a session that had not seen it.
HasLast(r, n, F) ==
  \A i \in 1..n :
    /\ log[i].field \in F
    /\ \A j \in i + 1..n : log[j].field # log[i].field
    /\ r[log[i].field] # log[i].value
    => \E j \in i + 1..n : log[j].since < i

RowOK ==
  /\ ~ exists => log = <<>>
  /\ HasLast(row, Len(log), InSettings)
  /\ \A i \in CommitsOf("lang") : IsLast(i) => row.lang = log[i].value

\* The copy is the row as it was after `since` changes.
CallOK(c) ==
  /\ call[c].since <= Len(log) /\ call[c].began <= Len(log)
  /\ call[c].new => call[c].began = 0
  /\ At(c, "reason") => call[c].new
  /\ At(c, "track") => Req(c).field \in Tracked
  /\ call[c].pc \in {"change", "reason", "track"} =>
       /\ exists
       /\ HasLast(call[c].copy, call[c].since, InSettings)
       /\ call[c].since = Len(log) => \A f \in InSettings : call[c].copy[f] = row[f]
  /\ At(c, "change") /\ call[c].since = Len(log) => call[c].copy = row

LogOK == \A i \in DOMAIN log : log[i].since < i /\ log[i].began < i

\* Each event that is or will be written has a change of its own.
SetsOf(f)      == {i \in CommitsOf(f) : log[i].by = "set"}
TracksOf(f)    == {c \in Calls : At(c, "track") /\ Req(c).field = f}
EventsCounted  == \A f \in Tracked : events[f] + Cardinality(TracksOf(f)) <= Cardinality(SetsOf(f))

IInv ==
  /\ TypeOK
  /\ RowOK
  /\ LogOK
  /\ \A c \in Calls : CallOK(c)
  /\ \A i \in DOMAIN log : ~ log[i].real => log[i].since < i - 1
  /\ EventsCounted
  /\ ReasonSparesChoices
=============================================================================
