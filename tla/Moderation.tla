----------------------------- MODULE Moderation -----------------------------
(***************************************************************************)
(* Reports and the moderation queue (core/services/moderation.py) as the   *)
(* bot drives them: on_report_reason and on_delete_confirm                 *)
(* (bot/handlers/inbox.py), on_moderation_decision and cmd_modqueue        *)
(* (bot/handlers/moderation.py).                                           *)
(*                                                                         *)
(* Every update is a task with its own session (READ COMMITTED).  A step   *)
(* is one SELECT or one commit; the one lock that outlives a step is that  *)
(* of the messages row, which report_message's autoflush takes before it   *)
(* reads the link and keeps until its commit.                              *)
(***************************************************************************)
EXTENDS Naturals, Sequences, FiniteSets

CONSTANTS
  Msgs, Links, Prints,  \* messages, links, sender fingerprints
  LinkOf,               \* [Msgs -> Links]
  PrintOf,              \* [Msgs -> Prints]
  Taps,                 \* report updates in flight at the same time
  Mods,                 \* moderator updates in flight at the same time
  ReportSeverities,     \* severities reports come with (REPORT_SEVERITY)
  FlagSeverities,       \* severities the filter flags messages with
  Threshold,            \* link_auto_disable_report_threshold
  MassThreshold,        \* MASS_ABUSE_REPORT_THRESHOLD
  PageSize,             \* the limit of cmd_modqueue
  None

ASSUME ModerationConstants ==
  /\ LinkOf \in [Msgs -> Links]
  /\ PrintOf \in [Msgs -> Prints]
  /\ ReportSeverities \cup FlagSeverities \subseteq {"L1", "L2", "L3"}
  /\ Threshold \in Nat \ {0}
  /\ MassThreshold \in Nat \ {0}
  /\ PageSize \in Nat \ {0}
  /\ "system" \notin Mods

VARIABLES
  msg,      \* messages: abuse_score (in units of a report's +2) and deleted_at
  link,     \* public_links: active and report_count
  reports,  \* rows of reports, in id order
  log,      \* rows of moderation_actions, in id order; nothing is ever removed
  events,   \* events[m]: report_created events
  locked,   \* locked[m]: the tap that holds the row lock of m
  tap,      \* tap[t]: local variables of report update t
  mod       \* mod[d]: local variables of moderator update d

vars == <<msg, link, reports, log, events, locked, tap, mod>>

\* Targets of moderation_actions: "message:<id>", "link:<id>", "fingerprint:<hash>".
OnMsg(m)   == <<"message", m>>
OnLink(l)  == <<"link", l>>
OnPrint(f) == <<"fingerprint", f>>

Decisions == {"dismiss", "escalate", "disable_link"}

\* `since` is no column: how long the table was when the update that wrote the
\* row began.
Row(target, action, sev, by, since) ==
  [target |-> target, action |-> action, sev |-> sev, by |-> by, since |-> since]

System == "system"
IsHuman(r) == r.by # System

RowsOn(target)  == {i \in DOMAIN log : log[i].target = target}
HumanOn(target) == {i \in RowsOn(target) : IsHuman(log[i])}
ReportsOf(m)    == {i \in DOMAIN reports : reports[i].msg = m}
\* sender_report_count
ReportCount(f)  == Cardinality({i \in DOMAIN reports : PrintOf[reports[i].msg] = f})

IdleTap == [pc |-> "idle", m |-> None, sev |-> "L1", again |-> FALSE, queued |-> FALSE,
            score |-> 0, count |-> 0, active |-> FALSE, sinceR |-> 0, sinceL |-> 0]
IdleMod == [pc |-> "idle", row |-> 0, decision |-> "dismiss", since |-> 0]

Init ==
  /\ msg = [m \in Msgs |-> [score |-> 0, deleted |-> FALSE]]
  /\ link = [l \in Links |-> [active |-> TRUE, count |-> 0]]
  /\ reports = <<>>
  /\ log = <<>>
  /\ events = [m \in Msgs |-> 0]
  /\ locked = [m \in Msgs |-> None]
  /\ tap = [t \in Taps |-> IdleTap]
  /\ mod = [d \in Mods |-> IdleMod]

-----------------------------------------------------------------------------
(* A recipient reports a message: on_report_reason and report_message      *)

At(t, pc) == tap[t].pc = pc
MsgOf(t)  == tap[t].m
Goto(t, pc) == tap' = [tap EXCEPT ![t].pc = pc]

NoWrite == UNCHANGED <<msg, link, reports, log, events, locked, mod>>

BeginReport(t, m, sev) ==
  /\ At(t, "idle")
  /\ tap' = [tap EXCEPT ![t] = [IdleTap EXCEPT !.pc = "load", !.m = m, !.sev = sev,
                                !.sinceR = Len(reports), !.sinceL = Len(log)]]
  /\ NoWrite

\* get_message_for_recipient: a deleted message gets a generic error.
LoadMessage(t) ==
  /\ At(t, "load")
  /\ tap' = [tap EXCEPT ![t] = IF msg[MsgOf(t)].deleted THEN IdleTap
                               ELSE [@ EXCEPT !.pc = "already", !.score = msg[MsgOf(t)].score]]
  /\ NoWrite

\* The handler's own look, is_already_reported, for the analytics event.
LookAlready(t) ==
  /\ At(t, "already")
  /\ tap' = [tap EXCEPT ![t].pc = "prior", ![t].again = (ReportsOf(MsgOf(t)) # {})]
  /\ NoWrite

\* Mutant: no look at earlier reports.
MutNoPriorLook(t) ==
  /\ At(t, "prior")
  /\ Goto(t, "queued")
  /\ NoWrite

\* report_message: one report per message, repeats return the first.
LookPrior(t) ==
  /\ At(t, "prior")
  /\ Goto(t, IF ReportsOf(MsgOf(t)) # {} THEN "event" ELSE "queued")
  /\ NoWrite

\* Mutant: already_queued takes a row of the filter's for one of a report.
MutQueuedAnyhow(t) ==
  /\ At(t, "queued")
  /\ tap' = [tap EXCEPT ![t].pc = "flush", ![t].queued = (RowsOn(OnMsg(MsgOf(t))) # {})]
  /\ NoWrite

\* already_queued
LookQueued(t) ==
  /\ At(t, "queued")
  /\ tap' = [tap EXCEPT ![t].pc = "flush",
               ![t].queued = \E i \in RowsOn(OnMsg(MsgOf(t))) : log[i].action = "user_report"]
  /\ NoWrite

\* session.get(PublicLink) autoflushes: UPDATE messages waits for its row lock.
FlushMessage(t) ==
  /\ At(t, "flush")
  /\ locked[MsgOf(t)] = None
  /\ locked' = [locked EXCEPT ![MsgOf(t)] = t]
  /\ Goto(t, "link")
  /\ UNCHANGED <<msg, link, reports, log, events, mod>>

\* Mutant: the counter is incremented here and at the commit.
MutCountTwice(t) ==
  /\ At(t, "link")
  /\ LET l == link[LinkOf[MsgOf(t)]] IN
     tap' = [tap EXCEPT ![t].pc = "commit", ![t].count = l.count + 1, ![t].active = l.active]
  /\ NoWrite

\* ... and only then is the link read.
ReadLink(t) ==
  /\ At(t, "link")
  /\ LET l == link[LinkOf[MsgOf(t)]] IN
     tap' = [tap EXCEPT ![t].pc = "commit", ![t].count = l.count, ![t].active = l.active]
  /\ NoWrite

\* report_count >= auto_disable_threshold and link.active, as this session read them.
Disables(t) == tap[t].count + 1 >= Threshold /\ tap[t].active

\* Mutant: no row says that the threshold turned the link off.
MutSilentDisable(t) == <<>>

\* The moderation_actions rows this report adds.
QueueRow(t) ==
  IF tap[t].queued THEN <<>>
  ELSE <<Row(OnMsg(MsgOf(t)), "user_report", tap[t].sev, System, tap[t].sinceL)>>
DisableRow(t) ==
  IF ~ Disables(t) THEN <<>>
  ELSE <<Row(OnLink(LinkOf[MsgOf(t)]), "disable_link", "L2", System, tap[t].sinceL)>>

\* Mutant: the whole messages row is written back as this session read it.
MutWriteWholeRow(t) ==
  /\ At(t, "commit")
  /\ LET m == MsgOf(t)
         l == LinkOf[m] IN
     /\ reports' = Append(reports, [msg |-> m, since |-> tap[t].sinceR])
     /\ log' = log \o QueueRow(t) \o DisableRow(t)
     /\ msg' = [msg EXCEPT ![m] = [score |-> tap[t].score + 1, deleted |-> FALSE]]
     /\ link' = [link EXCEPT ![l].count = tap[t].count + 1,
                             ![l].active = @ /\ ~ Disables(t)]
     /\ locked' = [locked EXCEPT ![m] = None]
  /\ Goto(t, "count")
  /\ UNCHANGED <<events, mod>>

\* The commit: report, queue row, abuse score, link counter and auto-disable.
CommitReport(t) ==
  /\ At(t, "commit")
  /\ LET m == MsgOf(t)
         l == LinkOf[m] IN
     /\ reports' = Append(reports, [msg |-> m, since |-> tap[t].sinceR])
     /\ log' = log \o QueueRow(t) \o DisableRow(t)
     /\ msg' = [msg EXCEPT ![m].score = tap[t].score + 1]
     /\ link' = [link EXCEPT ![l].count = tap[t].count + 1,
                             ![l].active = @ /\ ~ Disables(t)]
     /\ locked' = [locked EXCEPT ![m] = None]
  /\ Goto(t, "count")
  /\ UNCHANGED <<events, mod>>

\* Mass-abuse escalation: count, look, append.
CountReports(t) ==
  /\ At(t, "count")
  /\ Goto(t, IF ReportCount(PrintOf[MsgOf(t)]) >= MassThreshold THEN "escalated" ELSE "event")
  /\ NoWrite

LookEscalated(t) ==
  /\ At(t, "escalated")
  /\ Goto(t, IF RowsOn(OnPrint(PrintOf[MsgOf(t)])) # {} THEN "event" ELSE "escalate")
  /\ NoWrite

CommitEscalation(t) ==
  /\ At(t, "escalate")
  /\ log' = Append(log, Row(OnPrint(PrintOf[MsgOf(t)]), "escalate", "L3", System, tap[t].sinceL))
  /\ Goto(t, "event")
  /\ UNCHANGED <<msg, link, reports, events, locked, mod>>

\* track("report_created") unless the handler's own look saw a report.
TrackReport(t) ==
  /\ At(t, "event")
  /\ events' = [events EXCEPT ![MsgOf(t)] = IF tap[t].again THEN @ ELSE @ + 1]
  /\ tap' = [tap EXCEPT ![t] = IdleTap]
  /\ UNCHANGED <<msg, link, reports, log, locked, mod>>

ReportStep(t) ==
  \/ LoadMessage(t) \/ LookAlready(t) \/ LookPrior(t) \/ LookQueued(t)
  \/ FlushMessage(t) \/ ReadLink(t) \/ CommitReport(t)
  \/ CountReports(t) \/ LookEscalated(t) \/ CommitEscalation(t) \/ TrackReport(t)

-----------------------------------------------------------------------------
(* A moderator presses a button: apply_moderator_decision                  *)

\* The button carries the id of a row some /modqueue page once showed.
BeginDecision(d, i, decision) ==
  /\ mod[d].pc = "idle"
  /\ ~ IsHuman(log[i])
  /\ mod' = [mod EXCEPT ![d] = [pc |-> "existing", row |-> i, decision |-> decision,
                                since |-> Len(log)]]
  /\ UNCHANGED <<msg, link, reports, log, events, locked, tap>>

\* Mutant: decides without a look at earlier decisions.
MutDecideAnyway(d) ==
  /\ mod[d].pc = "existing"
  /\ mod' = [mod EXCEPT ![d].pc = "decide"]
  /\ UNCHANGED <<msg, link, reports, log, events, locked, tap>>

\* _existing_human_decision: the first one wins, later ones are told so.
LookExisting(d) ==
  /\ mod[d].pc = "existing"
  /\ mod' = [mod EXCEPT ![d] = IF HumanOn(log[@.row].target) # {} THEN IdleMod
                               ELSE [@ EXCEPT !.pc = "decide"]]
  /\ UNCHANGED <<msg, link, reports, log, events, locked, tap>>

\* _resolve_link_for_target: links of link: and message: targets.
LinksFor(target) ==
  {l \in Links : target = OnLink(l) \/ \E m \in Msgs : target = OnMsg(m) /\ LinkOf[m] = l}

\* One append-only row, and the link off for disable_link, in one commit.
CommitDecision(d) ==
  /\ mod[d].pc = "decide"
  /\ LET original == log[mod[d].row] IN
     /\ log' = Append(log, Row(original.target, mod[d].decision, original.sev, d, mod[d].since))
     /\ link' = [l \in Links |->
                   IF mod[d].decision = "disable_link" /\ l \in LinksFor(original.target)
                   THEN [link[l] EXCEPT !.active = FALSE] ELSE link[l]]
  /\ mod' = [mod EXCEPT ![d] = IdleMod]
  /\ UNCHANGED <<msg, reports, events, locked, tap>>

-----------------------------------------------------------------------------
(* Around them                                                             *)

\* send_message's second commit: the auto_flag row; L3 hides the message, with
\* an UPDATE that waits for the row lock (Delivery.tla has the whole handler).
AutoFlag(m, sev) ==
  /\ \A i \in RowsOn(OnMsg(m)) : log[i].action # "auto_flag"
  /\ sev = "L3" => locked[m] = None
  /\ log' = Append(log, Row(OnMsg(m), "auto_flag", sev, System, Len(log)))
  /\ msg' = [msg EXCEPT ![m].deleted = @ \/ sev = "L3"]
  /\ UNCHANGED <<link, reports, events, locked, tap, mod>>

\* delete_message; its UPDATE waits for the row lock too.
Delete(m) ==
  /\ ~ msg[m].deleted
  /\ locked[m] = None
  /\ msg' = [msg EXCEPT ![m].deleted = TRUE]
  /\ UNCHANGED <<link, reports, log, events, locked, tap, mod>>

\* The bot process dies: its sessions roll back and their locks are gone.
Crash ==
  /\ \/ \E t \in Taps : ~ At(t, "idle")
     \/ \E d \in Mods : mod[d].pc # "idle"
  /\ tap' = [t \in Taps |-> IdleTap]
  /\ mod' = [d \in Mods |-> IdleMod]
  /\ locked' = [m \in Msgs |-> None]
  /\ UNCHANGED <<msg, link, reports, log, events>>

Next ==
  \/ \E t \in Taps :
       \/ \E m \in Msgs, sev \in ReportSeverities : BeginReport(t, m, sev)
       \/ ReportStep(t)
  \/ \E d \in Mods :
       \/ \E i \in DOMAIN log, decision \in Decisions : BeginDecision(d, i, decision)
       \/ LookExisting(d) \/ CommitDecision(d)
  \/ \E m \in Msgs : Delete(m) \/ \E sev \in FlagSeverities : AutoFlag(m, sev)
  \/ Crash

Spec == Init /\ [][Next]_vars

-----------------------------------------------------------------------------
(* moderation_queue                                                        *)

\* Mutant: newest first, whatever the severity.
MutNoRank(sev) == 0

Rank(sev) == CASE sev = "L3" -> 0 [] sev = "L2" -> 1 [] sev = "L1" -> 2

\* System rows whose target no human has decided.
OpenRows == {i \in DOMAIN log : ~ IsHuman(log[i]) /\ HumanOn(log[i].target) = {}}

\* ORDER BY severity, newest first.
Before(i, j) == \/ Rank(log[i].sev) < Rank(log[j].sev)
                \/ Rank(log[i].sev) = Rank(log[j].sev) /\ i > j

\* LIMIT n
Page(n) == {i \in OpenRows : Cardinality({j \in OpenRows : Before(j, i)}) < n}

-----------------------------------------------------------------------------
(* Properties                                                              *)

Targets == {OnMsg(m) : m \in Msgs} \cup {OnLink(l) : l \in Links} \cup {OnPrint(f) : f \in Prints}

RowType ==
  [target : Targets, sev : {"L1", "L2", "L3"}, since : Nat,
   by : Mods \cup {System}, action : Decisions] \cup
  [target : Targets, sev : {"L1", "L2", "L3"}, since : Nat,
   by : {System}, action : {"user_report", "auto_flag"}]

TapType == [pc : {"idle", "load", "already", "prior", "queued", "flush", "link", "commit", "count",
                  "escalated", "escalate", "event"},
            m : Msgs \cup {None}, sev : {"L1", "L2", "L3"}, again : BOOLEAN, queued : BOOLEAN,
            score : Nat, count : Nat, active : BOOLEAN, sinceR : Nat, sinceL : Nat]

TypeOK ==
  /\ msg \in [Msgs -> [score : Nat, deleted : BOOLEAN]]
  /\ link \in [Links -> [active : BOOLEAN, count : Nat]]
  /\ reports \in Seq([msg : Msgs, since : Nat])
  /\ log \in Seq(RowType)
  /\ events \in [Msgs -> Nat]
  /\ locked \in [Msgs -> Taps \cup {None}]
  /\ tap \in [Taps -> TapType]
  /\ mod \in [Mods -> [pc : {"idle", "existing", "decide"}, row : Nat, decision : Decisions, since : Nat]]

\* The same thing said twice: two reports of a message, two rows in the queue
\* for it, two decisions on a target, two auto-disables, two escalations.
SameItem(r, s) ==
  /\ r.target = s.target
  /\ IsHuman(r) <=> IsHuman(s)
  /\ ~ IsHuman(r) => r.action = s.action

\* Every check-then-insert of the module lets a repeat through only when the
\* two updates overlap: one that began after the first had committed is a no-op.
RepeatsOnlyOverlap ==
  /\ \A i, j \in DOMAIN log : i < j /\ SameItem(log[i], log[j]) => log[j].since < i
  /\ \A i, j \in DOMAIN reports :
       i < j /\ reports[i].msg = reports[j].msg => reports[j].since < i

ReportsOn(l) == {i \in DOMAIN reports : LinkOf[reports[i].msg] = l}

\* However reports of one link interleave, its counter never runs ahead of the
\* reports there are, so it is never auto-disabled on fewer than Threshold.
CounterNeverAhead == \A l \in Links : link[l].count <= Cardinality(ReportsOn(l))

\* No link that reports or decisions turned off lacks a row of the audit log that says
\* who did.  (regenerate_link turns links off without one: its owner's doing.)
DisabledIsAudited ==
  \A l \in Links :
    ~ link[l].active =>
      \E i \in DOMAIN log : log[i].action = "disable_link" /\ l \in LinksFor(log[i].target)

\* Until a moderator decides on a message, every report of it is on the queue: one of
\* the rows that moderation_queue selects says so, also when the report wrote none
\* because another one's was there, and whatever the filter wrote.  (It need not have
\* been there before: a decision on what the filter wrote hides a later report.)
ReportIsQueued ==
  \A i \in DOMAIN reports :
    LET target == OnMsg(reports[i].msg) IN
    \/ \E j \in OpenRows : log[j].target = target /\ log[j].action = "user_report"
    \/ HumanOn(target) # {}

\* The report_created event counts reports that are there: whatever is deleted,
\* repeated or lost on the way, no event is written for a message without one.
EventHasReport == \A m \in Msgs : events[m] > 0 => ReportsOf(m) # {}

\* "A backlog of low-severity items can never push an older L3 out": if an open
\* L3 row is not on the page, the page is full of L3 rows.
L3NotCrowdedOut ==
  \A i \in OpenRows : log[i].sev = "L3" /\ i \notin Page(PageSize)
    => \A j \in Page(PageSize) : log[j].sev = "L3"

\* A message once deleted or hidden stays so, whatever stale copy a report in
\* flight has of it.
DeletedStaysDeleted ==
  [][\A m \in Msgs : msg[m].deleted => msg'[m].deleted]_vars

-----------------------------------------------------------------------------
(* What a comment of the code says, and concurrent reports refute          *)

\* "Report count at which a link is auto-disabled": a link with that many
\* reports is off.
ThresholdDisables ==
  \A l \in Links : Cardinality(ReportsOn(l)) >= Threshold => ~ link[l].active

-----------------------------------------------------------------------------
(* The inductive invariant of Moderation_proofs                            *)

\* What a report update knows when it is about to write: there is no report of the
\* message, no row of its kind, that is older than the update and that it missed.
SawNoReport(t) == \A i \in ReportsOf(MsgOf(t)) : tap[t].sinceR < i
SawQueue(t) ==
  LET asked == {i \in RowsOn(OnMsg(MsgOf(t))) : log[i].action = "user_report"} IN
  IF tap[t].queued THEN asked # {} ELSE \A i \in asked : tap[t].sinceL < i
SawLink(t) ==
  /\ tap[t].count <= Cardinality(ReportsOn(LinkOf[MsgOf(t)]))
  /\ tap[t].active => \A i \in RowsOn(OnLink(LinkOf[MsgOf(t)])) :
                        log[i].action = "disable_link" => tap[t].sinceL < i
SawNoEscalation(t) == \A i \in RowsOn(OnPrint(PrintOf[MsgOf(t)])) : tap[t].sinceL < i

TapOK(t) ==
  /\ ~ At(t, "idle") => MsgOf(t) \in Msgs
  /\ tap[t].sinceR <= Len(reports) /\ tap[t].sinceL <= Len(log)
  /\ tap[t].pc \in {"queued", "flush", "link", "commit"} => SawNoReport(t)
  /\ tap[t].pc \in {"flush", "link", "commit"} => SawQueue(t)
  /\ At(t, "commit") => SawLink(t)
  /\ At(t, "escalate") => SawNoEscalation(t)
  /\ tap[t].pc \in {"count", "escalated", "escalate", "event"} => ReportsOf(MsgOf(t)) # {}

ModOK(d) ==
  /\ mod[d].since <= Len(log)
  /\ mod[d].pc # "idle" => mod[d].row \in DOMAIN log
  /\ mod[d].pc = "decide" => \A i \in HumanOn(log[mod[d].row].target) : mod[d].since < i

\* A link is off once a row says so; nothing turns it on again.
DisabledIsOff ==
  \A l \in Links : \A i \in RowsOn(OnLink(l)) : log[i].action = "disable_link" => ~ link[l].active

\* A report leaves a row of its own kind, or found one.
ReportHasRow ==
  \A i \in DOMAIN reports :
    \E j \in RowsOn(OnMsg(reports[i].msg)) : log[j].action = "user_report"

IInv ==
  /\ TypeOK
  /\ \A t \in Taps : TapOK(t)
  /\ \A d \in Mods : ModOK(d)
  /\ DisabledIsOff
  /\ RepeatsOnlyOverlap /\ CounterNeverAhead /\ DisabledIsAudited
  /\ ReportHasRow /\ EventHasReport
=============================================================================
