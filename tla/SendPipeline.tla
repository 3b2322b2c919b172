---------------------------- MODULE SendPipeline ----------------------------
(***************************************************************************)
(* The anonymous send: POST /s/{token}/send (web/routes/sender.py) and     *)
(* send_message (core/services/messages.py), from the form token to the    *)
(* stored row, while the owner pauses, blocks and deletes and the link is  *)
(* replaced or disabled.  Requests of the two web processes interleave at  *)
(* every await; a step is one SELECT, one commit or one call of Redis.     *)
(*                                                                         *)
(* RateLimit.tla has the counters: here the limiter may answer either way. *)
(* Delivery.tla has what happens to a message once it is stored.           *)
(***************************************************************************)
EXTENDS AbuseFilter, Sequences, FiniteSets

CONSTANTS
  Calls,    \* requests in flight at the same time
  Links, Owners, Prints, Bodies,
  OwnerOf,  \* [Links -> Owners]
  TextOf,   \* [Bodies -> Texts]: what the filter sees in a body
  MaxMsgs   \* bounds the rows of messages

ASSUME PipelineConstants ==
  /\ OwnerOf \in [Links -> Owners]
  /\ TextOf \in [Bodies -> Texts]
  /\ MaxMsgs \in Nat

VARIABLES
  active,   \* links with public_links.active
  paused,   \* owners with settings.paused
  blocks,   \* rows of blocks: <<owner, fingerprint>>
  msgs,     \* rows of messages, in id order
  call      \* call[c]: local variables of request c

vars == <<active, paused, blocks, msgs, call>>

\* What the form can get wrong: an expired or foreign csrf token, a body that
\* is empty or too long.
Forms == {"ok", "badToken", "badBody"}

Answers == {"none", "error", "invalid_link", "paused", "validation_error",
            "rate_limited", "needs_warning", "success"}

PCs == {"idle", "link", "owner", "block", "rate", "duplicate", "store", "second", "enqueue"}

Bars == {"blocked", "off", "paused"}

\* on: link.active as ReadLink saw it; row: the message this request stored.
\* barred and twins are no variables of the code: what has stood against this
\* request, and which recent messages were the same send, ever since it began.
CallType == [pc : PCs, print : Prints, link : Links, body : Bodies, ack : BOOLEAN,
             form : Forms, on : BOOLEAN, row : Nat, answer : Answers,
             barred : SUBSET Bars, twins : SUBSET Nat]

\* blank: body = "", by delete_message or L3; recent: created less than
\* DUPLICATE_WINDOW_SECONDS ago; ack, barred and twins as the request had them.
RowType == [print : Prints, link : Links, body : Bodies, blank : BOOLEAN,
            recent : BOOLEAN, flagged : BOOLEAN, ack : BOOLEAN,
            barred : SUBSET Bars, twins : SUBSET Nat]

\* A request that has not begun; whose it was to be does not matter.
NoCall(f, l, b) ==
  [pc |-> "idle", print |-> f, link |-> l, body |-> b, ack |-> FALSE, form |-> "ok",
   on |-> FALSE, row |-> 0, answer |-> "none", barred |-> {}, twins |-> {}]

Init ==
  /\ active = Links
  /\ paused = {}
  /\ blocks = {}
  /\ msgs = <<>>
  /\ \E f \in Prints, l \in Links, b \in Bodies : call = [c \in Calls |-> NoCall(f, l, b)]

-----------------------------------------------------------------------------
(* A request                                                               *)

At(c, pc) == call[c].pc = pc
Me(c)     == <<OwnerOf[call[c].link], call[c].print>>
Sev(c)    == Severity(TextOf[call[c].body])

Goto(c, pc)      == call' = [call EXCEPT ![c].pc = pc]
Reply(c, answer) ==
  call' = [call EXCEPT ![c] = [@ EXCEPT !.pc = "idle", !.answer = answer, !.on = FALSE,
                                        !.row = 0, !.barred = {}, !.twins = {}]]

Look == UNCHANGED <<active, paused, blocks, msgs>>

\* Message i is what f sends to l as b.
SameSend(i, f, l, b) == msgs[i].print = f /\ msgs[i].link = l /\ msgs[i].body = b

BarsNow(f, l) ==
  {b \in Bars : \/ b = "blocked" /\ <<OwnerOf[l], f>> \in blocks
                \/ b = "off" /\ l \notin active
                \/ b = "paused" /\ OwnerOf[l] \in paused}

InFlight == {c \in Calls : ~ At(c, "idle")}

\* verify_csrf_token decides before anything is read.
Begin(c, f, l, b, ack, form) ==
  /\ At(c, "idle")
  /\ Len(msgs) + Cardinality(InFlight) < MaxMsgs
  /\ \/ form = "badToken" /\ Reply(c, "error")
     \/ /\ form # "badToken"
        /\ call' = [call EXCEPT ![c] =
             [pc |-> "link", print |-> f, link |-> l, body |-> b, ack |-> ack, form |-> form,
              on |-> FALSE, row |-> 0, answer |-> "none", barred |-> BarsNow(f, l),
              twins |-> {i \in DOMAIN msgs : SameSend(i, f, l, b) /\ msgs[i].recent}]]
  /\ Look

\* get_link_by_token
ReadLink(c) ==
  /\ At(c, "link")
  /\ call' = [call EXCEPT ![c].pc = "owner", ![c].on = (call[c].link \in active)]
  /\ Look

\* Mutant: the pause is left to the page that was served.
MutNoPauseCheck(c) ==
  /\ At(c, "owner")
  /\ IF ~ call[c].on THEN Reply(c, "invalid_link")
     ELSE IF call[c].form = "badBody" THEN Reply(c, "validation_error")
     ELSE Goto(c, "block")
  /\ Look

\* session.get(User); then, without an await, everything that needs no query.
ReadOwner(c) ==
  /\ At(c, "owner")
  /\ IF OwnerOf[call[c].link] \in paused THEN Reply(c, "paused")
     ELSE IF ~ call[c].on THEN Reply(c, "invalid_link")
     ELSE IF call[c].form = "badBody" THEN Reply(c, "validation_error")
     ELSE Goto(c, "block")
  /\ Look

\* Mutant: the send that acknowledges a warning is taken to be checked already.
MutBlockOnce(c) ==
  /\ At(c, "block")
  /\ IF Me(c) \in blocks /\ ~ call[c].ack THEN Reply(c, "success") ELSE Goto(c, "rate")
  /\ Look

\* _is_blocked: the sender sees a normal success screen.
CheckBlock(c) ==
  /\ At(c, "block")
  /\ IF Me(c) \in blocks THEN Reply(c, "success") ELSE Goto(c, "rate")
  /\ Look

\* Mutant: the limiter's refusal is as silent as the block's.
MutSilentLimit(c) ==
  /\ At(c, "rate")
  /\ \/ Reply(c, "success")
     \/ /\ ShouldWarn(TextOf[call[c].body]) /\ ~ call[c].ack
        /\ Reply(c, "needs_warning")
     \/ /\ ~ ShouldWarn(TextOf[call[c].body]) \/ call[c].ack
        /\ Goto(c, "duplicate")
  /\ Look

\* check_send_rate_limits, then analyze: a text that should warn goes on only
\* when the sender has acknowledged the warning.
CheckRate(c) ==
  /\ At(c, "rate")
  /\ \/ Reply(c, "rate_limited")
     \/ /\ ShouldWarn(TextOf[call[c].body]) /\ ~ call[c].ack
        /\ Reply(c, "needs_warning")
     \/ /\ ~ ShouldWarn(TextOf[call[c].body]) \/ call[c].ack
        /\ Goto(c, "duplicate")
  /\ Look

\* Mutant: created_at <= cutoff.
MutOldDuplicates(c) ==
  {i \in DOMAIN msgs : /\ SameSend(i, call[c].print, call[c].link, call[c].body)
                       /\ ~ msgs[i].recent /\ ~ msgs[i].blank}

\* _find_recent_duplicate compares bodies, so it finds no blanked row.
Duplicates(c) ==
  {i \in DOMAIN msgs : /\ SameSend(i, call[c].print, call[c].link, call[c].body)
                       /\ msgs[i].recent /\ ~ msgs[i].blank}

FindDuplicate(c) ==
  /\ At(c, "duplicate")
  /\ IF Duplicates(c) # {} THEN Reply(c, "success") ELSE Goto(c, "store")
  /\ Look

\* The first commit: the row.
Store(c) ==
  /\ At(c, "store")
  /\ msgs' = Append(msgs,
       [print |-> call[c].print, link |-> call[c].link, body |-> call[c].body,
        blank |-> FALSE, recent |-> TRUE, flagged |-> FALSE, ack |-> call[c].ack,
        barred |-> call[c].barred, twins |-> call[c].twins])
  /\ call' = [call EXCEPT ![c].pc = IF Sev(c) = "NONE" THEN "enqueue" ELSE "second",
                          ![c].row = Len(msgs) + 1]
  /\ UNCHANGED <<active, paused, blocks>>

\* The second commit: the auto_flag row; L3 blanks the message and is done.
SecondCommit(c) ==
  /\ At(c, "second")
  /\ msgs' = [msgs EXCEPT ![call[c].row].flagged = TRUE,
                          ![call[c].row].blank = @ \/ Sev(c) = "L3"]
  /\ IF Sev(c) = "L3" THEN Reply(c, "success") ELSE Goto(c, "enqueue")
  /\ UNCHANGED <<active, paused, blocks>>

\* RPUSH and the answer.
Enqueue(c) ==
  /\ At(c, "enqueue")
  /\ Reply(c, "success")
  /\ Look

\* The web process dies, or Postgres or Redis does not answer: status 500.
Fail(c) ==
  /\ ~ At(c, "idle")
  /\ Reply(c, "error")
  /\ Look

Step(c) ==
  \/ ReadLink(c) \/ ReadOwner(c) \/ CheckBlock(c) \/ CheckRate(c)
  \/ FindDuplicate(c) \/ Store(c) \/ SecondCommit(c) \/ Enqueue(c) \/ Fail(c)

-----------------------------------------------------------------------------
(* The owner, moderation and time                                          *)

\* block_sender, from a message in the inbox.
Block(i) ==
  /\ <<OwnerOf[msgs[i].link], msgs[i].print>> \notin blocks
  /\ blocks' = blocks \cup {<<OwnerOf[msgs[i].link], msgs[i].print>>}
  /\ UNCHANGED <<active, paused, msgs, call>>

\* set_paused(True)
Pause(o) ==
  /\ o \notin paused
  /\ paused' = paused \cup {o}
  /\ UNCHANGED <<active, blocks, msgs, call>>

\* set_paused(False)
Resume(o) ==
  /\ o \in paused
  /\ paused' = paused \ {o}
  /\ call' = [c \in Calls |-> IF OwnerOf[call[c].link] = o
                              THEN [call[c] EXCEPT !.barred = @ \ {"paused"}] ELSE call[c]]
  /\ UNCHANGED <<active, blocks, msgs>>

\* regenerate_link or moderation; no link is ever turned on again (Links.tla).
TurnOff(l) ==
  /\ l \in active
  /\ active' = active \ {l}
  /\ UNCHANGED <<paused, blocks, msgs, call>>

\* delete_message
Delete(i) ==
  /\ ~ msgs[i].blank
  /\ msgs' = [msgs EXCEPT ![i].blank = TRUE]
  /\ UNCHANGED <<active, paused, blocks, call>>

\* DUPLICATE_WINDOW_SECONDS pass for row i.
Forget(i) ==
  /\ msgs[i].recent
  /\ msgs' = [msgs EXCEPT ![i].recent = FALSE]
  /\ call' = [c \in Calls |-> [call[c] EXCEPT !.twins = @ \ {i}]]
  /\ UNCHANGED <<active, paused, blocks>>

Around ==
  \/ \E i \in DOMAIN msgs : Block(i) \/ Delete(i) \/ Forget(i)
  \/ \E o \in Owners : Pause(o) \/ Resume(o)
  \/ \E l \in Links : TurnOff(l)

Next ==
  \/ \E c \in Calls :
       \/ \E f \in Prints, l \in Links, b \in Bodies, ack \in BOOLEAN, form \in Forms :
            Begin(c, f, l, b, ack, form)
       \/ Step(c)
  \/ Around

Spec == Init /\ [][Next]_vars

-----------------------------------------------------------------------------
(* Properties                                                              *)

TypeOK ==
  /\ active \subseteq Links
  /\ paused \subseteq Owners
  /\ blocks \subseteq Owners \X Prints
  /\ msgs \in Seq(RowType)
  /\ call \in [Calls -> CallType]
  /\ \A c \in Calls : call[c].row <= Len(msgs)

\* A block holds from the moment its commit returns: nothing is stored for a
\* request that began after it, whatever else went on during the request.
BlockHolds == \A i \in DOMAIN msgs : "blocked" \notin msgs[i].barred

\* Nothing is stored for a request that found its link off when it began, or
\* its owner paused from beginning to end.
ClosedLinkHolds == \A i \in DOMAIN msgs : msgs[i].barred \cap {"off", "paused"} = {}

\* A second row for the same send takes two requests that overlap, or a first
\* row whose body is gone by then.
DuplicatesNeedOverlap ==
  \A j \in DOMAIN msgs : \A i \in msgs[j].twins : msgs[i].blank

\* The success screen is shown to senders who were blocked, and to senders whose
\* message was stored - as their own row, or as the duplicate it repeats.
SuccessIsKept ==
  \A c \in Calls : call[c].answer = "success" =>
    \/ Me(c) \in blocks
    \/ \E i \in DOMAIN msgs : SameSend(i, call[c].print, call[c].link, call[c].body)

\* Nobody is surprised by the filter: every message it flags L2 or L3 was sent
\* by someone who had seen the warning and went on.
FlaggedWasWarned ==
  \A i \in DOMAIN msgs : Severity(TextOf[msgs[i].body]) \in {"L2", "L3"} => msgs[i].ack

-----------------------------------------------------------------------------
(* Why they hold: the inductive invariant of SendPipeline_proofs           *)

PastOwner == {"block", "rate", "duplicate", "store", "second", "enqueue"}
PastBlock == PastOwner \ {"block"}
PastRate  == PastBlock \ {"rate"}

\* What stood against a request since it began stands still; and a request
\* that is past a check has nothing of that kind against it.
BarsOK(c) ==
  /\ "blocked" \in call[c].barred => Me(c) \in blocks
  /\ "off" \in call[c].barred => call[c].link \notin active
  /\ "paused" \in call[c].barred => OwnerOf[call[c].link] \in paused
  /\ At(c, "owner") /\ "off" \in call[c].barred => ~ call[c].on
  /\ call[c].pc \in PastOwner => call[c].barred \cap {"off", "paused"} = {}
  /\ call[c].pc \in PastBlock => "blocked" \notin call[c].barred
  /\ call[c].pc \in PastRate /\ ShouldWarn(TextOf[call[c].body]) => call[c].ack

\* The same sends a request began after are there and recent; once it has
\* looked for them, their bodies are gone.
TwinsOK(c) ==
  /\ \A i \in call[c].twins : /\ i \in DOMAIN msgs /\ msgs[i].recent
                             /\ SameSend(i, call[c].print, call[c].link, call[c].body)
  /\ At(c, "store") => \A i \in call[c].twins : msgs[i].blank
  /\ At(c, "second") => call[c].row # 0

RowOK(i) ==
  /\ msgs[i].barred = {}
  /\ ShouldWarn(TextOf[msgs[i].body]) => msgs[i].ack
  /\ \A j \in msgs[i].twins : j \in DOMAIN msgs /\ msgs[j].blank

IInv ==
  /\ TypeOK
  /\ \A c \in Calls : BarsOK(c) /\ TwinsOK(c)
  /\ \A i \in DOMAIN msgs : RowOK(i)

=============================================================================
