------------------------------- MODULE Inbox --------------------------------
(***************************************************************************)
(* One recipient's inbox (bot/handlers/inbox.py): the list, an opened      *)
(* message, delete, block and the share card, while messages arrive and    *)
(* the filter takes some back.  Every tap is a task with a session of its  *)
(* own: what it loaded stays as it was in that session, whatever other     *)
(* taps commit.  Cards are drawn in threads that share the static layer of *)
(* cards/render.py.                                                        *)
(*                                                                         *)
(* Reports are in Moderation.tla; they end like "list".  Which text a body *)
(* is matters to the card alone, which is therefore of any of Bodies.      *)
(***************************************************************************)
EXTENDS ShareCard

CONSTANTS
  Msgs,      \* a set of numbers: messages to the recipient, by time of creation
  Prints,    \* fingerprints
  PrintOf,   \* [Msgs -> Prints]
  Taps,      \* updates in flight at the same time
  Bodies,    \* texts a message may have
  PageSize,  \* limit of get_inbox_messages (20)
  None

ASSUME InboxConstants ==
  /\ Msgs \subseteq Nat
  /\ PrintOf \in [Msgs -> Prints]
  /\ PageSize \in Nat \ {0}
  /\ Bodies \subseteq Seq(Atoms)
  /\ None \notin BOOLEAN /\ None \notin Msgs /\ None \notin Taps

VARIABLES
  row,     \* row[m]: the messages row
  blocks,  \* fingerprints in the recipient's blocks rows
  tap,     \* tap[t]: the local variables of update t
  layer,   \* how often this process has built the static layer
  lock     \* the tap whose thread holds _static_lock, or None

vars == <<row, blocks, tap, layer, lock>>

Ops == {"list", "open", "prompt", "delete", "block", "card"}

NoRow == [state |-> "none", opened |-> FALSE]

\* copy is message.opened_at as the session loaded it; list is what the query of
\* the list returned and fresh what the list shows as unread.  The rest is history:
\* rows and blocks when the update came in, and whether it set opened_at.
NoTap == [pc |-> "idle", op |-> "list", msg |-> None, copy |-> None, list |-> {}, fresh |-> {},
          began |-> [m \in Msgs |-> NoRow], blocked |-> {}, marked |-> FALSE]

Init ==
  /\ row = [m \in Msgs |-> NoRow]
  /\ blocks = {}
  /\ tap = [t \in Taps |-> NoTap]
  /\ layer \in {0, 1}   \* warm_up is best effort
  /\ lock = None

-----------------------------------------------------------------------------
At(t, pc) == tap[t].pc = pc
Goto(t, pc) == tap' = [tap EXCEPT ![t].pc = pc]
Finish(t) == tap' = [tap EXCEPT ![t] = NoTap]
Listed == {m \in Msgs : row[m].state = "in"}

ReadOnly == UNCHANGED <<row, blocks, layer, lock>>

\* A callback of this user: of any message, from any screen they still have.
Begin(t, op, m) ==
  /\ tap[t].pc \in {"idle", "raised"}
  /\ op = "list" <=> m = None
  /\ tap' = [tap EXCEPT ![t] = [NoTap EXCEPT
       !.pc = CASE op = "list" -> "query" [] op = "prompt" -> "prompt" [] OTHER -> "load",
       !.op = op, !.msg = m, !.began = row, !.blocked = blocks]]
  /\ ReadOnly

\* on_delete_prompt, on_block_prompt, on_report_prompt: they look up no message.
Prompt(t) == At(t, "prompt") /\ Finish(t) /\ ReadOnly

\* What a handler does with the message it found.
AfterLoad(op) ==
  CASE op = "open" -> "mark" [] op = "delete" -> "delete" [] op = "block" -> "lookBlock"
    [] op = "card" -> "layer"

\* Mutant: deleted messages are found as well.
MutLoadAny(t) ==
  /\ At(t, "load")
  /\ LET m == tap[t].msg IN
     IF row[m].state # "none"
     THEN tap' = [tap EXCEPT ![t].pc = AfterLoad(tap[t].op), ![t].copy = row[m].opened]
     ELSE IF tap[t].op \in {"open", "card"} THEN Finish(t)
     ELSE Goto(t, "query")
  /\ ReadOnly

\* get_message_for_recipient; without a message, "open" and "card" answer with an
\* alert, "delete" and "block" go on to the list.
Load(t) ==
  /\ At(t, "load")
  /\ LET m == tap[t].msg IN
     IF row[m].state = "in"
     THEN tap' = [tap EXCEPT ![t].pc = AfterLoad(tap[t].op), ![t].copy = row[m].opened]
     ELSE IF tap[t].op \in {"open", "card"} THEN Finish(t)
     ELSE Goto(t, "query")
  /\ ReadOnly

\* Mutant: opened_at is set at every opening.
MutMarkAlways(t) ==
  /\ At(t, "mark")
  /\ row' = [row EXCEPT ![tap[t].msg].opened = TRUE]
  /\ tap' = [tap EXCEPT ![t].pc = "show", ![t].marked = TRUE]
  /\ UNCHANGED <<blocks, layer, lock>>

\* mark_opened, by the copy; the UPDATE names the row, deleted meanwhile or not.
Mark(t) ==
  /\ At(t, "mark")
  /\ IF tap[t].copy
     THEN Goto(t, "show") /\ UNCHANGED row
     ELSE /\ row' = [row EXCEPT ![tap[t].msg].opened = TRUE]
          /\ tap' = [tap EXCEPT ![t].pc = "show", ![t].marked = TRUE]
  /\ UNCHANGED <<blocks, layer, lock>>

\* on_message_open: the event, and the screen with the body of the copy.
Show(t) == At(t, "show") /\ Finish(t) /\ ReadOnly

\* delete_message, and its event.
Delete(t) ==
  /\ At(t, "delete")
  /\ row' = [row EXCEPT ![tap[t].msg].state = "gone"]
  /\ Goto(t, "query")
  /\ UNCHANGED <<blocks, layer, lock>>

PrintAt(t) == PrintOf[tap[t].msg]

\* Mutant: block_sender does not look first.
MutNoLook(t) == At(t, "lookBlock") /\ Goto(t, "insertBlock") /\ ReadOnly

\* block_sender: a row that is there is enough.
LookBlock(t) ==
  /\ At(t, "lookBlock")
  /\ Goto(t, IF PrintAt(t) \in blocks THEN "confirm" ELSE "insertBlock")
  /\ ReadOnly

\* block_sender: INSERT.  A rival's row makes it roll back, which expires every
\* object of the session: user.lang of the handler then raises, before the tap is
\* answered.
InsertBlock(t) ==
  /\ At(t, "insertBlock")
  /\ blocks' = blocks \cup {PrintAt(t)}
  /\ Goto(t, IF PrintAt(t) \in blocks THEN "raised" ELSE "confirm")
  /\ UNCHANGED <<row, layer, lock>>

\* on_block_confirm: the event and the alert.
Confirm(t) == At(t, "confirm") /\ Goto(t, "query") /\ ReadOnly

\* Mutant: the oldest messages first.
MutPageOldest ==
  {m \in Listed : Cardinality({k \in Listed : k < m}) < PageSize}

\* get_inbox_messages: the newest that are not deleted.
Page == {m \in Listed : Cardinality({k \in Listed : k > m}) < PageSize}

\* inbox_keyboard: the messages marked as unread.  One that the session had loaded
\* before keeps the opened_at of the copy.
Unread(t) ==
  {m \in Page : ~ IF m = tap[t].msg /\ tap[t].copy # None THEN tap[t].copy ELSE row[m].opened}

\* _inbox_view: the query, from which the list is made.
Query(t) ==
  /\ At(t, "query")
  /\ tap' = [tap EXCEPT ![t].pc = "showList", ![t].list = Page, ![t].fresh = Unread(t)]
  /\ ReadOnly

\* _inbox_view, _render_inbox: the event, and the screen.
ShowList(t) == At(t, "showList") /\ Finish(t) /\ ReadOnly

-----------------------------------------------------------------------------
(* The card, in its thread                                                 *)

\* _get_static_layer: the look without the lock.
CheckLayer(t) ==
  /\ At(t, "layer")
  /\ Goto(t, IF layer > 0 THEN "photo" ELSE "lock")
  /\ ReadOnly

\* Mutant: the thread does not wait for the lock.
MutLockAnyway(t) ==
  /\ At(t, "lock")
  /\ lock' = t
  /\ Goto(t, "again")
  /\ UNCHANGED <<row, blocks, layer>>

Lock(t) ==
  /\ At(t, "lock")
  /\ lock = None
  /\ lock' = t
  /\ Goto(t, "again")
  /\ UNCHANGED <<row, blocks, layer>>

\* The second look, under the lock.
LookAgain(t) ==
  /\ At(t, "again")
  /\ IF layer > 0 THEN lock' = None /\ Goto(t, "photo")
                  ELSE lock' = lock /\ Goto(t, "compose")
  /\ UNCHANGED <<row, blocks, layer>>

\* _build_static_layer, which may raise; either way the lock is given back.
Compose(t) ==
  /\ At(t, "compose")
  /\ lock' = None
  /\ \/ layer' = layer + 1 /\ Goto(t, "photo")
     \/ UNCHANGED layer /\ Finish(t)
  /\ UNCHANGED <<row, blocks>>

\* answer_photo with the card of the copy's body, and the event.
Photo(t) == At(t, "photo") /\ Finish(t) /\ ReadOnly

-----------------------------------------------------------------------------
(* Around the taps                                                         *)

\* The next message is stored (SendPipeline.tla).
Arrive(m) ==
  /\ row[m].state = "none"
  /\ \A k \in Msgs : k < m => row[k].state # "none"
  /\ row' = [row EXCEPT ![m].state = "in"]
  /\ UNCHANGED <<blocks, tap, layer, lock>>

\* send_message, L3: the second commit takes the message back.
AutoRemove(m) ==
  /\ row[m].state = "in"
  /\ row' = [row EXCEPT ![m].state = "gone"]
  /\ UNCHANGED <<blocks, tap, layer, lock>>

\* A call of the Bot API raises; on_error, or on_share_card itself, ends the tap.
Fail(t) ==
  /\ tap[t].pc \in {"show", "confirm", "showList", "photo"}
  /\ Finish(t)
  /\ ReadOnly

\* The bot process dies and starts again.
Crash ==
  /\ tap' = [t \in Taps |-> NoTap]
  /\ layer' \in {0, 1}
  /\ lock' = None
  /\ UNCHANGED <<row, blocks>>

Step(t) ==
  \/ Prompt(t) \/ Load(t) \/ Mark(t) \/ Show(t) \/ Delete(t)
  \/ LookBlock(t) \/ InsertBlock(t) \/ Confirm(t) \/ Query(t) \/ ShowList(t)
  \/ CheckLayer(t) \/ Lock(t) \/ LookAgain(t) \/ Compose(t) \/ Photo(t)

Next ==
  \/ \E t \in Taps : \/ \E op \in Ops, m \in Msgs \cup {None} : Begin(t, op, m)
                     \/ Step(t) \/ Fail(t)
  \/ \E m \in Msgs : Arrive(m) \/ AutoRemove(m)
  \/ Crash

Spec == Init /\ [][Next]_vars

-----------------------------------------------------------------------------
(* Properties                                                              *)

\* The parts of the handlers that have a message, and those that found it.
HasFound == {"mark", "show", "delete", "lookBlock", "insertBlock", "confirm", "raised",
             "layer", "lock", "again", "compose", "photo"}
HasMessage == HasFound \cup {"load"}

RowType == [state : {"none", "in", "gone"}, opened : BOOLEAN]

TapType == [pc : HasMessage \cup {"idle", "prompt", "query", "showList"}, op : Ops,
            msg : Msgs \cup {None}, copy : BOOLEAN \cup {None},
            list : SUBSET Msgs, fresh : SUBSET Msgs,
            began : [Msgs -> RowType], blocked : SUBSET Prints, marked : BOOLEAN]

TypeOK ==
  /\ row \in [Msgs -> RowType]
  /\ blocks \subseteq Prints
  /\ tap \in [Taps -> TapType]
  /\ layer \in Nat
  /\ lock \in Taps \cup {None}

\* The messages that an update is about to mark, show, delete or confirm a block for.
Touched(t) ==
  CASE tap[t].pc \in {"mark", "show", "delete", "confirm", "photo"} -> {tap[t].msg}
    [] At(t, "showList") -> tap[t].list
    [] OTHER -> {}

\* "The content is gone": an update that came in after a message was deleted, or
\* taken back by the filter, does not show or list it, draws no card of it, sets no
\* opened_at and confirms nothing about it - whatever else is in flight.
NothingAfterRemoval ==
  \A t \in Taps : \A m \in Touched(t) : tap[t].began[m].state # "gone"

\* An update that came in after a message was opened neither sets opened_at once
\* more nor shows the message as unread, though both go by a session's copy.
OpenedIsKept ==
  \A t \in Taps :
    /\ tap[t].marked => ~ tap[t].began[tap[t].msg].opened
    /\ \A m \in tap[t].fresh : ~ tap[t].began[m].opened

\* What was there all along is on the list, unless a full page of newer messages
\* is (the list has no second page: such a message has to wait for deletions).
ListIsComplete ==
  \A t \in Taps : At(t, "showList") =>
    \A m \in Listed \ tap[t].list :
      tap[t].began[m].state = "in" => Cardinality({k \in tap[t].list : k > m}) = PageSize

\* "Catch the IntegrityError rather than erroring out" reaches as far as this: a tap
\* on "block" fails only beside another one that blocked the same sender meanwhile,
\* and the block is in place.
OnlyRaceRaises ==
  \A t \in Taps : At(t, "raised") => PrintAt(t) \in blocks \ tap[t].blocked

\* However many cards are drawn at once, a process composes the static layer once.
LayerBuiltOnce == layer <= 1

Cards == [b \in Bodies |-> Card(b)]

\* The bodies whose card is as it should be; TLC evaluates them once.
Readable == {b \in Bodies : ShowsText(Cards[b], b)}
Balanced ==
  {b \in Bodies : \A size \in Sizes, p \in ToSet(Split(Sanitize(b), "nl")) :
     LET words == Words(p, size) IN
     words # <<>> /\ (\A w \in ToSet(words) : Measure(w, size) <= PanelW)
       => IsBalanced(words, size, WrapParagraph(p, size))}

\* A card that is sent shows the whole text inside the panel, or as much as fits and
\* an ellipsis; nothing is cut that smaller letters had room for.  (What is left may end
\* in a piece of an emoji; an emoji wider than the panel is not kept inside it.)
CardShowsText == \A t \in Taps : At(t, "photo") => Readable = Bodies

\* The bisection over greedy wrapping comes within a pixel of what trying every wrap
\* finds: no paragraph, at no size, takes more lines than it must, or has a widest line
\* that could be narrower by a pixel.
CardIsBalanced == \A t \in Taps : At(t, "photo") => Balanced = Bodies

-----------------------------------------------------------------------------
(* The inductive invariant of Inbox_proofs                                 *)

Stored == {m \in Msgs : row[m].state # "none"}

\* Since an update came in, messages were only deleted and opened, senders only
\* blocked.
OnlyForward(t) ==
  /\ \A m \in Msgs : /\ tap[t].began[m].state = "gone" => row[m].state = "gone"
                     /\ tap[t].began[m].state = "in" => m \in Stored
                     /\ tap[t].began[m].opened => row[m].opened
  /\ tap[t].blocked \subseteq blocks

\* What an update has read is not older than what was there when it came in.
ReadOK(t) ==
  /\ tap[t].pc \in HasMessage => tap[t].msg \in Msgs
  /\ At(t, "load") => tap[t].op \in {"open", "delete", "block", "card"}
  /\ tap[t].pc \in HasFound => tap[t].began[tap[t].msg].state # "gone"
  /\ At(t, "mark") => tap[t].copy \in BOOLEAN
  /\ tap[t].msg \in Msgs /\ tap[t].copy \in BOOLEAN /\ tap[t].began[tap[t].msg].opened => tap[t].copy
  /\ At(t, "insertBlock") => PrintAt(t) \notin tap[t].blocked
  /\ At(t, "raised") => PrintAt(t) \in blocks \ tap[t].blocked
  /\ At(t, "showList") => \A m \in tap[t].list : tap[t].began[m].state # "gone"

\* The thread that holds the lock is between its second look and the end of its work.
LockOK ==
  /\ \A t \in Taps : tap[t].pc \in {"again", "compose"} <=> lock = t
  /\ \A t \in Taps : At(t, "compose") => layer = 0
  /\ layer <= 1

IInv ==
  /\ TypeOK
  /\ IsFiniteSet(Stored)
  /\ \A t \in Taps : OnlyForward(t) /\ ReadOK(t)
  /\ OpenedIsKept
  /\ ListIsComplete
  /\ LockOK
=============================================================================
