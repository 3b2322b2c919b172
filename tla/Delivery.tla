------------------------------ MODULE Delivery ------------------------------
(***************************************************************************)
(* From a stored message to its Telegram notification.                     *)
(*                                                                         *)
(*   send_message (core/services/messages.py), the tail after its checks:  *)
(*   INSERT and commit, then either flag and hide (L3) or flag (L1, L2),   *)
(*   then RPUSH of the message id.                                         *)
(*                                                                         *)
(*   The worker (workers/notifier.py): one loop that pops an id, delivers  *)
(*   with up to MaxAttempts tries, and now and then sweeps Postgres for    *)
(*   messages that should have been notified by now.                       *)
(*                                                                         *)
(* Postgres survives everything; the Redis queue, the web handlers and the *)
(* worker do not.  A step is one commit, one Redis command or one call of  *)
(* the Bot API.                                                            *)
(***************************************************************************)
EXTENDS Naturals, Sequences

CONSTANTS
  Msgs,         \* messages sent
  Users,        \* recipients
  To,           \* [Msgs -> Users]
  MaxAttempts,  \* MAX_ATTEMPTS of the notifier
  MaxFaults,    \* bounds crashes, lost queues, failed commits, failed API calls
  QueueBound    \* the sweep timer waits while the queue is longer than this

ASSUME DeliveryConstants ==
  /\ To \in [Msgs -> Users]
  /\ MaxAttempts \in Nat \ {0}
  /\ MaxFaults \in Nat
  /\ QueueBound \in Nat
  /\ "none" \notin Msgs

VARIABLES
  sender,    \* sender[m]: where m's web handler is
  row,       \* row[m]: the messages row, and its auto_flag row
  stale,     \* messages created more than STALE_AFTER_SECONDS ago
  blocks,    \* users who have the bot blocked in Telegram right now
  blockedBot,\* users with users.blocked_bot = true
  queue,     \* the Redis list
  worker,    \* the worker's local variables
  due,       \* SWEEP_INTERVAL_SECONDS have passed since last_sweep
  delivered, \* delivered[m]: notifications Telegram accepted for m
  faults     \* faults so far

vars == <<sender, row, stale, blocks, blockedBot, queue, worker, due,
          delivered, faults>>

NoMsg == "none"

\* "L12" stands for L1 and L2, which are treated alike after the filter.
Severities == {"NONE", "L12", "L3"}

SenderPCs == {"start", "stored", "enqueue", "sent", "lost"}

RowType == [stored : BOOLEAN, sev : Severities, flagged : BOOLEAN,
            deleted : BOOLEAN, notified : BOOLEAN]

NoRow == [stored |-> FALSE, sev |-> "NONE", flagged |-> FALSE,
          deleted |-> FALSE, notified |-> FALSE]

WorkerPCs == {"pop", "load", "send", "commit", "track", "markBlocked", "sweep", "push"}

\* swept is the result of the sweep's query that is still to be pushed;
\* broken: a commit failed, the session refuses everything until it is closed.
Idle == [pc |-> "pop", cur |-> NoMsg, attempt |-> 0, broken |-> FALSE, swept |-> {}]

Init ==
  /\ sender = [m \in Msgs |-> "start"]
  /\ row = [m \in Msgs |-> NoRow]
  /\ stale = {}
  /\ blocks = {}
  /\ blockedBot = {}
  /\ queue = <<>>
  /\ worker = Idle
  /\ due = TRUE
  /\ delivered = [m \in Msgs |-> 0]
  /\ faults = 0

Fault == faults < MaxFaults /\ faults' = faults + 1

-----------------------------------------------------------------------------
(* The web handler of message m                                            *)

SenderFrame == UNCHANGED <<stale, blocks, blockedBot, worker, due, delivered>>

\* Mutant: L1 and L2 are enqueued before they are flagged.
MutStoreEnqueueFirst(m) ==
  /\ sender[m] = "start"
  /\ \E sev \in Severities :
       /\ row' = [row EXCEPT ![m] = [NoRow EXCEPT !.stored = TRUE, !.sev = sev]]
       /\ sender' = [sender EXCEPT ![m] = IF sev = "L3" THEN "stored" ELSE "enqueue"]
  /\ UNCHANGED <<queue, faults>> /\ SenderFrame

\* session.add(message); commit.  What the filter found decides what follows.
Store(m) ==
  /\ sender[m] = "start"
  /\ \E sev \in Severities :
       /\ row' = [row EXCEPT ![m] = [NoRow EXCEPT !.stored = TRUE, !.sev = sev]]
       /\ sender' = [sender EXCEPT ![m] = IF sev = "NONE" THEN "enqueue" ELSE "stored"]
  /\ UNCHANGED <<queue, faults>> /\ SenderFrame

\* Mutant: L3 is flagged and kept out of the queue, but not hidden.
MutFlagOnly(m) ==
  /\ sender[m] = "stored"
  /\ row[m].sev = "L3"
  /\ row' = [row EXCEPT ![m].flagged = TRUE]
  /\ sender' = [sender EXCEPT ![m] = "sent"]
  /\ UNCHANGED <<queue, faults>> /\ SenderFrame

\* L3: auto_flag row, body and deleted_at in a second commit; never enqueued.
FlagAndHide(m) ==
  /\ sender[m] = "stored"
  /\ row[m].sev = "L3"
  /\ row' = [row EXCEPT ![m].flagged = TRUE, ![m].deleted = TRUE]
  /\ sender' = [sender EXCEPT ![m] = "sent"]
  /\ UNCHANGED <<queue, faults>> /\ SenderFrame

\* L1, L2: the auto_flag row in a second commit.
Flag(m) ==
  /\ sender[m] = "stored"
  /\ row[m].sev = "L12"
  /\ row' = [row EXCEPT ![m].flagged = TRUE]
  /\ sender' = [sender EXCEPT ![m] = "enqueue"]
  /\ UNCHANGED <<queue, faults>> /\ SenderFrame

Enqueue(m) ==
  /\ sender[m] = "enqueue"
  /\ queue' = Append(queue, m)
  /\ sender' = [sender EXCEPT ![m] = "sent"]
  /\ UNCHANGED <<row, faults>> /\ SenderFrame

\* The web process dies, or the next commit or RPUSH of the handler raises.
LoseSender(m) ==
  /\ sender[m] \in {"stored", "enqueue"}
  /\ Fault
  /\ sender' = [sender EXCEPT ![m] = "lost"]
  /\ UNCHANGED <<row, queue>> /\ SenderFrame

SenderStep(m) == Store(m) \/ FlagAndHide(m) \/ Flag(m) \/ Enqueue(m)

-----------------------------------------------------------------------------
(* The worker                                                              *)

WorkerFrame == UNCHANGED <<sender, stale, blocks>>

\* process_one: BLPOP, or its timeout on an empty list.
Pop ==
  /\ worker.pc = "pop"
  /\ \/ /\ queue # <<>>
        /\ queue' = Tail(queue)
        /\ worker' = [worker EXCEPT !.pc = "load", !.cur = Head(queue)]
     \/ /\ queue = <<>>
        /\ worker' = [worker EXCEPT !.pc = "sweep"]
        /\ UNCHANGED queue
  /\ WorkerFrame /\ UNCHANGED <<row, blockedBot, due, delivered, faults>>

\* _deliver: a deleted message is dropped here, and only here.
Load ==
  /\ worker.pc = "load"
  /\ worker' = IF row[worker.cur].deleted
               THEN [worker EXCEPT !.pc = "sweep"]
               ELSE [worker EXCEPT !.pc = "send", !.attempt = 1]
  /\ WorkerFrame
  /\ UNCHANGED <<row, blockedBot, queue, due, delivered, faults>>

\* The end of a failed attempt: the next one, or "Giving up on message".
NextAttempt(broken) ==
  IF worker.attempt < MaxAttempts
  THEN worker' = [worker EXCEPT !.pc = "send", !.attempt = @ + 1, !.broken = broken]
  ELSE worker' = [worker EXCEPT !.pc = "sweep", !.broken = broken]

Recipient == To[worker.cur]

\* bot.send_message returns.
SendAccepted ==
  /\ worker.pc = "send"
  /\ Recipient \notin blocks
  /\ delivered' = [delivered EXCEPT ![worker.cur] = @ + 1]
  /\ worker' = [worker EXCEPT !.pc = "commit"]
  /\ WorkerFrame /\ UNCHANGED <<row, blockedBot, queue, due, faults>>

\* TelegramForbiddenError
SendForbidden ==
  /\ worker.pc = "send"
  /\ Recipient \in blocks
  /\ worker' = [worker EXCEPT !.pc = "markBlocked"]
  /\ WorkerFrame /\ UNCHANGED <<row, blockedBot, queue, due, delivered, faults>>

\* TelegramRetryAfter, or any other error of the call; the notification may
\* have gone out all the same when it is the reply that was lost.
SendFails ==
  /\ worker.pc = "send"
  /\ Fault
  /\ \/ UNCHANGED delivered
     \/ /\ Recipient \notin blocks
        /\ delivered' = [delivered EXCEPT ![worker.cur] = @ + 1]
  /\ NextAttempt(worker.broken)
  /\ WorkerFrame /\ UNCHANGED <<row, blockedBot, queue, due>>

\* message.notified_at = ...; commit.
CommitNotified ==
  /\ worker.pc = "commit"
  /\ ~ worker.broken
  /\ row' = [row EXCEPT ![worker.cur].notified = TRUE]
  /\ worker' = [worker EXCEPT !.pc = "track"]
  /\ WorkerFrame /\ UNCHANGED <<blockedBot, queue, due, delivered, faults>>

\* The commit raises: it is caught by the same `except Exception` as a failed
\* call, and every later commit of this session raises too.
CommitFails ==
  /\ worker.pc = "commit"
  /\ \/ worker.broken /\ UNCHANGED faults
     \/ ~ worker.broken /\ Fault
  /\ NextAttempt(TRUE)
  /\ WorkerFrame /\ UNCHANGED <<row, blockedBot, queue, due, delivered>>

\* track("message_received") in a session of its own; return.
Track ==
  /\ worker.pc = "track"
  /\ worker' = [worker EXCEPT !.pc = "sweep"]
  /\ WorkerFrame
  /\ UNCHANGED <<row, blockedBot, queue, due, delivered, faults>>

\* track raises inside the try: one more attempt, after a notification that
\* was sent and recorded.
TrackFails ==
  /\ worker.pc = "track"
  /\ Fault
  /\ NextAttempt(worker.broken)
  /\ WorkerFrame /\ UNCHANGED <<row, blockedBot, queue, due, delivered>>

\* Mutant: notified_at is set as well, to keep the sweep away.
MutMarkNotified ==
  /\ worker.pc = "markBlocked"
  /\ ~ worker.broken
  /\ blockedBot' = blockedBot \cup {Recipient}
  /\ row' = [row EXCEPT ![worker.cur].notified = TRUE]
  /\ worker' = [worker EXCEPT !.pc = "sweep"]
  /\ WorkerFrame /\ UNCHANGED <<queue, due, delivered, faults>>

\* recipient.blocked_bot = True; commit; return.
MarkBlocked ==
  /\ worker.pc = "markBlocked"
  /\ ~ worker.broken
  /\ blockedBot' = blockedBot \cup {Recipient}
  /\ worker' = [worker EXCEPT !.pc = "sweep"]
  /\ WorkerFrame /\ UNCHANGED <<row, queue, due, delivered, faults>>

\* Mutants: the sweep does not wait for STALE_AFTER_SECONDS; it leaves out the
\* recipients who once blocked the bot.
MutRecoverFresh == {m \in Msgs : row[m].stored /\ ~ row[m].notified /\ ~ row[m].deleted}
MutRecoverUnblocked ==
  {m \in stale : row[m].stored /\ ~ row[m].notified /\ ~ row[m].deleted
                 /\ To[m] \notin blockedBot}

\* What recover_stale_messages selects.
ToRecover == {m \in stale : row[m].stored /\ ~ row[m].notified /\ ~ row[m].deleted}

\* run_forever: back to the loop's start, through the sweep if it is due.
Sweep ==
  /\ worker.pc = "sweep"
  /\ ~ (due /\ worker.broken)
  /\ worker' = IF due THEN [Idle EXCEPT !.pc = "push", !.swept = ToRecover] ELSE Idle
  /\ WorkerFrame
  /\ UNCHANGED <<row, blockedBot, queue, due, delivered, faults>>

Push ==
  /\ worker.pc = "push"
  /\ \/ \E m \in worker.swept :
          /\ queue' = Append(queue, m)
          /\ worker' = [worker EXCEPT !.swept = @ \ {m}]
          /\ UNCHANGED due
     \/ /\ worker.swept = {}
        /\ worker' = Idle
        /\ due' = FALSE
        /\ UNCHANGED queue
  /\ WorkerFrame /\ UNCHANGED <<row, blockedBot, delivered, faults>>

\* A broken session is used outside _deliver's try, by the sweep's query or
\* the commit of blocked_bot: run_forever raises, systemd restarts it.
DieOfBrokenSession ==
  /\ worker.broken
  /\ worker.pc = "markBlocked" \/ (worker.pc = "sweep" /\ due)
  /\ worker' = Idle
  /\ due' = TRUE
  /\ WorkerFrame /\ UNCHANGED <<row, blockedBot, queue, delivered, faults>>

\* The worker dies at any point; last_sweep starts at 0 again.
CrashWorker ==
  /\ Fault
  /\ worker # Idle
  /\ worker' = Idle
  /\ due' = TRUE
  /\ WorkerFrame /\ UNCHANGED <<row, blockedBot, queue, delivered>>

WorkerStep ==
  \/ Pop \/ Load \/ SendAccepted \/ SendForbidden \/ CommitNotified \/ CommitFails
  \/ Track \/ MarkBlocked \/ Sweep \/ Push \/ DieOfBrokenSession

-----------------------------------------------------------------------------
(* Around them                                                             *)

\* Redis restarts without the entries since its last snapshot.
LoseQueue ==
  /\ queue # <<>>
  /\ Fault
  /\ queue' = <<>>
  /\ UNCHANGED <<sender, row, stale, blocks, blockedBot, worker, due, delivered>>

\* STALE_AFTER_SECONDS pass for m; no request takes that long.
Age(m) ==
  /\ sender[m] \in {"sent", "lost"}
  /\ m \notin stale
  /\ stale' = stale \cup {m}
  /\ UNCHANGED <<sender, row, blocks, blockedBot, queue, worker, due, delivered, faults>>

\* SWEEP_INTERVAL_SECONDS pass.
Tick ==
  /\ ~ due
  /\ Len(queue) <= QueueBound
  /\ due' = TRUE
  /\ UNCHANGED <<sender, row, stale, blocks, blockedBot, queue, worker, delivered, faults>>

\* The recipient deletes m from the inbox (delete_message).
DeleteByRecipient(m) ==
  /\ row[m].stored
  /\ ~ row[m].deleted
  /\ row' = [row EXCEPT ![m].deleted = TRUE]
  /\ UNCHANGED <<sender, stale, blocks, blockedBot, queue, worker, due, delivered, faults>>

\* A recipient blocks the bot in Telegram, or takes it back.
ToggleBlock(u) ==
  /\ blocks' = IF u \in blocks THEN blocks \ {u} ELSE blocks \cup {u}
  /\ UNCHANGED <<sender, row, stale, blockedBot, queue, worker, due, delivered, faults>>

Next ==
  \/ \E m \in Msgs : SenderStep(m) \/ LoseSender(m) \/ Age(m) \/ DeleteByRecipient(m)
  \/ WorkerStep \/ SendFails \/ TrackFails \/ CrashWorker
  \/ LoseQueue \/ Tick
  \/ \E u \in Users : ToggleBlock(u)

Spec == Init /\ [][Next]_vars

\* Processes keep running and time passes; nobody is obliged to send, delete,
\* block or fail.
Fairness ==
  /\ WF_vars(WorkerStep)
  /\ WF_vars(Tick)
  /\ \A m \in Msgs :
       /\ WF_vars(FlagAndHide(m) \/ Flag(m) \/ Enqueue(m))
       /\ WF_vars(Age(m))

FairSpec == Spec /\ Fairness

-----------------------------------------------------------------------------
(* Properties                                                              *)

TypeOK ==
  /\ sender \in [Msgs -> SenderPCs]
  /\ row \in [Msgs -> RowType]
  /\ stale \subseteq Msgs
  /\ blocks \subseteq Users
  /\ blockedBot \subseteq Users
  /\ queue \in Seq(Msgs)
  /\ worker \in [pc : WorkerPCs, cur : Msgs \cup {NoMsg}, attempt : 0..MaxAttempts,
                 broken : BOOLEAN, swept : SUBSET Msgs]
  /\ due \in BOOLEAN
  /\ delivered \in [Msgs -> Nat]
  /\ faults \in 0..MaxFaults

\* notified_at ends the sweep's interest in a message, so it must never be set
\* before Telegram accepted a notification for it.
NotifiedWasDelivered == \A m \in Msgs : row[m].notified => delivered[m] > 0

\* A recipient is told of a message that the filter flagged only after its
\* moderation row is committed - unless the handler died in between.
FlaggedBeforeDelivered ==
  \A m \in Msgs :
    delivered[m] > 0 /\ row[m].sev # "NONE" => row[m].flagged \/ sender[m] = "lost"

\* Severity tiers, L3: auto-remove.  A recipient is never notified of an L3
\* message.  (Two commits: a crash between them leaves it visible.)
L3NeverDelivered == \A m \in Msgs : row[m].sev = "L3" => delivered[m] = 0

\* Only that crash: while handlers finish, L3 messages are never notified.
L3DeliveredOnlyIfLost ==
  \A m \in Msgs : row[m].sev = "L3" /\ delivered[m] > 0 => sender[m] = "lost"

\* _deliver does not look at notified_at, so an id that is in the queue twice is
\* notified twice.  While nothing fails that takes a delay: only a sweep that
\* overtook a message still waiting in the queue can put it there again.
DuplicateNeedsDelay ==
  \A m \in Msgs : faults = 0 /\ delivered[m] > 1 => m \in stale

Settled(m) == row[m].notified \/ row[m].deleted

\* "Reliable retry behavior": whatever dies or is lost after the INSERT commits,
\* the message is notified or deleted in the end - if its recipient does not
\* block the bot for ever, or over and over.
EventuallySettled ==
  \A m \in Msgs :
    <>[](To[m] \notin blocks) => (row[m].stored ~> Settled(m))

-----------------------------------------------------------------------------
(* The inductive invariant of Delivery_proofs                              *)

InQueue(m)  == \E i \in DOMAIN queue : queue[i] = m
OnItsWay(m) == InQueue(m) \/ worker.cur = m \/ m \in worker.swept
Released(m) == sender[m] \in {"sent", "lost"}

\* What is true of the row by the time m's handler is where it is.
HandlerOK(m) ==
  /\ sender[m] = "start" => row[m] = NoRow
  /\ sender[m] = "enqueue" => row[m].sev # "L3"
  /\ sender[m] \in {"enqueue", "sent"} /\ row[m].sev # "NONE" => row[m].flagged
  /\ sender[m] = "sent" /\ row[m].sev = "L3" => row[m].deleted

\* The worker and the sweep see a message only when its handler is done with it,
\* an L3 message only when the handler died.
ReleasedOK(m) ==
  /\ m \in stale => Released(m)
  /\ OnItsWay(m) \/ delivered[m] > 0 =>
       Released(m) /\ (row[m].sev = "L3" => sender[m] = "lost")

\* The loop: what its local variables hold at each of its places.
WorkerOK ==
  /\ worker.pc \in {"load", "send", "commit", "track", "markBlocked"} => worker.cur \in Msgs
  /\ worker.pc \in {"pop", "push"} => worker.cur = NoMsg
  /\ worker.pc # "push" => worker.swept = {}
  /\ worker.pc = "commit" => delivered[worker.cur] > 0
  /\ worker.broken => faults > 0

\* While nothing has failed, a message that is not stale is in one place at a time.
OnceOK(m) ==
  faults = 0 /\ m \notin stale =>
    /\ delivered[m] <= 1
    /\ m \notin worker.swept
    /\ InQueue(m) => delivered[m] = 0 /\ worker.cur # m
    /\ \A i, j \in DOMAIN queue : queue[i] = m /\ queue[j] = m => i = j
    /\ worker.pc \in {"load", "send"} /\ worker.cur = m => delivered[m] = 0

IInv ==
  /\ TypeOK
  /\ WorkerOK
  /\ \A m \in Msgs : HandlerOK(m) /\ ReleasedOK(m) /\ OnceOK(m)
  /\ NotifiedWasDelivered
=============================================================================
