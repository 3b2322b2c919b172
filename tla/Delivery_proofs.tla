-------------------------- MODULE Delivery_proofs ---------------------------
(***************************************************************************)
(* The safety properties of Delivery.tla, for any messages, recipients,    *)
(* attempts and faults.                                                    *)
(***************************************************************************)
EXTENDS Delivery, TLAPS

-----------------------------------------------------------------------------
(* The queue                                                               *)

\* RPUSH: the queue as it was, and m at its end.
LEMMA Pushed ==
  ASSUME NEW q \in Seq(Msgs), NEW m \in Msgs
  PROVE  /\ Append(q, m) \in Seq(Msgs)
         /\ DOMAIN Append(q, m) = 1..Len(q) + 1
         /\ Len(q) \in Nat /\ DOMAIN q = 1..Len(q)
         /\ \A i \in 1..Len(q) : Append(q, m)[i] = q[i]
         /\ Append(q, m)[Len(q) + 1] = m
OBVIOUS

\* BLPOP: the queue moves up by one.
LEMMA Popped ==
  ASSUME NEW q \in Seq(Msgs), q # <<>>
  PROVE  /\ Tail(q) \in Seq(Msgs)
         /\ Head(q) \in Msgs /\ Head(q) = q[1] /\ 1 \in DOMAIN q
         /\ \A i \in DOMAIN Tail(q) : i + 1 \in DOMAIN q /\ Tail(q)[i] = q[i + 1] /\ i \in Nat /\ i > 0
OBVIOUS

\* What RPUSH adds to the queue is the message pushed.
LEMMA PushedIsIn ==
  ASSUME TypeOK, NEW m \in Msgs, queue' = Append(queue, m), NEW k \in Msgs
  PROVE  InQueue(k)' <=> InQueue(k) \/ k = m
<1>1. /\ DOMAIN queue' = 1..Len(queue) + 1 /\ DOMAIN queue = 1..Len(queue) /\ Len(queue) \in Nat
      /\ \A i \in 1..Len(queue) : queue'[i] = queue[i]
      /\ queue'[Len(queue) + 1] = m
  BY Pushed DEF TypeOK
<1> QED
  BY <1>1 DEF InQueue

\* BLPOP brings nothing into the queue.
LEMMA PoppedWasIn ==
  ASSUME TypeOK, queue # <<>>, queue' = Tail(queue), NEW k \in Msgs, InQueue(k)'
  PROVE  InQueue(k)
<1>1. PICK i \in DOMAIN Tail(queue) : Tail(queue)[i] = k
  BY DEF InQueue
<1>2. i + 1 \in DOMAIN queue /\ queue[i + 1] = k
  BY <1>1, Popped DEF TypeOK
<1> QED
  BY <1>2 DEF InQueue

-----------------------------------------------------------------------------
(* The handler of a message                                                *)

\* Nothing is stored yet.
LEMMA InitIInv == Init => IInv
<1> SUFFICES ASSUME Init PROVE IInv
  OBVIOUS
<1>1. TypeOK
  BY DeliveryConstants
     DEF Init, TypeOK, NoRow, RowType, Idle, Severities, SenderPCs, WorkerPCs
<1>2. WorkerOK /\ NotifiedWasDelivered
  BY DEF Init, WorkerOK, Idle, NoMsg, NotifiedWasDelivered, NoRow
<1>3. ASSUME NEW m \in Msgs
      PROVE  HandlerOK(m) /\ ReleasedOK(m) /\ OnceOK(m)
  BY DeliveryConstants
     DEF Init, HandlerOK, ReleasedOK, OnceOK, Idle, NoMsg, NoRow, InQueue, OnItsWay
<1> QED
  BY <1>1, <1>2, <1>3 DEF IInv

\* Whatever a handler writes is not its own if it belongs to another message.
LEMMA OtherMessage ==
  ASSUME IInv, NEW m \in Msgs, NEW k \in Msgs \ {m},
         row'[k] = row[k], sender'[k] = sender[k], UNCHANGED <<stale, worker, delivered>>,
         faults' = faults \/ faults' > 0, queue' = queue \/ queue' = Append(queue, m)
  PROVE  HandlerOK(k)' /\ ReleasedOK(k)' /\ OnceOK(k)'
<1>1. TypeOK /\ HandlerOK(k) /\ ReleasedOK(k) /\ OnceOK(k)
  BY DEF IInv
<1>2. InQueue(k)' <=> InQueue(k)
  BY <1>1, PushedIsIn DEF InQueue
<1>3. HandlerOK(k)'
  BY <1>1 DEF HandlerOK
<1>4. ReleasedOK(k)'
  BY <1>1, <1>2 DEF ReleasedOK, OnItsWay, Released
<1>5. ASSUME faults' = 0, k \notin stale', NEW i \in DOMAIN queue', NEW j \in DOMAIN queue',
             queue'[i] = k, queue'[j] = k
      PROVE  i = j
  <2>1. i \in DOMAIN queue /\ j \in DOMAIN queue /\ queue[i] = k /\ queue[j] = k
    <3>1. CASE queue' = queue
      BY <3>1, <1>5
    <3>2. CASE queue' = Append(queue, m)
      BY <3>2, <1>1, <1>5, Pushed DEF TypeOK
    <3> QED
      BY <3>1, <3>2
  <2>2. faults = 0
    BY <1>5, <1>1 DEF TypeOK
  <2> QED
    BY <2>1, <2>2, <1>1, <1>5 DEF OnceOK
<1>6. OnceOK(k)'
  BY <1>1, <1>2, <1>5 DEF OnceOK, TypeOK
<1> QED
  BY <1>3, <1>4, <1>6

\* What a handler says of its own message, while the queue stays as it is.
LEMMA OwnMessage ==
  ASSUME IInv, NEW m \in Msgs, ~ Released(m), HandlerOK(m)', delivered' = delivered,
         UNCHANGED <<stale, worker, queue>>
  PROVE  ReleasedOK(m)' /\ OnceOK(m)'
<1>1. TypeOK /\ ReleasedOK(m) /\ OnceOK(m)
  BY DEF IInv
<1>2. ~ OnItsWay(m) /\ delivered[m] = 0 /\ m \notin stale
  BY <1>1 DEF ReleasedOK, TypeOK
<1>3. ~ OnItsWay(m)'
  BY <1>2 DEF OnItsWay, InQueue
<1> QED
  BY <1>1, <1>2, <1>3 DEF ReleasedOK, OnceOK, OnItsWay, InQueue

\* A step of m's handler keeps the invariant, if it keeps what is said of the row
\* and sets notified_at nowhere.
LEMMA HandlerStep ==
  ASSUME IInv, NEW m \in Msgs, ~ Released(m), NEW r \in RowType, NEW pc \in SenderPCs,
         row' = [row EXCEPT ![m] = r], sender' = [sender EXCEPT ![m] = pc],
         faults' \in 0..MaxFaults, faults' = faults \/ faults' > 0,
         HandlerOK(m)', ~ r.notified \/ r.notified = row[m].notified,
         \/ queue' = queue
         \/ queue' = Append(queue, m) /\ sender'[m] = "sent" /\ row'[m].sev # "L3",
         UNCHANGED <<stale, blocks, blockedBot, worker, due, delivered>>
  PROVE  IInv'
<1>1. TypeOK /\ WorkerOK /\ ReleasedOK(m) /\ OnceOK(m) /\ NotifiedWasDelivered
  BY DEF IInv
<1>2. ~ OnItsWay(m) /\ delivered[m] = 0 /\ m \notin stale
  BY <1>1 DEF ReleasedOK, TypeOK
<1>3. \A k \in Msgs \ {m} : row'[k] = row[k] /\ sender'[k] = sender[k]
  BY <1>1 DEF TypeOK
<1>4. \A k \in Msgs \ {m} : HandlerOK(k)' /\ ReleasedOK(k)' /\ OnceOK(k)'
  BY <1>3, OtherMessage
<1>5. row' \in [Msgs -> RowType] /\ sender' \in [Msgs -> SenderPCs]
  BY <1>1 DEF TypeOK
<1>6. queue' \in Seq(Msgs)
  <2>1. queue \in Seq(Msgs) /\ Append(queue, m) \in Seq(Msgs)
    BY <1>1, Pushed DEF TypeOK
  <2> QED
    BY <2>1
<1>7. TypeOK'
  BY <1>1, <1>5, <1>6 DEF TypeOK
<1>8. ReleasedOK(m)' /\ OnceOK(m)'
  <2>1. CASE queue' = queue
    BY <2>1, OwnMessage
  <2>2. CASE queue' = Append(queue, m) /\ sender'[m] = "sent" /\ row'[m].sev # "L3"
    <3>1. ReleasedOK(m)'
      BY <2>2 DEF ReleasedOK, Released
    <3>2. ~ InQueue(m) /\ worker.cur # m /\ m \notin worker.swept
      BY <1>2 DEF OnItsWay
    <3>3. \A i, j \in DOMAIN queue' : queue'[i] = m /\ queue'[j] = m => i = j
      BY <1>1, <2>2, <3>2, Pushed DEF InQueue, TypeOK
    <3> QED
      BY <1>2, <3>1, <3>2, <3>3 DEF OnceOK
  <2> QED
    BY <2>1, <2>2
<1>9. WorkerOK'
  BY <1>1 DEF WorkerOK
<1>10. NotifiedWasDelivered'
  <2>1. \A k \in Msgs : row'[k].notified => row[k].notified
    BY <1>1, <1>3 DEF TypeOK
  <2> QED
    BY <1>1, <2>1 DEF NotifiedWasDelivered
<1> QED
  BY <1>4, <1>7, <1>8, <1>9, <1>10 DEF IInv

\* send_message, from the first commit to RPUSH, and its death.
LEMMA SenderInv ==
  ASSUME IInv, NEW m \in Msgs, SenderStep(m) \/ LoseSender(m)
  PROVE  IInv'
<1>1. TypeOK /\ HandlerOK(m) /\ row[m] \in RowType /\ sender \in [Msgs -> SenderPCs] /\ row \in [Msgs -> RowType]
  BY DEF IInv, TypeOK
<1>2. faults \in 0..MaxFaults
  BY <1>1 DEF TypeOK
<1>3. CASE Store(m)
  <2>1. PICK sev \in Severities :
          /\ row' = [row EXCEPT ![m] = [NoRow EXCEPT !.stored = TRUE, !.sev = sev]]
          /\ sender' = [sender EXCEPT ![m] = IF sev = "NONE" THEN "enqueue" ELSE "stored"]
    BY <1>3 DEF Store
  <2> DEFINE r == [NoRow EXCEPT !.stored = TRUE, !.sev = sev]
             pc == IF sev = "NONE" THEN "enqueue" ELSE "stored"
  <2>2. r \in RowType /\ r.sev = sev /\ r.notified = FALSE /\ pc \in SenderPCs
    BY DEF NoRow, RowType, Severities, SenderPCs
  <2>3. row' = [row EXCEPT ![m] = r] /\ sender' = [sender EXCEPT ![m] = pc]
    BY <2>1
  <2>4. row'[m] = r /\ sender'[m] = pc
    BY <1>1, <2>3
  <2>5. HandlerOK(m)'
    BY <2>2, <2>4 DEF HandlerOK
  <2> HIDE DEF r, pc
  <2> QED
    BY <1>2, <1>3, <2>2, <2>3, <2>5, HandlerStep DEF Store, SenderFrame, Released
<1>4. CASE FlagAndHide(m)
  <2> DEFINE r == [row[m] EXCEPT !.flagged = TRUE, !.deleted = TRUE]
  <2>1. r \in RowType /\ r.sev = row[m].sev /\ r.notified = row[m].notified /\ r.flagged /\ r.deleted
    BY <1>1 DEF RowType
  <2>2. row' = [row EXCEPT ![m] = r] /\ sender' = [sender EXCEPT ![m] = "sent"]
    BY <1>4 DEF FlagAndHide
  <2>3. row'[m] = r /\ sender'[m] = "sent"
    BY <1>1, <2>2
  <2>4. HandlerOK(m)'
    BY <2>1, <2>3 DEF HandlerOK
  <2> HIDE DEF r
  <2> QED
    BY <1>2, <1>4, <2>1, <2>2, <2>4, HandlerStep DEF FlagAndHide, SenderFrame, Released, SenderPCs
<1>5. CASE Flag(m)
  <2> DEFINE r == [row[m] EXCEPT !.flagged = TRUE]
  <2>1. r \in RowType /\ r.sev = "L12" /\ r.notified = row[m].notified /\ r.flagged
    BY <1>1, <1>5 DEF RowType, Flag
  <2>2. row' = [row EXCEPT ![m] = r] /\ sender' = [sender EXCEPT ![m] = "enqueue"]
    BY <1>5 DEF Flag
  <2>3. row'[m] = r /\ sender'[m] = "enqueue"
    BY <1>1, <2>2
  <2>4. HandlerOK(m)'
    BY <2>1, <2>3 DEF HandlerOK
  <2> HIDE DEF r
  <2> QED
    BY <1>2, <1>5, <2>1, <2>2, <2>4, HandlerStep DEF Flag, SenderFrame, Released, SenderPCs
<1>6. CASE Enqueue(m)
  <2>1. row' = [row EXCEPT ![m] = row[m]] /\ sender' = [sender EXCEPT ![m] = "sent"]
    BY <1>1, <1>6 DEF Enqueue
  <2>2. row'[m] = row[m] /\ sender'[m] = "sent" /\ sender[m] = "enqueue" /\ row[m].sev # "L3"
    BY <1>1, <1>6, <2>1 DEF Enqueue, HandlerOK
  <2>3. HandlerOK(m)'
    BY <1>1, <2>2 DEF HandlerOK
  <2> QED
    BY <1>1, <1>2, <1>6, <2>1, <2>2, <2>3, HandlerStep DEF Enqueue, SenderFrame, Released, SenderPCs
<1>7. CASE LoseSender(m)
  <2>1. row' = [row EXCEPT ![m] = row[m]] /\ sender' = [sender EXCEPT ![m] = "lost"]
    BY <1>1, <1>7 DEF LoseSender
  <2>2. sender'[m] = "lost" /\ HandlerOK(m)'
    BY <1>1, <2>1 DEF HandlerOK
  <2>3. faults' \in 0..MaxFaults /\ faults' > 0
    BY <1>2, <1>7, DeliveryConstants DEF LoseSender, Fault
  <2> QED
    BY <1>1, <1>7, <2>1, <2>2, <2>3, HandlerStep DEF LoseSender, SenderFrame, Released, SenderPCs
<1> QED
  BY <1>3, <1>4, <1>5, <1>6, <1>7 DEF SenderStep

-----------------------------------------------------------------------------
(* The worker                                                              *)

WorkerType == [pc : WorkerPCs, cur : Msgs \cup {NoMsg}, attempt : 0..MaxAttempts,
               broken : BOOLEAN, swept : SUBSET Msgs]

\* What the sweep selects is stale, and L3 only where the handler died.
LEMMA RecoveredAreStale ==
  ASSUME IInv, NEW m \in ToRecover
  PROVE  m \in Msgs /\ m \in stale /\ Released(m) /\ (row[m].sev = "L3" => sender[m] = "lost")
<1>1. m \in Msgs /\ m \in stale /\ ~ row[m].deleted
  BY DEF ToRecover, IInv, TypeOK
<1>2. HandlerOK(m) /\ ReleasedOK(m)
  BY <1>1 DEF IInv
<1> QED
  BY <1>1, <1>2 DEF HandlerOK, ReleasedOK, Released

\* A step of the loop that delivers nothing and leaves the queue alone: it goes on
\* with the message it has, drops it, or takes up what the sweep found.
LEMMA WorkerMoves ==
  ASSUME IInv, worker' \in WorkerType, WorkerOK',
         worker'.cur = worker.cur \/ worker'.cur = NoMsg,
         worker'.swept \subseteq worker.swept \cup ToRecover,
         faults' = 0 /\ worker'.pc \in {"load", "send"} =>
           worker.pc \in {"load", "send"} /\ worker'.cur = worker.cur,
         faults' \in 0..MaxFaults, faults' = faults \/ faults' > 0,
         blockedBot' \subseteq Users, due' \in BOOLEAN,
         UNCHANGED <<sender, row, stale, blocks, queue, delivered>>
  PROVE  IInv'
<1>1. TypeOK /\ NotifiedWasDelivered
  BY DEF IInv
<1>2. TypeOK' /\ NotifiedWasDelivered'
  BY <1>1 DEF TypeOK, WorkerType, NotifiedWasDelivered
<1>3. ASSUME NEW m \in Msgs
      PROVE  HandlerOK(m)' /\ ReleasedOK(m)' /\ OnceOK(m)'
  <2>1. HandlerOK(m) /\ ReleasedOK(m) /\ OnceOK(m) /\ m # NoMsg
    BY DeliveryConstants DEF IInv, NoMsg
  <2>2. HandlerOK(m)'
    BY <2>1 DEF HandlerOK
  <2>3. InQueue(m)' <=> InQueue(m)
    BY DEF InQueue
  <2>4. OnItsWay(m)' => OnItsWay(m) \/ m \in ToRecover
    BY <2>1, <2>3 DEF OnItsWay
  <2>5. ReleasedOK(m)'
    BY <2>1, <2>4, RecoveredAreStale DEF ReleasedOK, Released
  <2>6. OnceOK(m)'
    <3> SUFFICES ASSUME faults' = 0, m \notin stale'
                 PROVE  /\ delivered'[m] <= 1
                        /\ m \notin worker'.swept
                        /\ InQueue(m)' => delivered'[m] = 0 /\ worker'.cur # m
                        /\ \A i, j \in DOMAIN queue' : queue'[i] = m /\ queue'[j] = m => i = j
                        /\ worker'.pc \in {"load", "send"} /\ worker'.cur = m => delivered'[m] = 0
      BY DEF OnceOK
    <3>1. faults = 0 /\ m \notin stale
      BY <1>1 DEF TypeOK
    <3>2. m \notin ToRecover
      BY <3>1, RecoveredAreStale
    <3> QED
      BY <2>1, <2>3, <3>1, <3>2 DEF OnceOK
  <2> QED
    BY <2>2, <2>5, <2>6
<1> QED
  BY <1>2, <1>3 DEF IInv

\* BLPOP returns a message.
LEMMA PopInv ==
  ASSUME IInv, Pop, queue # <<>>
  PROVE  IInv'
<1>1. TypeOK /\ WorkerOK /\ NotifiedWasDelivered /\ worker \in WorkerType
  BY DEF IInv, TypeOK, WorkerType
<1>2. /\ queue' = Tail(queue) /\ worker' = [worker EXCEPT !.pc = "load", !.cur = Head(queue)]
      /\ worker.pc = "pop"
      /\ UNCHANGED <<sender, row, stale, blocks, blockedBot, due, delivered, faults>>
  BY DEF Pop, WorkerFrame
<1>3. Head(queue) \in Msgs /\ 1 \in DOMAIN queue /\ queue[1] = Head(queue) /\ queue' \in Seq(Msgs)
  BY <1>1, <1>2, Popped DEF TypeOK
<1>4. worker.swept = {} /\ worker.cur = NoMsg
  BY <1>1, <1>2 DEF WorkerOK
<1>5. /\ worker' \in WorkerType /\ worker'.pc = "load" /\ worker'.cur = Head(queue)
      /\ worker'.swept = {} /\ worker'.broken = worker.broken
  BY <1>1, <1>2, <1>3, <1>4 DEF WorkerType, WorkerPCs
<1>6. TypeOK'
  BY <1>1, <1>2, <1>3, <1>5 DEF TypeOK, WorkerType
<1>7. WorkerOK' /\ NotifiedWasDelivered'
  BY <1>1, <1>2, <1>3, <1>5 DEF WorkerOK, NotifiedWasDelivered
<1>8. ASSUME NEW m \in Msgs
      PROVE  HandlerOK(m)' /\ ReleasedOK(m)' /\ OnceOK(m)'
  <2>1. HandlerOK(m) /\ ReleasedOK(m) /\ OnceOK(m)
    BY DEF IInv
  <2>2. InQueue(m)' => InQueue(m)
    BY <1>1, <1>2, PoppedWasIn
  <2>3. m = Head(queue) => InQueue(m)
    BY <1>3 DEF InQueue
  <2>4. HandlerOK(m)'
    BY <1>2, <2>1 DEF HandlerOK
  <2>5. ReleasedOK(m)'
    BY <1>2, <1>5, <2>1, <2>2, <2>3 DEF ReleasedOK, OnItsWay, Released
  <2>6. OnceOK(m)'
    <3> SUFFICES ASSUME faults = 0, m \notin stale
                 PROVE  OnceOK(m)'
      BY <1>2 DEF OnceOK
    <3>1. ASSUME NEW i \in DOMAIN queue', queue'[i] = m
          PROVE  i + 1 \in DOMAIN queue /\ queue[i + 1] = m /\ i \in Nat /\ i > 0
      BY <1>1, <1>2, <3>1, Popped DEF TypeOK
    <3>2. \A i, j \in DOMAIN queue : queue[i] = m /\ queue[j] = m => i = j
      BY <2>1 DEF OnceOK
    <3>3. \A i, j \in DOMAIN queue' : queue'[i] = m /\ queue'[j] = m => i = j
      <4> SUFFICES ASSUME NEW i \in DOMAIN queue', NEW j \in DOMAIN queue', queue'[i] = m, queue'[j] = m
                   PROVE  i = j
        OBVIOUS
      <4>1. i + 1 = j + 1 /\ i \in Nat /\ j \in Nat
        BY <3>1, <3>2
      <4> QED
        BY <4>1
    <3>4. m = Head(queue) => ~ InQueue(m)'
      BY <1>3, <3>1, <3>2 DEF InQueue
    <3> QED
      BY <1>2, <1>5, <2>1, <2>2, <2>3, <3>3, <3>4 DEF OnceOK
  <2> QED
    BY <2>4, <2>5, <2>6
<1> QED
  BY <1>6, <1>7, <1>8 DEF IInv

\* The end of a failed attempt, in the loop's variables.
LEMMA NextAttemptIs ==
  ASSUME IInv, NEW b \in BOOLEAN, NextAttempt(b), worker.pc \in {"send", "commit", "track"}
  PROVE  /\ worker' \in WorkerType /\ worker'.cur = worker.cur /\ worker.cur \in Msgs
         /\ worker'.swept = {} /\ worker.swept = {} /\ worker'.broken = b
         /\ worker'.pc \in {"send", "sweep"}
<1>1. worker \in WorkerType /\ WorkerOK
  BY DEF IInv, TypeOK, WorkerType
<1>2. worker.swept = {} /\ worker.cur \in Msgs
  BY <1>1 DEF WorkerOK
<1>3. CASE worker.attempt < MaxAttempts
  <2>1. worker' = [worker EXCEPT !.pc = "send", !.attempt = @ + 1, !.broken = b]
    BY <1>3 DEF NextAttempt
  <2>2. worker.attempt + 1 \in 0..MaxAttempts
    BY <1>1, <1>3, DeliveryConstants DEF WorkerType
  <2> QED
    BY <1>1, <1>2, <2>1, <2>2 DEF WorkerType, WorkerPCs
<1>4. CASE ~ (worker.attempt < MaxAttempts)
  <2>1. worker' = [worker EXCEPT !.pc = "sweep", !.broken = b]
    BY <1>4 DEF NextAttempt
  <2> QED
    BY <1>1, <1>2, <2>1 DEF WorkerType, WorkerPCs
<1> QED
  BY <1>3, <1>4

\* An attempt fails: by a fault, or in a session a fault broke earlier.
LEMMA AttemptFails ==
  ASSUME IInv, NEW b \in BOOLEAN, NextAttempt(b), worker.pc \in {"send", "commit", "track"},
         faults' \in 0..MaxFaults, faults' > 0,
         UNCHANGED <<sender, row, stale, blocks, blockedBot, queue, due, delivered>>
  PROVE  IInv'
<1>1. TypeOK /\ WorkerOK
  BY DEF IInv
<1>2. /\ worker' \in WorkerType /\ worker'.cur = worker.cur /\ worker.cur \in Msgs
      /\ worker'.swept = {} /\ worker.swept = {} /\ worker'.pc \in {"send", "sweep"}
  BY NextAttemptIs
<1>3. WorkerOK'
  BY <1>2 DEF WorkerOK
<1>4. blockedBot' \subseteq Users /\ due' \in BOOLEAN
  BY <1>1 DEF TypeOK
<1> QED
  BY <1>2, <1>3, <1>4, WorkerMoves

\* Telegram takes a notification, whether or not the worker learns of it.
LEMMA Delivers ==
  ASSUME IInv, worker.pc = "send", worker' \in WorkerType, WorkerOK',
         worker'.cur = worker.cur, worker'.swept = {},
         delivered' = [delivered EXCEPT ![worker.cur] = @ + 1],
         (worker'.pc = "commit" /\ faults' = faults) \/ faults' > 0,
         faults' \in 0..MaxFaults,
         UNCHANGED <<sender, row, stale, blocks, blockedBot, queue, due>>
  PROVE  IInv'
<1>1. TypeOK /\ WorkerOK /\ NotifiedWasDelivered
  BY DEF IInv
<1>2. worker.cur \in Msgs /\ worker.swept = {}
  BY <1>1 DEF WorkerOK
<1>3. /\ delivered'[worker.cur] = delivered[worker.cur] + 1
      /\ \A m \in Msgs : delivered[m] \in Nat /\ (m # worker.cur => delivered'[m] = delivered[m])
      /\ delivered' \in [Msgs -> Nat]
  BY <1>1, <1>2 DEF TypeOK
<1>4. TypeOK'
  BY <1>1, <1>3 DEF TypeOK, WorkerType
<1>5. NotifiedWasDelivered'
  BY <1>1, <1>2, <1>3 DEF NotifiedWasDelivered
<1>6. ASSUME NEW m \in Msgs
      PROVE  HandlerOK(m)' /\ ReleasedOK(m)' /\ OnceOK(m)'
  <2>1. HandlerOK(m) /\ ReleasedOK(m) /\ OnceOK(m)
    BY DEF IInv
  <2>2. InQueue(m)' <=> InQueue(m)
    BY DEF InQueue
  <2>3. HandlerOK(m)'
    BY <2>1 DEF HandlerOK
  <2>4. ReleasedOK(m)'
    BY <1>2, <1>3, <2>1, <2>2 DEF ReleasedOK, OnItsWay, Released
  <2>5. OnceOK(m)'
    BY <1>2, <1>3, <2>1, <2>2 DEF OnceOK
  <2> QED
    BY <2>3, <2>4, <2>5
<1> QED
  BY <1>4, <1>5, <1>6 DEF IInv

\* bot.send_message, answered or not.
LEMMA SendInv ==
  ASSUME IInv, SendAccepted \/ SendFails
  PROVE  IInv'
<1>1. TypeOK /\ WorkerOK /\ worker \in WorkerType /\ faults \in 0..MaxFaults
  BY DEF IInv, TypeOK, WorkerType
<1>2. CASE SendAccepted
  <2>1. worker.swept = {} /\ worker.cur \in Msgs /\ delivered[worker.cur] \in Nat
    BY <1>1, <1>2 DEF SendAccepted, WorkerOK, TypeOK
  <2>2. /\ worker' \in WorkerType /\ worker'.cur = worker.cur /\ worker'.swept = {}
        /\ worker'.pc = "commit" /\ worker'.broken = worker.broken
    BY <1>1, <1>2, <2>1 DEF SendAccepted, WorkerType, WorkerPCs
  <2>3. delivered'[worker.cur] > 0
    BY <1>1, <1>2, <2>1 DEF SendAccepted, TypeOK
  <2>4. WorkerOK'
    BY <1>1, <1>2, <2>1, <2>2, <2>3 DEF WorkerOK, SendAccepted
  <2> QED
    BY <1>1, <1>2, <2>2, <2>4, Delivers DEF SendAccepted, WorkerFrame
<1>3. CASE SendFails
  <2>1. faults' \in 0..MaxFaults /\ faults' > 0
    BY <1>1, <1>3, DeliveryConstants DEF SendFails, Fault
  <2>2. worker.broken \in BOOLEAN /\ NextAttempt(worker.broken) /\ worker.pc = "send"
    BY <1>1, <1>3 DEF SendFails, WorkerType
  <2>3. CASE UNCHANGED delivered
    BY <1>3, <2>1, <2>2, <2>3, AttemptFails DEF SendFails, WorkerFrame
  <2>4. CASE delivered' = [delivered EXCEPT ![worker.cur] = @ + 1]
    <3>1. /\ worker' \in WorkerType /\ worker'.cur = worker.cur /\ worker.cur \in Msgs
          /\ worker'.swept = {} /\ worker'.pc \in {"send", "sweep"}
      BY <2>2, NextAttemptIs
    <3>2. WorkerOK'
      BY <2>1, <3>1 DEF WorkerOK
    <3> QED
      BY <1>3, <2>1, <2>2, <2>4, <3>1, <3>2, Delivers DEF SendFails, WorkerFrame
  <2> QED
    BY <1>3, <2>3, <2>4 DEF SendFails
<1> QED
  BY <1>2, <1>3

\* The attempts that fail after Telegram took the notification.
LEMMA LateFailureInv ==
  ASSUME IInv, CommitFails \/ TrackFails
  PROVE  IInv'
<1>1. WorkerOK /\ worker \in WorkerType /\ faults \in 0..MaxFaults
  BY DEF IInv, TypeOK, WorkerType
<1>2. faults' \in 0..MaxFaults /\ faults' > 0
  <2>1. CASE Fault
    BY <1>1, <2>1, DeliveryConstants DEF Fault
  <2>2. CASE worker.broken /\ UNCHANGED faults
    BY <1>1, <2>2 DEF WorkerOK
  <2> QED
    BY <2>1, <2>2 DEF CommitFails, TrackFails
<1>3. \E b \in BOOLEAN : NextAttempt(b)
  BY <1>1 DEF CommitFails, TrackFails, WorkerType
<1> QED
  BY <1>2, <1>3, AttemptFails DEF CommitFails, TrackFails, WorkerFrame

\* notified_at is written only after Telegram took the notification.
LEMMA CommitNotifiedInv ==
  ASSUME IInv, CommitNotified
  PROVE  IInv'
<1>1. TypeOK /\ WorkerOK /\ NotifiedWasDelivered /\ worker \in WorkerType
  BY DEF IInv, TypeOK, WorkerType
<1>2. worker.pc = "commit" /\ worker.cur \in Msgs /\ delivered[worker.cur] > 0 /\ worker.swept = {}
  BY <1>1 DEF CommitNotified, WorkerOK
<1>3. /\ row' \in [Msgs -> RowType]
      /\ row'[worker.cur].notified /\ row'[worker.cur].sev = row[worker.cur].sev
      /\ row'[worker.cur].flagged = row[worker.cur].flagged
      /\ row'[worker.cur].deleted = row[worker.cur].deleted
      /\ \A m \in Msgs \ {worker.cur} : row'[m] = row[m]
  BY <1>1, <1>2 DEF CommitNotified, TypeOK, RowType
<1>4. /\ worker' \in WorkerType /\ worker'.cur = worker.cur /\ worker'.swept = {}
      /\ worker'.pc = "track" /\ worker'.broken = worker.broken
  BY <1>1, <1>2 DEF CommitNotified, WorkerType, WorkerPCs
<1>5. UNCHANGED <<sender, stale, blocks, blockedBot, queue, due, delivered, faults>>
  BY DEF CommitNotified, WorkerFrame
<1>6. TypeOK'
  BY <1>1, <1>3, <1>4, <1>5 DEF TypeOK, WorkerType
<1>7. WorkerOK' /\ NotifiedWasDelivered'
  BY <1>1, <1>2, <1>3, <1>4, <1>5 DEF WorkerOK, NotifiedWasDelivered
<1>8. ASSUME NEW m \in Msgs
      PROVE  HandlerOK(m)' /\ ReleasedOK(m)' /\ OnceOK(m)'
  <2>1. HandlerOK(m) /\ ReleasedOK(m) /\ OnceOK(m) /\ row'[m].sev = row[m].sev
    BY <1>3 DEF IInv
  <2>2. m = worker.cur => Released(m)
    BY <1>2, <2>1 DEF ReleasedOK
  <2>3. HandlerOK(m)'
    BY <1>3, <1>5, <2>1, <2>2 DEF HandlerOK, Released
  <2>4. InQueue(m)' <=> InQueue(m)
    BY <1>5 DEF InQueue
  <2>5. ReleasedOK(m)'
    BY <1>2, <1>4, <1>5, <2>1, <2>4 DEF ReleasedOK, OnItsWay, Released
  <2>6. OnceOK(m)'
    BY <1>2, <1>4, <1>5, <2>1, <2>4 DEF OnceOK
  <2> QED
    BY <2>3, <2>5, <2>6
<1> QED
  BY <1>6, <1>7, <1>8 DEF IInv

\* The steps of the loop between the calls of the Bot API.
LEMMA LoopInv ==
  ASSUME IInv,
         \/ Pop /\ queue = <<>>
         \/ Load \/ SendForbidden \/ Track \/ MarkBlocked \/ Sweep
         \/ DieOfBrokenSession \/ CrashWorker
  PROVE  IInv'
<1>1. TypeOK /\ WorkerOK /\ worker \in WorkerType /\ faults \in 0..MaxFaults
  BY DEF IInv, TypeOK, WorkerType
<1>2. Idle \in WorkerType /\ Idle.swept = {} /\ Idle.cur = NoMsg /\ Idle.pc = "pop" /\ ~ Idle.broken
  BY DeliveryConstants DEF Idle, WorkerType, WorkerPCs
<1>3. worker.pc # "push" => worker.swept = {}
  BY <1>1 DEF WorkerOK
<1>4. CASE Pop /\ queue = <<>>
  <2>1. /\ worker' \in WorkerType /\ worker'.cur = worker.cur /\ worker'.swept = {}
        /\ worker'.pc = "sweep" /\ worker'.broken = worker.broken
    BY <1>1, <1>3, <1>4 DEF Pop, WorkerType, WorkerPCs
  <2>2. WorkerOK'
    BY <1>1, <1>4, <2>1 DEF Pop, WorkerOK
  <2> QED
    BY <1>1, <1>4, <2>1, <2>2, WorkerMoves DEF Pop, WorkerFrame, TypeOK
<1>5. CASE Load
  <2>1. worker.cur \in Msgs /\ worker.swept = {} /\ worker.pc = "load"
    BY <1>1, <1>5 DEF Load, WorkerOK
  <2>2. /\ worker' \in WorkerType /\ worker'.cur = worker.cur /\ worker'.swept = {}
        /\ worker'.pc \in {"send", "sweep"} /\ worker'.broken = worker.broken
    <3>1. CASE row[worker.cur].deleted
      BY <1>1, <1>5, <2>1, <3>1 DEF Load, WorkerType, WorkerPCs
    <3>2. CASE ~ row[worker.cur].deleted
      <4>1. 1 \in 0..MaxAttempts
        BY DeliveryConstants
      <4> QED
        BY <1>1, <1>5, <2>1, <3>2, <4>1 DEF Load, WorkerType, WorkerPCs
    <3> QED
      BY <3>1, <3>2
  <2>3. WorkerOK'
    BY <1>1, <1>5, <2>1, <2>2 DEF Load, WorkerOK
  <2> QED
    BY <1>1, <1>5, <2>1, <2>2, <2>3, WorkerMoves DEF Load, WorkerFrame, TypeOK
<1>6. CASE SendForbidden
  <2>1. worker.cur \in Msgs /\ worker.swept = {}
    BY <1>1, <1>6 DEF SendForbidden, WorkerOK
  <2>2. /\ worker' \in WorkerType /\ worker'.cur = worker.cur /\ worker'.swept = {}
        /\ worker'.pc = "markBlocked" /\ worker'.broken = worker.broken
    BY <1>1, <1>6, <2>1 DEF SendForbidden, WorkerType, WorkerPCs
  <2>3. WorkerOK'
    BY <1>1, <1>6, <2>1, <2>2 DEF SendForbidden, WorkerOK
  <2> QED
    BY <1>1, <1>6, <2>2, <2>3, WorkerMoves DEF SendForbidden, WorkerFrame, TypeOK
<1>7. CASE Track
  <2>1. /\ worker' \in WorkerType /\ worker'.cur = worker.cur /\ worker'.swept = {}
        /\ worker'.pc = "sweep" /\ worker'.broken = worker.broken
    BY <1>1, <1>3, <1>7 DEF Track, WorkerType, WorkerPCs
  <2>2. WorkerOK'
    BY <1>1, <1>7, <2>1 DEF Track, WorkerOK
  <2> QED
    BY <1>1, <1>7, <2>1, <2>2, WorkerMoves DEF Track, WorkerFrame, TypeOK
<1>8. CASE MarkBlocked
  <2>1. worker.cur \in Msgs /\ worker.swept = {}
    BY <1>1, <1>8 DEF MarkBlocked, WorkerOK
  <2>2. blockedBot' \subseteq Users
    BY <1>1, <1>8, <2>1, DeliveryConstants DEF MarkBlocked, Recipient, TypeOK
  <2>3. /\ worker' \in WorkerType /\ worker'.cur = worker.cur /\ worker'.swept = {}
        /\ worker'.pc = "sweep" /\ worker'.broken = worker.broken
    BY <1>1, <1>8, <2>1 DEF MarkBlocked, WorkerType, WorkerPCs
  <2>4. WorkerOK'
    BY <1>1, <1>8, <2>3 DEF MarkBlocked, WorkerOK
  <2> QED
    BY <1>1, <1>8, <2>2, <2>3, <2>4, WorkerMoves DEF MarkBlocked, WorkerFrame, TypeOK
<1>9. CASE Sweep
  <2>1. ToRecover \subseteq Msgs
    BY RecoveredAreStale
  <2>2. CASE due
    <3>1. /\ worker' \in WorkerType /\ worker'.cur = NoMsg /\ worker'.swept = ToRecover
          /\ worker'.pc = "push" /\ ~ worker'.broken
      BY <1>2, <1>9, <2>1, <2>2 DEF Sweep, WorkerType, WorkerPCs, Idle
    <3>2. WorkerOK'
      BY <3>1 DEF WorkerOK
    <3> QED
      BY <1>1, <1>9, <3>1, <3>2, WorkerMoves DEF Sweep, WorkerFrame, TypeOK
  <2>3. CASE ~ due
    <3>1. worker' = Idle
      BY <1>9, <2>3 DEF Sweep
    <3>2. WorkerOK'
      BY <1>2, <3>1 DEF WorkerOK
    <3> QED
      BY <1>1, <1>2, <1>9, <3>1, <3>2, WorkerMoves DEF Sweep, WorkerFrame, TypeOK
  <2> QED
    BY <2>2, <2>3
<1>10. CASE DieOfBrokenSession \/ CrashWorker
  <2>1. worker' = Idle /\ due' = TRUE
        /\ UNCHANGED <<sender, row, stale, blocks, blockedBot, queue, delivered>>
    BY <1>10 DEF DieOfBrokenSession, CrashWorker, WorkerFrame
  <2>2. faults' \in 0..MaxFaults /\ (faults' = faults \/ faults' > 0)
    BY <1>1, <1>10, DeliveryConstants DEF DieOfBrokenSession, CrashWorker, Fault
  <2>3. WorkerOK'
    BY <1>2, <2>1 DEF WorkerOK
  <2> QED
    BY <1>1, <1>2, <2>1, <2>2, <2>3, WorkerMoves DEF TypeOK
<1> QED
  BY <1>4, <1>5, <1>6, <1>7, <1>8, <1>9, <1>10

\* What the sweep pushes is stale: it may be in the queue a second time.
LEMMA PushInv ==
  ASSUME IInv, Push
  PROVE  IInv'
<1>1. TypeOK /\ WorkerOK /\ NotifiedWasDelivered /\ worker \in WorkerType /\ worker.cur = NoMsg
  BY DEF IInv, TypeOK, WorkerType, Push, WorkerOK
<1>2. UNCHANGED <<sender, row, stale, blocks, blockedBot, delivered, faults>>
  BY DEF Push, WorkerFrame
<1>3. CASE worker.swept = {} /\ worker' = Idle /\ due' = FALSE /\ UNCHANGED queue
  <2>1. Idle \in WorkerType /\ Idle.swept = {} /\ Idle.cur = NoMsg /\ Idle.pc = "pop" /\ ~ Idle.broken
    BY DeliveryConstants DEF Idle, WorkerType, WorkerPCs
  <2>2. WorkerOK'
    BY <1>3, <2>1 DEF WorkerOK
  <2> QED
    BY <1>1, <1>2, <1>3, <2>1, <2>2, WorkerMoves DEF TypeOK
<1>4. ASSUME NEW p \in worker.swept, queue' = Append(queue, p), due' = due,
             worker' = [worker EXCEPT !.swept = @ \ {p}]
      PROVE  IInv'
  <2>1. p \in Msgs /\ ReleasedOK(p) /\ OnItsWay(p) /\ OnceOK(p)
    BY <1>1 DEF TypeOK, WorkerType, IInv, OnItsWay
  <2>2. /\ worker' \in WorkerType /\ worker'.cur = NoMsg /\ worker'.pc = worker.pc
        /\ worker'.swept = worker.swept \ {p} /\ worker'.broken = worker.broken
    BY <1>1, <1>4 DEF WorkerType
  <2>3. queue' \in Seq(Msgs) /\ \A k \in Msgs : InQueue(k)' <=> InQueue(k) \/ k = p
    BY <1>1, <1>4, <2>1, Pushed, PushedIsIn DEF TypeOK
  <2>4. TypeOK'
    BY <1>1, <1>2, <1>4, <2>2, <2>3 DEF TypeOK, WorkerType
  <2>5. WorkerOK' /\ NotifiedWasDelivered'
    BY <1>1, <1>2, <2>2 DEF WorkerOK, NotifiedWasDelivered, Push
  <2>6. ASSUME NEW m \in Msgs
        PROVE  HandlerOK(m)' /\ ReleasedOK(m)' /\ OnceOK(m)'
    <3>1. HandlerOK(m) /\ ReleasedOK(m) /\ OnceOK(m)
      BY DEF IInv
    <3>2. HandlerOK(m)'
      BY <1>2, <3>1 DEF HandlerOK
    <3>3. OnItsWay(m)' => OnItsWay(m)
      BY <1>1, <2>1, <2>2, <2>3 DEF OnItsWay
    <3>4. ReleasedOK(m)'
      BY <1>2, <3>1, <3>3 DEF ReleasedOK, Released
    <3>5. OnceOK(m)'
      <4> SUFFICES ASSUME faults = 0, m \notin stale
                   PROVE  OnceOK(m)'
        BY <1>2 DEF OnceOK
      <4>1. m # p
        BY <2>1, <3>1 DEF OnceOK
      <4>2. \A i \in DOMAIN queue' : queue'[i] = m => i \in DOMAIN queue /\ queue[i] = m
        BY <1>1, <1>4, <2>1, <4>1, Pushed DEF TypeOK
      <4>3. \A i, j \in DOMAIN queue' : queue'[i] = m /\ queue'[j] = m => i = j
        BY <3>1, <4>2 DEF OnceOK
      <4> QED
        BY <1>1, <1>2, <2>2, <2>3, <3>1, <4>1, <4>3 DEF OnceOK
    <3> QED
      BY <3>2, <3>4, <3>5
  <2> QED
    BY <2>4, <2>5, <2>6 DEF IInv
<1> QED
  BY <1>3, <1>4 DEF Push

-----------------------------------------------------------------------------
(* Around them                                                             *)

\* Time, recipients and a restart of Redis take nothing back.
LEMMA OutsideInv ==
  ASSUME IInv,
         \/ \E m \in Msgs : Age(m) \/ DeleteByRecipient(m)
         \/ LoseQueue \/ Tick
         \/ \E u \in Users : ToggleBlock(u)
  PROVE  IInv'
<1>1. TypeOK /\ WorkerOK /\ NotifiedWasDelivered
  BY DEF IInv
<1>2. ASSUME NEW m \in Msgs, Age(m)
      PROVE  IInv'
  <2>1. /\ UNCHANGED <<sender, row, blocks, blockedBot, queue, worker, due, delivered, faults>>
        /\ stale' = stale \cup {m} /\ Released(m)
    BY <1>2 DEF Age, Released
  <2>2. TypeOK' /\ WorkerOK' /\ NotifiedWasDelivered'
    BY <1>1, <2>1 DEF TypeOK, WorkerOK, NotifiedWasDelivered
  <2>3. ASSUME NEW k \in Msgs
        PROVE  HandlerOK(k)' /\ ReleasedOK(k)' /\ OnceOK(k)'
    <3>1. HandlerOK(k) /\ ReleasedOK(k) /\ OnceOK(k)
      BY DEF IInv
    <3>2. (InQueue(k)' <=> InQueue(k)) /\ (OnItsWay(k)' <=> OnItsWay(k))
      BY <2>1 DEF InQueue, OnItsWay
    <3> QED
      BY <2>1, <3>1, <3>2 DEF HandlerOK, ReleasedOK, OnceOK, Released
  <2> QED
    BY <2>2, <2>3 DEF IInv
<1>3. ASSUME NEW m \in Msgs, DeleteByRecipient(m)
      PROVE  IInv'
  <2>1. /\ UNCHANGED <<sender, stale, blocks, blockedBot, queue, worker, due, delivered, faults>>
        /\ row' \in [Msgs -> RowType]
        /\ row[m].stored
        /\ \A k \in Msgs : /\ k # m => row'[k] = row[k]
                           /\ row'[k].sev = row[k].sev /\ row'[k].flagged = row[k].flagged
                           /\ row'[k].notified = row[k].notified
                           /\ row[k].deleted => row'[k].deleted
    BY <1>1, <1>3 DEF DeleteByRecipient, TypeOK, RowType
  <2>2. TypeOK' /\ WorkerOK' /\ NotifiedWasDelivered'
    BY <1>1, <2>1 DEF TypeOK, WorkerOK, NotifiedWasDelivered
  <2>3. ASSUME NEW k \in Msgs
        PROVE  HandlerOK(k)' /\ ReleasedOK(k)' /\ OnceOK(k)'
    <3>1. HandlerOK(k) /\ ReleasedOK(k) /\ OnceOK(k)
      BY DEF IInv
    <3>2. HandlerOK(k)'
      BY <2>1, <3>1 DEF HandlerOK, NoRow
    <3>3. (InQueue(k)' <=> InQueue(k)) /\ (OnItsWay(k)' <=> OnItsWay(k))
      BY <2>1 DEF InQueue, OnItsWay
    <3> QED
      BY <2>1, <3>1, <3>2, <3>3 DEF ReleasedOK, OnceOK, Released
  <2> QED
    BY <2>2, <2>3 DEF IInv
<1>4. CASE LoseQueue
  <2>1. /\ UNCHANGED <<sender, row, stale, blocks, blockedBot, worker, due, delivered>>
        /\ queue' = <<>> /\ faults' \in 0..MaxFaults /\ faults' > 0
    BY <1>1, <1>4, DeliveryConstants DEF LoseQueue, Fault, TypeOK
  <2>2. TypeOK' /\ WorkerOK' /\ NotifiedWasDelivered'
    BY <1>1, <2>1 DEF TypeOK, WorkerOK, NotifiedWasDelivered
  <2>3. ASSUME NEW k \in Msgs
        PROVE  HandlerOK(k)' /\ ReleasedOK(k)' /\ OnceOK(k)'
    <3>1. HandlerOK(k) /\ ReleasedOK(k)
      BY DEF IInv
    <3>2. ~ InQueue(k)'
      BY <2>1 DEF InQueue
    <3> QED
      BY <2>1, <3>1, <3>2 DEF HandlerOK, ReleasedOK, OnceOK, OnItsWay, Released
  <2> QED
    BY <2>2, <2>3 DEF IInv
<1>5. CASE Tick \/ \E u \in Users : ToggleBlock(u)
  <2>1. /\ UNCHANGED <<sender, row, stale, blockedBot, queue, worker, delivered, faults>>
        /\ due' \in BOOLEAN /\ blocks' \subseteq Users
    BY <1>1, <1>5 DEF Tick, ToggleBlock, TypeOK
  <2>2. TypeOK' /\ WorkerOK' /\ NotifiedWasDelivered'
    BY <1>1, <2>1 DEF TypeOK, WorkerOK, NotifiedWasDelivered
  <2>3. \A k \in Msgs : HandlerOK(k)' /\ ReleasedOK(k)' /\ OnceOK(k)'
    BY <2>1 DEF IInv, HandlerOK, ReleasedOK, OnceOK, OnItsWay, InQueue, Released
  <2> QED
    BY <2>2, <2>3 DEF IInv
<1> QED
  BY <1>2, <1>3, <1>4, <1>5

-----------------------------------------------------------------------------
(* Every step, and what follows                                            *)

LEMMA IInvStep ==
  ASSUME IInv, [Next]_vars
  PROVE  IInv'
<1>1. CASE \E m \in Msgs : SenderStep(m) \/ LoseSender(m)
  BY <1>1, SenderInv
<1>2. CASE Pop /\ queue # <<>>
  BY <1>2, PopInv
<1>3. CASE \/ Pop /\ queue = <<>>
           \/ Load \/ SendForbidden \/ Track \/ MarkBlocked \/ Sweep
           \/ DieOfBrokenSession \/ CrashWorker
  BY <1>3, LoopInv
<1>4. CASE SendAccepted \/ SendFails
  BY <1>4, SendInv
<1>5. CASE CommitNotified
  BY <1>5, CommitNotifiedInv
<1>6. CASE CommitFails \/ TrackFails
  BY <1>6, LateFailureInv
<1>7. CASE Push
  BY <1>7, PushInv
<1>8. CASE \/ \E m \in Msgs : Age(m) \/ DeleteByRecipient(m)
           \/ LoseQueue \/ Tick
           \/ \E u \in Users : ToggleBlock(u)
  BY <1>8, OutsideInv
<1>9. CASE UNCHANGED vars
  BY <1>9 DEF vars, IInv, TypeOK, WorkerOK, HandlerOK, ReleasedOK, OnceOK, OnItsWay,
              InQueue, Released, NotifiedWasDelivered
<1> QED
  BY <1>1, <1>2, <1>3, <1>4, <1>5, <1>6, <1>7, <1>8, <1>9 DEF Next, WorkerStep

\* The invariant the others follow from holds in every reachable state.
THEOREM Invariance == Spec => []IInv
<1>1. IInv /\ [Next]_vars => IInv'
  BY IInvStep
<1> QED
  BY InitIInv, <1>1, PTL DEF Spec

\* Every variable keeps its type; the worker never counts past MAX_ATTEMPTS.
THEOREM TypeInvariant == Spec => []TypeOK
<1>1. IInv => TypeOK
  BY DEF IInv
<1> QED
  BY Invariance, <1>1, PTL

\* notified_at is set (workers/notifier.py, _deliver) only on a message Telegram
\* took a notification for, whatever crashes or is lost.
THEOREM NotifiedIsTrue == Spec => []NotifiedWasDelivered
<1>1. IInv => NotifiedWasDelivered
  BY DEF IInv
<1> QED
  BY Invariance, <1>1, PTL

\* A flagged message is notified only after its moderation row is committed, unless
\* its handler died between the two commits of send_message.
THEOREM FlaggedFirst == Spec => []FlaggedBeforeDelivered
<1>1. IInv => FlaggedBeforeDelivered
  BY DEF IInv, FlaggedBeforeDelivered, ReleasedOK, HandlerOK, Released
<1> QED
  BY Invariance, <1>1, PTL

\* An L3 message is notified only if its handler died between the two commits.
THEOREM L3OnlyIfLost == Spec => []L3DeliveredOnlyIfLost
<1>1. IInv => L3DeliveredOnlyIfLost
  BY DEF IInv, L3DeliveredOnlyIfLost, ReleasedOK, Released
<1> QED
  BY Invariance, <1>1, PTL

\* While nothing fails, only a message the sweep may already have pushed again is
\* notified twice.
THEOREM DuplicatesAreStale == Spec => []DuplicateNeedsDelay
<1>1. IInv => DuplicateNeedsDelay
  <2> SUFFICES ASSUME IInv, NEW m \in Msgs, faults = 0, delivered[m] > 1, m \notin stale
               PROVE  FALSE
    BY DEF DuplicateNeedsDelay
  <2>1. delivered[m] <= 1 /\ delivered[m] \in Nat
    BY DEF IInv, OnceOK, TypeOK
  <2> QED
    BY <2>1
<1> QED
  BY Invariance, <1>1, PTL
=============================================================================
