------------------------- MODULE SenderPage_proofs -------------------------
(***************************************************************************)
(* The safety properties of SendPipeline.tla, for any number of requests,  *)
(* links, owners and senders, and any texts; and of SenderPage.tla, for    *)
(* any number of pages too.  A page drives the server as SendPipeline.tla  *)
(* allows, so what is proved of the server holds behind any pages.         *)
(***************************************************************************)
EXTENDS SenderPage, FiniteSetTheorems, SequenceTheorems, TLAPS

(***************************************************************************)
(* THE SEND PIPELINE                                                       *)
(***************************************************************************)
-----------------------------------------------------------------------------
(* The filter                                                              *)

\* Whatever the filter flags L2 or L3 it also warns about: the lowest weight of
\* a category that makes a text L2 is WARN_THRESHOLD.
LEMMA FlaggedIsWarned ==
  ASSUME NEW t \in Texts, Severity(t) \in {"L2", "L3"}
  PROVE  ShouldWarn(t)
<1>1. t.words \subseteq Category /\ t.shapes \in Nat
  BY DEF Texts
<1>2. \A cat \in Category : Points(t, cat) \in Nat
  BY DEF Category, Points, Weight
<1>3. Score(t) >= Points(t, "harassment")
  BY <1>1, <1>2 DEF Score, Category
<1>4. CASE "harassment" \in t.words
  BY <1>1, <1>2, <1>3, <1>4 DEF Points, Weight, ShouldWarn, WarnThreshold, Category, Score
<1>5. CASE "harassment" \notin t.words
  <2>1. Score(t) >= L3Threshold
    BY <1>5 DEF Severity, Categories
  <2> QED
    BY <1>1, <1>2, <2>1 DEF ShouldWarn, WarnThreshold, L3Threshold, Score, Category
<1> QED
  BY <1>4, <1>5

-----------------------------------------------------------------------------
(* The invariant                                                           *)

\* No request in flight, no row: nothing to hold of either.
LEMMA InitIInv == Init => IInv
<1> SUFFICES ASSUME Init PROVE IInv
  OBVIOUS
<1>1. PICK f \in Prints, l \in Links, b \in Bodies : call = [c \in Calls |-> NoCall(f, l, b)]
  BY DEF Init
<1>2. call \in [Calls -> CallType]
  BY <1>1 DEF NoCall, CallType, PCs, Forms, Answers
<1>3. msgs \in Seq(RowType) /\ Len(msgs) = 0 /\ DOMAIN msgs = {}
  BY DEF Init
<1>4. \A c \in Calls : call[c].row = 0
  BY <1>1 DEF NoCall
<1>5. TypeOK
  BY <1>2, <1>3, <1>4 DEF Init, TypeOK
<1>6. \A c \in Calls : BarsOK(c) /\ TwinsOK(c)
  BY <1>1 DEF BarsOK, TwinsOK, NoCall, At, PastOwner, PastBlock, PastRate
<1> QED
  BY <1>3, <1>5, <1>6 DEF IInv

\* The row a request stores.
NewRow(c) ==
  [print |-> call[c].print, link |-> call[c].link, body |-> call[c].body,
   blank |-> FALSE, recent |-> TRUE, flagged |-> FALSE, ack |-> call[c].ack,
   barred |-> call[c].barred, twins |-> call[c].twins]

\* Every reply keeps the types.
LEMMA ReplyType ==
  ASSUME TypeOK, NEW c \in Calls, NEW answer \in Answers, Reply(c, answer)
  PROVE  call' \in [Calls -> CallType] /\ \A d \in Calls : call'[d].row <= call[d].row
<1>1. call[c] \in CallType /\ call \in [Calls -> CallType]
  BY DEF TypeOK
<1> DEFINE K == [call[c] EXCEPT !.pc = "idle", !.answer = answer, !.on = FALSE,
                                !.row = 0, !.barred = {}, !.twins = {}]
<1>2. K \in CallType /\ K.row = 0
  BY <1>1 DEF CallType, PCs
<1>3. call' = [call EXCEPT ![c] = K]
  BY DEF Reply
<1>4. \A d \in Calls : call[d].row \in Nat
  BY <1>1 DEF CallType
<1> HIDE DEF K
<1> QED
  BY <1>1, <1>2, <1>3, <1>4

\* Moving on keeps the types.
LEMMA GotoType ==
  ASSUME TypeOK, NEW c \in Calls, NEW pc \in PCs, Goto(c, pc)
  PROVE  call' \in [Calls -> CallType] /\ \A d \in Calls : call'[d].row = call[d].row
BY DEF TypeOK, Goto, CallType

\* An UPDATE of one row leaves as many rows as there were.
LEMMA RowEdit ==
  ASSUME TypeOK, NEW i \in DOMAIN msgs, NEW r \in RowType, msgs' = [msgs EXCEPT ![i] = r]
  PROVE  msgs' \in Seq(RowType) /\ Len(msgs') = Len(msgs)
BY DEF TypeOK

\* The types, a step at a time.
LEMMA TypeStep == IInv /\ [Next]_vars => TypeOK'
<1> SUFFICES ASSUME IInv, [Next]_vars PROVE TypeOK'
  OBVIOUS
<1>0. TypeOK /\ (\A d \in Calls : call[d].row \in Nat) /\ Len(msgs) \in Nat
  BY DEF IInv, TypeOK, CallType
<1>a. ASSUME NEW c \in Calls, Look,
             \/ \E answer \in Answers : Reply(c, answer)
             \/ \E pc \in PCs : Goto(c, pc)
      PROVE  TypeOK'
  <2>1. call' \in [Calls -> CallType] /\ \A d \in Calls : call'[d].row <= call[d].row
    BY <1>0, <1>a, ReplyType, GotoType
  <2>2. \A d \in Calls : call'[d].row \in Nat
    BY <2>1 DEF CallType
  <2> QED
    BY <1>0, <1>a, <2>1, <2>2 DEF TypeOK, Look
<1>1. ASSUME NEW c \in Calls, NEW f \in Prints, NEW l \in Links, NEW b \in Bodies,
             NEW ack \in BOOLEAN, NEW form \in Forms, Begin(c, f, l, b, ack, form)
      PROVE  TypeOK'
  <2>1. CASE Reply(c, "error")
    BY <1>a, <1>1, <2>1 DEF Begin, Answers
  <2>2. CASE ~ Reply(c, "error")
    <3> DEFINE T == {i \in DOMAIN msgs : SameSend(i, f, l, b) /\ msgs[i].recent}
               K == [pc |-> "link", print |-> f, link |-> l, body |-> b, ack |-> ack, form |-> form,
                     on |-> FALSE, row |-> 0, answer |-> "none", barred |-> BarsNow(f, l),
                     twins |-> T]
    <3>1. call' = [call EXCEPT ![c] = K] /\ Look
      BY <1>1, <2>2 DEF Begin
    <3>2. T \in SUBSET Nat
      BY <1>0 DEF TypeOK
    <3>3. BarsNow(f, l) \in SUBSET Bars
      BY DEF BarsNow
    <3> HIDE DEF T
    <3>4. K \in CallType
      BY <3>2, <3>3 DEF CallType, PCs, Answers
    <3>5. K.row = 0
      OBVIOUS
    <3> HIDE DEF K
    <3> QED
      BY <1>0, <3>1, <3>4, <3>5 DEF TypeOK, Look
  <2> QED
    BY <2>1, <2>2
<1>2. ASSUME NEW c \in Calls, ReadLink(c) PROVE TypeOK'
  <2> DEFINE K == [call[c] EXCEPT !.pc = "owner", !.on = (call[c].link \in active)]
  <2>1. call[c] \in CallType
    BY <1>0 DEF TypeOK
  <2>2. (call[c].link \in active) \in BOOLEAN
    OBVIOUS
  <2>3. K \in CallType /\ K.row = call[c].row
    BY <2>1, <2>2 DEF CallType, PCs
  <2>4. call' = [call EXCEPT ![c] = K] /\ Look
    BY <1>2 DEF ReadLink
  <2> HIDE DEF K
  <2> QED
    BY <1>0, <2>3, <2>4 DEF TypeOK, Look
<1>3. ASSUME NEW c \in Calls,
             ReadOwner(c) \/ CheckBlock(c) \/ CheckRate(c) \/ FindDuplicate(c)
               \/ Enqueue(c) \/ Fail(c)
      PROVE  TypeOK'
  BY <1>a, <1>3 DEF ReadOwner, CheckBlock, CheckRate, FindDuplicate, Enqueue, Fail, Answers, PCs
<1>4. ASSUME NEW c \in Calls, Store(c) PROVE TypeOK'
  <2>1. NewRow(c) \in RowType
    BY <1>0 DEF TypeOK, CallType, RowType, NewRow
  <2>2. msgs' = Append(msgs, NewRow(c))
    BY <1>4 DEF Store, NewRow
  <2>3. msgs' \in Seq(RowType) /\ Len(msgs') = Len(msgs) + 1
    BY <1>0, <2>1, <2>2 DEF TypeOK
  <2>4. call' \in [Calls -> CallType]
    BY <1>0, <1>4 DEF TypeOK, CallType, Store, PCs
  <2>5. \A d \in Calls : call'[d].row = IF d = c THEN Len(msgs) + 1 ELSE call[d].row
    BY <1>0, <1>4 DEF TypeOK, CallType, Store
  <2> QED
    BY <1>0, <1>4, <2>3, <2>4, <2>5 DEF TypeOK, Store
<1>5. ASSUME NEW c \in Calls, SecondCommit(c) PROVE TypeOK'
  <2>1. msgs' \in Seq(RowType) /\ Len(msgs') = Len(msgs)
    <3> DEFINE r == msgs[call[c].row]
               n == [r EXCEPT !.flagged = TRUE, !.blank = r.blank \/ Sev(c) = "L3"]
    <3>1. call[c].row \in DOMAIN msgs
      BY <1>0, <1>5 DEF IInv, TypeOK, TwinsOK, SecondCommit
    <3>2. r \in RowType
      BY <1>0, <3>1 DEF TypeOK
    <3>3. (r.blank \/ Sev(c) = "L3") \in BOOLEAN
      BY Zenon
    <3>4. n \in RowType
      BY <3>2, <3>3 DEF RowType
    <3>5. msgs' = [msgs EXCEPT ![call[c].row] = n]
      BY <1>5, <3>1 DEF SecondCommit
    <3> HIDE DEF r, n
    <3> QED
      BY <1>0, <3>1, <3>4, <3>5, RowEdit
  <2>2. call' \in [Calls -> CallType] /\ \A d \in Calls : call'[d].row <= call[d].row
    BY <1>0, <1>5, ReplyType, GotoType DEF SecondCommit, Answers, PCs
  <2>3. \A d \in Calls : call'[d].row \in Nat
    BY <2>2 DEF CallType
  <2> QED
    BY <1>0, <1>5, <2>1, <2>2, <2>3 DEF TypeOK, SecondCommit
<1>6. ASSUME NEW i \in DOMAIN msgs, Block(i) PROVE TypeOK'
  <2>1. msgs[i] \in RowType
    BY <1>0 DEF TypeOK
  <2>2. <<OwnerOf[msgs[i].link], msgs[i].print>> \in Owners \X Prints
    BY <2>1, PipelineConstants DEF RowType
  <2> QED
    BY <1>0, <1>6, <2>2 DEF TypeOK, Block
<1>7. ASSUME NEW i \in DOMAIN msgs, Delete(i) PROVE TypeOK'
  <2> DEFINE n == [msgs[i] EXCEPT !.blank = TRUE]
  <2>0. msgs[i] \in RowType
    BY <1>0 DEF TypeOK
  <2>1. n \in RowType
    BY <2>0 DEF RowType
  <2>2. msgs' = [msgs EXCEPT ![i] = n]
    BY <1>7 DEF Delete
  <2>3. msgs' \in Seq(RowType) /\ Len(msgs') = Len(msgs)
    BY <1>0, <2>1, <2>2, RowEdit
  <2> QED
    BY <1>0, <1>7, <2>3 DEF TypeOK, Delete
<1>8. ASSUME NEW i \in DOMAIN msgs, Forget(i) PROVE TypeOK'
  <2>1. msgs' \in Seq(RowType) /\ Len(msgs') = Len(msgs)
    <3> DEFINE n == [msgs[i] EXCEPT !.recent = FALSE]
    <3>0. msgs[i] \in RowType
      BY <1>0 DEF TypeOK
    <3>1. n \in RowType
      BY <3>0 DEF RowType
    <3>2. msgs' = [msgs EXCEPT ![i] = n]
      BY <1>8 DEF Forget
    <3> QED
      BY <1>0, <3>1, <3>2, RowEdit
  <2>2. call' \in [Calls -> CallType] /\ \A d \in Calls : call'[d].row = call[d].row
    BY <1>0, <1>8 DEF TypeOK, Forget, CallType
  <2> QED
    BY <1>0, <1>8, <2>1, <2>2 DEF TypeOK, Forget
<1>9. ASSUME NEW o \in Owners, Pause(o) \/ Resume(o) PROVE TypeOK'
  <2>1. CASE Pause(o)
    BY <1>0, <2>1 DEF TypeOK, Pause
  <2>2. CASE Resume(o)
    BY <1>0, <2>2 DEF TypeOK, Resume, CallType
  <2> QED
    BY <1>9, <2>1, <2>2
<1>10. ASSUME NEW l \in Links, TurnOff(l) PROVE TypeOK'
  BY <1>0, <1>10 DEF TypeOK, TurnOff
<1>11. CASE UNCHANGED vars
  BY <1>0, <1>11 DEF TypeOK, vars
<1> QED
  BY <1>1, <1>2, <1>3, <1>4, <1>5, <1>6, <1>7, <1>8, <1>9, <1>10, <1>11 DEF Next, Around, Step

\* Rows are added, marked and blanked; whose they are, and what the request
\* that stored them had against it, never changes.
Grow ==
  /\ DOMAIN msgs \subseteq DOMAIN msgs'
  /\ \A i \in DOMAIN msgs :
       /\ msgs'[i].print = msgs[i].print /\ msgs'[i].link = msgs[i].link
       /\ msgs'[i].body = msgs[i].body /\ msgs'[i].ack = msgs[i].ack
       /\ msgs'[i].barred = msgs[i].barred /\ msgs'[i].twins = msgs[i].twins
       /\ msgs[i].blank => msgs'[i].blank

\* What one row's UPDATE may do.
LEMMA GrowEdit ==
  ASSUME TypeOK, NEW i \in DOMAIN msgs, NEW r, msgs' = [msgs EXCEPT ![i] = r],
         r.print = msgs[i].print, r.link = msgs[i].link, r.body = msgs[i].body,
         r.ack = msgs[i].ack, r.barred = msgs[i].barred, r.twins = msgs[i].twins,
         msgs[i].blank => r.blank
  PROVE  Grow
BY DEF TypeOK, Grow

\* Store appends, the others update one row or leave messages alone.
LEMMA GrowStep == IInv /\ [Next]_vars => Grow
<1> SUFFICES ASSUME IInv, [Next]_vars PROVE Grow
  OBVIOUS
<1>0. TypeOK /\ \A i \in DOMAIN msgs : msgs[i] \in RowType
  BY DEF IInv, TypeOK
<1>1. ASSUME NEW c \in Calls, Store(c) PROVE Grow
  <2>1. msgs' = Append(msgs, NewRow(c))
    BY <1>1 DEF Store, NewRow
  <2>2. \A i \in DOMAIN msgs : i \in DOMAIN msgs' /\ msgs'[i] = msgs[i]
    BY <1>0, <2>1 DEF TypeOK
  <2> QED
    BY <2>2 DEF Grow
<1>2. ASSUME NEW c \in Calls, SecondCommit(c) PROVE Grow
  <2> DEFINE r == msgs[call[c].row]
             n == [r EXCEPT !.flagged = TRUE, !.blank = r.blank \/ Sev(c) = "L3"]
  <2>1. call[c].row \in DOMAIN msgs
    BY <1>0, <1>2 DEF IInv, TypeOK, TwinsOK, SecondCommit, CallType
  <2>2. r \in RowType
    BY <1>0, <2>1
  <2>3. msgs' = [msgs EXCEPT ![call[c].row] = n]
    BY <1>2, <2>1 DEF SecondCommit
  <2>4. /\ n.print = r.print /\ n.link = r.link /\ n.body = r.body /\ n.ack = r.ack
        /\ n.barred = r.barred /\ n.twins = r.twins /\ (r.blank => n.blank)
    BY <2>2 DEF RowType
  <2> HIDE DEF n
  <2> QED
    BY <1>0, <2>1, <2>3, <2>4, GrowEdit
<1>3. ASSUME NEW i \in DOMAIN msgs, Delete(i) \/ Forget(i) PROVE Grow
  <2>0. msgs[i] \in RowType
    BY <1>0
  <2>1. CASE Delete(i)
    <3> DEFINE n == [msgs[i] EXCEPT !.blank = TRUE]
    <3>1. msgs' = [msgs EXCEPT ![i] = n]
      BY <2>1 DEF Delete
    <3>2. /\ n.print = msgs[i].print /\ n.link = msgs[i].link /\ n.body = msgs[i].body
          /\ n.ack = msgs[i].ack /\ n.barred = msgs[i].barred /\ n.twins = msgs[i].twins
          /\ n.blank
      BY <2>0 DEF RowType
    <3> HIDE DEF n
    <3> QED
      BY <1>0, <3>1, <3>2, GrowEdit
  <2>2. CASE Forget(i)
    <3> DEFINE n == [msgs[i] EXCEPT !.recent = FALSE]
    <3>1. msgs' = [msgs EXCEPT ![i] = n]
      BY <2>2 DEF Forget
    <3>2. /\ n.print = msgs[i].print /\ n.link = msgs[i].link /\ n.body = msgs[i].body
          /\ n.ack = msgs[i].ack /\ n.barred = msgs[i].barred /\ n.twins = msgs[i].twins
          /\ (msgs[i].blank => n.blank)
      BY <2>0 DEF RowType
    <3> HIDE DEF n
    <3> QED
      BY <1>0, <3>1, <3>2, GrowEdit
  <2> QED
    BY <1>3, <2>1, <2>2
<1>4. CASE UNCHANGED msgs
  BY <1>4 DEF Grow
<1> QED
  BY <1>1, <1>2, <1>3, <1>4 DEF Next, Around, Step, Begin, ReadLink, ReadOwner, CheckBlock, CheckRate,
     FindDuplicate, Enqueue, Fail, Look, Block, Pause, Resume, TurnOff, vars

\* The rows after a step: the old ones by Grow, a new one by what is known of
\* the request that stores it.
LEMMA RowsStep == IInv /\ [Next]_vars => \A i \in DOMAIN msgs' : RowOK(i)'
<1> SUFFICES ASSUME IInv, [Next]_vars, NEW i \in DOMAIN msgs' PROVE RowOK(i)'
  OBVIOUS
<1>0. TypeOK /\ Grow
  BY GrowStep DEF IInv
<1>1. CASE i \in DOMAIN msgs
  BY <1>0, <1>1 DEF IInv, RowOK, Grow
<1>2. CASE i \notin DOMAIN msgs
  <2>1. PICK c \in Calls : Store(c)
    BY <1>0, <1>2 DEF Next, Around, Step, Begin, ReadLink, ReadOwner, CheckBlock, CheckRate, FindDuplicate,
       SecondCommit, Enqueue, Fail, Look, Block, Delete, Forget, Pause, Resume, TurnOff, vars, TypeOK
  <2>2. msgs' = Append(msgs, NewRow(c))
    BY <2>1 DEF Store, NewRow
  <2>3. msgs'[i] = NewRow(c)
    BY <1>0, <1>2, <2>2 DEF TypeOK
  <2>4. call[c] \in CallType
    BY <1>0 DEF TypeOK
  <2>5. BarsOK(c) /\ TwinsOK(c) /\ At(c, "store")
    BY <2>1 DEF IInv, Store
  <2>6. call[c].barred = {}
    BY <2>4, <2>5 DEF BarsOK, At, PastOwner, PastBlock, Bars, CallType
  <2>7. ShouldWarn(TextOf[call[c].body]) => call[c].ack
    BY <2>5 DEF BarsOK, At, PastOwner, PastBlock, PastRate
  <2>8. \A j \in call[c].twins : j \in DOMAIN msgs /\ msgs[j].blank
    BY <2>5 DEF TwinsOK
  <2>9. \A j \in call[c].twins : j \in DOMAIN msgs' /\ msgs'[j].blank
    BY <1>0, <2>8 DEF Grow
  <2> QED
    BY <2>3, <2>6, <2>7, <2>9 DEF RowOK, NewRow
<1> QED
  BY <1>1, <1>2

CallOK(c) == BarsOK(c) /\ TwinsOK(c)

\* A request that does not move keeps what is known of it: blocks and rows only
\* grow, no link comes back, and Resume and Forget take from it what they end.
LEMMA QuietCall ==
  ASSUME NEW d, CallOK(d), Grow, call'[d] = call[d],
         blocks \subseteq blocks', active' \subseteq active,
         OwnerOf[call[d].link] \in paused => OwnerOf[call[d].link] \in paused',
         \A i \in call[d].twins : msgs'[i].recent = msgs[i].recent
  PROVE  CallOK(d)'
<1>1. BarsOK(d)'
  BY DEF CallOK, BarsOK, Me, At
<1>2. TwinsOK(d)'
  BY DEF CallOK, TwinsOK, Grow, SameSend, At
<1> QED
  BY <1>1, <1>2 DEF CallOK

\* A request that is over has nothing to keep.
LEMMA RepliedCall ==
  ASSUME TypeOK, NEW c \in Calls, NEW answer, Reply(c, answer)
  PROVE  /\ CallOK(c)'
         /\ \A d \in Calls \ {c} : call'[d] = call[d]
<1>1. call[c] \in CallType /\ call \in [Calls -> CallType]
  BY DEF TypeOK
<1>2. call'[c].pc = "idle" /\ call'[c].barred = {} /\ call'[c].twins = {}
  BY <1>1 DEF Reply, CallType
<1>3. CallOK(c)'
  BY <1>2 DEF CallOK, BarsOK, TwinsOK, At, PastOwner, PastBlock, PastRate
<1> QED
  BY <1>1, <1>3 DEF Reply

\* A request that moves on, with nothing else changed.
LEMMA MovedCall ==
  ASSUME TypeOK, NEW c \in Calls, NEW pc \in PCs, Goto(c, pc)
  PROVE  /\ call'[c] = [call[c] EXCEPT !.pc = pc]
         /\ call'[c].pc = pc
         /\ \A d \in Calls \ {c} : call'[d] = call[d]
         /\ call'[c].link = call[c].link /\ call'[c].print = call[c].print
         /\ call'[c].body = call[c].body /\ call'[c].ack = call[c].ack
         /\ call'[c].on = call[c].on /\ call'[c].row = call[c].row
         /\ call'[c].barred = call[c].barred /\ call'[c].twins = call[c].twins
<1>1. call[c] \in CallType /\ call \in [Calls -> CallType]
  BY DEF TypeOK
<1> QED
  BY <1>1 DEF Goto, CallType

\* One step of the invariant's part on requests, action by action.
LEMMA CallsStep == IInv /\ [Next]_vars => \A d \in Calls : CallOK(d)'
<1> SUFFICES ASSUME IInv, [Next]_vars, NEW d \in Calls PROVE CallOK(d)'
  OBVIOUS
<1>0. TypeOK /\ Grow /\ CallOK(d) /\ TypeOK'
  BY GrowStep, TypeStep DEF IInv, CallOK
<1>00. call \in [Calls -> CallType] /\ call[d] \in CallType
  BY <1>0 DEF TypeOK
<1>a. ASSUME NEW c \in Calls, Look, c # d \/ \E answer : Reply(c, answer),
             (\E answer : Reply(c, answer)) \/ (\E pc \in PCs : Goto(c, pc))
      PROVE  CallOK(d)'
  <2>1. CASE c = d
    BY <1>0, <1>a, <2>1, RepliedCall
  <2>2. CASE c # d
    <3>1. call'[d] = call[d]
      BY <1>0, <1>a, <2>2, RepliedCall, MovedCall
    <3> QED
      BY <1>0, <1>a, <3>1, QuietCall DEF Look
  <2> QED
    BY <2>1, <2>2
<1>1. ASSUME NEW c \in Calls, NEW f \in Prints, NEW l \in Links, NEW b \in Bodies,
             NEW ack \in BOOLEAN, NEW form \in Forms, Begin(c, f, l, b, ack, form)
      PROVE  CallOK(d)'
  <2>1. CASE Reply(c, "error")
    BY <1>a, <1>1, <2>1 DEF Begin
  <2>2. CASE ~ Reply(c, "error") /\ c # d
    <3>1. call'[d] = call[d] /\ Look
      BY <1>00, <1>1, <2>2 DEF Begin
    <3> QED
      BY <1>0, <3>1, QuietCall DEF Look
  <2>3. CASE ~ Reply(c, "error") /\ c = d
    <3>1. /\ call'[d].pc = "link" /\ call'[d].print = f /\ call'[d].link = l
          /\ call'[d].body = b /\ call'[d].barred = BarsNow(f, l)
          /\ call'[d].twins = {i \in DOMAIN msgs : SameSend(i, f, l, b) /\ msgs[i].recent}
          /\ Look
      BY <1>00, <1>1, <2>3 DEF Begin
    <3>2. BarsOK(d)'
      BY <3>1 DEF BarsOK, BarsNow, Me, At, Look, PastOwner, PastBlock, PastRate, Bars
    <3>3. TwinsOK(d)'
      BY <3>1 DEF TwinsOK, At, Look, SameSend
    <3> QED
      BY <3>2, <3>3 DEF CallOK
  <2> QED
    BY <2>1, <2>2, <2>3
<1>2. ASSUME NEW c \in Calls, ReadLink(c) PROVE CallOK(d)'
  <2>1. CASE c # d
    <3>1. call'[d] = call[d] /\ Look
      BY <1>00, <1>2, <2>1 DEF ReadLink
    <3> QED
      BY <1>0, <3>1, QuietCall DEF Look
  <2>2. CASE c = d
    <3>1. /\ call'[d].pc = "owner" /\ (call'[d].on <=> call[d].link \in active)
          /\ call'[d].link = call[d].link /\ call'[d].print = call[d].print
          /\ call'[d].body = call[d].body
          /\ call'[d].barred = call[d].barred /\ call'[d].twins = call[d].twins /\ Look
      BY <1>00, <1>2, <2>2 DEF ReadLink, CallType
    <3>2. BarsOK(d)'
      BY <1>0, <3>1 DEF CallOK, BarsOK, Me, At, Look, PastOwner, PastBlock, PastRate
    <3>3. TwinsOK(d)'
      BY <1>0, <3>1 DEF CallOK, TwinsOK, At, Look, SameSend
    <3> QED
      BY <3>2, <3>3 DEF CallOK
  <2> QED
    BY <2>1, <2>2
<1>3. ASSUME ReadOwner(d) PROVE CallOK(d)'
  <2>1. CASE \E answer : Reply(d, answer)
    BY <1>a, <1>3, <2>1 DEF ReadOwner
  <2>2. CASE ~ \E answer : Reply(d, answer)
    <3>1. Goto(d, "block") /\ Look /\ At(d, "owner") /\ call[d].on
          /\ OwnerOf[call[d].link] \notin paused
      BY <1>3, <2>2 DEF ReadOwner
    <3>2. BarsOK(d)'
      BY <1>0, <3>1, MovedCall DEF CallOK, BarsOK, Me, At, Look, PastOwner, PastBlock, PastRate, PCs
    <3>3. TwinsOK(d)'
      BY <1>0, <3>1, MovedCall DEF CallOK, TwinsOK, At, Look, SameSend, PCs
    <3> QED
      BY <3>2, <3>3 DEF CallOK
  <2> QED
    BY <2>1, <2>2
<1>4. ASSUME CheckBlock(d) PROVE CallOK(d)'
  <2>1. CASE Me(d) \in blocks
    BY <1>a, <1>4, <2>1 DEF CheckBlock
  <2>2. CASE Me(d) \notin blocks
    <3>1. Goto(d, "rate") /\ Look /\ At(d, "block")
      BY <1>4, <2>2 DEF CheckBlock
    <3>2. BarsOK(d)'
      BY <1>0, <2>2, <3>1, MovedCall
         DEF CallOK, BarsOK, Me, At, Look, PastOwner, PastBlock, PastRate, PCs
    <3>3. TwinsOK(d)'
      BY <1>0, <3>1, MovedCall DEF CallOK, TwinsOK, At, Look, SameSend, PCs
    <3> QED
      BY <3>2, <3>3 DEF CallOK
  <2> QED
    BY <2>1, <2>2
<1>5. ASSUME CheckRate(d) PROVE CallOK(d)'
  <2>1. CASE \E answer : Reply(d, answer)
    BY <1>a, <1>5, <2>1 DEF CheckRate
  <2>2. CASE ~ \E answer : Reply(d, answer)
    <3>1. /\ Goto(d, "duplicate") /\ Look /\ At(d, "rate")
          /\ ShouldWarn(TextOf[call[d].body]) => call[d].ack
      BY <1>5, <2>2 DEF CheckRate
    <3>2. BarsOK(d)'
      BY <1>0, <3>1, MovedCall DEF CallOK, BarsOK, Me, At, Look, PastOwner, PastBlock, PastRate, PCs
    <3>3. TwinsOK(d)'
      BY <1>0, <3>1, MovedCall DEF CallOK, TwinsOK, At, Look, SameSend, PCs
    <3> QED
      BY <3>2, <3>3 DEF CallOK
  <2> QED
    BY <2>1, <2>2
<1>6. ASSUME FindDuplicate(d) PROVE CallOK(d)'
  <2>1. CASE Duplicates(d) # {}
    BY <1>a, <1>6, <2>1 DEF FindDuplicate
  <2>2. CASE Duplicates(d) = {}
    <3>1. Goto(d, "store") /\ Look /\ At(d, "duplicate")
      BY <1>6, <2>2 DEF FindDuplicate
    <3>2. BarsOK(d)'
      BY <1>0, <3>1, MovedCall DEF CallOK, BarsOK, Me, At, Look, PastOwner, PastBlock, PastRate, PCs
    <3>3. \A i \in call[d].twins : msgs[i].blank
      BY <1>0, <2>2 DEF CallOK, TwinsOK, Duplicates
    <3>4. TwinsOK(d)'
      BY <1>0, <3>1, <3>3, MovedCall DEF CallOK, TwinsOK, At, Look, SameSend, PCs
    <3> QED
      BY <3>2, <3>4 DEF CallOK
  <2> QED
    BY <2>1, <2>2
<1>7. ASSUME NEW c \in Calls, Store(c) PROVE CallOK(d)'
  <2>0. /\ \A i \in DOMAIN msgs : msgs'[i] = msgs[i]
        /\ UNCHANGED <<active, paused, blocks>>
    BY <1>0, <1>7 DEF Store, TypeOK
  <2>00. \A i \in call[d].twins : msgs'[i].recent = msgs[i].recent
    BY <1>0, <2>0 DEF CallOK, TwinsOK
  <2>1. CASE c # d
    <3>1. call'[d] = call[d]
      BY <1>00, <1>7, <2>1 DEF Store
    <3> QED
      BY <1>0, <2>0, <2>00, <3>1, QuietCall
  <2>2. CASE c = d
    <3>1. /\ call'[d].pc \in {"enqueue", "second"} /\ call'[d].row = Len(msgs) + 1
          /\ call'[d].link = call[d].link /\ call'[d].print = call[d].print
          /\ call'[d].body = call[d].body /\ call'[d].ack = call[d].ack
          /\ call'[d].barred = call[d].barred /\ call'[d].twins = call[d].twins
          /\ At(d, "store") /\ Len(msgs) \in Nat
      BY <1>0, <1>00, <1>7, <2>2 DEF Store, CallType, TypeOK
    <3>2. BarsOK(d)'
      BY <1>0, <2>0, <3>1 DEF CallOK, BarsOK, Me, At, PastOwner, PastBlock, PastRate
    <3>3. TwinsOK(d)'
      BY <1>0, <2>0, <2>00, <3>1 DEF CallOK, TwinsOK, At, SameSend, Grow
    <3> QED
      BY <3>2, <3>3 DEF CallOK
  <2> QED
    BY <2>1, <2>2
<1>8. ASSUME NEW c \in Calls, SecondCommit(c) PROVE CallOK(d)'
  <2>0. /\ \A i \in DOMAIN msgs : msgs'[i].recent = msgs[i].recent
        /\ UNCHANGED <<active, paused, blocks>>
    <3>1. \A i \in DOMAIN msgs : msgs[i] \in RowType
      BY <1>0 DEF TypeOK
    <3> QED
      BY <1>0, <1>8, <3>1 DEF SecondCommit, RowType, TypeOK
  <2>00. \A i \in call[d].twins : msgs'[i].recent = msgs[i].recent
    BY <1>0, <2>0 DEF CallOK, TwinsOK
  <2>1. CASE c # d
    <3>1. call'[d] = call[d]
      BY <1>0, <1>8, <2>1, RepliedCall, MovedCall DEF SecondCommit, PCs
    <3> QED
      BY <1>0, <2>0, <2>00, <3>1, QuietCall
  <2>2. CASE c = d /\ Reply(d, "success")
    BY <1>0, <2>2, RepliedCall
  <2>3. CASE c = d /\ ~ Reply(d, "success")
    <3>1. Goto(d, "enqueue") /\ At(d, "second")
      BY <1>8, <2>3 DEF SecondCommit
    <3>2. BarsOK(d)'
      BY <1>0, <2>0, <3>1, MovedCall DEF CallOK, BarsOK, Me, At, PastOwner, PastBlock, PastRate, PCs
    <3>3. TwinsOK(d)'
      <4>1. /\ call'[d].pc = "enqueue" /\ call'[d].twins = call[d].twins
            /\ call'[d].link = call[d].link /\ call'[d].print = call[d].print
            /\ call'[d].body = call[d].body
        BY <1>0, <3>1, MovedCall DEF PCs
      <4> QED
        BY <1>0, <2>00, <4>1 DEF CallOK, TwinsOK, At, SameSend, Grow
    <3> QED
      BY <3>2, <3>3 DEF CallOK
  <2> QED
    BY <2>1, <2>2, <2>3
<1>9. ASSUME NEW c \in Calls, Enqueue(c) \/ Fail(c) PROVE CallOK(d)'
  BY <1>a, <1>9 DEF Enqueue, Fail
<1>10. ASSUME NEW c \in Calls, c # d,
              ReadOwner(c) \/ CheckBlock(c) \/ CheckRate(c) \/ FindDuplicate(c)
       PROVE  CallOK(d)'
  BY <1>a, <1>10 DEF ReadOwner, CheckBlock, CheckRate, FindDuplicate, PCs
<1>11. ASSUME NEW i \in DOMAIN msgs, Block(i) PROVE CallOK(d)'
  BY <1>0, <1>11, QuietCall DEF Block
<1>12. ASSUME NEW i \in DOMAIN msgs, Delete(i) PROVE CallOK(d)'
  <2>1. \A j \in DOMAIN msgs : msgs'[j].recent = msgs[j].recent
    <3>1. \A j \in DOMAIN msgs : msgs[j] \in RowType
      BY <1>0 DEF TypeOK
    <3> QED
      BY <1>0, <1>12, <3>1 DEF Delete, RowType, TypeOK
  <2>2. \A j \in call[d].twins : msgs'[j].recent = msgs[j].recent
    BY <1>0, <2>1 DEF CallOK, TwinsOK
  <2> QED
    BY <1>0, <1>12, <2>2, QuietCall DEF Delete
<1>13. ASSUME NEW i \in DOMAIN msgs, Forget(i) PROVE CallOK(d)'
  <2>1. /\ call'[d].twins = call[d].twins \ {i}
        /\ call'[d].pc = call[d].pc /\ call'[d].link = call[d].link
        /\ call'[d].print = call[d].print /\ call'[d].body = call[d].body
        /\ call'[d].ack = call[d].ack /\ call'[d].on = call[d].on
        /\ call'[d].row = call[d].row /\ call'[d].barred = call[d].barred
    BY <1>00, <1>13 DEF Forget, CallType
  <2>2. \A j \in DOMAIN msgs \ {i} : msgs'[j] = msgs[j]
    BY <1>0, <1>13 DEF Forget, TypeOK
  <2>3. BarsOK(d)'
    <3>1. UNCHANGED <<active, paused, blocks>>
      BY <1>13 DEF Forget
    <3> QED
      BY <1>0, <2>1, <3>1 DEF CallOK, BarsOK, Me, At
  <2>4. TwinsOK(d)'
    BY <1>0, <2>1, <2>2 DEF CallOK, TwinsOK, At, SameSend, Grow
  <2> QED
    BY <2>3, <2>4 DEF CallOK
<1>14. ASSUME NEW o \in Owners, Pause(o) PROVE CallOK(d)'
  BY <1>0, <1>14, QuietCall DEF Pause
<1>15. ASSUME NEW o \in Owners, Resume(o) PROVE CallOK(d)'
  <2>1. CASE OwnerOf[call[d].link] # o
    <3>1. call'[d] = call[d]
      BY <1>15, <2>1 DEF Resume
    <3> QED
      BY <1>0, <1>15, <2>1, <3>1, QuietCall DEF Resume
  <2>2. CASE OwnerOf[call[d].link] = o
    <3>1. /\ call'[d].barred = call[d].barred \ {"paused"}
          /\ call'[d].pc = call[d].pc /\ call'[d].link = call[d].link
          /\ call'[d].print = call[d].print /\ call'[d].body = call[d].body
          /\ call'[d].ack = call[d].ack /\ call'[d].on = call[d].on
          /\ call'[d].row = call[d].row /\ call'[d].twins = call[d].twins
      BY <1>00, <1>15, <2>2 DEF Resume, CallType
    <3>2. BarsOK(d)'
      BY <1>0, <1>15, <3>1 DEF CallOK, BarsOK, Me, At, Resume
    <3>3. TwinsOK(d)'
      BY <1>0, <1>15, <3>1 DEF CallOK, TwinsOK, At, SameSend, Resume
    <3> QED
      BY <3>2, <3>3 DEF CallOK
  <2> QED
    BY <2>1, <2>2
<1>16. ASSUME NEW l \in Links, TurnOff(l) PROVE CallOK(d)'
  BY <1>0, <1>16, QuietCall DEF TurnOff
<1>17. CASE UNCHANGED vars
  BY <1>0, <1>17, QuietCall DEF vars
<1> QED
  BY <1>1, <1>2, <1>3, <1>4, <1>5, <1>6, <1>7, <1>8, <1>9, <1>10, <1>11, <1>12, <1>13, <1>14,
     <1>15, <1>16, <1>17 DEF Next, Around, Step

\* The invariant is inductive.
LEMMA IInvStep == IInv /\ [Next]_vars => IInv'
BY TypeStep, RowsStep, CallsStep DEF IInv, CallOK

-----------------------------------------------------------------------------
(* The theorems                                                            *)

\* The invariant that carries the others, in every reachable state.
THEOREM Invariance == Spec => []IInv
BY InitIInv, IInvStep, PTL DEF Spec

\* Every variable keeps to the values its declaration names.
THEOREM TypeInvariant == Spec => []TypeOK
BY Invariance, PTL DEF IInv

\* _is_blocked stands between every request that began after a block and the
\* INSERT, in every interleaving: block_sender holds at once and for ever.
THEOREM BlocksHold == Spec => []BlockHolds
<1>1. IInv => BlockHolds
  BY DEF IInv, RowOK, BlockHolds
<1> QED
  BY <1>1, Invariance, PTL

\* is_paused and link.active, read once and early, are enough to keep out every
\* request that was not welcome at any moment of its life.
THEOREM ClosedLinksHold == Spec => []ClosedLinkHolds
<1>1. IInv => ClosedLinkHolds
  BY DEF IInv, RowOK, ClosedLinkHolds
<1> QED
  BY <1>1, Invariance, PTL

\* _find_recent_duplicate misses a same send only when the two overlap or the
\* first row's body is gone.
THEOREM DuplicatesOverlap == Spec => []DuplicatesNeedOverlap
<1>1. IInv => DuplicatesNeedOverlap
  BY DEF IInv, RowOK, DuplicatesNeedOverlap
<1> QED
  BY <1>1, Invariance, PTL

\* The thresholds of filter.py and the gate of send_message fit: no row that is
\* flagged L2 or L3 was stored without an acknowledged warning.
THEOREM FlaggedSendsWarned == Spec => []FlaggedWasWarned
<1>1. IInv => FlaggedWasWarned
  <2> SUFFICES ASSUME IInv, NEW i \in DOMAIN msgs, Severity(TextOf[msgs[i].body]) \in {"L2", "L3"}
               PROVE  msgs[i].ack
    BY DEF FlaggedWasWarned
  <2>1. msgs[i] \in RowType
    BY DEF IInv, TypeOK
  <2>2. TextOf[msgs[i].body] \in Texts
    BY <2>1, PipelineConstants DEF RowType
  <2> QED
    BY <2>2, FlaggedIsWarned DEF IInv, RowOK
<1> QED
  BY <1>1, Invariance, PTL

-----------------------------------------------------------------------------
(* What one request may do in a step, and what its answer is worth         *)

SamePerson(d) ==
  /\ call'[d].print = call[d].print /\ call'[d].link = call[d].link
  /\ call'[d].body = call[d].body /\ call'[d].ack = call[d].ack

Quiet(d) ==
  /\ SamePerson(d)
  /\ call'[d].pc = call[d].pc /\ call'[d].answer = call[d].answer /\ call'[d].row = call[d].row

\* A request is over, with an answer it has reason to give.
Replies(d) ==
  /\ call'[d].pc = "idle" /\ msgs' \in Seq(RowType) /\ Len(msgs') = Len(msgs)
  /\ call'[d].answer = "success" =>
       \/ Me(d) \in blocks
       \/ Duplicates(d) # {}
       \/ call[d].pc \in {"second", "enqueue"}

\* It goes on to the next part, which is after the commits or is not.
GoesOn(d) ==
  /\ call'[d].answer = call[d].answer /\ Len(msgs') = Len(msgs)
  /\ call'[d].twins = call[d].twins
  /\ \/ /\ call[d].pc \in {"link", "owner", "block", "rate", "duplicate"}
        /\ call'[d].pc \in {"owner", "block", "rate", "duplicate", "store"}
     \/ call[d].pc = "second" /\ call'[d].pc = "enqueue" /\ call'[d].row = call[d].row

LEMMA StepShape ==
  ASSUME IInv, TypeOK', NEW d \in Calls, Step(d)
  PROVE  /\ SamePerson(d) /\ ~ At(d, "idle")
         /\ Replies(d) \/ GoesOn(d) \/ Store(d)
         /\ \A e \in Calls \ {d} : call'[e] = call[e]
<1>0. /\ TypeOK /\ call \in [Calls -> CallType] /\ call[d] \in CallType
      /\ msgs \in Seq(RowType) /\ msgs' \in Seq(RowType)
  BY DEF IInv, TypeOK
<1>1. ASSUME NEW answer \in Answers, Reply(d, answer)
      PROVE  /\ SamePerson(d) /\ call'[d].pc = "idle" /\ call'[d].answer = answer
             /\ \A e \in Calls \ {d} : call'[e] = call[e]
  BY <1>0, <1>1 DEF Reply, CallType, SamePerson
<1>2. ASSUME NEW pc \in PCs, Goto(d, pc)
      PROVE  /\ SamePerson(d) /\ call'[d].pc = pc /\ call'[d].answer = call[d].answer
             /\ call'[d].row = call[d].row /\ call'[d].twins = call[d].twins
             /\ \A e \in Calls \ {d} : call'[e] = call[e]
  BY <1>0, <1>2 DEF Goto, CallType, SamePerson
<1>3. CASE ReadLink(d)
  BY <1>0, <1>3 DEF ReadLink, CallType, SamePerson, GoesOn, At, Look
<1>4. CASE ReadOwner(d)
  BY <1>0, <1>1, <1>2, <1>4
     DEF ReadOwner, Replies, GoesOn, At, Look, PCs, Answers
<1>5. CASE CheckBlock(d)
  BY <1>0, <1>1, <1>2, <1>5 DEF CheckBlock, Replies, GoesOn, At, Look, PCs, Answers
<1>6. CASE CheckRate(d)
  BY <1>0, <1>1, <1>2, <1>6 DEF CheckRate, Replies, GoesOn, At, Look, PCs, Answers
<1>7. CASE FindDuplicate(d)
  BY <1>0, <1>1, <1>2, <1>7 DEF FindDuplicate, Replies, GoesOn, At, Look, PCs, Answers
<1>8. CASE Store(d)
  BY <1>0, <1>8 DEF Store, CallType, SamePerson, At
<1>9. CASE SecondCommit(d)
  <2>1. Len(msgs') = Len(msgs)
    BY <1>0, <1>9 DEF SecondCommit
  <2>2. Reply(d, "success") \/ Goto(d, "enqueue")
    BY <1>9 DEF SecondCommit
  <2>3. call[d].pc = "second"
    BY <1>9 DEF SecondCommit, At
  <2>4. CASE Reply(d, "success")
    BY <1>0, <1>1, <2>1, <2>3, <2>4 DEF Replies, At, Answers
  <2>5. CASE Goto(d, "enqueue")
    BY <1>0, <1>2, <2>1, <2>3, <2>5 DEF GoesOn, At, PCs
  <2> QED
    BY <2>2, <2>4, <2>5
<1>10. CASE Enqueue(d)
  BY <1>0, <1>1, <1>10 DEF Enqueue, Replies, At, Look, Answers
<1>11. CASE Fail(d)
  BY <1>0, <1>1, <1>11 DEF Fail, Replies, At, Look, Answers
<1> QED
  BY <1>3, <1>4, <1>5, <1>6, <1>7, <1>8, <1>9, <1>10, <1>11 DEF Step

\* What the world around does leaves requests what they are.
LEMMA AroundShape ==
  ASSUME TypeOK, Around, NEW d \in Calls
  PROVE  Quiet(d)
<1>1. call \in [Calls -> CallType] /\ call[d] \in CallType
  BY DEF TypeOK
<1>2. ASSUME NEW o \in Owners, Resume(o) PROVE Quiet(d)
  BY <1>1, <1>2 DEF Resume, Quiet, SamePerson, CallType
<1>3. ASSUME NEW i \in DOMAIN msgs, Forget(i) PROVE Quiet(d)
  BY <1>1, <1>3 DEF Forget, Quiet, SamePerson, CallType
<1> QED
  BY <1>2, <1>3 DEF Around, Block, Delete, Pause, TurnOff, Quiet, SamePerson

\* A request at work after its first commit, or answered with success, has a row.
HasRow(d) ==
  /\ call[d].pc \in {"second", "enqueue"} =>
       call[d].row \in DOMAIN msgs
       /\ SameSend(call[d].row, call[d].print, call[d].link, call[d].body)
  /\ call[d].answer = "success" =>
       \/ Me(d) \in blocks
       \/ \E i \in DOMAIN msgs : SameSend(i, call[d].print, call[d].link, call[d].body)

LEMMA HasRowQuiet ==
  ASSUME NEW d, HasRow(d), Quiet(d), Grow, blocks \subseteq blocks'
  PROVE  HasRow(d)'
BY DEF HasRow, Quiet, SamePerson, Grow, SameSend, Me

LEMMA HasRowStep ==
  ASSUME IInv, \A e \in Calls : HasRow(e), [Next]_vars, NEW d \in Calls
  PROVE  HasRow(d)'
<1>0. TypeOK /\ TypeOK' /\ Grow /\ call \in [Calls -> CallType] /\ call[d] \in CallType
  BY GrowStep, TypeStep DEF IInv, TypeOK
<1>1. ASSUME NEW c \in Calls, NEW f \in Prints, NEW l \in Links, NEW b \in Bodies,
             NEW ack \in BOOLEAN, NEW form \in Forms, Begin(c, f, l, b, ack, form)
      PROVE  HasRow(d)'
  <2>1. CASE c = d
    <3>1. call'[d].pc \in {"idle", "link"} /\ call'[d].answer \in {"error", "none"}
      <4>1. CASE Reply(c, "error")
        BY <1>0, <2>1, <4>1 DEF Reply
      <4>2. CASE ~ Reply(c, "error")
        BY <1>0, <1>1, <2>1, <4>2 DEF Begin
      <4> QED
        BY <4>1, <4>2
    <3> QED
      BY <3>1 DEF HasRow
  <2>2. CASE c # d
    <3>1. call'[d] = call[d] /\ Look
      BY <1>0, <1>1, <2>2 DEF Begin, Reply
    <3> QED
      BY <1>0, <3>1, HasRowQuiet DEF Quiet, SamePerson, Look
  <2> QED
    BY <2>1, <2>2
<1>2. ASSUME NEW c \in Calls, c # d, Step(c) PROVE HasRow(d)'
  <2>1. call'[d] = call[d]
    BY <1>0, <1>2, StepShape
  <2>2. blocks \subseteq blocks'
    BY <1>2 DEF Step, ReadLink, ReadOwner, CheckBlock, CheckRate, FindDuplicate, Store, SecondCommit,
                Enqueue, Fail, Look
  <2> QED
    BY <1>0, <2>1, <2>2, HasRowQuiet DEF Quiet, SamePerson
<1>3. CASE Step(d)
  <2>1. SamePerson(d) /\ (Replies(d) \/ GoesOn(d) \/ Store(d))
    BY <1>0, <1>3, StepShape
  <2>2. blocks' = blocks
    BY <1>3 DEF Step, ReadLink, ReadOwner, CheckBlock, CheckRate, FindDuplicate, Store, SecondCommit,
                Enqueue, Fail, Look
  <2>3. CASE Replies(d)
    <3>1. \A i \in Duplicates(d) : i \in DOMAIN msgs /\ SameSend(i, call[d].print, call[d].link, call[d].body)
      BY DEF Duplicates
    <3> QED
      BY <1>0, <2>1, <2>2, <2>3, <3>1 DEF Replies, HasRow, SamePerson, Grow, SameSend, Me
  <2>4. CASE GoesOn(d)
    BY <1>0, <2>1, <2>2, <2>4 DEF GoesOn, HasRow, SamePerson, Grow, SameSend, Me
  <2>5. CASE Store(d)
    <3>1. msgs' = Append(msgs, NewRow(d)) /\ msgs \in Seq(RowType) /\ msgs' \in Seq(RowType)
      BY <1>0, <2>5 DEF Store, NewRow, TypeOK
    <3>2. call'[d].row = Len(msgs) + 1 /\ call'[d].answer = call[d].answer
      BY <1>0, <2>5 DEF Store, CallType
    <3>3. Len(msgs) + 1 \in DOMAIN msgs' /\ msgs'[Len(msgs) + 1] = NewRow(d)
      BY <3>1
    <3>4. LET r == msgs'[Len(msgs) + 1]
          IN  r.print = call'[d].print /\ r.link = call'[d].link /\ r.body = call'[d].body
      BY <2>1, <3>3 DEF NewRow, SamePerson
    <3> QED
      BY <1>0, <2>1, <2>2, <3>2, <3>3, <3>4 DEF HasRow, SamePerson, Grow, SameSend, Me
  <2> QED
    BY <2>1, <2>3, <2>4, <2>5
<1>4. CASE Around
  <2>1. Quiet(d) /\ blocks \subseteq blocks'
    BY <1>0, <1>4, AroundShape DEF Around, Block, Delete, Forget, Pause, Resume, TurnOff
  <2> QED
    BY <1>0, <2>1, HasRowQuiet
<1>5. CASE UNCHANGED vars
  BY <1>0, <1>5, HasRowQuiet DEF vars, Quiet, SamePerson
<1> QED
  BY <1>1, <1>2, <1>3, <1>4, <1>5 DEF Next

\* Every answer "success" stands for a stored message or for a block, whatever became
\* of the message's body afterwards.
THEOREM SuccessStays == Spec => []SuccessIsKept
<1> DEFINE Rows == \A d \in Calls : HasRow(d)
<1>1. Init => Rows
  BY DEF Init, NoCall, HasRow
<1>2. IInv /\ Rows /\ [Next]_vars => Rows'
  BY HasRowStep
<1>3. Rows => SuccessIsKept
  BY DEF HasRow, SuccessIsKept
<1> QED
  BY <1>1, <1>2, <1>3, Invariance, PTL DEF Spec

(***************************************************************************)
(* THE SENDER'S PAGE                                                       *)
(***************************************************************************)
-----------------------------------------------------------------------------
(* What the server does                                                    *)

ServerStep == (\E c \in Calls : Step(c)) \/ Around

LEMMA StepsInNext == ServerStep => Next
BY DEF ServerStep, Next

LEMMA BlocksGrow == IInv /\ [Next]_vars => blocks \subseteq blocks'
BY DEF Next, Around, Step, Begin, ReadLink, ReadOwner, CheckBlock, CheckRate, FindDuplicate, Store,
       SecondCommit, Enqueue, Fail, Look, Block, Delete, Forget, Pause, Resume, TurnOff, vars

\* No row becomes recent again, and only Store adds one.
LEMMA RowsAge ==
  ASSUME IInv, TypeOK', ServerStep, \A c \in Calls : ~ Store(c)
  PROVE  /\ DOMAIN msgs' = DOMAIN msgs
         /\ \A i \in DOMAIN msgs : msgs'[i].recent => msgs[i].recent
<1>1. msgs \in Seq(RowType) /\ \A i \in DOMAIN msgs : msgs[i] \in RowType
  BY DEF IInv, TypeOK
<1>2. ASSUME NEW c \in Calls, SecondCommit(c)
      PROVE  DOMAIN msgs' = DOMAIN msgs /\ \A i \in DOMAIN msgs : msgs'[i].recent => msgs[i].recent
  BY <1>1, <1>2 DEF SecondCommit, RowType
<1>3. ASSUME NEW k \in DOMAIN msgs, Delete(k) \/ Forget(k)
      PROVE  DOMAIN msgs' = DOMAIN msgs /\ \A i \in DOMAIN msgs : msgs'[i].recent => msgs[i].recent
  BY <1>1, <1>3 DEF Delete, Forget, RowType
<1>4. CASE UNCHANGED msgs
  BY <1>4
<1> QED
  BY <1>2, <1>3, <1>4 DEF ServerStep, Around, Step, ReadLink, ReadOwner, CheckBlock, CheckRate,
     FindDuplicate, Enqueue, Fail, Look, Block, Pause, Resume, TurnOff

\* A request's twins leave it only when they are no longer recent.
LEMMA TwinsStay ==
  ASSUME IInv, Around, NEW d \in Calls, NEW i \in call[d].twins, msgs'[i].recent
  PROVE  i \in call'[d].twins
<1>1. call \in [Calls -> CallType] /\ msgs \in Seq(RowType) /\ call[d] \in CallType
  BY DEF IInv, TypeOK
<1>2. i \in DOMAIN msgs
  BY DEF IInv, TwinsOK
<1>3. ASSUME NEW k \in DOMAIN msgs, Forget(k) PROVE i \in call'[d].twins
  <2>1. msgs[k] \in RowType
    BY <1>1
  <2>2. i # k
    BY <1>1, <1>2, <1>3, <2>1 DEF Forget, RowType
  <2> QED
    BY <1>1, <1>3, <2>2 DEF Forget, CallType
<1>4. ASSUME NEW o \in Owners, Resume(o) PROVE i \in call'[d].twins
  BY <1>1, <1>4 DEF Resume, CallType
<1> QED
  BY <1>3, <1>4 DEF Around, Block, Delete, Pause, TurnOff

\* A request at work was at work, for the same sender, about the same text.
LEMMA CallsAge ==
  ASSUME IInv, TypeOK', ServerStep, NEW d \in Calls
  PROVE  /\ SamePerson(d)
         /\ ~ At(d, "idle")' => ~ At(d, "idle")
         /\ call'[d].answer = "success" => ~ At(d, "idle") \/ call[d].answer = "success"
<1>1. ASSUME NEW c \in Calls, Step(c)
      PROVE  (SamePerson(d) /\ ~ At(d, "idle")) \/ call'[d] = call[d]
  BY <1>1, StepShape
<1>2. CASE \E c \in Calls : Step(c)
  BY <1>1, <1>2 DEF SamePerson, At
<1>3. CASE Around
  BY <1>3, AroundShape DEF Quiet, At, IInv
<1> QED
  BY <1>2, <1>3 DEF ServerStep

-----------------------------------------------------------------------------
(* A step of the server behind the pages                                   *)

LEMMA ServerPages ==
  ASSUME IInv, PInv, TypeOK', ServerStep, Grow, blocks \subseteq blocks', UNCHANGED <<page, seen, lost>>
  PROVE  PageTypeOK' /\ (\A t \in Tabs : PageOK(t)') /\ SuccessIsTrue'
<1>1. PageTypeOK' /\ page \in [Tabs -> PageType]
  BY DEF PInv, PageTypeOK
<1>2. ASSUME NEW t \in Tabs PROVE PageOK(t)'
  <2>1. PageOK(t) /\ (page[t].sending => page[t].req \in Calls)
    BY <1>1 DEF PInv, PageTypeOK, PageType
  <2>2. CASE ~ page[t].sending
    BY <2>1, <2>2 DEF PageOK
  <2>3. CASE page[t].sending
    <3> DEFINE c == page[t].req
    <3>1. /\ SamePerson(c) /\ (~ At(c, "idle")' => ~ At(c, "idle"))
          /\ call'[c].answer = "success" => ~ At(c, "idle") \/ call[c].answer = "success"
      BY <2>1, <2>3, CallsAge
    <3> QED
      BY <2>1, <2>3, <3>1 DEF PageOK, SamePerson, At
  <2> QED
    BY <2>2, <2>3
<1>3. SuccessIsTrue'
  BY DEF PInv, SuccessIsTrue, Grow, SameSend
<1> QED
  BY <1>1, <1>2, <1>3

LEMMA ServerAcks ==
  ASSUME IInv, PInv, TypeOK', ServerStep, Grow, UNCHANGED seen
  PROVE  AcksOK'
<1>1. msgs \in Seq(RowType) /\ call \in [Calls -> CallType] /\ AcksOK
  BY DEF IInv, TypeOK, PInv
<1>2. ASSUME NEW d \in Calls, (~ At(d, "idle") /\ call[d].ack)'
      PROVE  (<<call[d].print, call[d].body>> \in seen)'
  <2>1. SamePerson(d) /\ ~ At(d, "idle")
    BY <1>2, CallsAge
  <2> QED
    BY <1>1, <1>2, <2>1 DEF AcksOK, SamePerson
<1>3. ASSUME NEW i \in DOMAIN msgs', msgs'[i].ack
      PROVE  <<msgs'[i].print, msgs'[i].body>> \in seen'
  <2>1. CASE i \in DOMAIN msgs
    BY <1>1, <1>3, <2>1 DEF AcksOK, Grow
  <2>2. CASE i \notin DOMAIN msgs
    <3>1. PICK c \in Calls : Store(c)
      BY <2>2, RowsAge
    <3>2. msgs' = Append(msgs, NewRow(c))
      BY <3>1 DEF Store, NewRow
    <3>3. msgs'[i] = NewRow(c)
      BY <1>1, <2>2, <3>2
    <3>4. ~ At(c, "idle")
      BY <3>1 DEF Store, At
    <3> QED
      BY <1>1, <1>3, <3>3, <3>4 DEF NewRow, AcksOK
  <2> QED
    BY <2>1, <2>2
<1> QED
  BY <1>2, <1>3 DEF AcksOK

\* With one page, no two requests are at work at once.
LEMMA OnlyRequest ==
  ASSUME PInv, ~ lost, Cardinality(Tabs) = 1,
         NEW c \in Calls, NEW d \in Calls, ~ At(c, "idle"), ~ At(d, "idle")
  PROVE  c = d
<1>1. PICK t : Tabs = {t}
  BY PageConstants, FS_Singleton
<1>2. page[t].req = c /\ page[t].req = d
  BY <1>1 DEF PInv, InOrder
<1> QED
  BY <1>2

LEMMA ServerOrder ==
  ASSUME IInv, PInv, TypeOK', ServerStep, Grow, UNCHANGED <<page, lost>>
  PROVE  InOrder'
<1>0. /\ msgs \in Seq(RowType) /\ msgs' \in Seq(RowType) /\ call \in [Calls -> CallType]
      /\ InOrder /\ Len(msgs) \in Nat /\ DOMAIN msgs = 1..Len(msgs)
  BY DEF IInv, TypeOK, PInv
<1>1. ASSUME ~ lost', NEW c \in Calls, ~ At(c, "idle")' PROVE \E t \in Tabs : page'[t].req = c
  <2>1. ~ At(c, "idle")
    BY <1>1, CallsAge
  <2> QED
    BY <1>0, <1>1, <2>1 DEF InOrder
<1>2. ASSUME ~ lost, Cardinality(Tabs) = 1, \A c \in Calls : ~ Store(c)
      PROVE  /\ \A d \in Calls : call'[d].pc \in Unstored =>
                  \A i \in DOMAIN msgs' :
                    /\ msgs'[i].print = call'[d].print /\ msgs'[i].link = call'[d].link
                    /\ msgs'[i].body = call'[d].body /\ msgs'[i].recent
                    => i \in call'[d].twins
             /\ \A i, j \in DOMAIN msgs' :
                  /\ i < j /\ msgs'[i].print = msgs'[j].print /\ msgs'[i].link = msgs'[j].link
                  /\ msgs'[i].body = msgs'[j].body /\ msgs'[i].recent
                  => i \in msgs'[j].twins
  <2>1. DOMAIN msgs' = DOMAIN msgs /\ \A i \in DOMAIN msgs : msgs'[i].recent => msgs[i].recent
    BY <1>2, RowsAge
  <2>2. ASSUME NEW d \in Calls, call'[d].pc \in Unstored
        PROVE  /\ call[d].pc \in Unstored /\ SamePerson(d)
               /\ \A i \in call[d].twins : msgs'[i].recent => i \in call'[d].twins
    <3>1. ASSUME NEW c \in Calls, Step(c), c = d
          PROVE  call[d].pc \in Unstored /\ call'[d].twins = call[d].twins
      BY <1>2, <2>2, <3>1, StepShape DEF Replies, GoesOn, Unstored
    <3>2. ASSUME NEW c \in Calls, Step(c), c # d PROVE call'[d] = call[d]
      BY <3>2, StepShape
    <3>3. CASE Around
      BY <2>2, <3>3, AroundShape, TwinsStay DEF Quiet, IInv
    <3> QED
      BY <2>2, <3>1, <3>2, <3>3, CallsAge DEF ServerStep
  <2>3. ASSUME NEW d \in Calls, call'[d].pc \in Unstored, NEW i \in DOMAIN msgs',
               msgs'[i].print = call'[d].print, msgs'[i].link = call'[d].link,
               msgs'[i].body = call'[d].body, msgs'[i].recent
        PROVE  i \in call'[d].twins
    <3>1. SameSend(i, call[d].print, call[d].link, call[d].body) /\ msgs[i].recent
      BY <2>1, <2>2, <2>3 DEF Grow, SamePerson, SameSend
    <3>2. i \in call[d].twins
      BY <1>0, <1>2, <2>1, <2>2, <2>3, <3>1 DEF InOrder
    <3> QED
      BY <2>2, <2>3, <3>2
  <2>4. ASSUME NEW i \in DOMAIN msgs', NEW j \in DOMAIN msgs', i < j,
               msgs'[i].print = msgs'[j].print, msgs'[i].link = msgs'[j].link,
               msgs'[i].body = msgs'[j].body, msgs'[i].recent
        PROVE  i \in msgs'[j].twins
    BY <1>0, <1>2, <2>1, <2>4 DEF InOrder, Grow, SameSend
  <2> QED
    BY <2>3, <2>4
<1>3. ASSUME ~ lost, Cardinality(Tabs) = 1, NEW c \in Calls, Store(c)
      PROVE  /\ \A d \in Calls : call'[d].pc \notin Unstored
             /\ \A i, j \in DOMAIN msgs' :
                  /\ i < j /\ msgs'[i].print = msgs'[j].print /\ msgs'[i].link = msgs'[j].link
                  /\ msgs'[i].body = msgs'[j].body /\ msgs'[i].recent
                  => i \in msgs'[j].twins
  <2>1. msgs' = Append(msgs, NewRow(c)) /\ ~ At(c, "idle") /\ call[c].pc \in Unstored
    BY <1>3 DEF Store, NewRow, At, Unstored
  <2>2. ASSUME NEW d \in Calls PROVE call'[d].pc \notin Unstored
    <3>1. CASE d = c
      BY <1>0, <1>3, <3>1 DEF Store, Unstored
    <3>2. CASE d # c
      BY <1>0, <1>3, <2>1, <3>2, OnlyRequest DEF Store, At, Unstored
    <3> QED
      BY <3>1, <3>2
  <2>3. ASSUME NEW i \in DOMAIN msgs', NEW j \in DOMAIN msgs', i < j,
               msgs'[i].print = msgs'[j].print, msgs'[i].link = msgs'[j].link,
               msgs'[i].body = msgs'[j].body, msgs'[i].recent
        PROVE  i \in msgs'[j].twins
    <3>1. DOMAIN msgs' = 1..Len(msgs) + 1 /\ i \in DOMAIN msgs /\ msgs'[i] = msgs[i]
      BY <1>0, <2>1, <2>3
    <3>2. CASE j \in DOMAIN msgs
      <4>1. msgs'[j] = msgs[j]
        BY <1>0, <2>1, <3>2
      <4> QED
        BY <1>0, <1>3, <2>3, <3>1, <3>2, <4>1 DEF InOrder, SameSend
    <3>3. CASE j = Len(msgs) + 1
      <4>1. msgs'[j] = NewRow(c)
        BY <1>0, <2>1, <3>3
      <4>2. SameSend(i, call[c].print, call[c].link, call[c].body) /\ msgs[i].recent
        BY <2>3, <3>1, <4>1 DEF NewRow, SameSend
      <4>3. i \in call[c].twins
        BY <1>0, <1>3, <2>1, <3>1, <4>2 DEF InOrder
      <4> QED
        BY <4>1, <4>3 DEF NewRow
    <3> QED
      BY <1>0, <3>1, <3>2, <3>3
  <2> QED
    BY <2>2, <2>3
<1>4. CASE \E c \in Calls : Store(c)
  BY <1>1, <1>3, <1>4 DEF InOrder, SameSend
<1>5. CASE \A c \in Calls : ~ Store(c)
  BY <1>1, <1>2, <1>5 DEF InOrder, SameSend
<1> QED
  BY <1>4, <1>5

LEMMA ServerPInv ==
  ASSUME IInv, PInv, ServerStep, UNCHANGED <<page, seen, lost>>
  PROVE  PInv'
<1>1. Grow /\ TypeOK' /\ blocks \subseteq blocks'
  BY StepsInNext, GrowStep, TypeStep, BlocksGrow
<1> QED
  BY <1>1, ServerPages, ServerAcks, ServerOrder DEF PInv

-----------------------------------------------------------------------------
(* A step of a page                                                        *)

\* What is known of a page after a step that leaves the server alone.
LEMMA PageMoves ==
  ASSUME IInv, PInv, NEW t \in Tabs, NEW p \in PageType, page' = [page EXCEPT ![t] = p],
         UNCHANGED server, p.sending <=> p.req # NoCallYet, PageOK(t)',
         seen \subseteq seen', seen' \subseteq Prints \X Bodies,
         p.view = "success" =>
           \/ <<OwnerOf[LinkAt[t]], PrintAt[t]>> \in blocks
           \/ \E i \in DOMAIN msgs : SameSend(i, PrintAt[t], LinkAt[t], p.text),
         lost => lost', ~ lost' /\ page[t].sending => p.req = page[t].req \/ At(page[t].req, "idle"),
         lost' \in BOOLEAN
  PROVE  PInv'
<1>0. page \in [Tabs -> PageType] /\ call' = call /\ msgs' = msgs /\ blocks' = blocks
  BY DEF PInv, PageTypeOK, server, vars
<1>1. page'[t] = p /\ \A u \in Tabs \ {t} : page'[u] = page[u]
  BY <1>0
<1>2. PageTypeOK'
  BY <1>0, <1>1 DEF PInv, PageTypeOK
<1>3. ASSUME NEW u \in Tabs PROVE PageOK(u)'
  <2>1. CASE u # t
    BY <1>0, <1>1, <2>1 DEF PInv, PageOK, At
  <2> QED
    BY <2>1
<1>4. SuccessIsTrue'
  BY <1>0, <1>1 DEF PInv, SuccessIsTrue, SameSend
<1>5. AcksOK'
  BY <1>0 DEF PInv, AcksOK, At
<1>6. InOrder'
  <2>1. ASSUME ~ lost', NEW c \in Calls, ~ At(c, "idle")' PROVE \E u \in Tabs : page'[u].req = c
    <3>1. ~ lost /\ ~ At(c, "idle")
      BY <1>0, <2>1 DEF At
    <3>2. PICK u \in Tabs : page[u].req = c
      BY <3>1 DEF PInv, InOrder
    <3>3. page[u].sending
      BY <3>2, PageConstants DEF PInv, PageTypeOK
    <3>4. page'[u].req = c
      BY <1>1, <2>1, <3>1, <3>2, <3>3
    <3> QED
      BY <3>4
  <2> QED
    BY <1>0, <2>1 DEF PInv, InOrder, At, SameSend
<1> QED
  BY <1>2, <1>3, <1>4, <1>5, <1>6 DEF PInv

\* The request of a tap on "send" or "continue".
LEMMA SubmitInv ==
  ASSUME IInv, PInv, NEW t \in Tabs, NEW ack \in BOOLEAN, Submit(t, ack),
         ~ page[t].sending, page[t].text # NoText,
         ack => <<PrintAt[t], page[t].text>> \in seen
  PROVE  PInv' /\ [Next]_vars
<1> DEFINE f == PrintAt[t]
           l == LinkAt[t]
           b == page[t].text
<1>0. /\ page \in [Tabs -> PageType] /\ call \in [Calls -> CallType]
      /\ f \in Prints /\ l \in Links /\ b \in Bodies
  BY PageConstants DEF IInv, TypeOK, PInv, PageTypeOK, PageType
<1>1. PICK c \in Calls, form \in {"ok", "badToken"} :
        /\ \A u \in Tabs : page[u].req # c
        /\ Begin(c, f, l, b, ack, form)
        /\ page' = [page EXCEPT ![t].view = "compose", ![t].sending = TRUE, ![t].req = c]
  BY DEF Submit
<1>2. UNCHANGED <<active, paused, blocks, msgs, seen, lost>> /\ At(c, "idle")
  BY <1>1 DEF Begin, Look, Submit
<1>3. Next
  BY <1>0, <1>1 DEF Next, Forms
<1>4. /\ \A d \in Calls \ {c} : call'[d] = call[d]
      /\ \/ call'[c].pc = "idle" /\ call'[c].answer = "error"
         \/ /\ call'[c].pc = "link" /\ call'[c].answer = "none" /\ call'[c].ack = ack
            /\ call'[c].print = f /\ call'[c].link = l /\ call'[c].body = b
            /\ call'[c].twins = {i \in DOMAIN msgs : SameSend(i, f, l, b) /\ msgs[i].recent}
  <2>1. CASE Reply(c, "error")
    BY <1>0, <2>1 DEF Reply
  <2>2. CASE ~ Reply(c, "error")
    BY <1>0, <1>1, <2>2 DEF Begin
  <2> QED
    BY <2>1, <2>2
<1>5. /\ page'[t] \in PageType /\ page'[t].view = "compose" /\ page'[t].sending = TRUE
      /\ page'[t].req = c /\ page'[t].text = b
      /\ \A u \in Tabs \ {t} : page'[u] = page[u]
  BY <1>0, <1>1 DEF PageType, Views
<1>6. PageTypeOK'
  <2>1. page' \in [Tabs -> PageType]
    BY <1>0, <1>1, <1>5
  <2>2. c # NoCallYet
    BY PageConstants
  <2>3. ASSUME NEW u \in Tabs PROVE page'[u].sending <=> page'[u].req # NoCallYet
    <3>1. CASE u = t
      BY <1>5, <2>2, <3>1
    <3>2. CASE u # t
      BY <1>5, <3>2 DEF PInv, PageTypeOK
    <3> QED
      BY <3>1, <3>2
  <2>4. seen' \subseteq Prints \X Bodies /\ lost' \in BOOLEAN
    BY <1>2 DEF PInv, PageTypeOK
  <2> QED
    BY <2>1, <2>3, <2>4 DEF PageTypeOK
<1>7. ASSUME NEW u \in Tabs PROVE PageOK(u)'
  <2>1. CASE u = t
    BY <1>0, <1>4, <1>5, <2>1 DEF PageOK, At
  <2>2. CASE u # t
    <3>1. page'[u] = page[u] /\ PageOK(u) /\ page[u].req # c
      BY <1>1, <1>5, <2>2 DEF PInv
    <3>2. page[u].sending => page[u].req \in Calls
      BY <1>0 DEF PInv, PageTypeOK, PageType
    <3>3. page[u].sending => call'[page[u].req] = call[page[u].req]
      BY <1>4, <3>1, <3>2
    <3> QED
      BY <1>2, <3>1, <3>3 DEF PageOK, At
  <2> QED
    BY <2>1, <2>2
<1>8. SuccessIsTrue'
  BY <1>2, <1>5 DEF PInv, SuccessIsTrue, SameSend
<1>9. AcksOK'
  BY <1>2, <1>4 DEF PInv, AcksOK, At
<1>10. InOrder'
  <2>1. ASSUME ~ lost, NEW d \in Calls, ~ At(d, "idle")' PROVE \E u \in Tabs : page'[u].req = d
    <3>1. CASE d = c
      BY <1>5, <3>1
    <3>2. CASE d # c
      <4>1. PICK u \in Tabs : page[u].req = d
        BY <1>4, <2>1, <3>2 DEF PInv, InOrder, At
      <4>2. u # t
        BY <4>1, PageConstants DEF PInv, PageTypeOK
      <4> QED
        BY <1>5, <4>1, <4>2
    <3> QED
      BY <3>1, <3>2
  <2>2. ASSUME ~ lost, Cardinality(Tabs) = 1, NEW d \in Calls, call'[d].pc \in Unstored,
               NEW i \in DOMAIN msgs,
               SameSend(i, call'[d].print, call'[d].link, call'[d].body), msgs[i].recent
        PROVE  i \in call'[d].twins
    <3>1. CASE d = c
      BY <1>4, <2>2, <3>1 DEF Unstored
    <3>2. CASE d # c
      BY <1>4, <2>2, <3>2 DEF PInv, InOrder
    <3> QED
      BY <3>1, <3>2
  <2> QED
    BY <1>2, <2>1, <2>2 DEF PInv, InOrder, SameSend
<1> QED
  BY <1>3, <1>6, <1>7, <1>8, <1>9, <1>10 DEF PInv

LEMMA ScreenInv ==
  ASSUME IInv, PInv, NEW t \in Tabs,
         Open(t) \/ (\E b \in Bodies : Type(t, b)) \/ Offline(t) \/ LoseAnswer(t) \/ BackToComposer(t)
  PROVE  PInv'
<1>0. /\ page \in [Tabs -> PageType] /\ page[t] \in PageType /\ PageOK(t) /\ PageTypeOK
      /\ (page[t].sending <=> page[t].req # NoCallYet) /\ lost \in BOOLEAN
  BY DEF PInv, PageTypeOK
<1>1. CASE Open(t)
  <2> DEFINE p == IF LinkAt[t] \in active /\ OwnerOf[LinkAt[t]] \notin paused
                  THEN [NoPage EXCEPT !.view = "compose"] ELSE NoPage
  <2>1. /\ p \in PageType /\ p.sending = FALSE /\ p.req = NoCallYet
        /\ p.view \notin {"success", "warning"}
    BY DEF NoPage, PageType, Views
  <2>2. page' = [page EXCEPT ![t] = p]
    BY <1>1 DEF Open
  <2>3. page'[t] = p
    BY <1>0, <2>2
  <2> HIDE DEF p
  <2>4. PageOK(t)'
    BY <2>1, <2>3 DEF PageOK
  <2> QED
    BY <1>0, <1>1, <2>1, <2>2, <2>4, PageMoves DEF Open, PageTypeOK
<1>2. ASSUME NEW b \in Bodies, Type(t, b) PROVE PInv'
  <2> DEFINE p == [page[t] EXCEPT !.text = b]
  <2>1. /\ p \in PageType /\ p.sending = FALSE /\ p.req = page[t].req /\ p.view = "compose"
    BY <1>0, <1>2 DEF Type, PageType
  <2>2. page' = [page EXCEPT ![t] = p] /\ UNCHANGED <<server, seen, lost>>
    BY <1>2 DEF Type
  <2>3. page'[t] = p
    BY <1>0, <2>2
  <2>4. ~ page[t].sending
    BY <1>2 DEF Type
  <2> HIDE DEF p
  <2>5. PageOK(t)'
    BY <2>1, <2>3 DEF PageOK
  <2> QED
    BY <1>0, <2>1, <2>2, <2>4, <2>5, PageMoves DEF PageTypeOK
<1>3. CASE Offline(t) \/ BackToComposer(t)
  <2>1. PICK view \in {"error", "compose"} : Show(t, view)
    BY <1>3 DEF Offline, BackToComposer
  <2>2. ~ page[t].sending /\ UNCHANGED <<server, seen, lost>>
    BY <1>0, <1>3 DEF Offline, BackToComposer, CanClick, PageOK
  <2> DEFINE p == [page[t] EXCEPT !.view = view]
  <2>3. /\ p \in PageType /\ p.sending = FALSE /\ p.req = page[t].req /\ p.view = view
    BY <1>0, <2>2 DEF PageType, Views
  <2>4. page' = [page EXCEPT ![t] = p]
    BY <2>1 DEF Show
  <2>5. page'[t] = p
    BY <1>0, <2>4
  <2> HIDE DEF p
  <2>6. PageOK(t)'
    BY <2>3, <2>5 DEF PageOK
  <2> QED
    BY <1>0, <2>2, <2>3, <2>4, <2>6, PageMoves DEF PageTypeOK
<1>4. CASE LoseAnswer(t)
  <2> DEFINE p == [page[t] EXCEPT !.view = "error", !.sending = FALSE, !.req = NoCallYet]
  <2>1. /\ p \in PageType /\ p.sending = FALSE /\ p.req = NoCallYet /\ p.view = "error"
    BY <1>0 DEF PageType, Views
  <2>2. page' = [page EXCEPT ![t] = p] /\ UNCHANGED <<server, seen>> /\ lost' = TRUE
    BY <1>4 DEF LoseAnswer
  <2>3. page'[t] = p
    BY <1>0, <2>2
  <2> HIDE DEF p
  <2>4. PageOK(t)'
    BY <2>1, <2>3 DEF PageOK
  <2> QED
    BY <1>0, <2>1, <2>2, <2>4, PageMoves DEF PageTypeOK
<1> QED
  BY <1>1, <1>2, <1>3, <1>4

\* The view for an answer; success stands for a row or a block.
LEMMA AnswerInv ==
  ASSUME IInv, PInv, \A c \in Calls : HasRow(c), NEW t \in Tabs, Answer(t)
  PROVE  PInv'
<1> DEFINE c == page[t].req
           view == ViewOf(call[c].answer)
           p == [page[t] EXCEPT !.view = view, !.sending = FALSE, !.req = NoCallYet]
<1>0. /\ page \in [Tabs -> PageType] /\ page[t] \in PageType /\ PageOK(t) /\ PageTypeOK
      /\ page[t].sending /\ At(c, "idle") /\ page[t].req # NoCallYet
  BY DEF PInv, PageTypeOK, Answer
<1>1. c \in Calls /\ page[t].text \in Bodies /\ PrintAt[t] \in Prints
  BY <1>0, PageConstants DEF PageType, PageOK
<1>2. view \in Views /\ (view = "success" => call[c].answer = "success")
  BY DEF ViewOf, Views
<1>3. /\ p \in PageType /\ p.sending = FALSE /\ p.req = NoCallYet /\ p.view = view
      /\ p.text = page[t].text
  BY <1>0, <1>2 DEF PageType
<1>4. page' = [page EXCEPT ![t] = p] /\ UNCHANGED <<server, lost>>
  BY <1>0 DEF Answer
<1>5. /\ seen' = IF view = "warning" THEN seen \cup {<<PrintAt[t], page[t].text>>} ELSE seen
  BY DEF Answer
<1>6. seen \subseteq seen' /\ seen' \subseteq Prints \X Bodies
  BY <1>0, <1>1, <1>5 DEF PageTypeOK
<1>7. page'[t] = p
  BY <1>0, <1>4
<1>8. view = "success" =>
        \/ <<OwnerOf[LinkAt[t]], PrintAt[t]>> \in blocks
        \/ \E i \in DOMAIN msgs : SameSend(i, PrintAt[t], LinkAt[t], page[t].text)
  <2> SUFFICES ASSUME view = "success"
               PROVE  \/ <<OwnerOf[LinkAt[t]], PrintAt[t]>> \in blocks
                      \/ \E i \in DOMAIN msgs : SameSend(i, PrintAt[t], LinkAt[t], page[t].text)
    OBVIOUS
  <2>1. call[c].answer = "success" /\ HasRow(c)
    BY <1>1, <1>2
  <2>2. call[c].print = PrintAt[t] /\ call[c].link = LinkAt[t] /\ call[c].body = page[t].text
    BY <1>0, <2>1 DEF PageOK
  <2> QED
    BY <2>1, <2>2 DEF HasRow, Me
<1> HIDE DEF p, view
<1>9. PageOK(t)'
  <2>1. page'[t].text # NoText
    BY <1>1, <1>3, <1>7, PageConstants
  <2>2. page'[t].view = "warning" => <<PrintAt[t], page'[t].text>> \in seen'
    BY <1>3, <1>5, <1>7
  <2> QED
    BY <1>3, <1>7, <2>1, <2>2 DEF PageOK
<1>10. lost' \in BOOLEAN /\ (lost => lost')
  BY <1>4 DEF PInv, PageTypeOK
<1> QED
  BY <1>0, <1>3, <1>4, <1>6, <1>8, <1>9, <1>10, PageMoves

-----------------------------------------------------------------------------
(* The theorems                                                            *)

Rows == \A c \in Calls : HasRow(c)
AllInv == IInv /\ Rows /\ PInv

LEMMA InitAllInv == PInit => AllInv
<1> SUFFICES ASSUME PInit PROVE AllInv
  OBVIOUS
<1>0. IInv /\ msgs = <<>>
  BY InitIInv DEF PInit, Init
<1>1. Rows /\ \A c \in Calls : call[c].pc = "idle"
  BY DEF PInit, Init, NoCall, Rows, HasRow
<1>2. PageTypeOK
  BY DEF PInit, PageTypeOK, NoPage, PageType, Views
<1>3. \A t \in Tabs : PageOK(t)
  BY DEF PInit, NoPage, PageOK
<1>4. SuccessIsTrue /\ AcksOK /\ InOrder
  BY <1>0, <1>1 DEF PInit, NoPage, SuccessIsTrue, AcksOK, InOrder, At, Unstored
<1> QED
  BY <1>0, <1>1, <1>2, <1>3, <1>4 DEF AllInv, PInv

LEMMA AllStep == AllInv /\ [PNext]_pvars => AllInv' /\ [Next]_vars
<1> SUFFICES ASSUME AllInv, [PNext]_pvars PROVE PInv' /\ [Next]_vars
  BY IInvStep, HasRowStep DEF AllInv, Rows
<1>0. IInv /\ PInv /\ (\A c \in Calls : HasRow(c))
  BY DEF AllInv, Rows
<1>1. CASE ServerStep /\ UNCHANGED <<page, seen, lost>>
  BY <1>0, <1>1, ServerPInv, StepsInNext
<1>2. ASSUME NEW t \in Tabs, ClickSend(t) PROVE PInv' /\ [Next]_vars
  BY <1>0, <1>2, SubmitInv DEF ClickSend, CanClick
<1>3. ASSUME NEW t \in Tabs, ClickContinue(t) PROVE PInv' /\ [Next]_vars
  <2>1. PageOK(t) /\ page[t].view = "warning" /\ Submit(t, TRUE) /\ page[t].sending \in BOOLEAN
    BY <1>0, <1>3 DEF ClickContinue, PInv, PageTypeOK, PageType
  <2>2. ~ page[t].sending /\ page[t].text # NoText /\ <<PrintAt[t], page[t].text>> \in seen
    BY <2>1 DEF PageOK
  <2> QED
    BY <1>0, <2>1, <2>2, SubmitInv
<1>4. ASSUME NEW t \in Tabs,
             Open(t) \/ (\E b \in Bodies : Type(t, b)) \/ Offline(t) \/ LoseAnswer(t) \/ BackToComposer(t)
      PROVE  PInv' /\ [Next]_vars
  <2>1. UNCHANGED vars
    BY <1>4 DEF Open, Type, Offline, LoseAnswer, BackToComposer, server
  <2> QED
    BY <1>0, <1>4, <2>1, ScreenInv
<1>5. ASSUME NEW t \in Tabs, Answer(t) PROVE PInv' /\ [Next]_vars
  <2>1. UNCHANGED vars
    BY <1>5 DEF Answer, server
  <2> QED
    BY <1>0, <1>5, <2>1, AnswerInv
<1>6. CASE UNCHANGED pvars
  <2>1. PInv'
    BY <1>0, <1>6 DEF pvars, vars, PInv, PageTypeOK, PageOK, SuccessIsTrue, SameSend, AcksOK, InOrder, At
  <2> QED
    BY <1>6, <2>1 DEF pvars
<1> QED
  BY <1>1, <1>2, <1>3, <1>4, <1>5, <1>6 DEF PNext, ServerStep

\* The invariant of pages and server holds in every reachable state.
THEOREM PageInvariance == PSpec => []AllInv
<1>1. AllInv /\ [PNext]_pvars => AllInv'
  BY AllStep
<1> QED
  BY InitAllInv, <1>1, PTL DEF PSpec

\* Pages use the server as SendPipeline.tla says: what is proved of it holds here.
THEOREM PagesUsePipeline == PSpec => Spec
<1>1. PInit => Init
  BY DEF PInit
<1>2. AllInv /\ [PNext]_pvars => [Next]_vars
  BY AllStep
<1> QED
  BY <1>1, <1>2, PageInvariance, PTL DEF PSpec, Spec

\* Every variable of the pages keeps its type, and `sending` means that a request is out.
THEOREM PageTypes == PSpec => []PageTypeOK
<1>1. AllInv => PageTypeOK
  BY DEF AllInv, PInv
<1> QED
  BY PageInvariance, <1>1, PTL

\* Who sent a message that is flagged L2 or L3 had seen the warning about this text.
THEOREM WarningsWereSeen == PSpec => []FlaggedWasSeen
<1>1. FlaggedWasWarned /\ AllInv => FlaggedWasSeen
  BY DEF AllInv, PInv, AcksOK, FlaggedWasWarned, FlaggedWasSeen
<1> QED
  BY PagesUsePipeline, FlaggedSendsWarned, PageInvariance, <1>1, PTL

\* The success view never lies about the text it stands for.
THEOREM SuccessViewIsTrue == PSpec => []SuccessIsTrue
<1>1. AllInv => SuccessIsTrue
  BY DEF AllInv, PInv
<1> QED
  BY PageInvariance, <1>1, PTL

\* One page that loses no answer stores no recent text twice.
THEOREM OnePageOneMessage == PSpec => []OnePageSendsOnce
<1>1. AllInv => OnePageSendsOnce
  <2> SUFFICES ASSUME AllInv, Cardinality(Tabs) = 1, ~ lost, NEW i \in DOMAIN msgs, NEW j \in DOMAIN msgs,
                      SameSend(i, msgs[j].print, msgs[j].link, msgs[j].body),
                      msgs[i].recent, ~ msgs[i].blank, i < j
               PROVE  FALSE
    <3>1. \A i, j \in DOMAIN msgs : i < j \/ j <= i
      BY DEF AllInv, IInv, TypeOK
    <3> QED
      BY <3>1 DEF OnePageSendsOnce
  <2>1. i \in msgs[j].twins
    BY DEF AllInv, PInv, InOrder
  <2> QED
    BY <2>1 DEF AllInv, IInv, RowOK
<1> QED
  BY PageInvariance, <1>1, PTL
=============================================================================
