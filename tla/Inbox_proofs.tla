---------------------------- MODULE Inbox_proofs ----------------------------
(***************************************************************************)
(* The safety properties of Inbox.tla, for any number of messages,         *)
(* senders, updates in flight and texts.                                   *)
(***************************************************************************)
EXTENDS Inbox, ShareCard_proofs

\* What OpenedIsKept says of one update, and all the invariant says of it.
Kept(t) ==
  /\ tap[t].marked => ~ tap[t].began[tap[t].msg].opened
  /\ \A m \in tap[t].fresh : ~ tap[t].began[m].opened

\* The same for ListIsComplete.
Complete(t) ==
  At(t, "showList") =>
    \A m \in Listed \ tap[t].list :
      tap[t].began[m].state = "in" => Cardinality({k \in tap[t].list : k > m}) = PageSize

TapOK(t) == OnlyForward(t) /\ ReadOK(t) /\ Kept(t) /\ Complete(t)

\* Nothing is taken back: the tables of the next state are later ones.
Forward ==
  /\ row' \in [Msgs -> RowType]
  /\ \A m \in Msgs : /\ row[m].state = "gone" => row'[m].state = "gone"
                     /\ row[m].state # "none" => row'[m].state # "none"
                     /\ row[m].opened => row'[m].opened
  /\ IsFiniteSet(Stored')
  /\ blocks \subseteq blocks' /\ blocks' \subseteq Prints

LEMMA InParts ==
  IInv <=> TypeOK /\ IsFiniteSet(Stored) /\ (\A t \in Taps : TapOK(t)) /\ LockOK
<1>1. OpenedIsKept <=> \A t \in Taps : Kept(t)
  BY DEF OpenedIsKept, Kept
<1>2. ListIsComplete <=> \A t \in Taps : Complete(t)
  BY DEF ListIsComplete, Complete
<1> QED
  BY <1>1, <1>2 DEF IInv, TapOK

LEMMA InPartsNext ==
  IInv' <=> TypeOK' /\ IsFiniteSet(Stored') /\ (\A t \in Taps : TapOK(t)') /\ LockOK'
<1>1. OpenedIsKept' <=> \A t \in Taps : Kept(t)'
  BY DEF OpenedIsKept, Kept
<1>2. ListIsComplete' <=> \A t \in Taps : Complete(t)'
  BY DEF ListIsComplete, Complete
<1> QED
  BY <1>1, <1>2 DEF IInv, TapOK

\* An update that does not move keeps what is said of it.
LEMMA OthersStay ==
  ASSUME IInv, Forward, NEW u \in Taps, tap'[u] = tap[u]
  PROVE  TapOK(u)'
<1>1. TapOK(u) /\ tap[u] \in TapType
  BY InParts DEF TypeOK
<1>2. OnlyForward(u)'
  BY <1>1 DEF TapOK, OnlyForward, Stored, Forward, TapType, RowType
<1>3. ReadOK(u)'
  BY <1>1 DEF TapOK, ReadOK, Forward, At, PrintAt
<1>4. Kept(u)'
  BY <1>1 DEF TapOK, Kept
<1>5. Complete(u)'
  <2>1. ASSUME NEW m \in Listed', tap[u].began[m].state = "in" PROVE m \in Listed
    BY <1>1, <2>1 DEF TapOK, OnlyForward, Stored, Listed, Forward, IInv, TypeOK, RowType
  <2> QED
    BY <1>1, <2>1 DEF TapOK, Complete, At
<1> QED
  BY <1>2, <1>3, <1>4, <1>5 DEF TapOK

\* A step of one update is right if what it leaves of that update is.
LEMMA OneMoves ==
  ASSUME IInv, Forward, NEW t \in Taps, NEW k \in TapType, tap' = [tap EXCEPT ![t] = k],
         layer' \in Nat, lock' \in Taps \cup {None}, TapOK(t)', LockOK'
  PROVE  IInv'
<1>1. tap \in [Taps -> TapType]
  BY DEF IInv, TypeOK
<1>2. TypeOK'
  BY <1>1 DEF TypeOK, Forward
<1>3. ASSUME NEW u \in Taps PROVE TapOK(u)'
  <2>1. CASE u = t
    BY <2>1
  <2>2. CASE u # t
    <3>1. tap'[u] = tap[u]
      BY <1>1, <2>2
    <3> QED
      BY <3>1, OthersStay
  <2> QED
    BY <2>1, <2>2
<1> QED
  BY <1>2, <1>3, InPartsNext DEF Forward

\* A step outside the critical section, to outside of it.
LEMMA OutsideLock ==
  ASSUME IInv, NEW t \in Taps, NEW k \in TapType, tap' = [tap EXCEPT ![t] = k],
         tap[t].pc \notin {"again", "compose"}, k.pc \notin {"again", "compose"},
         UNCHANGED <<layer, lock>>
  PROVE  LockOK' /\ layer' \in Nat /\ lock' \in Taps \cup {None}
<1>1. tap \in [Taps -> TapType] /\ LockOK /\ layer \in Nat /\ lock \in Taps \cup {None}
  BY DEF IInv, TypeOK
<1>2. tap'[t] = k /\ \A u \in Taps \ {t} : tap'[u] = tap[u]
  BY <1>1
<1>3. \A u \in Taps : tap'[u].pc \in {"again", "compose"} <=> lock' = u
  BY <1>1, <1>2 DEF LockOK
<1>4. \A u \in Taps : At(u, "compose")' => layer' = 0
  BY <1>1, <1>2 DEF LockOK, At
<1> QED
  BY <1>1, <1>3, <1>4 DEF LockOK

\* Where no list is about to be shown, nothing is said of one.
LEMMA NoList ==
  ASSUME NEW t \in Taps, tap'[t].pc # "showList"
  PROVE  Complete(t)'
BY DEF Complete, At

LEMMA SameTables ==
  ASSUME IInv, UNCHANGED <<row, blocks>>
  PROVE  Forward
BY DEF IInv, TypeOK, Forward, Stored

\* An update that ends.
LEMMA NoTapOK ==
  /\ NoTap \in TapType
  /\ NoTap.pc = "idle" /\ NoTap.marked = FALSE /\ NoTap.fresh = {} /\ NoTap.blocked = {}
  /\ NoTap.msg = None /\ NoTap.copy = None
  /\ \A m \in Msgs : NoTap.began[m] = NoRow
BY DEF NoTap, TapType, NoRow, RowType, Ops

LEMMA FinishOK ==
  ASSUME NEW t \in Taps, tap'[t] = NoTap
  PROVE  TapOK(t)'
<1>1. OnlyForward(t)'
  BY NoTapOK DEF OnlyForward, NoRow
<1>2. ReadOK(t)'
  BY NoTapOK, InboxConstants DEF ReadOK, At, PrintAt, HasMessage, HasFound
<1>3. Kept(t)'
  BY NoTapOK DEF Kept
<1>4. Complete(t)'
  BY NoTapOK, NoList
<1> QED
  BY <1>1, <1>2, <1>3, <1>4 DEF TapOK

LEMMA FinishInv ==
  ASSUME IInv, NEW t \in Taps, Finish(t), UNCHANGED <<row, blocks, layer, lock>>,
         tap[t].pc \notin {"again", "compose"}
  PROVE  IInv'
<1>1. tap' = [tap EXCEPT ![t] = NoTap] /\ tap \in [Taps -> TapType]
  BY DEF Finish, IInv, TypeOK
<1>2. tap'[t] = NoTap /\ NoTap \in TapType /\ NoTap.pc = "idle"
  BY <1>1, NoTapOK
<1>3. LockOK' /\ layer' \in Nat /\ lock' \in Taps \cup {None}
  BY <1>1, <1>2, OutsideLock
<1> QED
  BY <1>1, <1>2, <1>3, OneMoves, FinishOK, SameTables

-----------------------------------------------------------------------------
(* Steps that only move on                                                 *)

LEMMA GotoMoves ==
  ASSUME IInv, NEW t \in Taps, NEW pc \in HasMessage \cup {"idle", "prompt", "query", "showList"},
         Goto(t, pc)
  PROVE  /\ [tap[t] EXCEPT !.pc = pc] \in TapType
         /\ tap' = [tap EXCEPT ![t] = [tap[t] EXCEPT !.pc = pc]]
         /\ tap'[t] = [tap[t] EXCEPT !.pc = pc]
BY DEF IInv, TypeOK, TapType, Goto

\* A tap goes on to a part of its handler that it may enter.
LEMMA GotoTapOK ==
  ASSUME IInv, Forward, NEW t \in Taps, NEW pc \in HasFound \cup {"query"}, Goto(t, pc),
         pc \in HasFound => tap[t].msg \in Msgs /\ tap[t].began[tap[t].msg].state # "gone",
         pc = "mark" => tap[t].copy \in BOOLEAN,
         pc = "insertBlock" => PrintAt(t) \notin tap[t].blocked,
         pc = "raised" => PrintAt(t) \in blocks' \ tap[t].blocked
  PROVE  TapOK(t)'
<1>1. TapOK(t) /\ tap[t] \in TapType
  BY InParts DEF IInv, TypeOK
<1>0. tap'[t] = [tap[t] EXCEPT !.pc = pc]
  BY GotoMoves DEF HasMessage
<1>2. /\ tap'[t].pc = pc /\ tap'[t].msg = tap[t].msg /\ tap'[t].began = tap[t].began
      /\ tap'[t].copy = tap[t].copy /\ tap'[t].blocked = tap[t].blocked
      /\ tap'[t].fresh = tap[t].fresh /\ tap'[t].marked = tap[t].marked
      /\ tap'[t].op = tap[t].op
  BY <1>0, <1>1 DEF TapType
<1>3. OnlyForward(t)'
  BY <1>1, <1>2 DEF TapOK, OnlyForward, Stored, Forward, Stored, TapType, RowType
<1>4. ReadOK(t)'
  BY <1>1, <1>2 DEF TapOK, ReadOK, At, PrintAt, HasMessage, HasFound
<1>5. Kept(t)'
  BY <1>1, <1>2 DEF TapOK, Kept
<1>6. Complete(t)'
  BY <1>2, NoList DEF HasFound
<1> QED
  BY <1>3, <1>4, <1>5, <1>6 DEF TapOK

LEMMA GotoInv ==
  ASSUME IInv, Forward, NEW t \in Taps, NEW pc \in HasFound \cup {"query"}, Goto(t, pc),
         TapOK(t)', tap[t].pc \notin {"again", "compose"}, pc \notin {"again", "compose"},
         UNCHANGED <<layer, lock>>
  PROVE  IInv'
<1>1. pc \in HasMessage \cup {"idle", "prompt", "query", "showList"}
  BY DEF HasMessage
<1>2. PICK k \in TapType : k = [tap[t] EXCEPT !.pc = pc]
  BY <1>1, GotoMoves
<1>3. tap' = [tap EXCEPT ![t] = k] /\ k.pc = pc
  BY <1>1, <1>2, GotoMoves DEF IInv, TypeOK, TapType
<1>4. LockOK' /\ layer' \in Nat /\ lock' \in Taps \cup {None}
  BY <1>3, OutsideLock
<1> QED
  BY <1>3, <1>4, OneMoves

\* What is known of a tap that has found its message.
LEMMA Found ==
  ASSUME IInv, NEW t \in Taps, tap[t].pc \in HasFound
  PROVE  tap[t].msg \in Msgs /\ tap[t].began[tap[t].msg].state # "gone"
BY InParts DEF TapOK, ReadOK, HasMessage

LEMMA EndsInv ==
  ASSUME IInv, NEW t \in Taps, Prompt(t) \/ Show(t) \/ ShowList(t) \/ Photo(t) \/ Fail(t)
  PROVE  IInv'
<1>1. Finish(t) /\ ReadOnly /\ tap[t].pc \notin {"again", "compose"}
  BY DEF Prompt, Show, ShowList, Photo, Fail, At
<1> QED
  BY <1>1, FinishInv DEF ReadOnly

LEMMA BlockStepsInv ==
  ASSUME IInv, NEW t \in Taps, LookBlock(t) \/ InsertBlock(t) \/ Confirm(t)
  PROVE  IInv'
<1>0. tap[t].pc \in {"lookBlock", "insertBlock", "confirm"} /\ UNCHANGED <<row, layer, lock>>
  BY DEF LookBlock, InsertBlock, Confirm, At, ReadOnly
<1>1. tap[t].pc \in HasFound /\ tap[t].msg \in Msgs /\ tap[t].began[tap[t].msg].state # "gone"
  BY <1>0, Found DEF HasFound
<1>2. OnlyForward(t) /\ ReadOK(t)
  BY DEF IInv
<1>3. CASE LookBlock(t)
  <2>1. PICK pc \in {"confirm", "insertBlock"} :
          Goto(t, pc) /\ (pc = "insertBlock" => PrintAt(t) \notin blocks)
    BY <1>3 DEF LookBlock
  <2>2. Forward /\ pc \in HasFound
    BY <1>3, SameTables DEF LookBlock, ReadOnly, HasFound
  <2>3. TapOK(t)'
    BY <1>1, <1>2, <2>1, <2>2, GotoTapOK DEF OnlyForward
  <2> QED
    BY <1>0, <2>1, <2>2, <2>3, GotoInv
<1>4. CASE InsertBlock(t)
  <2>1. PICK pc \in {"confirm", "raised"} :
          Goto(t, pc) /\ (pc = "raised" => PrintAt(t) \in blocks)
    BY <1>4 DEF InsertBlock
  <2>2. PrintAt(t) \notin tap[t].blocked /\ PrintAt(t) \in Prints
    BY <1>1, <1>2, <1>4, InboxConstants DEF InsertBlock, ReadOK, PrintAt
  <2>3. Forward /\ pc \in HasFound
    BY <1>0, <1>4, <2>2 DEF InsertBlock, Forward, Stored, HasFound, IInv, TypeOK
  <2>4. TapOK(t)'
    BY <1>1, <2>1, <2>2, <2>3, GotoTapOK DEF Forward
  <2> QED
    BY <1>0, <2>1, <2>3, <2>4, GotoInv
<1>5. CASE Confirm(t)
  <2>1. Goto(t, "query") /\ Forward
    BY <1>5, SameTables DEF Confirm, ReadOnly
  <2>2. TapOK(t)'
    BY <2>1, GotoTapOK DEF HasFound
  <2> QED
    BY <1>0, <2>1, <2>2, GotoInv
<1> QED
  BY <1>3, <1>4, <1>5

LEMMA DeleteInv ==
  ASSUME IInv, NEW t \in Taps, Delete(t)
  PROVE  IInv'
<1>1. tap[t].msg \in Msgs /\ tap[t].pc = "delete"
  BY Found DEF Delete, At, HasFound
<1>0. Forward
  <2>1. row' = [row EXCEPT ![tap[t].msg].state = "gone"] /\ row \in [Msgs -> RowType]
        /\ UNCHANGED blocks /\ blocks \subseteq Prints
    BY DEF Delete, IInv, TypeOK
  <2>2. Stored' \subseteq Stored \cup {tap[t].msg}
    BY <1>1, <2>1 DEF Stored, RowType
  <2>3. IsFiniteSet(Stored')
    BY <2>2, FS_AddElement, FS_Subset DEF IInv
  <2> QED
    BY <1>1, <2>1, <2>3 DEF Forward, RowType
<1>2. Forward /\ Goto(t, "query") /\ UNCHANGED <<layer, lock>>
  BY <1>0 DEF Delete
<1>3. TapOK(t)'
  BY <1>2, GotoTapOK DEF HasFound
<1> QED
  BY <1>1, <1>2, <1>3, GotoInv

-----------------------------------------------------------------------------
(* The static layer                                                        *)

LEMMA CheckLayerInv ==
  ASSUME IInv, NEW t \in Taps, CheckLayer(t)
  PROVE  IInv'
<1>1. PICK pc \in {"photo", "lock"} : Goto(t, pc)
  BY DEF CheckLayer
<1>2. tap[t].pc = "layer" /\ Forward /\ UNCHANGED <<layer, lock>> /\ pc \in HasFound
  BY SameTables DEF CheckLayer, ReadOnly, At, HasFound
<1>3. TapOK(t)'
  BY <1>1, <1>2, Found, GotoTapOK DEF HasFound
<1> QED
  BY <1>1, <1>2, <1>3, GotoInv

\* Into, inside and out of the critical section.
LEMMA CriticalInv ==
  ASSUME IInv, NEW t \in Taps, Lock(t) \/ LookAgain(t) \/ Compose(t)
  PROVE  IInv'
<1>1. Forward
  BY SameTables DEF Lock, LookAgain, Compose
<1>2. /\ tap \in [Taps -> TapType] /\ LockOK /\ layer \in Nat /\ lock \in Taps \cup {None}
      /\ None \notin Taps
  BY InboxConstants DEF IInv, TypeOK
<1>3. tap[t].pc \in {"lock", "again", "compose"}
  BY DEF Lock, LookAgain, Compose, At
<1>4. ASSUME NEW pc \in {"again", "compose", "photo"}, Goto(t, pc),
             pc = "again" => tap[t].pc = "lock" /\ lock = None /\ lock' = t /\ layer' = layer,
             pc = "compose" => tap[t].pc = "again" /\ lock' = lock /\ layer' = layer /\ layer = 0,
             pc = "photo" => /\ tap[t].pc \in {"again", "compose"} /\ lock' = None
                             /\ layer' = layer \/ (tap[t].pc = "compose" /\ layer' = layer + 1)
      PROVE  IInv'
  <2>1. pc \in HasFound /\ pc \in HasMessage \cup {"idle", "prompt", "query", "showList"}
    BY DEF HasFound, HasMessage
  <2>2. TapOK(t)'
    BY <1>1, <1>3, <1>4, <2>1, Found, GotoTapOK DEF HasFound
  <2>3. PICK k \in TapType : k = [tap[t] EXCEPT !.pc = pc]
    BY <1>4, <2>1, GotoMoves
  <2>4. tap' = [tap EXCEPT ![t] = k] /\ k.pc = pc
    BY <1>2, <1>4, <2>1, <2>3, GotoMoves DEF TapType
  <2>5. tap'[t].pc = pc /\ \A u \in Taps \ {t} : tap'[u] = tap[u]
    BY <1>2, <2>4
  <2>6. \A u \in Taps : tap'[u].pc \in {"again", "compose"} <=> lock' = u
    BY <1>2, <1>4, <2>5 DEF LockOK
  <2>7. \A u \in Taps : tap'[u].pc = "compose" => layer' = 0
    BY <1>2, <1>4, <2>5 DEF LockOK, At
  <2>8. layer' \in Nat /\ layer' <= 1 /\ lock' \in Taps \cup {None}
    BY <1>2, <1>4 DEF LockOK, At
  <2>9. LockOK'
    BY <2>6, <2>7, <2>8 DEF LockOK, At
  <2> QED
    BY <1>1, <2>2, <2>4, <2>8, <2>9, OneMoves
<1>5. CASE Lock(t)
  BY <1>4, <1>5 DEF Lock, At
<1>6. CASE LookAgain(t)
  <2>1. layer > 0 \/ layer = 0
    BY <1>2
  <2> QED
    BY <1>2, <1>4, <1>6, <2>1 DEF LookAgain, At
<1>7. CASE Compose(t)
  <2>1. CASE layer' = layer + 1 /\ Goto(t, "photo")
    BY <1>4, <1>7, <2>1 DEF Compose, At
  <2>2. CASE UNCHANGED layer /\ Finish(t)
    <3>1. tap' = [tap EXCEPT ![t] = NoTap] /\ lock' = None /\ layer' = layer /\ lock = t
      BY <1>2, <1>7, <2>2 DEF Finish, Compose, LockOK, At
    <3>2. tap'[t] = NoTap /\ NoTap \in TapType /\ NoTap.pc = "idle"
          /\ \A u \in Taps \ {t} : tap'[u] = tap[u]
      BY <1>2, <3>1, NoTapOK
    <3>3. \A u \in Taps : tap'[u].pc \in {"again", "compose"} <=> lock' = u
      BY <1>2, <3>1, <3>2 DEF LockOK
    <3>4. \A u \in Taps : tap'[u].pc = "compose" => layer' = 0
      BY <1>2, <3>1, <3>2 DEF LockOK, At
    <3>5. LockOK'
      BY <1>2, <3>1, <3>3, <3>4 DEF LockOK, At
    <3> QED
      BY <1>1, <1>2, <3>1, <3>2, <3>5, FinishOK, OneMoves
  <2> QED
    BY <1>7, <2>1, <2>2 DEF Compose
<1> QED
  BY <1>5, <1>6, <1>7

-----------------------------------------------------------------------------
(* Steps that read                                                         *)

LEMMA BeginInv ==
  ASSUME IInv, NEW t \in Taps, NEW op \in Ops, NEW m \in Msgs \cup {None}, Begin(t, op, m)
  PROVE  IInv'
<1> DEFINE pc == CASE op = "list" -> "query" [] op = "prompt" -> "prompt" [] OTHER -> "load"
           k == [NoTap EXCEPT !.pc = pc, !.op = op, !.msg = m, !.began = row, !.blocked = blocks]
<1>1. /\ tap \in [Taps -> TapType] /\ row \in [Msgs -> RowType] /\ blocks \subseteq Prints
      /\ tap[t].pc \in {"idle", "raised"} /\ UNCHANGED <<row, blocks, layer, lock>>
      /\ tap' = [tap EXCEPT ![t] = k] /\ (op = "list" <=> m = None)
  BY DEF IInv, TypeOK, Begin, ReadOnly
<1>2. pc \in {"query", "prompt", "load"} /\ (pc = "load" => op \in {"open", "delete", "block", "card"})
  BY DEF Ops
<1>3. /\ k \in TapType /\ k.pc = pc /\ k.op = op /\ k.msg = m /\ k.began = row
      /\ k.blocked = blocks /\ k.copy = None /\ k.fresh = {} /\ k.marked = FALSE
  BY <1>1, <1>2, NoTapOK DEF TapType, HasMessage
<1>4. tap'[t] = k
  BY <1>1
<1>5. Forward
  BY <1>1, SameTables
<1> HIDE DEF k, pc
<1>6. OnlyForward(t)'
  BY <1>1, <1>3, <1>4 DEF OnlyForward, Stored
<1>7. ReadOK(t)'
  BY <1>1, <1>2, <1>3, <1>4, InboxConstants DEF ReadOK, At, PrintAt, HasMessage, HasFound
<1>8. Kept(t)' /\ Complete(t)'
  BY <1>2, <1>3, <1>4, NoList DEF Kept
<1>9. LockOK' /\ layer' \in Nat /\ lock' \in Taps \cup {None}
  BY <1>1, <1>2, <1>3, OutsideLock
<1> QED
  BY <1>1, <1>3, <1>5, <1>6, <1>7, <1>8, <1>9, OneMoves DEF TapOK

\* A message that is found has not been deleted since the tap came in, and the copy
\* knows of every opening before that.
LEMMA LoadInv ==
  ASSUME IInv, NEW t \in Taps, Load(t)
  PROVE  IInv'
<1> DEFINE m == tap[t].msg
<1>1. /\ tap \in [Taps -> TapType] /\ row \in [Msgs -> RowType]
      /\ tap[t].pc = "load" /\ UNCHANGED <<row, blocks, layer, lock>>
  BY DEF IInv, TypeOK, Load, At, ReadOnly
<1>2. OnlyForward(t) /\ ReadOK(t) /\ Kept(t)
  BY InParts DEF TapOK
<1>3. m \in Msgs /\ tap[t].op \in {"open", "delete", "block", "card"}
  BY <1>1, <1>2 DEF ReadOK, HasMessage, At
<1>4. Forward
  BY <1>1, SameTables
<1>5. CASE row[m].state = "in"
  <2> DEFINE pc == AfterLoad(tap[t].op)
             k == [tap[t] EXCEPT !.pc = pc, !.copy = row[m].opened]
  <2>1. pc \in {"mark", "delete", "lookBlock", "layer"}
    BY <1>3 DEF AfterLoad
  <2>2. row[m].opened \in BOOLEAN
    BY <1>1, <1>3 DEF RowType
  <2>3. tap' = [tap EXCEPT ![t] = k]
    BY <1>1, <1>5 DEF Load
  <2>4. /\ k \in TapType /\ k.pc = pc /\ k.op = tap[t].op /\ k.msg = m /\ k.began = tap[t].began
        /\ k.blocked = tap[t].blocked /\ k.copy = row[m].opened
        /\ k.fresh = tap[t].fresh /\ k.marked = tap[t].marked
    BY <1>1, <2>1, <2>2 DEF TapType, HasMessage, HasFound
  <2>5. tap'[t] = k
    BY <1>1, <2>3
  <2> HIDE DEF k, pc
  <2>6. OnlyForward(t)'
    BY <1>1, <1>2, <2>4, <2>5 DEF OnlyForward, Stored
  <2>7. tap[t].began[m].state # "gone" /\ (tap[t].began[m].opened => row[m].opened)
    BY <1>2, <1>3, <1>5 DEF OnlyForward
  <2>8. ReadOK(t)'
    BY <1>1, <1>3, <2>1, <2>2, <2>4, <2>5, <2>7 DEF ReadOK, At, PrintAt, HasMessage, HasFound
  <2>9. Kept(t)' /\ Complete(t)'
    BY <1>2, <2>1, <2>4, <2>5, NoList DEF Kept
  <2>10. LockOK' /\ layer' \in Nat /\ lock' \in Taps \cup {None}
    BY <1>1, <2>1, <2>3, <2>4, OutsideLock
  <2> QED
    BY <1>4, <2>3, <2>4, <2>6, <2>8, <2>9, <2>10, OneMoves DEF TapOK
<1>6. CASE row[m].state # "in" /\ tap[t].op \in {"open", "card"}
  <2>1. Finish(t)
    BY <1>6 DEF Load
  <2> QED
    BY <1>1, <2>1, FinishInv
<1>7. CASE row[m].state # "in" /\ tap[t].op \notin {"open", "card"}
  <2>1. Goto(t, "query")
    BY <1>7 DEF Load
  <2>2. TapOK(t)'
    BY <1>4, <2>1, GotoTapOK DEF HasFound
  <2> QED
    BY <1>1, <1>4, <2>1, <2>2, GotoInv
<1> QED
  BY <1>5, <1>6, <1>7

LEMMA MarkInv ==
  ASSUME IInv, NEW t \in Taps, Mark(t)
  PROVE  IInv'
<1> DEFINE m == tap[t].msg
<1>1. /\ tap \in [Taps -> TapType] /\ row \in [Msgs -> RowType]
      /\ tap[t].pc = "mark" /\ UNCHANGED <<blocks, layer, lock>>
  BY DEF IInv, TypeOK, Mark, At
<1>2. OnlyForward(t) /\ ReadOK(t) /\ Kept(t) /\ blocks \subseteq Prints
  BY InParts DEF TapOK, IInv, TypeOK
<1>3. m \in Msgs /\ tap[t].began[m].state # "gone" /\ tap[t].copy \in BOOLEAN
      /\ (tap[t].began[m].opened => tap[t].copy)
  BY <1>1, <1>2 DEF ReadOK, HasMessage, HasFound, At
<1>4. CASE tap[t].copy
  <2>1. Goto(t, "show") /\ UNCHANGED row
    BY <1>4 DEF Mark
  <2>2. Forward
    BY <1>1, <2>1, SameTables
  <2>3. TapOK(t)'
    BY <1>3, <2>1, <2>2, GotoTapOK DEF HasFound
  <2> QED
    BY <1>1, <2>1, <2>2, <2>3, GotoInv DEF HasFound
<1>5. CASE ~ tap[t].copy
  <2> DEFINE k == [tap[t] EXCEPT !.pc = "show", !.marked = TRUE]
  <2>1. tap' = [tap EXCEPT ![t] = k] /\ row' = [row EXCEPT ![m].opened = TRUE]
    BY <1>5, <1>1 DEF Mark
  <2>2. Forward
    <3>1. Stored' = Stored /\ IsFiniteSet(Stored)
      BY <1>1, <1>3, <2>1 DEF Stored, RowType, IInv
    <3> QED
      BY <1>1, <1>2, <1>3, <2>1, <3>1 DEF Forward, RowType
  <2>3. /\ k \in TapType /\ k.pc = "show" /\ k.op = tap[t].op /\ k.msg = m
        /\ k.began = tap[t].began /\ k.blocked = tap[t].blocked /\ k.copy = tap[t].copy
        /\ k.fresh = tap[t].fresh /\ k.marked = TRUE
    BY <1>1 DEF TapType, HasMessage, HasFound
  <2>4. tap'[t] = k
    BY <1>1, <2>1
  <2> HIDE DEF k
  <2>5. OnlyForward(t)'
    BY <1>1, <1>2, <2>2, <2>3, <2>4 DEF OnlyForward, Forward, Stored
  <2>6. ReadOK(t)'
    BY <1>3, <2>3, <2>4 DEF ReadOK, At, PrintAt, HasMessage, HasFound
  <2>7. Kept(t)' /\ Complete(t)'
    BY <1>2, <1>3, <1>5, <2>3, <2>4, NoList DEF Kept
  <2>8. LockOK' /\ layer' \in Nat /\ lock' \in Taps \cup {None}
    BY <1>1, <2>1, <2>3, OutsideLock
  <2> QED
    BY <2>1, <2>2, <2>3, <2>5, <2>6, <2>7, <2>8, OneMoves DEF TapOK
<1> QED
  BY <1>4, <1>5

\* Of a finite set of at least n numbers, n have fewer than n above them.
LEMMA TopOf ==
  ASSUME NEW n \in Nat \ {0}, NEW S \in SUBSET Nat, IsFiniteSet(S), Cardinality(S) >= n
  PROVE  Cardinality({k \in S : Cardinality({j \in S : j > k}) < n}) = n
<1> DEFINE Top(T) == {k \in T : Cardinality({j \in T : j > k}) < n}
           Good == {T \in SUBSET S : Cardinality(T) >= n => Cardinality(Top(T)) = n}
<1>1. ASSUME NEW T \in SUBSET S, \A U \in SUBSET T : U # T => U \in Good
      PROVE  T \in Good
  <2> SUFFICES ASSUME Cardinality(T) >= n PROVE Cardinality(Top(T)) = n
    OBVIOUS
  <2>1. IsFiniteSet(T) /\ Cardinality(T) \in Nat
    BY FS_Subset, FS_CardinalityType
  <2>2. CASE Cardinality(T) = n
    <3>1. ASSUME NEW k \in T PROVE Cardinality({j \in T : j > k}) < n
      <4>1. {j \in T : j > k} \in SUBSET (T \ {k})
        OBVIOUS
      <4>2. IsFiniteSet(T \ {k}) /\ Cardinality(T \ {k}) = n - 1
        BY <2>1, <2>2, FS_RemoveElement
      <4>3. /\ Cardinality({j \in T : j > k}) <= n - 1
            /\ Cardinality({j \in T : j > k}) \in Nat
        BY <4>1, <4>2, FS_Subset, FS_CardinalityType
      <4> QED
        BY <4>3
    <3>2. Top(T) = T
      BY <3>1
    <3> QED
      BY <2>2, <3>2
  <2>3. CASE Cardinality(T) > n
    <3>1. T # {} /\ T \subseteq Nat
      BY <2>3, FS_EmptySet
    <3>2. PICK x \in T : \A k \in T : x <= k
      BY <3>1, LeastNumber
    <3> DEFINE U == T \ {x}
    <3>3. IsFiniteSet(U) /\ Cardinality(U) = Cardinality(T) - 1
      BY <2>1, FS_RemoveElement
    <3>4. Cardinality(Top(U)) = n
      <4>1. U \in Good /\ Cardinality(U) >= n
        BY <1>1, <2>1, <2>3, <3>3
      <4> QED
        BY <4>1
    <3>5. {j \in T : j > x} = U /\ x \notin Top(T)
      <4>0. \A j \in T : j > x <=> j # x
        BY <3>1, <3>2
      <4>1. {j \in T : j > x} = U
        BY <4>0
      <4>2. ~ (Cardinality(U) < n)
        BY <2>1, <2>3, <3>3
      <4> QED
        BY <4>1, <4>2
    <3>6. ASSUME NEW k \in U PROVE {j \in T : j > k} = {j \in U : j > k}
      BY <3>1, <3>2
    <3>7. Top(T) = Top(U)
      BY <3>5, <3>6
    <3> QED
      BY <3>4, <3>7
  <2> QED
    BY <2>1, <2>2, <2>3
<1> HIDE DEF Good
<1>2. S \in Good
  BY <1>1, SetInduction
<1> QED
  BY <1>2 DEF Good

\* A message that is not on the page has a full page of newer ones on it.
LEMMA FullPage ==
  ASSUME IInv, NEW m \in Listed, m \notin Page
  PROVE  Cardinality({k \in Page : k > m}) = PageSize
<1> DEFINE U == {k \in Listed : k > m}
<1>1. Listed \subseteq Nat /\ Listed \subseteq Stored /\ IsFiniteSet(Listed)
  <2>1. Listed \subseteq Nat /\ Listed \subseteq Stored
    BY InboxConstants DEF Listed, Stored
  <2> QED
    BY <2>1, FS_Subset DEF IInv
<1>2. U \in SUBSET Nat /\ IsFiniteSet(U) /\ Cardinality(U) \in Nat
  BY <1>1, FS_Subset, FS_CardinalityType
<1>3. PageSize \in Nat \ {0} /\ Cardinality(U) >= PageSize
  BY <1>2, InboxConstants DEF Page
<1>4. ASSUME NEW k \in U PROVE {j \in Listed : j > k} = {j \in U : j > k}
  <2>1. \A j \in Listed : j > k => j > m
    BY <1>1
  <2> QED
    BY <2>1
<1>5. {k \in Page : k > m} = {k \in U : Cardinality({j \in U : j > k}) < PageSize}
  BY <1>4 DEF Page
<1> HIDE DEF U
<1> QED
  BY <1>2, <1>3, <1>5, TopOf

\* The list has messages that were not deleted then, and shows as unread those that
\* nobody had opened when the tap came in.
LEMMA QueryInv ==
  ASSUME IInv, NEW t \in Taps, Query(t)
  PROVE  IInv'
<1> DEFINE k == [tap[t] EXCEPT !.pc = "showList", !.list = Page, !.fresh = Unread(t)]
<1>1. /\ tap \in [Taps -> TapType] /\ row \in [Msgs -> RowType]
      /\ tap[t].pc = "query" /\ UNCHANGED <<row, blocks, layer, lock>>
  BY DEF IInv, TypeOK, Query, At, ReadOnly
<1>2. OnlyForward(t) /\ ReadOK(t) /\ Kept(t)
  BY InParts DEF TapOK
<1>3. Page \subseteq Msgs /\ Unread(t) \subseteq Page /\ \A m \in Page : row[m].state = "in"
  BY DEF Page, Unread, Listed
<1>4. tap' = [tap EXCEPT ![t] = k]
  BY <1>1 DEF Query
<1>5. /\ k \in TapType /\ k.pc = "showList" /\ k.op = tap[t].op /\ k.msg = tap[t].msg
      /\ k.began = tap[t].began /\ k.blocked = tap[t].blocked /\ k.copy = tap[t].copy
      /\ k.list = Page /\ k.fresh = Unread(t) /\ k.marked = tap[t].marked
  BY <1>1, <1>3 DEF TapType
<1>6. tap'[t] = k
  BY <1>1, <1>4
<1> HIDE DEF k
<1>7. OnlyForward(t)'
  BY <1>1, <1>2, <1>5, <1>6 DEF OnlyForward, Stored
<1>8. ReadOK(t)'
  BY <1>2, <1>3, <1>5, <1>6 DEF ReadOK, OnlyForward, At, PrintAt, HasMessage, HasFound
<1>9. ASSUME NEW m \in Unread(t) PROVE ~ tap[t].began[m].opened
  <2>1. m \in Msgs /\ tap[t].copy \in BOOLEAN \cup {None}
    BY <1>1, <1>3 DEF TapType
  <2>2. CASE m = tap[t].msg /\ tap[t].copy # None
    BY <1>2, <2>1, <2>2 DEF Unread, ReadOK
  <2>3. CASE ~ (m = tap[t].msg /\ tap[t].copy # None)
    BY <1>2, <2>1, <2>3 DEF Unread, OnlyForward
  <2> QED
    BY <2>2, <2>3
<1>10. Kept(t)'
  BY <1>2, <1>5, <1>6, <1>9 DEF Kept
<1>11. LockOK' /\ layer' \in Nat /\ lock' \in Taps \cup {None}
  BY <1>1, <1>4, <1>5, OutsideLock
<1>12. ASSUME NEW m \in Listed', m \notin Page
       PROVE  Cardinality({j \in Page : j > m}) = PageSize
  <2>1. m \in Listed /\ m \in Nat
    BY <1>1, InboxConstants DEF Listed
  <2> QED
    BY <1>12, <2>1, FullPage
<1>13. Complete(t)'
  BY <1>5, <1>6, <1>12 DEF Complete
<1> QED
  BY <1>1, <1>4, <1>5, <1>7, <1>8, <1>10, <1>11, <1>13, OneMoves, SameTables DEF TapOK

-----------------------------------------------------------------------------
(* Around the taps                                                         *)

LEMMA AroundInv ==
  ASSUME IInv, NEW m \in Msgs, Arrive(m) \/ AutoRemove(m)
  PROVE  IInv'
<1>0. IsFiniteSet(Stored')
  <2>1. Stored' \subseteq Stored \cup {m}
    BY DEF Arrive, AutoRemove, Stored, IInv, TypeOK
  <2> QED
    BY <2>1, FS_AddElement, FS_Subset DEF IInv
<1>1. Forward /\ UNCHANGED <<blocks, tap, layer, lock>>
  BY <1>0 DEF Arrive, AutoRemove, Forward, IInv, TypeOK, RowType
<1>2. \A u \in Taps : TapOK(u)'
  BY <1>1, OthersStay
<1>3. TypeOK' /\ LockOK' /\ IsFiniteSet(Stored')
  BY <1>1 DEF IInv, TypeOK, LockOK, At, Forward
<1> QED
  BY <1>2, <1>3, InPartsNext

LEMMA NoTaps ==
  ASSUME row' \in [Msgs -> RowType], IsFiniteSet(Stored'),
         blocks' \subseteq Prints, layer' \in {0, 1}, lock' = None,
         tap' = [t \in Taps |-> NoTap]
  PROVE  IInv'
<1>1. \A t \in Taps : TapOK(t)'
  BY FinishOK
<1>2. TypeOK'
  BY NoTapOK DEF TypeOK
<1>3. LockOK'
  BY NoTapOK, InboxConstants DEF LockOK, At
<1> QED
  BY <1>1, <1>2, <1>3, InPartsNext

LEMMA CrashInv == IInv /\ Crash => IInv'
  BY NoTaps DEF Crash, IInv, TypeOK, Stored

LEMMA InitInv == Init => IInv
<1> SUFFICES ASSUME Init PROVE IInv
  OBVIOUS
<1>1. TypeOK
  BY NoTapOK DEF Init, TypeOK, NoRow, RowType
<1>0. IsFiniteSet(Stored)
  <2>1. Stored = {}
    BY DEF Init, Stored, NoRow
  <2> QED
    BY <2>1, FS_EmptySet
<1>2. ASSUME NEW t \in Taps PROVE OnlyForward(t) /\ ReadOK(t) /\ Kept(t) /\ Complete(t)
  BY NoTapOK, InboxConstants
     DEF Init, OnlyForward, ReadOK, Kept, Complete, At, PrintAt, HasMessage, HasFound, NoRow
<1>3. LockOK
  BY NoTapOK, InboxConstants DEF Init, LockOK, At
<1> QED
  BY <1>0, <1>1, <1>2, <1>3, InParts DEF TapOK

LEMMA IInvStep == IInv /\ [Next]_vars => IInv'
<1> SUFFICES ASSUME IInv, [Next]_vars PROVE IInv'
  OBVIOUS
<1>1. ASSUME NEW t \in Taps, NEW op \in Ops, NEW m \in Msgs \cup {None}, Begin(t, op, m)
      PROVE  IInv'
  BY <1>1, BeginInv
<1>2. ASSUME NEW t \in Taps, Step(t) \/ Fail(t) PROVE IInv'
  BY <1>2, EndsInv, LoadInv, MarkInv, DeleteInv, BlockStepsInv, QueryInv, CheckLayerInv, CriticalInv
     DEF Step
<1>3. ASSUME NEW m \in Msgs, Arrive(m) \/ AutoRemove(m) PROVE IInv'
  BY <1>3, AroundInv
<1>4. CASE UNCHANGED vars
  <2>1. \A t \in Taps : TapOK(t)'
    BY <1>4, OthersStay, SameTables DEF vars
  <2>2. TypeOK' /\ LockOK' /\ IsFiniteSet(Stored')
    BY <1>4 DEF vars, IInv, TypeOK, LockOK, At, Stored
  <2> QED
    BY <2>1, <2>2, InPartsNext
<1> QED
  BY <1>1, <1>2, <1>3, <1>4, CrashInv DEF Next

-----------------------------------------------------------------------------
(* What follows                                                            *)

\* The invariant the others follow from holds in every reachable state.
THEOREM Invariance == Spec => []IInv
  BY InitInv, IInvStep, PTL DEF Spec

\* Every variable keeps its type.
THEOREM TypeInvariant == Spec => []TypeOK
<1>1. IInv => TypeOK
  BY DEF IInv
<1> QED
  BY Invariance, <1>1, PTL

\* A message that was deleted, or taken back by the filter, before a tap came in is
\* not shown, listed, drawn or marked by it.
THEOREM GoneIsGone == Spec => []NothingAfterRemoval
<1>1. IInv => NothingAfterRemoval
  <2> SUFFICES ASSUME IInv, NEW t \in Taps, NEW m \in Touched(t)
               PROVE  tap[t].began[m].state # "gone"
    BY DEF NothingAfterRemoval
  <2>1. ReadOK(t)
    BY DEF IInv
  <2> QED
    BY <2>1 DEF Touched, ReadOK, HasFound, At
<1> QED
  BY Invariance, <1>1, PTL

\* No tap that came in after a message was opened marks it again or lists it as unread.
THEOREM OpenedOnce == Spec => []OpenedIsKept
<1>1. IInv => OpenedIsKept
  BY DEF IInv
<1> QED
  BY Invariance, <1>1, PTL

\* What was there when a tap on the list came in is on the list it shows, unless a
\* full page of newer messages is.
THEOREM NothingIsMissing == Spec => []ListIsComplete
<1>1. IInv => ListIsComplete
  BY DEF IInv
<1> QED
  BY Invariance, <1>1, PTL

\* "Block" raises only beside another tap that blocked the same sender meanwhile.
THEOREM RaiseIsARace == Spec => []OnlyRaceRaises
<1>1. IInv => OnlyRaceRaises
  BY DEF IInv, ReadOK, OnlyRaceRaises
<1> QED
  BY Invariance, <1>1, PTL

\* However many cards are drawn at once, the static layer is composed once.
THEOREM OneLayer == Spec => []LayerBuiltOnce
<1>1. IInv => LayerBuiltOnce
  BY DEF IInv, LockOK, LayerBuiltOnce
<1> QED
  BY Invariance, <1>1, PTL

\* Every card that is sent, of whatever message, shows its text inside the panel, or
\* a beginning of it and an ellipsis when the smallest letters have no room for it; the
\* cut may go through an emoji, but never leaves anything but what it began with.
THEOREM CardsShowTheText == Spec => []CardShowsText
<1>1. ASSUME NEW b \in Bodies PROVE ShowsText(Cards[b], b)
  <2>1. b \in Seq(Atoms)
    BY InboxConstants
  <2> QED
    BY <2>1, CardShows DEF Cards
<1>2. Readable = Bodies
  BY <1>1 DEF Readable
<1>3. CardShowsText
  BY <1>2 DEF CardShowsText
<1>4. []CardShowsText
  BY <1>3, PTL
<1> QED
  BY <1>4, PTL

\* Every paragraph of every such card, at every size tried, is wrapped in as few
\* lines as it can be, and with a widest line that no other such wrap has narrower by a
\* pixel, unless an atom alone is wider than the panel.
THEOREM CardsAreBalanced == Spec => []CardIsBalanced
<1>1. ASSUME NEW b \in Bodies, NEW size \in Sizes, NEW p \in ToSet(Split(Sanitize(b), "nl")),
             Words(p, size) # <<>>, \A w \in ToSet(Words(p, size)) : Measure(w, size) <= PanelW
      PROVE  IsBalanced(Words(p, size), size, WrapParagraph(p, size))
  <2>1. b \in Seq(Atoms)
    BY InboxConstants
  <2> QED
    BY <1>1, <2>1, ParagraphsBalanced
<1>2. Balanced = Bodies
  BY <1>1 DEF Balanced
<1>3. CardIsBalanced
  BY <1>2 DEF CardIsBalanced
<1>4. []CardIsBalanced
  BY <1>3, PTL
<1> QED
  BY <1>4, PTL

=============================================================================
