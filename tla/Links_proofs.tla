---------------------------- MODULE Links_proofs ----------------------------
(***************************************************************************)
(* The safety properties of Links.tla, and that it implements              *)
(* LinkRegistry.tla, for any number of owners, calls and links.            *)
(***************************************************************************)
EXTENDS Links, TLAPS

\* The empty database with no call in flight satisfies the invariant.
LEMMA InitIInv == Init => IInv
BY NoneIsNoRow DEF Init, IInv, TypeOK, RowIsOwned, CallOK, AtMostOneActive,
   RegenerateRetiresOld, OnlyModerationUnlinks, RaiseNeedsModeration, UserRowFirst,
   LinksOf, ActiveOf, At, Me, NoCall, CallType, States, Ops, PCs

\* What a call finds after its user row exists is one of three first steps.
LEMMA AfterUserPC ==
  ASSUME NEW op \in Ops
  PROVE  /\ AfterUser(op) \in {"first", "show", "readOld"}
         /\ AfterUser(op) = "readOld" => op = "regenerate"
BY DEF AfterUser, Ops

\* The types, a step at a time; a call that inserts a user row has an owner.
LEMMA TypeStep == IInv /\ [Next]_vars => TypeOK'
<1> SUFFICES ASSUME TypeOK, \A c \in Calls : CallOK(c), [Next]_vars PROVE TypeOK'
  BY DEF IInv
<1> USE NoneIsNoRow DEF TypeOK, At, Me, NoWrite, Goto, Answer
<1>1. ASSUME NEW c \in Calls, NEW o \in Owners, NEW op \in Ops, Begin(c, o, op)
      PROVE  TypeOK'
  BY <1>1 DEF Begin, CallType, NoCall, PCs
<1>2. ASSUME NEW c \in Calls, Step(c) PROVE TypeOK'
  <2>1. AfterUser(call[c].op) \in PCs
    BY AfterUserPC DEF CallType, PCs
  <2>2. CASE GetUser(c)
    BY <2>2, <2>1 DEF GetUser, CallType, PCs
  <2>3. CASE InsertUser(c)
    BY <2>3, <2>1 DEF InsertUser, CallOK, CallType, PCs
  <2>4. CASE WinnerUser(c)
    BY <2>4, <2>1 DEF WinnerUser, CallType, PCs
  <2>5. CASE HasAnyLink(c)
    BY <2>5 DEF HasAnyLink, CallType, PCs
  <2>6. CASE ShowActive(c)
    BY <2>6 DEF ShowActive, ActiveOf, LinksOf, CallType, PCs
  <2>7. CASE CheckExisting(c)
    BY <2>7 DEF CheckExisting, ActiveOf, LinksOf, CallType, PCs
  <2>8. CASE CommitInsert(c)
    BY <2>8 DEF CommitInsert, NewRow, CallType, PCs, States
  <2>9. CASE ReadOld(c)
    BY <2>9 DEF ReadOld, ActiveOf, LinksOf, CallType, PCs
  <2>10. CASE CommitSwap(c)
    <3>1. Retire(call[c].old) \in [LinkIds -> States]
      BY DEF Retire, States
    <3> QED
      BY <2>10, <3>1 DEF CommitSwap, NewRow, CallType, PCs, States
  <2>11. CASE ReadWinner(c)
    BY <2>11 DEF ReadWinner, ActiveOf, LinksOf, CallType, PCs
  <2>12. CASE TrackLink(c)
    BY <2>12 DEF TrackLink, CallType, PCs
  <2>13. CASE TrackFirst(c)
    BY <2>13 DEF TrackFirst, CallOK, CallType, PCs
  <2> QED
    BY <1>2, <2>2, <2>3, <2>4, <2>5, <2>6, <2>7, <2>8, <2>9, <2>10, <2>11, <2>12, <2>13
       DEF Step
<1>3. ASSUME NEW l \in LinkIds, Disable(l) PROVE TypeOK'
  BY <1>3 DEF Disable, States
<1>4. CASE Crash
  BY <1>4 DEF Crash, CallType, NoCall, PCs, Ops
<1>5. CASE UNCHANGED vars
  BY <1>5 DEF vars
<1> QED
  BY <1>1, <1>2, <1>3, <1>4, <1>5 DEF Next

-----------------------------------------------------------------------------
(* What is said of the rows alone, and of one call alone.                  *)

RowsInv ==
  /\ RowIsOwned
  /\ AtMostOneActive
  /\ OnlyModerationUnlinks
  /\ \A l \in LinkIds : owner[l] # None => owner[l] \in users
  /\ \A o \in Owners : firsts[o] > 0 => o \in users

UserPCs == {"first", "show", "check", "insert", "winner", "readOld", "swap",
            "track", "trackFirst"}

CallInv(c) ==
  /\ CallOK(c)
  /\ call[c].op = "regenerate" /\ call[c].pc \in {"track", "trackFirst", "done"} /\ call[c].old # None
       => state[call[c].old] # "active" /\ call[c].link # call[c].old
  /\ At(c, "raised") => \E l \in LinksOf(Me(c)) : state[l] = "disabled"
  /\ call[c].pc \in UserPCs => Me(c) \in users

\* The invariant falls into what is said of the rows and, call by call, what is
\* said of that call's local variables.
LEMMA IInvParts == IInv <=> TypeOK /\ RowsInv /\ \A c \in Calls : CallInv(c)
BY DEF IInv, RowsInv, CallInv, RegenerateRetiresOld, RaiseNeedsModeration, UserRowFirst, UserPCs

\* Rows only ever go forward: users stay, links keep their owner, and a link
\* that was turned off stays as it is.
Forward ==
  /\ users \subseteq users'
  /\ \A l \in LinkIds :
       /\ owner[l] # None => owner'[l] = owner[l]
       /\ state[l] \in {"replaced", "disabled"} => state'[l] = state[l]

\* So a step of one call cannot break what is said of another.
LEMMA OtherCalls ==
  ASSUME TypeOK, RowIsOwned, Forward, NEW d \in Calls, CallInv(d), call'[d] = call[d]
  PROVE  CallInv(d)'
<1> USE DEF TypeOK, Forward, At, Me
<1>1. \A l \in LinksOf(Me(d)) : Me(d) # None => l \in LinksOf(Me(d))'
  BY DEF LinksOf
<1>2. ASSUME NEW l \in LinkIds, owner[l] # None, state[l] # "active"
      PROVE  state'[l] = state[l]
  BY <1>2 DEF RowIsOwned, States
<1>3. CallOK(d)'
  <2>1. LinksOf(Me(d)) # {} /\ Me(d) # None => LinksOf(Me(d))' # {}
    BY <1>1
  <2>2. call[d].old # None => call[d].old \in LinkIds
    BY DEF CallType
  <2>3. At(d, "winner") => LinksOf(Me(d)) # {} /\ Me(d) # None
    BY NoneIsNoRow DEF CallInv, CallOK
  <2>4. call[d].old # None => owner[call[d].old] = Me(d) /\ owner'[call[d].old] = Me(d)
    BY <2>2, NoneIsNoRow DEF CallInv, CallOK
  <2> QED
    BY <1>2, <2>1, <2>2, <2>3, <2>4, NoneIsNoRow DEF CallInv, CallOK
<1>4. At(d, "raised")' => \E l \in LinksOf(Me(d))' : state'[l] = "disabled"
  BY <1>1, NoneIsNoRow DEF CallInv, CallOK, LinksOf
<1>5. call'[d].op = "regenerate" /\ call'[d].pc \in {"track", "trackFirst", "done"} /\ call'[d].old # None
        => state'[call'[d].old] # "active" /\ call'[d].link # call'[d].old
  BY <1>2, NoneIsNoRow DEF CallInv, CallOK, CallType
<1>6. call'[d].pc \in UserPCs => Me(d)' \in users'
  BY DEF CallInv
<1> QED
  BY <1>3, <1>4, <1>5, <1>6 DEF CallInv

\* Rows are only ever added and turned off: no step reassigns a link, brings one
\* back or takes a user's row away.
LEMMA ForwardStep == IInv /\ [Next]_vars => Forward
<1> SUFFICES ASSUME TypeOK, RowIsOwned, [Next]_vars PROVE Forward
  BY DEF IInv
<1> USE NoneIsNoRow DEF Forward, TypeOK
<1>1. ASSUME NoWrite PROVE Forward
  BY <1>1 DEF NoWrite
<1>2. ASSUME NEW c \in Calls, Step(c) PROVE Forward
  <2>1. CASE InsertUser(c)
    BY <2>1 DEF InsertUser
  <2>2. CASE CommitInsert(c)
    BY <2>2 DEF CommitInsert, NewRow, RowIsOwned
  <2>3. CASE CommitSwap(c)
    BY <2>3 DEF CommitSwap, NewRow, Retire, RowIsOwned
  <2>4. CASE TrackFirst(c)
    BY <2>4 DEF TrackFirst
  <2> QED
    BY <1>1, <1>2, <2>1, <2>2, <2>3, <2>4 DEF Step, GetUser, WinnerUser, HasAnyLink,
       ShowActive, CheckExisting, ReadOld, ReadWinner, TrackLink
<1>3. ASSUME NEW l \in LinkIds, Disable(l) PROVE Forward
  BY <1>3 DEF Disable
<1> QED
  BY <1>1, <1>2, <1>3 DEF Next, Begin, Crash, vars

-----------------------------------------------------------------------------
(* What a new active row does to an owner's links.                         *)

\* Owner o gets the fresh row l when the unique index finds no other active
\* row of theirs than `ended`, which the same transaction turns off.
LEMMA FreshRow ==
  ASSUME TypeOK, RowsInv, NEW o \in Owners, o \in users, NEW l \in LinkIds,
         NEW ended \in LinkIds \cup {None}, ended # None => owner[ended] = o,
         IndexAllows(o, ended), NewRow(o, l),
         state' = [Retire(ended) EXCEPT ![l] = "active"], users' = users, firsts' = firsts
  PROVE  RowsInv' /\ ActiveOf(o)' = {l}
<1> USE NoneIsNoRow DEF TypeOK, LinksOf, ActiveOf
<1>1. state[l] = "absent"
  BY DEF RowsInv, RowIsOwned, NewRow
<1>2. \A m \in LinkIds :
        /\ owner'[m] = IF m = l THEN o ELSE owner[m]
        /\ state'[m] = IF m = l THEN "active"
                       ELSE IF m = ended /\ state[m] = "active" THEN "replaced" ELSE state[m]
  BY DEF NewRow, Retire
<1>3. RowIsOwned'
  BY <1>2 DEF RowsInv, RowIsOwned
<1>4. ActiveOf(o)' = {l}
  BY <1>2 DEF IndexAllows
<1>5. \A p \in Owners : p # o => ActiveOf(p)' \subseteq ActiveOf(p)
  BY <1>2
<1>6. AtMostOneActive'
  <2>1. ASSUME NEW p \in Owners PROVE \A m, n \in ActiveOf(p)' : m = n
    <3>1. CASE p = o
      BY <3>1, <1>4
    <3>2. CASE p # o
      BY <3>2, <1>5 DEF RowsInv, AtMostOneActive
    <3> QED
      BY <3>1, <3>2
  <2> QED
    BY <2>1 DEF AtMostOneActive
<1>7. OnlyModerationUnlinks'
  <2>1. ASSUME NEW p \in Owners, p # o
        PROVE  LinksOf(p)' = LinksOf(p) /\ \A m \in LinksOf(p) : state'[m] = state[m]
    BY <1>2, <2>1 DEF NewRow
  <2>2. ASSUME NEW p \in Owners, p # o, LinksOf(p)' # {}
        PROVE  ActiveOf(p)' # {} \/ \E m \in LinksOf(p)' : state'[m] = "disabled"
    BY <2>1, <2>2 DEF RowsInv, OnlyModerationUnlinks
  <2>3. ActiveOf(o)' # {}
    BY <1>4
  <2> QED
    BY <2>2, <2>3 DEF OnlyModerationUnlinks
<1>8. \A m \in LinkIds : owner'[m] # None => owner'[m] \in users'
  BY <1>2 DEF RowsInv
<1> QED
  BY <1>3, <1>4, <1>6, <1>7, <1>8 DEF RowsInv

\* Every step of get_or_create_user, create_link, regenerate_link and moderation
\* keeps the part of the invariant that speaks of the rows.
LEMMA RowsStep == IInv /\ [Next]_vars => RowsInv'
<1> SUFFICES ASSUME IInv, [Next]_vars PROVE RowsInv'
  OBVIOUS
<1>0. TypeOK /\ RowsInv /\ \A c \in Calls : CallInv(c)
  BY IInvParts
<1>1. ASSUME NoWrite PROVE RowsInv'
  BY <1>0, <1>1 DEF NoWrite, RowsInv, RowIsOwned, AtMostOneActive, OnlyModerationUnlinks,
     ActiveOf, LinksOf
<1>2. ASSUME NEW c \in Calls, Step(c) PROVE RowsInv'
  <2>1. CASE InsertUser(c)
    BY <1>0, <2>1 DEF InsertUser, RowsInv, RowIsOwned, AtMostOneActive, OnlyModerationUnlinks,
       ActiveOf, LinksOf
  <2>2. ASSUME NoWrite PROVE RowsInv'
    BY <1>1, <2>2
  <2>3. CASE CommitInsert(c)
    <3>1. Me(c) \in Owners /\ Me(c) \in users
      BY <1>0, <2>3 DEF CommitInsert, CallInv, CallOK, UserPCs, At
    <3>2. ASSUME NEW l \in LinkIds, IndexAllows(Me(c), None), NewRow(Me(c), l),
                 state' = [state EXCEPT ![l] = "active"], users' = users, firsts' = firsts
          PROVE  RowsInv'
      <4>1. Retire(None) = state
        BY <1>0, NoneIsNoRow DEF Retire, TypeOK
      <4> QED
        BY <1>0, <3>1, <3>2, <4>1, FreshRow
    <3> QED
      BY <2>2, <2>3, <3>2 DEF CommitInsert, NoWrite
  <2>4. CASE CommitSwap(c)
    <3>1. Me(c) \in Owners /\ Me(c) \in users
      BY <1>0, <2>4 DEF CommitSwap, CallInv, CallOK, UserPCs, At
    <3>2. /\ call[c].old \in LinkIds \cup {None}
          /\ call[c].old # None => owner[call[c].old] = Me(c)
      BY <1>0 DEF TypeOK, CallType, CallInv, CallOK
    <3> QED
      BY <1>0, <2>2, <2>4, <3>1, <3>2, FreshRow DEF CommitSwap, NoWrite
  <2>5. CASE TrackFirst(c)
    <3>1. Me(c) \in users
      BY <1>0, <2>5 DEF TrackFirst, CallInv, UserPCs, At
    <3>2. UNCHANGED <<users, owner, state>> /\ firsts' = [firsts EXCEPT ![Me(c)] = @ + 1]
      BY <2>5 DEF TrackFirst
    <3>3. \A o \in Owners : firsts'[o] > 0 => o \in users'
      BY <1>0, <3>1, <3>2 DEF RowsInv, TypeOK
    <3> QED
      BY <1>0, <3>2, <3>3 DEF RowsInv, RowIsOwned, AtMostOneActive, OnlyModerationUnlinks,
         ActiveOf, LinksOf
  <2> QED
    BY <1>1, <1>2, <2>1, <2>3, <2>4, <2>5 DEF Step, GetUser, WinnerUser, HasAnyLink,
       ShowActive, CheckExisting, ReadOld, ReadWinner, TrackLink
<1>3. ASSUME NEW l \in LinkIds, Disable(l) PROVE RowsInv'
  <2>1. LinksOf(owner[l])' = LinksOf(owner[l])
    BY <1>3 DEF Disable, LinksOf
  <2>2. \A o \in Owners : LinksOf(o)' = LinksOf(o) /\ ActiveOf(o)' = ActiveOf(o) \ {l}
    BY <1>0, <1>3 DEF Disable, LinksOf, ActiveOf, TypeOK
  <2>3. state' = [state EXCEPT ![l] = "disabled"] /\ UNCHANGED <<owner, users, firsts>>
    BY <1>3 DEF Disable
  <2>4. RowIsOwned' /\ AtMostOneActive'
    BY <1>0, <1>3, <2>2, <2>3 DEF Disable, RowsInv, RowIsOwned, AtMostOneActive, TypeOK
  <2>5. OnlyModerationUnlinks'
    <3>1. ASSUME NEW o \in Owners, LinksOf(o) # {}
          PROVE  ActiveOf(o) \ {l} # {} \/ \E m \in LinksOf(o) : state'[m] = "disabled"
      <4>1. CASE owner[l] = o
        BY <4>1, <1>0, <2>3 DEF LinksOf, TypeOK
      <4>2. CASE owner[l] # o
        BY <4>2, <1>0, <2>3, <3>1 DEF LinksOf, ActiveOf, RowsInv, OnlyModerationUnlinks, TypeOK
      <4> QED
        BY <4>1, <4>2
    <3> QED
      BY <2>2, <3>1 DEF OnlyModerationUnlinks
  <2> QED
    BY <1>0, <2>3, <2>4, <2>5 DEF RowsInv
<1> QED
  BY <1>0, <1>1, <1>2, <1>3 DEF Next, Begin, Crash, vars, NoWrite

-----------------------------------------------------------------------------
(* What a call's own steps establish of it.                                *)

\* After a step of call c its local variables mean what the code that set them
\* says: one case per statement of create_link, regenerate_link and their callers.
LEMMA CallStep ==
  ASSUME IInv, NEW c \in Calls, Step(c)
  PROVE  CallInv(c)' /\ \A d \in Calls \ {c} : call'[d] = call[d]
<1>0. TypeOK /\ RowsInv /\ CallInv(c)
  BY IInvParts
<1>1. /\ call[c].op \in Ops
      /\ call[c].old \in LinkIds \cup {None}
      /\ call[c] \in CallType
      /\ call \in [Calls -> CallType]
  BY <1>0 DEF TypeOK, CallType
<1> USE NoneIsNoRow DEF At, Me, UserPCs, CallInv, CallOK
<1>2. CASE GetUser(c)
  BY <1>0, <1>1, <1>2, AfterUserPC DEF GetUser, Goto, NoWrite, LinksOf, CallType
<1>3. CASE InsertUser(c)
  BY <1>0, <1>1, <1>3, AfterUserPC DEF InsertUser, Goto, LinksOf, CallType
<1>4. CASE WinnerUser(c)
  BY <1>0, <1>1, <1>4, AfterUserPC DEF WinnerUser, Goto, NoWrite, LinksOf, CallType
<1>5. CASE HasAnyLink(c)
  BY <1>0, <1>1, <1>5 DEF HasAnyLink, Goto, NoWrite, LinksOf, CallType
<1>6. CASE ShowActive(c)
  <2>1. CASE Goto(c, "check")
    BY <1>0, <1>1, <1>6, <2>1 DEF ShowActive, Goto, NoWrite, LinksOf, CallType
  <2>2. ASSUME NEW l \in ActiveOf(Me(c)), call' = [call EXCEPT ![c].pc = "done", ![c].link = l]
        PROVE  CallInv(c)' /\ \A d \in Calls \ {c} : call'[d] = call[d]
    BY <1>0, <1>1, <1>6, <2>2 DEF ShowActive, NoWrite, LinksOf, CallType
  <2> QED
    BY <1>6, <2>1, <2>2 DEF ShowActive
<1>7. CASE CheckExisting(c)
  <2>1. CASE Goto(c, "insert")
    BY <1>0, <1>1, <1>7, <2>1 DEF CheckExisting, Goto, NoWrite, LinksOf, CallType
  <2>2. ASSUME NEW l \in ActiveOf(Me(c)), Answer(c, l)
        PROVE  CallInv(c)' /\ \A d \in Calls \ {c} : call'[d] = call[d]
    BY <1>0, <1>1, <1>7, <2>2 DEF CheckExisting, Answer, NoWrite, LinksOf, CallType
  <2> QED
    BY <1>7, <2>1, <2>2 DEF CheckExisting
<1>8. CASE CommitInsert(c)
  <2>1. CASE ~ IndexAllows(Me(c), None) /\ Goto(c, "winner") /\ UNCHANGED <<owner, state>>
    <3>1. LinksOf(Me(c)) # {} /\ LinksOf(Me(c))' = LinksOf(Me(c))
      BY <1>1, <2>1 DEF IndexAllows, ActiveOf, LinksOf, Goto, CallType
    <3> QED
      BY <1>0, <1>1, <1>8, <2>1, <3>1 DEF CommitInsert, Goto, CallType
  <2>2. ASSUME NEW l \in LinkIds, Answer(c, l)
        PROVE  CallInv(c)' /\ \A d \in Calls \ {c} : call'[d] = call[d]
    BY <1>0, <1>1, <1>8, <2>2 DEF CommitInsert, Answer, CallType
  <2> QED
    BY <1>8, <2>1, <2>2 DEF CommitInsert
<1>9. CASE ReadOld(c)
  BY <1>0, <1>1, <1>9 DEF ReadOld, Goto, NoWrite, CallType, ActiveOf, LinksOf
<1>10. CASE CommitSwap(c)
  <2> DEFINE old == call[c].old
  <2>1. CASE ~ IndexAllows(Me(c), old) /\ Goto(c, "winner") /\ UNCHANGED <<owner, state>>
    <3>1. PICK l \in ActiveOf(Me(c)) : l # old
      BY <2>1 DEF IndexAllows
    <3>2. old # None => state[old] # "active"
      BY <1>0, <1>1, <3>1 DEF RowsInv, AtMostOneActive, ActiveOf, LinksOf, CallType
    <3>3. LinksOf(Me(c)) # {} /\ LinksOf(Me(c))' = LinksOf(Me(c))
      BY <1>1, <2>1, <3>1 DEF ActiveOf, LinksOf, Goto, CallType
    <3> QED
      BY <1>0, <1>1, <1>10, <2>1, <3>2, <3>3 DEF CommitSwap, Goto, CallType
  <2>2. ASSUME NEW l \in LinkIds, NewRow(Me(c), l), Answer(c, l),
               state' = [Retire(old) EXCEPT ![l] = "active"], users' = users
        PROVE  CallInv(c)' /\ \A d \in Calls \ {c} : call'[d] = call[d]
    <3>1. old # None => /\ l # old
                        /\ state'[old] # "active"
                        /\ owner'[old] = Me(c)
      BY <1>0, <1>1, <2>2 DEF NewRow, Retire, CallType, TypeOK
    <3> QED
      BY <1>0, <1>1, <1>10, <2>2, <3>1 DEF CommitSwap, Answer, CallType
  <2> QED
    BY <1>10, <2>1, <2>2 DEF CommitSwap
<1>11. CASE ReadWinner(c)
  <2>1. CASE ActiveOf(Me(c)) = {} /\ Goto(c, "raised")
    <3>1. \E l \in LinksOf(Me(c)) : state[l] = "disabled"
      BY <1>0, <1>11, <2>1 DEF ReadWinner, RowsInv, OnlyModerationUnlinks
    <3> QED
      BY <1>0, <1>1, <1>11, <2>1, <3>1 DEF ReadWinner, Goto, NoWrite, LinksOf, CallType
  <2>2. ASSUME NEW l \in ActiveOf(Me(c)), Answer(c, l)
        PROVE  CallInv(c)' /\ \A d \in Calls \ {c} : call'[d] = call[d]
    BY <1>0, <1>1, <1>11, <2>2 DEF ReadWinner, Answer, NoWrite, ActiveOf, LinksOf, CallType
  <2> QED
    BY <1>11, <2>1, <2>2 DEF ReadWinner
<1>12. CASE TrackLink(c)
  BY <1>0, <1>1, <1>12 DEF TrackLink, Goto, NoWrite, LinksOf, CallType
<1>13. CASE TrackFirst(c)
  BY <1>0, <1>1, <1>13 DEF TrackFirst, Goto, LinksOf, CallType
<1> HIDE DEF At, Me, UserPCs, CallInv, CallOK
<1> QED
  BY <1>2, <1>3, <1>4, <1>5, <1>6, <1>7, <1>8, <1>9, <1>10, <1>11, <1>12, <1>13 DEF Step

\* The invariant is inductive.
LEMMA IInvStep == IInv /\ [Next]_vars => IInv'
<1> SUFFICES ASSUME IInv, [Next]_vars PROVE IInv'
  OBVIOUS
<1>0. TypeOK /\ RowsInv /\ \A c \in Calls : CallInv(c)
  BY IInvParts
<1>1. TypeOK' /\ RowsInv' /\ Forward
  BY TypeStep, RowsStep, ForwardStep
<1>2. ASSUME NEW d \in Calls, call'[d] = call[d] PROVE CallInv(d)'
  BY <1>0, <1>1, <1>2, OtherCalls DEF RowsInv
<1>3. \A d \in Calls : CallInv(d)'
  <2>1. ASSUME NEW c \in Calls, NEW o \in Owners, NEW op \in Ops, Begin(c, o, op)
        PROVE  \A d \in Calls : CallInv(d)'
    <3>1. CallInv(c)'
      BY <1>0, <2>1 DEF Begin, NoCall, CallInv, CallOK, UserPCs, At, Me, TypeOK
    <3>2. \A d \in Calls \ {c} : call'[d] = call[d]
      BY <1>0, <2>1 DEF Begin, TypeOK
    <3> QED
      BY <1>2, <3>1, <3>2
  <2>2. ASSUME NEW c \in Calls, Step(c) PROVE \A d \in Calls : CallInv(d)'
    BY <1>2, <2>2, CallStep
  <2>3. CASE Crash
    BY <2>3 DEF Crash, NoCall, CallInv, CallOK, UserPCs, At, Me
  <2>4. ASSUME UNCHANGED call PROVE \A d \in Calls : CallInv(d)'
    BY <1>2, <2>4
  <2> QED
    BY <2>1, <2>2, <2>3, <2>4 DEF Next, Disable, vars
<1> QED
  BY <1>1, <1>3 DEF IInv, RowsInv, CallInv, RegenerateRetiresOld, RaiseNeedsModeration,
     UserRowFirst, UserPCs

-----------------------------------------------------------------------------
(* The theorems.                                                           *)

\* The invariant that carries the others, in every reachable state.
THEOREM Invariance == Spec => []IInv
BY InitIInv, IInvStep, PTL DEF Spec

\* Every variable keeps to the values its declaration names.
THEOREM TypeInvariant == Spec => []TypeOK
BY Invariance, PTL DEF IInv

\* However many calls race, no owner ever has two links accepting messages
\* (create_link, regenerate_link and uq_one_active_link_per_owner).
THEOREM OneActiveLink == Spec => []AtMostOneActive
BY Invariance, PTL DEF IInv

\* regenerate_link does what the owner confirmed - the old link stops working -
\* also when it lost the race and its own UPDATE was rolled back.
THEOREM OldLinkStops == Spec => []RegenerateRetiresOld
BY Invariance, PTL DEF IInv

\* No race and no crash in create_link or regenerate_link takes an owner's
\* link away without giving another: only moderation does.
THEOREM LinkKept == Spec => []OnlyModerationUnlinks
BY Invariance, PTL DEF IInv

\* The `raise` at the end of create_link and regenerate_link needs moderation.
THEOREM RaiseIsUnexpected == Spec => []RaiseNeedsModeration
BY Invariance, PTL DEF IInv

\* The foreign keys to users hold at every insert (get_or_create_user).
THEOREM ForeignKeys == Spec => []UserRowFirst
BY Invariance, PTL DEF IInv

-----------------------------------------------------------------------------
(* The rows implement the registry.                                        *)

\* With at most one active row per owner, get_active_link_for_owner has one answer.
LEMMA CurrentIs ==
  ASSUME AtMostOneActive, NEW o \in Owners
  PROVE  /\ \A l \in ActiveOf(o) : Current[o] = l
         /\ ActiveOf(o) = {} => Current[o] = None
BY DEF AtMostOneActive, Current

\* The same, of the state after a step.
LEMMA CurrentIsNext ==
  ASSUME AtMostOneActive', NEW o \in Owners
  PROVE  /\ \A l \in ActiveOf(o)' : Current'[o] = l
         /\ ActiveOf(o)' = {} => Current'[o] = None
BY DEF AtMostOneActive, Current

\* If only owner o's active row changes, only o's entry of the registry does.
LEMMA OneEntry ==
  ASSUME AtMostOneActive, AtMostOneActive', NEW o, NEW v,
         o \in Owners => Current'[o] = v,
         \A p \in Owners \ {o} : ActiveOf(p)' = ActiveOf(p)
  PROVE  Current' = [Current EXCEPT ![o] = v]
<1>1. \A p \in Owners \ {o} : Current'[p] = Current[p]
  <2> TAKE p \in Owners \ {o}
  <2>1. CASE ActiveOf(p) = {}
    BY <2>1, CurrentIs, CurrentIsNext
  <2>2. CASE ActiveOf(p) # {}
    BY <2>2, CurrentIs, CurrentIsNext
  <2> QED
    BY <2>1, <2>2
<1>2. /\ Current = [p \in Owners |-> Current[p]]
      /\ Current' = [p \in Owners |-> Current'[p]]
  BY DEF Current
<1> QED
  BY <1>1, <1>2

\* A state's rows fix the registry's state.
LEMMA SameRows ==
  ASSUME AtMostOneActive, AtMostOneActive', UNCHANGED <<owner, state>>
  PROVE  UNCHANGED Registry!rvars
<1>1. \A o \in Owners : ActiveOf(o)' = ActiveOf(o)
  BY DEF ActiveOf, LinksOf
<1>2. Current' = Current
  <2>1. \A p \in Owners : Current'[p] = Current[p]
    BY <1>1, CurrentIs, CurrentIsNext
  <2>2. /\ Current = [p \in Owners |-> Current[p]]
        /\ Current' = [p \in Owners |-> Current'[p]]
    BY DEF Current
  <2> QED
    BY <2>1, <2>2
<1> QED
  BY <1>2 DEF Registry!rvars, RetiredLinks

\* A fresh active row is an Issue, or a Replace of the row that ended with it.
LEMMA FreshRowMaps ==
  ASSUME IInv, NEW o \in Owners, o \in users, NEW l \in LinkIds,
         NEW ended \in LinkIds \cup {None}, ended # None => owner[ended] = o,
         IndexAllows(o, ended), NewRow(o, l),
         state' = [Retire(ended) EXCEPT ![l] = "active"], users' = users, firsts' = firsts
  PROVE  Registry!Issue(o, l) \/ Registry!Replace(o, l)
<1> USE NoneIsNoRow
<1>0. TypeOK /\ RowsInv /\ RowIsOwned /\ AtMostOneActive
  BY IInvParts DEF RowsInv
<1>1. ActiveOf(o)' = {l} /\ AtMostOneActive'
  BY <1>0, FreshRow DEF RowsInv
<1>2. state[l] = "absent"
  BY <1>0 DEF RowIsOwned, NewRow
<1>3. \A m \in LinkIds :
        /\ owner'[m] = IF m = l THEN o ELSE owner[m]
        /\ state'[m] = IF m = l THEN "active"
                       ELSE IF m = ended /\ state[m] = "active" THEN "replaced" ELSE state[m]
  BY <1>0 DEF NewRow, Retire, TypeOK
<1>4. \A p \in Owners : p # o => ActiveOf(p)' = ActiveOf(p)
  BY <1>0, <1>2, <1>3 DEF ActiveOf, LinksOf, NewRow
<1>5. Current' = [Current EXCEPT ![o] = l]
  BY <1>0, <1>1, <1>4, CurrentIsNext, OneEntry
<1>6. l \notin Registry!Issued
  <2>1. \A p \in Owners : Current[p] # l
    BY <1>0, <1>2, CurrentIs DEF ActiveOf, LinksOf
  <2> QED
    BY <1>2, <2>1 DEF Registry!Issued, RetiredLinks
<1>7. CASE ActiveOf(o) = {}
  <2>1. Current[o] = None
    BY <1>0, <1>7, CurrentIs
  <2>2. ended # None => state[ended] # "active"
    BY <1>7 DEF ActiveOf, LinksOf
  <2>3. RetiredLinks' = RetiredLinks
    BY <1>2, <1>3, <2>2 DEF RetiredLinks
  <2> QED
    BY <1>5, <1>6, <2>1, <2>3 DEF Registry!Issue
<1>8. CASE ActiveOf(o) # {}
  <2>1. ActiveOf(o) = {ended} /\ ended \in LinkIds /\ state[ended] = "active"
    BY <1>8 DEF IndexAllows, ActiveOf, LinksOf
  <2>2. Current[o] = ended /\ ended # None
    BY <1>0, <2>1, CurrentIs
  <2>3. RetiredLinks' = RetiredLinks \cup {ended}
    BY <1>2, <1>3, <2>1 DEF RetiredLinks
  <2> QED
    BY <1>5, <1>6, <2>2, <2>3 DEF Registry!Replace
<1> QED
  BY <1>7, <1>8

\* Turning an active row off, whoever does it, retires its owner's link.
LEMMA DisableMaps ==
  ASSUME IInv, IInv', NEW l \in LinkIds, Disable(l)
  PROVE  \E o \in Owners : Registry!Retire(o)
<1> USE NoneIsNoRow
<1>0. TypeOK /\ RowIsOwned /\ AtMostOneActive /\ AtMostOneActive'
  BY DEF IInv
<1>1. PICK o \in Owners : owner[l] = o
  BY <1>0 DEF Disable, RowIsOwned, TypeOK
<1>2. l \in ActiveOf(o)
  BY <1>1 DEF Disable, ActiveOf, LinksOf
<1>3. Current[o] = l
  BY <1>0, <1>2, CurrentIs
<1>4. \A p \in Owners : ActiveOf(p)' = IF p = o THEN {} ELSE ActiveOf(p)
  BY <1>0, <1>1, <1>2 DEF Disable, ActiveOf, LinksOf, TypeOK, AtMostOneActive
<1>5. Current' = [Current EXCEPT ![o] = None]
  BY <1>0, <1>4, CurrentIsNext, OneEntry
<1>6. RetiredLinks' = RetiredLinks \cup {l}
  BY <1>0 DEF Disable, RetiredLinks, TypeOK
<1> QED
  BY <1>3, <1>5, <1>6 DEF Registry!Retire

\* Every step of every handler call is a step of the registry or none.
LEMMA StepMaps ==
  IInv /\ IInv' /\ [Next]_vars => [Registry!RNext]_(Registry!rvars)
<1> SUFFICES ASSUME IInv, IInv', [Next]_vars PROVE [Registry!RNext]_(Registry!rvars)
  OBVIOUS
<1>0. TypeOK /\ \A c \in Calls : CallInv(c)
  BY IInvParts
<1>1. CASE UNCHANGED <<owner, state>>
  BY <1>1, SameRows DEF IInv
<1>2. ASSUME NEW c \in Calls, CommitInsert(c) PROVE [Registry!RNext]_(Registry!rvars)
  <2>1. Me(c) \in Owners /\ Me(c) \in users /\ UNCHANGED <<users, firsts>>
    BY <1>0, <1>2 DEF CommitInsert, CallInv, CallOK, UserPCs, At
  <2>2. Retire(None) = state
    BY <1>0, NoneIsNoRow DEF Retire, TypeOK
  <2>3. ASSUME NEW l \in LinkIds, IndexAllows(Me(c), None), NewRow(Me(c), l),
               state' = [state EXCEPT ![l] = "active"]
        PROVE  Registry!Issue(Me(c), l) \/ Registry!Replace(Me(c), l)
    BY <2>1, <2>2, <2>3, FreshRowMaps
  <2> QED
    BY <1>1, <1>2, <2>1, <2>3 DEF CommitInsert, Registry!RNext
<1>3. ASSUME NEW c \in Calls, CommitSwap(c) PROVE [Registry!RNext]_(Registry!rvars)
  <2> DEFINE old == call[c].old
  <2>1. Me(c) \in Owners /\ Me(c) \in users /\ UNCHANGED <<users, firsts>>
    BY <1>0, <1>3 DEF CommitSwap, CallInv, CallOK, UserPCs, At
  <2>2. old \in LinkIds \cup {None} /\ (old # None => owner[old] = Me(c))
    BY <1>0 DEF TypeOK, CallType, CallInv, CallOK
  <2>3. ASSUME NEW l \in LinkIds, IndexAllows(Me(c), old), NewRow(Me(c), l),
               state' = [Retire(old) EXCEPT ![l] = "active"]
        PROVE  Registry!Issue(Me(c), l) \/ Registry!Replace(Me(c), l)
    BY <2>1, <2>2, <2>3, FreshRowMaps
  <2> QED
    BY <1>1, <1>3, <2>1, <2>3 DEF CommitSwap, Registry!RNext
<1>4. ASSUME NEW l \in LinkIds, Disable(l) PROVE [Registry!RNext]_(Registry!rvars)
  BY <1>4, DisableMaps DEF Registry!RNext
<1> QED
  BY <1>1, <1>2, <1>3, <1>4 DEF Next, Step, Begin, Crash, NoWrite, vars, GetUser, InsertUser,
     WinnerUser, HasAnyLink, ShowActive, CheckExisting, ReadOld, ReadWinner, TrackLink, TrackFirst

\* Links.tla, with all its sessions and races, does what LinkRegistry promises:
\* a link is issued once, replaced in one step, and never comes back.
THEOREM Refinement == Spec => ImplementsRegistry
<1>1. Init => Registry!RInit
  <2> SUFFICES ASSUME Init PROVE Registry!RInit
    OBVIOUS
  <2>1. \A o \in Owners : ActiveOf(o) = {}
    BY DEF Init, ActiveOf, LinksOf
  <2>2. RetiredLinks = {}
    BY DEF Init, RetiredLinks
  <2> QED
    BY <2>1, <2>2 DEF Registry!RInit, Current
<1> QED
  BY <1>1, StepMaps, Invariance, PTL DEF Spec, ImplementsRegistry, Registry!RSpec
=============================================================================
