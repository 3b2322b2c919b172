------------------------- MODULE Moderation_proofs --------------------------
(***************************************************************************)
(* The safety properties of Moderation.tla, for any messages, links,       *)
(* moderators and thresholds.                                              *)
(***************************************************************************)
EXTENDS Moderation, TLAPS, FiniteSetTheorems

-----------------------------------------------------------------------------
(* Tables that only grow                                                   *)

\* t begins with s.
Grows(s, t) == Len(s) <= Len(t) /\ \A i \in 1..Len(s) : t[i] = s[i]

LEMMA AppendGrows ==
  ASSUME NEW S, NEW s \in Seq(S), NEW x \in S
  PROVE  /\ Append(s, x) \in Seq(S) /\ Grows(s, Append(s, x))
         /\ Len(Append(s, x)) = Len(s) + 1 /\ Append(s, x)[Len(s) + 1] = x
BY DEF Grows

LEMMA SameGrows ==
  ASSUME NEW S, NEW s \in Seq(S)
  PROVE  Grows(s, s) /\ Len(s) \in Nat /\ DOMAIN s = 1..Len(s)
BY DEF Grows

\* The kinds of target are told apart by their first part.
LEMMA TargetKinds ==
  ASSUME NEW x, NEW y
  PROVE  /\ OnMsg(x) # OnLink(y) /\ OnMsg(x) # OnPrint(y) /\ OnLink(x) # OnPrint(y)
         /\ OnMsg(x) = OnMsg(y) => x = y
         /\ OnLink(x) = OnLink(y) => x = y
BY DEF OnMsg, OnLink, OnPrint

LEMMA Lengths ==
  ASSUME TypeOK
  PROVE  /\ Len(log) \in Nat /\ DOMAIN log = 1..Len(log)
         /\ Len(reports) \in Nat /\ DOMAIN reports = 1..Len(reports)
<1>1. log \in Seq(RowType) /\ reports \in Seq([msg : Msgs, since : Nat])
  BY DEF TypeOK
<1> QED
  BY <1>1

\* What is read from the two tables, after they have grown.
LEMMA TablesGrow ==
  ASSUME TypeOK, TypeOK', Grows(log, log'), Grows(reports, reports')
  PROVE  /\ \A target : /\ RowsOn(target) \subseteq RowsOn(target)'
                        /\ \A i \in RowsOn(target)' : i \in RowsOn(target) \/ Len(log) < i
         /\ \A m \in Msgs : /\ ReportsOf(m) \subseteq ReportsOf(m)'
                            /\ \A i \in ReportsOf(m)' : i \in ReportsOf(m) \/ Len(reports) < i
         /\ \A l \in Links : ReportsOn(l) \subseteq ReportsOn(l)'
         /\ \A i \in DOMAIN log : i \in DOMAIN log' /\ log'[i] = log[i]
         /\ \A i \in DOMAIN reports : i \in DOMAIN reports' /\ reports'[i] = reports[i]
<1>1. /\ log \in Seq(RowType) /\ log' \in Seq(RowType)
      /\ reports \in Seq([msg : Msgs, since : Nat]) /\ reports' \in Seq([msg : Msgs, since : Nat])
  BY DEF TypeOK
<1>2. /\ Len(log) \in Nat /\ DOMAIN log = 1..Len(log) /\ Len(log') \in Nat /\ DOMAIN log' = 1..Len(log')
      /\ Len(reports) \in Nat /\ DOMAIN reports = 1..Len(reports)
      /\ Len(reports') \in Nat /\ DOMAIN reports' = 1..Len(reports')
  BY <1>1
<1>3. /\ \A i \in DOMAIN log : i \in DOMAIN log' /\ log'[i] = log[i]
      /\ \A i \in DOMAIN reports : i \in DOMAIN reports' /\ reports'[i] = reports[i]
  BY <1>2 DEF Grows
<1>4. /\ \A i \in DOMAIN log' : i \in DOMAIN log \/ Len(log) < i
      /\ \A i \in DOMAIN reports' : i \in DOMAIN reports \/ Len(reports) < i
  BY <1>2
<1>5. \A target : /\ RowsOn(target) \subseteq RowsOn(target)'
                  /\ \A i \in RowsOn(target)' : i \in RowsOn(target) \/ Len(log) < i
  BY <1>3, <1>4 DEF RowsOn
<1>6. /\ \A m \in Msgs : /\ ReportsOf(m) \subseteq ReportsOf(m)'
                         /\ \A i \in ReportsOf(m)' : i \in ReportsOf(m) \/ Len(reports) < i
      /\ \A l \in Links : ReportsOn(l) \subseteq ReportsOn(l)'
  BY <1>3, <1>4 DEF ReportsOf, ReportsOn
<1> QED
  BY <1>3, <1>5, <1>6

\* The number of reports of a link.
LEMMA CountGrows ==
  ASSUME TypeOK, TypeOK', Grows(log, log'), Grows(reports, reports'), NEW l \in Links
  PROVE  /\ IsFiniteSet(ReportsOn(l)) /\ IsFiniteSet(ReportsOn(l)')
         /\ Cardinality(ReportsOn(l)) \in Nat /\ Cardinality(ReportsOn(l)') \in Nat
         /\ Cardinality(ReportsOn(l)) <= Cardinality(ReportsOn(l)')
<1> reports \in Seq([msg : Msgs, since : Nat]) /\ reports' \in Seq([msg : Msgs, since : Nat])
  BY DEF TypeOK
<1>1. /\ ReportsOn(l) \subseteq 1..Len(reports) /\ Len(reports) \in Nat
      /\ ReportsOn(l)' \subseteq 1..Len(reports') /\ Len(reports') \in Nat
  BY DEF ReportsOn
<1>2. IsFiniteSet(1..Len(reports)) /\ IsFiniteSet(1..Len(reports'))
  BY <1>1, FS_Interval
<1>3. IsFiniteSet(ReportsOn(l)) /\ IsFiniteSet(ReportsOn(l)')
  BY <1>1, <1>2, FS_Subset
<1>4. ReportsOn(l) \subseteq ReportsOn(l)'
  BY TablesGrow
<1> QED
  BY <1>3, <1>4, FS_Subset, FS_CardinalityType

\* An update that does not take the step.
LEMMA OtherTap ==
  ASSUME IInv, TypeOK', Grows(log, log'), Grows(reports, reports'),
         NEW t \in Taps, tap'[t] = tap[t]
  PROVE  TapOK(t)'
<1>1. TypeOK /\ TapOK(t) /\ tap[t] \in TapType
  BY DEF IInv, TypeOK
<1>2. CASE At(t, "idle")
  BY <1>1, <1>2 DEF TapOK, At, Grows, TypeOK, TapType
<1>3. CASE ~ At(t, "idle")
  <2>0. MsgOf(t) \in Msgs
    BY <1>1, <1>3 DEF TapOK
  <2> PICK m \in Msgs : m = MsgOf(t)
    BY <2>0
  <2> PICK l \in Links : l = LinkOf[m]
    BY ModerationConstants
  <2>1. tap[t].sinceR <= Len(reports) /\ tap[t].sinceL <= Len(log)
    BY <1>1 DEF TapOK
  <2>2. /\ tap[t].sinceR \in Nat /\ tap[t].sinceL \in Nat /\ tap[t].count \in Nat
        /\ Len(log) \in Nat /\ Len(log') \in Nat /\ Len(reports) \in Nat /\ Len(reports') \in Nat
        /\ DOMAIN log' = 1..Len(log') /\ DOMAIN reports' = 1..Len(reports')
    BY <1>1 DEF TapType, TypeOK
  <2>3. \A i \in ReportsOf(m)' : i \in ReportsOf(m) \/ tap[t].sinceR < i
    <3>1. \A i \in ReportsOf(m)' : i \in Nat /\ (i \in ReportsOf(m) \/ Len(reports) < i)
      BY <1>1, <2>2, TablesGrow DEF ReportsOf
    <3> QED
      BY <2>1, <2>2, <3>1
  <2>4. \A target : \A i \in RowsOn(target)' : (i \in RowsOn(target) /\ log'[i] = log[i]) \/ tap[t].sinceL < i
    BY <1>1, <2>1, <2>2, TablesGrow DEF RowsOn
  <2>5. SawNoReport(t) => SawNoReport(t)'
    BY <2>3 DEF SawNoReport, MsgOf
  <2>6. SawQueue(t) => SawQueue(t)'
    <3>1. tap[t].queued => (SawQueue(t) => SawQueue(t)')
      BY <1>1, TablesGrow DEF SawQueue, MsgOf, RowsOn
    <3>2. ~ tap[t].queued => (SawQueue(t) => SawQueue(t)')
      BY <2>4 DEF SawQueue, MsgOf
    <3> QED
      BY <3>1, <3>2
  <2>7. SawLink(t) => SawLink(t)'
    <3>1. /\ Cardinality(ReportsOn(l)) \in Nat /\ Cardinality(ReportsOn(l)') \in Nat
          /\ Cardinality(ReportsOn(l)) <= Cardinality(ReportsOn(l)')
      BY <1>1, <2>1, CountGrows
    <3> QED
      BY <2>2, <2>4, <3>1 DEF SawLink, MsgOf
  <2>8. SawNoEscalation(t) => SawNoEscalation(t)'
    BY <2>4 DEF SawNoEscalation, MsgOf
  <2>9. ReportsOf(m) # {} => ReportsOf(m)' # {}
    BY <1>1, <2>1, TablesGrow
  <2>10. tap'[t].sinceR <= Len(reports') /\ tap'[t].sinceL <= Len(log')
    BY <2>1, <2>2 DEF Grows
  <2> QED
    BY <1>1, <2>0, <2>1, <2>5, <2>6, <2>7, <2>8, <2>9, <2>10 DEF TapOK, At, MsgOf
<1> QED
  BY <1>2, <1>3

LEMMA OtherMod ==
  ASSUME IInv, TypeOK', Grows(log, log'), Grows(reports, reports'), NEW d \in Mods, mod'[d] = mod[d]
  PROVE  ModOK(d)'
<1>1. /\ TypeOK /\ ModOK(d) /\ mod[d].since \in Nat /\ Len(log) <= Len(log')
      /\ log \in Seq(RowType) /\ log' \in Seq(RowType)
  BY DEF IInv, TypeOK, Grows
<1>0. Len(log) \in Nat /\ Len(log') \in Nat /\ DOMAIN log' = 1..Len(log')
  BY <1>1
<1>2. CASE mod[d].pc = "idle"
  BY <1>0, <1>1, <1>2 DEF ModOK
<1>3. CASE mod[d].pc # "idle"
  <2> PICK target : target = log[mod[d].row].target
    OBVIOUS
  <2>1. mod[d].row \in DOMAIN log /\ mod[d].row \in DOMAIN log' /\ log'[mod[d].row] = log[mod[d].row]
    BY <1>1, <1>3, TablesGrow DEF ModOK
  <2>2. \A i \in RowsOn(target)' : (i \in RowsOn(target) /\ log'[i] = log[i]) \/ mod[d].since < i
    <3>1. \A i \in RowsOn(target)' : i \in Nat
      BY <1>0 DEF RowsOn
    <3>2. \A i \in RowsOn(target)' : i \in RowsOn(target) \/ Len(log) < i
      BY <1>1, TablesGrow
    <3>3. \A i \in RowsOn(target) : log'[i] = log[i]
      BY <1>1, TablesGrow DEF RowsOn
    <3> QED
      BY <1>0, <1>1, <3>1, <3>2, <3>3 DEF ModOK
  <2>3. \A i \in HumanOn(target)' : i \in HumanOn(target) \/ mod[d].since < i
    BY <2>2 DEF HumanOn, IsHuman
  <2> QED
    BY <1>0, <1>1, <2>1, <2>3 DEF ModOK
<1> QED
  BY <1>2, <1>3

-----------------------------------------------------------------------------
(* The first state, and steps that write nothing                           *)

LEMMA InitIInv == Init => IInv
<1> SUFFICES ASSUME Init PROVE IInv
  OBVIOUS
<1>1. TypeOK
  <2>1. IdleTap \in TapType
    BY DEF IdleTap, TapType
  <2>2. IdleMod \in [pc : {"idle", "existing", "decide"}, row : Nat, decision : Decisions, since : Nat]
    BY DEF IdleMod, Decisions
  <2> QED
    BY <2>1, <2>2 DEF Init, TypeOK
<1>2. \A t \in Taps : TapOK(t)
  BY DEF Init, TapOK, At, IdleTap
<1>3. \A d \in Mods : ModOK(d)
  BY DEF Init, ModOK, IdleMod
<1>4. DisabledIsOff /\ RepeatsOnlyOverlap /\ DisabledIsAudited /\ ReportHasRow /\ EventHasReport
  BY DEF Init, DisabledIsOff, RepeatsOnlyOverlap, DisabledIsAudited, ReportHasRow, EventHasReport,
         RowsOn
<1>5. CounterNeverAhead
  <2> SUFFICES ASSUME NEW l \in Links PROVE link[l].count <= Cardinality(ReportsOn(l))
    BY DEF CounterNeverAhead
  <2>1. ReportsOn(l) = {} /\ link[l].count = 0
    BY DEF Init, ReportsOn
  <2> QED
    BY <2>1, FS_EmptySet
<1> QED
  BY <1>1, <1>2, <1>3, <1>4, <1>5 DEF IInv

\* While neither table grows, what is said of the tables, the links and the
\* events stays true.
LEMMA TablesKept ==
  ASSUME IInv, UNCHANGED <<link, reports, log, events>>
  PROVE  /\ DisabledIsOff' /\ RepeatsOnlyOverlap' /\ CounterNeverAhead' /\ DisabledIsAudited'
         /\ ReportHasRow' /\ EventHasReport'
         /\ Grows(log, log') /\ Grows(reports, reports')
<1>1. DisabledIsOff' /\ RepeatsOnlyOverlap' /\ CounterNeverAhead' /\ DisabledIsAudited' /\ ReportHasRow' /\ EventHasReport'
  BY DEF IInv, DisabledIsOff, RepeatsOnlyOverlap, CounterNeverAhead, DisabledIsAudited, ReportHasRow,
         EventHasReport, RowsOn, ReportsOn, ReportsOf
<1>2. Grows(log, log') /\ Grows(reports, reports')
  BY Lengths DEF IInv, Grows
<1> QED
  BY <1>1, <1>2

\* A report update reads, and goes on.
LEMMA QuietTap ==
  ASSUME IInv, NEW t \in Taps, NEW r \in TapType, tap' = [tap EXCEPT ![t] = r], TapOK(t)',
         locked' \in [Msgs -> Taps \cup {None}], UNCHANGED <<msg, link, reports, log, events, mod>>
  PROVE  IInv'
<1>1. TypeOK'
  BY DEF IInv, TypeOK
<1>2. Grows(log, log') /\ Grows(reports, reports')
  BY TablesKept
<1>3. \A u \in Taps : TapOK(u)'
  <2>1. \A u \in Taps \ {t} : tap'[u] = tap[u]
    BY DEF IInv, TypeOK
  <2> QED
    BY <1>1, <1>2, <2>1, OtherTap
<1>4. \A d \in Mods : ModOK(d)'
  BY <1>1, <1>2, OtherMod
<1> QED
  BY <1>1, <1>3, <1>4, TablesKept DEF IInv

\* What the reading steps of a report update learn.
LEMMA TapReads ==
  ASSUME IInv, NEW t \in Taps,
         \/ \E m \in Msgs, sev \in ReportSeverities : BeginReport(t, m, sev)
         \/ LoadMessage(t) \/ LookAlready(t) \/ LookPrior(t) \/ LookQueued(t)
         \/ FlushMessage(t) \/ ReadLink(t) \/ CountReports(t) \/ LookEscalated(t)
  PROVE  IInv'
<1>1. TypeOK /\ TapOK(t) /\ tap[t] \in TapType /\ tap \in [Taps -> TapType]
  BY DEF IInv, TypeOK
<1>2. Len(reports) \in Nat /\ Len(log) \in Nat
  BY <1>1, Lengths
<1>3. IdleTap \in TapType /\ IdleTap.pc = "idle" /\ IdleTap.sinceR = 0 /\ IdleTap.sinceL = 0
  BY DEF IdleTap, TapType
<1>4. locked \in [Msgs -> Taps \cup {None}]
  BY <1>1 DEF TypeOK
<1>5. ASSUME NEW m \in Msgs, NEW sev \in ReportSeverities, BeginReport(t, m, sev)
      PROVE  IInv'
  <2> DEFINE r == [IdleTap EXCEPT !.pc = "load", !.m = m, !.sev = sev,
                                  !.sinceR = Len(reports), !.sinceL = Len(log)]
  <2>1. sev \in {"L1", "L2", "L3"}
    BY ModerationConstants
  <2>2. r \in TapType /\ r.pc = "load" /\ r.m = m /\ r.sinceR = Len(reports) /\ r.sinceL = Len(log)
    BY <1>2, <1>3, <2>1 DEF TapType, IdleTap
  <2>3. tap' = [tap EXCEPT ![t] = r] /\ UNCHANGED <<msg, link, reports, log, events, locked, mod>>
    BY <1>5 DEF BeginReport, NoWrite
  <2>4. tap'[t] = r
    BY <1>1, <2>3
  <2> HIDE DEF r
  <2>5. TapOK(t)'
    BY <1>2, <2>2, <2>3, <2>4 DEF TapOK, At, MsgOf
  <2> QED
    BY <1>4, <2>2, <2>3, <2>5, QuietTap
<1>6. CASE LoadMessage(t)
  <2> DEFINE r == IF msg[MsgOf(t)].deleted THEN IdleTap
                  ELSE [tap[t] EXCEPT !.pc = "already", !.score = msg[MsgOf(t)].score]
  <2>1. MsgOf(t) \in Msgs
    BY <1>1, <1>6 DEF LoadMessage, TapOK, At
  <2>2. msg[MsgOf(t)].score \in Nat
    BY <1>1, <2>1 DEF TypeOK
  <2>3. /\ r \in TapType
        /\ \/ r = IdleTap
           \/ r.pc = "already" /\ r.m = MsgOf(t) /\ r.sinceR = tap[t].sinceR /\ r.sinceL = tap[t].sinceL
    <3>1. CASE msg[MsgOf(t)].deleted
      <4>1. r = IdleTap
        BY <3>1
      <4> HIDE DEF r
      <4> QED
        BY <1>3, <4>1
    <3>2. CASE ~ msg[MsgOf(t)].deleted
      BY <1>1, <2>2, <3>2 DEF TapType, MsgOf
    <3> QED
      BY <3>1, <3>2
  <2>4. tap' = [tap EXCEPT ![t] = r] /\ UNCHANGED <<msg, link, reports, log, events, locked, mod>>
    BY <1>6 DEF LoadMessage, NoWrite
  <2>5. tap'[t] = r
    BY <1>1, <2>4
  <2> HIDE DEF r
  <2>6. TapOK(t)'
    BY <1>1, <1>2, <1>3, <2>1, <2>3, <2>4, <2>5 DEF TapOK, At, MsgOf
  <2> QED
    BY <1>4, <2>3, <2>4, <2>6, QuietTap
<1>7. CASE LookAlready(t)
  <2> DEFINE r == [tap[t] EXCEPT !.pc = "prior", !.again = (ReportsOf(MsgOf(t)) # {})]
  <2>1. r \in TapType /\ r.pc = "prior" /\ r.m = tap[t].m /\ r.sinceR = tap[t].sinceR /\ r.sinceL = tap[t].sinceL
    BY <1>1 DEF TapType
  <2>2. tap' = [tap EXCEPT ![t] = r] /\ UNCHANGED <<msg, link, reports, log, events, locked, mod>> /\ tap[t].pc = "already"
    BY <1>7 DEF LookAlready, NoWrite, At
  <2>3. tap'[t] = r
    BY <1>1, <2>2
  <2> HIDE DEF r
  <2>4. TapOK(t)'
    BY <1>1, <2>1, <2>2, <2>3 DEF TapOK, At, MsgOf
  <2> QED
    BY <1>4, <2>1, <2>2, <2>4, QuietTap
<1>8. CASE LookPrior(t)
  <2> DEFINE pc == IF ReportsOf(MsgOf(t)) # {} THEN "event" ELSE "queued"
             r == [tap[t] EXCEPT !.pc = pc]
  <2>1. r \in TapType /\ r.pc = pc /\ r.m = tap[t].m /\ r.sinceR = tap[t].sinceR /\ r.sinceL = tap[t].sinceL
    BY <1>1 DEF TapType
  <2>2. tap' = [tap EXCEPT ![t] = r] /\ UNCHANGED <<msg, link, reports, log, events, locked, mod>> /\ tap[t].pc = "prior"
    BY <1>8 DEF LookPrior, NoWrite, At, Goto
  <2>3. tap'[t] = r
    BY <1>1, <2>2
  <2> HIDE DEF r
  <2>4. TapOK(t)'
    BY <1>1, <2>1, <2>2, <2>3 DEF TapOK, At, MsgOf, SawNoReport, ReportsOf
  <2> QED
    BY <1>4, <2>1, <2>2, <2>4, QuietTap
<1>9. CASE LookQueued(t)
  <2> DEFINE q == \E i \in RowsOn(OnMsg(MsgOf(t))) : log[i].action = "user_report"
             r == [tap[t] EXCEPT !.pc = "flush", !.queued = q]
  <2>1. q \in BOOLEAN
    OBVIOUS
  <2> HIDE DEF q
  <2>2. /\ r \in TapType /\ r.pc = "flush" /\ r.m = tap[t].m /\ r.sinceR = tap[t].sinceR /\ r.sinceL = tap[t].sinceL
        /\ r.queued = q
    BY <1>1, <2>1 DEF TapType
  <2>3. tap' = [tap EXCEPT ![t] = r] /\ UNCHANGED <<msg, link, reports, log, events, locked, mod>> /\ tap[t].pc = "queued"
    BY <1>9 DEF LookQueued, NoWrite, At, q
  <2>4. tap'[t] = r
    BY <1>1, <2>3
  <2> HIDE DEF r
  <2>5. SawNoReport(t)' /\ SawQueue(t)'
    BY <1>1, <2>1, <2>2, <2>3, <2>4 DEF TapOK, MsgOf, SawNoReport, SawQueue, ReportsOf, RowsOn, q
  <2>6. TapOK(t)'
    BY <1>1, <2>2, <2>3, <2>4, <2>5 DEF TapOK, At, MsgOf
  <2> QED
    BY <1>4, <2>2, <2>3, <2>6, QuietTap
<1>10. CASE FlushMessage(t)
  <2> DEFINE r == [tap[t] EXCEPT !.pc = "link"]
  <2>1. /\ r \in TapType /\ r.pc = "link" /\ r.m = tap[t].m /\ r.sinceR = tap[t].sinceR /\ r.sinceL = tap[t].sinceL
        /\ r.queued = tap[t].queued
    BY <1>1 DEF TapType
  <2>2. tap' = [tap EXCEPT ![t] = r] /\ UNCHANGED <<msg, link, reports, log, events, mod>> /\ tap[t].pc = "flush"
    BY <1>10 DEF FlushMessage, At, Goto
  <2>3. tap'[t] = r
    BY <1>1, <2>2
  <2> HIDE DEF r
  <2>4. SawNoReport(t)' /\ SawQueue(t)'
    BY <1>1, <2>1, <2>2, <2>3 DEF TapOK, MsgOf, SawNoReport, SawQueue, ReportsOf, RowsOn
  <2>5. TapOK(t)'
    BY <1>1, <2>1, <2>2, <2>3, <2>4 DEF TapOK, At, MsgOf
  <2>6. locked' \in [Msgs -> Taps \cup {None}]
    BY <1>4, <1>10 DEF FlushMessage
  <2> QED
    BY <2>1, <2>2, <2>5, <2>6, QuietTap
<1>11. CASE ReadLink(t)
  <2>1. tap[t].pc = "link" /\ MsgOf(t) \in Msgs
    BY <1>1, <1>11 DEF ReadLink, At, TapOK
  <2> PICK l \in Links : l = LinkOf[MsgOf(t)]
    BY <2>1, ModerationConstants
  <2> DEFINE r == [tap[t] EXCEPT !.pc = "commit", !.count = link[l].count, !.active = link[l].active]
  <2>2. link[l].count \in Nat /\ link[l].active \in BOOLEAN
    BY <1>1 DEF TypeOK
  <2>3. /\ r \in TapType /\ r.pc = "commit" /\ r.m = tap[t].m /\ r.sinceR = tap[t].sinceR /\ r.sinceL = tap[t].sinceL
        /\ r.queued = tap[t].queued /\ r.count = link[l].count /\ r.active = link[l].active
    BY <1>1, <2>2 DEF TapType
  <2>4. tap' = [tap EXCEPT ![t] = r] /\ UNCHANGED <<msg, link, reports, log, events, locked, mod>>
    BY <1>11 DEF ReadLink, NoWrite
  <2>5. tap'[t] = r
    BY <1>1, <2>4
  <2> HIDE DEF r
  <2>6. SawNoReport(t)' /\ SawQueue(t)'
    BY <1>1, <2>1, <2>3, <2>4, <2>5 DEF TapOK, MsgOf, SawNoReport, SawQueue, ReportsOf, RowsOn
  <2>7. SawLink(t)'
    <3>1. link[l].count <= Cardinality(ReportsOn(l))
      BY DEF IInv, CounterNeverAhead
    <3>2. link[l].active => \A i \in RowsOn(OnLink(l)) : log[i].action # "disable_link"
      BY DEF IInv, DisabledIsOff
    <3>3. /\ tap'[t].count = link[l].count /\ tap'[t].active = link[l].active /\ LinkOf[tap'[t].m] = l
          /\ ReportsOn(l)' = ReportsOn(l) /\ RowsOn(OnLink(l))' = RowsOn(OnLink(l))
      BY <2>3, <2>4, <2>5 DEF MsgOf, ReportsOn, RowsOn
    <3> QED
      BY <2>4, <3>1, <3>2, <3>3 DEF SawLink, MsgOf, ReportsOn, RowsOn
  <2>8. TapOK(t)'
    BY <1>1, <2>1, <2>3, <2>4, <2>5, <2>6, <2>7 DEF TapOK, At, MsgOf
  <2> QED
    BY <1>4, <2>3, <2>4, <2>8, QuietTap
<1>12. CASE CountReports(t) \/ LookEscalated(t)
  <2>1. PICK pc \in {"event", "escalated", "escalate"} :
          /\ tap' = [tap EXCEPT ![t].pc = pc]
          /\ pc = "escalate" => RowsOn(OnPrint(PrintOf[MsgOf(t)])) = {}
    BY <1>12 DEF CountReports, LookEscalated, Goto
  <2> DEFINE r == [tap[t] EXCEPT !.pc = pc]
  <2>2. r \in TapType /\ r.pc = pc /\ r.m = tap[t].m /\ r.sinceR = tap[t].sinceR /\ r.sinceL = tap[t].sinceL
    BY <1>1 DEF TapType
  <2>3. /\ tap' = [tap EXCEPT ![t] = r] /\ UNCHANGED <<msg, link, reports, log, events, locked, mod>>
        /\ tap[t].pc \in {"count", "escalated"}
    BY <1>12, <2>1 DEF CountReports, LookEscalated, NoWrite, At
  <2>4. tap'[t] = r
    BY <1>1, <2>3
  <2> HIDE DEF r
  <2>5. ReportsOf(MsgOf(t))' # {} /\ (pc = "escalate" => SawNoEscalation(t)')
    BY <1>1, <2>1, <2>2, <2>3, <2>4 DEF TapOK, MsgOf, SawNoEscalation, RowsOn, ReportsOf
  <2>6. TapOK(t)'
    BY <1>1, <2>2, <2>3, <2>4, <2>5 DEF TapOK, At, MsgOf
  <2> QED
    BY <1>4, <2>2, <2>3, <2>6, QuietTap
<1> QED
  BY <1>5, <1>6, <1>7, <1>8, <1>9, <1>10, <1>11, <1>12

\* track("report_created"): the report it counts is there.
LEMMA TrackReportInv ==
  ASSUME IInv, NEW t \in Taps, TrackReport(t)
  PROVE  IInv'
<1>1. /\ TypeOK /\ TapOK(t) /\ tap \in [Taps -> TapType] /\ events \in [Msgs -> Nat]
      /\ Len(reports) \in Nat /\ Len(log) \in Nat
  BY Lengths DEF IInv, TypeOK
<1>2. /\ tap' = [tap EXCEPT ![t] = IdleTap] /\ UNCHANGED <<msg, link, reports, log, locked, mod>>
      /\ tap[t].pc = "event"
      /\ events' = [events EXCEPT ![MsgOf(t)] = IF tap[t].again THEN @ ELSE @ + 1]
  BY DEF TrackReport, At
<1>3. IdleTap \in TapType
  BY DEF IdleTap, TapType
<1>4. MsgOf(t) \in Msgs /\ ReportsOf(MsgOf(t)) # {}
  BY <1>1, <1>2 DEF TapOK, At
<1>5. events' \in [Msgs -> Nat] /\ \A m \in Msgs : m # MsgOf(t) => events'[m] = events[m]
  BY <1>1, <1>2, <1>4
<1>6. TypeOK'
  BY <1>1, <1>2, <1>3, <1>5 DEF TypeOK
<1>7. Grows(log, log') /\ Grows(reports, reports')
  BY <1>1, <1>2, Lengths DEF Grows
<1>8. \A u \in Taps : TapOK(u)'
  <2>1. TapOK(t)'
    BY <1>1, <1>2 DEF TapOK, At, IdleTap
  <2>2. \A u \in Taps \ {t} : tap'[u] = tap[u]
    BY <1>1, <1>2
  <2> QED
    BY <1>6, <1>7, <2>1, <2>2, OtherTap
<1>9. \A d \in Mods : ModOK(d)'
  BY <1>2, <1>6, <1>7, OtherMod
<1>10. EventHasReport'
  BY <1>2, <1>4, <1>5 DEF IInv, EventHasReport, ReportsOf
<1>11. DisabledIsOff' /\ RepeatsOnlyOverlap' /\ CounterNeverAhead' /\ DisabledIsAudited' /\ ReportHasRow'
  BY <1>2 DEF IInv, DisabledIsOff, RepeatsOnlyOverlap, CounterNeverAhead, DisabledIsAudited, ReportHasRow,
              RowsOn, ReportsOn
<1> QED
  BY <1>6, <1>8, <1>9, <1>10, <1>11 DEF IInv

-----------------------------------------------------------------------------
(* The commits                                                             *)

\* Repeats are a matter of the new rows.
LEMMA RepeatsKept ==
  ASSUME IInv, TypeOK', Grows(log, log'), Grows(reports, reports'),
         \A i, j \in DOMAIN log' :
           j \notin DOMAIN log /\ i < j /\ SameItem(log'[i], log'[j]) => log'[j].since < i,
         \A i, j \in DOMAIN reports' :
           j \notin DOMAIN reports /\ i < j /\ reports'[i].msg = reports'[j].msg => reports'[j].since < i
  PROVE  RepeatsOnlyOverlap'
<1>1. TypeOK /\ RepeatsOnlyOverlap
  BY DEF IInv
<1>2. /\ Len(log) \in Nat /\ DOMAIN log = 1..Len(log) /\ Len(reports) \in Nat /\ DOMAIN reports = 1..Len(reports)
      /\ \A i \in DOMAIN log : i \in DOMAIN log' /\ log'[i] = log[i]
      /\ \A i \in DOMAIN reports : i \in DOMAIN reports' /\ reports'[i] = reports[i]
  BY <1>1, Lengths, TablesGrow
<1>3. log' \in Seq(RowType) /\ reports' \in Seq([msg : Msgs, since : Nat])
  BY DEF TypeOK
<1>4. /\ \A i \in DOMAIN log', j \in DOMAIN log : i < j => i \in DOMAIN log
      /\ \A i \in DOMAIN reports', j \in DOMAIN reports : i < j => i \in DOMAIN reports
  BY <1>2, <1>3
<1>5. \A i, j \in DOMAIN log' : i < j /\ SameItem(log'[i], log'[j]) => log'[j].since < i
  <2> SUFFICES ASSUME NEW i \in DOMAIN log', NEW j \in DOMAIN log', i < j, SameItem(log'[i], log'[j])
               PROVE  log'[j].since < i
    OBVIOUS
  <2>1. CASE j \in DOMAIN log
    <3>1. i \in DOMAIN log /\ log'[i] = log[i] /\ log'[j] = log[j]
      BY <1>2, <1>4, <2>1
    <3> QED
      BY <1>1, <2>1, <3>1 DEF RepeatsOnlyOverlap
  <2> QED
    BY <2>1
<1>6. \A i, j \in DOMAIN reports' : i < j /\ reports'[i].msg = reports'[j].msg => reports'[j].since < i
  BY <1>1, <1>2, <1>4 DEF RepeatsOnlyOverlap
<1> QED
  BY <1>5, <1>6 DEF RepeatsOnlyOverlap, SameItem, IsHuman

\* One row is appended to moderation_actions; it may turn links off.
LEMMA RowAppended ==
  ASSUME IInv, TypeOK', NEW e \in RowType, log' = Append(log, e), UNCHANGED <<reports, events>>,
         \A i \in DOMAIN log : SameItem(log[i], e) => e.since < i,
         \A l \in Links :
           /\ link'[l].count = link[l].count
           /\ ~ link[l].active => ~ link'[l].active
           /\ ~ link'[l].active => \/ ~ link[l].active
                                   \/ e.action = "disable_link" /\ l \in LinksFor(e.target)
           /\ e.target = OnLink(l) /\ e.action = "disable_link" => ~ link'[l].active
  PROVE  /\ Grows(log, log') /\ Grows(reports, reports')
         /\ DisabledIsOff' /\ RepeatsOnlyOverlap' /\ CounterNeverAhead' /\ DisabledIsAudited'
         /\ ReportHasRow' /\ EventHasReport'
<1>1. TypeOK /\ log \in Seq(RowType) /\ log' \in Seq(RowType)
  BY DEF IInv, TypeOK
<1>2. Grows(log, log') /\ Len(log') = Len(log) + 1 /\ log'[Len(log) + 1] = e
  BY <1>1, AppendGrows
<1>3. Grows(reports, reports') /\ reports' = reports
  BY <1>1, Lengths DEF Grows
<1>4. /\ Len(log) \in Nat /\ DOMAIN log = 1..Len(log) /\ DOMAIN log' = 1..Len(log) + 1
      /\ \A i \in DOMAIN log : i \in DOMAIN log' /\ log'[i] = log[i]
      /\ \A i \in DOMAIN log' : i \in DOMAIN log \/ i = Len(log) + 1
  BY <1>1, <1>2 DEF Grows
<1>5. RepeatsOnlyOverlap'
  <2>1. \A i, j \in DOMAIN log' :
           j \notin DOMAIN log /\ i < j /\ SameItem(log'[i], log'[j]) => log'[j].since < i
    BY <1>2, <1>4
  <2>2. \A i, j \in DOMAIN reports' :
           j \notin DOMAIN reports /\ i < j /\ reports'[i].msg = reports'[j].msg => reports'[j].since < i
    BY <1>3
  <2> QED
    BY <1>2, <1>3, <2>1, <2>2, RepeatsKept
<1>6. DisabledIsOff'
  BY <1>2, <1>4 DEF IInv, DisabledIsOff, RowsOn
<1>7. CounterNeverAhead'
  <2>1. \A l \in Links : ReportsOn(l)' = ReportsOn(l)
    BY <1>3 DEF ReportsOn
  <2> QED
    BY <2>1 DEF IInv, CounterNeverAhead
<1>8. DisabledIsAudited'
  <2> SUFFICES ASSUME NEW l \in Links, ~ link'[l].active
               PROVE  \E i \in DOMAIN log' : log'[i].action = "disable_link" /\ l \in LinksFor(log'[i].target)
    BY DEF DisabledIsAudited, LinksFor
  <2>1. CASE ~ link[l].active
    BY <1>4, <2>1 DEF IInv, DisabledIsAudited
  <2>2. CASE e.action = "disable_link" /\ l \in LinksFor(e.target)
    BY <1>2, <1>4, <2>2
  <2> QED
    BY <2>1, <2>2
<1>9. ReportHasRow'
  BY <1>3, <1>4 DEF IInv, ReportHasRow, RowsOn
<1>10. EventHasReport'
  BY <1>3 DEF IInv, EventHasReport, ReportsOf
<1> QED
  BY <1>2, <1>3, <1>5, <1>6, <1>7, <1>8, <1>9, <1>10

\* The mass-abuse row.
LEMMA EscalationInv ==
  ASSUME IInv, NEW t \in Taps, CommitEscalation(t)
  PROVE  IInv'
<1>1. /\ TypeOK /\ TapOK(t) /\ tap[t] \in TapType /\ tap \in [Taps -> TapType]
      /\ Len(reports) \in Nat /\ Len(log) \in Nat /\ log \in Seq(RowType)
  BY Lengths DEF IInv, TypeOK
<1>2. /\ tap' = [tap EXCEPT ![t].pc = "event"] /\ UNCHANGED <<msg, link, reports, events, locked, mod>>
      /\ tap[t].pc = "escalate"
  BY DEF CommitEscalation, At, Goto
<1>3. MsgOf(t) \in Msgs /\ ReportsOf(MsgOf(t)) # {} /\ SawNoEscalation(t)
  BY <1>1, <1>2 DEF TapOK, At
<1> PICK f \in Prints : f = PrintOf[MsgOf(t)]
  BY <1>3, ModerationConstants
<1> DEFINE e == Row(OnPrint(f), "escalate", "L3", System, tap[t].sinceL)
<1>4. log' = Append(log, e)
  BY DEF CommitEscalation
<1>5. /\ e \in RowType /\ e.target = OnPrint(f) /\ e.action = "escalate" /\ e.since = tap[t].sinceL
      /\ e.by = System
  BY <1>1 DEF Row, RowType, Targets, TapType, Decisions
<1> HIDE DEF e
<1>6. log' \in Seq(RowType)
  BY <1>1, <1>4, <1>5, AppendGrows
<1>7. /\ tap' \in [Taps -> TapType] /\ tap'[t].pc = "event" /\ tap'[t].m = tap[t].m
      /\ tap'[t].sinceR = tap[t].sinceR /\ tap'[t].sinceL = tap[t].sinceL
      /\ \A u \in Taps \ {t} : tap'[u] = tap[u]
  BY <1>1, <1>2 DEF TapType
<1>8. TypeOK'
  BY <1>1, <1>2, <1>6, <1>7 DEF TypeOK
<1>9. \A i \in DOMAIN log : SameItem(log[i], e) => e.since < i
  BY <1>3, <1>5 DEF SawNoEscalation, SameItem, RowsOn
<1>10. \A l \in Links : e.target # OnLink(l)
  BY <1>5, TargetKinds
<1>11. /\ Grows(log, log') /\ Grows(reports, reports')
       /\ DisabledIsOff' /\ RepeatsOnlyOverlap' /\ CounterNeverAhead' /\ DisabledIsAudited'
       /\ ReportHasRow' /\ EventHasReport'
  BY <1>2, <1>4, <1>5, <1>8, <1>9, <1>10, RowAppended
<1>12. TapOK(t)'
  <2>1. tap'[t].sinceR <= Len(reports') /\ tap'[t].sinceL <= Len(log')
    <3>1. Len(log') \in Nat /\ Len(log) <= Len(log') /\ tap[t].sinceL \in Nat /\ tap[t].sinceL <= Len(log)
      BY <1>1, <1>6, <1>11 DEF Grows, TapOK, TapType
    <3> QED
      BY <1>1, <1>2, <1>7, <3>1 DEF TapOK
  <2>2. MsgOf(t)' = MsgOf(t) /\ ReportsOf(MsgOf(t))' = ReportsOf(MsgOf(t))
    BY <1>2, <1>7 DEF MsgOf, ReportsOf
  <2> QED
    BY <1>3, <1>7, <2>1, <2>2 DEF TapOK, At
<1>13. \A u \in Taps : TapOK(u)'
  BY <1>7, <1>8, <1>11, <1>12, OtherTap
<1>14. \A d \in Mods : ModOK(d)'
  BY <1>2, <1>8, <1>11, OtherMod
<1> QED
  BY <1>8, <1>11, <1>13, <1>14 DEF IInv

\* The filter's row.
LEMMA AutoFlagInv ==
  ASSUME IInv, NEW m \in Msgs, NEW sev \in FlagSeverities, AutoFlag(m, sev)
  PROVE  IInv'
<1>1. /\ TypeOK /\ Len(log) \in Nat /\ log \in Seq(RowType) /\ msg \in [Msgs -> [score : Nat, deleted : BOOLEAN]]
  BY Lengths DEF IInv, TypeOK
<1> DEFINE e == Row(OnMsg(m), "auto_flag", sev, System, Len(log))
<1>2. /\ log' = Append(log, e) /\ UNCHANGED <<link, reports, events, locked, tap, mod>>
      /\ msg' = [msg EXCEPT ![m].deleted = @ \/ sev = "L3"]
      /\ \A i \in RowsOn(OnMsg(m)) : log[i].action # "auto_flag"
  BY DEF AutoFlag
<1>3. e \in RowType /\ e.target = OnMsg(m) /\ e.action = "auto_flag" /\ e.by = System
  <2>1. sev \in {"L1", "L2", "L3"}
    BY ModerationConstants
  <2> QED
    BY <1>1, <2>1 DEF Row, RowType, Targets
<1> HIDE DEF e
<1>4. log' \in Seq(RowType)
  BY <1>1, <1>2, <1>3, AppendGrows
<1>5. msg' \in [Msgs -> [score : Nat, deleted : BOOLEAN]]
  BY <1>1, <1>2
<1>6. TypeOK'
  BY <1>1, <1>2, <1>4, <1>5 DEF TypeOK
<1>7. \A i \in DOMAIN log : SameItem(log[i], e) => e.since < i
  BY <1>2, <1>3 DEF SameItem, RowsOn, IsHuman
<1>8. \A l \in Links : e.target # OnLink(l)
  BY <1>3, TargetKinds
<1>9. /\ Grows(log, log') /\ Grows(reports, reports')
      /\ DisabledIsOff' /\ RepeatsOnlyOverlap' /\ CounterNeverAhead' /\ DisabledIsAudited'
      /\ ReportHasRow' /\ EventHasReport'
  BY <1>2, <1>3, <1>6, <1>7, <1>8, RowAppended
<1> QED
  BY <1>2, <1>6, <1>9, OtherTap, OtherMod DEF IInv

\* A moderator's update reads, and goes on.
LEMMA ModReads ==
  ASSUME IInv, NEW d \in Mods,
         \/ \E i \in DOMAIN log, decision \in Decisions : BeginDecision(d, i, decision)
         \/ LookExisting(d)
  PROVE  IInv'
<1> DEFINE ModType == [pc : {"idle", "existing", "decide"}, row : Nat, decision : Decisions, since : Nat]
<1>1. /\ TypeOK /\ ModOK(d) /\ Len(log) \in Nat /\ DOMAIN log = 1..Len(log)
      /\ mod \in [Mods -> ModType] /\ mod[d] \in ModType
  BY Lengths DEF IInv, TypeOK
<1>2. UNCHANGED <<msg, link, reports, log, events, locked, tap>>
  BY DEF BeginDecision, LookExisting
<1>3. PICK r \in ModType :
        /\ mod' = [mod EXCEPT ![d] = r]
        /\ r.since <= Len(log)
        /\ r.pc # "idle" => r.row \in DOMAIN log
        /\ r.pc = "decide" => HumanOn(log[r.row].target) = {}
  <2>1. ASSUME NEW i \in DOMAIN log, NEW decision \in Decisions, BeginDecision(d, i, decision)
        PROVE  mod' = [mod EXCEPT ![d] = [pc |-> "existing", row |-> i, decision |-> decision, since |-> Len(log)]]
               /\ i \in Nat
    BY <1>1, <2>1 DEF BeginDecision
  <2>2. CASE LookExisting(d)
    <3>1. IdleMod \in ModType /\ IdleMod.pc = "idle" /\ IdleMod.since = 0
      BY DEF IdleMod, Decisions
    <3>2. CASE HumanOn(log[mod[d].row].target) # {}
      <4>1. mod' = [mod EXCEPT ![d] = IdleMod]
        BY <1>1, <2>2, <3>2 DEF LookExisting
      <4>2. /\ IdleMod.since <= Len(log)
            /\ IdleMod.pc # "idle" => IdleMod.row \in DOMAIN log
            /\ IdleMod.pc = "decide" => HumanOn(log[IdleMod.row].target) = {}
        BY <1>1, <3>1
      <4> QED
        BY <3>1, <4>1, <4>2, Zenon
    <3>3. CASE HumanOn(log[mod[d].row].target) = {}
      <4> DEFINE r == [mod[d] EXCEPT !.pc = "decide"]
      <4>1. mod' = [mod EXCEPT ![d] = r]
        BY <1>1, <2>2, <3>3 DEF LookExisting
      <4>2. r \in ModType /\ r.row = mod[d].row /\ r.since = mod[d].since /\ r.pc = "decide"
        BY <1>1
      <4>3. mod[d].pc = "existing"
        BY <2>2 DEF LookExisting
      <4> HIDE DEF r
      <4> QED
        BY <1>1, <3>3, <4>1, <4>2, <4>3 DEF ModOK
    <3> QED
      BY <3>2, <3>3
  <2>3. CASE \E i \in DOMAIN log, decision \in Decisions : BeginDecision(d, i, decision)
    <3>1. PICK i \in DOMAIN log, decision \in Decisions : BeginDecision(d, i, decision)
      BY <2>3
    <3>2. [pc |-> "existing", row |-> i, decision |-> decision, since |-> Len(log)] \in ModType
      BY <1>1, <2>1, <3>1
    <3> QED
      BY <1>1, <2>1, <3>1, <3>2
  <2> QED
    BY <2>2, <2>3
<1>4. mod'[d] = r /\ \A c \in Mods \ {d} : mod'[c] = mod[c]
  BY <1>1, <1>3
<1>5. TypeOK'
  BY <1>1, <1>2, <1>3 DEF TypeOK
<1>6. ModOK(d)'
  BY <1>1, <1>2, <1>3, <1>4 DEF ModOK, HumanOn, RowsOn
<1>7. Grows(log, log') /\ Grows(reports, reports') /\ DisabledIsOff' /\ RepeatsOnlyOverlap' /\ CounterNeverAhead'
      /\ DisabledIsAudited' /\ ReportHasRow' /\ EventHasReport'
  BY <1>2, TablesKept
<1>8. \A c \in Mods : ModOK(c)'
  BY <1>4, <1>5, <1>6, <1>7, OtherMod
<1>9. \A t \in Taps : TapOK(t)'
  BY <1>2, <1>5, <1>7, OtherTap
<1> QED
  BY <1>5, <1>7, <1>8, <1>9 DEF IInv

\* The decision: the first of those that began after every other was committed.
LEMMA DecisionInv ==
  ASSUME IInv, NEW d \in Mods, CommitDecision(d)
  PROVE  IInv'
<1> DEFINE ModType == [pc : {"idle", "existing", "decide"}, row : Nat, decision : Decisions, since : Nat]
<1>1. /\ TypeOK /\ ModOK(d) /\ Len(log) \in Nat /\ log \in Seq(RowType)
      /\ mod \in [Mods -> ModType] /\ mod[d] \in ModType
      /\ link \in [Links -> [active : BOOLEAN, count : Nat]]
  BY Lengths DEF IInv, TypeOK
<1>2. /\ mod[d].pc = "decide" /\ mod' = [mod EXCEPT ![d] = IdleMod]
      /\ UNCHANGED <<msg, reports, events, locked, tap>>
  BY DEF CommitDecision
<1>3. mod[d].row \in DOMAIN log /\ log[mod[d].row] \in RowType
  BY <1>1, <1>2 DEF ModOK
<1> PICK original \in RowType : original = log[mod[d].row]
  BY <1>3
<1> DEFINE e == Row(original.target, mod[d].decision, original.sev, d, mod[d].since)
<1>4. /\ log' = Append(log, e)
      /\ link' = [l \in Links |->
                    IF mod[d].decision = "disable_link" /\ l \in LinksFor(original.target)
                    THEN [link[l] EXCEPT !.active = FALSE] ELSE link[l]]
  BY DEF CommitDecision
<1>5. /\ e \in RowType /\ e.target = original.target /\ e.action = mod[d].decision
      /\ e.by = d /\ e.since = mod[d].since
  BY <1>1 DEF Row, RowType
<1> HIDE DEF e
<1>6. log' \in Seq(RowType)
  BY <1>1, <1>4, <1>5, AppendGrows
<1>7. IdleMod \in ModType
  BY DEF IdleMod, Decisions
<1>8. mod' \in [Mods -> ModType] /\ mod'[d] = IdleMod /\ \A c \in Mods \ {d} : mod'[c] = mod[c]
  BY <1>1, <1>2, <1>7
<1>9. \A l \in Links :
        /\ link'[l] \in [active : BOOLEAN, count : Nat]
        /\ link'[l].count = link[l].count
        /\ ~ link[l].active => ~ link'[l].active
        /\ ~ link'[l].active <=> \/ ~ link[l].active
                                 \/ e.action = "disable_link" /\ l \in LinksFor(e.target)
  BY <1>1, <1>4, <1>5
<1>10. link' \in [Links -> [active : BOOLEAN, count : Nat]]
  BY <1>4, <1>9
<1>11. TypeOK'
  BY <1>1, <1>2, <1>6, <1>8, <1>10 DEF TypeOK
<1>12. \A i \in DOMAIN log : SameItem(log[i], e) => e.since < i
  BY <1>1, <1>2, <1>5, ModerationConstants DEF ModOK, SameItem, HumanOn, RowsOn, IsHuman, System
<1>13. \A l \in Links : l \in LinksFor(OnLink(l))
  BY DEF LinksFor
<1>14. /\ Grows(log, log') /\ Grows(reports, reports')
       /\ DisabledIsOff' /\ RepeatsOnlyOverlap' /\ CounterNeverAhead' /\ DisabledIsAudited'
       /\ ReportHasRow' /\ EventHasReport'
  BY <1>2, <1>4, <1>5, <1>9, <1>11, <1>12, <1>13, RowAppended
<1>15. ModOK(d)'
  <2>1. Len(log') \in Nat
    BY <1>6
  <2> QED
    BY <1>8, <2>1 DEF ModOK, IdleMod
<1> QED
  BY <1>2, <1>8, <1>11, <1>14, <1>15, OtherTap, OtherMod DEF IInv

\* Up to two rows at the end of a table.
TwoRows(S, s, a, b, x, y, t) ==
  /\ t \in Seq(S) /\ Grows(s, t)
  /\ \A i \in DOMAIN t :
       \/ i \in DOMAIN s
       \/ Len(s) < i /\ x # <<>> /\ t[i] = a
       \/ Len(s) < i /\ y # <<>> /\ t[i] = b
  /\ \A i, j \in DOMAIN t : i \notin DOMAIN s /\ j \notin DOMAIN s /\ i < j => t[i] = a /\ t[j] = b
  /\ x # <<>> => \E i \in DOMAIN t : t[i] = a
  /\ y # <<>> => \E i \in DOMAIN t : t[i] = b

LEMMA TwoAppended ==
  ASSUME NEW S, NEW s \in Seq(S), NEW a \in S, NEW b \in S,
         NEW x \in {<<>>, <<a>>}, NEW y \in {<<>>, <<b>>}, NEW t, t = s \o x \o y
  PROVE  TwoRows(S, s, a, b, x, y, t)
<1> USE DEF TwoRows
<1>1. s \o <<>> = s /\ \A u \in Seq(S) : u \o <<>> = u
  OBVIOUS
<1>2. Append(s, a) \in Seq(S) /\ s \o <<a>> = Append(s, a) /\ \A u \in Seq(S) : u \o <<b>> = Append(u, b)
  OBVIOUS
<1>3. CASE x = <<>> /\ y = <<>>
  <2>1. t = s
    BY <1>1, <1>3
  <2> QED
    BY <1>3, <2>1 DEF Grows
<1>4. CASE x = <<a>> /\ y = <<>>
  <2>1. t = Append(s, a)
    BY <1>1, <1>2, <1>4
  <2> QED
    BY <1>4, <2>1 DEF Grows
<1>5. CASE x = <<>> /\ y = <<b>>
  <2>1. t = Append(s, b)
    BY <1>1, <1>2, <1>5
  <2> QED
    BY <1>5, <2>1 DEF Grows
<1>6. CASE x = <<a>> /\ y = <<b>>
  <2> PICK u \in Seq(S) : u = Append(s, a)
    BY <1>2
  <2>1. t = Append(u, b) /\ x # <<>> /\ y # <<>>
    BY <1>2, <1>6
  <2>2. /\ Len(u) = Len(s) + 1 /\ u[Len(s) + 1] = a /\ \A i \in 1..Len(s) : u[i] = s[i]
        /\ Len(s) \in Nat /\ DOMAIN s = 1..Len(s)
    OBVIOUS
  <2>3. /\ t \in Seq(S) /\ Len(t) = Len(u) + 1 /\ t[Len(u) + 1] = b /\ \A i \in 1..Len(u) : t[i] = u[i]
        /\ DOMAIN t = 1..Len(t)
    BY <2>1
  <2>4. /\ Len(t) = Len(s) + 2 /\ t[Len(s) + 1] = a /\ t[Len(s) + 2] = b /\ \A i \in 1..Len(s) : t[i] = s[i]
        /\ DOMAIN t = 1..Len(s) + 2
    BY <2>2, <2>3
  <2>5. \A i \in DOMAIN t : i \in DOMAIN s \/ i = Len(s) + 1 \/ i = Len(s) + 2
    BY <2>2, <2>4
  <2>6. Grows(s, t)
    BY <2>2, <2>4 DEF Grows
  <2>7. \A i, j \in DOMAIN t : i \notin DOMAIN s /\ j \notin DOMAIN s /\ i < j => t[i] = a /\ t[j] = b
    BY <2>2, <2>4, <2>5
  <2> QED
    BY <2>1, <2>2, <2>3, <2>4, <2>5, <2>6, <2>7
<1> QED
  BY <1>3, <1>4, <1>5, <1>6

\* report_message's commit.
LEMMA CommitReportInv ==
  ASSUME IInv, NEW t \in Taps, CommitReport(t)
  PROVE  IInv'
<1> DEFINE ReportType == [msg : Msgs, since : Nat]
<1>1. /\ TypeOK /\ TapOK(t) /\ tap[t] \in TapType /\ tap \in [Taps -> TapType]
      /\ Len(reports) \in Nat /\ reports \in Seq(ReportType) /\ DOMAIN reports = 1..Len(reports)
      /\ Len(log) \in Nat /\ log \in Seq(RowType) /\ DOMAIN log = 1..Len(log)
      /\ msg \in [Msgs -> [score : Nat, deleted : BOOLEAN]]
      /\ link \in [Links -> [active : BOOLEAN, count : Nat]]
      /\ locked \in [Msgs -> Taps \cup {None}]
  BY Lengths DEF IInv, TypeOK
<1>2. tap[t].pc = "commit"
  BY DEF CommitReport, At
<1>3. MsgOf(t) \in Msgs /\ SawNoReport(t) /\ SawQueue(t) /\ SawLink(t)
  BY <1>1, <1>2 DEF TapOK, At
<1> PICK m \in Msgs : m = MsgOf(t)
  BY <1>3
<1> PICK l \in Links : l = LinkOf[m]
  BY ModerationConstants
<1> DEFINE rep == [msg |-> m, since |-> tap[t].sinceR]
           a == Row(OnMsg(m), "user_report", tap[t].sev, System, tap[t].sinceL)
           b == Row(OnLink(l), "disable_link", "L2", System, tap[t].sinceL)
           x == QueueRow(t)
           y == DisableRow(t)
<1>4. /\ reports' = Append(reports, rep)
      /\ log' = log \o x \o y
      /\ msg' = [msg EXCEPT ![m].score = tap[t].score + 1]
      /\ link' = [link EXCEPT ![l].count = tap[t].count + 1, ![l].active = @ /\ ~ Disables(t)]
      /\ locked' = [locked EXCEPT ![m] = None]
      /\ tap' = [tap EXCEPT ![t].pc = "count"]
      /\ UNCHANGED <<events, mod>>
  BY DEF CommitReport, Goto
<1>5. rep \in ReportType /\ rep.msg = m /\ rep.since = tap[t].sinceR
  BY <1>1 DEF TapType
<1>6. /\ a \in RowType /\ a.target = OnMsg(m) /\ a.action = "user_report" /\ a.by = System /\ a.since = tap[t].sinceL
      /\ b \in RowType /\ b.target = OnLink(l) /\ b.action = "disable_link" /\ b.by = System /\ b.since = tap[t].sinceL
  BY <1>1 DEF Row, RowType, Targets, Decisions, TapType
<1>0. /\ x \in {<<>>, <<a>>} /\ (x # <<>> <=> ~ tap[t].queued)
      /\ y \in {<<>>, <<b>>} /\ (y # <<>> <=> Disables(t))
  <2>1. <<a>> # <<>> /\ <<b>> # <<>>
    OBVIOUS
  <2> QED
    BY <2>1 DEF QueueRow, DisableRow
<1> HIDE DEF rep, a, b, x, y
<1>7. /\ log' \in Seq(RowType) /\ Grows(log, log')
      /\ \A i \in DOMAIN log' : \/ i \in DOMAIN log
                                \/ Len(log) < i /\ x # <<>> /\ log'[i] = a
                                \/ Len(log) < i /\ y # <<>> /\ log'[i] = b
      /\ \A i, j \in DOMAIN log' : i \notin DOMAIN log /\ j \notin DOMAIN log /\ i < j => log'[i] = a /\ log'[j] = b
      /\ x # <<>> => \E i \in DOMAIN log' : log'[i] = a
      /\ y # <<>> => \E i \in DOMAIN log' : log'[i] = b
  <2>1. log \in Seq(RowType) /\ a \in RowType /\ b \in RowType /\ log' = log \o x \o y
    BY <1>1, <1>4, <1>6
  <2>2. TwoRows(RowType, log, a, b, x, y, log')
    BY <1>0, <2>1, TwoAppended
  <2> QED
    BY <2>2 DEF TwoRows
<1>8. /\ reports' \in Seq(ReportType) /\ Grows(reports, reports') /\ Len(reports') = Len(reports) + 1
      /\ reports'[Len(reports) + 1] = rep /\ DOMAIN reports' = 1..Len(reports) + 1
  <2>1. reports \in Seq(ReportType) /\ rep \in ReportType /\ reports' = Append(reports, rep)
    BY <1>1, <1>4, <1>5
  <2> HIDE DEF ReportType
  <2>2. reports' \in Seq(ReportType) /\ Grows(reports, reports') /\ Len(reports') = Len(reports) + 1
        /\ reports'[Len(reports) + 1] = rep
    BY ONLY <2>1, AppendGrows
  <2> QED
    BY <2>2
<1>9. /\ tap' \in [Taps -> TapType] /\ tap'[t].pc = "count" /\ tap'[t].m = m
      /\ tap'[t].sinceR = tap[t].sinceR /\ tap'[t].sinceL = tap[t].sinceL
      /\ \A u \in Taps \ {t} : tap'[u] = tap[u]
  BY <1>1, <1>4 DEF TapType, MsgOf
<1>10. /\ link' \in [Links -> [active : BOOLEAN, count : Nat]]
       /\ link'[l].count = tap[t].count + 1
       /\ link'[l].active <=> link[l].active /\ ~ Disables(t)
       /\ \A k \in Links \ {l} : link'[k] = link[k]
  <2>1. tap[t].count + 1 \in Nat
    BY <1>1 DEF TapType
  <2> DEFINE on == link[l].active /\ ~ Disables(t)
  <2>2. on \in BOOLEAN /\ link' = [link EXCEPT ![l] = [link[l] EXCEPT !.count = tap[t].count + 1, !.active = on]]
    BY <1>1, <1>4
  <2>3. on <=> link[l].active /\ ~ Disables(t)
    OBVIOUS
  <2> HIDE DEF on
  <2> DEFINE r == [link[l] EXCEPT !.count = tap[t].count + 1, !.active = on]
  <2>4. r \in [active : BOOLEAN, count : Nat] /\ r.count = tap[t].count + 1 /\ r.active = on
    BY <1>1, <2>1, <2>2
  <2>5. link' = [link EXCEPT ![l] = r]
    BY <2>2
  <2> HIDE DEF r
  <2> QED
    BY <1>1, <2>3, <2>4, <2>5
<1>11. TypeOK'
  <2>1. msg' \in [Msgs -> [score : Nat, deleted : BOOLEAN]]
    <3>1. tap[t].score + 1 \in Nat
      BY <1>1 DEF TapType
    <3> QED
      BY <1>1, <1>4, <3>1
  <2>2. locked' \in [Msgs -> Taps \cup {None}]
    BY <1>1, <1>4
  <2> QED
    BY <1>1, <1>4, <1>7, <1>8, <1>9, <1>10, <2>1, <2>2 DEF TypeOK
<1>12. /\ \A i \in DOMAIN log : i \in DOMAIN log' /\ log'[i] = log[i]
       /\ \A i \in DOMAIN reports : i \in DOMAIN reports' /\ reports'[i] = reports[i]
       /\ \A i \in DOMAIN reports' : i \in DOMAIN reports \/ i = Len(reports) + 1
  BY <1>1, <1>7, <1>8, <1>11, TablesGrow
<1>13. TapOK(t)'
  <2>1. tap'[t].sinceR <= Len(reports') /\ tap'[t].sinceL <= Len(log')
    <3>1. /\ Len(log') \in Nat /\ Len(log) <= Len(log') /\ tap[t].sinceL \in Nat /\ tap[t].sinceL <= Len(log)
          /\ tap[t].sinceR \in Nat /\ tap[t].sinceR <= Len(reports)
      BY <1>1, <1>7 DEF Grows, TapOK, TapType
    <3> QED
      BY <1>1, <1>8, <1>9, <3>1
  <2>2. Len(reports) + 1 \in ReportsOf(m)'
    BY <1>1, <1>5, <1>8 DEF ReportsOf
  <2>3. MsgOf(t)' = m
    BY <1>9 DEF MsgOf
  <2>4. ReportsOf(MsgOf(t))' # {}
    BY <2>2, <2>3 DEF ReportsOf
  <2> QED
    BY <1>9, <2>1, <2>3, <2>4 DEF TapOK, At
<1>14. \A u \in Taps : TapOK(u)'
  BY <1>7, <1>8, <1>9, <1>11, <1>13, OtherTap
<1>15. \A d \in Mods : ModOK(d)'
  BY <1>4, <1>7, <1>8, <1>11, OtherMod
<1>16. DisabledIsOff'
  <2> SUFFICES ASSUME NEW k \in Links, NEW i \in DOMAIN log', log'[i].target = OnLink(k),
                      log'[i].action = "disable_link", link'[k].active
               PROVE  FALSE
    BY DEF DisabledIsOff, RowsOn
  <2>1. CASE i \in DOMAIN log
    <3>1. ~ link[k].active
      BY <1>12, <2>1 DEF IInv, DisabledIsOff, RowsOn
    <3> QED
      BY <1>10, <3>1
  <2>2. CASE log'[i] = a
    BY <1>6, <2>2
  <2>3. CASE Disables(t) /\ log'[i] = b
    BY <1>6, <1>10, <2>3, TargetKinds
  <2> QED
    BY <1>0, <1>7, <2>1, <2>2, <2>3
<1>17. DisabledIsAudited'
  <2> SUFFICES ASSUME NEW k \in Links, ~ link'[k].active
               PROVE  \E i \in DOMAIN log' : log'[i].action = "disable_link" /\ k \in LinksFor(log'[i].target)
    BY DEF DisabledIsAudited, LinksFor
  <2>1. CASE ~ link[k].active
    BY <1>12, <2>1 DEF IInv, DisabledIsAudited
  <2>2. CASE k = l /\ Disables(t)
    <3>1. l \in LinksFor(b.target)
      BY <1>6 DEF LinksFor
    <3> QED
      BY <1>0, <1>6, <1>7, <2>2, <3>1
  <2> QED
    BY <1>10, <2>1, <2>2
<1>18. CounterNeverAhead'
  <2>1. ASSUME NEW k \in Links \ {l}
        PROVE  link'[k].count <= Cardinality(ReportsOn(k)')
    <3>1. link[k].count <= Cardinality(ReportsOn(k)) /\ link[k].count \in Nat
      BY <1>1 DEF IInv, CounterNeverAhead
    <3>2. /\ Cardinality(ReportsOn(k)) \in Nat /\ Cardinality(ReportsOn(k)') \in Nat
          /\ Cardinality(ReportsOn(k)) <= Cardinality(ReportsOn(k)')
      BY <1>1, <1>7, <1>8, <1>11, CountGrows
    <3> QED
      BY <1>10, <3>1, <3>2
  <2>2. link'[l].count <= Cardinality(ReportsOn(l)')
    <3>1. ReportsOn(l)' = ReportsOn(l) \cup {Len(reports) + 1}
      BY <1>1, <1>5, <1>8, <1>12 DEF ReportsOn
    <3>2. Len(reports) + 1 \notin ReportsOn(l)
      BY <1>1 DEF ReportsOn
    <3>3. IsFiniteSet(ReportsOn(l)) /\ Cardinality(ReportsOn(l)) \in Nat
      BY <1>1, <1>7, <1>8, <1>11, CountGrows
    <3>4. Cardinality(ReportsOn(l)') = Cardinality(ReportsOn(l)) + 1
      BY <3>1, <3>2, <3>3, FS_AddElement
    <3>5. tap[t].count <= Cardinality(ReportsOn(l)) /\ tap[t].count \in Nat
      BY <1>1, <1>3 DEF SawLink, TapType
    <3> QED
      BY <1>10, <3>3, <3>4, <3>5
  <2> QED
    BY <2>1, <2>2 DEF CounterNeverAhead
<1>19. ReportHasRow'
  <2> SUFFICES ASSUME NEW i \in DOMAIN reports'
               PROVE  \E j \in DOMAIN log' : log'[j].target = OnMsg(reports'[i].msg) /\ log'[j].action = "user_report"
    BY DEF ReportHasRow, RowsOn
  <2>1. CASE i \in DOMAIN reports
    BY <1>12, <2>1 DEF IInv, ReportHasRow, RowsOn
  <2>2. CASE i = Len(reports) + 1 /\ ~ tap[t].queued
    BY <1>0, <1>5, <1>6, <1>7, <1>8, <2>2
  <2>3. CASE i = Len(reports) + 1 /\ tap[t].queued
    <3>1. \E j \in DOMAIN log : log[j].target = OnMsg(m) /\ log[j].action = "user_report"
      BY <1>3, <2>3 DEF SawQueue, RowsOn
    <3> QED
      BY <1>5, <1>8, <1>12, <2>3, <3>1
  <2> QED
    BY <1>12, <2>1, <2>2, <2>3
<1>20. EventHasReport'
  <2> SUFFICES ASSUME NEW k \in Msgs, events'[k] > 0 PROVE ReportsOf(k)' # {}
    BY DEF EventHasReport, ReportsOf
  <2>1. ReportsOf(k) # {}
    BY <1>4 DEF IInv, EventHasReport
  <2> QED
    BY <1>12, <2>1 DEF ReportsOf
<1>21. RepeatsOnlyOverlap'
  <2>1. ASSUME NEW i \in DOMAIN log', NEW j \in DOMAIN log', j \notin DOMAIN log, i < j,
               SameItem(log'[i], log'[j])
        PROVE  log'[j].since < i
    <3>1. CASE i \in DOMAIN log /\ ~ tap[t].queued /\ log'[j] = a
      <4>1. i \in RowsOn(OnMsg(m)) /\ log[i].action = "user_report"
        BY <1>6, <1>12, <2>1, <3>1 DEF SameItem, RowsOn, IsHuman
      <4> QED
        BY <1>3, <1>6, <3>1, <4>1 DEF SawQueue
    <3>2. CASE i \in DOMAIN log /\ Disables(t) /\ log'[j] = b
      <4>1. i \in RowsOn(OnLink(l)) /\ log[i].action = "disable_link"
        BY <1>6, <1>12, <2>1, <3>2 DEF SameItem, RowsOn, IsHuman
      <4> QED
        BY <1>3, <1>6, <3>2, <4>1 DEF SawLink, Disables
    <3>3. CASE i \notin DOMAIN log
      <4>1. log'[i].target = OnMsg(m) /\ log'[j].target = OnLink(l)
        BY <1>6, <1>7, <2>1, <3>3
      <4> QED
        BY <2>1, <4>1, TargetKinds DEF SameItem
    <3> QED
      BY <1>0, <1>7, <2>1, <3>1, <3>2, <3>3
  <2>2. ASSUME NEW i \in DOMAIN reports', NEW j \in DOMAIN reports', j \notin DOMAIN reports, i < j,
               reports'[i].msg = reports'[j].msg
        PROVE  reports'[j].since < i
    <3>1. j = Len(reports) + 1 /\ i \in DOMAIN reports
      BY <1>1, <1>8, <2>2
    <3>2. i \in ReportsOf(m)
      BY <1>5, <1>8, <1>12, <2>2, <3>1 DEF ReportsOf
    <3> QED
      BY <1>3, <1>5, <1>8, <3>1, <3>2 DEF SawNoReport
  <2> QED
    BY <1>7, <1>8, <1>11, <2>1, <2>2, RepeatsKept
<1> QED
  BY <1>11, <1>14, <1>15, <1>16, <1>17, <1>18, <1>19, <1>20, <1>21 DEF IInv

-----------------------------------------------------------------------------
(* Every step                                                              *)

\* The recipient's delete, and the death of the bot process.
LEMMA OutsideInv ==
  ASSUME IInv, (\E m \in Msgs : Delete(m)) \/ Crash
  PROVE  IInv'
<1>1. TypeOK /\ Len(log) \in Nat /\ Len(reports) \in Nat
  BY Lengths DEF IInv
<1>2. ASSUME NEW m \in Msgs, Delete(m)
      PROVE  IInv'
  <2>1. UNCHANGED <<link, reports, log, events, locked, tap, mod>>
    BY <1>2 DEF Delete
  <2>2. msg' \in [Msgs -> [score : Nat, deleted : BOOLEAN]]
    BY <1>1, <1>2 DEF Delete, TypeOK
  <2>3. TypeOK'
    BY <1>1, <2>1, <2>2 DEF TypeOK
  <2> QED
    BY <2>1, <2>3, TablesKept, OtherTap, OtherMod DEF IInv
<1>3. CASE Crash
  <2>1. /\ UNCHANGED <<msg, link, reports, log, events>>
        /\ tap' = [t \in Taps |-> IdleTap] /\ mod' = [d \in Mods |-> IdleMod]
        /\ locked' = [m \in Msgs |-> None]
    BY <1>3 DEF Crash
  <2>2. /\ IdleTap \in TapType /\ IdleTap.pc = "idle" /\ IdleTap.sinceR = 0 /\ IdleTap.sinceL = 0
        /\ IdleMod \in [pc : {"idle", "existing", "decide"}, row : Nat, decision : Decisions, since : Nat]
        /\ IdleMod.pc = "idle" /\ IdleMod.since = 0
    BY DEF IdleTap, TapType, IdleMod, Decisions
  <2>3. TypeOK'
    BY <1>1, <2>1, <2>2 DEF TypeOK
  <2>4. \A t \in Taps : TapOK(t)'
    BY <1>1, <2>1, <2>2 DEF TapOK, At
  <2>5. \A d \in Mods : ModOK(d)'
    BY <1>1, <2>1, <2>2 DEF ModOK
  <2> QED
    BY <2>1, <2>3, <2>4, <2>5, TablesKept DEF IInv
<1> QED
  BY <1>2, <1>3

LEMMA IInvStep ==
  ASSUME IInv, [Next]_vars
  PROVE  IInv'
<1>1. ASSUME NEW t \in Taps,
             (\E m \in Msgs, sev \in ReportSeverities : BeginReport(t, m, sev)) \/ ReportStep(t)
      PROVE  IInv'
  BY <1>1, TapReads, TrackReportInv, EscalationInv, CommitReportInv DEF ReportStep
<1>2. ASSUME NEW d \in Mods,
             \/ \E i \in DOMAIN log, decision \in Decisions : BeginDecision(d, i, decision)
             \/ LookExisting(d) \/ CommitDecision(d)
      PROVE  IInv'
  BY <1>2, ModReads, DecisionInv
<1>3. ASSUME NEW m \in Msgs, \E sev \in FlagSeverities : AutoFlag(m, sev)
      PROVE  IInv'
  BY <1>3, AutoFlagInv
<1>4. CASE (\E m \in Msgs : Delete(m)) \/ Crash
  BY <1>4, OutsideInv
<1>5. CASE UNCHANGED vars
  <2>1. UNCHANGED <<msg, link, reports, log, events, locked, tap, mod>>
    BY <1>5 DEF vars
  <2>2. TypeOK'
    BY <2>1 DEF IInv, TypeOK
  <2> QED
    BY <2>1, <2>2, TablesKept, OtherTap, OtherMod DEF IInv
<1> QED
  BY <1>1, <1>2, <1>3, <1>4, <1>5 DEF Next

\* The invariant the others follow from holds in every reachable state.
THEOREM Invariance == Spec => []IInv
<1>1. IInv /\ [Next]_vars => IInv'
  BY IInvStep
<1> QED
  BY InitIInv, <1>1, PTL DEF Spec

\* Every variable keeps its type.
THEOREM TypeInvariant == Spec => []TypeOK
<1>1. IInv => TypeOK
  BY DEF IInv
<1> QED
  BY Invariance, <1>1, PTL

\* Two reports of a message, two queue rows, two decisions, two escalations or two
\* auto-disables are there only when the updates that wrote them overlap.
THEOREM RepeatsAreOverlaps == Spec => []RepeatsOnlyOverlap
<1>1. IInv => RepeatsOnlyOverlap
  BY DEF IInv
<1> QED
  BY Invariance, <1>1, PTL

\* report_count is never more than the reports there are: no link is auto-disabled
\* on fewer than the threshold.
THEOREM CounterIsSafe == Spec => []CounterNeverAhead
<1>1. IInv => CounterNeverAhead
  BY DEF IInv
<1> QED
  BY Invariance, <1>1, PTL

\* Whoever turns a link off leaves a row of the audit log.
THEOREM DisablingLeavesARow == Spec => []DisabledIsAudited
<1>1. IInv => DisabledIsAudited
  BY DEF IInv
<1> QED
  BY Invariance, <1>1, PTL

\* No report of a message is missing from what moderation_queue selects, unless and
\* until a moderator has decided on that message.
THEOREM ReportsAreOpen == Spec => []ReportIsQueued
<1>1. ASSUME IInv PROVE ReportIsQueued
  <2> SUFFICES ASSUME NEW i \in DOMAIN reports, HumanOn(OnMsg(reports[i].msg)) = {}
               PROVE  \E j \in OpenRows : /\ log[j].target = OnMsg(reports[i].msg)
                                         /\ log[j].action = "user_report"
    BY DEF ReportIsQueued
  <2>1. PICK j \in RowsOn(OnMsg(reports[i].msg)) : log[j].action = "user_report"
    BY <1>1 DEF IInv, ReportHasRow
  <2>2. j \in DOMAIN log /\ log[j].target = OnMsg(reports[i].msg)
    BY DEF RowsOn
  <2>3. log[j] \in RowType
    BY <1>1, <2>2, Lengths DEF IInv, TypeOK
  <2>4. ~ IsHuman(log[j])
    BY <2>1, <2>3 DEF RowType, Decisions, IsHuman
  <2>5. j \in OpenRows
    BY <2>2, <2>4 DEF OpenRows
  <2> QED
    BY <2>1, <2>2, <2>5
<1> QED
  BY Invariance, <1>1, PTL

\* No report_created event is without a report.
THEOREM EventsHaveReports == Spec => []EventHasReport
<1>1. IInv => EventHasReport
  BY DEF IInv
<1> QED
  BY Invariance, <1>1, PTL

\* moderation_queue's ORDER BY comes before its LIMIT: an open L3 row that is not
\* on the page has at least PageSize rows before it, and they are L3 rows too.
THEOREM L3IsSeen == Spec => []L3NotCrowdedOut
<1>1. ASSUME IInv PROVE L3NotCrowdedOut
  <2> SUFFICES ASSUME NEW i \in OpenRows, log[i].sev = "L3", i \notin Page(PageSize),
                      NEW j \in Page(PageSize), log[j].sev # "L3"
               PROVE  FALSE
    BY DEF L3NotCrowdedOut
  <2> DEFINE Ahead(k) == {n \in OpenRows : Before(n, k)}
  <2>0. TypeOK
    BY <1>1 DEF IInv
  <2>1. /\ log \in Seq(RowType) /\ OpenRows \subseteq DOMAIN log
        /\ DOMAIN log = 1..Len(log) /\ Len(log) \in Nat
    BY <2>0, Lengths DEF TypeOK, OpenRows
  <2>2. \A k : IsFiniteSet(Ahead(k)) /\ Cardinality(Ahead(k)) \in Nat
    <3>1. IsFiniteSet(1..Len(log))
      BY <2>1, FS_Interval
    <3>2. \A k : Ahead(k) \subseteq 1..Len(log)
      BY <2>1
    <3> QED
      BY <3>1, <3>2, FS_Subset, FS_CardinalityType
  <2>3. Cardinality(Ahead(j)) < PageSize /\ ~ (Cardinality(Ahead(i)) < PageSize) /\ j \in OpenRows
    BY DEF Page
  <2>4. Rank("L3") = 0 /\ Rank("L2") = 1 /\ Rank("L1") = 2
    BY DEF Rank
  <2>5. \A n \in OpenRows : log[n].sev \in {"L1", "L2", "L3"}
    <3>1. \A n \in OpenRows : log[n] \in RowType
      BY <2>1
    <3> QED
      BY <3>1 DEF RowType
  <2>6. Ahead(i) \subseteq Ahead(j)
    <3> SUFFICES ASSUME NEW n \in OpenRows, Before(n, i) PROVE Before(n, j)
      OBVIOUS
    <3>1. log[n].sev = "L3"
      BY <2>4, <2>5 DEF Before
    <3> QED
      BY <2>3, <2>4, <2>5, <3>1 DEF Before
  <2>7. Cardinality(Ahead(i)) <= Cardinality(Ahead(j))
    BY <2>2, <2>6, FS_Subset
  <2> QED
    BY <2>2, <2>3, <2>7, ModerationConstants
<1> QED
  BY Invariance, <1>1, PTL

\* No step - a report's commit with its stale copy of the row least of all - takes
\* deleted_at back.
THEOREM DeletionIsFinal == Spec => DeletedStaysDeleted
<1>1. ASSUME IInv, [Next]_vars
      PROVE  \A m \in Msgs : msg[m].deleted => msg'[m].deleted
  <2>1. msg \in [Msgs -> [score : Nat, deleted : BOOLEAN]]
    BY <1>1 DEF IInv, TypeOK
  <2>2. \/ UNCHANGED msg
        \/ \E m \in Msgs : Delete(m) \/ \E sev \in FlagSeverities : AutoFlag(m, sev)
        \/ \E t \in Taps : CommitReport(t)
    <3>1. ASSUME NEW t \in Taps,
                 (\E m \in Msgs, sev \in ReportSeverities : BeginReport(t, m, sev)) \/ ReportStep(t)
          PROVE  UNCHANGED msg \/ CommitReport(t)
      BY <3>1 DEF BeginReport, ReportStep, LoadMessage, LookAlready, LookPrior, LookQueued, FlushMessage,
                  ReadLink, CountReports, LookEscalated, CommitEscalation, TrackReport, NoWrite
    <3>2. ASSUME NEW d \in Mods,
                 \/ \E i \in DOMAIN log, decision \in Decisions : BeginDecision(d, i, decision)
                 \/ LookExisting(d) \/ CommitDecision(d)
          PROVE  UNCHANGED msg
      BY <3>2 DEF BeginDecision, LookExisting, CommitDecision
    <3>3. Crash \/ UNCHANGED vars => UNCHANGED msg
      BY DEF Crash, vars
    <3> QED
      BY <1>1, <3>1, <3>2, <3>3 DEF Next
  <2>3. ASSUME NEW m \in Msgs, Delete(m) \/ \E sev \in FlagSeverities : AutoFlag(m, sev)
        PROVE  \A k \in Msgs : msg[k].deleted => msg'[k].deleted
    BY <2>1, <2>3 DEF Delete, AutoFlag
  <2>4. ASSUME NEW t \in Taps, CommitReport(t)
        PROVE  \A k \in Msgs : msg[k].deleted => msg'[k].deleted
    BY <2>1, <2>4 DEF CommitReport
  <2> QED
    BY <2>2, <2>3, <2>4
<1>2. IInv /\ [Next]_vars => [\A m \in Msgs : msg[m].deleted => msg'[m].deleted]_vars
  BY <1>1
<1> QED
  BY Invariance, <1>2, PTL DEF Spec, DeletedStaysDeleted
=============================================================================
