-------------------------- MODULE Settings_proofs --------------------------
(***************************************************************************)
(* The safety properties of Settings.tla, for any number of updates in     *)
(* flight, any lines, names and changes.                                   *)
(***************************************************************************)
EXTENDS Settings, TLAPS, FiniteSetTheorems

-----------------------------------------------------------------------------
(* Rows, requests and the log                                              *)

LEMMA RowFields ==
  ASSUME NEW r \in RowType, NEW f \in Fields
  PROVE  r[f] \in ValuesOf(f)
BY DEF RowType, Fields, ValuesOf

\* One field is set, the others stay.
LEMMA FieldSet ==
  ASSUME NEW r \in RowType, NEW f \in Fields, NEW v \in ValuesOf(f)
  PROVE  /\ [r EXCEPT ![f] = v] \in RowType
         /\ [r EXCEPT ![f] = v][f] = v
         /\ \A g \in Fields \ {f} : [r EXCEPT ![f] = v][g] = r[g]
<1>1. CASE f = "paused"
  BY <1>1 DEF RowType, Fields, ValuesOf
<1>2. CASE f = "prompt"
  BY <1>2 DEF RowType, Fields, ValuesOf
<1>3. CASE f = "name"
  BY <1>3 DEF RowType, Fields, ValuesOf
<1>4. CASE f = "lang"
  BY <1>4 DEF RowType, Fields, ValuesOf
<1> QED
  BY <1>1, <1>2, <1>3, <1>4 DEF Fields

\* What the update of a settings field writes: its copy, but for the language.
LEMMA WrittenIs ==
  ASSUME IInv, NEW c \in Calls, NEW f \in Fields, NEW v \in ValuesOf(f)
  PROVE  /\ Written(c, f, v) \in RowType
         /\ Written(c, f, v)[f] = v
         /\ f = "lang" => \A g \in InSettings : Written(c, f, v)[g] = row[g]
         /\ f # "lang" => /\ Written(c, f, v).lang = row.lang
                          /\ \A g \in InSettings \ {f} : Written(c, f, v)[g] = call[c].copy[g]
<1>1. row \in RowType /\ call[c].copy \in RowType
  BY DEF IInv, TypeOK, CallType
<1>2. CASE f = "lang"
  <2>1. Written(c, f, v) = [row EXCEPT !["lang"] = v]
    BY <1>1, <1>2 DEF Written, RowType
  <2>2. "lang" \in Fields /\ \A g \in InSettings : g \in Fields \ {"lang"}
    BY DEF Fields, InSettings
  <2>3. /\ [row EXCEPT !["lang"] = v] \in RowType /\ [row EXCEPT !["lang"] = v]["lang"] = v
        /\ \A g \in Fields \ {"lang"} : [row EXCEPT !["lang"] = v][g] = row[g]
    BY <1>1, <1>2, <2>2, FieldSet
  <2> QED
    BY <1>2, <2>1, <2>2, <2>3
<1>3. CASE f # "lang"
  <2> PICK r \in RowType : r = [call[c].copy EXCEPT ![f] = v]
    BY <1>1, FieldSet
  <2>1. r[f] = v /\ \A g \in Fields \ {f} : r[g] = call[c].copy[g]
    BY <1>1, FieldSet
  <2>2. Written(c, f, v) = [r EXCEPT !["lang"] = row.lang]
    BY <1>1, <1>3, <2>1 DEF Written, RowType, Fields
  <2>3. row.lang \in ValuesOf("lang") /\ "lang" \in Fields
    BY <1>1 DEF RowType, ValuesOf, Fields
  <2>4. \A g \in InSettings : g \in Fields \ {"lang"}
    BY DEF Fields, InSettings
  <2> PICK w \in RowType : w = [r EXCEPT !["lang"] = row.lang]
    BY <2>3, FieldSet
  <2>5. w["lang"] = row.lang /\ \A g \in Fields \ {"lang"} : w[g] = r[g]
    BY DEF RowType, Fields
  <2>6. w.lang = w["lang"]
    BY DEF RowType
  <2> QED
    BY <1>3, <2>1, <2>2, <2>4, <2>5, <2>6
<1> QED
  BY <1>2, <1>3

LEMMA RequestKinds ==
  ASSUME NEW r \in Requests
  PROVE  /\ r.op \in {"open", "set", "start"}
         /\ r.op = "set" => r.field \in {"paused", "prompt", "lang"}
         /\ r.op = "set" /\ r.value # BadKey => r.value \in ValuesOf(r.field)
         /\ r.op = "start" => r.value \in ValuesOf("name")
         /\ r.reason \in ValuesOf("prompt")
<1>1. CASE r = [op |-> "open", field |-> "lang", value |-> "uz", reason |-> NoPrompt]
  BY <1>1 DEF ValuesOf
<1>2. ASSUME NEW b \in BOOLEAN, r = [op |-> "set", field |-> "paused", value |-> b, reason |-> NoPrompt]
      PROVE  r.op = "set" /\ r.field = "paused" /\ r.value \in ValuesOf("paused")
  BY <1>2 DEF ValuesOf
<1>3. ASSUME NEW k \in Prompts \cup {NoPrompt, BadKey},
             r = [op |-> "set", field |-> "prompt", value |-> k, reason |-> NoPrompt]
      PROVE  r.op = "set" /\ r.field = "prompt" /\ (r.value # BadKey => r.value \in ValuesOf("prompt"))
  BY <1>3 DEF ValuesOf
<1>4. ASSUME NEW l \in Langs, r = [op |-> "set", field |-> "lang", value |-> l, reason |-> NoPrompt]
      PROVE  r.op = "set" /\ r.field = "lang" /\ r.value \in ValuesOf("lang")
  BY <1>4 DEF ValuesOf
<1>5. ASSUME NEW n \in Names, NEW q \in Reasons \cup {NoPrompt},
             r = [op |-> "start", field |-> "name", value |-> n, reason |-> q]
      PROVE  r.op = "start" /\ r.value \in ValuesOf("name") /\ r.reason \in ValuesOf("prompt")
  BY <1>5, SettingsConstants DEF ValuesOf
<1>6. NoPrompt \in ValuesOf("prompt")
  BY DEF ValuesOf
<1> QED
  BY <1>1, <1>2, <1>3, <1>4, <1>5, <1>6 DEF Requests

LEMMA IdleIs ==
  /\ IdleCall \in CallType /\ IdleCall.pc = "idle" /\ IdleCall.since = 0 /\ IdleCall.began = 0
  /\ IdleCall.new = FALSE
<1>1. [op |-> "open", field |-> "lang", value |-> "uz", reason |-> NoPrompt] \in Requests
  BY DEF Requests
<1>2. (CHOOSE r \in Requests : r.op = "open") \in Requests
  BY <1>1
<1>3. FreshRow("uz") \in RowType
  BY DEF FreshRow, RowType, Langs
<1> QED
  BY <1>2, <1>3 DEF IdleCall, CallType

\* A row is appended to the log.
LEMMA LogAppended ==
  ASSUME NEW S, NEW s \in Seq(S), NEW x \in S
  PROVE  /\ Append(s, x) \in Seq(S) /\ Len(Append(s, x)) = Len(s) + 1 /\ Append(s, x)[Len(s) + 1] = x
         /\ \A i \in 1..Len(s) : Append(s, x)[i] = s[i]
         /\ Len(s) \in Nat /\ DOMAIN s = 1..Len(s) /\ DOMAIN Append(s, x) = 1..Len(s) + 1
OBVIOUS

\* The sets that are counted are finite.
LEMMA Counted ==
  ASSUME TypeOK, NEW f \in Tracked
  PROVE  /\ IsFiniteSet(TracksOf(f)) /\ Cardinality(TracksOf(f)) \in Nat
         /\ IsFiniteSet(SetsOf(f)) /\ Cardinality(SetsOf(f)) \in Nat
         /\ Len(log) \in Nat /\ DOMAIN log = 1..Len(log) /\ events[f] \in Nat
<1>1. Len(log) \in Nat /\ DOMAIN log = 1..Len(log) /\ events[f] \in Nat
  <2>1. log \in Seq(LogType)
    BY DEF TypeOK
  <2> QED
    BY <2>1 DEF TypeOK
<1>2. TracksOf(f) \subseteq Calls /\ SetsOf(f) \subseteq 1..Len(log)
  BY <1>1 DEF TracksOf, SetsOf, CommitsOf
<1>3. IsFiniteSet(Calls) /\ IsFiniteSet(1..Len(log))
  BY <1>1, SettingsConstants, FS_Interval
<1> QED
  BY <1>1, <1>2, <1>3, FS_Subset, FS_CardinalityType

LEMMA InitIInv == Init => IInv
<1> SUFFICES ASSUME Init PROVE IInv
  OBVIOUS
<1>1. TypeOK
  <2>1. row \in RowType /\ exists \in BOOLEAN
    BY DEF Init, FreshRow, RowType, Langs
  <2>2. log \in Seq(LogType) /\ events \in [Tracked -> Nat] /\ call \in [Calls -> CallType]
    BY IdleIs DEF Init
  <2> QED
    BY <2>1, <2>2 DEF TypeOK
<1>2. log = <<>> /\ DOMAIN log = {} /\ Len(log) = 0
  BY DEF Init
<1>3. RowOK /\ LogOK /\ ReasonSparesChoices
  BY <1>2 DEF RowOK, HasLast, LogOK, ReasonSparesChoices, CommitsOf
<1>4. \A c \in Calls : CallOK(c)
  BY <1>2, IdleIs DEF Init, CallOK, At
<1>5. EventsCounted
  <2> SUFFICES ASSUME NEW f \in Tracked
               PROVE  events[f] + Cardinality(TracksOf(f)) <= Cardinality(SetsOf(f))
    BY DEF EventsCounted
  <2>1. TracksOf(f) = {} /\ SetsOf(f) = {} /\ events[f] = 0
    BY <1>2, IdleIs DEF Init, TracksOf, At, SetsOf, CommitsOf
  <2> QED
    BY <2>1, FS_EmptySet
<1> QED
  BY <1>1, <1>2, <1>3, <1>4, <1>5 DEF IInv

-----------------------------------------------------------------------------
(* Steps that change nothing that is stored                                *)

\* An update reads, and goes on.
LEMMA QuietCall ==
  ASSUME IInv, NEW c \in Calls, NEW r \in CallType, call' = [call EXCEPT ![c] = r],
         r.pc # "track", CallOK(c)', UNCHANGED <<exists, row, log, events>>
  PROVE  IInv'
<1>1. TypeOK /\ call \in [Calls -> CallType]
  BY DEF IInv, TypeOK
<1>2. TypeOK'
  BY <1>1 DEF TypeOK
<1>3. call'[c] = r /\ \A d \in Calls \ {c} : call'[d] = call[d]
  BY <1>1
<1>4. \A d \in Calls : CallOK(d)'
  <2>1. \A d \in Calls \ {c} : CallOK(d)'
    BY <1>3 DEF IInv, CallOK, At, Req, HasLast
  <2> QED
    BY <2>1
<1>5. EventsCounted'
  <2> SUFFICES ASSUME NEW f \in Tracked
               PROVE  events'[f] + Cardinality(TracksOf(f)') <= Cardinality(SetsOf(f)')
    BY DEF EventsCounted
  <2>1. TracksOf(f)' \subseteq TracksOf(f) /\ SetsOf(f)' = SetsOf(f)
    BY <1>3 DEF TracksOf, SetsOf, CommitsOf, At, Req
  <2>2. IsFiniteSet(TracksOf(f)) /\ Cardinality(TracksOf(f)) \in Nat /\ Cardinality(SetsOf(f)) \in Nat /\ events[f] \in Nat
    BY <1>1, Counted
  <2>3. Cardinality(TracksOf(f)') <= Cardinality(TracksOf(f)) /\ Cardinality(TracksOf(f)') \in Nat
    BY <2>1, <2>2, FS_Subset, FS_CardinalityType
  <2>4. events[f] + Cardinality(TracksOf(f)) <= Cardinality(SetsOf(f))
    BY DEF IInv, EventsCounted
  <2> QED
    BY <2>1, <2>2, <2>3, <2>4
<1>6. RowOK' /\ LogOK' /\ ReasonSparesChoices'
  BY DEF IInv, RowOK, HasLast, LogOK, ReasonSparesChoices, CommitsOf, IsLast
<1> QED
  BY <1>2, <1>4, <1>5, <1>6 DEF IInv

\* The update is over, or goes on at a place where it has no copy yet.
LEMMA GoesOn ==
  ASSUME IInv, NEW c \in Calls, NEW r \in CallType, call' = [call EXCEPT ![c] = r],
         \/ r = IdleCall
         \/ /\ r.pc \in {"look", "get", "insert"} /\ r.since <= Len(log) /\ r.began <= Len(log)
            /\ r.new => r.began = 0,
         UNCHANGED <<exists, row, log, events>>
  PROVE  IInv'
<1>1. call'[c] = r /\ Len(log) \in Nat
  <2>1. call \in [Calls -> CallType] /\ log \in Seq(LogType)
    BY DEF IInv, TypeOK
  <2> QED
    BY <2>1
<1>2. r.pc \in {"idle", "look", "get", "insert"} /\ r.since <= Len(log) /\ r.began <= Len(log)
      /\ (r.new => r.began = 0)
  BY <1>1, IdleIs
<1>3. CallOK(c)'
  BY <1>1, <1>2 DEF CallOK, At
<1> QED
  BY <1>2, <1>3, QuietCall

\* The session loads the row that is there.
LEMMA LoadInv ==
  ASSUME IInv, NEW c \in Calls, exists, NEW new \in BOOLEAN, new => call[c].began = 0,
         call' = [call EXCEPT ![c] = [call[c] EXCEPT !.pc = "change", !.copy = row, !.since = Len(log), !.new = new]],
         UNCHANGED <<exists, row, log, events>>
  PROVE  IInv'
<1>1. /\ TypeOK /\ call \in [Calls -> CallType] /\ call[c] \in CallType /\ row \in RowType
      /\ log \in Seq(LogType) /\ CallOK(c) /\ RowOK
  BY DEF IInv, TypeOK
<1>2. Len(log) \in Nat
  BY <1>1
<1> DEFINE r == [call[c] EXCEPT !.pc = "change", !.copy = row, !.since = Len(log), !.new = new]
<1>3. /\ r \in CallType /\ r.pc = "change" /\ r.copy = row /\ r.since = Len(log) /\ r.new = new
      /\ r.began = call[c].began
  BY <1>1, <1>2 DEF CallType
<1>4. call' = [call EXCEPT ![c] = r] /\ call'[c] = r
  BY <1>1
<1> HIDE DEF r
<1>5. CallOK(c)'
  BY <1>1, <1>2, <1>3, <1>4 DEF CallOK, At, RowOK, HasLast
<1> QED
  BY <1>3, <1>4, <1>5, QuietCall

\* Every step before a change, and the steps that change nothing.
LEMMA ReadsInv ==
  ASSUME IInv, NEW c \in Calls,
         \/ \E r \in Requests : Begin(c, r)
         \/ LookExisting(c) \/ GetUser(c) \/ ShowScreen(c)
  PROVE  IInv'
<1>1. /\ call \in [Calls -> CallType] /\ call[c] \in CallType /\ log \in Seq(LogType) /\ CallOK(c) /\ RowOK
  BY DEF IInv, TypeOK
<1>2. Len(log) \in Nat
  BY <1>1
<1>3. UNCHANGED <<exists, row, log, events>>
  BY DEF Begin, LookExisting, GetUser, ShowScreen, NoWrite
<1>4. ASSUME NEW q \in Requests, Begin(c, q)
      PROVE  IInv'
  <2> DEFINE r == [IdleCall EXCEPT !.pc = IF q.op = "start" THEN "look" ELSE "get", !.req = q, !.began = Len(log)]
  <2>1. r \in CallType /\ r.pc \in {"look", "get"} /\ r.since = 0 /\ r.began = Len(log) /\ r.new = FALSE
    BY <1>2, IdleIs DEF CallType
  <2>2. call' = [call EXCEPT ![c] = r]
    BY <1>4 DEF Begin
  <2> HIDE DEF r
  <2>3. r.since <= Len(log) /\ r.began <= Len(log) /\ (r.new => r.began = 0)
    BY <1>2, <2>1
  <2> QED
    BY <1>3, <2>1, <2>2, <2>3, GoesOn
<1>5. CASE LookExisting(c)
  <2>1. CASE exists
    <3>1. call' = [call EXCEPT ![c].pc = "change", ![c].copy = row, ![c].since = Len(log)]
      BY <1>5, <2>1 DEF LookExisting, Load
    <3>2. call' = [call EXCEPT ![c] = [call[c] EXCEPT !.pc = "change", !.copy = row, !.since = Len(log), !.new = call[c].new]]
      BY <1>1, <3>1 DEF CallType
    <3> QED
      BY <1>1, <1>3, <2>1, <3>2, LoadInv DEF CallType, CallOK
  <2>2. CASE ~ exists
    <3> DEFINE r == [call[c] EXCEPT !.pc = "get", !.new = TRUE]
    <3>1. r \in CallType /\ r.pc = "get" /\ r.since = call[c].since /\ r.began = call[c].began
      BY <1>1 DEF CallType
    <3>2. call' = [call EXCEPT ![c] = r]
      BY <1>5, <2>2 DEF LookExisting
    <3>3. call[c].began = 0 /\ call[c].since = 0
      <4>1. Len(log) = 0
        BY <1>1, <2>2 DEF RowOK
      <4>2. call[c].began \in Nat /\ call[c].since \in Nat /\ call[c].began <= Len(log) /\ call[c].since <= Len(log)
        BY <1>1 DEF CallOK, CallType
      <4> QED
        BY <4>1, <4>2
    <3> HIDE DEF r
    <3>4. r.since <= Len(log) /\ r.began <= Len(log) /\ (r.new => r.began = 0)
      BY <1>2, <3>1, <3>3
    <3> QED
      BY <1>3, <3>1, <3>2, <3>4, GoesOn
  <2> QED
    BY <2>1, <2>2
<1>6. CASE GetUser(c)
  <2>1. CASE exists
    <3>1. call' = [call EXCEPT ![c].pc = "change", ![c].copy = row, ![c].since = Len(log)]
      BY <1>6, <2>1 DEF GetUser, Load
    <3>2. call' = [call EXCEPT ![c] = [call[c] EXCEPT !.pc = "change", !.copy = row, !.since = Len(log), !.new = call[c].new]]
      BY <1>1, <3>1 DEF CallType
    <3> QED
      BY <1>1, <1>3, <2>1, <3>2, LoadInv DEF CallType, CallOK
  <2>2. CASE ~ exists
    <3> DEFINE r == [call[c] EXCEPT !.pc = "insert"]
    <3>1. r \in CallType /\ r.pc = "insert" /\ r.since = call[c].since /\ r.began = call[c].began /\ r.new = call[c].new
      BY <1>1 DEF CallType
    <3>2. call' = [call EXCEPT ![c] = r]
      BY <1>6, <2>2 DEF GetUser, Goto
    <3> HIDE DEF r
    <3> QED
      BY <1>1, <1>3, <3>1, <3>2, GoesOn DEF CallOK
  <2> QED
    BY <2>1, <2>2
<1>7. CASE ShowScreen(c)
  <2>1. call' = [call EXCEPT ![c] = IdleCall]
    BY <1>7 DEF ShowScreen, Goto
  <2> QED
    BY <1>3, <2>1, IdleIs, GoesOn
<1> QED
  BY <1>4, <1>5, <1>6, <1>7

\* get_or_create_user's INSERT, or the row of the update that was faster.
LEMMA InsertInv ==
  ASSUME IInv, NEW c \in Calls, InsertUser(c)
  PROVE  IInv'
<1>1. /\ TypeOK /\ call \in [Calls -> CallType] /\ call[c] \in CallType /\ log \in Seq(LogType) /\ CallOK(c) /\ RowOK
  BY DEF IInv, TypeOK
<1>2. CASE exists
  <2>1. call' = [call EXCEPT ![c].pc = "change", ![c].copy = row, ![c].since = Len(log)]
        /\ UNCHANGED <<exists, row, log, events>>
    BY <1>2 DEF InsertUser, Load, NoWrite
  <2>2. call' = [call EXCEPT ![c] = [call[c] EXCEPT !.pc = "change", !.copy = row, !.since = Len(log), !.new = call[c].new]]
    BY <1>1, <2>1 DEF CallType
  <2> QED
    BY <1>1, <1>2, <2>1, <2>2, LoadInv DEF CallType, CallOK
<1>3. CASE ~ exists
  <2>1. PICK lang \in Langs :
          /\ exists' = TRUE /\ row' = FreshRow(lang) /\ UNCHANGED <<log, events>>
          /\ call' = [call EXCEPT ![c].pc = "change", ![c].copy = FreshRow(lang), ![c].since = Len(log)]
    BY <1>3 DEF InsertUser
  <2>2. log = <<>> /\ Len(log) = 0 /\ DOMAIN log = {}
    BY <1>1, <1>3 DEF RowOK
  <2>3. row' \in RowType
    BY <2>1 DEF FreshRow, RowType
  <2>4. /\ call' \in [Calls -> CallType]
        /\ call'[c].pc = "change" /\ call'[c].copy = row' /\ call'[c].since = 0
        /\ call'[c].began = call[c].began /\ call'[c].new = call[c].new
        /\ \A d \in Calls \ {c} : call'[d] = call[d]
    <3> DEFINE r == [call[c] EXCEPT !.pc = "change", !.copy = FreshRow(lang), !.since = Len(log)]
    <3>1. call' = [call EXCEPT ![c] = r]
      BY <2>1
    <3>2. /\ r \in CallType /\ r.pc = "change" /\ r.copy = row' /\ r.since = 0
          /\ r.began = call[c].began /\ r.new = call[c].new
      BY <1>1, <2>1, <2>2, <2>3 DEF CallType
    <3> HIDE DEF r
    <3> QED
      BY <1>1, <3>1, <3>2
  <2>5. TypeOK'
    BY <1>1, <2>1, <2>3, <2>4 DEF TypeOK
  <2>6. RowOK' /\ LogOK' /\ ReasonSparesChoices' /\ (\A i \in DOMAIN log : ~ log[i].real => log[i].since < i - 1)'
    BY <2>1, <2>2 DEF RowOK, HasLast, LogOK, ReasonSparesChoices, CommitsOf
  <2>7. CallOK(c)'
    BY <1>1, <2>1, <2>2, <2>4 DEF CallOK, At, HasLast
  <2>8. \A d \in Calls \ {c} : CallOK(d)'
    BY <1>3, <2>1, <2>2, <2>4 DEF IInv, CallOK, At, Req
  <2>9. EventsCounted'
    <3>1. \A f \in Tracked : TracksOf(f)' \subseteq TracksOf(f) /\ SetsOf(f)' = SetsOf(f)
      BY <2>1, <2>4 DEF TracksOf, SetsOf, CommitsOf, At, Req
    <3> SUFFICES ASSUME NEW f \in Tracked
                 PROVE  events'[f] + Cardinality(TracksOf(f)') <= Cardinality(SetsOf(f)')
      BY DEF EventsCounted
    <3>2. IsFiniteSet(TracksOf(f)) /\ Cardinality(TracksOf(f)) \in Nat /\ Cardinality(SetsOf(f)) \in Nat /\ events[f] \in Nat
      BY <1>1, Counted
    <3>3. Cardinality(TracksOf(f)') <= Cardinality(TracksOf(f)) /\ Cardinality(TracksOf(f)') \in Nat
      BY <3>1, <3>2, FS_Subset, FS_CardinalityType
    <3>4. events[f] + Cardinality(TracksOf(f)) <= Cardinality(SetsOf(f))
      BY DEF IInv, EventsCounted
    <3> QED
      BY <2>1, <3>1, <3>2, <3>3, <3>4
  <2> QED
    BY <2>5, <2>6, <2>7, <2>8, <2>9 DEF IInv
<1> QED
  BY <1>2, <1>3

\* track: an event for a change that is in the log.
LEMMA TrackInv ==
  ASSUME IInv, NEW c \in Calls, Track(c)
  PROVE  IInv'
<1>1. /\ TypeOK /\ call \in [Calls -> CallType] /\ CallOK(c) /\ events \in [Tracked -> Nat]
  BY DEF IInv, TypeOK
<1> PICK g \in Tracked : g = Req(c).field
  BY <1>1 DEF Track, CallOK
<1>2. /\ events' = [events EXCEPT ![g] = @ + 1] /\ call' = [call EXCEPT ![c] = IdleCall]
      /\ UNCHANGED <<exists, row, log>> /\ At(c, "track")
  BY DEF Track, Goto
<1>3. /\ events' \in [Tracked -> Nat] /\ events'[g] = events[g] + 1
      /\ \A f \in Tracked \ {g} : events'[f] = events[f]
      /\ call' \in [Calls -> CallType] /\ call'[c] = IdleCall
      /\ \A d \in Calls \ {c} : call'[d] = call[d]
  BY <1>1, <1>2, IdleIs
<1>4. TypeOK'
  BY <1>1, <1>2, <1>3 DEF TypeOK
<1>5. RowOK' /\ LogOK' /\ ReasonSparesChoices' /\ (\A i \in DOMAIN log : ~ log[i].real => log[i].since < i - 1)'
  BY <1>2 DEF IInv, RowOK, HasLast, LogOK, ReasonSparesChoices, CommitsOf, IsLast
<1>6. \A d \in Calls : CallOK(d)'
  <2>1. Len(log) \in Nat
    <3>1. log \in Seq(LogType)
      BY <1>1 DEF TypeOK
    <3> QED
      BY <3>1
  <2>2. CallOK(c)'
    BY <1>2, <1>3, <2>1, IdleIs DEF CallOK, At
  <2>3. \A d \in Calls \ {c} : CallOK(d)'
    BY <1>2, <1>3 DEF IInv, CallOK, At, Req, HasLast
  <2> QED
    BY <2>2, <2>3
<1>7. EventsCounted'
  <2> SUFFICES ASSUME NEW f \in Tracked
               PROVE  events'[f] + Cardinality(TracksOf(f)') <= Cardinality(SetsOf(f)')
    BY DEF EventsCounted
  <2>1. TracksOf(f)' = TracksOf(f) \ {c} /\ SetsOf(f)' = SetsOf(f)
    BY <1>2, <1>3, IdleIs DEF TracksOf, SetsOf, CommitsOf, At, Req
  <2>2. IsFiniteSet(TracksOf(f)) /\ Cardinality(TracksOf(f)) \in Nat /\ Cardinality(SetsOf(f)) \in Nat /\ events[f] \in Nat
    BY <1>1, Counted
  <2>3. c \in TracksOf(f) <=> f = g
    BY <1>2 DEF TracksOf
  <2>4. Cardinality(TracksOf(f)') = IF f = g THEN Cardinality(TracksOf(f)) - 1 ELSE Cardinality(TracksOf(f))
    BY <2>1, <2>2, <2>3, FS_RemoveElement
  <2>5. events[f] + Cardinality(TracksOf(f)) <= Cardinality(SetsOf(f))
    BY DEF IInv, EventsCounted
  <2> QED
    BY <1>3, <2>1, <2>2, <2>4, <2>5
<1> QED
  BY <1>4, <1>5, <1>6, <1>7 DEF IInv

-----------------------------------------------------------------------------
(* The changes                                                             *)

\* A commit of field f: what holds of the row, the log and the events after it.
LEMMA CommitInv ==
  ASSUME IInv, NEW c \in Calls, NEW f \in Fields, NEW v \in ValuesOf(f),
         NEW by \in {"set", "start", "reason"}, NEW pc \in {"idle", "track", "reason"},
         Commit(c, f, v, by, pc), Changes(c, f, v),
         call[c].pc = "change" \/ (call[c].pc = "reason" /\ f # "lang"),
         pc # "idle" => f # "lang",
         pc = "reason" \/ by = "reason" => call[c].new,
         pc = "track" <=> by = "set" /\ f \in Tracked,
         pc = "track" => Req(c).field = f
  PROVE  IInv'
<1>1. /\ TypeOK /\ row \in RowType /\ log \in Seq(LogType)
      /\ call \in [Calls -> CallType] /\ call[c] \in CallType /\ call[c].copy \in RowType
      /\ CallOK(c) /\ RowOK /\ LogOK
  BY DEF IInv, TypeOK, CallType
<1>2. Len(log) \in Nat /\ DOMAIN log = 1..Len(log)
  BY <1>1
<1> PICK N \in Nat : N = Len(log) + 1
  BY <1>2
<1> PICK s \in Nat : s = call[c].since
  BY <1>1 DEF CallType
<1>3. call[c].began \in Nat /\ call[c].began <= Len(log) /\ s <= Len(log)
  BY <1>1 DEF CallOK, CallType
<1> DEFINE real == row[f] # v
           x == [field |-> f, value |-> v, by |-> by, since |-> s, began |-> call[c].began, real |-> real]
<1>4. /\ row' = Written(c, f, v) /\ log' = Append(log, x) /\ UNCHANGED <<exists, events>>
      /\ call' = [call EXCEPT ![c] =
           IF pc = "idle" THEN IdleCall
           ELSE [call[c] EXCEPT !.pc = pc, !.copy = [call[c].copy EXCEPT ![f] = v], !.since = N]]
  <2>1. row' = Written(c, f, v) /\ log' = Append(log, x) /\ UNCHANGED <<exists, events>>
    BY DEF Commit
  <2>2. CASE pc = "idle"
    BY <2>1, <2>2 DEF Commit
  <2>3. CASE pc # "idle"
    BY <2>1, <2>3 DEF Commit
  <2> QED
    BY <2>2, <2>3
<1>5. real \in BOOLEAN
  OBVIOUS
<1>6. (~ real) => row[f] = v
  OBVIOUS
<1> HIDE DEF real
<1>7. /\ x \in LogType /\ x.field = f /\ x.value = v /\ x.by = by /\ x.since = s
      /\ x.began = call[c].began /\ x.real = real
  BY <1>3, <1>5 DEF LogType
<1> HIDE DEF x
<1>8. /\ log' \in Seq(LogType) /\ Len(log') = N /\ log'[N] = x /\ DOMAIN log' = 1..N
      /\ \A i \in 1..Len(log) : log'[i] = log[i]
  BY <1>1, <1>4, <1>7, LogAppended
<1>9. \A i \in 1..N : i \in 1..Len(log) \/ i = N
  BY <1>2
<1>10. /\ row' \in RowType /\ row'[f] = v
       /\ f = "lang" => \A g \in InSettings : row'[g] = row[g]
       /\ f # "lang" => row'.lang = row.lang /\ \A g \in InSettings \ {f} : row'[g] = call[c].copy[g]
  BY <1>4, WrittenIs
<1>11. /\ call' \in [Calls -> CallType] /\ \A d \in Calls \ {c} : call'[d] = call[d]
       /\ pc = "idle" => call'[c] = IdleCall
       /\ pc # "idle" => /\ call'[c].pc = pc /\ call'[c].copy = [call[c].copy EXCEPT ![f] = v]
                         /\ call'[c].since = N /\ call'[c].began = call[c].began /\ call'[c].new = call[c].new
                         /\ call'[c].req = call[c].req
  <2>1. CASE pc = "idle"
    BY <1>1, <1>4, <2>1, IdleIs
  <2>2. CASE pc # "idle"
    <3> DEFINE r == [call[c] EXCEPT !.pc = pc, !.copy = [call[c].copy EXCEPT ![f] = v], !.since = N]
    <3>1. [call[c].copy EXCEPT ![f] = v] \in RowType
      BY <1>1, FieldSet
    <3>2. /\ r \in CallType /\ r.pc = pc /\ r.copy = [call[c].copy EXCEPT ![f] = v] /\ r.since = N
          /\ r.began = call[c].began /\ r.new = call[c].new /\ r.req = call[c].req
      BY <1>1, <2>2, <3>1 DEF CallType
    <3>3. call' = [call EXCEPT ![c] = r]
      BY <1>4, <2>2
    <3> HIDE DEF r
    <3> QED
      BY <1>1, <2>2, <3>2, <3>3
  <2> QED
    BY <2>1, <2>2
<1>12. TypeOK'
  BY <1>1, <1>4, <1>8, <1>10, <1>11 DEF TypeOK
<1>13. HasLast(row, Len(log), InSettings) /\ HasLast(call[c].copy, s, InSettings) /\ exists
  BY <1>1 DEF RowOK, CallOK
<1>14. HasLast(row, Len(log), InSettings)'
  <2> SUFFICES ASSUME NEW i \in 1..N, log'[i].field \in InSettings,
                      \A j \in i + 1..N : log'[j].field # log'[i].field,
                      row'[log'[i].field] # log'[i].value
               PROVE  \E j \in i + 1..N : log'[j].since < i
    BY <1>8 DEF HasLast
  <2>1. i # N
    BY <1>7, <1>8, <1>10
  <2>2. i \in 1..Len(log) /\ log'[i] = log[i] /\ N \in i + 1..N
    BY <1>2, <1>8, <1>9, <2>1
  <2>3. log[i].field # f
    BY <1>7, <1>8, <2>2
  <2>4. \A j \in i + 1..Len(log) : j \in i + 1..N /\ log'[j] = log[j]
    BY <1>2, <1>8, <2>2
  <2>5. CASE f = "lang"
    <3>1. row[log[i].field] # log[i].value
      BY <1>10, <2>2, <2>5
    <3>2. \E j \in i + 1..Len(log) : log[j].since < i
      BY <1>13, <2>2, <2>4, <3>1 DEF HasLast
    <3> QED
      BY <2>4, <3>2
  <2>6. CASE f # "lang" /\ s < i
    BY <1>7, <1>8, <2>2, <2>6
  <2>7. CASE f # "lang" /\ ~ (s < i)
    <3>1. call[c].copy[log[i].field] # log[i].value
      BY <1>10, <2>2, <2>3, <2>7
    <3>2. i \in 1..s /\ \A j \in i + 1..s : j \in i + 1..Len(log)
      BY <1>2, <1>3, <2>2, <2>7
    <3>3. \E j \in i + 1..s : log[j].since < i
      BY <1>13, <2>2, <2>4, <3>1, <3>2 DEF HasLast
    <3> QED
      BY <2>4, <3>2, <3>3
  <2> QED
    BY <2>5, <2>6, <2>7
<1>15. RowOK'
  <2>1. \A i \in CommitsOf("lang")' : IsLast(i)' => row'.lang = log'[i].value
    <3> SUFFICES ASSUME NEW i \in 1..N, log'[i].field = "lang",
                        \A j \in 1..N : log'[j].field = "lang" => j <= i
                 PROVE  row'.lang = log'[i].value
      BY <1>8 DEF CommitsOf, IsLast
    <3>1. CASE i = N
      <4>1. row'["lang"] = v /\ row'.lang = row'["lang"]
        BY <1>7, <1>8, <1>10, <3>1 DEF RowType
      <4> QED
        BY <1>7, <1>8, <3>1, <4>1
    <3>2. CASE i # N
      <4>1. i \in 1..Len(log) /\ log'[i] = log[i]
        BY <1>8, <1>9, <3>2
      <4>2. f # "lang"
        BY <1>2, <1>7, <1>8, <3>2, <4>1
      <4>3. \A j \in 1..Len(log) : log[j].field = "lang" => j <= i
        BY <1>2, <1>8
      <4>4. row.lang = log[i].value
        BY <1>1, <1>2, <4>1, <4>3 DEF RowOK, CommitsOf, IsLast
      <4> QED
        BY <1>10, <4>1, <4>2, <4>4
    <3> QED
      BY <3>1, <3>2
  <2> QED
    BY <1>4, <1>13, <1>14, <2>1 DEF RowOK
<1>16. LogOK'
  <2>1. s < N /\ call[c].began < N
    BY <1>2, <1>3
  <2> QED
    BY <1>1, <1>2, <1>7, <1>8, <1>9, <2>1 DEF LogOK
<1>17. \A i \in DOMAIN log' : ~ log'[i].real => log'[i].since < i - 1
  <2>1. ~ x.real => s < N - 1
    <3> SUFFICES ASSUME ~ x.real, ~ (s < N - 1) PROVE FALSE
      OBVIOUS
    <3>1. s = Len(log) /\ row[f] = v
      BY <1>2, <1>3, <1>6, <1>7
    <3>2. call[c].copy[f] = row[f]
      BY <1>1, <3>1 DEF CallOK, At, InSettings
    <3> QED
      BY <3>1, <3>2 DEF Changes
  <2> QED
    BY <1>2, <1>7, <1>8, <1>9, <2>1 DEF IInv
<1>18. \A d \in Calls : CallOK(d)'
  <2>1. ASSUME NEW d \in Calls \ {c}
        PROVE  CallOK(d)'
    <3>1. /\ CallOK(d) /\ call'[d] = call[d] /\ call[d].since \in Nat /\ call[d].began \in Nat
      BY <1>1, <1>11 DEF IInv, CallType
    <3>2. call[d].since <= Len(log) /\ call[d].began <= Len(log) /\ call[d].since # Len(log')
      BY <1>2, <1>8, <3>1 DEF CallOK
    <3>3. HasLast(call[d].copy, call[d].since, InSettings) => HasLast(call[d].copy, call[d].since, InSettings)'
      <4>1. \A i \in 1..call[d].since : i \in 1..Len(log) /\ i \in Nat
        BY <1>2, <3>1, <3>2
      <4>2. \A i \in 1..call[d].since : \A j \in i + 1..call[d].since : j \in 1..Len(log)
        BY <1>2, <3>1, <3>2
      <4>3. \A i \in 1..call[d].since : log'[i] = log[i] /\ \A j \in i + 1..call[d].since : log'[j] = log[j]
        BY <1>8, <4>1, <4>2
      <4> QED
        BY <3>1, <4>3 DEF HasLast
    <3>4. call'[d].since <= Len(log') /\ call'[d].began <= Len(log')
      BY <1>2, <1>8, <3>1, <3>2
    <3> QED
      BY <1>4, <3>1, <3>2, <3>3, <3>4 DEF CallOK, At, Req
  <2>2. CASE pc = "idle"
    <3>1. CallOK(c)'
      BY <1>8, <1>11, <2>2, IdleIs DEF CallOK, At
    <3> QED
      BY <2>1, <3>1
  <2>3. CASE pc # "idle"
    <3>1. \A g \in InSettings : call'[c].copy[g] = row'[g]
      <4>1. f # "lang" /\ \A g \in InSettings : g \in Fields
        BY <2>3 DEF InSettings
      <4> PICK r \in RowType : r = [call[c].copy EXCEPT ![f] = v]
        BY <1>1, FieldSet
      <4>2. r[f] = v /\ \A g \in Fields \ {f} : r[g] = call[c].copy[g]
        BY <1>1, FieldSet
      <4>3. call'[c].copy = r
        BY <1>11, <2>3
      <4> QED
        BY <1>10, <4>1, <4>2, <4>3
    <3>2. HasLast(call[c].copy, call[c].since, InSettings)'
      <4>1. call'[c].since = Len(log')
        BY <1>8, <1>11, <2>3
      <4> QED
        BY <1>14, <3>1, <4>1 DEF HasLast
    <3>3. call'[c].since <= Len(log') /\ call'[c].began <= Len(log')
      BY <1>2, <1>3, <1>8, <1>11, <2>3
    <3>4. CallOK(c)'
      BY <1>1, <1>4, <1>11, <1>13, <2>3, <3>1, <3>2, <3>3 DEF CallOK, At, Req
    <3> QED
      BY <2>1, <3>4
  <2> QED
    BY <2>2, <2>3
<1>19. EventsCounted'
  <2> SUFFICES ASSUME NEW g \in Tracked
               PROVE  events'[g] + Cardinality(TracksOf(g)') <= Cardinality(SetsOf(g)')
    BY DEF EventsCounted
  <2>1. /\ IsFiniteSet(TracksOf(g)) /\ Cardinality(TracksOf(g)) \in Nat
        /\ IsFiniteSet(SetsOf(g)) /\ Cardinality(SetsOf(g)) \in Nat /\ events[g] \in Nat
    BY <1>1, Counted
  <2>2. events[g] + Cardinality(TracksOf(g)) <= Cardinality(SetsOf(g))
    BY DEF IInv, EventsCounted
  <2>3. ~ At(c, "track") /\ N \notin SetsOf(g)
    BY <1>2 DEF At, SetsOf, CommitsOf
  <2>4. CASE pc = "track" /\ f = g
    <3>1. TracksOf(g)' = TracksOf(g) \cup {c}
      BY <1>11, <2>4 DEF TracksOf, At, Req
    <3>2. SetsOf(g)' = SetsOf(g) \cup {N}
      BY <1>2, <1>7, <1>8, <1>9, <2>4 DEF SetsOf, CommitsOf
    <3>3. c \notin TracksOf(g)
      BY <2>3 DEF TracksOf
    <3>4. Cardinality(TracksOf(g)') = Cardinality(TracksOf(g)) + 1 /\ Cardinality(SetsOf(g)') = Cardinality(SetsOf(g)) + 1
      BY <2>1, <2>3, <3>1, <3>2, <3>3, FS_AddElement
    <3> QED
      BY <1>4, <2>1, <2>2, <3>4
  <2>5. CASE ~ (pc = "track" /\ f = g)
    <3>1. TracksOf(g)' = TracksOf(g)
      <4>1. c \notin TracksOf(g) /\ c \notin TracksOf(g)'
        BY <1>11, <2>3, <2>5, IdleIs DEF TracksOf, At, Req
      <4> QED
        BY <1>11, <4>1 DEF TracksOf, At, Req
    <3>2. SetsOf(g)' = SetsOf(g)
      <4>1. \A i \in 1..Len(log) : i \in 1..N /\ log'[i] = log[i]
        BY <1>2, <1>8
      <4>2. ~ (x.field = g /\ x.by = "set")
        BY <1>7, <2>5
      <4> QED
        BY <1>2, <1>8, <1>9, <4>1, <4>2 DEF SetsOf, CommitsOf
    <3> QED
      BY <1>4, <2>2, <3>1, <3>2
  <2> QED
    BY <2>4, <2>5
<1>20. ReasonSparesChoices'
  <2> SUFFICES ASSUME NEW j \in 1..N, log'[j].by = "reason", NEW i \in 1..N, log'[i].field = "prompt", i < j
               PROVE  log'[j].began < i
    BY <1>8 DEF ReasonSparesChoices, CommitsOf
  <2>1. CASE j = N
    <3>1. call[c].new
      BY <1>7, <1>8, <2>1
    <3>2. call[c].began = 0
      BY <1>1, <3>1 DEF CallOK
    <3> QED
      BY <1>7, <1>8, <2>1, <3>2
  <2>2. CASE j # N
    <3>1. j \in 1..Len(log) /\ i \in 1..Len(log) /\ log'[j] = log[j] /\ log'[i] = log[i]
      BY <1>2, <1>8, <1>9, <2>2
    <3> QED
      BY <1>2, <3>1 DEF IInv, ReasonSparesChoices, CommitsOf
  <2> QED
    BY <2>1, <2>2
<1> QED
  BY <1>12, <1>15, <1>16, <1>17, <1>18, <1>19, <1>20 DEF IInv

\* The handlers that change a field, or find that it has the value already.
LEMMA ChangesInv ==
  ASSUME IInv, NEW c \in Calls, ChangeField(c) \/ ChangeName(c) \/ ApplyReason(c)
  PROVE  IInv'
<1>1. /\ call \in [Calls -> CallType] /\ call[c] \in CallType /\ CallOK(c) /\ Req(c) \in Requests
      /\ log \in Seq(LogType)
  BY DEF IInv, TypeOK, CallType, Req
<1> PICK q \in Requests : q = Req(c)
  BY <1>1
<1>2. "name" \in Fields /\ "prompt" \in Fields /\ "lang" \in Fields /\ "paused" \in Fields
  BY DEF Fields
<1>3. CASE ChangeField(c)
  <2>1. q.op = "set" /\ At(c, "change") /\ q.field \in {"paused", "prompt", "lang"}
    BY <1>3, RequestKinds DEF ChangeField
  <2>2. CASE q.value # BadKey /\ Changes(c, q.field, q.value)
             /\ Commit(c, q.field, q.value, "set", IF q.field \in Tracked THEN "track" ELSE "idle")
    <3> PICK pc \in {"idle", "track", "reason"} : pc = IF q.field \in Tracked THEN "track" ELSE "idle"
      OBVIOUS
    <3>1. q.value \in ValuesOf(q.field) /\ q.field \in Fields
      BY <1>2, <2>1, <2>2, RequestKinds
    <3>2. /\ pc # "reason" /\ (pc = "track" <=> q.field \in Tracked) /\ (pc # "idle" => q.field # "lang")
          /\ Commit(c, q.field, q.value, "set", pc) /\ call[c].pc = "change"
      BY <2>1, <2>2 DEF Tracked, At
    <3> QED
      BY <2>2, <3>1, <3>2, CommitInv
  <2>3. CASE Goto(c, "idle") /\ NoWrite
    BY <2>3, IdleIs, GoesOn DEF Goto, NoWrite
  <2> QED
    BY <1>3, <2>2, <2>3 DEF ChangeField
<1>4. CASE ChangeName(c)
  <2> PICK pc \in {"idle", "track", "reason"} : pc = AfterName(c) /\ (pc = "reason" => call[c].new) /\ pc # "track"
    BY DEF AfterName
  <2>1. q.op = "start" /\ call[c].pc = "change" /\ q.value \in ValuesOf("name")
    BY <1>4, RequestKinds DEF ChangeName, At
  <2>2. CASE Changes(c, "name", q.value) /\ Commit(c, "name", q.value, "start", pc)
    BY <1>2, <2>1, <2>2, CommitInv
  <2>3. CASE Goto(c, pc) /\ NoWrite /\ pc = "idle"
    BY <2>3, IdleIs, GoesOn DEF Goto, NoWrite
  <2>4. CASE Goto(c, pc) /\ NoWrite /\ pc = "reason"
    <3> DEFINE r == [call[c] EXCEPT !.pc = "reason"]
    <3>1. /\ r \in CallType /\ r.pc = "reason" /\ r.copy = call[c].copy /\ r.since = call[c].since
          /\ r.began = call[c].began /\ r.new = call[c].new
      BY <1>1 DEF CallType
    <3>2. call' = [call EXCEPT ![c] = r] /\ UNCHANGED <<exists, row, log, events>>
      BY <2>4 DEF Goto, NoWrite
    <3>3. call'[c] = r
      BY <1>1, <3>2
    <3> HIDE DEF r
    <3>4. CallOK(c)'
      BY <1>1, <2>1, <2>4, <3>1, <3>2, <3>3 DEF CallOK, At, HasLast
    <3> QED
      BY <3>1, <3>2, <3>4, QuietCall
  <2> QED
    BY <1>4, <2>2, <2>3, <2>4 DEF ChangeName
<1>5. CASE ApplyReason(c)
  <2>1. call[c].pc = "reason" /\ call[c].new /\ q.reason \in ValuesOf("prompt")
    BY <1>1, <1>5, RequestKinds DEF ApplyReason, At, CallOK
  <2>2. CASE Changes(c, "prompt", q.reason) /\ Commit(c, "prompt", q.reason, "reason", "idle")
    BY <1>2, <2>1, <2>2, CommitInv
  <2>3. CASE Goto(c, "idle") /\ NoWrite
    BY <2>3, IdleIs, GoesOn DEF Goto, NoWrite
  <2> QED
    BY <1>5, <2>2, <2>3 DEF ApplyReason
<1> QED
  BY <1>3, <1>4, <1>5

\* The bot process dies with every update in flight.
LEMMA CrashInv ==
  ASSUME IInv, Crash
  PROVE  IInv'
<1>1. /\ TypeOK /\ log \in Seq(LogType)
      /\ UNCHANGED <<exists, row, log, events>> /\ call' = [c \in Calls |-> IdleCall]
  BY DEF IInv, TypeOK, Crash, NoWrite
<1>2. TypeOK'
  BY <1>1, IdleIs DEF TypeOK
<1>3. \A c \in Calls : CallOK(c)'
  <2>1. Len(log) \in Nat
    BY <1>1
  <2> QED
    BY <1>1, <2>1, IdleIs DEF CallOK, At
<1>4. EventsCounted'
  <2> SUFFICES ASSUME NEW f \in Tracked
               PROVE  events'[f] + Cardinality(TracksOf(f)') <= Cardinality(SetsOf(f)')
    BY DEF EventsCounted
  <2>1. TracksOf(f)' = {} /\ SetsOf(f)' = SetsOf(f)
    BY <1>1, IdleIs DEF TracksOf, SetsOf, CommitsOf, At
  <2>2. Cardinality(TracksOf(f)) \in Nat /\ Cardinality(SetsOf(f)) \in Nat /\ events[f] \in Nat
    BY <1>1, Counted
  <2>3. events[f] + Cardinality(TracksOf(f)) <= Cardinality(SetsOf(f))
    BY DEF IInv, EventsCounted
  <2> QED
    BY <1>1, <2>1, <2>2, <2>3, FS_EmptySet
<1>5. RowOK' /\ LogOK' /\ ReasonSparesChoices' /\ (\A i \in DOMAIN log : ~ log[i].real => log[i].since < i - 1)'
  BY <1>1 DEF IInv, RowOK, HasLast, LogOK, ReasonSparesChoices, CommitsOf, IsLast
<1> QED
  BY <1>2, <1>3, <1>4, <1>5 DEF IInv

LEMMA IInvStep ==
  ASSUME IInv, [Next]_vars
  PROVE  IInv'
<1>1. ASSUME NEW c \in Calls, (\E r \in Requests : Begin(c, r)) \/ Step(c)
      PROVE  IInv'
  BY <1>1, ReadsInv, InsertInv, ChangesInv, TrackInv DEF Step
<1>2. CASE Crash
  BY <1>2, CrashInv
<1>3. CASE UNCHANGED vars
  BY <1>3 DEF vars, IInv, TypeOK, RowOK, HasLast, LogOK, ReasonSparesChoices, CommitsOf, IsLast,
              CallOK, At, Req, EventsCounted, TracksOf, SetsOf
<1> QED
  BY <1>1, <1>2, <1>3 DEF Next

-----------------------------------------------------------------------------
(* What follows                                                            *)

\* The invariant the others follow from holds in every reachable state.
THEOREM Invariance == Spec => []IInv
<1>1. IInv /\ [Next]_vars => IInv'
  BY IInvStep
<1> QED
  BY InitIInv, <1>1, PTL DEF Spec

\* Every variable keeps its type.
THEOREM TypeInvariant == Spec => []TypeOK
<1>1. IInv => TypeOK
  BY DEF IInv
<1> QED
  BY Invariance, <1>1, PTL

\* A confirmed change of a setting is undone only by an overlapping session that
\* had read the row before it, and the language not even then.
THEOREM ChangesAreKept == Spec => []LostOnlyToOverlap
<1>1. IInv => LostOnlyToOverlap
  <2> SUFFICES ASSUME IInv, NEW i \in DOMAIN log, IsLast(i), row[log[i].field] # log[i].value
               PROVE  log[i].field # "lang" /\ \E j \in i + 1..Len(log) : log[j].since < i
    BY DEF LostOnlyToOverlap
  <2>1. RowOK /\ log \in Seq(LogType) /\ row \in RowType
    BY DEF IInv, TypeOK
  <2>2. Len(log) \in Nat /\ DOMAIN log = 1..Len(log) /\ log[i] \in LogType
    BY <2>1
  <2>3. log[i].field \in Fields
    BY <2>2 DEF LogType
  <2>4. log[i].field # "lang"
    <3> SUFFICES ASSUME log[i].field = "lang" PROVE FALSE
      OBVIOUS
    <3>1. row.lang = log[i].value
      BY <2>1 DEF RowOK, CommitsOf
    <3>2. row.lang = row["lang"]
      BY <2>1 DEF RowType
    <3> QED
      BY <3>1, <3>2
  <2>5. \A j \in i + 1..Len(log) : log[j].field # log[i].field
    BY <2>2 DEF IsLast, CommitsOf
  <2> QED
    BY <2>1, <2>2, <2>3, <2>4, <2>5 DEF RowOK, HasLast, InSettings
<1> QED
  BY Invariance, <1>1, PTL

\* An event of a pause, a resumption or a chosen line is an event of a change that
\* was committed; a commit that changed nothing overlapped another.
THEOREM EventsAreTrue == Spec => []EventsAreChanges
<1>1. IInv => EventsAreChanges
  <2> SUFFICES ASSUME IInv, NEW f \in Tracked
               PROVE  events[f] <= Cardinality({i \in CommitsOf(f) : log[i].by = "set"})
    BY DEF IInv, EventsAreChanges
  <2>1. events[f] + Cardinality(TracksOf(f)) <= Cardinality(SetsOf(f))
    BY DEF IInv, EventsCounted
  <2>2. Cardinality(TracksOf(f)) \in Nat /\ Cardinality(SetsOf(f)) \in Nat /\ events[f] \in Nat
    BY Counted DEF IInv
  <2> QED
    BY <2>1, <2>2 DEF SetsOf
<1> QED
  BY Invariance, <1>1, PTL

\* A reason from a sender's page never replaces a line chosen before the update began.
THEOREM ReasonsAreForNewUsers == Spec => []ReasonSparesChoices
<1>1. IInv => ReasonSparesChoices
  BY DEF IInv
<1> QED
  BY Invariance, <1>1, PTL
=============================================================================
