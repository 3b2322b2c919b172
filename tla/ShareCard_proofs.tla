-------------------------- MODULE ShareCard_proofs --------------------------
(***************************************************************************)
(* The text layout of ShareCard.tla, for every text, panel and range of    *)
(* sizes: what is drawn stays inside the panel and is the text or an       *)
(* honest beginning of it, and the lines are balanced.                     *)
(***************************************************************************)
EXTENDS ShareCard, FiniteSetTheorems, SequenceTheorems, TLAPS

-----------------------------------------------------------------------------
(* Induction, by a least counterexample                                    *)

LEMMA LeastNumber ==
  ASSUME NEW T, T \subseteq Nat, T # {}
  PROVE  \E n \in T : \A k \in T : n <= k
<1> DEFINE R == {p \in Nat \X Nat : p[1] < p[2]}
<1>1. IsWellFoundedOn(R, Nat)
  BY NatLessThanWellFounded DEF OpToRel
<1>2. \A k, n \in Nat : <<k, n>> \in R <=> k < n
  OBVIOUS
<1> HIDE DEF R
<1>3. PICK n \in T : \A k \in T : ~ (<<k, n>> \in R)
  BY <1>1, WFMin
<1>4. ASSUME NEW k \in T PROVE n <= k
  <2>1. ~ (<<k, n>> \in R) /\ k \in Nat /\ n \in Nat
    BY <1>3
  <2>2. ~ (k < n)
    BY <1>2, <2>1
  <2> QED
    BY <2>1, <2>2
<1> QED
  BY <1>4

\* Good holds of 0 and is kept by every step up to N.
LEMMA Induction ==
  ASSUME NEW N \in Nat, NEW Good, 0 \in Good, \A n \in 1..N : n - 1 \in Good => n \in Good
  PROVE  \A n \in 0..N : n \in Good
<1> DEFINE Bad == (0..N) \ Good
<1> SUFFICES ASSUME Bad # {} PROVE FALSE
  OBVIOUS
<1>0. Bad \subseteq Nat
  OBVIOUS
<1> HIDE DEF Bad
<1>1. PICK n \in Bad : \A k \in Bad : n <= k
  BY <1>0, LeastNumber
<1> USE DEF Bad
<1>2. n \in 1..N /\ n - 1 \in 0..N
  BY <1>1
<1>3. n - 1 \in Good
  BY <1>1, <1>2
<1> QED
  BY <1>1, <1>2, <1>3

\* What holds of a subset when it holds of the smaller ones holds of the whole set.
LEMMA SetInduction ==
  ASSUME NEW S, IsFiniteSet(S), NEW Good,
         \A T \in SUBSET S : (\A U \in SUBSET T : U # T => U \in Good) => T \in Good
  PROVE  S \in Good
<1> DEFINE R == StrictSubsetOrdering(S)
           Bad == (SUBSET S) \ Good
<1>1. IsWellFoundedOn(R, SUBSET S)
  BY FS_StrictSubsetOrderingWellFounded, FS_FiniteSubsetsOfFinite
<1>2. \A T, U \in SUBSET S : <<U, T>> \in R <=> U \subseteq T /\ U # T
  BY DEF StrictSubsetOrdering
<1>3. Bad \subseteq SUBSET S
  OBVIOUS
<1> SUFFICES ASSUME Bad # {} PROVE FALSE
  OBVIOUS
<1> HIDE DEF R, Bad
<1>4. PICK T \in Bad : \A U \in Bad : <<U, T>> \notin R
  BY <1>1, <1>3, WFMin
<1>5. T \in SUBSET S /\ T \notin Good
  BY DEF Bad
<1>6. ASSUME NEW U \in SUBSET T, U # T PROVE U \in Good
  BY <1>2, <1>4, <1>5, <1>6 DEF Bad
<1> QED
  BY <1>5, <1>6

\* A finite set of numbers has a largest and a least element.
LEMMA MaxOf ==
  ASSUME NEW S, IsFiniteSet(S), S \subseteq Int, S # {}
  PROVE  Max(S) \in S /\ \A k \in S : k <= Max(S)
<1> DEFINE HasMax(T) == \E m \in T : \A k \in T : k <= m
           Good == {T \in SUBSET S : T = {} \/ HasMax(T)}
<1>1. ASSUME NEW T \in SUBSET S, \A U \in SUBSET T : U # T => U \in Good
      PROVE  T \in Good
  <2> SUFFICES ASSUME T # {} PROVE HasMax(T)
    OBVIOUS
  <2>1. PICK x \in T : TRUE
    OBVIOUS
  <2>2. CASE T = {x}
    BY <2>2
  <2>3. CASE T # {x}
    <3>0. T \ {x} \in Good /\ T \ {x} # {}
      BY <1>1, <2>1, <2>3
    <3>1. PICK m \in T \ {x} : \A k \in T \ {x} : k <= m
      BY <3>0
    <3>2. x \in Int /\ m \in Int /\ T \subseteq Int
      OBVIOUS
    <3>3. CASE x <= m
      BY <3>1, <3>2, <3>3
    <3>4. CASE m <= x
      <4>1. \A k \in T : k <= x
        BY <3>1, <3>2, <3>4
      <4> QED
        BY <4>1
    <3> QED
      BY <3>2, <3>3, <3>4
  <2> QED
    BY <2>2, <2>3
<1> HIDE DEF Good
<1>2. S \in Good
  BY <1>1, SetInduction
<1> QED
  BY <1>2 DEF Good, Max

LEMMA MinOf ==
  ASSUME NEW S, S \subseteq Nat, S # {}
  PROVE  Min(S) \in S /\ \A k \in S : Min(S) <= k
<1>1. \E n \in S : \A k \in S : n <= k
  BY LeastNumber
<1> QED
  BY <1>1 DEF Min

LEMMA SeqInduction ==
  ASSUME NEW A, NEW Good, <<>> \in Good,
         \A s \in Seq(A), a \in A : s \in Good => Append(s, a) \in Good
  PROVE  \A s \in Seq(A) : s \in Good
<1> SUFFICES ASSUME NEW s \in Seq(A) PROVE s \in Good
  OBVIOUS
<1> DEFINE N == {n \in Nat : n <= Len(s) => SubSeq(s, 1, n) \in Good}
<1>0. Len(s) \in Nat
  OBVIOUS
<1>1. 0 \in N
  <2>1. SubSeq(s, 1, 0) = <<>>
    BY SubSeqEmpty
  <2> QED
    BY <1>0, <2>1
<1>2. ASSUME NEW n \in 1..Len(s), n - 1 \in N PROVE n \in N
  <2>0. n \in Nat /\ n <= Len(s) /\ n - 1 <= Len(s) /\ s[n] \in A
    BY <1>0
  <2>1. SubSeq(s, 1, n) = Append(SubSeq(s, 1, n - 1), s[n]) /\ SubSeq(s, 1, n - 1) \in Seq(A)
    BY <2>0
  <2> QED
    BY <1>2, <2>0, <2>1
<1> HIDE DEF N
<1>3. Len(s) \in N
  <2>1. \A n \in 1..Len(s) : n - 1 \in N => n \in N
    BY <1>2
  <2>2. \A n \in 0..Len(s) : n \in N
    BY <1>0, <1>1, <2>1, Induction
  <2> QED
    BY <1>0, <2>2
<1>4. SubSeq(s, 1, Len(s)) \in Good
  BY <1>0, <1>3 DEF N
<1> QED
  BY <1>4, SubSeqFull

-----------------------------------------------------------------------------
(* Folds                                                                   *)

LEMMA PrefixMax ==
  ASSUME NEW n \in Nat, n > 0
  PROVE  Max(1..n) = n /\ (1..n) \ {n} = 1..(n - 1)
<1>1. Max(1..n) = n
  <2>0. IsFiniteSet(1..n)
    BY FS_Interval
  <2>1. IsFiniteSet(1..n) /\ 1..n \subseteq Int /\ 1..n # {} /\ n \in 1..n
    BY <2>0
  <2>2. Max(1..n) \in 1..n /\ n <= Max(1..n)
    BY <2>1, MaxOf
  <2> QED
    BY <2>2
<1> QED
  BY <1>1

\* base and g are what a fold over elements of A starts from and does at each.
IsFold(X, A, base, g) == base \in X /\ g \in [X \X A -> X]

\* A fold is an iteration over the sets of positions.
Folds(X, base, g, s) ==
  {f \in [SUBSET (DOMAIN s) -> X] : \A S \in SUBSET (DOMAIN s) :
     f[S] = IF S = {} THEN base ELSE g[<<f[S \ {Max(S)}], s[Max(S)]>>]}

LEMMA FoldExists ==
  ASSUME NEW X, NEW A, NEW base, NEW g, IsFold(X, A, base, g), NEW s \in Seq(A)
  PROVE  Folds(X, base, g, s) # {}
<1> USE DEF IsFold
<1> DEFINE Good == {t \in Seq(A) : Folds(X, base, g, t) # {}}
<1>1. <<>> \in Good
  <2>1. SUBSET (DOMAIN <<>>) = {{}}
    OBVIOUS
  <2>2. [S \in {{}} |-> base] \in Folds(X, base, g, <<>>)
    BY <2>1 DEF Folds
  <2> QED
    BY <2>2
<1>2. ASSUME NEW t \in Seq(A), NEW a \in A, t \in Good PROVE Append(t, a) \in Good
  <2>0. PICK N \in Nat : N = Len(t) + 1
    OBVIOUS
  <2> DEFINE u == Append(t, a)
  <2>1. PICK f \in Folds(X, base, g, t) : TRUE
    BY <1>2
  <2>2. /\ DOMAIN t = 1..Len(t) /\ DOMAIN u = 1..N /\ u[N] = a /\ u \in Seq(A)
        /\ \A i \in 1..Len(t) : u[i] = t[i]
    BY <2>0
  <2> DEFINE h == [S \in SUBSET (1..N) |->
                     IF N \in S THEN g[<<f[S \ {N}], a>>] ELSE f[S]]
  <2>3. ASSUME NEW S \in SUBSET (1..N)
        PROVE  /\ h[S] \in X
               /\ h[S] = IF S = {} THEN base ELSE g[<<h[S \ {Max(S)}], u[Max(S)]>>]
    <3>1. CASE N \in S
      <4>1. Max(S) = N
        <5>1. IsFiniteSet(S) /\ S \subseteq Int /\ S # {}
          <6>1. IsFiniteSet(1..N) /\ 1..N \subseteq Int
            BY FS_Interval
          <6> QED
            BY <3>1, <6>1, FS_Subset
        <5>2. Max(S) \in S /\ N <= Max(S)
          BY <3>1, <5>1, MaxOf
        <5>3. Max(S) \in 1..N
          BY <5>2
        <5> QED
          BY <5>2, <5>3
      <4>2. S \ {N} \in SUBSET (1..Len(t)) /\ N \notin S \ {N} /\ S \ {N} \in SUBSET (1..N)
        <5>1. ASSUME NEW i \in 1..N, i # N PROVE i \in 1..Len(t)
          BY <2>0, <5>1
        <5> QED
          BY <5>1
      <4>3. h[S \ {N}] = f[S \ {N}] /\ f[S \ {N}] \in X
        BY <2>1, <2>2, <4>2 DEF Folds
      <4>4. h[S] = g[<<f[S \ {N}], a>>]
        BY <3>1
      <4> QED
        BY <2>2, <3>1, <4>1, <4>3, <4>4
    <3>2. CASE N \notin S
      <4>1. S \in SUBSET (1..Len(t)) /\ h[S] = f[S]
        BY <2>0, <3>2
      <4>2. CASE S = {}
        BY <2>1, <2>2, <4>1, <4>2 DEF Folds
      <4>3. CASE S # {}
        <5>1. IsFiniteSet(S) /\ S \subseteq Int
          <6>1. IsFiniteSet(1..N) /\ 1..N \subseteq Int
            BY FS_Interval
          <6> QED
            BY <6>1, FS_Subset
        <5>2. Max(S) \in S
          BY <4>3, <5>1, MaxOf
        <5>3. h[S \ {Max(S)}] = f[S \ {Max(S)}]
          BY <3>2, <4>1
        <5>4. f[S] \in X /\ f[S] = g[<<f[S \ {Max(S)}], t[Max(S)]>>]
          BY <2>1, <2>2, <4>1, <4>3 DEF Folds
        <5> QED
          BY <2>2, <4>1, <4>3, <5>2, <5>3, <5>4
      <4> QED
        BY <4>2, <4>3
    <3> QED
      BY <3>1, <3>2
  <2> HIDE DEF h, u
  <2>4. h \in [SUBSET (1..N) -> X]
    BY <2>3 DEF h
  <2>5. h \in Folds(X, base, g, u)
    BY <2>2, <2>3, <2>4 DEF Folds
  <2> QED
    BY <2>2, <2>5 DEF u
<1> HIDE DEF Good
<1>3. s \in Good
  BY <1>1, <1>2, SeqInduction
<1> QED
  BY <1>3 DEF Good

\* What an iteration over the positions of s does, as long as it stays in X.
FoldLike(f, X, base, g, s) ==
  \A S \in SUBSET (DOMAIN s) :
    IF S = {} THEN f[S] = base
    ELSE f[S \ {Max(S)}] \in X => f[S] = g[<<f[S \ {Max(S)}], s[Max(S)]>>]

\* v is what one step per position of s leads to.
StepsTo(v, X, base, g, s) ==
  \E p \in [0..Len(s) -> X] : /\ p[0] = base
                              /\ \A n \in 1..Len(s) : p[n] = g[<<p[n - 1], s[n]>>]
                              /\ v = p[Len(s)]

LEMMA FoldOver ==
  ASSUME NEW X, NEW A, NEW base, NEW g, IsFold(X, A, base, g), NEW s \in Seq(A),
         NEW f, FoldLike(f, X, base, g, s)
  PROVE  StepsTo(f[DOMAIN s], X, base, g, s)
<1>0. base \in X /\ g \in [X \X A -> X]
  BY DEF IsFold
<1>1. DOMAIN s = 1..Len(s) /\ Len(s) \in Nat
  OBVIOUS
<1>2. 1..0 = {} /\ f[1..0] = base
  <2>1. 1..0 = {} /\ 1..0 \in SUBSET (DOMAIN s)
    OBVIOUS
  <2> QED
    BY <2>1 DEF FoldLike
<1> DEFINE N == {n \in 0..Len(s) : f[1..n] \in X}
<1>3. ASSUME NEW n \in 1..Len(s), n - 1 \in N
      PROVE  n \in N /\ f[1..n] = g[<<f[1..(n - 1)], s[n]>>]
  <2>1. n \in Nat /\ n > 0 /\ s[n] \in A /\ n \in 0..Len(s)
    BY <1>1
  <2>2. 1..n \in SUBSET (DOMAIN s) /\ 1..n # {}
    <3>1. n \in 1..n
      BY <2>1
    <3>2. \A k \in 1..n : k \in 1..Len(s)
      BY <1>1
    <3> QED
      BY <1>1, <3>1, <3>2
  <2>3. Max(1..n) = n /\ (1..n) \ {n} = 1..(n - 1)
    BY <2>1, PrefixMax
  <2>4. f[1..n] = g[<<f[1..(n - 1)], s[n]>>]
    BY <1>3, <2>2, <2>3 DEF FoldLike
  <2> QED
    BY <1>0, <1>3, <2>1, <2>4
<1>4. 0 \in N
  BY <1>0, <1>1, <1>2
<1> HIDE DEF N
<1>5. \A n \in 0..Len(s) : n \in N
  BY <1>1, <1>3, <1>4, Induction
<1>6. ASSUME NEW n \in 1..Len(s) PROVE f[1..n] = g[<<f[1..(n - 1)], s[n]>>]
  <2>1. n - 1 \in 0..Len(s)
    BY <1>1
  <2> QED
    BY <1>3, <1>5, <2>1
<1> DEFINE p == [n \in 0..Len(s) |-> f[1..n]]
<1>7. p \in [0..Len(s) -> X]
  BY <1>5 DEF N
<1>8. p[0] = base /\ f[DOMAIN s] = p[Len(s)]
  BY <1>1, <1>2
<1>9. ASSUME NEW n \in 1..Len(s) PROVE p[n] = g[<<p[n - 1], s[n]>>]
  <2>1. n - 1 \in 0..Len(s) /\ n \in 0..Len(s)
    BY <1>1
  <2> QED
    BY <1>6, <2>1
<1> HIDE DEF p
<1> QED
  BY <1>7, <1>8, <1>9 DEF StepsTo

\* A fold over one more element is one more step.
LEMMA FoldAppend ==
  ASSUME NEW X, NEW A, NEW base, NEW g, IsFold(X, A, base, g), NEW s \in Seq(A), NEW a \in A,
         NEW f, FoldLike(f, X, base, g, s),
         NEW h, FoldLike(h, X, base, g, Append(s, a))
  PROVE  /\ f[DOMAIN s] \in X
         /\ h[DOMAIN Append(s, a)] = g[<<f[DOMAIN s], a>>]
<1>b. base \in X /\ g \in [X \X A -> X]
  BY DEF IsFold
<1>0. PICK u \in Seq(A) : u = Append(s, a)
  <2>1. Append(s, a) \in Seq(A)
    OBVIOUS
  <2> QED
    BY <2>1
<1>m. PICK m \in Nat : m = Len(s)
  OBVIOUS
<1>1. /\ DOMAIN s = 1..m /\ Len(u) = m + 1 /\ DOMAIN u = 1..(m + 1)
      /\ u[m + 1] = a /\ \A n \in 1..m : u[n] = s[n]
  BY <1>0, <1>m
<1>2. PICK p \in [0..m -> X] : /\ p[0] = base
                               /\ \A n \in 1..m : p[n] = g[<<p[n - 1], s[n]>>]
                               /\ f[DOMAIN s] = p[m]
  <2>1. StepsTo(f[DOMAIN s], X, base, g, s)
    BY FoldOver
  <2> QED
    BY <1>m, <2>1 DEF StepsTo
<1>3. FoldLike(h, X, base, g, u)
  BY <1>0
<1>4. PICK q \in [0..(m + 1) -> X] : /\ q[0] = base
                                     /\ \A n \in 1..(m + 1) : q[n] = g[<<q[n - 1], u[n]>>]
                                     /\ h[DOMAIN u] = q[m + 1]
  <2>1. StepsTo(h[DOMAIN u], X, base, g, u)
    BY <1>3, FoldOver
  <2> QED
    BY <1>1, <2>1 DEF StepsTo
<1> DEFINE N == {n \in 0..m : p[n] = q[n]}
<1>5. 0 \in N
  BY <1>2, <1>4
<1>6. ASSUME NEW n \in 1..m, n - 1 \in N PROVE n \in N
  <2>1. n \in 1..(m + 1) /\ n \in 0..m
    OBVIOUS
  <2>2. p[n] = g[<<p[n - 1], s[n]>>] /\ q[n] = g[<<q[n - 1], u[n]>>]
    BY <1>2, <1>4, <2>1
  <2> QED
    BY <1>1, <1>6, <2>1, <2>2
<1> HIDE DEF N
<1>7. \A n \in 0..m : n \in N
  BY <1>5, <1>6, Induction
<1>8. p[m] = q[m] /\ p[m] \in X
  <2>1. m \in 0..m
    OBVIOUS
  <2> QED
    BY <1>7, <2>1 DEF N
<1>9. q[m + 1] = g[<<q[m], a>>]
  <2>1. m + 1 \in 1..(m + 1) /\ m + 1 - 1 = m
    OBVIOUS
  <2> QED
    BY <1>1, <1>4, <2>1
<1> QED
  BY <1>0, <1>1, <1>2, <1>4, <1>8, <1>9

\* The laws of a fold, for what it makes of every sequence.
LEMMA FoldLaws ==
  ASSUME NEW X, NEW A, NEW base, NEW g, IsFold(X, A, base, g), NEW F,
         \A s \in Seq(A) : \E f : FoldLike(f, X, base, g, s) /\ F[s] = f[DOMAIN s]
  PROVE  /\ F[<<>>] = base
         /\ \A s \in Seq(A) : F[s] \in X /\ \A a \in A : F[Append(s, a)] = g[<<F[s], a>>]
<1>1. F[<<>>] = base
  <2>1. <<>> \in Seq(A) /\ {} = DOMAIN <<>>
    OBVIOUS
  <2>2. PICK f : FoldLike(f, X, base, g, <<>>) /\ F[<<>>] = f[DOMAIN <<>>]
    BY <2>1
  <2> QED
    BY <2>1, <2>2 DEF FoldLike
<1>2. ASSUME NEW s \in Seq(A), NEW a \in A
      PROVE  F[s] \in X /\ F[Append(s, a)] = g[<<F[s], a>>]
  <2>1. Append(s, a) \in Seq(A)
    OBVIOUS
  <2>2. PICK f : FoldLike(f, X, base, g, s) /\ F[s] = f[DOMAIN s]
    OBVIOUS
  <2>3. PICK h : FoldLike(h, X, base, g, Append(s, a)) /\ F[Append(s, a)] = h[DOMAIN Append(s, a)]
    BY <2>1
  <2>4. /\ f[DOMAIN s] \in X
        /\ h[DOMAIN Append(s, a)] = g[<<f[DOMAIN s], a>>]
    BY <2>2, <2>3, FoldAppend
  <2> QED
    BY <2>2, <2>3, <2>4
<1>3. ASSUME NEW s \in Seq(A), A = {} PROVE F[s] \in X
  <2>1. s = <<>>
    BY <1>3
  <2> QED
    BY <1>1, <2>1 DEF IsFold
<1> QED
  BY <1>1, <1>2, <1>3

LEMMA MaxPosition ==
  ASSUME NEW A, NEW s \in Seq(A), NEW S \in SUBSET (DOMAIN s), S # {}
  PROVE  Max(S) \in DOMAIN s /\ S \ {Max(S)} \in SUBSET (DOMAIN s) /\ s[Max(S)] \in A
<1>1. IsFiniteSet(DOMAIN s) /\ DOMAIN s \subseteq Int
  BY FS_Interval
<1>2. IsFiniteSet(S)
  BY <1>1, FS_Subset
<1>3. Max(S) \in S
  BY <1>1, <1>2, MaxOf
<1> QED
  BY <1>3

-----------------------------------------------------------------------------
(* Lists of lines                                                          *)

LEMMA ExtendIs ==
  ASSUME NEW A, NEW lines \in Seq(Seq(A)) \ {<<>>}, NEW a \in A
  PROVE  /\ Last(lines) \in Seq(A) /\ Front(lines) \in Seq(Seq(A))
         /\ Extend(lines, a) \in Seq(Seq(A)) \ {<<>>}
         /\ Front(Extend(lines, a)) = Front(lines)
         /\ Last(Extend(lines, a)) = Append(Last(lines), a)
BY DEF Extend, Front, Last

\* The folds of ShareCard.tla, one by one.
LEMMA SplitLaws ==
  ASSUME NEW A, NEW c
  PROVE  /\ Split(<<>>, c) = << <<>> >>
         /\ \A s \in Seq(A) : /\ Split(s, c) \in Seq(Seq(A)) \ {<<>>}
                              /\ \A a \in A : Split(Append(s, a), c) = Cut(c, Split(s, c), a)
<1> DEFINE base == << <<>> >>
           X == Seq(Seq(A)) \ {<<>>}
           g == [r \in X \X A |-> Cut(c, r[1], r[2])]
           F == [s \in Seq(A) |-> Split(s, c)]
<1>1. base \in X
  OBVIOUS
<1>2. ASSUME NEW x \in X, NEW a \in A PROVE Cut(c, x, a) \in X
  <2>1. Extend(x, a) \in X
    BY ExtendIs
  <2>2. Append(x, <<>>) \in X
    OBVIOUS
  <2> QED
    BY <2>1, <2>2 DEF Cut
<1> HIDE DEF X
<1>3. IsFold(X, A, base, g) /\ \A x \in X, a \in A : g[<<x, a>>] = Cut(c, x, a)
  BY <1>1, <1>2 DEF IsFold
<1> HIDE DEF g, base
<1>4. ASSUME NEW s \in Seq(A)
      PROVE  \E f : FoldLike(f, X, base, g, s) /\ F[s] = f[DOMAIN s]
  <2> DEFINE Eq(f) == f = [S \in SUBSET (DOMAIN s) |->
                             IF S = {} THEN base ELSE Cut(c, f[S \ {Max(S)}], s[Max(S)])]
             it == CHOOSE f : Eq(f)
  <2>1. F[s] = it[DOMAIN s]
    BY DEF base, Split, FoldLeft, MapThenFoldSet
  <2>2. PICK f : f \in Folds(X, base, g, s)
    BY <1>3, FoldExists
  <2>3. \A S \in SUBSET (DOMAIN s) : S # {} =>
          Max(S) \in DOMAIN s /\ S \ {Max(S)} \in SUBSET (DOMAIN s) /\ s[Max(S)] \in A
    BY MaxPosition
  <2>4. f = [S \in SUBSET (DOMAIN s) |-> IF S = {} THEN base ELSE Cut(c, f[S \ {Max(S)}], s[Max(S)])]
    BY <1>3, <2>2, <2>3 DEF Folds
  <2>5. Eq(it)
    BY <2>4
  <2> HIDE DEF it
  <2>6. FoldLike(it, X, base, g, s)
    BY <1>3, <2>3, <2>5 DEF FoldLike
  <2> QED
    BY <2>1, <2>6
<1>5. <<>> \in Seq(A) /\ \A s \in Seq(A), a \in A : Append(s, a) \in Seq(A)
  OBVIOUS
<1>6. /\ F[<<>>] = base
      /\ \A s \in Seq(A) : F[s] \in X /\ \A a \in A : F[Append(s, a)] = g[<<F[s], a>>]
  <2> HIDE DEF F
  <2> QED
    BY <1>3, <1>4, FoldLaws
<1>7. /\ Split(<<>>, c) = base
      /\ \A s \in Seq(A) : Split(s, c) \in X
      /\ \A s \in Seq(A), a \in A : Split(Append(s, a), c) = g[<<Split(s, c), a>>]
  BY <1>5, <1>6
<1> QED
  BY <1>3, <1>7 DEF X, base

LEMMA BreakLaws ==
  ASSUME NEW A, NEW size
  PROVE  /\ Break(<<>>, size) = << <<>> >>
         /\ \A s \in Seq(A) : /\ Break(s, size) \in Seq(Seq(A)) \ {<<>>}
                              /\ \A a \in A : Break(Append(s, a), size) = BreakAt(size, Break(s, size), a)
<1> DEFINE base == << <<>> >>
           X == Seq(Seq(A)) \ {<<>>}
           g == [r \in X \X A |-> BreakAt(size, r[1], r[2])]
           F == [s \in Seq(A) |-> Break(s, size)]
<1>1. base \in X
  OBVIOUS
<1>2. ASSUME NEW x \in X, NEW a \in A PROVE BreakAt(size, x, a) \in X
  <2>1. Extend(x, a) \in X
    BY ExtendIs
  <2>2. Append(x, <<a>>) \in X
    OBVIOUS
  <2> QED
    BY <2>1, <2>2 DEF BreakAt
<1> HIDE DEF X
<1>3. IsFold(X, A, base, g) /\ \A x \in X, a \in A : g[<<x, a>>] = BreakAt(size, x, a)
  BY <1>1, <1>2 DEF IsFold
<1> HIDE DEF g, base
<1>4. ASSUME NEW s \in Seq(A)
      PROVE  \E f : FoldLike(f, X, base, g, s) /\ F[s] = f[DOMAIN s]
  <2> DEFINE Eq(f) == f = [S \in SUBSET (DOMAIN s) |->
                             IF S = {} THEN base ELSE BreakAt(size, f[S \ {Max(S)}], s[Max(S)])]
             it == CHOOSE f : Eq(f)
  <2>1. F[s] = it[DOMAIN s]
    BY DEF base, Break, FoldLeft, MapThenFoldSet
  <2>2. PICK f : f \in Folds(X, base, g, s)
    BY <1>3, FoldExists
  <2>3. \A S \in SUBSET (DOMAIN s) : S # {} =>
          Max(S) \in DOMAIN s /\ S \ {Max(S)} \in SUBSET (DOMAIN s) /\ s[Max(S)] \in A
    BY MaxPosition
  <2>4. f = [S \in SUBSET (DOMAIN s) |-> IF S = {} THEN base ELSE BreakAt(size, f[S \ {Max(S)}], s[Max(S)])]
    BY <1>3, <2>2, <2>3 DEF Folds
  <2>5. Eq(it)
    BY <2>4
  <2> HIDE DEF it
  <2>6. FoldLike(it, X, base, g, s)
    BY <1>3, <2>3, <2>5 DEF FoldLike
  <2> QED
    BY <2>1, <2>6
<1>5. <<>> \in Seq(A) /\ \A s \in Seq(A), a \in A : Append(s, a) \in Seq(A)
  OBVIOUS
<1>6. /\ F[<<>>] = base
      /\ \A s \in Seq(A) : F[s] \in X /\ \A a \in A : F[Append(s, a)] = g[<<F[s], a>>]
  <2> HIDE DEF F
  <2> QED
    BY <1>3, <1>4, FoldLaws
<1>7. /\ Break(<<>>, size) = base
      /\ \A s \in Seq(A) : Break(s, size) \in X
      /\ \A s \in Seq(A), a \in A : Break(Append(s, a), size) = g[<<Break(s, size), a>>]
  BY <1>5, <1>6
<1> QED
  BY <1>3, <1>7 DEF X, base

LEMMA GreedyEmpty ==
  ASSUME NEW size, NEW width
  PROVE  Greedy(<<>>, size, width) = <<>>
<1> DEFINE Eq(f) == f = [S \in SUBSET (DOMAIN <<>>) |->
                           IF S = {} THEN <<>>
                           ELSE Place(size, width, f[S \ {Max(S)}], <<>>[Max(S)])]
           it == CHOOSE f : Eq(f)
<1>1. SUBSET (DOMAIN <<>>) = {{}}
  OBVIOUS
<1>2. Eq([S \in {{}} |-> <<>>])
  BY <1>1
<1>3. Eq(it)
  BY <1>2
<1>4. Greedy(<<>>, size, width) = it[DOMAIN <<>>]
  BY DEF Greedy, FoldLeft, MapThenFoldSet
<1> HIDE DEF it
<1> QED
  BY <1>1, <1>3, <1>4

LEMMA GreedyStep ==
  ASSUME NEW A, NEW size, NEW width, "sp" \in A
  PROVE  \A s \in Seq(Seq(A)), a \in Seq(A) :
           Greedy(Append(s, a), size, width) = Place(size, width, Greedy(s, size, width), a)
<1> DEFINE base == <<>>
           X == Seq(Seq(A))
           g == [r \in X \X Seq(A) |-> Place(size, width, r[1], r[2])]
           F == [s \in Seq(Seq(A)) |-> Greedy(s, size, width)]
<1>1. base \in X
  OBVIOUS
<1>2. ASSUME NEW x \in X, NEW a \in Seq(A) PROVE Place(size, width, x, a) \in X
  <2>1. CASE x = <<>>
    BY <2>1 DEF Place
  <2>2. CASE x # <<>>
    <3>1. Last(x) \in Seq(A) /\ Front(x) \in Seq(Seq(A)) /\ <<"sp">> \in Seq(A)
      BY <2>2 DEF Last, Front
    <3>2. Last(x) \o <<"sp">> \o a \in Seq(A)
      BY <3>1
    <3> QED
      BY <2>2, <3>1, <3>2 DEF Place
  <2> QED
    BY <2>1, <2>2
<1> HIDE DEF X
<1>3. IsFold(X, Seq(A), base, g) /\ \A x \in X, a \in Seq(A) : g[<<x, a>>] = Place(size, width, x, a)
  BY <1>1, <1>2 DEF IsFold
<1> HIDE DEF g, base
<1>4. ASSUME NEW s \in Seq(Seq(A))
      PROVE  \E f : FoldLike(f, X, base, g, s) /\ F[s] = f[DOMAIN s]
  <2> DEFINE Eq(f) == f = [S \in SUBSET (DOMAIN s) |->
                             IF S = {} THEN base ELSE Place(size, width, f[S \ {Max(S)}], s[Max(S)])]
             it == CHOOSE f : Eq(f)
  <2>1. F[s] = it[DOMAIN s]
    BY DEF base, Greedy, FoldLeft, MapThenFoldSet
  <2>2. PICK f : f \in Folds(X, base, g, s)
    BY <1>3, FoldExists
  <2>3. \A S \in SUBSET (DOMAIN s) : S # {} =>
          Max(S) \in DOMAIN s /\ S \ {Max(S)} \in SUBSET (DOMAIN s) /\ s[Max(S)] \in Seq(A)
    BY MaxPosition
  <2>4. f = [S \in SUBSET (DOMAIN s) |-> IF S = {} THEN base ELSE Place(size, width, f[S \ {Max(S)}], s[Max(S)])]
    BY <1>3, <2>2, <2>3 DEF Folds
  <2>5. Eq(it)
    BY <2>4
  <2> HIDE DEF it
  <2>6. FoldLike(it, X, base, g, s)
    BY <1>3, <2>3, <2>5 DEF FoldLike
  <2> QED
    BY <2>1, <2>6
<1>5. <<>> \in Seq(Seq(A)) /\ \A s \in Seq(Seq(A)), a \in Seq(A) : Append(s, a) \in Seq(Seq(A))
  OBVIOUS
<1>6. /\ F[<<>>] = base
      /\ \A s \in Seq(Seq(A)) : F[s] \in X /\ \A a \in Seq(A) : F[Append(s, a)] = g[<<F[s], a>>]
  <2> HIDE DEF F
  <2> QED
    BY <1>3, <1>4, FoldLaws
<1>7. /\ \A s \in Seq(Seq(A)) : Greedy(s, size, width) \in X
      /\ \A s \in Seq(Seq(A)), a \in Seq(A) : Greedy(Append(s, a), size, width) = g[<<Greedy(s, size, width), a>>]
  BY <1>5, <1>6
<1>8. ASSUME NEW s \in Seq(Seq(A)), NEW a \in Seq(A)
      PROVE  Greedy(Append(s, a), size, width) = Place(size, width, Greedy(s, size, width), a)
  BY <1>3, <1>7
<1> QED
  BY <1>8

\* _sanitize without its last step.
Compact(body) == FoldLeft(Put, <<>>, body)

LEMMA CompactLaws ==
  ASSUME NEW A
  PROVE  /\ Compact(<<>>) = <<>>
         /\ \A s \in Seq(A) : /\ Compact(s) \in Seq(A)
                              /\ \A a \in A : Compact(Append(s, a)) = Put(Compact(s), a)
<1> DEFINE base == <<>>
           X == Seq(A)
           g == [r \in X \X A |-> Put(r[1], r[2])]
           F == [s \in Seq(A) |-> Compact(s)]
<1>1. base \in X
  OBVIOUS
<1>2. ASSUME NEW x \in X, NEW a \in A PROVE Put(x, a) \in X
  <2>1. x # <<>> => Front(x) \in Seq(A)
    BY DEF Front
  <2> QED
    BY <2>1 DEF Put
<1> HIDE DEF X
<1>3. IsFold(X, A, base, g) /\ \A x \in X, a \in A : g[<<x, a>>] = Put(x, a)
  BY <1>1, <1>2 DEF IsFold
<1> HIDE DEF g, base
<1>4. ASSUME NEW s \in Seq(A)
      PROVE  \E f : FoldLike(f, X, base, g, s) /\ F[s] = f[DOMAIN s]
  <2> DEFINE Eq(f) == f = [S \in SUBSET (DOMAIN s) |->
                             IF S = {} THEN base ELSE Put(f[S \ {Max(S)}], s[Max(S)])]
             it == CHOOSE f : Eq(f)
  <2>1. F[s] = it[DOMAIN s]
    BY DEF base, Compact, FoldLeft, MapThenFoldSet
  <2>2. PICK f : f \in Folds(X, base, g, s)
    BY <1>3, FoldExists
  <2>3. \A S \in SUBSET (DOMAIN s) : S # {} =>
          Max(S) \in DOMAIN s /\ S \ {Max(S)} \in SUBSET (DOMAIN s) /\ s[Max(S)] \in A
    BY MaxPosition
  <2>4. f = [S \in SUBSET (DOMAIN s) |-> IF S = {} THEN base ELSE Put(f[S \ {Max(S)}], s[Max(S)])]
    BY <1>3, <2>2, <2>3 DEF Folds
  <2>5. Eq(it)
    BY <2>4
  <2> HIDE DEF it
  <2>6. FoldLike(it, X, base, g, s)
    BY <1>3, <2>3, <2>5 DEF FoldLike
  <2> QED
    BY <2>1, <2>6
<1>5. <<>> \in Seq(A) /\ \A s \in Seq(A), a \in A : Append(s, a) \in Seq(A)
  OBVIOUS
<1>6. /\ F[<<>>] = base
      /\ \A s \in Seq(A) : F[s] \in X /\ \A a \in A : F[Append(s, a)] = g[<<F[s], a>>]
  <2> HIDE DEF F
  <2> QED
    BY <1>3, <1>4, FoldLaws
<1>7. /\ Compact(<<>>) = base
      /\ \A s \in Seq(A) : Compact(s) \in X
      /\ \A s \in Seq(A), a \in A : Compact(Append(s, a)) = g[<<Compact(s), a>>]
  BY <1>5, <1>6
<1> QED
  BY <1>3, <1>7 DEF X, base

LEMMA DrawnLaws ==
  ASSUME NEW A
  PROVE  /\ Drawn(<<>>) = <<>>
         /\ \A s \in Seq(A) : /\ Drawn(s) \in Seq(A)
                              /\ \A a \in A : Drawn(Append(s, a)) = Draw(Drawn(s), a)
<1> DEFINE base == <<>>
           X == Seq(A)
           g == [r \in X \X A |-> Draw(r[1], r[2])]
           F == [s \in Seq(A) |-> Drawn(s)]
<1>1. base \in X
  OBVIOUS
<1>2. ASSUME NEW x \in X, NEW a \in A PROVE Draw(x, a) \in X
  BY DEF Draw
<1> HIDE DEF X
<1>3. IsFold(X, A, base, g) /\ \A x \in X, a \in A : g[<<x, a>>] = Draw(x, a)
  BY <1>1, <1>2 DEF IsFold
<1> HIDE DEF g, base
<1>4. ASSUME NEW s \in Seq(A)
      PROVE  \E f : FoldLike(f, X, base, g, s) /\ F[s] = f[DOMAIN s]
  <2> DEFINE Eq(f) == f = [S \in SUBSET (DOMAIN s) |->
                             IF S = {} THEN base ELSE Draw(f[S \ {Max(S)}], s[Max(S)])]
             it == CHOOSE f : Eq(f)
  <2>1. F[s] = it[DOMAIN s]
    BY DEF base, Drawn, FoldLeft, MapThenFoldSet
  <2>2. PICK f : f \in Folds(X, base, g, s)
    BY <1>3, FoldExists
  <2>3. \A S \in SUBSET (DOMAIN s) : S # {} =>
          Max(S) \in DOMAIN s /\ S \ {Max(S)} \in SUBSET (DOMAIN s) /\ s[Max(S)] \in A
    BY MaxPosition
  <2>4. f = [S \in SUBSET (DOMAIN s) |-> IF S = {} THEN base ELSE Draw(f[S \ {Max(S)}], s[Max(S)])]
    BY <1>3, <2>2, <2>3 DEF Folds
  <2>5. Eq(it)
    BY <2>4
  <2> HIDE DEF it
  <2>6. FoldLike(it, X, base, g, s)
    BY <1>3, <2>3, <2>5 DEF FoldLike
  <2> QED
    BY <2>1, <2>6
<1>5. <<>> \in Seq(A) /\ \A s \in Seq(A), a \in A : Append(s, a) \in Seq(A)
  OBVIOUS
<1>6. /\ F[<<>>] = base
      /\ \A s \in Seq(A) : F[s] \in X /\ \A a \in A : F[Append(s, a)] = g[<<F[s], a>>]
  <2> HIDE DEF F
  <2> QED
    BY <1>3, <1>4, FoldLaws
<1>7. /\ Drawn(<<>>) = base
      /\ \A s \in Seq(A) : Drawn(s) \in X
      /\ \A s \in Seq(A), a \in A : Drawn(Append(s, a)) = g[<<Drawn(s), a>>]
  BY <1>5, <1>6
<1> QED
  BY <1>3, <1>7 DEF X, base

LEMMA FlattenLaws ==
  ASSUME NEW A
  PROVE  /\ FlattenSeq(<<>>) = <<>>
         /\ \A ss \in Seq(Seq(A)) :
              /\ FlattenSeq(ss) \in Seq(A)
              /\ \A s \in Seq(A) : FlattenSeq(Append(ss, s)) = FlattenSeq(ss) \o s
<1> DEFINE X == Seq(A)
           base == <<>>
           g == [r \in X \X X |-> r[1] \o r[2]]
           F == [ss \in Seq(X) |-> FlattenSeq(ss)]
<1>1. \A x, y \in X : x \o y \in X
  OBVIOUS
<1>2. base \in X /\ \A x \in X : base \o x = x
  OBVIOUS
<1>3. IsFold(X, X, base, g) /\ \A x, y \in X : g[<<x, y>>] = x \o y
  BY <1>1, <1>2 DEF IsFold
<1> HIDE DEF g, X
<1>4. ASSUME NEW ss \in Seq(X)
      PROVE  \E f : FoldLike(f, X, base, g, ss) /\ F[ss] = f[DOMAIN ss]
  <2> DEFINE n == Len(ss)
             Eq(f) == f = [i \in 1..n |-> IF i = 1 THEN ss[i] ELSE f[i - 1] \o ss[i]]
             it == CHOOSE f : Eq(f)
  <2>0. n \in Nat /\ DOMAIN ss = 1..n /\ \A i \in 1..n : ss[i] \in X
    OBVIOUS
  <2>1. PICK f : f \in Folds(X, base, g, ss)
    BY <1>3, FoldExists
  <2>2. FoldLike(f, X, base, g, ss)
    BY <2>1 DEF Folds, FoldLike
  <2>3. PICK p \in [0..n -> X] : /\ p[0] = base
                                 /\ \A i \in 1..n : p[i] = g[<<p[i - 1], ss[i]>>]
                                 /\ f[DOMAIN ss] = p[n]
    <3>1. StepsTo(f[DOMAIN ss], X, base, g, ss)
      BY <1>3, <2>2, FoldOver
    <3> QED
      BY <1>3, <3>1 DEF StepsTo
  <2>4. CASE n = 0
    <3>1. FlattenSeq(ss) = ss /\ ss = base
      BY <2>4 DEF FlattenSeq
    <3> QED
      BY <2>2, <2>3, <2>4, <3>1
  <2>5. CASE n > 0
    <3>1. FlattenSeq(ss) = it[n]
      BY <2>5, <2>0 DEF FlattenSeq
    <3>2. \A i \in 1..n : p[i] = p[i - 1] \o ss[i]
      <4>1. \A i \in 1..n : i - 1 \in 0..n
        BY <2>0
      <4> QED
        BY <1>3, <2>0, <2>3, <4>1
    <3>3. n >= 1 /\ 1 \in 1..n /\ p[1] = ss[1]
      <4>1. n >= 1 /\ 1 \in 1..n /\ 1 - 1 = 0
        BY <2>0, <2>5
      <4>2. p[1] = p[0] \o ss[1]
        BY <3>2, <4>1
      <4> QED
        BY <1>2, <2>0, <2>3, <4>1, <4>2
    <3>4. Eq([i \in 1..n |-> p[i]])
      <4>1. \A i \in 1..n : i # 1 => i - 1 \in 1..n
        BY <2>0
      <4> QED
        BY <3>2, <3>3, <4>1
    <3>5. Eq(it)
      BY <3>4
    <3> DEFINE N == {i \in 0..n : i = 0 \/ it[i] = p[i]}
    <3> HIDE DEF it
    <3>6. ASSUME NEW i \in 1..n, i - 1 \in N PROVE i \in N
      <4>1. it[i] = IF i = 1 THEN ss[i] ELSE it[i - 1] \o ss[i]
        BY <3>5
      <4>2. CASE i = 1
        BY <2>0, <3>3, <4>1, <4>2
      <4>3. CASE i # 1
        <5>1. i - 1 # 0 /\ i \in 0..n
          BY <2>0, <4>3
        <5>2. it[i - 1] = p[i - 1]
          BY <3>6, <5>1
        <5> QED
          BY <3>2, <4>1, <4>3, <5>1, <5>2
      <4> QED
        BY <4>2, <4>3
    <3>7. 0 \in N
      BY <2>0
    <3> HIDE DEF N
    <3>8. n \in N
      <4>1. \A i \in 0..n : i \in N
        BY <2>0, <3>6, <3>7, Induction
      <4> QED
        BY <2>0, <4>1
    <3>9. it[n] = p[n]
      BY <2>5, <3>8 DEF N
    <3> QED
      BY <2>2, <2>3, <3>1, <3>9
  <2> QED
    BY <2>0, <2>4, <2>5
<1>5. /\ F[<<>>] = base
      /\ \A s \in Seq(X) : F[s] \in X /\ \A a \in X : F[Append(s, a)] = g[<<F[s], a>>]
  <2> HIDE DEF F
  <2> QED
    BY <1>3, <1>4, FoldLaws
<1>6. <<>> \in Seq(X) /\ \A s \in Seq(X), a \in X : Append(s, a) \in Seq(X)
  OBVIOUS
<1>7. /\ FlattenSeq(<<>>) = base
      /\ \A s \in Seq(X) : FlattenSeq(s) \in X
      /\ \A s \in Seq(X), a \in X : FlattenSeq(Append(s, a)) = g[<<FlattenSeq(s), a>>]
  BY <1>5, <1>6
<1> QED
  BY <1>3, <1>7 DEF X, base

LEMMA PrefixLaws ==
  ASSUME NEW A, NEW s \in Seq(A)
  PROVE  /\ Len(s) \in Nat /\ SubSeq(s, 1, 0) = <<>> /\ SubSeq(s, 1, Len(s)) = s
         /\ \A n \in 0..Len(s) : SubSeq(s, 1, n) \in Seq(A)
         /\ \A n \in 1..Len(s) : SubSeq(s, 1, n) = Append(SubSeq(s, 1, n - 1), s[n])
<1>1. Len(s) \in Nat /\ SubSeq(s, 1, 0) = <<>> /\ SubSeq(s, 1, Len(s)) = s
  BY SubSeqEmpty, SubSeqFull
<1> QED
  BY <1>1

LEMMA FrontLast ==
  ASSUME NEW A, NEW s \in Seq(A), s # <<>>
  PROVE  /\ Front(s) \in Seq(A) /\ Last(s) \in A /\ s = Append(Front(s), Last(s))
         /\ Len(Front(s)) = Len(s) - 1
BY DEF Front, Last

LEMMA ConcatAppend ==
  ASSUME NEW A, NEW s \in Seq(A), NEW t \in Seq(A), NEW a \in A
  PROVE  s \o Append(t, a) = Append(s \o t, a)
OBVIOUS

LEMMA FlattenConcat ==
  ASSUME NEW A, NEW ss \in Seq(Seq(A)), NEW tt \in Seq(Seq(A))
  PROVE  FlattenSeq(ss \o tt) = FlattenSeq(ss) \o FlattenSeq(tt)
<1> DEFINE Good == {uu \in Seq(Seq(A)) : FlattenSeq(ss \o uu) = FlattenSeq(ss) \o FlattenSeq(uu)}
<1>1. <<>> \in Good
  <2>1. ss \o <<>> = ss /\ FlattenSeq(ss) \in Seq(A) /\ FlattenSeq(<<>>) = <<>>
    BY FlattenLaws
  <2>2. FlattenSeq(ss) \o <<>> = FlattenSeq(ss)
    BY <2>1
  <2> QED
    BY <2>1, <2>2
<1>2. ASSUME NEW uu \in Seq(Seq(A)), NEW u \in Seq(A), uu \in Good PROVE Append(uu, u) \in Good
  <2>1. ss \o Append(uu, u) = Append(ss \o uu, u) /\ ss \o uu \in Seq(Seq(A))
        /\ Append(uu, u) \in Seq(Seq(A))
    OBVIOUS
  <2>2. /\ FlattenSeq(Append(ss \o uu, u)) = FlattenSeq(ss \o uu) \o u
        /\ FlattenSeq(Append(uu, u)) = FlattenSeq(uu) \o u
    BY <2>1, FlattenLaws
  <2>3. FlattenSeq(ss) \in Seq(A) /\ FlattenSeq(uu) \in Seq(A)
    BY FlattenLaws
  <2>4. (FlattenSeq(ss) \o FlattenSeq(uu)) \o u = FlattenSeq(ss) \o (FlattenSeq(uu) \o u)
    BY <2>3, ConcatAssociative
  <2> QED
    BY <1>2, <2>1, <2>2, <2>4
<1> HIDE DEF Good
<1>3. tt \in Good
  BY <1>1, <1>2, SeqInduction
<1> QED
  BY <1>3 DEF Good

-----------------------------------------------------------------------------
(* What is drawn                                                           *)

LEMMA DrawnConcat ==
  ASSUME NEW A, NEW s \in Seq(A), NEW t \in Seq(A)
  PROVE  Drawn(s \o t) = Drawn(s) \o Drawn(t)
<1> DEFINE Good == {u \in Seq(A) : Drawn(s \o u) = Drawn(s) \o Drawn(u)}
<1>1. <<>> \in Good
  <2>1. s \o <<>> = s /\ Drawn(s) \in Seq(A) /\ Drawn(<<>>) = <<>>
    BY DrawnLaws
  <2>2. Drawn(s) \o <<>> = Drawn(s)
    BY <2>1
  <2> QED
    BY <2>1, <2>2
<1>2. ASSUME NEW u \in Seq(A), NEW a \in A, u \in Good PROVE Append(u, a) \in Good
  <2>1. s \o Append(u, a) = Append(s \o u, a) /\ s \o u \in Seq(A) /\ Append(u, a) \in Seq(A)
    OBVIOUS
  <2>2. /\ Drawn(Append(s \o u, a)) = Draw(Drawn(s \o u), a)
        /\ Drawn(Append(u, a)) = Draw(Drawn(u), a)
    BY <2>1, DrawnLaws
  <2>3. Drawn(s) \in Seq(A) /\ Drawn(u) \in Seq(A)
    BY DrawnLaws
  <2>4. Append(Drawn(s) \o Drawn(u), a) = Drawn(s) \o Append(Drawn(u), a)
    <3>1. \A x, y \in Seq(A) : x \o Append(y, a) = Append(x \o y, a)
      BY ConcatAppend
    <3> QED
      BY <2>3, <3>1, Zenon
  <2> QED
    BY <1>2, <2>1, <2>2, <2>4 DEF Draw
<1> HIDE DEF Good
<1>3. t \in Good
  BY <1>1, <1>2, SeqInduction
<1> QED
  BY <1>3 DEF Good

\* What a list of lines draws.
LEMMA DrawnLines ==
  ASSUME NEW A
  PROVE  /\ Drawn(FlattenSeq(<<>>)) = <<>>
         /\ \A ss, tt \in Seq(Seq(A)) :
              Drawn(FlattenSeq(ss \o tt)) = Drawn(FlattenSeq(ss)) \o Drawn(FlattenSeq(tt))
         /\ \A ss \in Seq(Seq(A)), s \in Seq(A) :
              Drawn(FlattenSeq(Append(ss, s))) = Drawn(FlattenSeq(ss)) \o Drawn(s)
<1>1. \A ss \in Seq(Seq(A)) : FlattenSeq(ss) \in Seq(A)
  BY FlattenLaws
<1>2. Drawn(FlattenSeq(<<>>)) = <<>>
  BY FlattenLaws, DrawnLaws
<1>3. ASSUME NEW ss \in Seq(Seq(A)), NEW tt \in Seq(Seq(A))
      PROVE  Drawn(FlattenSeq(ss \o tt)) = Drawn(FlattenSeq(ss)) \o Drawn(FlattenSeq(tt))
  <2>1. FlattenSeq(ss \o tt) = FlattenSeq(ss) \o FlattenSeq(tt)
    BY FlattenConcat
  <2> QED
    BY <1>1, <2>1, DrawnConcat
<1>4. ASSUME NEW ss \in Seq(Seq(A)), NEW s \in Seq(A)
      PROVE  Drawn(FlattenSeq(Append(ss, s))) = Drawn(FlattenSeq(ss)) \o Drawn(s)
  <2>1. FlattenSeq(Append(ss, s)) = FlattenSeq(ss) \o s
    BY FlattenLaws
  <2> QED
    BY <1>1, <2>1, DrawnConcat
<1> QED
  BY <1>2, <1>3, <1>4

LEMMA FlattenExtend ==
  ASSUME NEW A, NEW lines \in Seq(Seq(A)) \ {<<>>}, NEW a \in A
  PROVE  FlattenSeq(Extend(lines, a)) = Append(FlattenSeq(lines), a)
<1>1. /\ Front(lines) \in Seq(Seq(A)) /\ Last(lines) \in Seq(A)
      /\ lines = Append(Front(lines), Last(lines))
  BY FrontLast
<1>2. FlattenSeq(lines) = FlattenSeq(Front(lines)) \o Last(lines)
  BY <1>1, FlattenLaws
<1>3. FlattenSeq(Extend(lines, a)) = FlattenSeq(Front(lines)) \o Append(Last(lines), a)
  <2>1. Append(Last(lines), a) \in Seq(A)
    BY <1>1
  <2> QED
    BY <1>1, <2>1, FlattenLaws DEF Extend
<1>4. FlattenSeq(Front(lines)) \in Seq(A)
  BY <1>1, FlattenLaws
<1> QED
  BY <1>1, <1>2, <1>3, <1>4

\* Cutting at blanks loses nothing that is drawn, breaking a word nothing at all.
LEMMA SplitDraws ==
  ASSUME NEW A, NEW c \in Blanks, NEW s \in Seq(A)
  PROVE  Drawn(FlattenSeq(Split(s, c))) = Drawn(s)
<1> DEFINE Good == {t \in Seq(A) : Drawn(FlattenSeq(Split(t, c))) = Drawn(t)}
<1>0. /\ Split(<<>>, c) = << <<>> >>
      /\ \A t \in Seq(A) : /\ Split(t, c) \in Seq(Seq(A)) \ {<<>>}
                           /\ \A a \in A : Split(Append(t, a), c) = Cut(c, Split(t, c), a)
  BY SplitLaws
<1>1. <<>> \in Good
  <2>1. FlattenSeq(<< <<>> >>) = <<>>
    <3>1. << <<>> >> = Append(<<>>, <<>>) /\ <<>> \in Seq(Seq(A)) /\ <<>> \in Seq(A)
      OBVIOUS
    <3>2. FlattenSeq(Append(<<>>, <<>>)) = <<>> \o <<>>
      BY <3>1, FlattenLaws
    <3> QED
      BY <3>1, <3>2
  <2> QED
    <3>1. FlattenSeq(Split(<<>>, c)) = <<>>
      BY <1>0, <2>1, Zenon
    <3>2. <<>> \in Seq(A)
      OBVIOUS
    <3> QED
      BY <3>1, <3>2
<1>2. ASSUME NEW t \in Seq(A), NEW a \in A, t \in Good PROVE Append(t, a) \in Good
  <2>1. /\ Split(t, c) \in Seq(Seq(A)) \ {<<>>} /\ Append(t, a) \in Seq(A)
        /\ Split(Append(t, a), c) = Cut(c, Split(t, c), a)
    BY <1>0
  <2>2. Drawn(Append(t, a)) = Draw(Drawn(t), a)
    BY DrawnLaws
  <2>3. CASE a = c
    <3>1. Split(Append(t, a), c) = Append(Split(t, c), <<>>)
      BY <2>1, <2>3 DEF Cut
    <3>2. FlattenSeq(Append(Split(t, c), <<>>)) = FlattenSeq(Split(t, c)) \o <<>>
      <4>1. <<>> \in Seq(A)
        OBVIOUS
      <4> QED
        BY <2>1, <4>1, FlattenLaws
    <3>3. FlattenSeq(Split(t, c)) \in Seq(A)
      BY <2>1, FlattenLaws
    <3>4. FlattenSeq(Split(t, c)) \o <<>> = FlattenSeq(Split(t, c))
      BY <3>3
    <3>5. Draw(Drawn(t), a) = Drawn(t)
      BY <2>3 DEF Draw
    <3> QED
      BY <1>2, <2>1, <2>2, <3>1, <3>2, <3>4, <3>5
  <2>4. CASE a # c
    <3>1. Split(Append(t, a), c) = Extend(Split(t, c), a)
      BY <2>1, <2>4 DEF Cut
    <3>2. FlattenSeq(Extend(Split(t, c), a)) = Append(FlattenSeq(Split(t, c)), a)
          /\ FlattenSeq(Split(t, c)) \in Seq(A)
      BY <2>1, FlattenExtend, FlattenLaws
    <3>3. Drawn(Append(FlattenSeq(Split(t, c)), a)) = Draw(Drawn(FlattenSeq(Split(t, c))), a)
      BY <3>2, DrawnLaws
    <3> QED
      BY <1>2, <2>1, <2>2, <3>1, <3>2, <3>3
  <2> QED
    BY <2>3, <2>4
<1> HIDE DEF Good
<1>3. s \in Good
  BY <1>1, <1>2, SeqInduction
<1> QED
  BY <1>3 DEF Good

\* Lists of lines that draw, one by one, what the members of ss draw.
LEMMA DrawnParts ==
  ASSUME NEW A, NEW P \in Seq(Seq(Seq(A))), NEW ss \in Seq(Seq(A)), Len(P) = Len(ss),
         \A i \in 1..Len(ss) : Drawn(FlattenSeq(P[i])) = Drawn(ss[i])
  PROVE  Drawn(FlattenSeq(FlattenSeq(P))) = Drawn(FlattenSeq(ss))
<1> DEFINE Good == {n \in Nat : n <= Len(ss) =>
              Drawn(FlattenSeq(FlattenSeq(SubSeq(P, 1, n)))) = Drawn(FlattenSeq(SubSeq(ss, 1, n)))}
<1>0. /\ Len(ss) \in Nat /\ SubSeq(ss, 1, 0) = <<>> /\ SubSeq(ss, 1, Len(ss)) = ss
      /\ \A n \in 0..Len(ss) : SubSeq(ss, 1, n) \in Seq(Seq(A))
      /\ \A n \in 1..Len(ss) : SubSeq(ss, 1, n) = Append(SubSeq(ss, 1, n - 1), ss[n])
  <2> DEFINE Y == Seq(A)
  <2>1. ss \in Seq(Y)
    OBVIOUS
  <2> HIDE DEF Y
  <2>2. /\ Len(ss) \in Nat /\ SubSeq(ss, 1, 0) = <<>> /\ SubSeq(ss, 1, Len(ss)) = ss
        /\ \A n \in 0..Len(ss) : SubSeq(ss, 1, n) \in Seq(Y)
        /\ \A n \in 1..Len(ss) : SubSeq(ss, 1, n) = Append(SubSeq(ss, 1, n - 1), ss[n])
    BY <2>1, PrefixLaws
  <2> QED
    BY <2>2 DEF Y
<1>1. /\ SubSeq(P, 1, 0) = <<>> /\ SubSeq(P, 1, Len(ss)) = P
      /\ \A n \in 0..Len(ss) : SubSeq(P, 1, n) \in Seq(Seq(Seq(A)))
      /\ \A n \in 1..Len(ss) : SubSeq(P, 1, n) = Append(SubSeq(P, 1, n - 1), P[n])
  <2> DEFINE Y == Seq(Seq(A))
  <2>1. P \in Seq(Y)
    OBVIOUS
  <2> HIDE DEF Y
  <2>2. /\ SubSeq(P, 1, 0) = <<>> /\ SubSeq(P, 1, Len(P)) = P
        /\ \A n \in 0..Len(P) : SubSeq(P, 1, n) \in Seq(Y)
        /\ \A n \in 1..Len(P) : SubSeq(P, 1, n) = Append(SubSeq(P, 1, n - 1), P[n])
    BY <2>1, PrefixLaws
  <2> QED
    BY <2>2 DEF Y
<1>2. 0 \in Good
  <2>1. FlattenSeq(SubSeq(P, 1, 0)) = SubSeq(ss, 1, 0)
    <3>1. FlattenSeq(<<>>) = <<>>
      BY FlattenLaws
    <3> QED
      BY <1>0, <1>1, <3>1
  <2> QED
    BY <2>1
<1>3. ASSUME NEW n \in 1..Len(ss), n - 1 \in Good PROVE n \in Good
  <2>0. n - 1 \in 0..Len(ss) /\ n \in Nat /\ n - 1 <= Len(ss)
    BY <1>0
  <2> DEFINE Q == SubSeq(P, 1, n - 1)
             rr == SubSeq(ss, 1, n - 1)
  <2>1. /\ Q \in Seq(Seq(Seq(A))) /\ rr \in Seq(Seq(A))
        /\ SubSeq(P, 1, n) = Append(Q, P[n]) /\ SubSeq(ss, 1, n) = Append(rr, ss[n])
    BY <1>0, <1>1, <2>0
  <2>2. Drawn(FlattenSeq(FlattenSeq(Q))) = Drawn(FlattenSeq(rr))
    BY <1>3, <2>0
  <2> HIDE DEF Q, rr
  <2>3. P[n] \in Seq(Seq(A)) /\ ss[n] \in Seq(A) /\ Drawn(FlattenSeq(P[n])) = Drawn(ss[n])
    OBVIOUS
  <2>4. FlattenSeq(Append(Q, P[n])) = FlattenSeq(Q) \o P[n] /\ FlattenSeq(Q) \in Seq(Seq(A))
    BY <2>1, <2>3, FlattenLaws
  <2>5. Drawn(FlattenSeq(FlattenSeq(Q) \o P[n]))
          = Drawn(FlattenSeq(FlattenSeq(Q))) \o Drawn(FlattenSeq(P[n]))
    BY <2>3, <2>4, DrawnLines
  <2>6. Drawn(FlattenSeq(Append(rr, ss[n]))) = Drawn(FlattenSeq(rr)) \o Drawn(ss[n])
    BY <2>1, <2>3, DrawnLines
  <2>7. Drawn(FlattenSeq(FlattenSeq(SubSeq(P, 1, n)))) = Drawn(FlattenSeq(SubSeq(ss, 1, n)))
    BY <2>1, <2>2, <2>3, <2>4, <2>5, <2>6
  <2> QED
    BY <2>0, <2>7
<1> HIDE DEF Good
<1>4. \A n \in 0..Len(ss) : n \in Good
  BY <1>0, <1>2, <1>3, Induction
<1>5. Len(ss) \in Good
  BY <1>0, <1>4
<1>6. Drawn(FlattenSeq(FlattenSeq(SubSeq(P, 1, Len(ss))))) = Drawn(FlattenSeq(SubSeq(ss, 1, Len(ss))))
  BY <1>0, <1>5 DEF Good
<1> QED
  BY <1>0, <1>1, <1>6

-----------------------------------------------------------------------------
(* Words and lines                                                         *)

LEMMA SizeOK ==
  /\ InnerW \in Nat /\ InnerH \in Nat /\ Unit \in Nat /\ Unit > 0 /\ PanelW \in Nat
  /\ Rounds \in Nat /\ Rounds > 0
  /\ MinFont \in Sizes /\ MaxFont \in Sizes
  /\ \A size \in Sizes : size \in Nat /\ 0 < size
<1>1. /\ InnerW \in Nat /\ InnerH \in Nat /\ Unit \in Nat /\ Unit > 0 /\ Rounds \in Nat /\ Rounds > 0
      /\ MinFont \in Nat /\ MinFont > 0 /\ MaxFont \in Nat /\ MinFont <= MaxFont
  BY CardConstants
<1>2. (MaxFont - MinFont) % 2 = 0 /\ (MaxFont - MaxFont) % 2 = 0
  BY <1>1, CardConstants
<1>3. PanelW \in Nat
  BY <1>1 DEF PanelW
<1> QED
  BY <1>1, <1>2, <1>3 DEF Sizes

\* A sum over a text, and over one text after another.
LEMMA TotalLaws ==
  ASSUME NEW A, NEW f, \A a \in A : f[a] \in Nat
  PROVE  /\ Total(f, <<>>) = 0
         /\ \A s \in Seq(A) : Total(f, s) \in Nat
         /\ \A s \in Seq(A), a \in A : Total(f, Append(s, a)) = Total(f, s) + f[a]
         /\ \A s, t \in Seq(A) : Total(f, s \o t) = Total(f, s) + Total(f, t)
<1> DEFINE g == [r \in Nat \X A |-> r[1] + f[r[2]]]
           F == [s \in Seq(A) |-> Total(f, s)]
<1>1. IsFold(Nat, A, 0, g) /\ \A x \in Nat, a \in A : g[<<x, a>>] = x + f[a]
  BY DEF IsFold
<1> HIDE DEF g
<1>2. ASSUME NEW s \in Seq(A)
      PROVE  \E h : FoldLike(h, Nat, 0, g, s) /\ F[s] = h[DOMAIN s]
  <2> DEFINE Eq(h) == h = [S \in SUBSET (DOMAIN s) |->
                             IF S = {} THEN 0 ELSE h[S \ {Max(S)}] + f[s[Max(S)]]]
             it == CHOOSE h : Eq(h)
  <2>1. F[s] = it[DOMAIN s]
    BY DEF Total, FoldLeft, MapThenFoldSet
  <2>2. PICK h : h \in Folds(Nat, 0, g, s)
    BY <1>1, FoldExists
  <2>3. \A S \in SUBSET (DOMAIN s) : S # {} =>
          Max(S) \in DOMAIN s /\ S \ {Max(S)} \in SUBSET (DOMAIN s) /\ s[Max(S)] \in A
    BY MaxPosition
  <2>4. h = [S \in SUBSET (DOMAIN s) |-> IF S = {} THEN 0 ELSE h[S \ {Max(S)}] + f[s[Max(S)]]]
    BY <1>1, <2>2, <2>3 DEF Folds
  <2>5. Eq(it)
    BY <2>4
  <2> HIDE DEF it
  <2>6. FoldLike(it, Nat, 0, g, s)
    BY <1>1, <2>3, <2>5 DEF FoldLike
  <2> QED
    BY <2>1, <2>6
<1>3. <<>> \in Seq(A) /\ \A s \in Seq(A), a \in A : Append(s, a) \in Seq(A)
  OBVIOUS
<1>4. /\ F[<<>>] = 0
      /\ \A s \in Seq(A) : F[s] \in Nat /\ \A a \in A : F[Append(s, a)] = g[<<F[s], a>>]
  <2> HIDE DEF F
  <2> QED
    BY <1>1, <1>2, FoldLaws
<1>5. /\ Total(f, <<>>) = 0
      /\ \A s \in Seq(A) : Total(f, s) \in Nat
      /\ \A s \in Seq(A), a \in A : Total(f, Append(s, a)) = Total(f, s) + f[a]
  BY <1>1, <1>3, <1>4
<1>6. ASSUME NEW s \in Seq(A), NEW t \in Seq(A)
      PROVE  Total(f, s \o t) = Total(f, s) + Total(f, t)
  <2> DEFINE Good == {r \in Seq(A) : Total(f, s \o r) = Total(f, s) + Total(f, r)}
  <2>1. <<>> \in Good
    <3>1. s \o <<>> = s /\ <<>> \in Seq(A)
      OBVIOUS
    <3> QED
      BY <1>5, <3>1
  <2>2. ASSUME NEW r \in Seq(A), NEW a \in A, r \in Good PROVE Append(r, a) \in Good
    <3>1. s \o Append(r, a) = Append(s \o r, a) /\ s \o r \in Seq(A) /\ Append(r, a) \in Seq(A)
      BY ConcatAppend
    <3>2. Total(f, Append(s \o r, a)) = Total(f, s \o r) + f[a]
      BY <1>5, <3>1
    <3>3. Total(f, Append(r, a)) = Total(f, r) + f[a]
      BY <1>5
    <3>4. Total(f, s \o r) = Total(f, s) + Total(f, r)
      BY <2>2
    <3>5. PICK x \in Nat, y \in Nat, z \in Nat : x = Total(f, s) /\ y = Total(f, r) /\ z = f[a]
      BY <1>5
    <3>6. Total(f, s \o Append(r, a)) = x + (y + z) /\ Total(f, s) + Total(f, Append(r, a)) = x + (y + z)
      BY <3>1, <3>2, <3>3, <3>4, <3>5
    <3> QED
      BY <3>1, <3>6
  <2> HIDE DEF Good
  <2>3. t \in Good
    BY <2>1, <2>2, SeqInduction
  <2> QED
    BY <2>3 DEF Good
<1> QED
  BY <1>5, <1>6

LEMMA AtomsOK ==
  /\ "sp" \in Atoms /\ "nl" \in Atoms /\ "dots" \in Atoms
  /\ Glyphs \in SUBSET Atoms /\ Seq(Glyphs) \in SUBSET Seq(Atoms)
BY GlyphConstants DEF Atoms, Blanks

\* The width of a space.
Space(size) == Advance[size]["sp"]

LEMMA MeasureLaws ==
  ASSUME NEW size \in Sizes
  PROVE  /\ Measure(<<>>, size) = 0
         /\ \A l \in Seq(Atoms) : Measure(l, size) \in Nat
         /\ \A l \in Seq(Atoms), a \in Atoms : Measure(Append(l, a), size) = Measure(l, size) + Advance[size][a]
         /\ \A l, m \in Seq(Atoms) : Measure(l \o m, size) = Measure(l, size) + Measure(m, size)
         /\ Space(size) \in Nat
<1> DEFINE f == Advance[size]
<1>1. \A a \in Atoms : f[a] \in Nat
  BY GlyphConstants
<1>2. "sp" \in Atoms
  BY AtomsOK
<1>3. \A l : Measure(l, size) = Total(f, l)
  BY DEF Measure
<1>4. Space(size) = f["sp"]
  BY DEF Space
<1> HIDE DEF f
<1>5. \A a \in Atoms : f[a] \in Nat
  BY <1>1
<1>6. /\ Total(f, <<>>) = 0
      /\ \A s \in Seq(Atoms) : Total(f, s) \in Nat
      /\ \A s \in Seq(Atoms), a \in Atoms : Total(f, Append(s, a)) = Total(f, s) + f[a]
      /\ \A s, t \in Seq(Atoms) : Total(f, s \o t) = Total(f, s) + Total(f, t)
  BY <1>5, TotalLaws
<1>7. \A l \in Seq(Atoms), a \in Atoms : Measure(Append(l, a), size) = Measure(l, size) + Advance[size][a]
  BY <1>3, <1>6 DEF f
<1> QED
  BY <1>1, <1>2, <1>3, <1>4, <1>6, <1>7

\* Lines that fit a width; lines that keep inside the panel if more than an atom; words.
Fits(size, width) == {l \in Seq(Atoms) : Measure(l, size) <= width}
Inside(size) == {l \in Seq(Atoms) : Measure(l, size) <= PanelW \/ Len(l) = 1}
WordsOf(size) == Inside(size) \ {<<>>}

LEMMA BreakOK ==
  ASSUME NEW size \in Sizes, NEW w \in Seq(Atoms)
  PROVE  /\ FlattenSeq(Break(w, size)) = w
         /\ w # <<>> => Break(w, size) \in Seq(WordsOf(size))
<1> DEFINE W == WordsOf(size)
           Good == {t \in Seq(Atoms) : /\ FlattenSeq(Break(t, size)) = t
                                       /\ t # <<>> => Break(t, size) \in Seq(W)}
<1>0. /\ Break(<<>>, size) = << <<>> >>
      /\ \A t \in Seq(Atoms) : /\ Break(t, size) \in Seq(Seq(Atoms)) \ {<<>>}
                               /\ \A a \in Atoms : Break(Append(t, a), size) = BreakAt(size, Break(t, size), a)
  BY BreakLaws
<1>1. <<>> \in Good
  <2>1. FlattenSeq(<< <<>> >>) = <<>>
    <3>1. << <<>> >> = Append(<<>>, <<>>) /\ <<>> \in Seq(Seq(Atoms)) /\ <<>> \in Seq(Atoms)
      OBVIOUS
    <3>2. FlattenSeq(Append(<<>>, <<>>)) = <<>> \o <<>>
      BY <3>1, FlattenLaws
    <3> QED
      BY <3>1, <3>2
  <2>2. FlattenSeq(Break(<<>>, size)) = <<>>
    BY <1>0, <2>1, Zenon
  <2> QED
    BY <2>2
<1>2. ASSUME NEW t \in Seq(Atoms), NEW a \in Atoms, t \in Good PROVE Append(t, a) \in Good
  <2> DEFINE b == Break(t, size)
             c == Break(Append(t, a), size)
  <2>1. b \in Seq(Seq(Atoms)) \ {<<>>} /\ c = BreakAt(size, b, a) /\ FlattenSeq(b) = t
        /\ (t # <<>> => b \in Seq(W)) /\ Append(t, a) \in Seq(Atoms) /\ <<a>> \in Seq(Atoms)
    BY <1>0, <1>2
  <2>2. (c = Append(b, <<a>>) /\ Last(b) # <<>>)
        \/ (c = Extend(b, a) /\ (Last(b) # <<>> => Measure(Append(Last(b), a), size) <= PanelW))
    <3>1. Last(b) \in Seq(Atoms) /\ Append(Last(b), a) \in Seq(Atoms)
      BY <2>1, FrontLast
    <3>2. Measure(Append(Last(b), a), size) \in Nat /\ PanelW \in Nat
      BY <3>1, MeasureLaws, SizeOK
    <3> QED
      BY <2>1, <3>2 DEF BreakAt
  <2>3. FlattenSeq(c) = Append(t, a)
    <3>1. CASE c = Append(b, <<a>>)
      <4>1. FlattenSeq(c) = t \o <<a>>
        BY <2>1, <3>1, FlattenLaws
      <4> QED
        BY <4>1
    <3>2. CASE c = Extend(b, a)
      BY <2>1, <3>2, FlattenExtend
    <3> QED
      BY <2>2, <3>1, <3>2
  <2>4. <<a>> \in W
    <3>1. <<>> \in Seq(Atoms) /\ <<a>> = Append(<<>>, a) /\ <<a>> # <<>>
      OBVIOUS
    <3>2. Len(<<a>>) = 1
      OBVIOUS
    <3> QED
      BY <2>1, <3>1, <3>2 DEF WordsOf, Inside
  <2>5. c \in Seq(W)
    <3>1. CASE t = <<>>
      <4>1. b = << <<>> >> /\ Last(b) = <<>>
        <5>1. b = << <<>> >>
          BY <1>0, <3>1, Zenon
        <5> QED
          BY <5>1 DEF Last
      <4>2. c = Extend(b, a)
        BY <2>2, <4>1
      <4>3. Front(b) = <<>>
        BY <4>1 DEF Front
      <4>4. c = << <<a>> >>
        BY <4>1, <4>2, <4>3 DEF Extend
      <4> QED
        BY <2>4, <4>4
    <3>2. CASE t # <<>> /\ c = Append(b, <<a>>)
      BY <2>1, <2>4, <3>2
    <3>3. CASE /\ t # <<>> /\ c = Extend(b, a)
               /\ Last(b) # <<>> => Measure(Append(Last(b), a), size) <= PanelW
      <4>1. b \in Seq(W) /\ b # <<>>
        BY <2>1, <3>3
      <4> HIDE DEF W
      <4>2. Front(b) \in Seq(W) /\ Last(b) \in W
        BY <4>1, FrontLast
      <4> USE DEF W
      <4>3. Last(b) \in Seq(Atoms) /\ Last(b) # <<>> /\ Append(Last(b), a) \in Seq(Atoms)
        BY <4>2 DEF WordsOf, Inside
      <4>4. Append(Last(b), a) \in W
        <5>1. Append(Last(b), a) # <<>>
          BY <4>3
        <5>2. Measure(Append(Last(b), a), size) <= PanelW
          BY <3>3, <4>3
        <5> QED
          BY <4>3, <5>1, <5>2 DEF WordsOf, Inside
      <4> QED
        BY <3>3, <4>2, <4>4 DEF Extend
    <3> QED
      BY <2>2, <3>1, <3>2, <3>3
  <2> QED
    BY <2>1, <2>3, <2>5
<1> HIDE DEF Good
<1>3. w \in Good
  BY <1>1, <1>2, SeqInduction
<1> QED
  BY <1>3 DEF Good

LEMMA FlattenOne ==
  ASSUME NEW A, NEW w \in Seq(A)
  PROVE  FlattenSeq(<<w>>) = w
<1>1. <<w>> = Append(<<>>, w) /\ <<>> \in Seq(Seq(A))
  OBVIOUS
<1>2. FlattenSeq(Append(<<>>, w)) = FlattenSeq(<<>>) \o w /\ FlattenSeq(<<>>) = <<>>
  BY <1>1, FlattenLaws
<1>3. <<>> \o w = w
  OBVIOUS
<1> QED
  BY <1>1, <1>2, <1>3

LEMMA WordsOK ==
  ASSUME NEW size \in Sizes, NEW par \in Seq(Atoms)
  PROVE  /\ Words(par, size) \in Seq(WordsOf(size))
         /\ Drawn(FlattenSeq(Words(par, size))) = Drawn(par)
<1> DEFINE W == WordsOf(size)
           ss == Split(par, "sp")
           part(w) == IF w = <<>> THEN <<>>
                      ELSE IF Measure(w, size) > PanelW THEN Break(w, size) ELSE <<w>>
           P == [i \in 1..Len(ss) |-> part(ss[i])]
<1>1. ss \in Seq(Seq(Atoms)) /\ Drawn(FlattenSeq(ss)) = Drawn(par)
  BY SplitLaws, SplitDraws DEF Blanks
<1>2. ASSUME NEW w \in Seq(Atoms)
      PROVE  /\ part(w) \in Seq(W) /\ part(w) \in Seq(Seq(Atoms))
             /\ Drawn(FlattenSeq(part(w))) = Drawn(w)
  <2>0. W \subseteq Seq(Atoms)
    BY DEF WordsOf, Inside
  <2>1. CASE w = <<>>
    BY <2>1, FlattenLaws
  <2>2. CASE w # <<>> /\ Measure(w, size) > PanelW
    <3>1. FlattenSeq(Break(w, size)) = w /\ Break(w, size) \in Seq(W)
      BY <2>2, BreakOK
    <3>2. part(w) = Break(w, size)
      BY <2>2
    <3>3. Break(w, size) \in Seq(Seq(Atoms))
      BY BreakLaws
    <3> QED
      BY <3>1, <3>2, <3>3
  <2>3. CASE w # <<>> /\ ~ (Measure(w, size) > PanelW)
    <3>1. part(w) = <<w>>
      BY <2>3
    <3>2. Measure(w, size) \in Nat /\ PanelW \in Nat
      BY MeasureLaws, SizeOK
    <3>3. w \in W
      BY <2>3, <3>2 DEF WordsOf, Inside
    <3> HIDE DEF W, part
    <3>4. <<w>> \in Seq(W) /\ <<w>> \in Seq(Seq(Atoms))
      BY <3>3
    <3> QED
      BY <3>1, <3>4, FlattenOne
  <2> QED
    BY <2>1, <2>2, <2>3
<1> HIDE DEF part
<1>3. Words(par, size) = FlattenSeq(P)
  BY DEF Words, part
<1> HIDE DEF W, ss
<1>4. P \in Seq(Seq(W)) /\ P \in Seq(Seq(Seq(Atoms))) /\ Len(P) = Len(ss)
  BY <1>1, <1>2
<1>5. \A i \in 1..Len(ss) : Drawn(FlattenSeq(P[i])) = Drawn(ss[i])
  BY <1>1, <1>2
<1> HIDE DEF P
<1>6. FlattenSeq(P) \in Seq(W)
  BY <1>4, FlattenLaws
<1>7. Drawn(FlattenSeq(FlattenSeq(P))) = Drawn(FlattenSeq(ss))
  BY <1>1, <1>4, <1>5, DrawnParts
<1> QED
  BY <1>1, <1>3, <1>6, <1>7 DEF W

\* A sequence with one more element is one, and not empty.
LEMMA OneMore ==
  ASSUME NEW S, NEW s \in Seq(S), NEW a \in S
  PROVE  Append(s, a) \in Seq(S) /\ Append(s, a) # <<>>
  BY AppendProperties

\* Greedy fills lines and loses nothing: whatever the words and all lines within the
\* width are, so are its lines.
LEMMA GreedyOK ==
  ASSUME NEW size \in Sizes, NEW width \in Nat,
         NEW W, W \subseteq Seq(Atoms), Fits(size, width) \subseteq W, NEW words \in Seq(W)
  PROVE  /\ Greedy(words, size, width) \in Seq(W)
         /\ words # <<>> => Greedy(words, size, width) # <<>>
         /\ Drawn(FlattenSeq(Greedy(words, size, width))) = Drawn(FlattenSeq(words))
<1> DEFINE Good == {t \in Seq(W) :
             /\ Greedy(t, size, width) \in Seq(W)
             /\ t # <<>> => Greedy(t, size, width) # <<>>
             /\ Drawn(FlattenSeq(Greedy(t, size, width))) = Drawn(FlattenSeq(t))}
<1>0. /\ Greedy(<<>>, size, width) = <<>>
      /\ \A s \in Seq(Seq(Atoms)), a \in Seq(Atoms) :
           Greedy(Append(s, a), size, width) = Place(size, width, Greedy(s, size, width), a)
  <2>1. Greedy(<<>>, size, width) = <<>>
    BY GreedyEmpty
  <2>2. \A s \in Seq(Seq(Atoms)), a \in Seq(Atoms) :
          Greedy(Append(s, a), size, width) = Place(size, width, Greedy(s, size, width), a)
    BY GreedyStep, AtomsOK
  <2> QED
    BY <2>1, <2>2
<1>1. W \subseteq Seq(Atoms) /\ \A w \in Seq(Atoms) : Measure(w, size) <= width => w \in W
  BY DEF Fits
<1>2. <<>> \in Good
  <2>1. <<>> \in Seq(W)
    OBVIOUS
  <2>2. Drawn(FlattenSeq(Greedy(<<>>, size, width))) = Drawn(FlattenSeq(<<>>))
    BY <1>0, Zenon
  <2> QED
    BY <1>0, <2>1, <2>2
<1>3. ASSUME NEW t \in Seq(W), NEW w \in W, t \in Good PROVE Append(t, w) \in Good
  <2>1. t \in Seq(Seq(Atoms)) /\ w \in Seq(Atoms) /\ Append(t, w) \in Seq(W)
    BY <1>1
  <2> DEFINE G == Greedy(t, size, width)
             H == Greedy(Append(t, w), size, width)
             long == Last(G) \o <<"sp">> \o w
  <2>2. H = Place(size, width, G, w)
    BY <1>0, <2>1
  <2>3. G \in Seq(W) /\ Drawn(FlattenSeq(G)) = Drawn(FlattenSeq(t))
    BY <1>3
  <2>4. G \in Seq(Seq(Atoms))
    BY <1>1, <2>3
  <2> HIDE DEF G, H
  <2>5. Drawn(FlattenSeq(Append(t, w))) = Drawn(FlattenSeq(t)) \o Drawn(w)
    BY <2>1, DrawnLines
  <2>6. Drawn(FlattenSeq(Append(G, w))) = Drawn(FlattenSeq(G)) \o Drawn(w)
    BY <2>1, <2>4, DrawnLines
  <2>7. CASE G = <<>>
    <3>1. H = <<w>> /\ <<w>> = Append(G, w)
      BY <2>1, <2>2, <2>7 DEF Place
    <3>2. H \in Seq(W) /\ H # <<>>
      BY <3>1
    <3> QED
      BY <2>1, <2>3, <2>5, <2>6, <3>1, <3>2 DEF H
  <2>8. CASE G # <<>> /\ Measure(long, size) > width
    <3>1. H = Append(G, w)
      BY <2>2, <2>8 DEF Place
    <3>2. H \in Seq(W) /\ H # <<>>
      BY <2>3, <3>1
    <3> QED
      BY <2>1, <2>3, <2>5, <2>6, <3>1, <3>2 DEF H
  <2>9. CASE G # <<>> /\ ~ (Measure(long, size) > width)
    <3>0. Front(G) \in Seq(Seq(Atoms)) /\ Last(G) \in Seq(Atoms) /\ G = Append(Front(G), Last(G))
      BY <2>4, <2>9, FrontLast
    <3>1. Front(G) \in Seq(W)
      BY <2>3, <2>9, FrontLast
    <3>2. H = Append(Front(G), long)
      BY <2>2, <2>9 DEF Place
    <3>3. <<"sp">> \in Seq(Atoms) /\ Last(G) \o <<"sp">> \in Seq(Atoms) /\ long \in Seq(Atoms)
      BY <2>1, <3>0, AtomsOK
    <3>4. long \in W
      <4>1. Measure(long, size) \in Nat
        BY <3>3, MeasureLaws
      <4>2. Measure(long, size) <= width
        BY <2>9, <4>1
      <4> HIDE DEF long
      <4> QED
        BY <1>1, <3>3, <4>2
    <3>5. H \in Seq(W) /\ H # <<>>
      <4> HIDE DEF long
      <4>1. PICK F \in Seq(W), l \in W : F = Front(G) /\ l = long
        BY <3>1, <3>4
      <4>2. H = Append(F, l)
        BY <3>2, <4>1
      <4>3. Append(F, l) \in Seq(W) /\ Append(F, l) # <<>>
        BY OneMore, Zenon
      <4> QED
        BY <4>2, <4>3
    <3>6. Drawn(long) = Drawn(Last(G)) \o Drawn(w)
      <4>1. Drawn(<<"sp">>) = <<>>
        <5>1. <<"sp">> = Append(<<>>, "sp") /\ <<>> \in Seq(Atoms)
          OBVIOUS
        <5>2. Drawn(Append(<<>>, "sp")) = Draw(Drawn(<<>>), "sp") /\ Drawn(<<>>) = <<>>
          BY <5>1, DrawnLaws, AtomsOK
        <5> QED
          BY <5>1, <5>2 DEF Draw, Blanks
      <4>2. Drawn(Last(G) \o <<"sp">>) = Drawn(Last(G)) \o Drawn(<<"sp">>)
        BY <3>0, <3>3, DrawnConcat
      <4>3. Drawn(long) = Drawn(Last(G) \o <<"sp">>) \o Drawn(w)
        BY <2>1, <3>3, DrawnConcat
      <4>4. Drawn(Last(G)) \in Seq(Atoms)
        BY <3>0, DrawnLaws
      <4>5. Drawn(Last(G)) \o <<>> = Drawn(Last(G))
        BY <4>4
      <4> QED
        BY <4>1, <4>2, <4>3, <4>5
    <3> HIDE DEF long
    <3>7. Drawn(FlattenSeq(G)) = Drawn(FlattenSeq(Front(G))) \o Drawn(Last(G))
      BY <3>0, DrawnLines
    <3>8. Drawn(FlattenSeq(H)) = Drawn(FlattenSeq(Front(G))) \o Drawn(long)
      BY <3>0, <3>2, <3>3, DrawnLines
    <3>9. /\ Drawn(FlattenSeq(Front(G))) \in Seq(Atoms) /\ Drawn(Last(G)) \in Seq(Atoms)
          /\ Drawn(w) \in Seq(Atoms)
      <4>1. FlattenSeq(Front(G)) \in Seq(Atoms)
        BY <3>0, FlattenLaws
      <4> QED
        BY <2>1, <3>0, <4>1, DrawnLaws
    <3>10. (Drawn(FlattenSeq(Front(G))) \o Drawn(Last(G))) \o Drawn(w)
             = Drawn(FlattenSeq(Front(G))) \o (Drawn(Last(G)) \o Drawn(w))
      BY <3>9, ConcatAssociative
    <3>11. Drawn(FlattenSeq(H)) = Drawn(FlattenSeq(Append(t, w)))
      BY <2>3, <2>5, <3>6, <3>7, <3>8, <3>10
    <3> QED
      BY <2>1, <3>5, <3>11 DEF H
  <2> QED
    BY <2>7, <2>8, <2>9
<1> HIDE DEF Good
<1>4. words \in Good
  BY <1>2, <1>3, SeqInduction
<1> QED
  BY <1>4 DEF Good

\* The two things greedy wrapping does with a word.
LEMMA PlaceLaws ==
  ASSUME NEW size \in Sizes, NEW width \in Nat,
         NEW lines \in Seq(Seq(Atoms)), NEW w \in Seq(Atoms)
  PROVE  \/ /\ Place(size, width, lines, w) = Append(lines, w)
            /\ lines # <<>> => Measure(Last(lines), size) + Space(size) + Measure(w, size) > width
         \/ /\ lines # <<>>
            /\ \E l \in Seq(Atoms) :
                 /\ Place(size, width, lines, w) = Append(Front(lines), l)
                 /\ Measure(l, size) = Measure(Last(lines), size) + Space(size) + Measure(w, size)
                 /\ Measure(l, size) <= width
<1>1. CASE lines = <<>>
  BY <1>1 DEF Place
<1>2. CASE lines # <<>>
  <2> DEFINE long == Last(lines) \o <<"sp">> \o w
  <2>1. Last(lines) \in Seq(Atoms) /\ <<"sp">> \in Seq(Atoms)
    BY <1>2, FrontLast, AtomsOK
  <2>2. Last(lines) \o <<"sp">> \in Seq(Atoms) /\ long \in Seq(Atoms)
    BY <2>1
  <2>3. Measure(<<"sp">>, size) = Space(size)
    <3>1. <<>> \in Seq(Atoms) /\ <<"sp">> = Append(<<>>, "sp")
      OBVIOUS
    <3>2. Measure(Append(<<>>, "sp"), size) = Measure(<<>>, size) + Space(size)
      BY <3>1, MeasureLaws, AtomsOK DEF Space
    <3>3. Measure(<<>>, size) = 0 /\ Space(size) \in Nat
      BY MeasureLaws
    <3> QED
      BY <3>1, <3>2, <3>3
  <2>4. Measure(Last(lines) \o <<"sp">>, size) = Measure(Last(lines), size) + Measure(<<"sp">>, size)
    BY <2>1, MeasureLaws
  <2>5. Measure(long, size) = Measure(Last(lines) \o <<"sp">>, size) + Measure(w, size)
    BY <2>2, MeasureLaws
  <2>6. Measure(long, size) \in Nat
    BY <2>2, MeasureLaws
  <2>7. Measure(long, size) = Measure(Last(lines), size) + Space(size) + Measure(w, size)
    BY <2>3, <2>4, <2>5
  <2>8. Place(size, width, lines, w)
          = IF Measure(long, size) > width THEN Append(lines, w) ELSE Append(Front(lines), long)
    BY <1>2 DEF Place
  <2> HIDE DEF long
  <2>9. CASE Measure(long, size) > width
    BY <2>7, <2>8, <2>9
  <2>10. CASE ~ (Measure(long, size) > width)
    <3>1. Measure(long, size) <= width /\ Place(size, width, lines, w) = Append(Front(lines), long)
      BY <2>6, <2>8, <2>10
    <3> QED
      BY <1>2, <2>2, <2>7, <3>1
  <2> QED
    BY <2>9, <2>10
<1> QED
  BY <1>1, <1>2

LEMMA GreedyTyped ==
  ASSUME NEW size \in Sizes, NEW width \in Nat, NEW words \in Seq(Seq(Atoms))
  PROVE  Greedy(words, size, width) \in Seq(Seq(Atoms))
<1> DEFINE Good == {t \in Seq(Seq(Atoms)) : Greedy(t, size, width) \in Seq(Seq(Atoms))}
<1>1. <<>> \in Good
  <2>1. <<>> \in Seq(Seq(Atoms)) /\ Greedy(<<>>, size, width) = <<>>
    BY GreedyEmpty
  <2> QED
    BY <2>1
<1>2. ASSUME NEW t \in Seq(Seq(Atoms)), NEW w \in Seq(Atoms), t \in Good PROVE Append(t, w) \in Good
  <2>1. Greedy(Append(t, w), size, width) = Place(size, width, Greedy(t, size, width), w)
    BY GreedyStep, AtomsOK
  <2>2. PICK G \in Seq(Seq(Atoms)) : G = Greedy(t, size, width)
    BY <1>2
  <2>3. Place(size, width, G, w) \in Seq(Seq(Atoms))
    <3>1. CASE Place(size, width, G, w) = Append(G, w)
      <4>1. Append(G, w) \in Seq(Seq(Atoms))
        OBVIOUS
      <4> QED
        BY <3>1, <4>1
    <3>2. CASE G # <<>> /\ \E l \in Seq(Atoms) : Place(size, width, G, w) = Append(Front(G), l)
      <4>1. PICK l \in Seq(Atoms) : Place(size, width, G, w) = Append(Front(G), l)
        BY <3>2
      <4>2. Front(G) \in Seq(Seq(Atoms))
        BY <3>2, FrontLast
      <4>3. Append(Front(G), l) \in Seq(Seq(Atoms))
        BY <4>2
      <4> QED
        BY <4>1, <4>3
    <3>3. \/ /\ Place(size, width, G, w) = Append(G, w)
             /\ G # <<>> => Measure(Last(G), size) + Space(size) + Measure(w, size) > width
          \/ /\ G # <<>>
             /\ \E l \in Seq(Atoms) :
                  /\ Place(size, width, G, w) = Append(Front(G), l)
                  /\ Measure(l, size) = Measure(Last(G), size) + Space(size) + Measure(w, size)
                  /\ Measure(l, size) <= width
      BY PlaceLaws, Zenon
    <3> QED
      BY <3>1, <3>2, <3>3, Zenon
  <2>4. Append(t, w) \in Seq(Seq(Atoms))
    OBVIOUS
  <2> QED
    BY <2>1, <2>2, <2>3, <2>4
<1> DEFINE Y == Seq(Atoms)
<1>3. <<>> \in Good /\ (\A t \in Seq(Y), w \in Y : t \in Good => Append(t, w) \in Good) /\ words \in Seq(Y)
  BY <1>1, <1>2
<1> HIDE DEF Good, Y
<1>4. words \in Good
  BY <1>3, SeqInduction
<1> QED
  BY <1>4 DEF Good

\* How long the last line is.
Used(lines, size) == IF lines = <<>> THEN 0 ELSE Measure(Last(lines), size)

\* k lines, the last of them x long, become K, the last of them X long, by a word of
\* length m, behind a space of length s: it begins a line, or the last line had room.
Moves(k, x, K, X, m, s, width) ==
  \/ K = k + 1 /\ X = m
  \/ k > 0 /\ K = k /\ X = x + s + m /\ X <= width

\* Greedy begins a line only when it must.
MovesLate(k, x, K, X, m, s, width) ==
  \/ K = k + 1 /\ X = m /\ (k > 0 => x + s + m > width)
  \/ k > 0 /\ K = k /\ X = x + s + m /\ X <= width

LEMMA GreedyCount ==
  ASSUME NEW size \in Sizes, NEW width \in Nat,
         NEW words \in Seq(Seq(Atoms)), NEW w \in Seq(Atoms)
  PROVE  LET G == Greedy(words, size, width)
             H == Greedy(Append(words, w), size, width) IN
         /\ Len(G) \in Nat /\ Len(H) \in Nat /\ Measure(w, size) \in Nat
         /\ Used(G, size) \in Nat /\ Used(H, size) \in Nat
         /\ MovesLate(Len(G), Used(G, size), Len(H), Used(H, size), Measure(w, size), Space(size), width)
<1> DEFINE G == Greedy(words, size, width)
           H == Greedy(Append(words, w), size, width)
<1>1. H = Place(size, width, G, w)
  BY GreedyStep, AtomsOK
<1>2. G \in Seq(Seq(Atoms))
  BY GreedyTyped
<1>3. H \in Seq(Seq(Atoms))
  <2>1. Append(words, w) \in Seq(Seq(Atoms))
    OBVIOUS
  <2> QED
    BY <2>1, GreedyTyped
<1> HIDE DEF G, H
<1>4. Measure(w, size) \in Nat
  BY MeasureLaws
<1>5. ASSUME NEW lines \in Seq(Seq(Atoms)) PROVE Used(lines, size) \in Nat
  <2>1. CASE lines = <<>>
    BY <2>1 DEF Used
  <2>2. CASE lines # <<>>
    <3>1. Last(lines) \in Seq(Atoms)
      BY <2>2, FrontLast
    <3>2. Measure(Last(lines), size) \in Nat
      BY <3>1, MeasureLaws
    <3> QED
      BY <2>2, <3>2 DEF Used
  <2> QED
    BY <2>1, <2>2
<1>6. Len(G) \in Nat /\ Len(H) \in Nat /\ (Len(G) > 0 <=> G # <<>>)
  BY <1>2, <1>3
<1>7. \/ /\ Place(size, width, G, w) = Append(G, w)
         /\ G # <<>> => Measure(Last(G), size) + Space(size) + Measure(w, size) > width
      \/ /\ G # <<>>
         /\ \E l \in Seq(Atoms) :
              /\ Place(size, width, G, w) = Append(Front(G), l)
              /\ Measure(l, size) = Measure(Last(G), size) + Space(size) + Measure(w, size)
              /\ Measure(l, size) <= width
  BY <1>2, PlaceLaws, Zenon
<1>8. MovesLate(Len(G), Used(G, size), Len(H), Used(H, size), Measure(w, size), Space(size), width)
  <2>1. CASE /\ H = Append(G, w)
             /\ G # <<>> => Measure(Last(G), size) + Space(size) + Measure(w, size) > width
    <3>1. Len(H) = Len(G) + 1 /\ Last(H) = w /\ H # <<>>
      <4>1. H = Append(G, w)
        BY <2>1
      <4>2. Len(H) = Len(G) + 1 /\ H[Len(G) + 1] = w
        BY <1>2, <4>1
      <4>3. H # <<>>
        BY <1>2, <4>1
      <4> QED
        BY <4>2, <4>3 DEF Last
    <3>2. Used(H, size) = Measure(w, size)
      BY <3>1 DEF Used
    <3>3. Len(G) > 0 => Used(G, size) + Space(size) + Measure(w, size) > width
      BY <1>6, <2>1 DEF Used
    <3> QED
      BY <3>1, <3>2, <3>3, Zenon DEF MovesLate
  <2>2. CASE \E l \in Seq(Atoms) :
                /\ G # <<>> /\ H = Append(Front(G), l)
                /\ Measure(l, size) = Measure(Last(G), size) + Space(size) + Measure(w, size)
                /\ Measure(l, size) <= width
    <3>1. PICK l \in Seq(Atoms) : /\ G # <<>> /\ H = Append(Front(G), l)
                                  /\ Measure(l, size) = Measure(Last(G), size) + Space(size) + Measure(w, size)
                                  /\ Measure(l, size) <= width
      BY <2>2
    <3>2. Front(G) \in Seq(Seq(Atoms)) /\ Len(Front(G)) = Len(G) - 1
      BY <1>2, <3>1, FrontLast
    <3>3. Len(H) = Len(G) /\ Last(H) = l /\ H # <<>>
      BY <1>6, <3>1, <3>2 DEF Last
    <3>4. Used(H, size) = Measure(l, size) /\ Used(G, size) = Measure(Last(G), size)
      BY <3>1, <3>3 DEF Used
    <3> QED
      <4>1. Len(G) > 0 /\ Used(H, size) = Used(G, size) + Space(size) + Measure(w, size) /\ Used(H, size) <= width
        BY <1>6, <3>1, <3>4
      <4> QED
        BY <3>3, <4>1, Zenon DEF MovesLate
  <2> QED
    BY <1>1, <1>7, <2>1, <2>2, Zenon
<1> QED
  BY <1>2, <1>3, <1>4, <1>5, <1>6, <1>8 DEF G, H

\* A wider line never takes more lines.
LEMMA GreedyMonotone ==
  ASSUME NEW size \in Sizes, NEW u \in Nat, NEW v \in Nat, u <= v,
         NEW words \in Seq(Seq(Atoms))
  PROVE  Len(Greedy(words, size, v)) <= Len(Greedy(words, size, u))
<1> DEFINE N(t, x) == Len(Greedy(t, size, x))
           L(t, x) == Used(Greedy(t, size, x), size)
           Good == {t \in Seq(Seq(Atoms)) : N(t, v) <= N(t, u) /\ (N(t, v) = N(t, u) => L(t, v) <= L(t, u))}
<1>1. <<>> \in Good
  <2>1. <<>> \in Seq(Seq(Atoms)) /\ Greedy(<<>>, size, u) = <<>> /\ Greedy(<<>>, size, v) = <<>>
    BY GreedyEmpty
  <2> QED
    BY <2>1 DEF Used
<1>2. ASSUME NEW t \in Seq(Seq(Atoms)), NEW w \in Seq(Atoms), t \in Good PROVE Append(t, w) \in Good
  <2> DEFINE T == Append(t, w)
             m == Measure(w, size)
  <2>1. /\ N(t, u) \in Nat /\ N(T, u) \in Nat /\ m \in Nat /\ L(t, u) \in Nat /\ L(T, u) \in Nat
        /\ MovesLate(N(t, u), L(t, u), N(T, u), L(T, u), m, Space(size), u)
    BY GreedyCount, Zenon
  <2>2. /\ N(t, v) \in Nat /\ N(T, v) \in Nat /\ L(t, v) \in Nat /\ L(T, v) \in Nat
        /\ MovesLate(N(t, v), L(t, v), N(T, v), L(T, v), m, Space(size), v)
    BY GreedyCount, Zenon
  <2>3. N(t, v) <= N(t, u) /\ (N(t, v) = N(t, u) => L(t, v) <= L(t, u))
    BY <1>2
  <2>4. T \in Seq(Seq(Atoms))
    OBVIOUS
  <2> HIDE DEF N, L, T, m
  <2>5. Moves(N(t, u), L(t, u), N(T, u), L(T, u), m, Space(size), u)
    BY <2>1 DEF Moves, MovesLate
  <2>6. N(T, v) <= N(T, u) /\ (N(T, v) = N(T, u) => L(T, v) <= L(T, u))
    <3>1. PICK k \in Nat, x \in Nat, K \in Nat, X \in Nat :
            k = N(t, u) /\ x = L(t, u) /\ K = N(T, u) /\ X = L(T, u)
      BY <2>1
    <3>2. PICK j \in Nat, y \in Nat, J \in Nat, Y \in Nat :
            j = N(t, v) /\ y = L(t, v) /\ J = N(T, v) /\ Y = L(T, v)
      BY <2>2
    <3>3. PICK s \in Nat : /\ s = Space(size)
                           /\ Moves(k, x, K, X, m, s, u) /\ MovesLate(j, y, J, Y, m, s, v)
      BY <2>2, <2>5, <3>1, <3>2, MeasureLaws
    <3>4. j <= k /\ (j = k => y <= x) /\ m \in Nat
      BY <2>1, <2>3, <3>1, <3>2
    <3>5. J <= K /\ (J = K => Y <= X)
      BY <3>3, <3>4 DEF Moves, MovesLate
    <3> QED
      BY <3>1, <3>2, <3>5
  <2> QED
    BY <2>4, <2>6 DEF T
<1> DEFINE Y == Seq(Atoms)
<1>3. <<>> \in Good /\ (\A t \in Seq(Y), w \in Y : t \in Good => Append(t, w) \in Good) /\ words \in Seq(Y)
  BY <1>1, <1>2
<1> HIDE DEF N, L
<1> HIDE DEF Good, Y
<1>4. words \in Good
  BY <1>3, SeqInduction
<1> QED
  BY <1>4 DEF Good, N

\* v is the least width from lo to hi at which it holds that N[v] <= n, or hi.
IsLeast(N, n, lo, hi, v) ==
  /\ v \in lo..hi
  /\ v = hi \/ N[v] <= n
  /\ \A x \in lo..hi : N[x] <= n => v <= x

IsMonotone(N, top) ==
  /\ N \in [0..top -> Nat]
  /\ \A u, v \in 0..top : u <= v => N[v] <= N[u]

\* One bisection.
Bisection(N, n, top, f) ==
  f = [r \in Nat \X (0..top) |->
         IF r[1] >= r[2] THEN r[2]
         ELSE IF N[(r[1] + r[2]) \div 2] <= n THEN f[<<r[1], (r[1] + r[2]) \div 2>>]
                                              ELSE f[<<(r[1] + r[2]) \div 2 + 1, r[2]>>]]

LEMMA Halves ==
  ASSUME NEW lo \in Nat, NEW hi \in Nat, lo < hi
  PROVE  /\ (lo + hi) \div 2 \in lo..hi /\ (lo + hi) \div 2 < hi
         /\ (lo + hi) \div 2 + 1 \in lo..hi /\ (lo + hi) \div 2 \in Nat
OBVIOUS

LEMMA BisectionExists ==
  ASSUME NEW top \in Nat, NEW n \in Nat, NEW N, IsMonotone(N, top)
  PROVE  \E f : Bisection(N, n, top, f)
<1> DEFINE C(lo, hi) == {v \in lo..hi : v = hi \/ N[v] <= n}
           h == [r \in Nat \X (0..top) |-> IF r[1] >= r[2] THEN r[2] ELSE Min(C(r[1], r[2]))]
<1>0. \A u \in 0..top : N[u] \in Nat
  BY DEF IsMonotone
<1>1. ASSUME NEW lo \in 0..top, NEW hi \in 0..top, lo <= hi
      PROVE  /\ Min(C(lo, hi)) \in C(lo, hi)
             /\ \A v \in C(lo, hi) : Min(C(lo, hi)) <= v
             /\ h[<<lo, hi>>] = Min(C(lo, hi))
  <2>1. C(lo, hi) \subseteq Nat /\ hi \in C(lo, hi)
    BY <1>1
  <2> HIDE DEF C
  <2>2. Min(C(lo, hi)) \in C(lo, hi) /\ \A v \in C(lo, hi) : Min(C(lo, hi)) <= v
    BY <2>1, MinOf
  <2>3. CASE lo < hi
    BY <2>2, <2>3
  <2>4. CASE lo = hi
    <3>1. h[<<lo, hi>>] = hi
      BY <2>4
    <3>2. Min(C(lo, hi)) = hi
      BY <2>2, <2>4 DEF C
    <3> QED
      BY <2>2, <3>1, <3>2
  <2> QED
    BY <1>1, <2>3, <2>4
<1>2. ASSUME NEW lo \in 0..top, NEW hi \in 0..top, lo < hi, NEW mid, mid = (lo + hi) \div 2
      PROVE  h[<<lo, hi>>] = IF N[mid] <= n THEN h[<<lo, mid>>] ELSE h[<<mid + 1, hi>>]
  <2>1. /\ mid \in lo..hi /\ mid < hi /\ mid + 1 \in lo..hi /\ mid \in 0..top /\ mid + 1 \in 0..top
        /\ lo <= mid /\ mid + 1 <= hi /\ lo <= hi
    BY <1>2, Halves
  <2> DEFINE a == Min(C(lo, hi))
             b == Min(C(lo, mid))
             c == Min(C(mid + 1, hi))
  <2> HIDE DEF C, h
  <2>2. a \in C(lo, hi) /\ (\A v \in C(lo, hi) : a <= v) /\ h[<<lo, hi>>] = a
    BY <1>1, <2>1
  <2>3. b \in C(lo, mid) /\ (\A v \in C(lo, mid) : b <= v) /\ h[<<lo, mid>>] = b
    BY <1>1, <2>1
  <2>4. c \in C(mid + 1, hi) /\ (\A v \in C(mid + 1, hi) : c <= v) /\ h[<<mid + 1, hi>>] = c
    BY <1>1, <2>1
  <2> HIDE DEF a, b, c
  <2> USE DEF C
  <2>5. CASE N[mid] <= n
    <3>1. b \in C(lo, hi)
      BY <2>1, <2>3, <2>5
    <3>2. a \in C(lo, mid)
      <4>1. mid \in C(lo, hi)
        BY <2>1, <2>5
      <4>2. a <= mid
        BY <2>2, <4>1
      <4> QED
        BY <2>1, <2>2, <4>2
    <3>3. a <= b /\ b <= a
      BY <2>2, <2>3, <3>1, <3>2
    <3>4. a \in Int /\ b \in Int
      BY <2>2, <2>3
    <3> QED
      BY <2>2, <2>3, <2>5, <3>3, <3>4
  <2>6. CASE ~ (N[mid] <= n)
    <3>1. c \in C(lo, hi)
      BY <2>1, <2>4
    <3>2. a \in C(mid + 1, hi)
      <4>1. a > mid
        <5> SUFFICES ASSUME a <= mid PROVE FALSE
          BY <2>1, <2>2
        <5>1. a \in 0..top /\ N[mid] <= N[a] /\ N[a] \in Nat /\ N[mid] \in Nat
          BY <1>0, <2>1, <2>2 DEF IsMonotone
        <5>2. N[a] <= n
          BY <2>1, <2>2
        <5> QED
          BY <2>6, <5>1, <5>2
      <4> QED
        BY <2>1, <2>2, <4>1
    <3>3. a <= c /\ c <= a
      BY <2>2, <2>4, <3>1, <3>2
    <3>4. a \in Int /\ c \in Int
      BY <2>2, <2>4
    <3> QED
      BY <2>2, <2>4, <2>6, <3>3, <3>4
  <2> QED
    BY <2>5, <2>6
<1>3. \A r \in Nat \X (0..top) :
        h[r] = IF r[1] >= r[2] THEN r[2]
               ELSE IF N[(r[1] + r[2]) \div 2] <= n THEN h[<<r[1], (r[1] + r[2]) \div 2>>]
                                                    ELSE h[<<(r[1] + r[2]) \div 2 + 1, r[2]>>]
  <2> TAKE r \in Nat \X (0..top)
  <2>1. r[1] \in Nat /\ r[2] \in 0..top /\ r = <<r[1], r[2]>>
    OBVIOUS
  <2>2. CASE r[1] >= r[2]
    BY <2>2
  <2>3. CASE ~ (r[1] >= r[2])
    <3>1. r[1] < r[2] /\ r[1] \in 0..top
      BY <2>1, <2>3
    <3> HIDE DEF h
    <3>2. h[<<r[1], r[2]>>] = IF N[(r[1] + r[2]) \div 2] <= n THEN h[<<r[1], (r[1] + r[2]) \div 2>>]
                                                    ELSE h[<<(r[1] + r[2]) \div 2 + 1, r[2]>>]
      BY <1>2, <2>1, <3>1
    <3> QED
      BY <2>1, <2>3, <3>2
  <2> QED
    BY <2>2, <2>3
<1>4. Bisection(N, n, top, h)
  BY <1>3 DEF Bisection
<1> QED
  BY <1>4

LEMMA BisectionIs ==
  ASSUME NEW top \in Nat, NEW n \in Nat, NEW N, IsMonotone(N, top), NEW f, Bisection(N, n, top, f)
  PROVE  /\ \A lo, hi \in 0..top : lo <= hi => IsLeast(N, n, lo, hi, f[<<lo, hi>>])
         /\ \A lo \in Nat, hi \in 0..top : lo >= hi => f[<<lo, hi>>] = hi
<1> DEFINE Good == {d \in Nat : \A lo, hi \in 0..top :
                      lo <= hi /\ hi - lo <= d => IsLeast(N, n, lo, hi, f[<<lo, hi>>])}
<1>0. \A u \in 0..top : N[u] \in Nat
  BY DEF IsMonotone
<1>1. \A lo, hi \in 0..top :
        f[<<lo, hi>>] = IF lo >= hi THEN hi
                        ELSE IF N[(lo + hi) \div 2] <= n THEN f[<<lo, (lo + hi) \div 2>>]
                                                         ELSE f[<<(lo + hi) \div 2 + 1, hi>>]
  BY DEF Bisection
<1>2. ASSUME NEW lo \in 0..top PROVE IsLeast(N, n, lo, lo, f[<<lo, lo>>])
  <2>1. f[<<lo, lo>>] = IF lo >= lo THEN lo
                        ELSE IF N[(lo + lo) \div 2] <= n THEN f[<<lo, (lo + lo) \div 2>>]
                                                         ELSE f[<<(lo + lo) \div 2 + 1, lo>>]
    BY <1>1
  <2>2. f[<<lo, lo>>] = lo
    BY <2>1
  <2> QED
    BY <2>2 DEF IsLeast
<1>3. 0 \in Good
  <2> SUFFICES ASSUME NEW lo \in 0..top, NEW hi \in 0..top, lo <= hi, hi - lo <= 0
               PROVE  IsLeast(N, n, lo, hi, f[<<lo, hi>>])
    OBVIOUS
  <2>1. lo = hi
    OBVIOUS
  <2> QED
    BY <1>2, <2>1
<1>4. ASSUME NEW d \in 1..top, d - 1 \in Good PROVE d \in Good
  <2> SUFFICES ASSUME NEW lo \in 0..top, NEW hi \in 0..top, lo <= hi, hi - lo <= d
               PROVE  IsLeast(N, n, lo, hi, f[<<lo, hi>>])
    OBVIOUS
  <2>1. CASE lo = hi
    BY <1>2, <2>1
  <2>2. CASE lo < hi
    <3>0. PICK mid \in Nat : mid = (lo + hi) \div 2
      BY Halves
    <3>1. /\ mid \in lo..hi /\ mid < hi /\ mid + 1 \in lo..hi /\ mid \in 0..top /\ mid + 1 \in 0..top
          /\ lo <= mid /\ mid + 1 <= hi
      BY <2>2, <3>0, Halves
    <3>2. IsLeast(N, n, lo, mid, f[<<lo, mid>>])
      <4>1. mid - lo <= d - 1
        BY <3>1
      <4> QED
        BY <1>4, <3>1, <4>1
    <3>3. IsLeast(N, n, mid + 1, hi, f[<<mid + 1, hi>>])
      <4>1. hi - (mid + 1) <= d - 1
        BY <3>1
      <4> QED
        BY <1>4, <3>1, <4>1
    <3>4. f[<<lo, hi>>] = IF N[mid] <= n THEN f[<<lo, mid>>] ELSE f[<<mid + 1, hi>>]
      BY <1>1, <2>2, <3>0
    <3>5. CASE N[mid] <= n
      <4>1. f[<<lo, hi>>] = f[<<lo, mid>>]
        BY <3>4, <3>5
      <4> QED
        BY <3>1, <3>2, <3>5, <4>1 DEF IsLeast
    <3>6. CASE ~ (N[mid] <= n)
      <4>1. f[<<lo, hi>>] = f[<<mid + 1, hi>>]
        BY <3>4, <3>6
      <4>2. ASSUME NEW x \in lo..hi, N[x] <= n PROVE x \in (mid + 1)..hi
        <5> SUFFICES ASSUME x <= mid PROVE FALSE
          BY <3>1
        <5>1. N[mid] <= N[x] /\ N[x] \in Nat /\ N[mid] \in Nat
          BY <1>0, <3>1 DEF IsMonotone
        <5> QED
          BY <3>6, <4>2, <5>1
      <4> QED
        BY <3>1, <3>3, <4>1, <4>2 DEF IsLeast
    <3> QED
      BY <3>5, <3>6
  <2> QED
    BY <2>1, <2>2
<1> HIDE DEF Good
<1>5. \A d \in 0..top : d \in Good
  BY <1>3, <1>4, Induction
<1>6. ASSUME NEW lo \in 0..top, NEW hi \in 0..top, lo <= hi
      PROVE  IsLeast(N, n, lo, hi, f[<<lo, hi>>])
  <2>1. hi - lo \in 0..top
    BY <1>6
  <2>2. hi - lo \in Good
    BY <1>5, <2>1
  <2> QED
    BY <1>6, <2>2 DEF Good
<1>7. \A lo \in Nat, hi \in 0..top : lo >= hi => f[<<lo, hi>>] = hi
  BY DEF Bisection
<1> QED
  BY <1>6, <1>7

\* Pixels and their fractions.
LEMMA PixelLaws ==
  /\ \A u, v \in Nat : u <= v => u * Unit \in Nat /\ v * Unit \in Nat /\ u * Unit <= v * Unit
  /\ \A m \in Nat : m \div Unit \in Nat
  /\ \A m, v \in Nat : m <= v * Unit => m \div Unit <= v
  /\ \A m \in Nat : \E v \in Nat : m <= v * Unit /\ v * Unit < m + Unit
<1>0. Unit \in Nat /\ Unit > 0
  BY SizeOK
<1>1. ASSUME NEW u \in Nat, NEW v \in Nat, u <= v
      PROVE  u * Unit \in Nat /\ v * Unit \in Nat /\ u * Unit <= v * Unit
  BY <1>0, <1>1
<1>2. ASSUME NEW m \in Nat
      PROVE  m \div Unit \in Nat /\ (m \div Unit) * Unit <= m /\ m < (m \div Unit) * Unit + Unit
  BY <1>0
<1>3. ASSUME NEW m \in Nat, NEW v \in Nat, m <= v * Unit PROVE m \div Unit <= v
  <2>1. PICK d \in Nat : d = m \div Unit /\ d * Unit <= m
    BY <1>2
  <2> SUFFICES ASSUME d > v PROVE FALSE
    BY <2>1
  <2>2. (v + 1) * Unit <= d * Unit
    BY <1>1
  <2>3. (v + 1) * Unit = v * Unit + Unit /\ v * Unit \in Nat /\ d * Unit \in Nat
    BY <1>0
  <2> QED
    BY <1>0, <1>3, <2>1, <2>2, <2>3
<1>4. ASSUME NEW m \in Nat PROVE \E v \in Nat : m <= v * Unit /\ v * Unit < m + Unit
  <2>1. PICK d \in Nat : d * Unit <= m /\ m < d * Unit + Unit
    BY <1>2
  <2>2. (d + 1) * Unit = d * Unit + Unit /\ d * Unit \in Nat /\ d + 1 \in Nat
    BY <1>0
  <2>3. CASE d * Unit = m
    BY <1>0, <2>3
  <2>4. CASE d * Unit < m
    <3>1. PICK x \in Nat, y \in Nat : x = d * Unit /\ y = (d + 1) * Unit /\ y = x + Unit
      BY <1>0, <2>2
    <3>2. m <= y /\ y < m + Unit
      BY <1>0, <2>1, <2>4, <3>1
    <3>3. m <= (d + 1) * Unit /\ (d + 1) * Unit < m + Unit
      BY <3>1, <3>2
    <3> QED
      BY <2>2, <3>3
  <2> QED
    BY <2>1, <2>2, <2>3, <2>4
<1> QED
  BY <1>1, <1>2, <1>3, <1>4

\* The widest word.
LongestWord(words, size) == Max({Measure(w, size) : w \in ToSet(words)})

LEMMA LongestOK ==
  ASSUME NEW size \in Sizes, NEW words \in Seq(Seq(Atoms)), words # <<>>
  PROVE  /\ LongestWord(words, size) \in Nat
         /\ \A i \in 1..Len(words) : Measure(words[i], size) <= LongestWord(words, size)
         /\ \E i \in 1..Len(words) : Measure(words[i], size) = LongestWord(words, size)
<1> DEFINE n == Len(words)
           S == {Measure(w, size) : w \in ToSet(words)}
           f == [i \in 1..n |-> Measure(words[i], size)]
<1>0. n \in Nat /\ 1 \in 1..n
  OBVIOUS
<1>1. \A i \in 1..n : Measure(words[i], size) \in Nat
  <2>1. \A i \in 1..n : words[i] \in Seq(Atoms)
    OBVIOUS
  <2> QED
    BY <2>1, MeasureLaws
<1>2. S = {f[i] : i \in 1..n}
  BY DEF ToSet
<1>3. f \in Surjection(1..n, S)
  BY <1>2 DEF Surjection
<1>4. IsFiniteSet(1..n)
  BY <1>0, FS_Interval
<1>5. S \subseteq Nat /\ S \subseteq Int /\ S # {}
  <2>1. \A x \in S : x \in Nat
    BY <1>1, <1>2
  <2>2. f[1] \in S
    BY <1>0, <1>2
  <2> HIDE DEF S, f
  <2> QED
    BY <2>1, <2>2
<1>6. \A i \in 1..n : Measure(words[i], size) \in S
  BY <1>2
<1>7. \A x \in S : \E i \in 1..n : Measure(words[i], size) = x
  BY <1>2
<1>8. LongestWord(words, size) = Max(S)
  BY DEF LongestWord
<1> HIDE DEF f, S
<1>9. IsFiniteSet(S)
  BY <1>3, <1>4, FS_Surjection
<1>10. Max(S) \in S /\ \A k \in S : k <= Max(S)
  BY <1>5, <1>9, MaxOf
<1> QED
  BY <1>5, <1>6, <1>7, <1>8, <1>10

LEMMA NarrowestOK ==
  ASSUME NEW size \in Sizes, NEW words \in Seq(Seq(Atoms)), words # <<>>
  PROVE  /\ Narrowest(words, size) \in 0..InnerW
         /\ Len(Greedy(words, size, Narrowest(words, size) * Unit)) <= Len(Greedy(words, size, PanelW))
         /\ \A v \in (LongestWord(words, size) \div Unit)..InnerW :
              Len(Greedy(words, size, v * Unit)) <= Len(Greedy(words, size, PanelW))
                => Narrowest(words, size) <= v
<1> DEFINE n == Len(Greedy(words, size, PanelW))
           D == Nat \X (0..InnerW)
           Eq(f) == f = [r \in D |->
                           LET mid == (r[1] + r[2]) \div 2 IN
                           IF r[1] >= r[2] THEN r[2]
                           ELSE IF Len(Greedy(words, size, mid * Unit)) <= n THEN f[<<r[1], mid>>]
                                                                             ELSE f[<<mid + 1, r[2]>>]]
           it == CHOOSE f : Eq(f)
           N == [v \in 0..InnerW |-> Len(Greedy(words, size, v * Unit))]
           lo == LongestWord(words, size) \div Unit
<1>0. InnerW \in Nat /\ PanelW = InnerW * Unit /\ InnerW \in 0..InnerW
  BY SizeOK DEF PanelW
<1>1. \A v \in Nat : v * Unit \in Nat
  BY PixelLaws
<1>2. \A v \in Nat : Len(Greedy(words, size, v * Unit)) \in Nat
  <2> TAKE v \in Nat
  <2>1. Greedy(words, size, v * Unit) \in Seq(Seq(Atoms))
    BY <1>1, GreedyTyped
  <2> QED
    BY <2>1
<1>3. IsMonotone(N, InnerW)
  <2>1. \A v \in 0..InnerW : N[v] \in Nat
    BY <1>0, <1>2
  <2>2. ASSUME NEW u \in 0..InnerW, NEW v \in 0..InnerW, u <= v PROVE N[v] <= N[u]
    <3>1. u * Unit \in Nat /\ v * Unit \in Nat /\ u * Unit <= v * Unit
      BY <2>2, PixelLaws
    <3>2. PICK x \in Nat, y \in Nat : x = u * Unit /\ y = v * Unit /\ x <= y
      BY <3>1
    <3>3. Len(Greedy(words, size, y)) <= Len(Greedy(words, size, x))
      BY <3>2, GreedyMonotone
    <3> QED
      BY <3>2, <3>3
  <2> QED
    BY <2>1, <2>2 DEF IsMonotone
<1>4. n \in Nat /\ n = N[InnerW]
  <2>1. N[InnerW] = Len(Greedy(words, size, InnerW * Unit))
    BY <1>0
  <2> QED
    BY <1>0, <1>2, <2>1
<1>5. Narrowest(words, size) = it[<<lo, InnerW>>]
  BY DEF Narrowest, LongestWord
<1>6. ASSUME NEW f PROVE Eq(f) <=> Bisection(N, n, InnerW, f)
  <2>1. ASSUME NEW r \in D, ~ (r[1] >= r[2])
        PROVE  N[(r[1] + r[2]) \div 2] = Len(Greedy(words, size, ((r[1] + r[2]) \div 2) * Unit))
    <3>1. (r[1] + r[2]) \div 2 \in 0..InnerW
      <4>1. r[1] \in Nat /\ r[2] \in 0..InnerW /\ r[2] \in Nat /\ r[1] < r[2]
        BY <1>0, <2>1
      <4>2. (r[1] + r[2]) \div 2 \in r[1]..r[2]
        BY <4>1, Halves
      <4> QED
        BY <1>0, <4>1, <4>2
    <3> QED
      BY <3>1
  <2> HIDE DEF N, n
  <2> QED
    BY <2>1 DEF Bisection
<1>7. Bisection(N, n, InnerW, it)
  <2>1. \E f : Bisection(N, n, InnerW, f)
    <3> HIDE DEF N, n
    <3> QED
      BY <1>0, <1>3, <1>4, BisectionExists
  <2>2. \E f : Eq(f)
    BY <1>6, <2>1
  <2>3. Eq(it)
    BY <2>2
  <2> HIDE DEF it, Eq
  <2> QED
    BY <1>6, <2>3
<1> HIDE DEF it, N, n
<1>8. lo \in Nat
  BY LongestOK, PixelLaws
<1> HIDE DEF lo
<1>9. PICK v \in 0..InnerW : /\ v = it[<<lo, InnerW>>] /\ N[v] <= n
                             /\ \A x \in lo..InnerW : N[x] <= n => v <= x
  <2>1. CASE lo <= InnerW
    <3>1. lo \in 0..InnerW
      BY <1>0, <1>8, <2>1
    <3>2. IsLeast(N, n, lo, InnerW, it[<<lo, InnerW>>])
      BY <1>0, <1>3, <1>4, <1>7, <2>1, <3>1, BisectionIs
    <3>3. PICK v \in lo..InnerW : v = it[<<lo, InnerW>>]
      BY <3>2 DEF IsLeast
    <3>4. N[v] <= n /\ \A x \in lo..InnerW : N[x] <= n => v <= x
      BY <1>4, <3>2, <3>3 DEF IsLeast
    <3>5. v \in 0..InnerW
      BY <1>8, <3>3
    <3> QED
      BY <3>3, <3>4, <3>5
  <2>2. CASE lo > InnerW
    <3>1. it[<<lo, InnerW>>] = InnerW
      <4>1. lo >= InnerW
        BY <1>0, <1>8, <2>2
      <4> QED
        BY <1>0, <1>3, <1>4, <1>7, <1>8, <4>1, BisectionIs
    <3>2. N[InnerW] <= n /\ \A x \in lo..InnerW : InnerW <= x
      BY <1>0, <1>4, <1>8, <2>2
    <3> QED
      BY <1>0, <3>1, <3>2
  <2>3. lo <= InnerW \/ lo > InnerW
    BY <1>0, <1>8
  <2> QED
    BY <2>1, <2>2, <2>3, Zenon
<1>10. \A x \in 0..InnerW : N[x] = Len(Greedy(words, size, x * Unit))
  BY DEF N
<1>11. \A x \in lo..InnerW : x \in 0..InnerW
  BY <1>0, <1>8
<1> QED
  BY <1>5, <1>9, <1>10, <1>11 DEF n, lo

\* A paragraph as ShowsText's reference has it: every line as full as it can be.
Full(par) ==
  LET w == Words(par, MinFont) IN IF w = <<>> THEN << <<>> >> ELSE Greedy(w, MinFont, PanelW)

\* Wrapping a paragraph loses nothing, keeps inside the panel, and takes no more
\* lines than filling them does.
LEMMA WrapParagraphOK ==
  ASSUME NEW size \in Sizes, NEW par \in Seq(Atoms)
  PROVE  /\ WrapParagraph(par, size) \in Seq(Inside(size))
         /\ Drawn(FlattenSeq(WrapParagraph(par, size))) = Drawn(par)
         /\ Words(par, size) # <<>> =>
              Len(WrapParagraph(par, size)) <= Len(Greedy(Words(par, size), size, PanelW))
<1> DEFINE ws == Words(par, size)
           G == Greedy(ws, size, PanelW)
           W == Inside(size)
<1>0. size \in Nat /\ PanelW \in Nat
  BY SizeOK
<1>1. ws \in Seq(WordsOf(size)) /\ Drawn(FlattenSeq(ws)) = Drawn(par)
  BY WordsOK
<1>2. ws \in Seq(W)
  <2> DEFINE V == WordsOf(size)
  <2>1. ws \in Seq(V) /\ V \subseteq W
    BY <1>1 DEF WordsOf
  <2> HIDE DEF V, W, ws
  <2> QED
    BY <2>1
<1>3. W \subseteq Seq(Atoms)
  BY DEF Inside
<1>4. G \in Seq(W) /\ Drawn(FlattenSeq(G)) = Drawn(FlattenSeq(ws))
  <2>1. Fits(size, PanelW) \subseteq W
    BY DEF Fits, Inside
  <2> HIDE DEF W, ws
  <2> QED
    BY <1>0, <1>2, <1>3, <2>1, GreedyOK
<1>5. WrapParagraph(par, size) = CASE ws = <<>>  -> << <<>> >>
                                   [] Len(G) = 1 -> G
                                   [] OTHER      -> Greedy(ws, size, Narrowest(ws, size) * Unit)
  BY DEF WrapParagraph
<1> HIDE DEF G, W
<1>6. CASE ws = <<>>
  <2>1. WrapParagraph(par, size) = << <<>> >>
    <3>1. G = <<>>
      BY <1>6, GreedyEmpty DEF G
    <3>2. Len(G) # 1
      BY <3>1
    <3> DEFINE one == << <<>> >>
    <3>3. WrapParagraph(par, size) = CASE ws = <<>>  -> one
                                       [] Len(G) = 1 -> G
                                       [] OTHER      -> Greedy(ws, size, Narrowest(ws, size) * Unit)
      BY <1>5
    <3> HIDE DEF ws, one
    <3>4. WrapParagraph(par, size) = one
      BY <1>6, <3>2, <3>3
    <3> QED
      BY <3>4 DEF one
  <2>2. <<>> \in Seq(Atoms) /\ Measure(<<>>, size) = 0 /\ 0 <= PanelW
    BY <1>0, MeasureLaws
  <2>3. << <<>> >> \in Seq(W)
    BY <2>2 DEF W, Inside
  <2>4. FlattenSeq(<< <<>> >>) = <<>>
    BY <2>2, FlattenOne
  <2>5. Drawn(FlattenSeq(ws)) = Drawn(<<>>)
    BY <1>6, FlattenLaws
  <2> QED
    <3>1. Drawn(FlattenSeq(WrapParagraph(par, size))) = Drawn(par)
      BY <1>1, <2>1, <2>4, <2>5, Zenon
    <3> QED
      BY <1>6, <2>1, <2>3, <3>1 DEF W
<1>7. CASE ws # <<>> /\ Len(G) = 1
  <2>1. WrapParagraph(par, size) = G
    <3> HIDE DEF ws
    <3> QED
      BY <1>5, <1>7
  <2>2. Len(G) <= Len(G)
    BY <1>4
  <2>3. Len(WrapParagraph(par, size)) <= Len(Greedy(ws, size, PanelW))
    BY <2>1, <2>2 DEF G
  <2>4. WrapParagraph(par, size) \in Seq(W) /\ Drawn(FlattenSeq(WrapParagraph(par, size))) = Drawn(par)
    BY <1>1, <1>4, <2>1
  <2> QED
    BY <2>3, <2>4 DEF W
<1>8. CASE ws # <<>> /\ Len(G) # 1
  <2> DEFINE x == Narrowest(ws, size)
             L == Greedy(ws, size, x * Unit)
  <2>1. WrapParagraph(par, size) = L
    <3> HIDE DEF ws, L
    <3> QED
      BY <1>5, <1>8 DEF L
  <2>2. x \in 0..InnerW /\ Len(L) <= Len(G)
    <3> HIDE DEF ws
    <3> DEFINE Y == Seq(Atoms)
    <3>1. ws \in Seq(Y)
      <4> HIDE DEF W, Y
      <4>1. W \subseteq Y
        BY <1>3 DEF Y
      <4> QED
        BY <1>2, <4>1
    <3> QED
      BY <1>8, <3>1, NarrowestOK DEF G
  <2> HIDE DEF ws, x
  <2>3. x * Unit \in Nat /\ x * Unit <= PanelW
    <3>1. x \in Nat /\ InnerW \in Nat /\ x <= InnerW
      BY <2>2, SizeOK
    <3> QED
      BY <3>1, PixelLaws DEF PanelW
  <2>4. L \in Seq(W) /\ Drawn(FlattenSeq(L)) = Drawn(FlattenSeq(ws))
    <3>1. PICK v \in Nat : v = x * Unit /\ v <= PanelW
      BY <2>3
    <3>2. Fits(size, v) \subseteq W
      <4>1. ASSUME NEW l \in Seq(Atoms), Measure(l, size) <= v PROVE Measure(l, size) <= PanelW
        <5>1. Measure(l, size) \in Nat
          BY MeasureLaws
        <5> QED
          BY <1>0, <3>1, <4>1, <5>1
      <4> QED
        BY <4>1 DEF Fits, Inside, W
    <3>3. Greedy(ws, size, v) \in Seq(W) /\ Drawn(FlattenSeq(Greedy(ws, size, v))) = Drawn(FlattenSeq(ws))
      BY <1>2, <1>3, <3>2, GreedyOK
    <3> QED
      BY <3>1, <3>3
  <2>5. /\ WrapParagraph(par, size) \in Seq(W)
        /\ Drawn(FlattenSeq(WrapParagraph(par, size))) = Drawn(par)
        /\ Len(WrapParagraph(par, size)) <= Len(G)
    BY <1>1, <2>1, <2>2, <2>4
  <2> QED
    BY <2>5 DEF W, G, ws
<1> QED
  BY <1>6, <1>7, <1>8

LEMMA WrapOK ==
  ASSUME NEW size \in Sizes, NEW text \in Seq(Atoms)
  PROVE  /\ Wrap(text, size) \in Seq(Inside(size))
         /\ Drawn(FlattenSeq(Wrap(text, size))) = Drawn(text)
<1> DEFINE W == Inside(size)
           ss == Split(text, "nl")
           P == [i \in 1..Len(ss) |-> WrapParagraph(ss[i], size)]
<1>1. ss \in Seq(Seq(Atoms)) /\ Drawn(FlattenSeq(ss)) = Drawn(text)
  BY SplitLaws, SplitDraws DEF Blanks
<1>2. Wrap(text, size) = FlattenSeq(P)
  BY DEF Wrap
<1>3. W \subseteq Seq(Atoms)
  BY DEF Inside
<1>4. ASSUME NEW par \in Seq(Atoms)
      PROVE  /\ WrapParagraph(par, size) \in Seq(W)
             /\ Drawn(FlattenSeq(WrapParagraph(par, size))) = Drawn(par)
  BY WrapParagraphOK
<1> HIDE DEF W, ss
<1>5. P \in Seq(Seq(W)) /\ P \in Seq(Seq(Seq(Atoms))) /\ Len(P) = Len(ss)
  <2>1. \A i \in 1..Len(ss) : ss[i] \in Seq(Atoms)
    BY <1>1
  <2>2. \A i \in 1..Len(ss) : WrapParagraph(ss[i], size) \in Seq(W)
    BY <1>4, <2>1
  <2>3. \A i \in 1..Len(ss) : WrapParagraph(ss[i], size) \in Seq(Seq(Atoms))
    BY <1>3, <2>2
  <2> QED
    BY <1>1, <2>2, <2>3
<1>6. \A i \in 1..Len(ss) : Drawn(FlattenSeq(P[i])) = Drawn(ss[i])
  BY <1>1, <1>4
<1> HIDE DEF P
<1>7. FlattenSeq(P) \in Seq(W)
  BY <1>5, FlattenLaws
<1>8. Drawn(FlattenSeq(FlattenSeq(P))) = Drawn(FlattenSeq(ss))
  BY <1>1, <1>5, <1>6, DrawnParts
<1> QED
  BY <1>1, <1>2, <1>7, <1>8 DEF W

\* Lists that are pointwise shorter are shorter together.
LEMMA FlattenShorter ==
  ASSUME NEW A, NEW B, NEW P \in Seq(Seq(A)), NEW Q \in Seq(Seq(B)), Len(P) = Len(Q),
         \A i \in 1..Len(P) : Len(P[i]) <= Len(Q[i])
  PROVE  Len(FlattenSeq(P)) <= Len(FlattenSeq(Q))
<1> DEFINE Good == {n \in Nat : n <= Len(P) =>
              Len(FlattenSeq(SubSeq(P, 1, n))) <= Len(FlattenSeq(SubSeq(Q, 1, n)))}
<1>1. /\ Len(P) \in Nat /\ SubSeq(P, 1, 0) = <<>> /\ SubSeq(P, 1, Len(P)) = P
      /\ \A n \in 0..Len(P) : SubSeq(P, 1, n) \in Seq(Seq(A))
      /\ \A n \in 1..Len(P) : SubSeq(P, 1, n) = Append(SubSeq(P, 1, n - 1), P[n])
  <2> DEFINE Y == Seq(A)
  <2>1. P \in Seq(Y)
    OBVIOUS
  <2> HIDE DEF Y
  <2>2. /\ Len(P) \in Nat /\ SubSeq(P, 1, 0) = <<>> /\ SubSeq(P, 1, Len(P)) = P
        /\ \A n \in 0..Len(P) : SubSeq(P, 1, n) \in Seq(Y)
        /\ \A n \in 1..Len(P) : SubSeq(P, 1, n) = Append(SubSeq(P, 1, n - 1), P[n])
    BY <2>1, PrefixLaws
  <2> QED
    BY <2>2 DEF Y
<1>2. /\ SubSeq(Q, 1, 0) = <<>> /\ SubSeq(Q, 1, Len(P)) = Q
      /\ \A n \in 0..Len(P) : SubSeq(Q, 1, n) \in Seq(Seq(B))
      /\ \A n \in 1..Len(P) : SubSeq(Q, 1, n) = Append(SubSeq(Q, 1, n - 1), Q[n])
  <2> DEFINE Y == Seq(B)
  <2>1. Q \in Seq(Y)
    OBVIOUS
  <2> HIDE DEF Y
  <2>2. /\ SubSeq(Q, 1, 0) = <<>> /\ SubSeq(Q, 1, Len(Q)) = Q
        /\ \A n \in 0..Len(Q) : SubSeq(Q, 1, n) \in Seq(Y)
        /\ \A n \in 1..Len(Q) : SubSeq(Q, 1, n) = Append(SubSeq(Q, 1, n - 1), Q[n])
    BY <2>1, PrefixLaws
  <2> QED
    BY <2>2 DEF Y
<1>3. 0 \in Good
  <2>1. FlattenSeq(<<>>) = <<>> /\ Len(<<>>) = 0
    BY FlattenLaws
  <2>2. Len(FlattenSeq(SubSeq(P, 1, 0))) = 0 /\ Len(FlattenSeq(SubSeq(Q, 1, 0))) = 0
    BY <1>1, <1>2, <2>1, Zenon
  <2> QED
    BY <2>2
<1>4. ASSUME NEW n \in 1..Len(P), n - 1 \in Good PROVE n \in Good
  <2>0. n - 1 \in 0..Len(P) /\ n \in Nat /\ n - 1 <= Len(P)
    BY <1>1
  <2>1. PICK p \in Seq(Seq(A)) : p = SubSeq(P, 1, n - 1)
    BY <1>1, <2>0
  <2>2. PICK q \in Seq(Seq(B)) : q = SubSeq(Q, 1, n - 1)
    BY <1>2, <2>0
  <2>3. P[n] \in Seq(A) /\ Q[n] \in Seq(B) /\ Len(P[n]) <= Len(Q[n])
    BY <1>1
  <2>4. FlattenSeq(p) \in Seq(A) /\ FlattenSeq(q) \in Seq(B)
    BY FlattenLaws
  <2>5. FlattenSeq(Append(p, P[n])) = FlattenSeq(p) \o P[n]
    BY <2>3, FlattenLaws
  <2>6. FlattenSeq(Append(q, Q[n])) = FlattenSeq(q) \o Q[n]
    BY <2>3, FlattenLaws
  <2>7. Len(FlattenSeq(p)) <= Len(FlattenSeq(q))
    BY <1>4, <2>0, <2>1, <2>2
  <2>8. Len(FlattenSeq(p) \o P[n]) <= Len(FlattenSeq(q) \o Q[n])
    BY <2>3, <2>4, <2>7
  <2>9. SubSeq(P, 1, n) = Append(p, P[n]) /\ SubSeq(Q, 1, n) = Append(q, Q[n])
    BY <1>1, <1>2, <2>1, <2>2
  <2> QED
    BY <2>0, <2>5, <2>6, <2>8, <2>9
<1> HIDE DEF Good
<1>5. \A n \in 0..Len(P) : n \in Good
  BY <1>1, <1>3, <1>4, Induction
<1>6. Len(P) \in Good
  BY <1>1, <1>5
<1>7. Len(FlattenSeq(SubSeq(P, 1, Len(P)))) <= Len(FlattenSeq(SubSeq(Q, 1, Len(P))))
  BY <1>1, <1>6 DEF Good
<1> QED
  BY <1>1, <1>2, <1>7

\* In the smallest letters a text takes no more lines than filling them does.
LEMMA WrapShort ==
  ASSUME NEW text \in Seq(Atoms)
  PROVE  LET ss == Split(text, "nl")
             full == FlattenSeq([i \in 1..Len(ss) |-> Full(ss[i])]) IN
         /\ Len(Wrap(text, MinFont)) \in Nat /\ Len(full) \in Nat
         /\ Len(Wrap(text, MinFont)) <= Len(full)
<1> DEFINE ss == Split(text, "nl")
           P == [i \in 1..Len(ss) |-> WrapParagraph(ss[i], MinFont)]
           Q == [i \in 1..Len(ss) |-> Full(ss[i])]
           W == Inside(MinFont)
<1>0. MinFont \in Sizes /\ MinFont \in Nat /\ PanelW \in Nat
  BY SizeOK
<1>1. ss \in Seq(Seq(Atoms))
  BY SplitLaws
<1>2. Wrap(text, MinFont) = FlattenSeq(P)
  BY DEF Wrap
<1>3. ASSUME NEW par \in Seq(Atoms)
      PROVE  /\ WrapParagraph(par, MinFont) \in Seq(W) /\ Full(par) \in Seq(Seq(Atoms))
             /\ Len(WrapParagraph(par, MinFont)) <= Len(Full(par))
  <2> DEFINE ws == Words(par, MinFont)
  <2>0. WrapParagraph(par, MinFont) \in Seq(W)
    BY <1>0, WrapParagraphOK
  <2>1. CASE ws = <<>>
    <3> DEFINE one == << <<>> >>
    <3>0. one \in Seq(Seq(Atoms)) /\ Len(one) = 1
      OBVIOUS
    <3>1. Full(par) = one
      BY <2>1 DEF Full
    <3>2. Len(Greedy(ws, MinFont, PanelW)) # 1
      <4>1. Greedy(ws, MinFont, PanelW) = <<>>
        BY <2>1, GreedyEmpty
      <4> QED
        BY <4>1
    <3>3. WrapParagraph(par, MinFont)
            = CASE ws = <<>>  -> one
                [] Len(Greedy(ws, MinFont, PanelW)) = 1 -> Greedy(ws, MinFont, PanelW)
                [] OTHER      -> Greedy(ws, MinFont, Narrowest(ws, MinFont) * Unit)
      BY DEF WrapParagraph
    <3> HIDE DEF ws, one
    <3>4. WrapParagraph(par, MinFont) = one
      BY <2>1, <3>2, <3>3
    <3>5. Len(WrapParagraph(par, MinFont)) = 1 /\ Len(Full(par)) = 1
      BY <3>0, <3>1, <3>4, Zenon
    <3>6. Len(WrapParagraph(par, MinFont)) <= Len(Full(par))
      BY <3>5
    <3>7. Full(par) \in Seq(Seq(Atoms))
      BY <3>0, <3>1, Zenon
    <3> QED
      BY <2>0, <3>6, <3>7
  <2>2. CASE ws # <<>>
    <3>1. ws \in Seq(WordsOf(MinFont))
      BY <1>0, WordsOK
    <3>2. ws \in Seq(Seq(Atoms))
      <4> DEFINE V == WordsOf(MinFont)
                 Y == Seq(Atoms)
      <4>1. ws \in Seq(V) /\ V \subseteq Y
        BY <3>1 DEF WordsOf, Inside
      <4> HIDE DEF V, Y, ws
      <4>2. ws \in Seq(Y)
        BY <4>1
      <4> QED
        BY <4>2 DEF Y
    <3>3. Full(par) = Greedy(ws, MinFont, PanelW)
      BY <2>2 DEF Full
    <3>4. Len(WrapParagraph(par, MinFont)) <= Len(Greedy(ws, MinFont, PanelW))
      BY <1>0, <2>2, WrapParagraphOK
    <3> HIDE DEF ws
    <3>5. Greedy(ws, MinFont, PanelW) \in Seq(Seq(Atoms))
      BY <1>0, <3>2, GreedyTyped
    <3> QED
      BY <2>0, <3>3, <3>4, <3>5
  <2> QED
    BY <2>1, <2>2
<1> HIDE DEF W, ss
<1>4. P \in Seq(Seq(W)) /\ Len(P) = Len(ss)
  <2>1. \A i \in 1..Len(ss) : WrapParagraph(ss[i], MinFont) \in Seq(W)
    BY <1>1, <1>3
  <2> QED
    BY <1>1, <2>1
<1>5. Q \in Seq(Seq(Seq(Atoms))) /\ Len(Q) = Len(ss)
  <2>1. \A i \in 1..Len(ss) : Full(ss[i]) \in Seq(Seq(Atoms))
    BY <1>1, <1>3
  <2> QED
    BY <1>1, <2>1
<1>6. \A i \in 1..Len(P) : Len(P[i]) <= Len(Q[i])
  BY <1>1, <1>3, <1>4
<1> HIDE DEF P, Q
<1>7. FlattenSeq(P) \in Seq(W)
  BY <1>4, FlattenLaws
<1>8. FlattenSeq(Q) \in Seq(Seq(Atoms))
  <2> DEFINE Y == Seq(Atoms)
  <2>1. Q \in Seq(Seq(Y))
    BY <1>5
  <2> HIDE DEF Y
  <2>2. FlattenSeq(Q) \in Seq(Y)
    BY <2>1, FlattenLaws
  <2> QED
    BY <2>2 DEF Y
<1>9. Len(FlattenSeq(P)) <= Len(FlattenSeq(Q))
  <2> DEFINE Y == Seq(Atoms)
  <2>1. Q \in Seq(Seq(Y)) /\ Len(P) = Len(Q)
    BY <1>4, <1>5
  <2> HIDE DEF Y
  <2> QED
    BY <1>4, <1>6, <2>1, FlattenShorter
<1>10. /\ Len(FlattenSeq(P)) \in Nat /\ Len(FlattenSeq(Q)) \in Nat
  BY <1>7, <1>8
<1> QED
  BY <1>2, <1>9, <1>10 DEF Q, ss

\* More lines are higher, at any size; none, or one of the smallest letters, fit.
LEMMA InkLaws ==
  /\ \A size \in Sizes, m, n \in Nat : m <= n => InkHeight(m, size) <= InkHeight(n, size)
  /\ \A size \in Sizes, n \in Nat : InkHeight(n, size) \in Int
  /\ InkHeight(0, MaxFont) <= 1000 * InnerH
  /\ InkHeight(1, MinFont) <= 1000 * InnerH
<1>1. ASSUME NEW size \in Sizes
      PROVE  size \in Nat /\ size > 0 /\ LinePitch(size) \in Nat
  <2>1. size \in Nat /\ size > 0
    BY SizeOK
  <2>2. (132 * size + 50) \div 100 \in Nat
    BY <2>1
  <2> QED
    BY <2>1, <2>2 DEF LinePitch
<1>2. ASSUME NEW size \in Sizes, NEW m \in Nat, NEW n \in Nat, m <= n
      PROVE  InkHeight(m, size) <= InkHeight(n, size)
  <2>1. PICK p \in Nat : p = LinePitch(size)
    BY <1>1
  <2>2. size \in Nat
    BY <1>1
  <2>3. 1000 * (m - 1) * p <= 1000 * (n - 1) * p
    <3>1. PICK d \in Nat : n = m + d
      <4>1. n - m \in Nat /\ n = m + (n - m)
        BY <1>2
      <4> QED
        BY <4>1
    <3>2. 1000 * (n - 1) * p = 1000 * (m - 1) * p + 1000 * d * p
      BY <3>1
    <3>3. 1000 * d * p >= 0
      OBVIOUS
    <3> QED
      BY <3>2, <3>3
  <2> QED
    BY <2>1, <2>2, <2>3 DEF InkHeight
<1>3. ASSUME NEW size \in Sizes, NEW n \in Nat PROVE InkHeight(n, size) \in Int
  BY <1>1 DEF InkHeight
<1>4. InkHeight(0, MaxFont) <= 1000 * InnerH
  <2>1. MaxFont \in Sizes /\ InnerH \in Nat
    BY SizeOK
  <2>2. MaxFont \in Nat /\ MaxFont > 0
    BY <1>1, <2>1
  <2>3. PICK p \in Nat : p = LinePitch(MaxFont)
    BY <1>1, <2>1
  <2>4. 100 * p >= 132 * MaxFont + 50 - 99
    BY <2>2, <2>3 DEF LinePitch
  <2>5. 1000 * (0 - 1) * p = 0 - 1000 * p
    OBVIOUS
  <2> QED
    BY <2>1, <2>2, <2>3, <2>4, <2>5 DEF InkHeight
<1>5. InkHeight(1, MinFont) <= 1000 * InnerH
  <2>1. MinFont \in Sizes
    BY SizeOK
  <2>2. PICK p \in Nat : p = LinePitch(MinFont)
    BY <1>1, <2>1
  <2>3. 827 * MinFont <= 1000 * InnerH /\ MinFont \in Nat
    BY CardConstants, <1>1, <2>1
  <2>4. 1000 * (1 - 1) * p = 0
    OBVIOUS
  <2> QED
    BY <2>2, <2>3, <2>4 DEF InkHeight
<1> QED
  BY <1>2, <1>3, <1>4, <1>5

-----------------------------------------------------------------------------
(* Fitting                                                                 *)

\* What is cut off at the end is blank; a beginning that is not stays.
LEMMA TrimOK ==
  ASSUME NEW A, NEW s \in Seq(A)
  PROVE  /\ TrimRight(s) \in Seq(A) /\ \E n \in 0..Len(s) : TrimRight(s) = SubSeq(s, 1, n)
         /\ Drawn(TrimRight(s)) = Drawn(s)
         /\ s # <<>> /\ s[1] \notin Blanks => TrimRight(s) # <<>> /\ TrimRight(s)[1] = s[1]
<1> DEFINE S == {n \in 0..Len(s) : n = 0 \/ s[n] \notin Blanks}
           Ok(n) == /\ n = 0 \/ s[n] \notin Blanks
                    /\ \A i \in (n + 1)..Len(s) : s[i] \in Blanks
           c == CHOOSE n \in 0..Len(s) : Ok(n)
<1>0. Len(s) \in Nat
  OBVIOUS
<1>1. \E n \in 0..Len(s) : Ok(n)
  <2>1. S \subseteq 0..Len(s) /\ 0 \in S
    BY <1>0
  <2>2. IsFiniteSet(S) /\ S \subseteq Int /\ S # {}
    <3>1. IsFiniteSet(0..Len(s))
      BY <1>0, FS_Interval
    <3>2. S \in SUBSET (0..Len(s)) /\ 0..Len(s) \subseteq Int
      BY <2>1
    <3>3. IsFiniteSet(S)
      BY <3>1, <3>2, FS_Subset
    <3> QED
      BY <2>1, <3>2, <3>3
  <2> HIDE DEF S
  <2>3. Max(S) \in S /\ \A k \in S : k <= Max(S)
    BY <2>2, MaxOf
  <2> DEFINE n == Max(S)
  <2>4. n \in 0..Len(s) /\ (n = 0 \/ s[n] \notin Blanks)
    BY <2>3 DEF S
  <2>5. ASSUME NEW i \in (n + 1)..Len(s) PROVE s[i] \in Blanks
    <3>1. i \in 0..Len(s) /\ ~ (i <= n)
      BY <1>0, <2>4
    <3>2. i \notin S
      BY <2>3, <3>1
    <3> QED
      BY <3>1, <3>2 DEF S
  <2> QED
    BY <2>4, <2>5
<1>2. c \in 0..Len(s) /\ Ok(c)
  BY <1>1
<1>3. TrimRight(s) = SubSeq(s, 1, c)
  BY DEF TrimRight
<1> HIDE DEF c
<1>4. /\ SubSeq(s, 1, Len(s)) = s
      /\ \A n \in 0..Len(s) : SubSeq(s, 1, n) \in Seq(A)
      /\ \A n \in 1..Len(s) : SubSeq(s, 1, n) = Append(SubSeq(s, 1, n - 1), s[n])
  BY PrefixLaws
<1>5. Drawn(SubSeq(s, 1, c)) = Drawn(s)
  <2> DEFINE Good == {n \in Nat : c <= n => Drawn(SubSeq(s, 1, n)) = Drawn(SubSeq(s, 1, c))}
  <2>1. 0 \in Good
    <3>1. c <= 0 => c = 0
      BY <1>2
    <3> QED
      BY <3>1
  <2>2. ASSUME NEW n \in 1..Len(s), n - 1 \in Good PROVE n \in Good
    <3>0. n \in Nat /\ n - 1 \in 0..Len(s) /\ n - 1 \in Nat /\ c \in Nat
      BY <1>0, <1>2
    <3>1. CASE c <= n - 1
      <4>1. s[n] \in Blanks /\ s[n] \in A
        <5>1. n \in (c + 1)..Len(s)
          BY <1>0, <3>0, <3>1
        <5> QED
          BY <1>2, <5>1
      <4>2. Drawn(SubSeq(s, 1, n)) = Draw(Drawn(SubSeq(s, 1, n - 1)), s[n])
        BY <1>4, <3>0, <4>1, DrawnLaws
      <4>3. Drawn(SubSeq(s, 1, n)) = Drawn(SubSeq(s, 1, n - 1))
        BY <4>1, <4>2 DEF Draw
      <4> QED
        BY <2>2, <3>0, <3>1, <4>3
    <3>2. CASE c = n
      BY <3>0, <3>2
    <3>3. CASE c > n
      BY <3>0, <3>3
    <3> QED
      BY <3>0, <3>1, <3>2, <3>3
  <2> HIDE DEF Good
  <2>3. \A n \in 0..Len(s) : n \in Good
    BY <1>0, <2>1, <2>2, Induction
  <2>4. Len(s) \in Good
    BY <1>0, <2>3
  <2>5. Drawn(SubSeq(s, 1, Len(s))) = Drawn(SubSeq(s, 1, c))
    BY <1>0, <1>2, <2>4 DEF Good
  <2> QED
    BY <1>4, <2>5
<1>6. ASSUME s # <<>>, s[1] \notin Blanks
      PROVE  SubSeq(s, 1, c) # <<>> /\ SubSeq(s, 1, c)[1] = s[1]
  <2>1. c # 0
    <3> SUFFICES ASSUME c = 0 PROVE FALSE
      OBVIOUS
    <3>1. 1 \in (c + 1)..Len(s)
      BY <1>6
    <3> QED
      BY <1>2, <1>6, <3>1
  <2> QED
    BY <1>0, <1>2, <2>1
<1> QED
  BY <1>2, <1>3, <1>4, <1>5, <1>6

\* Whatever is left out in between, all that is drawn is kept, and a glyph is first.
LEMMA PutOK ==
  ASSUME NEW A, NEW out \in Seq(A), NEW a \in A, out # <<>> => out[1] \notin Blanks
  PROVE  /\ Put(out, a) \in Seq(A)
         /\ Put(out, a) # <<>> => Put(out, a)[1] \notin Blanks
         /\ Drawn(Put(out, a)) = Draw(Drawn(out), a)
<1>1. ASSUME NEW o \in Seq(A)
      PROVE  /\ Append(o, a) \in Seq(A) /\ Append(o, a) # <<>>
             /\ Append(o, a)[1] = IF o = <<>> THEN a ELSE o[1]
             /\ Drawn(Append(o, a)) = Draw(Drawn(o), a)
  <2>1. Drawn(Append(o, a)) = Draw(Drawn(o), a)
    BY DrawnLaws
  <2>2. Append(o, a) \in Seq(A) /\ Append(o, a) # <<>>
    OBVIOUS
  <2>3. Append(o, a)[1] = IF o = <<>> THEN a ELSE o[1]
    OBVIOUS
  <2> QED
    BY <2>1, <2>2, <2>3
<1>2. CASE a = "ctrl"
  <2>1. Put(out, a) = out /\ Draw(Drawn(out), a) = Drawn(out)
    BY <1>2 DEF Put, Draw
  <2> QED
    BY <2>1
<1>3. CASE a = "sp"
  <2>1. Draw(Drawn(out), a) = Drawn(out)
    BY <1>3 DEF Draw, Blanks
  <2>2. Put(out, a) = IF out = <<>> \/ Last(out) \in Blanks THEN out ELSE Append(out, a)
    BY <1>3 DEF Put
  <2>3. CASE out = <<>> \/ Last(out) \in Blanks
    BY <2>1, <2>2, <2>3
  <2>4. CASE ~ (out = <<>> \/ Last(out) \in Blanks)
    BY <1>1, <2>2, <2>4
  <2> QED
    BY <2>3, <2>4
<1>4. CASE a = "nl"
  <2> DEFINE o == IF out # <<>> /\ Last(out) = "sp" THEN Front(out) ELSE out
  <2>1. Draw(Drawn(out), a) = Drawn(out) /\ \A x : Draw(x, a) = x
    BY <1>4 DEF Draw, Blanks
  <2>2. Put(out, a) = IF o = <<>> \/ (Last(o) = "nl" /\ Last(Front(o)) = "nl") THEN o ELSE Append(o, a)
    BY <1>4 DEF Put
  <2>3. o \in Seq(A) /\ (o # <<>> => o[1] \notin Blanks) /\ Drawn(o) = Drawn(out)
    <3>1. CASE out # <<>> /\ Last(out) = "sp"
      <4>1. Front(out) \in Seq(A) /\ Last(out) \in A /\ out = Append(Front(out), Last(out))
        BY <3>1, FrontLast
      <4>2. o = Front(out)
        BY <3>1
      <4>3. Drawn(out) = Draw(Drawn(Front(out)), Last(out))
        BY <4>1, DrawnLaws
      <4>4. Drawn(out) = Drawn(Front(out))
        BY <3>1, <4>3 DEF Draw, Blanks
      <4>5. Front(out) # <<>> => Front(out)[1] = out[1]
        <5> SUFFICES ASSUME Front(out) # <<>> PROVE Front(out)[1] = out[1]
          OBVIOUS
        <5>1. PICK q \in Seq(A) : q = Front(out)
          BY <4>1
        <5>2. Append(q, Last(out))[1] = q[1]
          BY <4>1, <5>1
        <5> QED
          BY <4>1, <5>1, <5>2
      <4> HIDE DEF o
      <4> QED
        BY <3>1, <4>1, <4>2, <4>4, <4>5
    <3>2. CASE ~ (out # <<>> /\ Last(out) = "sp")
      BY <3>2
    <3> QED
      BY <3>1, <3>2
  <2> HIDE DEF o
  <2>4. CASE o = <<>> \/ (Last(o) = "nl" /\ Last(Front(o)) = "nl")
    BY <2>1, <2>2, <2>3, <2>4
  <2>5. CASE ~ (o = <<>> \/ (Last(o) = "nl" /\ Last(Front(o)) = "nl"))
    BY <1>1, <2>1, <2>2, <2>3, <2>5
  <2> QED
    BY <2>4, <2>5
<1>5. CASE a \notin {"ctrl", "sp", "nl"}
  <2>1. Put(out, a) = Append(out, a) /\ a \notin Blanks
    BY <1>5 DEF Put, Blanks
  <2> QED
    BY <1>1, <2>1
<1> QED
  BY <1>2, <1>3, <1>4, <1>5

LEMMA SanitizeOK ==
  ASSUME NEW A, NEW body \in Seq(A)
  PROVE  /\ Sanitize(body) \in Seq(A)
         /\ Sanitize(body) # <<>> => Sanitize(body)[1] \notin Blanks
         /\ Drawn(Sanitize(body)) = Drawn(body)
<1> DEFINE Good == {t \in Seq(A) : /\ Compact(t) \in Seq(A)
                                   /\ Compact(t) # <<>> => Compact(t)[1] \notin Blanks
                                   /\ Drawn(Compact(t)) = Drawn(t)}
<1>0. /\ Compact(<<>>) = <<>>
      /\ \A s \in Seq(A) : /\ Compact(s) \in Seq(A)
                           /\ \A a \in A : Compact(Append(s, a)) = Put(Compact(s), a)
  BY CompactLaws
<1>1. <<>> \in Good
  <2>1. <<>> \in Seq(A)
    OBVIOUS
  <2>2. Drawn(Compact(<<>>)) = Drawn(<<>>)
    BY <1>0, Zenon
  <2> QED
    BY <1>0, <2>1, <2>2
<1>2. ASSUME NEW t \in Seq(A), NEW a \in A, t \in Good PROVE Append(t, a) \in Good
  <2>1. PICK out \in Seq(A) : out = Compact(t)
    BY <1>2
  <2>2. Compact(Append(t, a)) = Put(out, a) /\ (out # <<>> => out[1] \notin Blanks)
    BY <1>0, <1>2, <2>1
  <2>3. /\ Put(out, a) \in Seq(A)
        /\ Put(out, a) # <<>> => Put(out, a)[1] \notin Blanks
        /\ Drawn(Put(out, a)) = Draw(Drawn(out), a)
    BY <2>2, PutOK
  <2>4. Drawn(Append(t, a)) = Draw(Drawn(t), a) /\ Append(t, a) \in Seq(A)
    BY DrawnLaws
  <2>5. Drawn(out) = Drawn(t)
    BY <1>2, <2>1
  <2> QED
    BY <2>2, <2>3, <2>4, <2>5
<1> HIDE DEF Good
<1>3. body \in Good
  BY <1>1, <1>2, SeqInduction
<1>4. PICK s \in Seq(A) : s = Compact(body) /\ (s # <<>> => s[1] \notin Blanks) /\ Drawn(s) = Drawn(body)
  BY <1>3 DEF Good
<1>5. Sanitize(body) = TrimRight(s)
  BY <1>4 DEF Sanitize, Compact
<1>6. TrimRight(s) \in Seq(A) /\ Len(TrimRight(s)) <= Len(s) /\ Drawn(TrimRight(s)) = Drawn(s)
  BY TrimOK
<1>7. TrimRight(s) # <<>> => TrimRight(s)[1] \notin Blanks
  <2>1. CASE s = <<>>
    BY <1>6, <2>1
  <2>2. CASE s # <<>>
    BY <1>4, <2>2, TrimOK
  <2> QED
    BY <2>1, <2>2
<1> QED
  BY <1>4, <1>5, <1>6, <1>7

LEMMA PartOf ==
  ASSUME NEW A, NEW s \in Seq(A), NEW i \in Nat, i > 0, NEW j \in 0..Len(s)
  PROVE  /\ SubSeq(s, i, j) \in Seq(A)
         /\ Len(SubSeq(s, i, j)) = IF i <= j THEN j - i + 1 ELSE 0
<1>1. \A k \in i..j : s[k] \in A
  <2> TAKE k \in i..j
  <2>1. k \in 1..Len(s)
    OBVIOUS
  <2> QED
    BY <2>1
<1>2. i \in Int /\ j \in Int
  OBVIOUS
<1> QED
  BY <1>1, <1>2, SubSeqProperties

LEMMA RestOf ==
  ASSUME NEW t \in Seq(Atoms), NEW m \in 0..Len(t)
  PROVE  \E p, q \in Seq(Atoms) : p = SubSeq(t, 1, m) /\ t = p \o q
<1>1. PICK p \in Seq(Atoms) : p = SubSeq(t, 1, m)
  BY PrefixLaws
<1>2. PICK q \in Seq(Atoms) : q = SubSeq(t, m + 1, Len(t))
  <2>1. m + 1 \in Nat /\ m + 1 > 0 /\ Len(t) \in 0..Len(t)
    OBVIOUS
  <2> QED
    BY <2>1, PartOf
<1>3. t = p \o q
  <2>1. 1 \in 1..Len(t) + 1 /\ m \in (1 - 1)..Len(t) /\ Len(t) \in m..Len(t)
    OBVIOUS
  <2>2. SubSeq(t, 1, m) \o SubSeq(t, m + 1, Len(t)) = SubSeq(t, 1, Len(t))
    BY <2>1, ConcatAdjacentSubSeq
  <2>3. SubSeq(t, 1, Len(t)) = t
    BY SubSeqFull
  <2> QED
    BY <1>1, <1>2, <2>2, <2>3
<1> QED
  BY <1>1, <1>3

LEMMA CodeLaws ==
  /\ CodePoints(<<>>) = 0
  /\ \A s \in Seq(Atoms) : CodePoints(s) \in Nat /\ (CodePoints(s) = 0 => s = <<>>)
  /\ \A a \in Atoms : Points[a] \in Nat /\ Points[a] >= 1
  /\ \A s \in Seq(Atoms), a \in Atoms : CodePoints(Append(s, a)) = CodePoints(s) + Points[a]
  /\ \A s, t \in Seq(Atoms) : CodePoints(s \o t) = CodePoints(s) + CodePoints(t)
<1>1. \A a \in Atoms : Points[a] \in Nat /\ Points[a] >= 1
  BY GlyphConstants
<1>2. /\ Total(Points, <<>>) = 0
      /\ \A s \in Seq(Atoms) : Total(Points, s) \in Nat
      /\ \A s \in Seq(Atoms), a \in Atoms : Total(Points, Append(s, a)) = Total(Points, s) + Points[a]
      /\ \A s, t \in Seq(Atoms) : Total(Points, s \o t) = Total(Points, s) + Total(Points, t)
  BY <1>1, TotalLaws
<1>3. \A s : CodePoints(s) = Total(Points, s)
  BY DEF CodePoints
<1>4. ASSUME NEW s \in Seq(Atoms), s # <<>> PROVE CodePoints(s) # 0
  <2>1. PICK t \in Seq(Atoms), a \in Atoms : s = Append(t, a)
    BY <1>4, FrontLast
  <2>2. PICK x \in Nat, y \in Nat : x = CodePoints(t) /\ y = Points[a] /\ y >= 1
    BY <1>1, <1>2, <1>3
  <2>3. CodePoints(s) = x + y
    BY <1>2, <1>3, <2>1, <2>2
  <2> QED
    BY <2>2, <2>3
<1> QED
  BY <1>1, <1>2, <1>3, <1>4

\* What is left of an atom, and of a whole one of which nothing is taken.
LEMMA PieceLaws ==
  ASSUME NEW a \in Atoms, NEW k \in Nat, k < Points[a]
  PROVE  /\ Piece[a][k] \in Seq(Glyphs) /\ Piece[a][k] \in Seq(Atoms) /\ CodePoints(Piece[a][k]) = k
         /\ \A j \in 0..k : Take(Piece[a][k], j) = Piece[a][j]
         /\ k = 0 => Piece[a][k] = <<>>
<1>1. k \in 0..(Points[a] - 1)
  BY CodeLaws
<1>2. /\ Piece[a][k] \in Seq(Glyphs) /\ CodePoints(Piece[a][k]) = k
      /\ \A j \in 0..k : Take(Piece[a][k], j) = Piece[a][j]
  BY <1>1, GlyphConstants
<1>3. Piece[a][k] \in Seq(Atoms)
  BY <1>2, AtomsOK
<1> QED
  BY <1>2, <1>3, CodeLaws

\* Taking code points of one more atom.
LEMMA TakeAppend ==
  ASSUME NEW s \in Seq(Atoms), NEW a \in Atoms, NEW n \in 0..(CodePoints(s) + Points[a])
  PROVE  /\ n <= CodePoints(s) => Take(Append(s, a), n) = Take(s, n)
         /\ n >= CodePoints(s) /\ n < CodePoints(s) + Points[a] =>
              Take(Append(s, a), n) = s \o Piece[a][n - CodePoints(s)]
         /\ n = CodePoints(s) + Points[a] => Take(Append(s, a), n) = Append(s, a)
         /\ n = CodePoints(s) => Take(s, n) = s
<1> DEFINE S(t) == {j \in 0..Len(t) : CodePoints(SubSeq(t, 1, j)) <= n}
           rest(t, i) == IF i = Len(t) THEN <<>> ELSE Piece[t[i + 1]][n - CodePoints(SubSeq(t, 1, i))]
<1>1. PICK m \in Nat : m = Len(s)
  OBVIOUS
<1>2. PICK u \in Seq(Atoms) : /\ u = Append(s, a) /\ Len(u) = m + 1 /\ u[m + 1] = a
                              /\ \A j \in 1..m : u[j] = s[j]
  <2>1. Append(s, a) \in Seq(Atoms) /\ Len(Append(s, a)) = m + 1 /\ Append(s, a)[m + 1] = a
    BY <1>1
  <2>2. \A j \in 1..m : Append(s, a)[j] = s[j]
    BY <1>1
  <2> QED
    BY <2>1, <2>2
<1>3. SubSeq(s, 1, m) = s /\ SubSeq(u, 1, m + 1) = u
      /\ \A j \in 0..m : SubSeq(u, 1, j) = SubSeq(s, 1, j)
  <2>1. SubSeq(s, 1, m) = s /\ SubSeq(u, 1, m + 1) = u
    BY <1>1, <1>2, PrefixLaws
  <2>2. ASSUME NEW j \in 0..m PROVE SubSeq(u, 1, j) = SubSeq(s, 1, j)
    BY <1>1, <1>2
  <2> QED
    BY <2>1, <2>2
<1>4. PICK x \in Nat, y \in Nat : /\ x = CodePoints(s) /\ y = Points[a] /\ y >= 1
                                  /\ CodePoints(u) = x + y
  BY <1>2, CodeLaws
<1>5. n \in Nat /\ n <= x + y
  BY <1>4
<1>6. /\ \A j : j \in S(s) <=> j \in 0..m /\ CodePoints(SubSeq(s, 1, j)) <= n
      /\ \A j : j \in S(u) <=> j \in 0..(m + 1) /\ CodePoints(SubSeq(u, 1, j)) <= n
  BY <1>1, <1>2
<1>7. /\ rest(s, m) = <<>> /\ rest(u, m + 1) = <<>>
      /\ \A i \in 0..m : i < m => rest(s, i) = Piece[s[i + 1]][n - CodePoints(SubSeq(s, 1, i))]
      /\ \A i \in 0..m : rest(u, i) = Piece[u[i + 1]][n - CodePoints(SubSeq(u, 1, i))]
  BY <1>1, <1>2
<1>8. \A t : Take(t, n) = SubSeq(t, 1, Max(S(t))) \o rest(t, Max(S(t)))
  BY DEF Take
<1> HIDE DEF S, rest
<1>9. ASSUME NEW T, T \subseteq 0..(m + 1), 0 \in T
      PROVE  Max(T) \in T /\ \A k \in T : k <= Max(T)
  <2>0. 0 \in Int /\ m + 1 \in Int
    OBVIOUS
  <2>1. IsFiniteSet(0..(m + 1))
    BY <2>0, FS_Interval
  <2>2. T \in SUBSET (0..(m + 1)) /\ T \subseteq Int /\ T # {}
    BY <1>9
  <2>3. IsFiniteSet(T)
    BY <2>1, <2>2, FS_Subset
  <2> QED
    BY <2>2, <2>3, MaxOf
<1>10. 0 \in S(s) /\ 0 \in S(u) /\ S(s) \subseteq 0..(m + 1) /\ S(u) \subseteq 0..(m + 1)
  <2>1. SubSeq(s, 1, 0) = <<>> /\ SubSeq(u, 1, 0) = <<>> /\ CodePoints(<<>>) = 0
    BY CodeLaws, PrefixLaws
  <2>2. 0 \in 0..m /\ 0 \in 0..(m + 1) /\ 0 <= n
    BY <1>5
  <2>3. 0 \in S(s) /\ 0 \in S(u)
    <3>1. CodePoints(SubSeq(s, 1, 0)) = 0 /\ CodePoints(SubSeq(u, 1, 0)) = 0
      BY <2>1
    <3> QED
      BY <1>6, <2>2, <3>1
  <2>4. (\A j \in S(s) : j \in 0..(m + 1)) /\ \A j \in S(u) : j \in 0..(m + 1)
    <3>1. \A j \in 0..m : j \in 0..(m + 1)
      OBVIOUS
    <3> QED
      BY <1>6, <3>1
  <2> QED
    BY <2>3, <2>4
<1>11. PICK i \in 0..m : i = Max(S(s)) /\ i \in S(s) /\ \A k \in S(s) : k <= i
  <2>1. Max(S(s)) \in S(s) /\ \A k \in S(s) : k <= Max(S(s))
    BY <1>9, <1>10
  <2> QED
    BY <1>6, <2>1
<1>12. PICK h \in 0..(m + 1) : h = Max(S(u)) /\ h \in S(u) /\ \A k \in S(u) : k <= h
  <2>1. Max(S(u)) \in S(u) /\ \A k \in S(u) : k <= Max(S(u))
    BY <1>9, <1>10
  <2> QED
    BY <1>6, <2>1
<1>13. m \in S(s) <=> n >= x
  <2>1. m \in 0..m /\ (x <= n <=> n >= x)
    BY <1>5
  <2>2. CodePoints(SubSeq(s, 1, m)) = x
    BY <1>3, <1>4, Zenon
  <2> QED
    BY <1>6, <2>1, <2>2
<1>14. m + 1 \in S(u) <=> n = x + y
  <2>1. m + 1 \in 0..(m + 1) /\ (x + y <= n <=> n = x + y)
    BY <1>5
  <2>2. CodePoints(SubSeq(u, 1, m + 1)) = x + y
    BY <1>3, <1>4, Zenon
  <2> QED
    BY <1>6, <2>1, <2>2
<1>15. n >= x => i = m
  BY <1>11, <1>13
<1>16. n < x => i < m
  <2>1. n < x => ~ (n >= x)
    BY <1>4, <1>5
  <2>2. i # m => i < m
    BY <1>11
  <2> QED
    BY <1>11, <1>13, <2>1, <2>2
<1>17. n = x => Take(s, n) = s
  <2>1. n = x => Take(s, n) = s \o <<>>
    <3>1. n = x => i = m
      BY <1>4, <1>15
    <3> QED
      BY <1>3, <1>7, <1>8, <1>11, <3>1
  <2> QED
    BY <2>1
<1>18. ASSUME n < x + y PROVE h = i /\ SubSeq(u, 1, h) = SubSeq(s, 1, i)
  <2>1. \A j : j \in S(u) <=> j \in S(s)
    <3>1. m + 1 \notin S(u)
      BY <1>4, <1>5, <1>14, <1>18
    <3>2. ASSUME NEW j \in 0..m PROVE j \in S(u) <=> j \in S(s)
      <4>1. j \in 0..(m + 1)
        OBVIOUS
      <4>2. CodePoints(SubSeq(u, 1, j)) = CodePoints(SubSeq(s, 1, j))
        BY <1>3, Zenon
      <4> QED
        BY <1>6, <4>1, <4>2
    <3>3. \A j : j \in S(u) => j \in 0..m
      BY <1>6, <3>1
    <3> QED
      BY <1>6, <3>2, <3>3
  <2>2. h <= i /\ i <= h
    BY <1>11, <1>12, <2>1
  <2>3. h = i
    BY <2>2
  <2> QED
    BY <1>3, <2>3
<1>19. ASSUME n < x PROVE Take(u, n) = Take(s, n)
  <2>1. h = i /\ i < m /\ SubSeq(u, 1, i) = SubSeq(s, 1, i)
    BY <1>4, <1>5, <1>16, <1>18, <1>19
  <2>2. u[i + 1] = s[i + 1]
    BY <1>2, <1>11, <2>1
  <2>3. rest(u, i) = rest(s, i)
    BY <1>7, <1>11, <2>1, <2>2
  <2> QED
    BY <1>8, <1>11, <1>12, <2>1, <2>3
<1>20. ASSUME n >= x, n < x + y PROVE Take(u, n) = s \o Piece[a][n - x]
  <2>1. h = m /\ i = m /\ SubSeq(u, 1, m) = s
    BY <1>3, <1>11, <1>15, <1>18, <1>20
  <2>2. rest(u, m) = Piece[a][n - x]
    BY <1>2, <1>4, <1>7, <2>1
  <2> QED
    BY <1>8, <1>12, <2>1, <2>2
<1>21. ASSUME n = x PROVE Take(u, n) = Take(s, n)
  <2>1. n >= x /\ n < x + y /\ n - x = 0
    BY <1>4, <1>21
  <2>2. Piece[a][0] = <<>>
    BY <1>4, PieceLaws
  <2>3. Take(u, n) = s \o <<>>
    BY <1>20, <2>1, <2>2
  <2> QED
    BY <1>17, <1>21, <2>3
<1>22. ASSUME n = x + y PROVE Take(u, n) = u
  <2>1. h = m + 1
    BY <1>12, <1>14, <1>22
  <2>2. Take(u, n) = u \o <<>>
    BY <1>3, <1>7, <1>8, <1>12, <2>1
  <2> QED
    BY <2>2
<1>23. n <= x => Take(u, n) = Take(s, n)
  BY <1>4, <1>5, <1>19, <1>21
<1> QED
  BY <1>2, <1>4, <1>17, <1>20, <1>22, <1>23

\* Taking code points of two texts.
LEMMA TakeConcat ==
  ASSUME NEW s \in Seq(Atoms), NEW t \in Seq(Atoms), NEW n \in 0..(CodePoints(s) + CodePoints(t))
  PROVE  /\ n <= CodePoints(s) => Take(s \o t, n) = Take(s, n)
         /\ n >= CodePoints(s) => Take(s \o t, n) = s \o Take(t, n - CodePoints(s))
<1> DEFINE Good == {r \in Seq(Atoms) :
              \A k \in 0..(CodePoints(s) + CodePoints(r)) :
                /\ k <= CodePoints(s) => Take(s \o r, k) = Take(s, k)
                /\ k >= CodePoints(s) => Take(s \o r, k) = s \o Take(r, k - CodePoints(s))}
<1>1. PICK x \in Nat : x = CodePoints(s)
  BY CodeLaws
<1>2. <<>> \in Good
  <2> SUFFICES ASSUME NEW k \in 0..(CodePoints(s) + CodePoints(<<>>))
               PROVE  /\ k <= CodePoints(s) => Take(s \o <<>>, k) = Take(s, k)
                      /\ k >= CodePoints(s) => Take(s \o <<>>, k) = s \o Take(<<>>, k - CodePoints(s))
    <3>1. <<>> \in Seq(Atoms)
      OBVIOUS
    <3> QED
      BY <3>1, Zenon
  <2>1. s \o <<>> = s /\ <<>> \in Seq(Atoms) /\ "sp" \in Atoms
    BY AtomsOK
  <2>2. k \in 0..x
    BY <1>1, CodeLaws
  <2>3. k >= x => k = x /\ k - x = 0
    BY <1>1, <2>2
  <2>4. PICK y \in Nat : y = Points["sp"]
    BY <2>1, CodeLaws
  <2>5. x \in 0..(CodePoints(s) + Points["sp"]) /\ 0 \in 0..(CodePoints(<<>>) + Points["sp"])
    BY <1>1, <2>4, CodeLaws
  <2>6. Take(s, x) = s
    BY <1>1, <2>1, <2>5, TakeAppend
  <2>7. Take(<<>>, 0) = <<>>
    BY <2>1, <2>5, CodeLaws, TakeAppend
  <2> QED
    BY <1>1, <2>1, <2>3, <2>6, <2>7
<1>3. ASSUME NEW r \in Seq(Atoms), NEW a \in Atoms, r \in Good PROVE Append(r, a) \in Good
  <2>1. PICK y \in Nat, z \in Nat : y = CodePoints(r) /\ z = Points[a] /\ z >= 1
    BY CodeLaws
  <2>2. PICK u \in Seq(Atoms) : u = s \o r
    <3>1. s \o r \in Seq(Atoms)
      OBVIOUS
    <3> QED
      BY <3>1
  <2>3. CodePoints(u) = x + y /\ CodePoints(Append(r, a)) = y + z
    BY <1>1, <2>1, <2>2, CodeLaws
  <2>4. s \o Append(r, a) = Append(u, a) /\ Append(r, a) \in Seq(Atoms)
    BY <2>2, ConcatAppend
  <2>5. \A k \in 0..(x + y) : /\ k <= x => Take(u, k) = Take(s, k)
                              /\ k >= x => Take(u, k) = s \o Take(r, k - x)
    BY <1>1, <1>3, <2>1, <2>2
  <2> SUFFICES ASSUME NEW k \in 0..(x + (y + z))
               PROVE  /\ k <= x => Take(Append(u, a), k) = Take(s, k)
                      /\ k >= x => Take(Append(u, a), k) = s \o Take(Append(r, a), k - x)
    BY <1>1, <2>3, <2>4
  <2>6. k \in 0..(CodePoints(u) + Points[a])
    BY <2>1, <2>3
  <2>7. CASE k <= x + y
    <3>1. Take(Append(u, a), k) = Take(u, k)
      BY <2>3, <2>6, <2>7, TakeAppend
    <3>2. k >= x => Take(Append(r, a), k - x) = Take(r, k - x)
      <4>1. k >= x => k - x \in 0..(CodePoints(r) + Points[a]) /\ k - x <= CodePoints(r)
        BY <2>1, <2>7
      <4> QED
        BY <4>1, TakeAppend
    <3>3. k \in 0..(x + y)
      BY <2>7
    <3> QED
      BY <2>5, <3>1, <3>2, <3>3
  <2>8. CASE k > x + y /\ k < x + y + z
    <3>1. k > x /\ ~ (k <= x)
      BY <2>8
    <3>2. Take(Append(u, a), k) = u \o Piece[a][k - (x + y)]
      <4>1. k >= CodePoints(u) /\ k < CodePoints(u) + Points[a]
        BY <2>1, <2>3, <2>8
      <4>2. Take(Append(u, a), k) = u \o Piece[a][k - CodePoints(u)]
        BY <2>6, <4>1, TakeAppend
      <4> QED
        BY <2>3, <4>2
    <3>3. Take(Append(r, a), k - x) = r \o Piece[a][k - (x + y)]
      <4>1. /\ k - x \in 0..(CodePoints(r) + Points[a]) /\ k - x >= CodePoints(r)
            /\ k - x < CodePoints(r) + Points[a] /\ (k - x) - CodePoints(r) = k - (x + y)
        BY <2>1, <2>8
      <4>2. Take(Append(r, a), k - x) = r \o Piece[a][(k - x) - CodePoints(r)]
        BY <4>1, TakeAppend
      <4> QED
        BY <4>1, <4>2
    <3>4. PICK q \in Seq(Atoms) : q = Piece[a][k - (x + y)]
      <4>1. k - (x + y) \in Nat /\ k - (x + y) < Points[a]
        BY <2>1, <2>8
      <4> QED
        BY <4>1, PieceLaws
    <3>5. (s \o r) \o q = s \o (r \o q)
      BY ConcatAssociative
    <3> QED
      BY <2>2, <3>1, <3>2, <3>3, <3>4, <3>5
  <2>9. CASE k = x + y + z
    <3>1. ~ (k <= x)
      BY <2>1, <2>9
    <3>2. Take(Append(u, a), k) = Append(u, a)
      <4>1. k = CodePoints(u) + Points[a]
        BY <2>1, <2>3, <2>9
      <4> QED
        BY <2>6, <4>1, TakeAppend
    <3>3. Take(Append(r, a), k - x) = Append(r, a)
      <4>0. k - x = y + z /\ k - x \in 0..(y + z)
        BY <2>9
      <4>1. k - x = CodePoints(r) + Points[a] /\ k - x \in 0..(CodePoints(r) + Points[a])
        BY <2>1, <4>0
      <4> QED
        BY <4>1, TakeAppend
    <3> QED
      BY <2>4, <3>1, <3>2, <3>3
  <2> QED
    BY <2>7, <2>8, <2>9
<1> HIDE DEF Good
<1>4. t \in Good
  BY <1>2, <1>3, SeqInduction
<1> QED
  BY <1>4 DEF Good

\* Glyphs are drawn as they are.
LEMMA GlyphsDraw ==
  ASSUME NEW s \in Seq(Glyphs)
  PROVE  Drawn(s) = s
<1> DEFINE Good == {t \in Seq(Glyphs) : Drawn(t) = t}
<1>1. <<>> \in Good
  BY DrawnLaws
<1>2. ASSUME NEW t \in Seq(Glyphs), NEW a \in Glyphs, t \in Good PROVE Append(t, a) \in Good
  <2>1. Drawn(Append(t, a)) = Draw(Drawn(t), a)
    BY DrawnLaws
  <2>2. a \notin Blanks \cup {"ctrl"}
    BY GlyphConstants
  <2> QED
    BY <1>2, <2>1, <2>2 DEF Draw
<1> HIDE DEF Good
<1>3. s \in Good
  BY <1>1, <1>2, SeqInduction
<1> QED
  BY <1>3 DEF Good

\* A beginning stays one when more is written.
LEMMA OpensMore ==
  ASSUME NEW p, NEW d \in Seq(Atoms), NEW a \in Atoms, Opens(p, d)
  PROVE  Opens(p, Append(d, a))
<1>1. PICK m \in Nat : m = Len(d)
  OBVIOUS
<1>2. PICK e \in Seq(Atoms) : /\ e = Append(d, a) /\ Len(e) = m + 1 /\ e[m + 1] = a
                              /\ \A i \in 1..m : e[i] = d[i]
  <2>1. Append(d, a) \in Seq(Atoms) /\ Len(Append(d, a)) = m + 1 /\ Append(d, a)[m + 1] = a
    BY <1>1
  <2>2. \A i \in 1..m : Append(d, a)[i] = d[i]
    BY <1>1
  <2> QED
    BY <2>1, <2>2
<1>3. \A i \in 0..m : SubSeq(e, 1, i) = SubSeq(d, 1, i)
  BY <1>1, <1>2
<1>4. CASE p = d
  <2>1. SubSeq(e, 1, m) = d
    BY <1>1, <1>3, PrefixLaws
  <2>2. 0 \in 0..(Points[a] - 1) /\ Piece[a][0] = <<>>
    BY CodeLaws, PieceLaws
  <2>3. p = SubSeq(e, 1, (m + 1) - 1) \o Piece[e[m + 1]][0]
    <3>1. d \o <<>> = d /\ (m + 1) - 1 = m
      OBVIOUS
    <3> QED
      BY <1>2, <1>4, <2>1, <2>2, <3>1
  <2>4. m + 1 \in 1..Len(e)
    BY <1>2
  <2> QED
    BY <1>2, <2>2, <2>3, <2>4 DEF Opens
<1>5. CASE p # d
  <2>0. PICK i \in 1..m : \E k \in 0..(Points[d[i]] - 1) : p = SubSeq(d, 1, i - 1) \o Piece[d[i]][k]
    BY <1>1, <1>5 DEF Opens
  <2>1. PICK k \in 0..(Points[d[i]] - 1) : p = SubSeq(d, 1, i - 1) \o Piece[d[i]][k]
    BY <2>0
  <2>2. i \in 1..Len(e) /\ i - 1 \in 0..m /\ e[i] = d[i]
    BY <1>2
  <2>3. p = SubSeq(e, 1, i - 1) \o Piece[e[i]][k] /\ k \in 0..(Points[e[i]] - 1)
    BY <1>3, <2>1, <2>2
  <2> QED
    BY <1>2, <2>2, <2>3 DEF Opens
<1> QED
  BY <1>4, <1>5

\* What is taken of a text: a beginning of it, drawn too, of which less can be taken.
LEMMA TakeLaws ==
  ASSUME NEW s \in Seq(Atoms), NEW n \in 0..CodePoints(s)
  PROVE  /\ Take(s, n) \in Seq(Atoms) /\ CodePoints(Take(s, n)) = n
         /\ \A j \in 0..n : Take(Take(s, n), j) = Take(s, j)
         /\ Opens(Drawn(Take(s, n)), Drawn(s))
         /\ n > 0 /\ s[1] \notin Blanks => Take(s, n) # <<>> /\ Take(s, n)[1] \notin Blanks
<1> DEFINE Law(t, k) ==
             /\ Take(t, k) \in Seq(Atoms) /\ CodePoints(Take(t, k)) = k
             /\ \A j \in 0..k : Take(Take(t, k), j) = Take(t, j)
             /\ Opens(Drawn(Take(t, k)), Drawn(t))
             /\ k > 0 /\ t[1] \notin Blanks => Take(t, k) # <<>> /\ Take(t, k)[1] \notin Blanks
           Good == {t \in Seq(Atoms) : \A k \in 0..CodePoints(t) : Law(t, k)}
<1>1. \A t \in Seq(Atoms) : Drawn(t) \in Seq(Atoms)
  BY DrawnLaws
<1>2. <<>> \in Good
  <2>1. <<>> \in Seq(Atoms) /\ CodePoints(<<>>) = 0
    BY CodeLaws
  <2>2. Take(<<>>, 0) = <<>>
    <3>1. "sp" \in Atoms
      BY AtomsOK
    <3>2. 0 \in 0..(CodePoints(<<>>) + Points["sp"])
      BY <2>1, <3>1, CodeLaws
    <3> QED
      BY <2>1, <3>1, <3>2, TakeAppend
  <2>3. Opens(Drawn(<<>>), Drawn(<<>>))
    BY DEF Opens
  <2>4. (\A k \in 0..0 : k = 0) /\ ~ (0 > 0)
    OBVIOUS
  <2>5. Law(<<>>, 0)
    BY <2>1, <2>2, <2>3, <2>4, Zenon
  <2> HIDE DEF Law
  <2> QED
    BY <2>1, <2>4, <2>5
<1>3. ASSUME NEW t \in Seq(Atoms), NEW a \in Atoms, t \in Good PROVE Append(t, a) \in Good
  <2>1. PICK x \in Nat, y \in Nat : /\ x = CodePoints(t) /\ y = Points[a] /\ y >= 1
                                    /\ CodePoints(Append(t, a)) = x + y
    BY CodeLaws
  <2>2. \A k \in 0..x : Law(t, k)
    BY <1>3, <2>1
  <2>3. \A k \in 0..(x + y) :
          /\ k <= x => Take(Append(t, a), k) = Take(t, k)
          /\ k >= x /\ k < x + y => Take(Append(t, a), k) = t \o Piece[a][k - x]
          /\ k = x + y => Take(Append(t, a), k) = Append(t, a)
    BY <2>1, TakeAppend
  <2>4. PICK u \in Seq(Atoms) : u = Append(t, a) /\ u # <<>> /\ (t # <<>> => u[1] = t[1])
                               /\ (t = <<>> => u[1] = a)
    <3>1. Append(t, a) \in Seq(Atoms) /\ Append(t, a) # <<>>
      OBVIOUS
    <3>2. t # <<>> => Append(t, a)[1] = t[1]
      OBVIOUS
    <3>3. t = <<>> => Append(t, a)[1] = a
      OBVIOUS
    <3> QED
      BY <3>1, <3>2, <3>3
  <2>5. Drawn(u) = Draw(Drawn(t), a)
    BY <2>4, DrawnLaws
  <2> SUFFICES ASSUME NEW k \in 0..(x + y) PROVE Law(u, k)
    BY <2>1, <2>4
  <2>6. CASE k <= x
    <3>1. k \in 0..x /\ Take(u, k) = Take(t, k)
      BY <2>3, <2>4, <2>6
    <3>2. Law(t, k)
      BY <2>2, <3>1
    <3>3. \A j \in 0..k : Take(u, j) = Take(t, j)
      <4>1. \A j \in 0..k : j \in 0..(x + y) /\ j <= x
        BY <3>1
      <4> QED
        BY <2>3, <2>4, <4>1
    <3>4. Opens(Drawn(Take(u, k)), Drawn(u))
      <4>1. Opens(Drawn(Take(u, k)), Drawn(t))
        BY <3>1, <3>2
      <4>2. Opens(Drawn(Take(u, k)), Append(Drawn(t), a))
        BY <1>1, <4>1, OpensMore
      <4> QED
        BY <2>5, <4>1, <4>2 DEF Draw
    <3>5. k > 0 /\ u[1] \notin Blanks => Take(u, k) # <<>> /\ Take(u, k)[1] \notin Blanks
      <4>1. k > 0 => t # <<>>
        <5>1. k > 0 => x # 0
          BY <3>1
        <5> QED
          BY <2>1, <5>1, CodeLaws
      <4> QED
        BY <2>4, <3>1, <3>2, <4>1
    <3> QED
      BY <3>1, <3>2, <3>3, <3>4, <3>5
  <2>7. CASE k > x /\ k < x + y
    <3>1. k - x \in Nat /\ k - x < Points[a] /\ k - x > 0 /\ k >= x
      BY <2>1, <2>7
    <3>2. PICK q \in Seq(Atoms) : /\ q = Piece[a][k - x] /\ q \in Seq(Glyphs)
                                  /\ CodePoints(q) = k - x
                                  /\ \A j \in 0..(k - x) : Take(q, j) = Piece[a][j]
      BY <3>1, PieceLaws
    <3>3. Take(u, k) = t \o q
      BY <2>3, <2>4, <2>7, <3>1, <3>2
    <3>4. t \o q \in Seq(Atoms) /\ CodePoints(t \o q) = k
      BY <2>1, <3>1, <3>2, CodeLaws
    <3>5. ASSUME NEW j \in 0..k PROVE Take(t \o q, j) = Take(u, j)
      <4>0. j \in 0..(CodePoints(t) + CodePoints(q)) /\ j \in 0..(x + y)
        BY <2>1, <2>7, <3>2
      <4>1. CASE j <= x
        BY <2>1, <2>3, <2>4, <4>0, <4>1, TakeConcat
      <4>2. CASE j > x
        <5>0. Take(t \o q, j) = t \o Take(q, j - CodePoints(t))
          <6>1. j >= CodePoints(t)
            BY <2>1, <4>0, <4>2
          <6> QED
            BY <4>0, <6>1, TakeConcat
        <5>1. Take(t \o q, j) = t \o Take(q, j - x)
          BY <2>1, <5>0
        <5>2. j - x \in 0..(k - x) /\ j >= x /\ j < x + y
          BY <2>7, <4>2
        <5>3. Take(u, j) = t \o Piece[a][j - x]
          BY <2>3, <2>4, <4>0, <5>2
        <5> QED
          BY <3>2, <5>1, <5>2, <5>3
      <4> QED
        BY <4>0, <4>1, <4>2
    <3>6. Opens(Drawn(t \o q), Drawn(u))
      <4>1. a \notin Blanks \cup {"ctrl"}
        BY <2>1, <3>1, GlyphConstants
      <4>2. PICK d \in Seq(Atoms) : d = Drawn(t)
        BY <1>1
      <4>3. Drawn(u) = Append(d, a)
        BY <2>5, <4>1, <4>2 DEF Draw
      <4>4. Drawn(t \o q) = d \o q
        <5>1. Drawn(t \o q) = Drawn(t) \o Drawn(q)
          BY DrawnConcat
        <5>2. Drawn(q) = q
          BY <3>2, GlyphsDraw
        <5> QED
          BY <4>2, <5>1, <5>2
      <4>5. PICK e \in Seq(Atoms) : /\ e = Append(d, a) /\ Len(d) + 1 \in 1..Len(e) /\ e[Len(d) + 1] = a
                                    /\ SubSeq(e, 1, (Len(d) + 1) - 1) = d
        <5>1. Append(d, a) \in Seq(Atoms)
          OBVIOUS
        <5>2. /\ Len(Append(d, a)) = Len(d) + 1 /\ Len(d) \in Nat /\ (Len(d) + 1) - 1 = Len(d)
              /\ Append(d, a)[Len(d) + 1] = a
          OBVIOUS
        <5>3. SubSeq(Append(d, a), 1, Len(d)) = d
          OBVIOUS
        <5>4. Len(d) + 1 \in 1..Len(Append(d, a))
          BY <5>2
        <5> QED
          BY <5>1, <5>2, <5>3, <5>4, Zenon
      <4>6. d \o q = SubSeq(e, 1, (Len(d) + 1) - 1) \o Piece[e[Len(d) + 1]][k - x]
        BY <3>2, <4>5
      <4>7. k - x \in 0..(Points[e[Len(d) + 1]] - 1)
        BY <2>1, <3>1, <4>5
      <4> QED
        BY <4>3, <4>4, <4>5, <4>6, <4>7 DEF Opens
    <3>7. u[1] \notin Blanks => t \o q # <<>> /\ (t \o q)[1] \notin Blanks
      <4>1. q # <<>>
        BY <3>1, <3>2, CodeLaws
      <4>2. q[1] \in Glyphs /\ q[1] \notin Blanks
        BY <3>2, <4>1, GlyphConstants
      <4>3. (t \o q)[1] = IF t = <<>> THEN q[1] ELSE t[1]
        BY <3>2, <4>1
      <4>4. t \o q # <<>>
        BY <4>1
      <4> QED
        BY <2>4, <4>2, <4>3, <4>4
    <3> QED
      BY <3>3, <3>4, <3>5, <3>6, <3>7
  <2>8. CASE k = x + y
    <3>1. Take(u, k) = u
      BY <2>3, <2>4, <2>8
    <3>2. CodePoints(u) = k /\ k > 0
      BY <2>1, <2>4, <2>8
    <3>3. Opens(Drawn(u), Drawn(u))
      BY DEF Opens
    <3>4. u # <<>>
      BY <2>4
    <3> QED
      BY <3>1, <3>2, <3>3, <3>4, Zenon
  <2> HIDE DEF Law
  <2> QED
    BY <2>6, <2>7, <2>8
<1> HIDE DEF Law, Good
<1>4. s \in Good
  BY <1>2, <1>3, SeqInduction
<1>5. Law(s, n)
  BY <1>4 DEF Good
<1> QED
  BY <1>5 DEF Law

LEMMA ShortenOK ==
  ASSUME NEW text \in Seq(Atoms), text # <<>>
  PROVE  \E n \in 1..CodePoints(text) :
           /\ Shorten(text) = Append(TrimRight(Take(text, n)), "dots")
           /\ CodePoints(text) >= 2 => n <= CodePoints(text) - 1
<1>1. PICK c \in Nat : c = CodePoints(text) /\ c >= 1
  BY CodeLaws
<1> DEFINE x == (9 * c) \div 10
           n == Max({1, x})
<1>2. x \in Nat /\ x <= c - 1
  BY <1>1
<1>3. Shorten(text) = Append(TrimRight(Take(text, n)), "dots")
  BY <1>1 DEF Shorten
<1> HIDE DEF x
<1>4. n \in {1, x} /\ 1 <= n
  <2> DEFINE S == {1, x}
  <2>1. S \in SUBSET (0..c) /\ S \subseteq Int /\ 1 \in S
    BY <1>1, <1>2
  <2> HIDE DEF S
  <2>2. IsFiniteSet(0..c)
    BY <1>1, FS_Interval
  <2>3. IsFiniteSet(S)
    BY <2>1, <2>2, FS_Subset
  <2>4. Max(S) \in S /\ 1 <= Max(S)
    BY <2>1, <2>3, MaxOf
  <2> QED
    BY <2>4 DEF S
<1> HIDE DEF n
<1>5. n \in 1..c /\ (c >= 2 => n <= c - 1)
  BY <1>1, <1>2, <1>4
<1> QED
  BY <1>1, <1>3, <1>5

\* What a text becomes, cut by cut.
Cuts(text, n, f) == f = [k \in 0..n |-> IF k = 0 THEN text ELSE Shorten(f[k - 1])]

LEMMA CutsExist ==
  ASSUME NEW text
  PROVE  \A n \in Nat : \E f : Cuts(text, n, f)
<1> DEFINE Good == {n \in Nat : \E f : Cuts(text, n, f)}
<1>1. 0 \in Good
  <2>1. Cuts(text, 0, [k \in 0..0 |-> text])
    BY DEF Cuts
  <2> QED
    BY <2>1
<1>2. ASSUME NEW n \in Nat, n > 0, n - 1 \in Good PROVE n \in Good
  <2>1. PICK f : Cuts(text, n - 1, f)
    BY <1>2
  <2> DEFINE h == [k \in 0..n |-> IF k = n THEN Shorten(f[n - 1]) ELSE f[k]]
  <2>2. \A k \in 0..(n - 1) : f[k] = IF k = 0 THEN text ELSE Shorten(f[k - 1])
    BY <2>1 DEF Cuts
  <2>3. ASSUME NEW k \in 0..n PROVE h[k] = IF k = 0 THEN text ELSE Shorten(h[k - 1])
    <3>1. CASE k = n
      <4>1. h[k] = Shorten(f[n - 1]) /\ h[k - 1] = f[n - 1] /\ k # 0
        BY <1>2, <3>1
      <4> QED
        BY <4>1
    <3>2. CASE k # n /\ k # 0
      <4>1. k \in 0..(n - 1) /\ k - 1 \in 0..n /\ k - 1 # n
        BY <3>2
      <4>2. h[k] = f[k] /\ h[k - 1] = f[k - 1]
        BY <3>2, <4>1
      <4> QED
        BY <2>2, <3>2, <4>1, <4>2
    <3>3. CASE k # n /\ k = 0
      BY <1>2, <2>2, <3>3
    <3> QED
      BY <3>1, <3>2, <3>3
  <2>4. Cuts(text, n, h)
    <3> DEFINE e(k) == IF k = 0 THEN text ELSE Shorten(h[k - 1])
    <3>1. h = [k \in 0..n |-> h[k]]
      OBVIOUS
    <3> HIDE DEF h
    <3> QED
      BY <2>3, <3>1 DEF Cuts
  <2> QED
    BY <2>4
<1> HIDE DEF Good
<1> SUFFICES ASSUME NEW n \in Nat PROVE n \in Good
  BY DEF Good
<1>3. \A k \in 1..n : k - 1 \in Good => k \in Good
  BY <1>2
<1>4. \A k \in 0..n : k \in Good
  BY <1>1, <1>3, Induction
<1> QED
  BY <1>4

\* What the cuts leave is what one cut leaves.
CutOf(text, t) ==
  \E n \in 1..CodePoints(text) : t = Append(TrimRight(Take(text, n)), "dots")

LEMMA CutAgain ==
  ASSUME NEW text \in Seq(Atoms), text # <<>>, text[1] \notin Blanks, NEW t, CutOf(text, t)
  PROVE  t \in Seq(Atoms) /\ CutOf(text, Shorten(t))
<1>1. PICK n \in 1..CodePoints(text) : t = Append(TrimRight(Take(text, n)), "dots")
  BY DEF CutOf
<1>2. n \in 0..CodePoints(text) /\ n > 0 /\ CodePoints(text) \in Nat
  BY CodeLaws
<1>3. PICK w \in Seq(Atoms) : /\ w = Take(text, n) /\ CodePoints(w) = n
                              /\ \A j \in 0..n : Take(w, j) = Take(text, j)
                              /\ w # <<>> /\ w[1] \notin Blanks
  BY <1>2, TakeLaws
<1>4. PICK p \in Seq(Atoms), q \in Seq(Atoms) : p = TrimRight(w) /\ w = p \o q /\ p # <<>>
  <2>1. TrimRight(w) # <<>> /\ \E m \in 0..Len(w) : TrimRight(w) = SubSeq(w, 1, m)
    BY <1>3, TrimOK
  <2>2. PICK m \in 0..Len(w) : TrimRight(w) = SubSeq(w, 1, m)
    BY <2>1
  <2>3. \E p, q \in Seq(Atoms) : p = SubSeq(w, 1, m) /\ w = p \o q
    BY RestOf
  <2> QED
    BY <2>1, <2>2, <2>3
<1>5. PICK x \in Nat, y \in Nat : x = CodePoints(p) /\ y = CodePoints(q) /\ n = x + y /\ x >= 1
  <2>1. CodePoints(p) \in Nat /\ CodePoints(q) \in Nat /\ CodePoints(p) # 0
    BY <1>4, CodeLaws
  <2>2. CodePoints(p \o q) = CodePoints(p) + CodePoints(q)
    BY CodeLaws
  <2>3. n = CodePoints(p) + CodePoints(q)
    BY <1>3, <1>4, <2>2
  <2>4. CodePoints(p) >= 1
    BY <2>1
  <2> QED
    BY <2>1, <2>3, <2>4
<1>6. /\ "dots" \in Atoms /\ Points["dots"] = 1 /\ t = Append(p, "dots") /\ t \in Seq(Atoms)
      /\ t # <<>> /\ CodePoints(t) = x + 1
  <2>1. "dots" \in Atoms /\ Points["dots"] = 1
    BY AtomsOK, GlyphConstants
  <2>2. t = Append(p, "dots")
    BY <1>1, <1>3, <1>4
  <2>3. CodePoints(Append(p, "dots")) = CodePoints(p) + Points["dots"]
    BY <2>1, CodeLaws
  <2>4. Append(p, "dots") \in Seq(Atoms) /\ Append(p, "dots") # <<>>
    BY <2>1
  <2> QED
    BY <1>5, <2>1, <2>2, <2>3, <2>4
<1>7. PICK m \in 1..x : Shorten(t) = Append(TrimRight(Take(t, m)), "dots")
  <2>0. t \in Seq(Atoms) /\ t # <<>>
    BY <1>6
  <2>1. PICK m \in 1..CodePoints(t) : /\ Shorten(t) = Append(TrimRight(Take(t, m)), "dots")
                                      /\ CodePoints(t) >= 2 => m <= CodePoints(t) - 1
    BY <2>0, ShortenOK, Zenon
  <2>2. m \in 1..x
    BY <1>5, <1>6, <2>1
  <2> QED
    BY <2>1, <2>2
<1>8. Take(t, m) = Take(text, m)
  <2>1. Take(t, m) = Take(p, m)
    <3>1. m \in 0..(CodePoints(p) + Points["dots"]) /\ m <= CodePoints(p)
      BY <1>5, <1>6
    <3> QED
      BY <1>6, <3>1, TakeAppend
  <2>2. Take(w, m) = Take(p, m)
    <3>1. m \in 0..(CodePoints(p) + CodePoints(q)) /\ m <= CodePoints(p)
      BY <1>5
    <3>2. Take(p \o q, m) = Take(p, m)
      BY <3>1, TakeConcat
    <3> QED
      BY <1>4, <3>2
  <2>3. m \in 0..n
    BY <1>5
  <2> QED
    BY <1>3, <2>1, <2>2, <2>3
<1>9. m \in 1..CodePoints(text)
  BY <1>2, <1>5
<1> QED
  BY <1>6, <1>7, <1>8, <1>9 DEF CutOf

LEMMA CutsOK ==
  ASSUME NEW text \in Seq(Atoms), text # <<>>, text[1] \notin Blanks,
         NEW n \in Nat, NEW f, Cuts(text, n, f)
  PROVE  f[0] = text /\ \A k \in 1..n : CutOf(text, f[k])
<1>1. \A k \in 0..n : f[k] = IF k = 0 THEN text ELSE Shorten(f[k - 1])
  BY DEF Cuts
<1>2. f[0] = text
  BY <1>1
<1> DEFINE Good == {k \in Nat : k > 0 => CutOf(text, f[k])}
<1>3. 0 \in Good
  OBVIOUS
<1>4. ASSUME NEW k \in 1..n, k - 1 \in Good PROVE k \in Good
  <2>0. k \in 0..n /\ k # 0 /\ k \in Nat /\ k - 1 \in Nat
    OBVIOUS
  <2>1. f[k] = Shorten(f[k - 1])
    BY <1>1, <2>0
  <2>2. CASE k - 1 = 0
    <3>1. CutOf(text, Shorten(text))
      BY ShortenOK DEF CutOf
    <3> QED
      BY <1>2, <2>0, <2>1, <2>2, <3>1
  <2>3. CASE k - 1 > 0
    <3>1. CutOf(text, f[k - 1])
      BY <1>4, <2>3
    <3> QED
      BY <2>0, <2>1, <3>1, CutAgain
  <2> QED
    BY <2>0, <2>2, <2>3
<1> HIDE DEF Good
<1>5. \A k \in 0..n : k \in Good
  BY <1>3, <1>4, Induction
<1> QED
  BY <1>2, <1>5 DEF Good

\* What ShowsText asks of a card whose text is text.
Shows(card, text) ==
  LET drawn == Drawn(FlattenSeq(card.lines))
      ss    == Split(text, "nl")
  IN /\ \A l \in ToSet(card.lines) : Measure(l, card.size) <= PanelW \/ Len(l) = 1
     /\ InkHeight(Len(card.lines), card.size) <= 1000 * InnerH
     /\ \/ drawn = Drawn(text)
        \/ /\ InkHeight(Len(FlattenSeq([i \in 1..Len(ss) |-> Full(ss[i])])), MinFont) > 1000 * InnerH
           /\ Last(drawn) = "dots"
           /\ Opens(Front(drawn), Drawn(text))

LEMMA FitOK ==
  ASSUME NEW text \in Seq(Atoms), text # <<>>, text[1] \notin Blanks
  PROVE  Shows(Fit(text), text)
<1> DEFINE Eq(f) == f = [k \in 0..Rounds |-> IF k = 0 THEN text ELSE Shorten(f[k - 1])]
           cut == CHOOSE f : Eq(f)
           C == {k \in 0..Rounds : k = Rounds \/ Fitting(cut[k]) # {}}
           round == Min(C)
           card == Fit(text)
           ss == Split(text, "nl")
           low == FlattenSeq([i \in 1..Len(ss) |-> Full(ss[i])])
<1>0. /\ Rounds \in Nat /\ Rounds > 0 /\ MinFont \in Sizes /\ PanelW \in Nat /\ InnerH \in Nat
      /\ "sp" \in Atoms /\ "dots" \in Atoms
  BY SizeOK, AtomsOK
<1>1. Cuts(text, Rounds, cut)
  <2>1. \E f : Cuts(text, Rounds, f)
    BY <1>0, CutsExist
  <2> QED
    BY <2>1 DEF Cuts
<1>2. card = IF round = Rounds
             THEN [size |-> MinFont, lines |-> << <<"dots">> >>]
             ELSE [size |-> Max(Fitting(cut[round])), lines |-> Wrap(cut[round], Max(Fitting(cut[round])))]
  BY DEF Fit
<1> HIDE DEF cut, card
<1>3. cut[0] = text /\ \A k \in 1..Rounds : CutOf(text, cut[k])
  BY <1>0, <1>1, CutsOK
<1>4. round \in C /\ \A k \in C : round <= k
  <2>1. C \subseteq Nat /\ Rounds \in C
    BY <1>0
  <2> HIDE DEF C
  <2> QED
    BY <2>1, MinOf
<1> HIDE DEF round
<1>5. round \in 0..Rounds /\ (round # Rounds => Fitting(cut[round]) # {})
  BY <1>4
<1>6. round # 0 => InkHeight(Len(low), MinFont) > 1000 * InnerH
  <2> SUFFICES ASSUME round # 0 PROVE InkHeight(Len(low), MinFont) > 1000 * InnerH
    OBVIOUS
  <2>1. 0 \notin C
    <3> HIDE DEF C
    <3>1. 0 \in C => round <= 0
      BY <1>4
    <3> QED
      BY <1>5, <3>1
  <2>2. Fitting(text) = {}
    BY <1>0, <1>3, <2>1
  <2>3. ~ (InkHeight(Len(Wrap(text, MinFont)), MinFont) <= 1000 * InnerH)
    BY <1>0, <2>2 DEF Fitting
  <2>4. Len(Wrap(text, MinFont)) \in Nat /\ Len(low) \in Nat /\ Len(Wrap(text, MinFont)) <= Len(low)
    BY <1>0, WrapShort
  <2> HIDE DEF low
  <2>5. InkHeight(Len(Wrap(text, MinFont)), MinFont) <= InkHeight(Len(low), MinFont)
    BY <1>0, <2>4, InkLaws
  <2>6. InkHeight(Len(Wrap(text, MinFont)), MinFont) \in Int /\ InkHeight(Len(low), MinFont) \in Int
    BY <1>0, <2>4, InkLaws
  <2> QED
    BY <1>0, <2>3, <2>5, <2>6
<1> HIDE DEF low
<1>7. CASE round = Rounds
  <2>1. card.size = MinFont /\ card.lines = << <<"dots">> >>
    BY <1>2, <1>7
  <2>2. <<"dots">> \in Seq(Atoms) /\ FlattenSeq(card.lines) = <<"dots">>
    <3>1. <<"dots">> \in Seq(Atoms)
      BY <1>0
    <3> QED
      BY <2>1, <3>1, FlattenOne
  <2>3. Drawn(<<"dots">>) = <<"dots">>
    <3>1. <<"dots">> = Append(<<>>, "dots") /\ <<>> \in Seq(Atoms)
      OBVIOUS
    <3>2. Drawn(Append(<<>>, "dots")) = Draw(Drawn(<<>>), "dots") /\ Drawn(<<>>) = <<>>
      BY <1>0, <3>1, DrawnLaws
    <3> QED
      BY <3>1, <3>2 DEF Draw, Blanks
  <2>4. Len(card.lines) = 1 /\ ToSet(card.lines) = {<<"dots">>}
    BY <2>1 DEF ToSet
  <2>5. Len(<<"dots">>) = 1
    OBVIOUS
  <2>6. InkHeight(1, MinFont) <= 1000 * InnerH
    BY InkLaws
  <2>7. Last(<<"dots">>) = "dots" /\ Front(<<"dots">>) = <<>>
    BY DEF Last, Front
  <2>8. Opens(<<>>, Drawn(text))
    <3>1. 0 \in 0..CodePoints(text)
      BY CodeLaws
    <3>2. Take(text, 0) \in Seq(Atoms) /\ CodePoints(Take(text, 0)) = 0 /\ Opens(Drawn(Take(text, 0)), Drawn(text))
      BY <3>1, TakeLaws
    <3>3. Take(text, 0) = <<>> /\ Drawn(<<>>) = <<>>
      BY <3>2, CodeLaws, DrawnLaws
    <3> QED
      BY <3>2, <3>3, Zenon
  <2>9. InkHeight(Len(low), MinFont) > 1000 * InnerH
    BY <1>0, <1>6, <1>7
  <2>10. Shows(card, text)
    BY <2>1, <2>2, <2>3, <2>4, <2>5, <2>6, <2>7, <2>8, <2>9, Zenon DEF Shows, low, ss
  <2> QED
    BY <2>10 DEF card
<1>8. CASE round # Rounds
  <2> DEFINE size == Max(Fitting(cut[round]))
             t == cut[round]
  <2>1. card.size = size /\ card.lines = Wrap(t, size)
    BY <1>2, <1>8
  <2>2. size \in Fitting(t)
    <3> DEFINE S == Fitting(t)
    <3>1. S \in SUBSET (MinFont..MaxFont) /\ S # {}
      BY <1>5, <1>8 DEF Fitting, Sizes
    <3>2. IsFiniteSet(MinFont..MaxFont) /\ MinFont..MaxFont \subseteq Int
      BY CardConstants, FS_Interval
    <3> HIDE DEF S
    <3>3. IsFiniteSet(S)
      BY <3>1, <3>2, FS_Subset
    <3>4. Max(S) \in S
      BY <3>1, <3>2, <3>3, MaxOf
    <3> QED
      BY <3>4 DEF S
  <2>3. size \in Sizes /\ InkHeight(Len(Wrap(t, size)), size) <= 1000 * InnerH
    BY <2>2 DEF Fitting
  <2> HIDE DEF size
  <2>4. t \in Seq(Atoms)
    <3>1. CASE round = 0
      BY <1>3, <3>1
    <3>2. CASE round # 0
      <4>1. CutOf(text, t)
        BY <1>3, <1>5, <3>2
      <4> QED
        BY <4>1, CutAgain
    <3> QED
      BY <3>1, <3>2
  <2>5. \A l \in ToSet(card.lines) : Measure(l, card.size) <= PanelW \/ Len(l) = 1
    <3>1. Wrap(t, size) \in Seq(Inside(size))
      BY <1>0, <2>3, <2>4, WrapOK
    <3>2. ToSet(card.lines) \subseteq Inside(size)
      BY <2>1, <3>1 DEF ToSet
    <3> QED
      BY <2>1, <3>2 DEF Inside
  <2>6. Drawn(FlattenSeq(card.lines)) = Drawn(t)
    BY <1>0, <2>1, <2>3, <2>4, WrapOK
  <2>7. InkHeight(Len(card.lines), card.size) <= 1000 * InnerH
    BY <2>1, <2>3
  <2>8. CASE round = 0
    <3>1. Drawn(FlattenSeq(card.lines)) = Drawn(text)
      BY <1>3, <2>6, <2>8
    <3>2. Shows(card, text)
      BY <2>5, <2>7, <3>1, Zenon DEF Shows
    <3> QED
      BY <3>2 DEF card
  <2>9. CASE round # 0
    <3>1. CutOf(text, t)
      BY <1>3, <1>5, <2>9
    <3>2. PICK p \in Seq(Atoms) : t = Append(p, "dots") /\ Opens(Drawn(p), Drawn(text))
      <4>1. PICK n \in 1..CodePoints(text) : t = Append(TrimRight(Take(text, n)), "dots")
        BY <3>1 DEF CutOf
      <4>2. n \in 0..CodePoints(text)
        OBVIOUS
      <4>3. Take(text, n) \in Seq(Atoms) /\ Opens(Drawn(Take(text, n)), Drawn(text))
        BY <4>2, TakeLaws
      <4>4. TrimRight(Take(text, n)) \in Seq(Atoms) /\ Drawn(TrimRight(Take(text, n))) = Drawn(Take(text, n))
        BY <4>3, TrimOK
      <4> QED
        BY <4>1, <4>3, <4>4
    <3>3. Drawn(t) = Append(Drawn(p), "dots") /\ Drawn(p) \in Seq(Atoms) /\ Drawn(text) \in Seq(Atoms)
      <4>1. Drawn(Append(p, "dots")) = Draw(Drawn(p), "dots") /\ Drawn(p) \in Seq(Atoms) /\ Drawn(text) \in Seq(Atoms)
        BY <1>0, DrawnLaws
      <4> QED
        BY <3>2, <4>1 DEF Draw, Blanks
    <3>4. Last(Drawn(t)) = "dots" /\ Front(Drawn(t)) = Drawn(p)
      BY <1>0, <3>3 DEF Last, Front
    <3>6. InkHeight(Len(low), MinFont) > 1000 * InnerH
      BY <1>6, <2>9
    <3>7. Shows(card, text)
      BY <2>5, <2>6, <2>7, <3>2, <3>4, <3>6, Zenon DEF Shows, low, ss
    <3> QED
      BY <3>7 DEF card
  <2> QED
    BY <2>8, <2>9
<1> QED
  BY <1>7, <1>8

\* Every card shows what was written: no line leaves the panel but a single atom that
\* is wider, and the lines draw the whole text, or - when even the smallest letters had
\* no room for it - a beginning of it, cut between two code points, and an ellipsis.
THEOREM CardShows ==
  ASSUME NEW body \in Seq(Atoms)
  PROVE  ShowsText(Card(body), body)
<1> DEFINE text == Sanitize(body)
<1>2. /\ text \in Seq(Atoms) /\ Drawn(text) = Drawn(body)
      /\ text # <<>> => text[1] \notin Blanks
  BY SanitizeOK
<1>3. ASSUME NEW card, Shows(card, text) PROVE ShowsText(card, body)
  <2> HIDE DEF text
  <2> QED
    BY <1>2, <1>3, Zenon DEF Shows, ShowsText, Full, text
<1> HIDE DEF text
<1>4. CASE text = <<>>
  <2>1. Card(body).size = MaxFont /\ Card(body).lines = <<>>
    BY <1>4 DEF Card, text
  <2>2. ToSet(<<>>) = {} /\ Len(<<>>) = 0
    BY DEF ToSet
  <2>3. InkHeight(0, MaxFont) <= 1000 * InnerH
    BY InkLaws
  <2>4. FlattenSeq(<<>>) = <<>>
    BY FlattenLaws
  <2>5. Shows(Card(body), text)
    BY <1>4, <2>1, <2>2, <2>3, <2>4, Zenon DEF Shows
  <2> QED
    BY <1>3, <2>5
<1>5. CASE text # <<>>
  <2>1. Card(body) = Fit(text)
    BY <1>5 DEF Card, text
  <2>2. Shows(Fit(text), text)
    BY <1>2, <1>5, FitOK
  <2> QED
    BY <1>3, <2>1, <2>2
<1> QED
  BY <1>4, <1>5

-----------------------------------------------------------------------------
(* Settings: the reference that wrapping is compared with                  *)

\* A line from word i to word j.
LEMMA WidthLaws ==
  ASSUME NEW size \in Sizes, NEW words \in Seq(Seq(Atoms)), NEW i \in 1..Len(words)
  PROVE  /\ Width(words, size, i, i) = Measure(words[i], size)
         /\ \A j \in i..Len(words) : Width(words, size, i, j) \in Nat
         /\ \A j \in i..Len(words), k \in 1..Len(words) :
              k = j + 1 => Width(words, size, i, k)
                             = Width(words, size, i, j) + Space(size) + Measure(words[k], size)
<1> DEFINE n == Len(words)
           Y == Seq(Atoms)
           M(j) == Measure(words[j], size)
           L(j) == Measure(FlattenSeq(SubSeq(words, i, j)), size)
<1>0. n \in Nat /\ i \in Nat /\ i > 0 /\ words \in Seq(Y) /\ \A k \in 1..n : words[k] \in Seq(Atoms)
  OBVIOUS
<1> HIDE DEF Y
<1>1. \A j \in 0..n : SubSeq(words, i, j) \in Seq(Y)
  BY <1>0, PartOf
<1>2. \A j \in i..n : SubSeq(words, i, j) = Append(SubSeq(words, i, j - 1), words[j])
  <2> TAKE j \in i..n
  <2>1. SubSeq(words, i, j) = SubSeq(words, i, j - 1) \o <<words[j]>>
    BY <1>0, SubSeqRecursiveSecond
  <2>2. j - 1 \in 0..n /\ words[j] \in Y
    BY <1>0 DEF Y
  <2>3. SubSeq(words, i, j - 1) \in Seq(Y)
    BY <1>1, <2>2
  <2>4. \A s \in Seq(Y), y \in Y : s \o <<y>> = Append(s, y)
    OBVIOUS
  <2> QED
    BY <2>1, <2>2, <2>3, <2>4
<1>3. ASSUME NEW j \in i..n
      PROVE  L(j) = L(j - 1) + M(j) /\ L(j - 1) \in Nat /\ M(j) \in Nat /\ L(j) \in Nat
  <2>1. j - 1 \in 0..n /\ j \in 1..n /\ words[j] \in Seq(Atoms)
    BY <1>0
  <2>2. SubSeq(words, i, j - 1) \in Seq(Seq(Atoms))
    BY <1>1, <2>1 DEF Y
  <2>3. FlattenSeq(SubSeq(words, i, j)) = FlattenSeq(SubSeq(words, i, j - 1)) \o words[j]
    BY <1>2, <2>1, <2>2, FlattenLaws
  <2>4. FlattenSeq(SubSeq(words, i, j - 1)) \in Seq(Atoms)
    BY <2>2, FlattenLaws
  <2>5. Measure(FlattenSeq(SubSeq(words, i, j - 1)) \o words[j], size) = L(j - 1) + M(j)
    BY <2>1, <2>4, MeasureLaws
  <2>6. L(j - 1) \in Nat /\ M(j) \in Nat
    BY <2>1, <2>4, MeasureLaws
  <2>7. L(j) = L(j - 1) + M(j)
    BY <2>3, <2>5, Zenon
  <2> HIDE DEF L, M
  <2> QED
    BY <2>6, <2>7
<1>4. L(i - 1) = 0
  <2>1. SubSeq(words, i, i - 1) = <<>>
    BY <1>0, SubSeqEmpty
  <2>2. FlattenSeq(<<>>) = <<>>
    BY FlattenLaws
  <2>3. FlattenSeq(SubSeq(words, i, i - 1)) = <<>>
    BY <2>1, <2>2, Zenon
  <2>4. Measure(<<>>, size) = 0
    BY MeasureLaws
  <2> QED
    BY <2>3, <2>4, Zenon
<1>5. PICK s \in Nat : s = Space(size)
  BY MeasureLaws
<1>6. \A j : Width(words, size, i, j) = L(j) + (j - i) * s
  BY <1>5 DEF Width, Space
<1>7. \A d \in Nat : d * s \in Nat /\ (d + 1) * s = d * s + s /\ 0 * s = 0
  OBVIOUS
<1> HIDE DEF L, M
<1>8. Width(words, size, i, i) = M(i)
  <2>1. L(i) = M(i) /\ M(i) \in Nat
    BY <1>0, <1>3, <1>4
  <2>2. (i - i) * s = 0
    BY <1>0, <1>7
  <2> QED
    BY <1>6, <2>1, <2>2
<1>9. \A j \in i..n : Width(words, size, i, j) \in Nat
  <2> TAKE j \in i..n
  <2>1. PICK d \in Nat : d = j - i
    BY <1>0
  <2>2. PICK y \in Nat, z \in Nat : y = d * s /\ z = L(j)
    BY <1>3, <1>7
  <2>3. Width(words, size, i, j) = z + y
    BY <1>6, <2>1, <2>2
  <2> QED
    BY <2>3
<1>10. ASSUME NEW j \in i..n, NEW k \in 1..n, k = j + 1
       PROVE  Width(words, size, i, k) = Width(words, size, i, j) + Space(size) + M(k)
  <2>1. PICK x \in Nat : x = L(j)
    BY <1>0, <1>3
  <2>2. k \in i..n /\ k - 1 = j
    BY <1>0, <1>10
  <2>3. PICK y \in Nat : y = M(k)
    BY <1>3, <2>2
  <2>4. L(k) = x + y
    BY <1>3, <2>1, <2>2, <2>3
  <2>5. PICK d \in Nat : d = j - i /\ d + 1 = k - i
    BY <1>0, <1>10
  <2>6. PICK z \in Nat : z = d * s /\ (d + 1) * s = z + s
    BY <1>7
  <2>7. Width(words, size, i, k) = (x + y) + (z + s)
    BY <1>6, <2>4, <2>5, <2>6
  <2>8. Width(words, size, i, j) = x + z
    BY <1>6, <2>1, <2>5, <2>6
  <2> QED
    BY <1>5, <2>3, <2>7, <2>8
<1> QED
  BY <1>8, <1>9, <1>10 DEF M

\* A longer line is no narrower, and no line narrower than one of its words.
LEMMA WidthGrows ==
  ASSUME NEW size \in Sizes, NEW words \in Seq(Seq(Atoms)), NEW i \in 1..Len(words),
         NEW k \in i..Len(words)
  PROVE  \A j \in i..k : /\ Width(words, size, i, j) <= Width(words, size, i, k)
                         /\ Measure(words[j], size) <= Width(words, size, i, k)
<1> DEFINE n == Len(words)
           W(j) == Width(words, size, i, j)
           M(j) == Measure(words[j], size)
           N == {d \in Nat : \A j \in i..k : j - i <= d =>
                   \A l \in i..j : W(l) <= W(j) /\ M(l) <= W(j)}
<1>0. n \in Nat /\ i \in Nat /\ i > 0 /\ k \in Nat /\ k <= n
  OBVIOUS
<1>1. PICK s \in Nat : s = Space(size)
  BY MeasureLaws
<1>2. /\ W(i) = M(i)
      /\ \A j \in i..n : W(j) \in Nat
      /\ \A j \in i..n, l \in 1..n : l = j + 1 => W(l) = W(j) + s + M(l)
  BY <1>1, WidthLaws
<1>3. \A j \in 1..n : M(j) \in Nat
  <2> TAKE j \in 1..n
  <2>1. words[j] \in Seq(Atoms)
    OBVIOUS
  <2> QED
    BY <2>1, MeasureLaws
<1> HIDE DEF W, M, n
<1>4. 0 \in N
  <2>1. \A j \in i..k : j - i <= 0 => j = i
    BY <1>0
  <2>2. W(i) \in Nat /\ M(i) = W(i)
    BY <1>0, <1>2
  <2> QED
    BY <1>0, <2>1, <2>2
<1>5. ASSUME NEW d \in 1..(k - i), d - 1 \in N PROVE d \in N
  <2> SUFFICES ASSUME NEW j \in i..k, j - i <= d, NEW l \in i..j PROVE W(l) <= W(j) /\ M(l) <= W(j)
    BY <1>0
  <2>1. CASE j - i <= d - 1
    BY <1>5, <2>1
  <2>2. CASE ~ (j - i <= d - 1)
    <3>1. j - 1 \in i..k /\ (j - 1) - i <= d - 1 /\ j - 1 \in i..n /\ j \in 1..n /\ j = (j - 1) + 1
      BY <1>0, <2>2
    <3>2. W(j) = W(j - 1) + s + M(j) /\ W(j - 1) \in Nat /\ M(j) \in Nat
      BY <1>2, <1>3, <3>1
    <3>3. CASE l = j
      BY <3>2, <3>3
    <3>4. CASE l # j
      <4>1. l \in i..(j - 1) /\ l \in i..n /\ l \in 1..n
        BY <1>0, <3>4
      <4>2. W(l) <= W(j - 1) /\ M(l) <= W(j - 1)
        BY <1>5, <3>1, <4>1
      <4>3. W(l) \in Nat /\ M(l) \in Nat
        BY <1>2, <1>3, <4>1
      <4> QED
        BY <3>2, <4>2, <4>3
    <3> QED
      BY <3>3, <3>4
  <2> QED
    BY <2>1, <2>2
<1> HIDE DEF N
<1>6. \A d \in 0..(k - i) : d \in N
  <2>1. k - i \in Nat
    BY <1>0
  <2> QED
    BY <1>4, <1>5, <2>1, Induction
<1>7. k - i \in N /\ k \in i..k
  BY <1>0, <1>6
<1>8. \A l \in i..k : W(l) <= W(k) /\ M(l) <= W(k)
  BY <1>0, <1>7 DEF N
<1> QED
  BY <1>8 DEF W, M

-----------------------------------------------------------------------------
(* Where a line of a setting begins and ends                               *)

\* The line that word k is on begins with word e.
BeginsLine(B, e, k) == e \in B /\ e <= k /\ \A b \in B : b <= k => b <= e

EndOf(B, e, n) == Min({b \in B : b > e} \cup {n + 1}) - 1

LEMMA LineOf ==
  ASSUME NEW n \in Nat, NEW B \in SUBSET (1..n), 1 \in B, NEW k \in 1..n
  PROVE  \E e \in B : BeginsLine(B, e, k)
<1> DEFINE S == {b \in B : b <= k}
<1>1. IsFiniteSet(1..n)
  BY FS_Interval
<1>2. S \in SUBSET (1..n) /\ 1 \in S
  <2>1. \A b \in S : b \in 1..n
    OBVIOUS
  <2>2. 1 <= k
    OBVIOUS
  <2>3. 1 \in S
    BY <2>2
  <2> HIDE DEF S
  <2> QED
    BY <2>1, <2>3
<1>3. IsFiniteSet(S)
  BY <1>1, <1>2, FS_Subset
<1>4. S \subseteq Int /\ S # {}
  BY <1>2
<1> HIDE DEF S
<1>5. Max(S) \in S /\ \A b \in S : b <= Max(S)
  BY <1>3, <1>4, MaxOf
<1> QED
  BY <1>5 DEF S, BeginsLine

LEMMA EndLaws ==
  ASSUME NEW n \in Nat, NEW B \in SUBSET (1..n), NEW e \in B
  PROVE  /\ EndOf(B, e, n) \in e..n
         /\ EndOf(B, e, n) = n \/ EndOf(B, e, n) + 1 \in B
         /\ \A k \in 1..n : BeginsLine(B, e, k) <=> k \in e..EndOf(B, e, n)
<1> DEFINE S == {b \in B : b > e} \cup {n + 1}
<1>1. S \subseteq Nat /\ S # {}
  <2>1. \A b \in B : b \in Nat
    OBVIOUS
  <2>2. n + 1 \in Nat /\ n + 1 \in S
    OBVIOUS
  <2> QED
    BY <2>1, <2>2
<1>2. e \in 1..n /\ e \in Nat /\ n + 1 \in S
  OBVIOUS
<1>3. \A b \in S : b = n + 1 \/ (b \in B /\ b > e /\ b \in 1..n)
  OBVIOUS
<1>4. \A b \in B : b > e => b \in S
  OBVIOUS
<1> HIDE DEF S
<1>5. Min(S) \in S /\ \A b \in S : Min(S) <= b
  BY <1>1, MinOf
<1>6. PICK m \in Nat : m = Min(S)
  BY <1>1, <1>5
<1>7. EndOf(B, e, n) = m - 1
  BY <1>6 DEF EndOf, S
<1>8. m <= n + 1 /\ m > e
  BY <1>2, <1>3, <1>5, <1>6
<1>9. m - 1 = n \/ m - 1 + 1 \in B
  BY <1>3, <1>5, <1>6
<1>10. ASSUME NEW k \in 1..n PROVE BeginsLine(B, e, k) <=> k \in e..(m - 1)
  <2>1. ASSUME BeginsLine(B, e, k) PROVE k \in e..(m - 1)
    <3>1. e <= k /\ \A b \in B : b <= k => b <= e
      BY <2>1 DEF BeginsLine
    <3>2. m > k
      BY <1>2, <1>3, <1>5, <1>6, <3>1
    <3> QED
      BY <1>2, <3>1, <3>2
  <2>2. ASSUME k \in e..(m - 1) PROVE BeginsLine(B, e, k)
    <3>1. \A b \in B : b <= k => b <= e
      <4> TAKE b \in B
      <4>1. b \in Nat
        OBVIOUS
      <4>2. b > e => m <= b
        BY <1>4, <1>5, <1>6
      <4> QED
        BY <1>2, <2>2, <4>1, <4>2
    <3> QED
      BY <1>2, <2>2, <3>1 DEF BeginsLine
  <2> QED
    BY <2>1, <2>2
<1> QED
  BY <1>2, <1>7, <1>8, <1>9, <1>10

LEMMA WidestLaws ==
  ASSUME NEW size \in Sizes, NEW words \in Seq(Seq(Atoms)),
         NEW B \in SUBSET (1..Len(words)), 1 \in B
  PROVE  /\ Widest(words, size, B) \in Nat
         /\ \A e \in B : Width(words, size, e, EndOf(B, e, Len(words))) <= Widest(words, size, B)
         /\ \E e \in B : Width(words, size, e, EndOf(B, e, Len(words))) = Widest(words, size, B)
         /\ \A k \in 1..Len(words) : Measure(words[k], size) <= Widest(words, size, B)
<1> DEFINE n == Len(words)
           f == [e \in B |-> Width(words, size, e, EndOf(B, e, n))]
           S == {Width(words, size, e, EndOf(B, e, n)) : e \in B}
<1>0. n \in Nat /\ B \subseteq 1..n
  OBVIOUS
<1>1. Widest(words, size, B) = Max(S)
  BY DEF Widest, EndOf
<1>2. ASSUME NEW e \in B
      PROVE  EndOf(B, e, n) \in e..n /\ e \in 1..n /\ Width(words, size, e, EndOf(B, e, n)) \in Nat
  <2>1. EndOf(B, e, n) \in e..n /\ e \in 1..n
    BY <1>0, EndLaws
  <2> QED
    BY <2>1, WidthLaws
<1>3. IsFiniteSet(B)
  <2>1. IsFiniteSet(1..n)
    BY <1>0, FS_Interval
  <2> QED
    BY <2>1, FS_Subset
<1>4. f \in Surjection(B, S)
  BY DEF Surjection
<1>5. S \subseteq Nat /\ S # {}
  BY <1>2
<1>6. S \subseteq Int
  BY <1>5
<1>7. \A e \in B : Width(words, size, e, EndOf(B, e, n)) \in S
  OBVIOUS
<1>8. \A x \in S : \E e \in B : x = Width(words, size, e, EndOf(B, e, n))
  OBVIOUS
<1> HIDE DEF f, S
<1>9. IsFiniteSet(S)
  BY <1>3, <1>4, FS_Surjection
<1>10. Max(S) \in S /\ \A k \in S : k <= Max(S)
  BY <1>5, <1>6, <1>9, MaxOf
<1>11. ASSUME NEW k \in 1..n PROVE Measure(words[k], size) <= Max(S)
  <2>1. PICK e \in B : BeginsLine(B, e, k)
    BY <1>0, LineOf
  <2>2. k \in e..EndOf(B, e, n) /\ EndOf(B, e, n) \in e..n /\ e \in 1..n
    BY <1>0, <2>1, EndLaws
  <2>3. Measure(words[k], size) <= Width(words, size, e, EndOf(B, e, n))
    BY <2>2, WidthGrows
  <2>4. Width(words, size, e, EndOf(B, e, n)) <= Max(S)
    BY <1>7, <1>10
  <2>5. /\ Measure(words[k], size) \in Nat /\ Max(S) \in Nat
        /\ Width(words, size, e, EndOf(B, e, n)) \in Nat
    <3>1. words[k] \in Seq(Atoms)
      OBVIOUS
    <3> QED
      BY <1>2, <1>5, <1>10, <3>1, MeasureLaws
  <2> QED
    BY <2>3, <2>4, <2>5
<1> QED
  BY <1>1, <1>5, <1>7, <1>8, <1>10, <1>11

-----------------------------------------------------------------------------
(* Greedy wrapping against any setting                                     *)

\* The lines the first k words make.
Filled(words, size, width, k) == Greedy(SubSeq(words, 1, k), size, width)

LEMMA FilledLaws ==
  ASSUME NEW size \in Sizes, NEW width \in Nat, NEW words \in Seq(Seq(Atoms))
  PROVE  /\ Filled(words, size, width, 0) = <<>>
         /\ Filled(words, size, width, Len(words)) = Greedy(words, size, width)
         /\ \A k \in 0..Len(words) : /\ Filled(words, size, width, k) \in Seq(Seq(Atoms))
                                     /\ Len(Filled(words, size, width, k)) \in Nat
                                     /\ Used(Filled(words, size, width, k), size) \in Nat
         /\ \A k \in 1..Len(words) :
              /\ Filled(words, size, width, k)
                   = Place(size, width, Filled(words, size, width, k - 1), words[k])
              /\ MovesLate(Len(Filled(words, size, width, k - 1)),
                           Used(Filled(words, size, width, k - 1), size),
                           Len(Filled(words, size, width, k)),
                           Used(Filled(words, size, width, k), size),
                           Measure(words[k], size), Space(size), width)
<1> DEFINE n == Len(words)
           P(k) == SubSeq(words, 1, k)
           Y == Seq(Atoms)
<1>0. words \in Seq(Y)
  OBVIOUS
<1> HIDE DEF Y
<1>1. /\ n \in Nat /\ P(0) = <<>> /\ P(n) = words
      /\ \A k \in 0..n : P(k) \in Seq(Y)
      /\ \A k \in 1..n : P(k) = Append(P(k - 1), words[k])
  BY <1>0, PrefixLaws
<1>2. \A k \in 0..n : P(k) \in Seq(Seq(Atoms))
  BY <1>1 DEF Y
<1> HIDE DEF P, n
<1>3. \A k : Filled(words, size, width, k) = Greedy(P(k), size, width)
  BY DEF Filled, P
<1>4. Greedy(<<>>, size, width) = <<>>
  BY GreedyEmpty
<1>5. ASSUME NEW k \in 1..n
      PROVE  /\ Greedy(P(k), size, width) = Place(size, width, Greedy(P(k - 1), size, width), words[k])
             /\ Len(Greedy(P(k), size, width)) \in Nat /\ Used(Greedy(P(k), size, width), size) \in Nat
             /\ MovesLate(Len(Greedy(P(k - 1), size, width)), Used(Greedy(P(k - 1), size, width), size),
                          Len(Greedy(P(k), size, width)), Used(Greedy(P(k), size, width), size),
                          Measure(words[k], size), Space(size), width)
  <2>1. k - 1 \in 0..n /\ k \in 0..n /\ words[k] \in Seq(Atoms)
    BY <1>1 DEF n
  <2>2. PICK s \in Seq(Seq(Atoms)) : s = P(k - 1)
    BY <1>2, <2>1
  <2>3. PICK w \in Seq(Atoms) : w = words[k]
    BY <2>1
  <2>4. P(k) = Append(s, w)
    BY <1>1, <2>2, <2>3
  <2>5. Greedy(Append(s, w), size, width) = Place(size, width, Greedy(s, size, width), w)
    BY GreedyStep, AtomsOK
  <2>6. /\ Len(Greedy(Append(s, w), size, width)) \in Nat
        /\ Used(Greedy(Append(s, w), size, width), size) \in Nat
        /\ MovesLate(Len(Greedy(s, size, width)), Used(Greedy(s, size, width), size),
                     Len(Greedy(Append(s, w), size, width)), Used(Greedy(Append(s, w), size, width), size),
                     Measure(w, size), Space(size), width)
    BY GreedyCount, Zenon
  <2> QED
    BY <2>2, <2>3, <2>4, <2>5, <2>6, Zenon
<1>6. ASSUME NEW k \in 0..n
      PROVE  /\ Greedy(P(k), size, width) \in Seq(Seq(Atoms))
             /\ Len(Greedy(P(k), size, width)) \in Nat
             /\ Used(Greedy(P(k), size, width), size) \in Nat
  <2>1. Greedy(P(k), size, width) \in Seq(Seq(Atoms))
    BY <1>2, GreedyTyped
  <2>2. Len(Greedy(P(k), size, width)) \in Nat
    BY <2>1
  <2>3. Used(Greedy(P(k), size, width), size) \in Nat
    <3>1. CASE k = 0
      <4>1. Used(<<>>, size) = 0
        BY DEF Used
      <4> QED
        BY <1>1, <1>4, <3>1, <4>1
    <3>2. CASE k # 0
      <4>1. k \in 1..n
        BY <1>1, <3>2
      <4> QED
        BY <1>5, <4>1, Zenon
    <3> QED
      BY <3>1, <3>2
  <2> QED
    BY <2>1, <2>2, <2>3
<1>7. /\ Filled(words, size, width, 0) = <<>>
      /\ Filled(words, size, width, n) = Greedy(words, size, width)
  BY <1>1, <1>3, <1>4, Zenon
<1> QED
  BY <1>3, <1>5, <1>6, <1>7, Zenon DEF n

\* Greedy never takes more lines than a setting of the same width.
LEMMA Fewer ==
  ASSUME NEW size \in Sizes, NEW width \in Nat, NEW words \in Seq(Seq(Atoms)),
         NEW B \in SUBSET (1..Len(words)), 1 \in B, Widest(words, size, B) <= width
  PROVE  Len(Greedy(words, size, width)) <= Cardinality(B)
<1> DEFINE n == Len(words)
           N(k) == Len(Filled(words, size, width, k))
           L(k) == Used(Filled(words, size, width, k), size)
           W(e, k) == Width(words, size, e, k)
           C(k) == Cardinality(B \cap (1..k))
           Good == {k \in 0..n : /\ N(k) <= C(k)
                                 /\ k > 0 /\ N(k) = C(k) => \A e \in B : BeginsLine(B, e, k) => L(k) <= W(e, k)}
           m(k) == Measure(words[k], size)
<1>0. n \in Nat /\ B \subseteq 1..n /\ IsFiniteSet(B)
  <2>1. n \in Nat /\ IsFiniteSet(1..n)
    BY FS_Interval
  <2> QED
    BY <2>1, FS_Subset
<1>1. /\ N(0) = 0
      /\ \A k \in 0..n : N(k) \in Nat /\ L(k) \in Nat
      /\ \A k \in 1..n : MovesLate(N(k - 1), L(k - 1), N(k), L(k), m(k), Space(size), width)
  <2>1. Len(<<>>) = 0
    OBVIOUS
  <2>2. Filled(words, size, width, 0) = <<>>
    BY FilledLaws
  <2> QED
    BY <2>1, <2>2, FilledLaws
<1>2. \A k \in 1..n : m(k) \in Nat
  <2> TAKE k \in 1..n
  <2>1. words[k] \in Seq(Atoms)
    OBVIOUS
  <2> QED
    BY <2>1, MeasureLaws
<1>3. \A k \in 0..n : IsFiniteSet(B \cap (1..k)) /\ C(k) \in Nat
  <2> TAKE k \in 0..n
  <2>1. IsFiniteSet(B \cap (1..k))
    BY <1>0, FS_Subset
  <2> QED
    BY <2>1, FS_CardinalityType
<1>4. C(0) = 0
  <2>1. B \cap (1..0) = {}
    OBVIOUS
  <2> QED
    BY <2>1, FS_EmptySet
<1>5. ASSUME NEW k \in 1..n PROVE C(k) = IF k \in B THEN C(k - 1) + 1 ELSE C(k - 1)
  <2>1. CASE k \in B
    <3>1. B \cap (1..k) = (B \cap (1..(k - 1))) \cup {k} /\ k \notin B \cap (1..(k - 1)) /\ k - 1 \in 0..n
      BY <1>0, <2>1
    <3> QED
      BY <1>3, <2>1, <3>1, FS_AddElement
  <2>2. CASE k \notin B
    <3>1. B \cap (1..k) = B \cap (1..(k - 1))
      BY <1>0, <2>2
    <3> QED
      BY <2>2, <3>1
  <2> QED
    BY <2>1, <2>2
<1>6. \A e \in B : EndOf(B, e, n) \in e..n /\ e \in 1..n /\ W(e, EndOf(B, e, n)) <= width
  <2> TAKE e \in B
  <2>1. EndOf(B, e, n) \in e..n /\ e \in 1..n
    BY <1>0, EndLaws
  <2>2. W(e, EndOf(B, e, n)) <= Widest(words, size, B) /\ Widest(words, size, B) \in Nat
    BY WidestLaws
  <2>3. W(e, EndOf(B, e, n)) \in Nat
    BY <2>1, WidthLaws
  <2> QED
    BY <2>1, <2>2, <2>3
<1>7. ASSUME NEW e \in B, NEW k \in 1..n, BeginsLine(B, e, k)
      PROVE  /\ W(e, k) \in Nat /\ W(e, k) <= width
             /\ k \in B => W(e, k) = m(k)
             /\ k \notin B => /\ k - 1 \in 1..n /\ BeginsLine(B, e, k - 1)
                              /\ W(e, k - 1) \in Nat /\ W(e, k) = W(e, k - 1) + Space(size) + m(k)
  <2>1. k \in e..EndOf(B, e, n) /\ e \in 1..n /\ EndOf(B, e, n) \in e..n
    BY <1>0, <1>6, <1>7, EndLaws
  <2>2. W(e, k) <= W(e, EndOf(B, e, n))
    BY <2>1, WidthGrows
  <2>3. k \in e..n
    BY <1>0, <2>1
  <2>4. W(e, k) \in Nat /\ W(e, EndOf(B, e, n)) \in Nat
    BY <2>1, <2>3, WidthLaws
  <2>5. W(e, k) <= width
    BY <1>6, <2>2, <2>4
  <2>6. ASSUME k \in B PROVE W(e, k) = m(k)
    <3>1. e = k
      BY <1>0, <1>7, <2>6 DEF BeginsLine
    <3>2. W(k, k) = m(k)
      BY WidthLaws
    <3> QED
      BY <3>1, <3>2
  <2>7. ASSUME k \notin B
        PROVE  /\ k - 1 \in 1..n /\ BeginsLine(B, e, k - 1)
               /\ W(e, k - 1) \in Nat /\ W(e, k) = W(e, k - 1) + Space(size) + m(k)
    <3>1. e # k
      BY <2>7
    <3>2. k - 1 \in e..n /\ k - 1 \in 1..n /\ k - 1 \in e..EndOf(B, e, n) /\ k = (k - 1) + 1
      BY <1>0, <2>1, <3>1
    <3>3. BeginsLine(B, e, k - 1)
      BY <1>0, <3>2, EndLaws
    <3>4. W(e, k - 1) \in Nat /\ W(e, k) = W(e, k - 1) + Space(size) + m(k)
      BY <2>1, <3>2, WidthLaws
    <3> QED
      BY <3>2, <3>3, <3>4
  <2> HIDE DEF W, m
  <2> QED
    BY <2>4, <2>5, <2>6, <2>7
<1>8. \A k \in 1..n : \E e \in B : BeginsLine(B, e, k)
  BY <1>0, LineOf
<1> HIDE DEF n, N, L, W, C, m
<1>9. 0 \in Good
  BY <1>0, <1>1, <1>4
<1>10. ASSUME NEW k \in 1..n, k - 1 \in Good PROVE k \in Good
  <2>0. k - 1 \in 0..n /\ k \in 0..n
    BY <1>0
  <2>1. PICK s \in Nat : s = Space(size)
    BY MeasureLaws
  <2>2. PICK a \in Nat, x \in Nat, b \in Nat, y \in Nat, c \in Nat, d \in Nat, M \in Nat :
          /\ a = N(k - 1) /\ x = L(k - 1) /\ b = N(k) /\ y = L(k)
          /\ c = C(k - 1) /\ d = C(k) /\ M = m(k)
    BY <1>1, <1>2, <1>3, <2>0
  <2>3. MovesLate(a, x, b, y, M, s, width)
    BY <1>1, <2>2, <2>1
  <2>4. a <= c
    BY <1>10, <2>2
  <2>5. CASE k \in B
    <3>1. d = c + 1
      BY <1>5, <2>2, <2>5
    <3>2. \A e \in B : BeginsLine(B, e, k) => W(e, k) = M
      BY <1>7, <2>2, <2>5
    <3>3. b <= d /\ (b = d => y = M)
      BY <2>3, <2>4, <3>1 DEF MovesLate
    <3>4. y <= y
      OBVIOUS
    <3> QED
      BY <2>0, <2>2, <3>2, <3>3, <3>4
  <2>6. CASE k \notin B
    <3>1. d = c
      BY <1>5, <2>2, <2>6
    <3>2. PICK e \in B : BeginsLine(B, e, k)
      BY <1>8
    <3>3. /\ k - 1 \in 1..n /\ BeginsLine(B, e, k - 1)
          /\ W(e, k - 1) \in Nat /\ W(e, k) = W(e, k - 1) + s + M /\ W(e, k) <= width
      BY <1>7, <2>2, <2>6, <2>1, <3>2
    <3>4. PICK z \in Nat : z = W(e, k - 1)
      BY <3>3
    <3>5. k - 1 > 0
      BY <1>0, <3>3
    <3>6. a = c => x <= z
      BY <1>10, <2>2, <3>3, <3>4, <3>5
    <3>7. z + s + M <= width /\ W(e, k) = z + s + M
      BY <3>3, <3>4
    <3>8. a = 0 => c > 0
      <4>1. PICK q \in B : q \in 1..(k - 1)
        BY <1>0, <3>2, <3>3 DEF BeginsLine
      <4>2. IsFiniteSet(B \cap (1..(k - 1))) /\ B \cap (1..(k - 1)) # {}
        BY <1>3, <2>0, <4>1
      <4>3. C(k - 1) # 0
        BY <4>2, FS_EmptySet DEF C
      <4> QED
        BY <2>2, <4>3
    <3>9. b <= d /\ (b = d => y <= z + s + M)
      BY <2>3, <2>4, <3>1, <3>6, <3>7, <3>8 DEF MovesLate
    <3>10. \A f \in B : BeginsLine(B, f, k) => f = e
      BY <1>0, <3>2 DEF BeginsLine
    <3> QED
      BY <2>0, <2>2, <3>7, <3>9, <3>10
  <2> QED
    BY <2>5, <2>6
<1> HIDE DEF Good
<1>11. \A k \in 0..n : k \in Good
  BY <1>0, <1>9, <1>10, Induction
<1>12. N(n) <= C(n)
  BY <1>0, <1>11 DEF Good
<1>13. N(n) = Len(Greedy(words, size, width))
  BY FilledLaws, Zenon DEF N, n
<1>14. C(n) = Cardinality(B)
  <2>1. B \cap (1..n) = B
    BY <1>0
  <2> QED
    BY <2>1 DEF C
<1> QED
  BY <1>12, <1>13, <1>14

\* The words that greedy wrapping begins a line with.
Starts(words, size, width) ==
  {k \in 1..Len(words) : Len(Filled(words, size, width, k)) = Len(Filled(words, size, width, k - 1)) + 1}

LEMMA StartsLaws ==
  ASSUME NEW size \in Sizes, NEW width \in Nat, NEW words \in Seq(Seq(Atoms)), words # <<>>
  PROVE  /\ Starts(words, size, width) \in SUBSET (1..Len(words)) /\ 1 \in Starts(words, size, width)
         /\ Cardinality(Starts(words, size, width)) = Len(Greedy(words, size, width))
         /\ \A k \in 1..Len(words), e \in Starts(words, size, width) :
              BeginsLine(Starts(words, size, width), e, k)
                => Width(words, size, e, k) = Used(Filled(words, size, width, k), size)
<1> DEFINE n == Len(words)
           B == Starts(words, size, width)
           N(k) == Len(Filled(words, size, width, k))
           L(k) == Used(Filled(words, size, width, k), size)
           W(e, k) == Width(words, size, e, k)
           C(k) == Cardinality(B \cap (1..k))
           m(k) == Measure(words[k], size)
           Good == {k \in 0..n : /\ N(k) = C(k)
                                 /\ k > 0 => \A e \in B : BeginsLine(B, e, k) => W(e, k) = L(k)}
<1>0. n \in Nat /\ B \subseteq 1..n /\ IsFiniteSet(B)
  <2>1. n \in Nat /\ IsFiniteSet(1..n)
    BY FS_Interval
  <2>2. B \in SUBSET (1..n)
    BY DEF Starts
  <2> QED
    BY <2>1, <2>2, FS_Subset
<1>1. /\ N(0) = 0
      /\ \A k \in 0..n : N(k) \in Nat /\ L(k) \in Nat
      /\ \A k \in 1..n : MovesLate(N(k - 1), L(k - 1), N(k), L(k), m(k), Space(size), width)
  <2>1. Len(<<>>) = 0
    OBVIOUS
  <2>2. Filled(words, size, width, 0) = <<>>
    BY FilledLaws
  <2> QED
    BY <2>1, <2>2, FilledLaws
<1>2. \A k \in 1..n : m(k) \in Nat
  <2> TAKE k \in 1..n
  <2>1. words[k] \in Seq(Atoms)
    OBVIOUS
  <2> QED
    BY <2>1, MeasureLaws
<1>3. \A k \in 1..n : k \in B <=> N(k) = N(k - 1) + 1
  BY DEF Starts
<1>4. 1 \in B
  <2>1. 1 \in 1..n /\ 1 - 1 = 0
    BY <1>0
  <2>2. MovesLate(N(0), L(0), N(1), L(1), m(1), Space(size), width)
    BY <1>1, <2>1
  <2> HIDE DEF N, L, m, B
  <2>3. N(1) = 1
    BY <1>1, <2>2 DEF MovesLate
  <2> QED
    BY <1>1, <1>3, <2>1, <2>3
<1>5. \A k \in 0..n : IsFiniteSet(B \cap (1..k)) /\ C(k) \in Nat
  <2> TAKE k \in 0..n
  <2>1. IsFiniteSet(B \cap (1..k))
    BY <1>0, FS_Subset
  <2> QED
    BY <2>1, FS_CardinalityType
<1>6. C(0) = 0
  <2>1. B \cap (1..0) = {}
    OBVIOUS
  <2> QED
    BY <2>1, FS_EmptySet
<1> HIDE DEF B
<1>7. ASSUME NEW k \in 1..n PROVE C(k) = IF k \in B THEN C(k - 1) + 1 ELSE C(k - 1)
  <2>1. CASE k \in B
    <3>1. B \cap (1..k) = (B \cap (1..(k - 1))) \cup {k} /\ k \notin B \cap (1..(k - 1)) /\ k - 1 \in 0..n
      BY <1>0, <2>1
    <3> QED
      BY <1>5, <2>1, <3>1, FS_AddElement
  <2>2. CASE k \notin B
    <3>1. B \cap (1..k) = B \cap (1..(k - 1))
      BY <1>0, <2>2
    <3> QED
      BY <2>2, <3>1
  <2> QED
    BY <2>1, <2>2
<1>8. ASSUME NEW e \in B, NEW k \in 1..n, BeginsLine(B, e, k)
      PROVE  /\ k \in B => W(e, k) = m(k)
             /\ k \notin B => /\ k - 1 \in 1..n /\ BeginsLine(B, e, k - 1)
                              /\ W(e, k) = W(e, k - 1) + Space(size) + m(k)
  <2>1. k \in e..EndOf(B, e, n) /\ e \in 1..n /\ EndOf(B, e, n) \in e..n
    BY <1>0, <1>8, EndLaws
  <2>2. ASSUME k \in B PROVE W(e, k) = m(k)
    <3>1. e = k
      BY <1>0, <1>8, <2>2 DEF BeginsLine
    <3>2. W(k, k) = m(k)
      BY WidthLaws
    <3> QED
      BY <3>1, <3>2
  <2>3. ASSUME k \notin B
        PROVE  k - 1 \in 1..n /\ BeginsLine(B, e, k - 1) /\ W(e, k) = W(e, k - 1) + Space(size) + m(k)
    <3>1. e # k
      BY <2>3
    <3>2. k - 1 \in e..n /\ k - 1 \in 1..n /\ k - 1 \in e..EndOf(B, e, n) /\ k = (k - 1) + 1
      BY <1>0, <2>1, <3>1
    <3>3. BeginsLine(B, e, k - 1)
      BY <1>0, <3>2, EndLaws
    <3>4. W(e, k) = W(e, k - 1) + Space(size) + m(k)
      BY <2>1, <3>2, WidthLaws
    <3> QED
      BY <3>2, <3>3, <3>4
  <2> HIDE DEF W, m
  <2> QED
    BY <2>2, <2>3
<1> HIDE DEF n, N, L, W, C, m
<1>9. 0 \in Good
  BY <1>0, <1>1, <1>6
<1>10. ASSUME NEW k \in 1..n, k - 1 \in Good PROVE k \in Good
  <2>0. k - 1 \in 0..n /\ k \in 0..n
    BY <1>0
  <2>1. PICK s \in Nat : s = Space(size)
    BY MeasureLaws
  <2>2. PICK a \in Nat, x \in Nat, b \in Nat, y \in Nat, M \in Nat :
          a = N(k - 1) /\ x = L(k - 1) /\ b = N(k) /\ y = L(k) /\ M = m(k)
    BY <1>1, <1>2, <2>0
  <2>3. MovesLate(a, x, b, y, M, s, width)
    BY <1>1, <2>2, <2>1
  <2>4. a = C(k - 1) /\ (k \in B <=> b = a + 1)
    BY <1>3, <1>10, <2>2
  <2>5. CASE k \in B
    <3>1. b = a + 1 /\ y = M
      BY <2>3, <2>4, <2>5 DEF MovesLate
    <3>2. \A e \in B : BeginsLine(B, e, k) => W(e, k) = M
      BY <1>8, <2>2, <2>5
    <3> QED
      BY <1>7, <2>0, <2>2, <2>4, <2>5, <3>1, <3>2
  <2>6. CASE k \notin B
    <3>1. b = a /\ y = x + s + M
      BY <2>3, <2>4, <2>6 DEF MovesLate
    <3>2. ASSUME NEW e \in B, BeginsLine(B, e, k) PROVE W(e, k) = y
      <4>1. k - 1 \in 1..n /\ BeginsLine(B, e, k - 1) /\ W(e, k) = W(e, k - 1) + s + M
        BY <1>8, <2>2, <2>6, <2>1, <3>2
      <4>2. k - 1 > 0
        BY <1>0, <4>1
      <4>3. W(e, k - 1) = x
        BY <1>10, <2>2, <4>1, <4>2
      <4> QED
        BY <3>1, <4>1, <4>3
    <3> QED
      BY <1>7, <2>0, <2>2, <2>4, <2>6, <3>1, <3>2
  <2> QED
    BY <2>5, <2>6
<1> HIDE DEF Good
<1>11. \A k \in 0..n : k \in Good
  BY <1>0, <1>9, <1>10, Induction
<1>12. N(n) = C(n)
  BY <1>0, <1>11 DEF Good
<1>13. N(n) = Len(Greedy(words, size, width))
  BY FilledLaws, Zenon DEF N, n
<1>14. C(n) = Cardinality(B)
  <2>1. B \cap (1..n) = B
    BY <1>0
  <2> QED
    BY <2>1 DEF C
<1>15. \A k \in 1..n, e \in B : BeginsLine(B, e, k) => W(e, k) = L(k)
  <2>1. \A k \in 1..n : k \in 0..n /\ k > 0
    BY <1>0
  <2> QED
    BY <1>11, <2>1 DEF Good
<1>16. Cardinality(B) = Len(Greedy(words, size, width))
  BY <1>12, <1>13, <1>14
<1>17. B \in SUBSET (1..n)
  BY <1>0
<1> QED
  BY <1>4, <1>15, <1>16, <1>17, Zenon DEF B, W, L, n

\* From one list of lines to the next only the last line may change.
KeepsLines(lines, H) ==
  /\ H # <<>>
  /\ Len(H) = Len(lines) + 1 => \A i \in 1..Len(lines) : H[i] = lines[i]
  /\ Len(H) # Len(lines) + 1 =>
       Len(H) = Len(lines) /\ \A i \in 1..(Len(lines) - 1) : H[i] = lines[i]

LEMMA PlaceKeeps ==
  ASSUME NEW size \in Sizes, NEW width \in Nat,
         NEW lines \in Seq(Seq(Atoms)), NEW w \in Seq(Atoms)
  PROVE  KeepsLines(lines, Place(size, width, lines, w))
<1> DEFINE H == Place(size, width, lines, w)
           Y == Seq(Atoms)
<1>0. lines \in Seq(Y) /\ w \in Y /\ Len(lines) \in Nat
  OBVIOUS
<1>1. ASSUME H = Append(lines, w) PROVE KeepsLines(lines, H)
  <2> HIDE DEF Y
  <2>1. Append(lines, w) \in Seq(Y) /\ Len(Append(lines, w)) = Len(lines) + 1 /\ Append(lines, w) # <<>>
        /\ \A i \in 1..Len(lines) : Append(lines, w)[i] = lines[i]
    BY <1>0, AppendProperties
  <2> HIDE DEF H
  <2> QED
    BY <1>1, <2>1 DEF KeepsLines
<1>2. ASSUME lines # <<>>, \E l \in Seq(Atoms) : H = Append(Front(lines), l) PROVE KeepsLines(lines, H)
  <2>1. PICK l \in Y : H = Append(Front(lines), l)
    BY <1>2
  <2> HIDE DEF Y
  <2>2. /\ Front(lines) \in Seq(Y) /\ Len(Front(lines)) = Len(lines) - 1 /\ Len(lines) - 1 \in Nat
        /\ \A i \in 1..(Len(lines) - 1) : Front(lines)[i] = lines[i]
    <3>1. Front(lines) \in Seq(Y) /\ Len(Front(lines)) = Len(lines) - 1
      BY <1>0, <1>2, FrontLast
    <3>2. Len(lines) # 0
      BY <1>0, <1>2
    <3>3. \A i \in 1..(Len(lines) - 1) : SubSeq(lines, 1, Len(lines) - 1)[i] = lines[i]
      BY <1>0
    <3> QED
      BY <1>0, <3>1, <3>2, <3>3 DEF Front
  <2>3. PICK F \in Seq(Y) : F = Front(lines)
    BY <2>2
  <2>4. Append(F, l) \in Seq(Y) /\ Len(Append(F, l)) = Len(F) + 1 /\ Append(F, l) # <<>>
        /\ \A i \in 1..Len(F) : Append(F, l)[i] = F[i]
    BY AppendProperties
  <2> HIDE DEF H
  <2>5. H # <<>>
    BY <2>1, <2>3, <2>4
  <2>6. Len(H) = Len(lines)
    BY <1>0, <2>1, <2>2, <2>3, <2>4
  <2>7. \A i \in 1..(Len(lines) - 1) : H[i] = lines[i]
    BY <1>0, <2>1, <2>2, <2>3, <2>4
  <2> QED
    BY <1>0, <2>5, <2>6, <2>7 DEF KeepsLines
<1> HIDE DEF Y
<1>3. \/ H = Append(lines, w)
      \/ lines # <<>> /\ \E l \in Seq(Atoms) : H = Append(Front(lines), l)
  BY PlaceLaws
<1> HIDE DEF H
<1> QED
  BY <1>1, <1>2, <1>3, Zenon DEF H

\* A line that is full is kept.
LEMMA FilledKeeps ==
  ASSUME NEW size \in Sizes, NEW width \in Nat, NEW words \in Seq(Seq(Atoms)),
         NEW j \in 1..Len(words),
         j = Len(words) \/ j + 1 \in Starts(words, size, width)
  PROVE  \E l \in ToSet(Greedy(words, size, width)) :
           Measure(l, size) = Used(Filled(words, size, width, j), size)
<1> DEFINE n == Len(words)
           F(k) == Filled(words, size, width, k)
           Keeps(k) == Len(F(k)) > Len(F(j)) /\ \A i \in 1..Len(F(j)) : F(k)[i] = F(j)[i]
           Good == {d \in Nat : j + 1 + d <= n => Keeps(j + 1 + d)}
<1>0. n \in Nat /\ j \in Nat /\ j <= n /\ j > 0
  OBVIOUS
<1>1. \A k \in 0..n : F(k) \in Seq(Seq(Atoms)) /\ Len(F(k)) \in Nat
  BY FilledLaws
<1>2. ASSUME NEW k \in 1..n
      PROVE  /\ F(k) # <<>>
             /\ Len(F(k)) = Len(F(k - 1)) + 1 => \A i \in 1..Len(F(k - 1)) : F(k)[i] = F(k - 1)[i]
             /\ Len(F(k)) # Len(F(k - 1)) + 1 =>
                  Len(F(k)) = Len(F(k - 1)) /\ \A i \in 1..(Len(F(k - 1)) - 1) : F(k)[i] = F(k - 1)[i]
  <2>1. k - 1 \in 0..n /\ words[k] \in Seq(Atoms)
    OBVIOUS
  <2>2. F(k) = Place(size, width, F(k - 1), words[k])
    BY FilledLaws
  <2>3. F(k - 1) \in Seq(Seq(Atoms))
    BY <1>1, <2>1
  <2>4. KeepsLines(F(k - 1), Place(size, width, F(k - 1), words[k]))
    BY <2>1, <2>3, PlaceKeeps
  <2>5. KeepsLines(F(k - 1), F(k))
    BY <2>2, <2>4, Zenon
  <2> HIDE DEF F
  <2> QED
    BY <2>5 DEF KeepsLines
<1>3. j + 1 \in Starts(words, size, width) => j < n /\ Len(F(j + 1)) = Len(F(j)) + 1
  <2>1. ASSUME j + 1 \in Starts(words, size, width) PROVE j < n /\ Len(F(j + 1)) = Len(F(j + 1 - 1)) + 1
    BY <1>0, <2>1 DEF Starts
  <2>2. j + 1 - 1 = j
    BY <1>0
  <2> QED
    BY <2>1, <2>2
<1>4. F(n) = Greedy(words, size, width)
  BY FilledLaws
<1> HIDE DEF F, n
<1>5. CASE j + 1 \in Starts(words, size, width)
  <2>0. j < n /\ Len(F(j + 1)) = Len(F(j)) + 1 /\ j + 1 \in 1..n /\ j + 1 - 1 = j
    BY <1>0, <1>3, <1>5
  <2>1. 0 \in Good
    <3>1. \A i \in 1..Len(F(j)) : F(j + 1)[i] = F(j)[i]
      BY <1>2, <2>0
    <3>2. Len(F(j + 1)) > Len(F(j))
      BY <1>0, <1>1, <2>0
    <3>3. j + 1 + 0 = j + 1
      BY <1>0
    <3> QED
      BY <3>1, <3>2, <3>3
  <2>2. ASSUME NEW d \in 1..(n - (j + 1)), d - 1 \in Good PROVE d \in Good
    <3> DEFINE k == j + 1 + d
    <3>1. k \in 1..n /\ k - 1 \in 0..n /\ k \in 0..n /\ k - 1 = j + 1 + (d - 1) /\ d \in Nat /\ k - 1 <= n
      BY <1>0, <2>0
    <3>2. Keeps(k - 1)
      BY <2>2, <3>1
    <3> HIDE DEF k
    <3>3. PICK a \in Nat, b \in Nat, c \in Nat : a = Len(F(j)) /\ b = Len(F(k - 1)) /\ c = Len(F(k))
      <4>1. Len(F(k - 1)) \in Nat /\ Len(F(k)) \in Nat
        BY <1>1, <3>1, Zenon
      <4>2. j \in 0..n
        BY <1>0
      <4>3. Len(F(j)) \in Nat
        BY <1>1, <4>2, Zenon
      <4> QED
        BY <4>1, <4>3, Zenon
    <3>4. b > a /\ \A i \in 1..a : F(k - 1)[i] = F(j)[i]
      BY <3>2, <3>3
    <3>5. \/ c = b + 1 /\ \A i \in 1..b : F(k)[i] = F(k - 1)[i]
          \/ c = b /\ \A i \in 1..(b - 1) : F(k)[i] = F(k - 1)[i]
      BY <1>2, <3>1, <3>3
    <3>6. \A i \in 1..a : i \in 1..b /\ i \in 1..(b - 1)
      BY <3>4
    <3>7. c > a /\ \A i \in 1..a : F(k)[i] = F(j)[i]
      BY <3>4, <3>5, <3>6
    <3>8. Keeps(k)
      BY <3>3, <3>7
    <3> QED
      BY <3>1, <3>8 DEF k
  <2>3. n - (j + 1) \in Nat
    BY <1>0, <2>0
  <2> HIDE DEF Good
  <2>4. \A d \in 0..(n - (j + 1)) : d \in Good
    BY <2>1, <2>2, <2>3, Induction
  <2>5. n - (j + 1) \in Good /\ j + 1 + (n - (j + 1)) = n
    BY <1>0, <2>3, <2>4
  <2>6. Keeps(n)
    BY <1>0, <2>5 DEF Good
  <2>7. F(j) \in Seq(Seq(Atoms)) /\ F(j) # <<>> /\ F(n) \in Seq(Seq(Atoms))
    BY <1>0, <1>1, <1>2
  <2>8. Len(F(j)) \in 1..Len(F(n)) /\ Len(F(j)) \in 1..Len(F(j))
    <3>1. Len(F(j)) \in Nat /\ Len(F(j)) # 0 /\ Len(F(n)) \in Nat
      BY <1>0, <1>1, <2>7
    <3> QED
      BY <2>6, <3>1
  <2>9. F(n)[Len(F(j))] = Last(F(j))
    BY <2>6, <2>8 DEF Last
  <2>10. Last(F(j)) \in ToSet(F(n))
    BY <2>7, <2>8, <2>9 DEF ToSet
  <2> QED
    BY <1>4, <2>7, <2>10 DEF Used, F
<1>6. CASE j = n
  <2>1. F(n) \in Seq(Seq(Atoms)) /\ F(n) # <<>>
    BY <1>0, <1>1, <1>2, <1>6
  <2>2. Last(F(n)) \in ToSet(F(n))
    <3>1. Len(F(n)) \in 1..Len(F(n))
      BY <2>1
    <3> QED
      BY <2>1, <3>1 DEF Last, ToSet
  <2> QED
    BY <1>4, <1>6, <2>1, <2>2 DEF Used, F
<1> QED
  BY <1>5, <1>6 DEF n

\* Greedy wrapping is a setting, whose widest line is one of greedy's lines.
LEMMA GreedySetting ==
  ASSUME NEW size \in Sizes, NEW width \in Nat,
         NEW words \in Seq(Seq(Atoms)), words # <<>>
  PROVE  \E l \in ToSet(Greedy(words, size, width)) :
           Measure(l, size) = Widest(words, size, Starts(words, size, width))
<1> DEFINE n == Len(words)
           B == Starts(words, size, width)
<1>0. n \in Nat
  OBVIOUS
<1>1. B \in SUBSET (1..n) /\ 1 \in B
  BY <1>0, StartsLaws
<1>2. \A k \in 1..n, e \in B : BeginsLine(B, e, k) =>
        Width(words, size, e, k) = Used(Filled(words, size, width, k), size)
  BY <1>0, StartsLaws
<1> HIDE DEF B
<1>3. PICK e \in B : Width(words, size, e, EndOf(B, e, n)) = Widest(words, size, B)
  BY <1>0, <1>1, WidestLaws
<1>4. PICK j : j = EndOf(B, e, n)
  OBVIOUS
<1>5. j \in e..n /\ (j = n \/ j + 1 \in B) /\ e \in 1..n
  BY <1>0, <1>1, <1>4, EndLaws
<1>6. j \in 1..n /\ j \in e..j
  BY <1>0, <1>5
<1>7. BeginsLine(B, e, j)
  BY <1>0, <1>1, <1>4, <1>6, EndLaws
<1>8. Widest(words, size, B) = Used(Filled(words, size, width, j), size)
  BY <1>2, <1>3, <1>4, <1>6, <1>7
<1>9. \E l \in ToSet(Greedy(words, size, width)) :
        Measure(l, size) = Used(Filled(words, size, width, j), size)
  BY <1>0, <1>5, <1>6, FilledKeeps DEF B
<1> QED
  BY <1>8, <1>9 DEF B

\* Words that keep inside a width are wrapped to lines that do, whatever narrower
\* width they are wrapped for.
LEMMA GreedyInside ==
  ASSUME NEW size \in Sizes, NEW width \in Nat, NEW top \in Nat, width <= top,
         NEW words \in Seq(Seq(Atoms)), words # <<>>,
         \A k \in 1..Len(words) : Measure(words[k], size) <= top
  PROVE  /\ Greedy(words, size, width) \in Seq(Seq(Atoms)) /\ Greedy(words, size, width) # <<>>
         /\ \A l \in ToSet(Greedy(words, size, width)) :
              l \in Seq(Atoms) /\ Measure(l, size) \in Nat /\ Measure(l, size) <= top
<1> DEFINE W == Fits(size, top)
           G == Greedy(words, size, width)
<1>1. \A l \in Seq(Atoms) : Measure(l, size) \in Nat
  BY MeasureLaws
<1>2. W \subseteq Seq(Atoms) /\ \A l : l \in W <=> l \in Seq(Atoms) /\ Measure(l, size) <= top
  BY DEF Fits
<1>3. Fits(size, width) \subseteq W
  <2>1. \A l : l \in Fits(size, width) <=> l \in Seq(Atoms) /\ Measure(l, size) <= width
    BY DEF Fits
  <2> HIDE DEF W
  <2> QED
    BY <1>1, <1>2, <2>1
<1>4. words \in Seq(W)
  <2>1. \A k \in 1..Len(words) : words[k] \in W
    <3>1. \A k \in 1..Len(words) : words[k] \in Seq(Atoms)
      OBVIOUS
    <3> HIDE DEF W
    <3> QED
      BY <1>2, <3>1
  <2> HIDE DEF W
  <2> QED
    BY <2>1
<1> HIDE DEF W
<1>5. G \in Seq(W) /\ G # <<>>
  BY <1>2, <1>3, <1>4, GreedyOK
<1>6. \A l \in ToSet(G) : l \in W
  <2> HIDE DEF G
  <2> QED
    BY <1>5 DEF ToSet
<1>7. G \in Seq(Seq(Atoms))
  BY GreedyTyped
<1> QED
  BY <1>1, <1>2, <1>5, <1>6, <1>7

LEMMA MinIs ==
  ASSUME NEW S, S \subseteq Nat, NEW v \in S, \A x \in S : v <= x
  PROVE  Min(S) = v
<1>1. Min(S) \in S /\ \A x \in S : Min(S) <= x
  BY MinOf
<1>2. PICK m \in Nat : m = Min(S)
  BY <1>1
<1>3. v \in Nat /\ m <= v /\ v <= m
  BY <1>1, <1>2
<1> QED
  BY <1>2, <1>3

\* When greedy wrapping at some width is balanced.
LEMMA BalancedAt ==
  ASSUME NEW size \in Sizes, NEW width \in 0..PanelW,
         NEW words \in Seq(Seq(Atoms)), words # <<>>,
         \A k \in 1..Len(words) : Measure(words[k], size) <= PanelW,
         Len(Greedy(words, size, width)) = Len(Greedy(words, size, PanelW)),
         \A B \in SUBSET (1..Len(words)) :
           /\ 1 \in B
           /\ Cardinality(B) = Len(Greedy(words, size, PanelW))
           /\ Widest(words, size, B) <= PanelW
           => \A l \in ToSet(Greedy(words, size, width)) :
                Measure(l, size) < Widest(words, size, B) + Unit
  PROVE  IsBalanced(words, size, Greedy(words, size, width))
<1> DEFINE n == Len(words)
           all == {B \cup {1} : B \in SUBSET (2..n)}
           fit == {B \in all : Widest(words, size, B) <= PanelW}
           cards == {Cardinality(B) : B \in fit}
           few == Min(cards)
           g == Len(Greedy(words, size, PanelW))
           S == Starts(words, size, PanelW)
           lines == Greedy(words, size, width)
           widths == {Measure(l, size) : l \in ToSet(lines)}
           best == {Widest(words, size, B) : B \in {F \in fit : Cardinality(F) = few}}
<1>0. /\ PanelW \in Nat /\ width \in Nat /\ width <= PanelW /\ n \in Nat /\ n >= 1
      /\ IsFiniteSet(1..n)
  <2>1. PanelW \in Nat
    BY SizeOK
  <2>2. width \in Nat /\ width <= PanelW /\ n \in Nat /\ n >= 1
    BY <2>1
  <2>3. IsFiniteSet(1..n)
    BY <2>2, FS_Interval
  <2> QED
    BY <2>1, <2>2, <2>3
<1>1. \A B : B \in all <=> B \in SUBSET (1..n) /\ 1 \in B
  <2>1. ASSUME NEW B \in SUBSET (1..n), 1 \in B PROVE B \in all
    <3>1. B \ {1} \in SUBSET (2..n) /\ B = (B \ {1}) \cup {1}
      BY <1>0, <2>1
    <3> QED
      BY <3>1
  <2>2. ASSUME NEW B \in all PROVE B \in SUBSET (1..n) /\ 1 \in B
    <3>1. PICK D \in SUBSET (2..n) : B = D \cup {1}
      BY <2>2
    <3>2. \A d \in D : d \in 1..n
      BY <1>0
    <3>3. 1 \in 1..n
      BY <1>0
    <3> QED
      BY <3>1, <3>2, <3>3
  <2> QED
    BY <2>1, <2>2
<1> HIDE DEF all
<1>2. \A B \in all : IsFiniteSet(B) /\ Cardinality(B) \in Nat /\ Widest(words, size, B) \in Nat
  <2> TAKE B \in all
  <2>1. B \in SUBSET (1..n) /\ 1 \in B
    BY <1>1
  <2>2. IsFiniteSet(B) /\ Widest(words, size, B) \in Nat
    BY <1>0, <2>1, FS_Subset, WidestLaws
  <2> QED
    BY <2>2, FS_CardinalityType
<1>3. S \in all /\ Cardinality(S) = g /\ Widest(words, size, S) <= PanelW
  <2>1. S \in SUBSET (1..n) /\ 1 \in S /\ Cardinality(S) = g
    BY <1>0, StartsLaws
  <2>2. PICK l \in ToSet(Greedy(words, size, PanelW)) : Measure(l, size) = Widest(words, size, S)
    BY <1>0, GreedySetting
  <2>3. \A k \in ToSet(Greedy(words, size, PanelW)) : Measure(k, size) <= PanelW
    <3>1. PanelW <= PanelW
      BY <1>0
    <3> QED
      BY <1>0, <3>1, GreedyInside
  <2> QED
    BY <1>1, <2>1, <2>2, <2>3
<1>4. \A B \in fit : g <= Cardinality(B)
  <2> TAKE B \in fit
  <2>1. B \in SUBSET (1..n) /\ 1 \in B /\ Widest(words, size, B) <= PanelW
    BY <1>1
  <2> QED
    BY <1>0, <2>1, Fewer
<1>5. /\ lines # <<>> /\ lines \in Seq(Seq(Atoms))
      /\ \A l \in ToSet(lines) : Measure(l, size) \in 0..PanelW
  <2>1. /\ lines # <<>> /\ lines \in Seq(Seq(Atoms))
        /\ \A l \in ToSet(lines) : Measure(l, size) \in Nat /\ Measure(l, size) <= PanelW
    BY <1>0, GreedyInside
  <2>2. \A m \in Nat : m <= PanelW => m \in 0..PanelW
    BY <1>0
  <2> HIDE DEF lines
  <2> QED
    BY <2>1, <2>2
<1>6. \A B \in fit : Cardinality(B) = g =>
        \A l \in ToSet(lines) : Measure(l, size) < Widest(words, size, B) + Unit
  <2> TAKE B \in fit
  <2>1. B \in SUBSET (1..n) /\ 1 \in B /\ Widest(words, size, B) <= PanelW
    BY <1>1
  <2> QED
    BY <2>1
<1>7. Len(lines) = g /\ g \in Nat
  <2>1. Greedy(words, size, PanelW) \in Seq(Seq(Atoms))
    BY <1>0, GreedyTyped
  <2> QED
    BY <2>1
<1> HIDE DEF S, g, lines
<1>8. S \in fit
  BY <1>3
<1>9. few = g
  <2>1. cards \subseteq Nat /\ g \in cards /\ \A x \in cards : g <= x
    BY <1>2, <1>3, <1>4, <1>8
  <2> HIDE DEF cards
  <2> QED
    BY <2>1, MinIs
<1> HIDE DEF few
<1>10. Max(widths) \in widths
  <2>1. widths \in SUBSET (0..PanelW)
    BY <1>5
  <2>2. widths # {}
    <3>1. 1 \in 1..Len(lines)
      BY <1>5
    <3>2. lines[1] \in ToSet(lines)
      BY <3>1 DEF ToSet
    <3> QED
      BY <3>2
  <2> HIDE DEF widths
  <2>3. 0 \in Int /\ PanelW \in Int
    BY <1>0
  <2>4. IsFiniteSet(0..PanelW)
    BY <2>3, FS_Interval
  <2>5. IsFiniteSet(widths)
    BY <2>1, <2>4, FS_Subset
  <2>6. widths \subseteq Int
    BY <2>1, <2>3
  <2> QED
    BY <2>2, <2>5, <2>6, MaxOf
<1>11. Min(best) \in best
  <2>1. best \subseteq Nat
    BY <1>2
  <2>2. Widest(words, size, S) \in best
    BY <1>3, <1>8, <1>9
  <2> HIDE DEF best
  <2> QED
    BY <2>1, <2>2, MinOf
<1>12. Max(widths) < Min(best) + Unit
  <2>1. PICK l \in ToSet(lines) : Max(widths) = Measure(l, size)
    BY <1>10
  <2>2. PICK B \in fit : Cardinality(B) = few /\ Min(best) = Widest(words, size, B)
    BY <1>11
  <2>3. Measure(l, size) < Widest(words, size, B) + Unit
    BY <1>6, <1>9, <2>2
  <2> HIDE DEF widths, best
  <2> QED
    BY <2>1, <2>2, <2>3
<1>13. IsBalanced(words, size, lines) <=> Len(lines) = few /\ Max(widths) < Min(best) + Unit
  BY DEF IsBalanced, all, few
<1>14. IsBalanced(words, size, lines)
  <2> HIDE DEF widths, best
  <2> QED
    BY <1>7, <1>9, <1>12, <1>13
<1> QED
  BY <1>14 DEF lines

\* Lines no wider than the one they are.
LEMMA OnlyLine ==
  ASSUME NEW lines, NEW A, lines \in Seq(A), Len(lines) = 1, NEW k \in ToSet(lines), NEW l \in ToSet(lines)
  PROVE  k = l
BY DEF ToSet

\* What _wrap_paragraph makes of a text - filled lines when one is enough, or else
\* the narrowest in whole pixels that are no more - no other wrap of its words betters
\* by a pixel: none has fewer lines, and none with as few a widest line narrower by as
\* much.  The exception is a text with an atom that is wider than the panel by itself.
THEOREM WrapIsBalanced ==
  ASSUME NEW size \in Sizes, NEW par \in Seq(Atoms), Words(par, size) # <<>>,
         \A w \in ToSet(Words(par, size)) : Measure(w, size) <= PanelW
  PROVE  IsBalanced(Words(par, size), size, WrapParagraph(par, size))
<1> DEFINE ws == Words(par, size)
           G == Greedy(ws, size, PanelW)
           x == Narrowest(ws, size)
           H == Greedy(ws, size, x * Unit)
<1>0. PanelW \in Nat /\ PanelW \in 0..PanelW /\ PanelW = InnerW * Unit /\ InnerW \in Nat /\ Unit \in Nat
  BY SizeOK DEF PanelW
<1>1. /\ ws \in Seq(Seq(Atoms)) /\ ws # <<>> /\ Len(ws) \in Nat /\ 1 \in 1..Len(ws)
      /\ \A k \in 1..Len(ws) : Measure(ws[k], size) <= PanelW
  <2>1. ws \in Seq(WordsOf(size)) /\ ws # <<>>
    BY WordsOK
  <2>2. ws \in Seq(Seq(Atoms))
    BY <2>1 DEF WordsOf, Inside
  <2>3. \A k \in 1..Len(ws) : Measure(ws[k], size) <= PanelW
    <3>1. \A w \in ToSet(ws) : Measure(w, size) <= PanelW
      OBVIOUS
    <3> HIDE DEF ws
    <3> QED
      BY <3>1 DEF ToSet
  <2> HIDE DEF ws
  <2> QED
    BY <2>1, <2>2, <2>3
<1>2. WrapParagraph(par, size) = IF Len(G) = 1 THEN G ELSE H
  <2>1. WrapParagraph(par, size) = CASE ws = <<>>  -> << <<>> >>
                                     [] Len(G) = 1 -> G
                                     [] OTHER      -> H
    BY DEF WrapParagraph
  <2> DEFINE one == << <<>> >>
             e == <<>>
  <2>2. WrapParagraph(par, size) = CASE ws = e      -> one
                                     [] Len(G) = 1 -> G
                                     [] OTHER      -> H
    BY <2>1
  <2>3. ws # e
    BY <1>1
  <2> HIDE DEF ws, G, H, x, one, e
  <2> QED
    BY <2>2, <2>3
<1> HIDE DEF ws, x
<1>3. ASSUME NEW B \in SUBSET (1..Len(ws)), 1 \in B
      PROVE  /\ Widest(ws, size, B) \in Nat
             /\ \A k \in 1..Len(ws) : Measure(ws[k], size) <= Widest(ws, size, B)
  BY <1>1, <1>3, WidestLaws
<1>4. ASSUME Len(G) = 1 PROVE IsBalanced(ws, size, G)
  <2> DEFINE S == Starts(ws, size, PanelW)
  <2>1. PICK l \in ToSet(G) : Measure(l, size) = Widest(ws, size, S)
    BY <1>0, <1>1, GreedySetting
  <2>2. S \in SUBSET (1..Len(ws)) /\ 1 \in S /\ Cardinality(S) = 1
    BY <1>0, <1>1, <1>4, StartsLaws
  <2>3. G \in Seq(Seq(Atoms))
    BY <1>0, <1>1, GreedyTyped
  <2>4. ASSUME NEW B \in SUBSET (1..Len(ws)), 1 \in B, Cardinality(B) = 1
        PROVE  B = {1}
    <3>1. IsFiniteSet(1..Len(ws))
      BY <1>1, FS_Interval
    <3>2. IsFiniteSet(B)
      BY <3>1, FS_Subset
    <3>3. PICK b : B = {b}
      BY <2>4, <3>2, FS_Singleton
    <3> QED
      BY <2>4, <3>3
  <2> HIDE DEF S
  <2>5. S = {1}
    BY <2>2, <2>4
  <2>6. Widest(ws, size, S) \in Nat /\ Unit > 0
    BY <1>3, <2>2, SizeOK
  <2>7. \A k \in ToSet(G) : Measure(k, size) < Widest(ws, size, S) + Unit
    <3> TAKE k \in ToSet(G)
    <3>1. k = l
      <4> HIDE DEF G
      <4> QED
        BY <1>4, <2>3, OnlyLine
    <3> QED
      BY <1>0, <2>1, <2>6, <3>1
  <2>8. ASSUME NEW B \in SUBSET (1..Len(ws)), 1 \in B, Cardinality(B) = Len(G), Widest(ws, size, B) <= PanelW
        PROVE  \A k \in ToSet(G) : Measure(k, size) < Widest(ws, size, B) + Unit
    <3>1. B = S
      BY <1>4, <2>4, <2>5, <2>8
    <3> QED
      BY <2>7, <3>1
  <2> QED
    BY <1>0, <1>1, <2>8, BalancedAt
<1>5. IsBalanced(ws, size, H)
  <2>1. /\ x \in 0..InnerW
        /\ Len(H) <= Len(G)
        /\ \A v \in (LongestWord(ws, size) \div Unit)..InnerW :
             Len(Greedy(ws, size, v * Unit)) <= Len(G) => x <= v
    BY <1>1, NarrowestOK DEF x
  <2>2. PICK width \in 0..PanelW : width = x * Unit
    <3>1. x \in Nat /\ x <= InnerW
      BY <1>0, <2>1
    <3>2. x * Unit \in Nat /\ x * Unit <= InnerW * Unit
      BY <1>0, <3>1, PixelLaws
    <3> QED
      BY <1>0, <3>2
  <2>3. width \in Nat /\ width <= PanelW /\ H = Greedy(ws, size, width)
    BY <1>0, <2>2
  <2>4. Len(H) = Len(G)
    <3>1. Len(G) <= Len(H)
      BY <1>0, <1>1, <2>3, GreedyMonotone
    <3>2. Len(G) \in Nat /\ Len(H) \in Nat
      <4>1. G \in Seq(Seq(Atoms)) /\ H \in Seq(Seq(Atoms))
        BY <1>0, <1>1, <2>3, GreedyTyped
      <4>2. \A t \in Seq(Seq(Atoms)) : Len(t) \in Nat
        OBVIOUS
      <4> QED
        BY <4>1, <4>2
    <3> HIDE DEF G, H
    <3> QED
      BY <2>1, <3>1, <3>2
  <2>5. ASSUME NEW B \in SUBSET (1..Len(ws)), 1 \in B, Cardinality(B) = Len(G), Widest(ws, size, B) <= PanelW
        PROVE  \A l \in ToSet(H) : Measure(l, size) < Widest(ws, size, B) + Unit
    <3>1. PICK b \in Nat : b = Widest(ws, size, B) /\ \A k \in 1..Len(ws) : Measure(ws[k], size) <= b
      BY <1>3, <2>5
    <3>2. PICK v \in Nat : b <= v * Unit /\ v * Unit < b + Unit
      BY PixelLaws
    <3>3. PICK top \in Nat : top = v * Unit
      BY <1>0, <3>2, PixelLaws
    <3>4. v \in (LongestWord(ws, size) \div Unit)..InnerW
      <4>1. v <= InnerW
        <5> SUFFICES ASSUME v > InnerW PROVE FALSE
          BY <1>0
        <5>1. (InnerW + 1) * Unit <= top
          BY <1>0, <3>3, PixelLaws
        <5>2. (InnerW + 1) * Unit = PanelW + Unit
          BY <1>0
        <5> QED
          BY <1>0, <2>5, <3>1, <3>2, <3>3, <5>1, <5>2
      <4>2. PICK m \in Nat : m = LongestWord(ws, size) /\ m <= b
        BY <1>1, <3>1, LongestOK
      <4>3. m <= v * Unit
        BY <3>2, <3>3, <4>2
      <4>4. m \div Unit \in Nat /\ m \div Unit <= v
        BY <4>3, PixelLaws
      <4> QED
        BY <1>0, <4>1, <4>2, <4>4
    <3>5. x <= v
      <4>1. Len(Greedy(ws, size, top)) <= Cardinality(B)
        <5>1. Widest(ws, size, B) <= top
          BY <3>1, <3>2, <3>3
        <5> QED
          BY <1>1, <2>5, <5>1, Fewer
      <4> QED
        BY <2>1, <2>5, <3>3, <3>4, <4>1
    <3>6. width <= top
      BY <2>1, <2>2, <3>3, <3>5, PixelLaws
    <3>7. \A k \in 1..Len(ws) : Measure(ws[k], size) <= top
      <4> TAKE k \in 1..Len(ws)
      <4>1. ws[k] \in Seq(Atoms)
        BY <1>1
      <4>2. Measure(ws[k], size) \in Nat
        BY <4>1, MeasureLaws
      <4> QED
        BY <3>1, <3>2, <3>3, <4>2
    <3>8. \A l \in ToSet(H) : Measure(l, size) \in Nat /\ Measure(l, size) <= top
      BY <1>1, <2>3, <3>6, <3>7, GreedyInside
    <3>9. top < b + Unit
      BY <3>2, <3>3
    <3> QED
      BY <1>0, <3>1, <3>8, <3>9
  <2>6. Len(Greedy(ws, size, width)) = Len(Greedy(ws, size, PanelW))
    BY <2>3, <2>4
  <2>7. ASSUME NEW B \in SUBSET (1..Len(ws)), 1 \in B, Cardinality(B) = Len(Greedy(ws, size, PanelW)),
               Widest(ws, size, B) <= PanelW
        PROVE  \A l \in ToSet(Greedy(ws, size, width)) : Measure(l, size) < Widest(ws, size, B) + Unit
    BY <2>3, <2>5, <2>7
  <2>8. IsBalanced(ws, size, Greedy(ws, size, width))
    BY <1>1, <2>6, <2>7, BalancedAt
  <2> QED
    BY <2>3, <2>8
<1> HIDE DEF G, H
<1>6. CASE Len(G) = 1
  BY <1>2, <1>4, <1>6 DEF ws
<1>7. CASE Len(G) # 1
  BY <1>2, <1>5, <1>7 DEF ws
<1> QED
  BY <1>6, <1>7

\* Every paragraph of every text, at every size.
LEMMA ParagraphsBalanced ==
  ASSUME NEW body \in Seq(Atoms), NEW size \in Sizes,
         NEW p \in ToSet(Split(Sanitize(body), "nl")), Words(p, size) # <<>>,
         \A w \in ToSet(Words(p, size)) : Measure(w, size) <= PanelW
  PROVE  IsBalanced(Words(p, size), size, WrapParagraph(p, size))
<1>1. Sanitize(body) \in Seq(Atoms)
  BY SanitizeOK, AtomsOK
<1>2. Split(Sanitize(body), "nl") \in Seq(Seq(Atoms))
  BY <1>1, SplitLaws
<1>3. p \in Seq(Atoms)
  BY <1>2 DEF ToSet
<1> QED
  BY <1>3, WrapIsBalanced

=============================================================================
