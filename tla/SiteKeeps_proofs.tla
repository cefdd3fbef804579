-------------------------- MODULE SiteKeeps_proofs --------------------------
(***************************************************************************)
(* Two parts of the system that look after cameras.  What is wanted        *)
(* is kept, for any policies, any lengths of days, clips and rolls and any *)
(* delays: first that a plan is sound, operator by operator, from the      *)
(* instances of a rule to the clips of what is merged; then what the       *)
(* watermark and the incidents' memory say between two steps.  And, at the *)
(* end, the timeline of incidents, for any number of cameras, gateways,    *)
(* changes and faults.                                                     *)
(***************************************************************************)
EXTENDS SiteKeeps, FleetIncidents, FiniteSetTheorems, SequenceTheorems, WellFoundedInduction, TLAPS

-----------------------------------------------------------------------------
(* Numbers, sequences and recursions.                                      *)

\* What the constants are.
LEMMA Constants ==
    /\ Day \in Nat \ {0} /\ Week \in Nat \ {0} /\ MaxClip \in Nat \ {0}
    /\ Lag \in Nat /\ CatchUp \in Nat /\ Pre \in Nat /\ Post \in Nat
    /\ Horizon \in Nat /\ MaxEvents \in Nat /\ Never \notin Int
    /\ \A policy \in Policies : policy \subseteq Rules
  BY KeepsAssumption

\* A set of numbers has a least one.
LEMMA LeastNumber ==
    ASSUME NEW T \in SUBSET Nat, T # {}
    PROVE  \E n \in T : \A m \in T : n <= m
<1>1. PICK n \in T : \A m \in T : ~(<<m, n>> \in OpToRel(<, Nat))
  BY NatLessThanWellFounded, WFMin
<1>2. \A m \in T : ~(m < n)
  BY <1>1 DEF OpToRel
<1> QED
  BY <1>2

\* Induction, over a set.
LEMMA NumbersFollow ==
    ASSUME NEW T, 0 \in T, \A n \in Nat : n \in T => n + 1 \in T
    PROVE  Nat \subseteq T
<1> SUFFICES ASSUME Nat \ T # {} PROVE FALSE
  OBVIOUS
<1>1. PICK n \in Nat \ T : \A m \in Nat \ T : n <= m
  BY LeastNumber
<1>2. n # 0 /\ n - 1 \in Nat
  BY <1>1
<1>3. n - 1 \in T
  BY <1>1, <1>2
<1> QED
  BY <1>1, <1>2, <1>3

\* Induction over the subsets of a finite set.
LEMMA SubsetsFollow ==
    ASSUME NEW S, IsFiniteSet(S), NEW T,
           \A X \in SUBSET S : (\A x \in X : X \ {x} \in T) => X \in T
    PROVE  SUBSET S \subseteq T
<1> DEFINE N == {n \in Nat : \A X \in SUBSET S : Cardinality(X) = n => X \in T}
<1>1. 0 \in N
  <2> SUFFICES ASSUME NEW X \in SUBSET S, Cardinality(X) = 0 PROVE X \in T
    OBVIOUS
  <2>1. X = {}
    BY FS_Subset, FS_EmptySet
  <2> QED
    BY <2>1
<1>2. ASSUME NEW n \in Nat, n \in N PROVE n + 1 \in N
  <2> SUFFICES ASSUME NEW X \in SUBSET S, Cardinality(X) = n + 1 PROVE X \in T
    OBVIOUS
  <2>1. IsFiniteSet(X)
    BY FS_Subset
  <2>2. ASSUME NEW x \in X PROVE X \ {x} \in T
    <3>1. Cardinality(X \ {x}) = Cardinality(X) - 1
      BY <2>1, FS_RemoveElement
    <3>2. Cardinality(X) = n + 1
      OBVIOUS
    <3>3. Cardinality(X \ {x}) = n
      BY <3>1, <3>2
    <3>4. X \ {x} \in SUBSET S
      OBVIOUS
    <3> QED
      BY <1>2, <3>3, <3>4
  <2> QED
    BY <2>2
<1>3. Nat \subseteq N
  <2> HIDE DEF N
  <2> QED
    BY <1>1, <1>2, NumbersFollow
<1> QED
  <2> SUFFICES ASSUME NEW X \in SUBSET S PROVE X \in T
    OBVIOUS
  <2>1. Cardinality(X) \in Nat
    BY FS_Subset, FS_CardinalityType
  <2> QED
    BY <1>3, <2>1

\* A recursion over the first numbers, and that it has a result.
Runs(f, S, b, n, step) ==
    f \in [0..n -> S] /\ f[0] = b /\ \A i \in 1..n : f[i] = step[<<f[i - 1], i>>]

\* Such a recursion has a result.
LEMMA SomeRun ==
    ASSUME NEW S, NEW b \in S, NEW n \in Nat, NEW step \in [S \X (1..n) -> S]
    PROVE  \E f : Runs(f, S, b, n, step)
<1> DEFINE T == {k \in Nat : k <= n => \E f : Runs(f, S, b, k, step)}
<1>1. 0 \in T
  <2>1. Runs([i \in 0..0 |-> b], S, b, 0, step)
    BY DEF Runs
  <2> QED
    BY <2>1
<1>2. ASSUME NEW k \in Nat, k \in T PROVE k + 1 \in T
  <2> SUFFICES ASSUME k + 1 <= n PROVE \E f : Runs(f, S, b, k + 1, step)
    OBVIOUS
  <2>1. PICK f : Runs(f, S, b, k, step)
    BY <1>2
  <2> DEFINE g == [i \in 0..(k + 1) |-> IF i = k + 1 THEN step[<<f[k], k + 1>>] ELSE f[i]]
  <2>2. f[k] \in S /\ step[<<f[k], k + 1>>] \in S
    <3>1. k \in 0..k /\ k + 1 \in 1..n
      OBVIOUS
    <3>2. f[k] \in S
      BY <2>1, <3>1 DEF Runs
    <3>3. <<f[k], k + 1>> \in S \X (1..n)
      BY <3>1, <3>2
    <3> QED
      BY <3>2, <3>3
  <2>3. \A i \in 0..k : g[i] = f[i] /\ f[i] \in S
    BY <2>1 DEF Runs
  <2>4. g[k + 1] = step[<<f[k], k + 1>>] /\ g[k] = f[k]
    OBVIOUS
  <2>5. g \in [0..(k + 1) -> S]
    <3>1. \A i \in 0..(k + 1) : i = k + 1 \/ i \in 0..k
      OBVIOUS
    <3>2. \A i \in 0..(k + 1) : g[i] \in S
      <4> HIDE DEF g
      <4> QED
        BY <3>1, <2>2, <2>3, <2>4
    <3> QED
      BY <3>2
  <2> HIDE DEF g
  <2>6. \A i \in 1..(k + 1) : g[i] = step[<<g[i - 1], i>>]
    <3> SUFFICES ASSUME NEW i \in 1..(k + 1) PROVE g[i] = step[<<g[i - 1], i>>]
      OBVIOUS
    <3>1. CASE i = k + 1
      <4>1. i - 1 = k
        BY <3>1
      <4> QED
        BY <3>1, <4>1, <2>4
    <3>2. CASE i # k + 1
      <4>1. i \in 1..k /\ i \in 0..k /\ i - 1 \in 0..k
        BY <3>2
      <4>2. f[i] = step[<<f[i - 1], i>>]
        BY <4>1, <2>1 DEF Runs
      <4> QED
        BY <4>1, <4>2, <2>3
    <3> QED
      BY <3>1, <3>2
  <2>7. g[0] = b
    BY <2>1, <2>3 DEF Runs
  <2>8. Runs(g, S, b, k + 1, step)
    BY <2>5, <2>6, <2>7 DEF Runs
  <2> QED
    BY <2>8
<1> HIDE DEF T
<1>3. n \in T
  BY <1>1, <1>2, NumbersFollow
<1> QED
  BY <1>3 DEF T

\* A tail is what follows.
LEMMA TailIs ==
    ASSUME NEW S, NEW s \in Seq(S), s # <<>>
    PROVE  /\ Head(s) = s[1] /\ s[1] \in S /\ Len(s) \in Nat \ {0}
           /\ Tail(s) \in Seq(S) /\ Len(Tail(s)) = Len(s) - 1
           /\ \A i \in 1..(Len(s) - 1) : Tail(s)[i] = s[i + 1] /\ i + 1 \in 1..Len(s)
  OBVIOUS

\* A sequence after another: where each element comes from.
LEMMA After ==
    ASSUME NEW S, NEW s \in Seq(S), NEW t \in Seq(S)
    PROVE  /\ s \o t \in Seq(S) /\ Len(s \o t) = Len(s) + Len(t)
           /\ Len(s) \in Nat /\ Len(t) \in Nat
           /\ \A i \in 1..Len(s) : (s \o t)[i] = s[i] /\ i \in 1..Len(s \o t)
           /\ \A i \in 1..Len(t) : (s \o t)[Len(s) + i] = t[i] /\ Len(s) + i \in 1..Len(s \o t)
           /\ \A i \in 1..Len(s \o t) : i \in 1..Len(s) \/ (i - Len(s) \in 1..Len(t) /\ (s \o t)[i] = t[i - Len(s)])
           /\ ToSet(s \o t) = ToSet(s) \cup ToSet(t)
<1>1. s \o t \in Seq(S) /\ Len(s \o t) = Len(s) + Len(t) /\ Len(s) \in Nat /\ Len(t) \in Nat
  OBVIOUS
<1>2. \A i \in 1..Len(s) : (s \o t)[i] = s[i] /\ i \in 1..Len(s \o t)
  OBVIOUS
<1>3. \A i \in 1..Len(t) : (s \o t)[Len(s) + i] = t[i] /\ Len(s) + i \in 1..Len(s \o t)
  <2> SUFFICES ASSUME NEW i \in 1..Len(t)
               PROVE  (s \o t)[Len(s) + i] = t[i] /\ Len(s) + i \in 1..Len(s \o t)
    OBVIOUS
  <2>1. Len(s) + i \in 1..Len(s \o t) /\ ~(Len(s) + i <= Len(s)) /\ (Len(s) + i) - Len(s) = i
    BY <1>1
  <2> QED
    BY <2>1
<1>4. \A i \in 1..Len(s \o t) : i \in 1..Len(s) \/ (i - Len(s) \in 1..Len(t) /\ (s \o t)[i] = t[i - Len(s)])
  <2> SUFFICES ASSUME NEW i \in 1..Len(s \o t), i \notin 1..Len(s)
               PROVE  i - Len(s) \in 1..Len(t) /\ (s \o t)[i] = t[i - Len(s)]
    OBVIOUS
  <2>1. i - Len(s) \in 1..Len(t) /\ Len(s) + (i - Len(s)) = i
    BY <1>1
  <2> QED
    BY <2>1, <1>3
<1>5. ToSet(s \o t) = ToSet(s) \cup ToSet(t)
  <2>1. DOMAIN (s \o t) = 1..Len(s \o t) /\ DOMAIN s = 1..Len(s) /\ DOMAIN t = 1..Len(t)
    BY <1>1
  <2> HIDE DEF ToSet
  <2>2. \A e \in ToSet(s \o t) : e \in ToSet(s) \/ e \in ToSet(t)
    BY <2>1, <1>2, <1>4 DEF ToSet
  <2>3. \A e \in ToSet(s) : e \in ToSet(s \o t)
    BY <2>1, <1>2 DEF ToSet
  <2>4. \A e \in ToSet(t) : e \in ToSet(s \o t)
    BY <2>1, <1>3 DEF ToSet
  <2> QED
    BY <2>2, <2>3, <2>4
<1> QED
  BY <1>1, <1>2, <1>3, <1>4, <1>5

\* What is in a sequence after another.
LEMMA AfterSet ==
    ASSUME NEW S, NEW s \in Seq(S), NEW t \in Seq(S)
    PROVE  ToSet(s \o t) = ToSet(s) \cup ToSet(t)
  BY After

\* Two sequences without repetition, of which no element is in both, are one without.
LEMMA AfterInjective ==
    ASSUME NEW S, NEW s \in Seq(S), NEW t \in Seq(S), IsInjective(s), IsInjective(t),
           \A i \in 1..Len(s), j \in 1..Len(t) : s[i] # t[j]
    PROVE  IsInjective(s \o t)
<1>1. DOMAIN (s \o t) = 1..Len(s \o t) /\ DOMAIN s = 1..Len(s) /\ DOMAIN t = 1..Len(t)
  BY After
<1> SUFFICES ASSUME NEW i \in 1..Len(s \o t), NEW j \in 1..Len(s \o t), (s \o t)[i] = (s \o t)[j]
             PROVE  i = j
  BY <1>1 DEF IsInjective
<1>2. /\ i \in 1..Len(s) \/ (i - Len(s) \in 1..Len(t) /\ (s \o t)[i] = t[i - Len(s)])
      /\ j \in 1..Len(s) \/ (j - Len(s) \in 1..Len(t) /\ (s \o t)[j] = t[j - Len(s)])
      /\ i \in Int /\ j \in Int /\ Len(s) \in Nat
  BY After
<1>3. /\ i \in 1..Len(s) => (s \o t)[i] = s[i]
      /\ j \in 1..Len(s) => (s \o t)[j] = s[j]
  BY After
<1>4. CASE i \in 1..Len(s) /\ j \in 1..Len(s)
  BY <1>1, <1>3, <1>4 DEF IsInjective
<1>5. CASE i \notin 1..Len(s) /\ j \notin 1..Len(s)
  <2>1. i - Len(s) = j - Len(s)
    BY <1>1, <1>2, <1>5 DEF IsInjective
  <2> QED
    BY <2>1, <1>2
<1>6. CASE i \in 1..Len(s) /\ j \notin 1..Len(s)
  BY <1>2, <1>3, <1>6
<1>7. CASE i \notin 1..Len(s) /\ j \in 1..Len(s)
  BY <1>2, <1>3, <1>7
<1> QED
  BY <1>4, <1>5, <1>6, <1>7

-----------------------------------------------------------------------------
(* The days a rule names, and what of them is between two instants.        *)

\* What division is, of whole numbers.
LEMMA Multiples ==
    ASSUME NEW d \in Nat \ {0}, NEW a \in Int, NEW b \in Int, a * d < b * d PROVE a < b
  OBVIOUS

\* What is over after a division is less than the divisor.
LEMMA Quotient ==
    ASSUME NEW d \in Nat \ {0}, NEW a \in Int
    PROVE  a \div d \in Int /\ (a \div d) * d <= a /\ a < (a \div d + 1) * d
<1>1. a \div d \in Int /\ (a \div d) * d <= a /\ a < (a \div d) * d + d
  OBVIOUS
<1>2. (a \div d + 1) * d = (a \div d) * d + d
  BY <1>1
<1> QED
  BY <1>1, <1>2

\* More of the same is not less.
LEMMA MultiplesUp ==
    ASSUME NEW d \in Nat \ {0}, NEW a \in Int, NEW b \in Int, a <= b PROVE a * d <= b * d
  OBVIOUS

\* The window that a rule opens on a day is open at m.
Open(r, day, m) ==
    WantedDay(r, day) /\ m - (day * Day + r.from) \in 0..(WindowLength(r) - 1)

\* A window is not empty and at most a day long.
LEMMA WindowIs ==
    ASSUME NEW r \in Rules
    PROVE  /\ r.from \in Nat /\ WindowLength(r) \in Nat \ {0}
           /\ r.from + WindowLength(r) < 2 * Day
<1>1. r.from \in 0..(Day - 1) /\ r.to \in 0..(Day - 1)
  BY DEF Rules
<1> QED
  BY <1>1, Constants DEF WindowLength

\* It is open for less than two days.
LEMMA OpenOn ==
    ASSUME NEW r \in Rules, NEW day \in Int, NEW m \in Int, Open(r, day, m)
    PROVE  day * Day <= m /\ m < (day + 2) * Day
<1>1. r.from \in Nat /\ WindowLength(r) \in Nat \ {0} /\ r.from + WindowLength(r) < 2 * Day
  BY WindowIs
<1>2. m - (day * Day + r.from) \in 0..(WindowLength(r) - 1)
  BY DEF Open
<1>3. (day + 2) * Day = day * Day + 2 * Day /\ day * Day \in Int /\ 2 * Day \in Int
  BY Constants
<1> DEFINE d == day * Day
           e == 2 * Day
           l == WindowLength(r)
           f == r.from
<1> HIDE DEF d, e, l, f
<1>4. f \in Nat /\ l \in Nat /\ f + l < e /\ m - (d + f) \in 0..(l - 1) /\ d \in Int /\ e \in Int
  BY <1>1, <1>2, <1>3 DEF d, e, l, f
<1>5. d <= m /\ m < d + e
  BY <1>4
<1> QED
  BY <1>3, <1>5 DEF d, e

\* The days that Instances looks at are those of the instants between.
LEMMA DaysBetween ==
    ASSUME NEW day \in Int, NEW m \in Int, NEW from \in Int, NEW to \in Int,
           from <= m, m <= to, day * Day <= m, m < (day + 2) * Day
    PROVE  day \in (from \div Day - 1)..(to \div Day)
<1>0. Day \in Nat \ {0}
  BY Constants
<1>1. /\ from \div Day \in Int /\ (from \div Day) * Day <= from
      /\ to \div Day \in Int /\ to < (to \div Day + 1) * Day
  BY <1>0, Quotient
<1>2. (from \div Day) * Day < (day + 2) * Day
  <2>1. (from \div Day) * Day \in Int /\ (day + 2) * Day \in Int
    BY <1>0, <1>1
  <2> QED
    BY <1>1, <2>1
<1>3. day * Day < (to \div Day + 1) * Day
  <2>1. (to \div Day + 1) * Day \in Int /\ day * Day \in Int
    BY <1>0, <1>1
  <2> QED
    BY <1>1, <2>1
<1>4. from \div Day < day + 2 /\ day < to \div Day + 1
  BY <1>0, <1>1, <1>2, <1>3, Multiples
<1> QED
  BY <1>1, <1>4

\* What the rules name, whatever the day.
LEMMA ScheduledIs ==
    ASSUME NEW m \in Int, rules \subseteq Rules
    PROVE  Scheduled(m) <=> \E r \in rules : \E day \in Int : Open(r, day, m)
<1>1. ASSUME Scheduled(m) PROVE \E r \in rules : \E day \in Int : Open(r, day, m)
  <2>1. m \div Day \in Int
    BY Constants, Quotient
  <2> QED
    BY <1>1, <2>1 DEF Scheduled, Open
<1>2. ASSUME NEW r \in rules, NEW day \in Int, Open(r, day, m) PROVE Scheduled(m)
  <2>1. day * Day <= m /\ m < (day + 2) * Day
    BY <1>2, OpenOn
  <2>2. day \in (m \div Day - 1)..(m \div Day)
    <3>1. m <= m
      OBVIOUS
    <3> QED
      BY <2>1, <3>1, DaysBetween
  <2>3. m \div Day \in Int
    BY Constants, Quotient
  <2>4. day \in (m \div Day - 2)..(m \div Day)
    BY <2>2, <2>3
  <2> QED
    BY <1>2, <2>4 DEF Scheduled, Open
<1> QED
  BY <1>1, <1>2

\* Each instance is open throughout, and together they are all that is.
LEMMA InstancesAre ==
    ASSUME NEW r \in Rules, NEW from \in Int, NEW to \in Int
    PROVE  /\ \A w \in Instances(r, from, to) :
                 /\ w \in Int \X Int /\ from <= w[1] /\ w[1] < w[2] /\ w[2] <= to
                 /\ \A m \in Units(w) : \E day \in Int : Open(r, day, m)
           /\ \A m \in from..(to - 1) : (\E day \in Int : Open(r, day, m))
                 => \E w \in Instances(r, from, to) : m \in Units(w)
<1> DEFINE Start(day) == day * Day + r.from
           End(day) == Start(day) + WindowLength(r)
           Cut(day) == <<Later(Start(day), from), Earlier(Start(day) + WindowLength(r), to)>>
           span == (from \div Day - 1)..(to \div Day)
           days == {day \in span : WantedDay(r, day)}
           W == Instances(r, from, to)
<1>1. W = {w \in {Cut(day) : day \in days} : w[1] < w[2]}
  BY DEF Instances
<1>2. from \div Day \in Int /\ to \div Day \in Int
  BY Constants, Quotient
<1>3. span \subseteq Int /\ days \subseteq Int
  BY <1>2
<1>4. r.from \in Nat /\ WindowLength(r) \in Nat \ {0} /\ r.from + WindowLength(r) < 2 * Day
  BY WindowIs
<1>5. \A day \in Int : Start(day) \in Int /\ End(day) \in Int
  BY <1>4, Constants
<1> HIDE DEF days, span, W
<1>6. ASSUME NEW w \in W
      PROVE  /\ w \in Int \X Int /\ from <= w[1] /\ w[1] < w[2] /\ w[2] <= to
             /\ \A m \in Units(w) : \E day \in Int : Open(r, day, m)
  <2>1. PICK day \in days : w = Cut(day) /\ w[1] < w[2]
    BY <1>1
  <2>2. day \in Int /\ WantedDay(r, day)
    BY <1>3 DEF days
  <2>3. /\ w[1] = Later(Start(day), from) /\ w[2] = Earlier(End(day), to)
        /\ Start(day) \in Int /\ End(day) \in Int
    BY <2>1, <2>2, <1>5
  <2>4. w[1] \in Int /\ w[2] \in Int
    BY <2>3 DEF Later, Earlier
  <2>5. w \in Int \X Int
    <3> HIDE DEF Start, End
    <3>1. Later(Start(day), from) \in Int /\ Earlier(Start(day) + WindowLength(r), to) \in Int
      BY <2>3, <2>4 DEF End
    <3> QED
      BY <2>1, <3>1
  <2>6. from <= w[1] /\ w[2] <= to /\ Start(day) <= w[1] /\ w[2] <= End(day)
    <3> HIDE DEF Start, End
    <3> QED
      BY <2>3 DEF Later, Earlier
  <2>7. ASSUME NEW m \in Units(w) PROVE Open(r, day, m)
    <3>1. m \in Int /\ w[1] <= m /\ m < w[2]
      BY <2>7, <2>4 DEF Units
    <3>2. Start(day) <= m /\ m < End(day)
      <4> HIDE DEF Start, End
      <4> QED
        BY <3>1, <2>3, <2>4, <2>6
    <3>3. m - Start(day) \in 0..(WindowLength(r) - 1)
      <4> HIDE DEF Start
      <4> QED
        BY <3>1, <3>2, <2>3, <1>4
    <3> QED
      BY <3>3, <2>2 DEF Open
  <2> QED
    BY <2>1, <2>2, <2>5, <2>6, <2>7
<1>7. ASSUME NEW m \in from..(to - 1), NEW day \in Int, Open(r, day, m)
      PROVE  \E w \in W : m \in Units(w)
  <2>1. m \in Int /\ from <= m /\ m < to
    OBVIOUS
  <2>2. day * Day <= m /\ m < (day + 2) * Day
    BY <1>7, <2>1, OpenOn
  <2>3. day \in span
    <3>1. m <= to
      BY <2>1
    <3> QED
      BY <2>1, <2>2, <3>1, DaysBetween DEF span
  <2>4. day \in days
    BY <1>7, <2>3 DEF days, Open
  <2>5. /\ Start(day) <= m /\ m < End(day)
    <3>1. m - Start(day) \in 0..(WindowLength(r) - 1)
      BY <1>7 DEF Open
    <3>2. Start(day) \in Int
      BY <1>5
    <3> HIDE DEF Start
    <3> QED
      BY <3>1, <3>2, <2>1, <1>4
  <2> DEFINE w == Cut(day)
  <2>6. w[1] = Later(Start(day), from) /\ w[2] = Earlier(End(day), to)
    OBVIOUS
  <2>7. Start(day) \in Int /\ End(day) \in Int
    BY <1>5
  <2> HIDE DEF w, Start, End
  <2>8. w[1] <= m /\ m < w[2] /\ w[1] \in Int /\ w[2] \in Int
    BY <2>1, <2>5, <2>6, <2>7 DEF Later, Earlier
  <2>9. w[1] < w[2] /\ m \in Units(w)
    BY <2>1, <2>8 DEF Units
  <2> USE DEF w
  <2>10. w \in W
    <3> HIDE DEF Cut
    <3> QED
      BY <2>4, <2>9, <1>1
  <2> QED
    BY <2>9, <2>10
<1> QED
  BY <1>6, <1>7 DEF W

-----------------------------------------------------------------------------
(* Windows that are sorted and merged.                                     *)

\* What windows and plans are.
Windows == Seq(Int \X Int)

\* The parts of a window are numbers.
LEMMA WindowsAre ==
    ASSUME NEW q \in Windows
    PROVE  /\ Len(q) \in Nat
           /\ \A i \in 1..Len(q) : q[i] \in Int \X Int /\ q[i][1] \in Int /\ q[i][2] \in Int
<1>1. Len(q) \in Nat /\ \A i \in 1..Len(q) : q[i] \in Int \X Int
  BY DEF Windows
<1> QED
  BY <1>1

\* Sorted is the choice of such a sequence.
InSortedOrder(s, X) ==
    /\ s \in [1..Cardinality(X) -> X] /\ IsInjective(s)
    /\ \A i, j \in DOMAIN s : i < j => s[i][1] <= s[j][1]

\* There is one: the last of the windows goes behind the others, which have an order.
LEMMA SomeOrder ==
    ASSUME NEW W \in SUBSET (Int \X Int), IsFiniteSet(W), NEW to \in Int, \A w \in W : w[1] <= to
    PROVE  \E s : InSortedOrder(s, W)
<1> DEFINE T == {X \in SUBSET W : \E s : InSortedOrder(s, X)}
<1>1. ASSUME NEW X \in SUBSET W, \A x \in X : X \ {x} \in T PROVE X \in T
  <2> SUFFICES \E s : InSortedOrder(s, X)
    OBVIOUS
  <2>1. IsFiniteSet(X) /\ Cardinality(X) \in Nat
    BY FS_Subset, FS_CardinalityType
  <2>2. CASE X = {}
    <3>1. Cardinality(X) = 0
      BY <2>2, FS_EmptySet
    <3>2. InSortedOrder(<<>>, X)
      BY <2>2, <3>1 DEF InSortedOrder, IsInjective
    <3> QED
      BY <3>2
  <2>3. CASE X # {}
    <3>1. \A x \in X : x[1] \in Int /\ x[1] <= to
      OBVIOUS
    <3> DEFINE D == {n \in Nat : \E x \in X : n = to - x[1]}
    <3>2. D \in SUBSET Nat /\ D # {}
      <4>1. PICK x \in X : TRUE
        BY <2>3
      <4>2. to - x[1] \in D
        BY <4>1, <3>1
      <4> QED
        BY <4>2
    <3> HIDE DEF D
    <3>3. PICK n \in D : \A k \in D : n <= k
      BY <3>2, LeastNumber
    <3>4. PICK x \in X : n = to - x[1]
      BY <3>3 DEF D
    <3>5. \A y \in X : y[1] <= x[1]
      <4> SUFFICES ASSUME NEW y \in X PROVE y[1] <= x[1]
        OBVIOUS
      <4>1. to - y[1] \in D
        BY <3>1 DEF D
      <4> QED
        BY <4>1, <3>1, <3>3, <3>4
    <3>6. PICK s : InSortedOrder(s, X \ {x})
      BY <1>1
    <3> DEFINE k == Cardinality(X \ {x})
    <3>7. Cardinality(X) = k + 1 /\ k \in Nat
      <4>1. Cardinality(X \ {x}) = Cardinality(X) - 1 /\ IsFiniteSet(X \ {x})
        BY <2>1, FS_RemoveElement
      <4>2. k \in Nat
        BY <4>1, FS_CardinalityType
      <4> QED
        BY <2>1, <4>1, <4>2
    <3> HIDE DEF k
    <3>8. /\ s \in [1..k -> X \ {x}] /\ DOMAIN s = 1..k
          /\ \A i, j \in 1..k : s[i] = s[j] => i = j
          /\ \A i, j \in 1..k : i < j => s[i][1] <= s[j][1]
      BY <3>6 DEF InSortedOrder, IsInjective, k
    <3> DEFINE t == [i \in 1..(k + 1) |-> IF i = k + 1 THEN x ELSE s[i]]
    <3>9. t \in [1..(k + 1) -> X] /\ DOMAIN t = 1..(k + 1)
      BY <3>7, <3>8
    <3>10. \A i \in 1..(k + 1) : (i = k + 1 /\ t[i] = x) \/ (i \in 1..k /\ t[i] = s[i] /\ t[i] # x /\ t[i] \in X)
      BY <3>7, <3>8
    <3> HIDE DEF t
    <3>11. IsInjective(t)
      BY <3>8, <3>9, <3>10 DEF IsInjective
    <3>12. \A i, j \in 1..(k + 1) : i < j => t[i][1] <= t[j][1]
      <4> SUFFICES ASSUME NEW i \in 1..(k + 1), NEW j \in 1..(k + 1), i < j PROVE t[i][1] <= t[j][1]
        OBVIOUS
      <4>1. i \in 1..k /\ t[i] = s[i] /\ t[i] \in X
        BY <3>7, <3>10
      <4>2. CASE j = k + 1
        <5>1. t[j] = x
          BY <4>2, <3>7, <3>10
        <5> QED
          BY <4>1, <5>1, <3>5
      <4>3. CASE j # k + 1
        BY <4>1, <4>3, <3>8, <3>10
      <4> QED
        BY <4>2, <4>3
    <3>13. InSortedOrder(t, X)
      BY <3>7, <3>9, <3>11, <3>12 DEF InSortedOrder
    <3> QED
      BY <3>13
  <2> QED
    BY <2>2, <2>3
<1>2. SUBSET W \subseteq T
  <2> HIDE DEF T
  <2> QED
    BY <1>1, SubsetsFollow
<1> QED
  BY <1>2

\* So Sorted has every window, in the order of their beginnings.
LEMMA SortedIs ==
    ASSUME NEW W \in SUBSET (Int \X Int), IsFiniteSet(W), NEW to \in Int, \A w \in W : w[1] <= to
    PROVE  /\ Sorted(W) \in Seq(W)
           /\ \A i, j \in 1..Len(Sorted(W)) : i < j => Sorted(W)[i][1] <= Sorted(W)[j][1]
           /\ \A w \in W : \E i \in 1..Len(Sorted(W)) : Sorted(W)[i] = w
<1> DEFINE s == Sorted(W)
           n == Cardinality(W)
<1>1. InSortedOrder(s, W)
  <2>1. \E t : InSortedOrder(t, W)
    BY SomeOrder
  <2>2. \E t \in [1..Cardinality(W) -> W] :
           /\ IsInjective(t)
           /\ \A i, j \in DOMAIN t : i < j => t[i][1] <= t[j][1]
    BY <2>1 DEF InSortedOrder
  <2> QED
    BY <2>2 DEF Sorted, InSortedOrder
<1>2. n \in Nat
  BY FS_CardinalityType
<1> HIDE DEF s, n
<1>3. s \in [1..n -> W] /\ IsInjective(s) /\ \A i, j \in DOMAIN s : i < j => s[i][1] <= s[j][1]
  BY <1>1 DEF InSortedOrder, n
<1>4. s \in Seq(W) /\ Len(s) = n /\ DOMAIN s = 1..n
  BY <1>2, <1>3
<1>5. \A w \in W : \E i \in 1..n : s[i] = w
  <2>1. s \in Injection(1..n, W)
    BY <1>3, <1>4 DEF Injection, IsInjective
  <2>2. Cardinality(1..n) = n
    BY <1>2, FS_Interval
  <2>3. s \in Surjection(1..n, W)
    BY <2>1, <2>2, FS_Injection DEF n
  <2> QED
    BY <2>3 DEF Surjection
<1> QED
  BY <1>3, <1>4, <1>5 DEF s

\* Windows in order, none of which overlaps or touches the next.
Apart(q, from, to) ==
    /\ \A i \in 1..Len(q) : q[i][1] < q[i][2] /\ from <= q[i][1] /\ q[i][2] <= to
    /\ \A i \in 1..Len(q) : \A j \in 1..(i - 1) : q[j][2] < q[i][1]

\* The units of all of them.
Covered(q) == UNION {Units(q[i]) : i \in 1..Len(q)}

\* The units of a window.
LEMMA UnitsAre ==
    ASSUME NEW w \in Int \X Int
    PROVE  /\ w[1] \in Int /\ w[2] \in Int
           /\ \A m : m \in Units(w) <=> m \in Int /\ w[1] <= m /\ m < w[2]
  BY DEF Units

\* A window joined to those before it: they stay apart, and cover what they did and the window.
LEMMA JoinedIs ==
    ASSUME NEW q \in Windows, NEW from \in Int, NEW to \in Int, Apart(q, from, to),
           NEW w \in Int \X Int, w[1] < w[2], from <= w[1], w[2] <= to,
           q # <<>> => Last(q)[1] <= w[1]
    PROVE  /\ Joined(q, w) \in Windows /\ Apart(Joined(q, w), from, to)
           /\ Joined(q, w) # <<>> /\ Last(Joined(q, w))[1] <= w[1]
           /\ Covered(Joined(q, w)) = Covered(q) \cup Units(w)
<1> DEFINE n == Len(q)
           b == w[1]
           e == w[2]
           J == Joined(q, w)
<1>1. /\ n \in Nat /\ b \in Int /\ e \in Int /\ w = <<b, e>>
      /\ \A i \in 1..n : q[i] \in Int \X Int /\ q[i][1] \in Int /\ q[i][2] \in Int
      /\ b < e /\ from <= b /\ e <= to
  BY DEF Windows
<1>2. /\ \A i \in 1..n : q[i][1] < q[i][2] /\ from <= q[i][1] /\ q[i][2] <= to
      /\ \A i \in 1..n : \A j \in 1..(i - 1) : q[j][2] < q[i][1]
  BY DEF Apart
<1>3. CASE q # <<>> /\ b <= Last(q)[2]
  <2> DEFINE l == Last(q)
             top == Later(l[2], e)
             new == <<l[1], top>>
  <2>1. n \in 1..n /\ l = q[n] /\ l[1] \in Int /\ l[2] \in Int /\ l[1] < l[2] /\ from <= l[1] /\ l[2] <= to
        /\ l \in Int \X Int
    BY <1>1, <1>2, <1>3 DEF Last, Windows
  <2>2. top \in Int /\ l[2] <= top /\ e <= top /\ top <= to /\ (top = l[2] \/ top = e)
    <3> HIDE DEF l, e
    <3> QED
      BY <1>1, <2>1 DEF Later
  <2>3. J = [q EXCEPT ![n] = new]
    BY <1>3, <2>1 DEF Joined
  <2>4. new \in Int \X Int /\ new[1] = l[1] /\ new[2] = top
    <3> HIDE DEF top, l
    <3> QED
      BY <2>1, <2>2
  <2> HIDE DEF new, J, top, l, e, b
  <2>5. J \in Windows /\ Len(J) = n /\ J[n] = new /\ \A i \in 1..n : i # n => J[i] = q[i]
    BY <2>1, <2>3, <2>4 DEF Windows
  <2>6. Apart(J, from, to)
    <3>1. \A i \in 1..n : J[i][1] < J[i][2] /\ from <= J[i][1] /\ J[i][2] <= to
      <4> SUFFICES ASSUME NEW i \in 1..n PROVE J[i][1] < J[i][2] /\ from <= J[i][1] /\ J[i][2] <= to
        OBVIOUS
      <4>1. CASE i = n
        BY <4>1, <2>1, <2>2, <2>4, <2>5
      <4>2. CASE i # n
        BY <4>2, <2>5, <1>2
      <4> QED
        BY <4>1, <4>2
    <3>2. ASSUME NEW i \in 1..n, NEW j \in 1..(i - 1) PROVE J[j][2] < J[i][1]
      <4>1. j \in 1..n /\ j # n
        BY <1>1
      <4>2. J[j] = q[j] /\ J[i][1] = q[i][1]
        BY <4>1, <2>1, <2>4, <2>5
      <4> QED
        BY <4>2, <1>2
    <3> QED
      BY <3>1, <3>2, <2>5 DEF Apart
  <2>7. J # <<>> /\ Last(J)[1] <= w[1]
    <3>1. J # <<>> /\ Last(J) = new
      BY <1>1, <2>1, <2>5 DEF Last, Windows
    <3>2. l[1] <= b
      BY <1>3 DEF l, b
    <3> QED
      BY <3>1, <3>2, <2>4 DEF b
  <2>8. Units(new) = Units(l) \cup Units(w)
    <3>1. \A m : m \in Units(new) <=> m \in Int /\ l[1] <= m /\ m < top
      BY <2>4, UnitsAre
    <3>2. \A m : m \in Units(l) <=> m \in Int /\ l[1] <= m /\ m < l[2]
      BY <2>1, UnitsAre
    <3>3. \A m : m \in Units(w) <=> m \in Int /\ b <= m /\ m < e
      BY UnitsAre DEF b, e
    <3>4. l[1] <= b /\ b <= l[2]
      BY <1>3 DEF l, b
    <3>5. ASSUME NEW m \in Int PROVE (l[1] <= m /\ m < top) <=> ((l[1] <= m /\ m < l[2]) \/ (b <= m /\ m < e))
      BY <1>1, <2>1, <2>2, <3>4
    <3> QED
      BY <3>1, <3>2, <3>3, <3>5
  <2>9. Covered(J) = Covered(q) \cup Units(w)
    <3>1. \A m : m \in Covered(J) <=> \E i \in 1..n : m \in Units(J[i])
      BY <2>5 DEF Covered
    <3>2. \A m : m \in Covered(q) <=> \E i \in 1..n : m \in Units(q[i])
      BY DEF Covered
    <3>3. ASSUME NEW m PROVE m \in Covered(J) <=> m \in Covered(q) \/ m \in Units(w)
      <4>1. ASSUME NEW i \in 1..n, m \in Units(J[i]) PROVE m \in Covered(q) \/ m \in Units(w)
        <5>1. CASE i = n
          BY <4>1, <5>1, <2>1, <2>5, <2>8, <3>2
        <5>2. CASE i # n
          BY <4>1, <5>2, <2>5, <3>2
        <5> QED
          BY <5>1, <5>2
      <4>2. ASSUME NEW i \in 1..n, m \in Units(q[i]) PROVE m \in Covered(J)
        <5>1. CASE i = n
          BY <4>2, <5>1, <2>1, <2>5, <2>8, <3>1
        <5>2. CASE i # n
          BY <4>2, <5>2, <2>5, <3>1
        <5> QED
          BY <5>1, <5>2
      <4>3. ASSUME m \in Units(w) PROVE m \in Covered(J)
        BY <4>3, <2>1, <2>5, <2>8, <3>1
      <4> QED
        BY <3>1, <3>2, <4>1, <4>2, <4>3
    <3> QED
      BY <3>3
  <2> QED
    BY <2>5, <2>6, <2>7, <2>9 DEF J
<1>4. CASE ~(q # <<>> /\ b <= Last(q)[2])
  <2>1. J = Append(q, w)
    BY <1>4 DEF Joined
  <2>2. /\ J \in Windows /\ Len(J) = n + 1 /\ J[n + 1] = w
        /\ \A i \in 1..n : J[i] = q[i]
    <3> HIDE DEF J
    <3> QED
      BY <2>1 DEF Windows
  <2> HIDE DEF J
  <2>3. \A i \in 1..n : q[i][2] < b
    <3> SUFFICES ASSUME NEW i \in 1..n PROVE q[i][2] < b
      OBVIOUS
    <3>1. q # <<>> /\ n \in 1..n /\ Last(q) = q[n]
      BY <1>1 DEF Last, Windows
    <3>2. q[n][2] < b
      BY <3>1, <1>1, <1>4
    <3>3. CASE i = n
      BY <3>2, <3>3
    <3>4. CASE i # n
      <4>1. i \in 1..(n - 1)
        BY <3>4, <1>1
      <4>2. q[i][2] < q[n][1] /\ q[n][1] < q[n][2]
        BY <3>1, <4>1, <1>2
      <4> HIDE DEF b, n
      <4> QED
        BY <4>2, <3>1, <3>2, <1>1
    <3> QED
      BY <3>3, <3>4
  <2>4. Apart(J, from, to)
    <3>1. \A i \in 1..(n + 1) : i = n + 1 \/ i \in 1..n
      BY <1>1
    <3>2. \A i \in 1..(n + 1) : J[i][1] < J[i][2] /\ from <= J[i][1] /\ J[i][2] <= to
      BY <3>1, <2>2, <1>1, <1>2
    <3>3. ASSUME NEW i \in 1..(n + 1), NEW j \in 1..(i - 1) PROVE J[j][2] < J[i][1]
      <4>1. j \in 1..n /\ J[j] = q[j]
        BY <1>1, <2>2
      <4>2. CASE i = n + 1
        BY <4>1, <4>2, <2>2, <2>3
      <4>3. CASE i # n + 1
        BY <4>1, <4>3, <3>1, <2>2, <1>2
      <4> QED
        BY <4>2, <4>3
    <3> QED
      BY <3>2, <3>3, <2>2 DEF Apart
  <2>5. J # <<>> /\ Last(J)[1] <= w[1]
    <3>1. J # <<>> /\ Last(J) = w
      BY <1>1, <2>2 DEF Last, Windows
    <3> QED
      BY <3>1, <1>1
  <2>6. Covered(J) = Covered(q) \cup Units(w)
    <3>1. \A m : m \in Covered(J) <=> \E i \in 1..(n + 1) : m \in Units(J[i])
      BY <2>2 DEF Covered
    <3>2. \A m : m \in Covered(q) <=> \E i \in 1..n : m \in Units(q[i])
      BY DEF Covered
    <3>3. /\ \A i \in 1..(n + 1) : i = n + 1 \/ i \in 1..n
          /\ \A i \in 1..n : i \in 1..(n + 1)
          /\ n + 1 \in 1..(n + 1)
      BY <1>1
    <3> HIDE DEF n
    <3>4. ASSUME NEW m PROVE m \in Covered(J) <=> m \in Covered(q) \/ m \in Units(w)
      BY <3>1, <3>2, <3>3, <2>2
    <3> QED
      BY <3>4
  <2> QED
    BY <2>2, <2>4, <2>5, <2>6 DEF J
<1> QED
  BY <1>3, <1>4

\* Windows stay windows.
LEMMA JoinedType ==
    ASSUME NEW q \in Windows, NEW w \in Int \X Int PROVE Joined(q, w) \in Windows
<1>1. CASE q # <<>> /\ w[1] <= Last(q)[2]
  <2> DEFINE n == Len(q)
             new == <<q[n][1], Later(q[n][2], w[2])>>
  <2>1. n \in 1..n /\ q[n] \in Int \X Int
    BY <1>1 DEF Windows
  <2>2. new \in Int \X Int
    BY <2>1 DEF Later
  <2>3. Joined(q, w) = [q EXCEPT ![n] = new]
    BY <1>1, <2>1 DEF Joined
  <2> HIDE DEF new
  <2> QED
    BY <2>1, <2>2, <2>3 DEF Windows
<1>2. CASE ~(q # <<>> /\ w[1] <= Last(q)[2])
  BY <1>2 DEF Joined, Windows
<1> QED
  BY <1>1, <1>2

\* What Merged walks through.
Joins(f, s) ==
    f = [i \in 0..Len(s) |-> IF i = 0 THEN <<>> ELSE Joined(f[i - 1], s[i])]

\* There is such a walk, so it is what the recursion of Merged is.
LEMMA SomeJoins ==
    ASSUME NEW s \in Windows PROVE \E f : Joins(f, s)
<1> DEFINE n == Len(s)
           step == [p \in Windows \X (1..n) |-> Joined(p[1], s[p[2]])]
<1>1. n \in Nat /\ \A i \in 1..n : s[i] \in Int \X Int
  BY DEF Windows
<1>2. \A p \in Windows \X (1..n) : Joined(p[1], s[p[2]]) \in Windows
  BY <1>1, JoinedType
<1>3. step \in [Windows \X (1..n) -> Windows]
  BY <1>2
<1>4. <<>> \in Windows
  BY DEF Windows
<1>5. \A q \in Windows, i \in 1..n : step[<<q, i>>] = Joined(q, s[i])
  OBVIOUS
<1> HIDE DEF step
<1>6. PICK f : Runs(f, Windows, <<>>, n, step)
  BY <1>1, <1>3, <1>4, SomeRun
<1>7. \A i \in 0..n : f[i] = IF i = 0 THEN <<>> ELSE Joined(f[i - 1], s[i])
  <2> SUFFICES ASSUME NEW i \in 0..n, i # 0 PROVE f[i] = Joined(f[i - 1], s[i])
    BY <1>6 DEF Runs
  <2>1. i \in 1..n /\ i - 1 \in 0..n
    BY <1>1
  <2>2. f[i - 1] \in Windows /\ f[i] = step[<<f[i - 1], i>>]
    BY <2>1, <1>6 DEF Runs
  <2> QED
    BY <2>1, <2>2, <1>5
<1>8. f = [i \in 0..n |-> f[i]]
  BY <1>6 DEF Runs
<1>9. Joins(f, s)
  BY <1>7, <1>8 DEF Joins
<1> QED
  BY <1>9

\* The windows of a set become windows in order and apart, of the same units.
LEMMA MergedIs ==
    ASSUME NEW W \in SUBSET (Int \X Int), IsFiniteSet(W), NEW from \in Int, NEW to \in Int,
           \A w \in W : from <= w[1] /\ w[1] < w[2] /\ w[2] <= to
    PROVE  /\ Merged(W) \in Windows /\ Apart(Merged(W), from, to)
           /\ Covered(Merged(W)) = UNION {Units(w) : w \in W}
<1> DEFINE s == Sorted(W)
           n == Len(s)
           f == CHOOSE f : Joins(f, s)
<1>1. /\ s \in Seq(W)
      /\ \A i, j \in 1..n : i < j => s[i][1] <= s[j][1]
      /\ \A w \in W : \E i \in 1..n : s[i] = w
  <2>1. \A w \in W : w[1] <= to
    BY SMTT(30)
  <2> QED
    BY <2>1, SortedIs
<1>2. Merged(W) = f[n]
  BY DEF Merged, Joins
<1> HIDE DEF s
<1>3. /\ n \in Nat /\ s \in Windows
      /\ \A i \in 1..n : s[i] \in W /\ s[i] \in Int \X Int
  BY <1>1 DEF Windows
<1>4. Joins(f, s)
  BY <1>3, SomeJoins
<1> HIDE DEF f
<1>5. f[0] = <<>> /\ \A i \in 1..n : f[i] = Joined(f[i - 1], s[i])
  <2>1. \A i \in 0..n : f[i] = IF i = 0 THEN <<>> ELSE Joined(f[i - 1], s[i])
    BY <1>4 DEF Joins
  <2>2. 0 \in 0..n /\ \A i \in 1..n : i \in 0..n /\ i # 0
    BY <1>3
  <2> QED
    BY <2>1, <2>2
<1> HIDE DEF n
<1> DEFINE First(k) == UNION {Units(s[i]) : i \in 1..k}
<1> DEFINE Good(k) == /\ f[k] \in Windows /\ Apart(f[k], from, to)
                      /\ Covered(f[k]) = First(k)
                      /\ f[k] # <<>> => k > 0 /\ Last(f[k])[1] <= s[k][1]
           T == {k \in Nat : k <= n => Good(k)}
<1>6. 0 \in T
  <2>1. <<>> \in Windows /\ Apart(<<>>, from, to) /\ Covered(<<>>) = {}
    BY DEF Windows, Apart, Covered
  <2>2. First(0) = {}
    OBVIOUS
  <2> QED
    BY <2>1, <2>2, <1>5
<1>7. ASSUME NEW k \in Nat, k \in T PROVE k + 1 \in T
  <2> SUFFICES ASSUME k + 1 <= n PROVE Good(k + 1)
    OBVIOUS
  <2> DEFINE q == f[k]
             w == s[k + 1]
  <2>1. Good(k) /\ k + 1 \in 1..n /\ (k + 1) - 1 = k
    BY <1>3, <1>7
  <2>2. f[k + 1] = Joined(q, w)
    BY <2>1, <1>5
  <2>3. w \in W /\ w \in Int \X Int
    BY <2>1, <1>3
  <2>4. w[1] < w[2] /\ from <= w[1] /\ w[2] <= to
    BY <2>3
  <2>5. q # <<>> => Last(q)[1] <= w[1]
    <3> SUFFICES ASSUME q # <<>> PROVE Last(q)[1] <= w[1]
      OBVIOUS
    <3>1. k > 0 /\ Last(q)[1] <= s[k][1] /\ q \in Windows
      BY <2>1
    <3>2. k \in 1..n /\ k < k + 1
      BY <3>1, <1>3
    <3>3. s[k][1] <= w[1] /\ s[k] \in Int \X Int
      BY <3>2, <2>1, <1>1, <1>3 DEF n
    <3>4. Last(q) \in Int \X Int
      BY <3>1 DEF Windows, Last
    <3> HIDE DEF q, w
    <3> QED
      BY <3>1, <3>3, <3>4, <2>3
  <2>6. q \in Windows /\ Apart(q, from, to)
    BY <2>1
  <2> HIDE DEF q, w
  <2>7. /\ Joined(q, w) \in Windows /\ Apart(Joined(q, w), from, to)
        /\ Joined(q, w) # <<>> /\ Last(Joined(q, w))[1] <= w[1]
        /\ Covered(Joined(q, w)) = Covered(q) \cup Units(w)
    BY <2>3, <2>4, <2>5, <2>6, JoinedIs
  <2>8. Covered(q) = First(k)
    BY <2>1 DEF q
  <2>9. First(k + 1) = First(k) \cup Units(w)
    <3>1. \A i \in 1..(k + 1) : i = k + 1 \/ i \in 1..k
      OBVIOUS
    <3>2. k + 1 \in 1..(k + 1) /\ \A i \in 1..k : i \in 1..(k + 1)
      OBVIOUS
    <3>3. /\ \A m : m \in First(k) <=> \E i \in 1..k : m \in Units(s[i])
          /\ \A m : m \in First(k + 1) <=> \E i \in 1..(k + 1) : m \in Units(s[i])
      OBVIOUS
    <3> HIDE DEF First
    <3>4. ASSUME NEW m PROVE m \in First(k + 1) <=> m \in First(k) \/ m \in Units(w)
      BY <3>1, <3>2, <3>3 DEF w
    <3> QED
      BY <3>4
  <2>10. Covered(f[k + 1]) = First(k + 1)
    <3> HIDE DEF First
    <3> QED
      BY <2>2, <2>7, <2>8, <2>9
  <2> QED
    BY <2>2, <2>7, <2>10 DEF w
<1> HIDE DEF T
<1>8. n \in T
  BY <1>3, <1>6, <1>7, NumbersFollow DEF n
<1>9. Good(n)
  BY <1>3, <1>8 DEF T, n
<1>10. First(n) = UNION {Units(w) : w \in W}
  <2>1. \A i \in 1..n : s[i] \in W
    BY <1>3 DEF n
  <2>2. \A w \in W : \E i \in 1..n : s[i] = w
    BY <1>1 DEF n
  <2> QED
    BY <2>1, <2>2
<1> QED
  BY <1>2, <1>9, <1>10 DEF n

-----------------------------------------------------------------------------
(* The clips of a window, and the whole of a plan.                         *)

\* A clip ends where the next begins, and all of a window up to the end of its last clip is in one.
LEMMA ChunksAre ==
    ASSUME NEW w \in Int \X Int, w[1] < w[2], NEW cutoff \in Int, w[2] <= cutoff
    PROVE  LET c == Chunks(w, cutoff)
           IN  /\ c \in Windows
               /\ \A i \in 1..Len(c) : /\ c[i][1] < c[i][2] /\ c[i][2] - c[i][1] <= MaxClip
                                       /\ w[1] <= c[i][1] /\ c[i][2] <= w[2]
               /\ \A i \in 1..Len(c) : \A j \in 1..(i - 1) : c[j][2] <= c[i][1]
               /\ \A i \in 1..Len(c) : \A m \in Int :
                     w[1] <= m /\ m < c[i][2] => \E j \in 1..i : m \in Units(c[j])
               /\ \A m \in Units(w) : w[2] < cutoff \/ m <= cutoff - MaxClip
                     => \E j \in 1..Len(c) : m \in Units(c[j])
<1> DEFINE b == w[1]
           e == w[2]
           L == MaxClip
           n == (e - b) \div L
           rest == b + n * L
           c == Chunks(w, cutoff)
           p == [i \in 1..n |-> <<b + (i - 1) * L, b + i * L>>]
<1>1. b \in Int /\ e \in Int /\ b < e /\ e <= cutoff /\ L \in Nat \ {0}
  BY Constants
<1>2. n \in Int /\ n * L <= e - b /\ e - b < (n + 1) * L
  <2>1. e - b \in Int
    BY <1>1
  <2> QED
    BY <1>1, <2>1, Quotient
<1>3. (n + 1) * L = n * L + L /\ n * L \in Int
  BY <1>1, <1>2
<1>4. n \in Nat
  <2>1. 0 * L < (n + 1) * L
    <3>1. 0 * L = 0 /\ 0 < e - b
      BY <1>1
    <3> QED
      BY <3>1, <1>1, <1>2, <1>3
  <2>2. 0 < n + 1
    BY <2>1, <1>1, <1>2, Multiples
  <2> QED
    BY <2>2, <1>2
<1>5. c = p \o (IF rest < e /\ e < cutoff THEN <<<<rest, e>>>> ELSE <<>>)
  BY DEF Chunks
<1> HIDE DEF b, e, L, n, c
<1>6. rest \in Int /\ rest <= e /\ e - rest < L /\ b <= rest
  <2>1. 0 * L <= n * L /\ 0 * L = 0
    BY <1>1, <1>4, MultiplesUp
  <2> QED
    BY <2>1, <1>1, <1>2, <1>3
<1>7. \A i \in Int : (i - 1) * L \in Int /\ i * L \in Int /\ i * L = (i - 1) * L + L
  BY <1>1
<1>8. p \in Windows /\ Len(p) = n /\ \A i \in 1..n : p[i][1] = b + (i - 1) * L /\ p[i][2] = b + i * L
  <2>1. \A i \in 1..n : <<b + (i - 1) * L, b + i * L>> \in Int \X Int
    BY <1>1, <1>7
  <2> QED
    BY <2>1, <1>4 DEF Windows
<1> HIDE DEF p, rest
\* The pieces that are there, and the one that may follow them.
<1>9. /\ c \in Windows /\ (Len(c) = n \/ (Len(c) = n + 1 /\ rest < e /\ e < cutoff /\ c[n + 1] = <<rest, e>>))
      /\ (Len(c) = n => ~(rest < e /\ e < cutoff))
      /\ \A i \in 1..n : c[i] = p[i]
  <2>1. CASE rest < e /\ e < cutoff
    <3> DEFINE l == <<rest, e>>
    <3>1. l \in Int \X Int
      BY <1>1, <1>6
    <3>2. c = p \o <<l>>
      BY <2>1, <1>5
    <3> HIDE DEF l
    <3>s. p \in Windows /\ Len(p) = n /\ n \in Nat
      BY <1>4, <1>8
    <3>3. c \in Windows /\ Len(c) = n + 1 /\ c[n + 1] = l /\ \A i \in 1..n : c[i] = p[i]
      <4>1. c \in Windows /\ Len(c) = n + 1
        BY <3>1, <3>2, <3>s DEF Windows
      <4>2. c[n + 1] = l
        <5>1. p \in Seq(Int \X Int) /\ <<l>> \in Seq(Int \X Int) /\ Len(<<l>>) = 1 /\ <<l>>[1] = l
          BY <3>1, <3>s DEF Windows
        <5>2. \A i \in 1..(Len(p) + 1) : (p \o <<l>>)[i] = IF i <= Len(p) THEN p[i] ELSE <<l>>[i - Len(p)]
          BY <5>1
        <5>3. n + 1 \in 1..(Len(p) + 1) /\ ~(n + 1 <= Len(p)) /\ (n + 1) - Len(p) = 1
          BY <3>s
        <5> QED
          BY <5>1, <5>2, <5>3, <3>2
      <4>3. \A i \in 1..n : c[i] = p[i]
        BY <3>1, <3>2, <3>s DEF Windows
      <4> QED
        BY <4>1, <4>2, <4>3
    <3> QED
      BY <2>1, <3>3, <1>4 DEF l
  <2>2. CASE ~(rest < e /\ e < cutoff)
    <3>1. c = p \o <<>>
      BY <2>2, <1>5
    <3>2. c = p
      BY <3>1, <1>8 DEF Windows
    <3> QED
      BY <2>2, <3>2, <1>8
  <2> QED
    BY <2>1, <2>2
<1>10. Len(c) \in Nat /\ \A i \in 1..Len(c) : (i = n + 1 /\ Len(c) = n + 1) \/ i \in 1..n
  BY <1>4, <1>9
<1>11. \A i \in 1..n : /\ c[i][1] = b + (i - 1) * L /\ c[i][2] = b + i * L
                       /\ c[i][1] \in Int /\ c[i][2] \in Int
                       /\ b <= c[i][1] /\ c[i][2] <= rest /\ c[i][2] = c[i][1] + L
  <2> SUFFICES ASSUME NEW i \in 1..n
               PROVE  /\ c[i][1] = b + (i - 1) * L /\ c[i][2] = b + i * L
                      /\ c[i][1] \in Int /\ c[i][2] \in Int
                      /\ b <= c[i][1] /\ c[i][2] <= rest /\ c[i][2] = c[i][1] + L
    OBVIOUS
  <2>1. c[i][1] = b + (i - 1) * L /\ c[i][2] = b + i * L
    BY <1>8, <1>9
  <2>2. 0 * L <= (i - 1) * L /\ i * L <= n * L /\ 0 * L = 0
    <3>1. 0 <= i - 1 /\ i <= n /\ i - 1 \in Int
      BY <1>4
    <3> QED
      BY <3>1, <1>1, <1>4, MultiplesUp
  <2> QED
    BY <2>1, <2>2, <1>1, <1>3, <1>7 DEF rest
<1>12. \A i \in 1..Len(c) : /\ c[i][1] < c[i][2] /\ c[i][2] - c[i][1] <= L
                            /\ b <= c[i][1] /\ c[i][2] <= e
                            /\ c[i][1] \in Int /\ c[i][2] \in Int
  <2> SUFFICES ASSUME NEW i \in 1..Len(c)
               PROVE  /\ c[i][1] < c[i][2] /\ c[i][2] - c[i][1] <= L
                      /\ b <= c[i][1] /\ c[i][2] <= e
                      /\ c[i][1] \in Int /\ c[i][2] \in Int
    OBVIOUS
  <2>1. CASE i \in 1..n
    <3>1. /\ c[i][1] \in Int /\ c[i][2] \in Int
          /\ b <= c[i][1] /\ c[i][2] <= rest /\ c[i][2] = c[i][1] + L
      BY <2>1, <1>11
    <3>2. b \in Int /\ e \in Int /\ rest \in Int /\ rest <= e /\ L \in Int /\ L > 0
      BY <1>1, <1>6
    <3> QED
      BY ONLY <3>1, <3>2, SMTT(30)
  <2>2. CASE i = n + 1 /\ Len(c) = n + 1
    <3>1. rest < e /\ c[i][1] = rest /\ c[i][2] = e
      BY <2>2, <1>4, <1>9
    <3> QED
      BY <3>1, <1>1, <1>6
  <2> QED
    BY <2>1, <2>2, <1>10
<1>13. ASSUME NEW i \in 1..Len(c), NEW j \in 1..(i - 1) PROVE c[j][2] <= c[i][1]
  <2>1. j \in 1..n /\ i \in Int /\ j <= i - 1
    BY <1>4, <1>10
  <2>2. CASE i \in 1..n
    <3>1. j * L <= (i - 1) * L
      BY <2>1, <1>1, MultiplesUp
    <3>2. c[j][2] = b + j * L /\ c[i][1] = b + (i - 1) * L
      BY <2>1, <2>2, <1>11
    <3>3. j * L \in Int /\ (i - 1) * L \in Int
      BY <2>1, <1>7
    <3> QED
      BY <3>1, <3>2, <3>3, <1>1
  <2>3. CASE i = n + 1 /\ Len(c) = n + 1
    <3>1. c[i][1] = rest
      BY <2>3, <1>4, <1>9
    <3> QED
      BY <2>1, <3>1, <1>11
  <2> QED
    BY <2>2, <2>3, <1>10
\* Where a unit of the window is.
<1>14. ASSUME NEW m \in Int, b <= m, m < rest
       PROVE  \E j \in 1..n : m \in Units(c[j]) /\ \A i \in 1..n : m < c[i][2] => j <= i
  <2> DEFINE k == (m - b) \div L
  <2>1. k \in Int /\ k * L <= m - b /\ m - b < (k + 1) * L
    <3>1. m - b \in Int
      BY <1>1
    <3> QED
      BY <3>1, <1>1, Quotient
  <2> HIDE DEF k
  <2>2. k * L \in Int /\ (k + 1) * L \in Int
    BY <2>1, <1>1
  <2>3. 0 * L < (k + 1) * L
    <3>1. 0 * L = 0
      BY <1>1
    <3> QED
      BY <2>1, <2>2, <3>1, <1>1, <1>14
  <2>4. k \in Nat
    <3>1. 0 < k + 1
      BY <2>1, <2>3, <1>1, Multiples
    <3> QED
      BY <3>1, <2>1
  <2>5. ASSUME NEW i \in Int, m < b + i * L PROVE k < i
    <3>1. i * L \in Int
      BY <1>1
    <3>2. k * L < i * L
      BY <2>1, <2>2, <2>5, <3>1, <1>1
    <3> QED
      BY <3>2, <2>1, <1>1, Multiples
  <2>6. k < n
    BY <2>5, <1>4, <1>14 DEF rest
  <2> DEFINE j == k + 1
  <2>7. j \in 1..n /\ j - 1 = k
    BY <2>4, <2>6, <1>4
  <2>8. m \in Units(c[j])
    <3>1. c[j][1] = b + k * L /\ c[j][2] = b + (k + 1) * L
      BY <2>7, <1>11
    <3>2. c[j][1] <= m /\ m < c[j][2] /\ c[j][1] \in Int /\ c[j][2] \in Int
      BY <3>1, <2>1, <2>2, <1>1
    <3> QED
      BY <3>2 DEF Units
  <2>9. ASSUME NEW i \in 1..n, m < c[i][2] PROVE j <= i
    <3>1. m < b + i * L
      BY <2>9, <1>11
    <3>2. k < i
      BY <3>1, <2>5
    <3> QED
      BY <3>2, <2>4
  <2> QED
    BY <2>7, <2>8, <2>9
<1>15. ASSUME Len(c) = n + 1, NEW m \in Int, rest <= m, m < e PROVE m \in Units(c[n + 1])
  <2>1. c[n + 1][1] = rest /\ c[n + 1][2] = e
    BY <1>15, <1>4, <1>9
  <2> QED
    BY <2>1, <1>1, <1>6, <1>15 DEF Units
<1>16. ASSUME NEW i \in 1..Len(c), NEW m \in Int, b <= m, m < c[i][2]
       PROVE  \E j \in 1..i : m \in Units(c[j])
  <2>1. CASE i \in 1..n
    <3>1. m < rest
      BY <2>1, <1>6, <1>11, <1>16
    <3>2. PICK j \in 1..n : m \in Units(c[j]) /\ j <= i
      BY <2>1, <3>1, <1>14, <1>16
    <3>3. j \in 1..i
      BY <2>1, <3>2, <1>4
    <3> QED
      BY <3>2, <3>3
  <2>2. CASE i = n + 1 /\ Len(c) = n + 1
    <3>1. m < e
      BY <1>12, <1>16, <1>1
    <3>2. CASE m < rest
      <4>1. PICK j \in 1..n : m \in Units(c[j])
        BY <3>2, <1>14, <1>16
      <4>2. j \in 1..i
        BY <2>2, <1>4
      <4> QED
        BY <4>1, <4>2
    <3>3. CASE ~(m < rest)
      <4>1. m \in Units(c[n + 1])
        BY <2>2, <3>1, <3>3, <1>6, <1>15
      <4>2. n + 1 \in 1..i
        BY <2>2, <1>4
      <4> QED
        BY <4>1, <4>2
    <3> QED
      BY <3>2, <3>3
  <2> QED
    BY <2>1, <2>2, <1>10
<1>17. ASSUME NEW m \in Units(w), e < cutoff \/ m <= cutoff - L
       PROVE  \E j \in 1..Len(c) : m \in Units(c[j])
  <2>1. m \in Int /\ b <= m /\ m < e
    BY UnitsAre DEF b, e
  <2>2. CASE m < rest
    <3>1. PICK j \in 1..n : m \in Units(c[j])
      BY <2>1, <2>2, <1>14
    <3>2. j \in 1..Len(c)
      BY <1>4, <1>9
    <3> QED
      BY <3>1, <3>2
  <2>3. CASE ~(m < rest)
    <3>1. rest < e
      BY <2>1, <2>3, <1>1, <1>6
    <3>2. e < cutoff
      BY <2>1, <2>3, <1>1, <1>6, <1>17
    <3>3. Len(c) = n + 1
      BY <3>1, <3>2, <1>9
    <3>4. m \in Units(c[n + 1])
      BY <2>1, <2>3, <3>3, <1>6, <1>15
    <3>5. n + 1 \in 1..Len(c)
      BY <3>3, <1>4
    <3> QED
      BY <3>4, <3>5
  <2> QED
    BY <2>2, <2>3
<1> QED
  BY <1>9, <1>12, <1>13, <1>16, <1>17 DEF b, e, L, c

\* What the rules want asked for by a pass whose cutoff is until: not the remainder of a window that
\* is still running.
Wanted(m, until) ==
    Scheduled(m) /\ (m <= until - MaxClip \/ \E e \in m..(until - 1) : ~Scheduled(e))

\* Sound chunks of what the rules name, in order, between from and cutoff.
InOrder(t, from, cutoff) ==
    \A i \in 1..Len(t) :
        /\ t[i][1] < t[i][2] /\ t[i][2] - t[i][1] <= MaxClip
        /\ from <= t[i][1] /\ t[i][2] <= cutoff
        /\ \A m \in Units(t[i]) : Scheduled(m)
        /\ \A j \in 1..(i - 1) : t[j][2] <= t[i][1]

\* What WindowsToKeep returns: nothing the rules name is passed over on the way to a chunk, nor at
\* the end what is wanted.
Planned(t, from, cutoff) ==
    /\ t \in Seq(Int \X Int)
    /\ InOrder(t, from, cutoff)
    /\ \A i \in 1..Len(t) : \A m \in from..(t[i][2] - 1) :
          Scheduled(m) => \E j \in 1..i : m \in Units(t[j])
    /\ \A m \in from..(cutoff - 1) :
          Wanted(m, cutoff) => \E j \in 1..Len(t) : m \in Units(t[j])

\* What FlattenSeq walks through.
Flattens(f, seqs) ==
    f = [i \in 1..Len(seqs) |-> IF i = 1 THEN seqs[i] ELSE f[i - 1] \o seqs[i]]

\* There is such a walk, so it is what the recursion of FlattenSeq is.
LEMMA SomeFlattens ==
    ASSUME NEW S, NEW seqs \in Seq(Seq(S)), seqs # <<>>
    PROVE  \E f : Flattens(f, seqs) /\ f \in [1..Len(seqs) -> Seq(S)]
<1> DEFINE n == Len(seqs)
           step == [p \in Seq(S) \X (1..n) |-> p[1] \o seqs[p[2]]]
<1>1. n \in Nat /\ n > 0 /\ \A i \in 1..n : seqs[i] \in Seq(S)
  OBVIOUS
<1>2. \A p \in Seq(S) \X (1..n) : p[1] \o seqs[p[2]] \in Seq(S)
  BY <1>1, After
<1>3. step \in [Seq(S) \X (1..n) -> Seq(S)]
  BY <1>2
<1>4. \A q \in Seq(S), i \in 1..n : step[<<q, i>>] = q \o seqs[i]
  OBVIOUS
<1> HIDE DEF step, n
<1>5. <<>> \in Seq(S)
  OBVIOUS
<1>6. PICK g : Runs(g, Seq(S), <<>>, n, step)
  BY <1>1, <1>3, <1>5, SomeRun
<1> DEFINE f == [i \in 1..n |-> g[i]]
<1>7. \A i \in 1..n : f[i] = g[i] /\ g[i] \in Seq(S) /\ g[i] = g[i - 1] \o seqs[i] /\ g[i - 1] \in Seq(S)
  <2> SUFFICES ASSUME NEW i \in 1..n
               PROVE  g[i] \in Seq(S) /\ g[i] = g[i - 1] \o seqs[i] /\ g[i - 1] \in Seq(S)
    OBVIOUS
  <2>1. i \in 0..n /\ i - 1 \in 0..n
    BY <1>1
  <2>2. g[i] \in Seq(S) /\ g[i - 1] \in Seq(S) /\ g[i] = step[<<g[i - 1], i>>]
    BY <2>1, <1>6 DEF Runs
  <2> QED
    BY <2>2, <1>4
<1>8. f \in [1..n -> Seq(S)]
  BY <1>7
<1> HIDE DEF f
<1>9. \A i \in 1..n : f[i] = IF i = 1 THEN seqs[i] ELSE f[i - 1] \o seqs[i]
  <2> SUFFICES ASSUME NEW i \in 1..n PROVE f[i] = IF i = 1 THEN seqs[i] ELSE f[i - 1] \o seqs[i]
    OBVIOUS
  <2>1. CASE i = 1
    <3>1. g[0] = <<>> /\ i - 1 = 0
      BY <2>1, <1>6 DEF Runs
    <3>2. <<>> \o seqs[i] = seqs[i]
      BY <1>1
    <3>3. f[i] = g[i - 1] \o seqs[i]
      BY <1>7
    <3> QED
      BY <2>1, <3>1, <3>2, <3>3
  <2>2. CASE i # 1
    <3>1. i - 1 \in 1..n
      BY <2>2, <1>1
    <3> QED
      BY <2>2, <3>1, <1>7
  <2> QED
    BY <2>1, <2>2
<1>10. f = [i \in 1..n |-> f[i]]
  BY <1>8
<1>11. Flattens(f, seqs)
  BY <1>9, <1>10 DEF Flattens, n
<1> QED
  BY <1>8, <1>11 DEF n

\* What the rules name is in one of the merged windows, and the other way round.
LEMMA MergedAreScheduled ==
    ASSUME TypeOK, NEW from \in Int, NEW cutoff \in Int
    PROVE  LET merged == Merged(UNION {Instances(r, from, cutoff) : r \in rules})
           IN  /\ merged \in Windows /\ Apart(merged, from, cutoff)
               /\ \A m \in from..(cutoff - 1) : m \in Covered(merged) <=> Scheduled(m)
<1> DEFINE W == UNION {Instances(r, from, cutoff) : r \in rules}
<1>1. rules \subseteq Rules
  BY Constants DEF TypeOK
<1>2. \A w \in W : \E r \in rules : w \in Instances(r, from, cutoff)
  OBVIOUS
<1>3. \A r \in rules : Instances(r, from, cutoff) \subseteq W
  OBVIOUS
<1> HIDE DEF W
<1>4. \A w \in W : w \in Int \X Int /\ from <= w[1] /\ w[1] < w[2] /\ w[2] <= cutoff
  BY <1>1, <1>2, InstancesAre
<1>5. IsFiniteSet(W)
  <2> DEFINE P == (from..cutoff) \X (from..cutoff)
  <2>1. IsFiniteSet(P)
    BY FS_Interval, FS_Product
  <2>2. \A w \in W : w \in P
    <3> SUFFICES ASSUME NEW w \in W PROVE w \in P
      OBVIOUS
    <3>1. w \in Int \X Int /\ from <= w[1] /\ w[1] < w[2] /\ w[2] <= cutoff
      BY <1>4
    <3>2. w[1] \in from..cutoff /\ w[2] \in from..cutoff
      BY <3>1
    <3> QED
      BY <3>1, <3>2
  <2> HIDE DEF P
  <2> QED
    BY <2>1, <2>2, FS_Subset
<1>6. /\ Merged(W) \in Windows /\ Apart(Merged(W), from, cutoff)
      /\ Covered(Merged(W)) = UNION {Units(w) : w \in W}
  <2>1. W \in SUBSET (Int \X Int)
    BY <1>4
  <2>2. \A w \in W : from <= w[1] /\ w[1] < w[2] /\ w[2] <= cutoff
    BY <1>4
  <2> QED
    BY <2>1, <2>2, <1>5, MergedIs
<1>7. ASSUME NEW m \in from..(cutoff - 1) PROVE m \in Covered(Merged(W)) <=> Scheduled(m)
  <2>1. m \in Int
    OBVIOUS
  <2>2. Scheduled(m) <=> \E r \in rules : \E day \in Int : Open(r, day, m)
    BY <2>1, <1>1, ScheduledIs
  <2>3. ASSUME NEW w \in W, m \in Units(w) PROVE Scheduled(m)
    <3>1. PICK r \in rules : w \in Instances(r, from, cutoff)
      BY <1>2
    <3>2. r \in Rules
      BY <1>1
    <3>3. \E day \in Int : Open(r, day, m)
      BY <2>3, <3>1, <3>2, InstancesAre
    <3> QED
      BY <3>3, <2>2
  <2>4. ASSUME Scheduled(m) PROVE \E w \in W : m \in Units(w)
    <3>1. PICK r \in rules : \E day \in Int : Open(r, day, m)
      BY <2>2, <2>4
    <3>2. r \in Rules
      BY <1>1
    <3>3. \E w \in Instances(r, from, cutoff) : m \in Units(w)
      BY <3>1, <3>2, InstancesAre
    <3> QED
      BY <3>3, <1>3
  <2> QED
    BY <2>3, <2>4, <1>6
<1> QED
  BY <1>6, <1>7 DEF W

\* A plan of the first k of the merged windows.
PlannedTo(q, k, merged, from, cutoff) ==
    /\ q \in Windows
    /\ InOrder(q, from, cutoff)
    /\ \A i \in 1..Len(q) : k > 0 /\ q[i][2] <= merged[k][2]
    /\ \A i \in 1..Len(q) : \A m \in from..(q[i][2] - 1) :
          Scheduled(m) => \E j \in 1..i : m \in Units(q[j])
    /\ \A i \in 1..k : \A m \in Units(merged[i]) :
          merged[i][2] < cutoff \/ m <= cutoff - MaxClip => \E j \in 1..Len(q) : m \in Units(q[j])

\* The clips of the next of the merged windows go behind those of the ones before.
LEMMA PlanGrows ==
    ASSUME NEW from \in Int, NEW cutoff \in Int, NEW merged \in Windows, Apart(merged, from, cutoff),
           \A m \in from..(cutoff - 1) : m \in Covered(merged) <=> Scheduled(m),
           NEW k \in Nat, k + 1 <= Len(merged), NEW q, PlannedTo(q, k, merged, from, cutoff)
    PROVE  PlannedTo(q \o Chunks(merged[k + 1], cutoff), k + 1, merged, from, cutoff)
<1> DEFINE w == merged[k + 1]
           c == Chunks(w, cutoff)
           t == q \o c
           n == Len(q)
<1>1. /\ \A i \in 1..Len(merged) : /\ merged[i] \in Int \X Int /\ merged[i][1] \in Int /\ merged[i][2] \in Int
                                   /\ merged[i][1] < merged[i][2] /\ from <= merged[i][1] /\ merged[i][2] <= cutoff
      /\ \A i \in 1..Len(merged) : \A j \in 1..(i - 1) : merged[j][2] < merged[i][1]
      /\ Len(merged) \in Nat /\ k + 1 \in 1..Len(merged)
  <2>1. /\ Len(merged) \in Nat
        /\ \A i \in 1..Len(merged) : merged[i] \in Int \X Int /\ merged[i][1] \in Int /\ merged[i][2] \in Int
    BY WindowsAre
  <2>2. k + 1 \in 1..Len(merged)
    BY <2>1
  <2> QED
    BY <2>1, <2>2 DEF Apart
<1>2. w \in Int \X Int /\ w[1] \in Int /\ w[2] \in Int /\ w[1] < w[2] /\ from <= w[1] /\ w[2] <= cutoff
  BY <1>1
<1> HIDE DEF w
<1>3. /\ c \in Windows
      /\ \A i \in 1..Len(c) : /\ c[i][1] < c[i][2] /\ c[i][2] - c[i][1] <= MaxClip
                              /\ w[1] <= c[i][1] /\ c[i][2] <= w[2]
      /\ \A i \in 1..Len(c) : \A j \in 1..(i - 1) : c[j][2] <= c[i][1]
      /\ \A i \in 1..Len(c) : \A m \in Int :
            w[1] <= m /\ m < c[i][2] => \E j \in 1..i : m \in Units(c[j])
      /\ \A m \in Units(w) : w[2] < cutoff \/ m <= cutoff - MaxClip
            => \E j \in 1..Len(c) : m \in Units(c[j])
  BY <1>2, ChunksAre
<1> HIDE DEF c
<1>4. /\ \A i \in 1..Len(c) : c[i] \in Int \X Int /\ c[i][1] \in Int /\ c[i][2] \in Int
      /\ Len(c) \in Nat
  BY <1>3, WindowsAre
<1>5. /\ q \in Windows /\ n \in Nat
      /\ \A i \in 1..n : q[i] \in Int \X Int /\ q[i][1] \in Int /\ q[i][2] \in Int
      /\ InOrder(q, from, cutoff)
      /\ \A i \in 1..n : k > 0 /\ q[i][2] <= merged[k][2]
      /\ \A i \in 1..n : \A m \in from..(q[i][2] - 1) :
            Scheduled(m) => \E j \in 1..i : m \in Units(q[j])
      /\ \A i \in 1..k : \A m \in Units(merged[i]) :
            merged[i][2] < cutoff \/ m <= cutoff - MaxClip => \E j \in 1..n : m \in Units(q[j])
  <2>1. q \in Windows
    BY DEF PlannedTo
  <2>2. /\ n \in Nat
        /\ \A i \in 1..n : q[i] \in Int \X Int /\ q[i][1] \in Int /\ q[i][2] \in Int
    BY <2>1, WindowsAre
  <2> QED
    BY <2>1, <2>2 DEF PlannedTo
<1>6. /\ t \in Windows /\ Len(t) = n + Len(c)
      /\ \A i \in 1..n : t[i] = q[i] /\ i \in 1..Len(t)
      /\ \A i \in 1..Len(c) : t[n + i] = c[i] /\ n + i \in 1..Len(t)
      /\ \A i \in 1..Len(t) : i \in 1..n \/ (i - n \in 1..Len(c) /\ t[i] = c[i - n])
  <2>1. q \in Seq(Int \X Int) /\ c \in Seq(Int \X Int)
    BY <1>3, <1>5 DEF Windows
  <2> HIDE DEF t, n
  <2> DEFINE I == Int \X Int
  <2>3. q \in Seq(I) /\ c \in Seq(I) /\ Windows = Seq(I)
    BY <2>1 DEF Windows
  <2> HIDE DEF I
  <2>4. /\ q \o c \in Seq(I) /\ Len(q \o c) = Len(q) + Len(c)
        /\ \A i \in 1..Len(q) : (q \o c)[i] = q[i] /\ i \in 1..Len(q \o c)
        /\ \A i \in 1..Len(c) : (q \o c)[Len(q) + i] = c[i] /\ Len(q) + i \in 1..Len(q \o c)
        /\ \A i \in 1..Len(q \o c) :
              i \in 1..Len(q) \/ (i - Len(q) \in 1..Len(c) /\ (q \o c)[i] = c[i - Len(q)])
    BY ONLY <2>3, After, SMTT(30)
  <2>2. /\ t \in Windows /\ Len(t) = Len(q) + Len(c)
        /\ \A i \in 1..Len(q) : t[i] = q[i] /\ i \in 1..Len(t)
        /\ \A i \in 1..Len(c) : t[Len(q) + i] = c[i] /\ Len(q) + i \in 1..Len(t)
        /\ \A i \in 1..Len(t) : i \in 1..Len(q) \/ (i - Len(q) \in 1..Len(c) /\ t[i] = c[i - Len(q)])
    BY ONLY <2>3, <2>4 DEF t
  <2> QED
    BY ONLY <2>2 DEF n
<1> HIDE DEF t, n
\* The last of the windows before begins and ends before this one.
<1>7. \A i \in 1..n : q[i][2] <= w[1] /\ q[i][2] <= w[2]
  <2> SUFFICES ASSUME NEW i \in 1..n PROVE q[i][2] <= w[1] /\ q[i][2] <= w[2]
    OBVIOUS
  <2>1. k \in 1..((k + 1) - 1) /\ k \in 1..Len(merged) /\ q[i][2] <= merged[k][2]
    BY <1>1, <1>5
  <2>2. merged[k][2] < w[1] /\ merged[k][2] \in Int
    BY <2>1, <1>1 DEF w
  <2> QED
    BY <2>1, <2>2, <1>2, <1>5
<1>8. \A m \in Units(w) : Scheduled(m)
  <2> SUFFICES ASSUME NEW m \in Units(w) PROVE Scheduled(m)
    OBVIOUS
  <2>1. m \in Int /\ w[1] <= m /\ m < w[2]
    BY <1>2, UnitsAre
  <2>2. m \in from..(cutoff - 1)
    BY <2>1, <1>2
  <2>3. m \in Covered(merged)
    BY <1>1 DEF Covered, w
  <2> QED
    BY <2>2, <2>3
<1>9. InOrder(t, from, cutoff)
  <2> SUFFICES ASSUME NEW i \in 1..Len(t)
               PROVE  /\ t[i][1] < t[i][2] /\ t[i][2] - t[i][1] <= MaxClip
                      /\ from <= t[i][1] /\ t[i][2] <= cutoff
                      /\ \A m \in Units(t[i]) : Scheduled(m)
                      /\ \A j \in 1..(i - 1) : t[j][2] <= t[i][1]
    BY DEF InOrder
  <2>1. CASE i \in 1..n
    <3>1. \A j \in 1..(i - 1) : j \in 1..n
      BY <2>1, <1>5
    <3>2. t[i] = q[i] /\ \A j \in 1..(i - 1) : t[j] = q[j]
      BY <2>1, <3>1, <1>6
    <3>3. /\ q[i][1] < q[i][2] /\ q[i][2] - q[i][1] <= MaxClip
          /\ from <= q[i][1] /\ q[i][2] <= cutoff
          /\ \A m \in Units(q[i]) : Scheduled(m)
          /\ \A j \in 1..(i - 1) : q[j][2] <= q[i][1]
      BY <2>1, <1>5 DEF InOrder, n
    <3> QED
      BY <3>2, <3>3
  <2>2. CASE i - n \in 1..Len(c) /\ t[i] = c[i - n]
    <3> DEFINE h == i - n
    <3>1. h \in 1..Len(c) /\ t[i] = c[h]
      BY <2>2
    <3> HIDE DEF h
    <3>2. /\ c[h][1] < c[h][2] /\ c[h][2] - c[h][1] <= MaxClip /\ w[1] <= c[h][1] /\ c[h][2] <= w[2]
          /\ c[h] \in Int \X Int /\ c[h][1] \in Int /\ c[h][2] \in Int
      BY <3>1, <1>3, <1>4
    <3>3. from <= c[h][1] /\ c[h][2] <= cutoff
      BY <3>2, <1>2
    <3>4. ASSUME NEW m \in Units(c[h]) PROVE Scheduled(m)
      <4>1. m \in Int /\ c[h][1] <= m /\ m < c[h][2]
        BY <3>2, UnitsAre
      <4>2. w[1] <= m /\ m < w[2]
        BY <4>1, <3>2, <1>2
      <4> QED
        BY <4>1, <4>2, <1>2, <1>8, UnitsAre
    <3>5. ASSUME NEW j \in 1..(i - 1) PROVE t[j][2] <= c[h][1]
      <4>1. j \in 1..Len(t)
        BY <1>5, <1>6, <1>4
      <4>2. CASE j \in 1..n
        <5>1. t[j] = q[j] /\ q[j][2] <= w[1] /\ q[j][2] \in Int
          BY <4>2, <1>5, <1>6, <1>7
        <5>2. w[1] <= c[h][1] /\ w[1] \in Int /\ c[h][1] \in Int
          BY <3>2, <1>2
        <5> QED
          BY ONLY <5>1, <5>2
      <4>3. CASE j - n \in 1..Len(c) /\ t[j] = c[j - n]
        <5>1. j - n \in 1..(h - 1)
          BY <4>3, <1>5 DEF h
        <5> QED
          BY <4>3, <5>1, <3>1, <1>3
      <4> QED
        BY <4>1, <4>2, <4>3, <1>6
    <3> QED
      BY <3>1, <3>2, <3>3, <3>4, <3>5
  <2> QED
    BY <2>1, <2>2, <1>6
<1>10. \A i \in 1..Len(t) : k + 1 > 0 /\ t[i][2] <= merged[k + 1][2]
  <2> SUFFICES ASSUME NEW i \in 1..Len(t) PROVE t[i][2] <= w[2]
    BY DEF w
  <2>1. CASE i \in 1..n
    BY <2>1, <1>6, <1>7
  <2>2. CASE i - n \in 1..Len(c) /\ t[i] = c[i - n]
    BY <2>2, <1>3
  <2> QED
    BY <2>1, <2>2, <1>6
\* What is in a window before this one, which ends before the cutoff, is in a chunk of it.
<1>11. \A i \in 1..k : \A m \in Units(merged[i]) : \E j \in 1..n : m \in Units(q[j])
  <2> SUFFICES ASSUME NEW i \in 1..k, NEW m \in Units(merged[i]) PROVE \E j \in 1..n : m \in Units(q[j])
    OBVIOUS
  <2>1. i \in 1..((k + 1) - 1) /\ i \in 1..Len(merged)
    BY <1>1
  <2>2. merged[i][2] < w[1] /\ merged[i][2] \in Int
    BY <2>1, <1>1 DEF w
  <2>3. merged[i][2] < cutoff
    BY <2>2, <1>2
  <2> QED
    BY <2>3, <1>5
<1>12. ASSUME NEW i \in 1..Len(t), NEW m \in from..(t[i][2] - 1), Scheduled(m)
       PROVE  \E j \in 1..i : m \in Units(t[j])
  <2>1. CASE i \in 1..n
    <3>1. PICK j \in 1..i : m \in Units(q[j])
      BY <2>1, <1>5, <1>6, <1>12
    <3>2. j \in 1..n
      BY <2>1, <1>5
    <3> QED
      BY <3>1, <3>2, <1>6
  <2>2. CASE i - n \in 1..Len(c) /\ t[i] = c[i - n]
    <3> DEFINE h == i - n
    <3>1. h \in 1..Len(c) /\ t[i] = c[h] /\ n + h = i
      BY <2>2, <1>5
    <3> HIDE DEF h
    <3>2. c[h] \in Int \X Int /\ c[h][1] \in Int /\ c[h][2] \in Int /\ c[h][2] <= w[2]
      BY <3>1, <1>3, <1>4
    <3>3. m \in Int /\ from <= m /\ m < c[h][2] /\ m < w[2] /\ m < cutoff
      <4>1. m \in from..(c[h][2] - 1)
        BY <3>1
      <4> QED
        BY <4>1, <3>2, <1>2, SMTT(30)
    <3>4. m \in from..(cutoff - 1)
      BY <3>3
    <3>5. PICK x \in 1..Len(merged) : m \in Units(merged[x])
      BY <3>4, <1>12 DEF Covered
    <3>6. m \in Int /\ merged[x][1] <= m /\ m < merged[x][2]
      BY <3>5, <1>1, UnitsAre
    <3>7. CASE x \in 1..k
      <4>1. PICK j \in 1..n : m \in Units(q[j])
        BY <3>5, <3>7, <1>11
      <4>2. j \in 1..i
        BY <3>1, <1>5
      <4> QED
        BY <4>1, <4>2, <1>6
    <3>8. CASE x = k + 1
      <4>1. w[1] <= m
        BY <3>6, <3>8 DEF w
      <4>2. PICK j \in 1..h : m \in Units(c[j])
        BY <3>1, <3>3, <4>1, <1>3
      <4>3. j \in 1..Len(c) /\ n + j \in 1..i
        <5>1. n \in Nat /\ Len(c) \in Nat
          BY <1>4, <1>5
        <5>2. j \in Nat /\ h \in Nat /\ 1 <= j /\ j <= h /\ h <= Len(c)
          BY <5>1, <3>1
        <5>3. j \in 1..Len(c)
          BY <5>1, <5>2
        <5>4. n + j \in 1..(n + h)
          BY <5>1, <5>2
        <5> QED
          BY <5>3, <5>4, <3>1
      <4> QED
        BY <4>2, <4>3, <1>6
    <3>9. CASE x > k + 1
      <4>1. k + 1 \in 1..(x - 1)
        BY <3>9, <1>1
      <4>2. w[2] < merged[x][1]
        BY <4>1, <1>1 DEF w
      <4> QED
        BY <4>2, <3>3, <3>5, <3>6, <1>1, <1>2
    <3> QED
      BY <3>7, <3>8, <3>9
  <2> QED
    BY <2>1, <2>2, <1>6
<1>13. ASSUME NEW i \in 1..(k + 1), NEW m \in Units(merged[i]), merged[i][2] < cutoff \/ m <= cutoff - MaxClip
       PROVE  \E j \in 1..Len(t) : m \in Units(t[j])
  <2>1. CASE i \in 1..k
    BY <2>1, <1>6, <1>11
  <2>2. CASE i = k + 1
    <3>1. PICK j \in 1..Len(c) : m \in Units(c[j])
      BY <2>2, <1>3, <1>13 DEF w
    <3> QED
      BY <3>1, <1>6
  <2> QED
    BY <2>1, <2>2
<1> QED
  BY <1>6, <1>9, <1>10, <1>12, <1>13 DEF PlannedTo, t, c, w

\* The windows of the merged ones, cut and put one after the other, are planned up to the last.
LEMMA PlannedAll ==
    ASSUME NEW from \in Int, NEW cutoff \in Int, NEW merged \in Windows, Apart(merged, from, cutoff),
           \A m \in from..(cutoff - 1) : m \in Covered(merged) <=> Scheduled(m)
    PROVE  LET t == FlattenSeq([i \in 1..Len(merged) |-> Chunks(merged[i], cutoff)])
           IN  PlannedTo(t, Len(merged), merged, from, cutoff)
<1> DEFINE n == Len(merged)
           seqs == [i \in 1..n |-> Chunks(merged[i], cutoff)]
<1>1. n \in Nat
  BY WindowsAre
<1>2. \A i \in 1..n : merged[i] \in Int \X Int /\ merged[i][1] < merged[i][2] /\ merged[i][2] <= cutoff
  BY WindowsAre DEF Apart
<1>3. \A i \in 1..n : Chunks(merged[i], cutoff) \in Windows
  BY <1>2, ChunksAre
<1>4. seqs \in Seq(Windows) /\ Len(seqs) = n /\ \A i \in 1..n : seqs[i] = Chunks(merged[i], cutoff)
  BY <1>1, <1>3
<1>5. PlannedTo(<<>>, 0, merged, from, cutoff)
  BY DEF PlannedTo, InOrder, Windows
<1> HIDE DEF seqs, n
<1>6. CASE n = 0
  <2>1. seqs = <<>>
    BY <1>4, <1>6
  <2>2. FlattenSeq(seqs) = <<>>
    BY <2>1 DEF FlattenSeq
  <2> QED
    BY <1>5, <1>6, <2>2 DEF seqs, n
<1>7. CASE n # 0
  <2>1. seqs # <<>> /\ Len(seqs) # 0
    BY <1>4, <1>7
  <2>2. \E f : Flattens(f, seqs) /\ f \in [1..Len(seqs) -> Windows]
    BY <1>4, <2>1, SomeFlattens DEF Windows
  <2> DEFINE f == CHOOSE f : Flattens(f, seqs)
  <2>3. Flattens(f, seqs)
    BY <2>2
  <2>4. FlattenSeq(seqs) = f[n]
    BY <1>4, <2>1 DEF FlattenSeq, Flattens
  <2> HIDE DEF f
  <2>5. \A i \in 1..n : f[i] = IF i = 1 THEN seqs[i] ELSE f[i - 1] \o seqs[i]
    BY <1>4, <2>3 DEF Flattens
  <2> DEFINE T == {k \in Nat : k + 1 <= n => PlannedTo(f[k + 1], k + 1, merged, from, cutoff)}
  <2>6. 0 \in T
    <3>1. 1 \in 1..n /\ 0 + 1 <= n
      BY <1>1, <1>7
    <3>2. f[1] = seqs[1] /\ seqs[1] = Chunks(merged[1], cutoff) /\ seqs[1] \in Windows
      BY <3>1, <2>5, <1>3, <1>4
    <3>3. <<>> \o seqs[1] = seqs[1]
      BY <3>2 DEF Windows
    <3>4. PlannedTo(<<>> \o Chunks(merged[0 + 1], cutoff), 0 + 1, merged, from, cutoff)
      BY <3>1, <1>5, PlanGrows DEF n
    <3>5. 0 + 1 = 1
      OBVIOUS
    <3>6. PlannedTo(f[0 + 1], 0 + 1, merged, from, cutoff)
      BY <3>2, <3>3, <3>4, <3>5
    <3> QED
      BY <3>6
  <2>7. ASSUME NEW k \in Nat, k \in T PROVE k + 1 \in T
    <3> SUFFICES ASSUME (k + 1) + 1 <= n
                 PROVE  PlannedTo(f[(k + 1) + 1], (k + 1) + 1, merged, from, cutoff)
      OBVIOUS
    <3>1. k + 1 <= n /\ k + 1 \in Nat /\ (k + 1) + 1 \in 1..n /\ (k + 1) + 1 # 1 /\ ((k + 1) + 1) - 1 = k + 1
      BY <1>1
    <3>2. PlannedTo(f[k + 1], k + 1, merged, from, cutoff)
      BY <2>7, <3>1
    <3>3. f[(k + 1) + 1] = f[k + 1] \o Chunks(merged[(k + 1) + 1], cutoff)
      BY <3>1, <2>5, <1>4
    <3>4. PlannedTo(f[k + 1] \o Chunks(merged[(k + 1) + 1], cutoff), (k + 1) + 1, merged, from, cutoff)
      BY <3>1, <3>2, PlanGrows DEF n
    <3> QED
      BY <3>3, <3>4
  <2> HIDE DEF T
  <2>8. n - 1 \in T
    <3>1. n - 1 \in Nat
      BY <1>1, <1>7
    <3> QED
      BY <3>1, <2>6, <2>7, NumbersFollow
  <2>9. (n - 1) + 1 = n
    BY <1>1
  <2>10. PlannedTo(f[(n - 1) + 1], (n - 1) + 1, merged, from, cutoff)
    BY <1>1, <2>8, <2>9 DEF T
  <2>11. PlannedTo(f[n], n, merged, from, cutoff)
    BY <2>9, <2>10
  <2> QED
    BY <2>4, <2>11 DEF seqs, n
<1> QED
  BY <1>6, <1>7

\* What keep_scheduled asks for is what the rules name, in clips, in order, with nothing passed over:
\* windows_to_keep for any rules, any watermark and any cutoff.
THEOREM PlanIsSound ==
    ASSUME TypeOK, NEW from \in Int, NEW cutoff \in Int
    PROVE  Planned(WindowsToKeep(from, cutoff), from, cutoff)
<1>1. CASE cutoff <= from
  <2>1. WindowsToKeep(from, cutoff) = <<>>
    BY <1>1 DEF WindowsToKeep
  <2>2. from..(cutoff - 1) = {}
    BY <1>1
  <2> QED
    BY <2>1, <2>2 DEF Planned, InOrder
<1>2. CASE ~(cutoff <= from)
  <2> DEFINE merged == Merged(UNION {Instances(r, from, cutoff) : r \in rules})
             t == FlattenSeq([i \in 1..Len(merged) |-> Chunks(merged[i], cutoff)])
             n == Len(merged)
  <2>1. /\ merged \in Windows /\ Apart(merged, from, cutoff)
        /\ \A m \in from..(cutoff - 1) : m \in Covered(merged) <=> Scheduled(m)
    BY MergedAreScheduled
  <2>2. WindowsToKeep(from, cutoff) = t
    BY <1>2 DEF WindowsToKeep
  <2> HIDE DEF merged
  <2>3. PlannedTo(t, n, merged, from, cutoff)
    BY <2>1, PlannedAll
  <2> HIDE DEF t
  <2>4. /\ n \in Nat
        /\ \A i \in 1..n : /\ merged[i] \in Int \X Int /\ merged[i][1] \in Int /\ merged[i][2] \in Int
                           /\ merged[i][1] < merged[i][2] /\ from <= merged[i][1] /\ merged[i][2] <= cutoff
    BY <2>1, WindowsAre DEF Apart
  <2> HIDE DEF n
  <2>5. ASSUME NEW m \in from..(cutoff - 1), Wanted(m, cutoff)
        PROVE  \E j \in 1..Len(t) : m \in Units(t[j])
    <3>1. Scheduled(m) /\ (m <= cutoff - MaxClip \/ \E e \in m..(cutoff - 1) : ~Scheduled(e))
      BY <2>5 DEF Wanted
    <3>2. PICK i \in 1..n : m \in Units(merged[i])
      BY <3>1, <2>1 DEF Covered, n
    <3>3. m \in Int /\ merged[i][1] <= m /\ m < merged[i][2] /\ merged[i][2] <= cutoff
          /\ merged[i][1] \in Int /\ merged[i][2] \in Int /\ from <= merged[i][1]
      BY <3>2, <2>4, UnitsAre
    <3>4. merged[i][2] < cutoff \/ m <= cutoff - MaxClip
      <4> SUFFICES ASSUME merged[i][2] = cutoff PROVE m <= cutoff - MaxClip
        BY <3>3
      <4>1. ASSUME NEW e \in m..(cutoff - 1) PROVE Scheduled(e)
        <5>1. e \in Int /\ merged[i][1] <= e /\ e < merged[i][2]
          BY <3>3
        <5>2. e \in Units(merged[i])
          BY <5>1, <2>4, UnitsAre
        <5>3. e \in Covered(merged)
          BY <5>2 DEF Covered, n
        <5>4. e \in from..(cutoff - 1)
          BY <5>1, <3>3
        <5> QED
          BY <5>3, <5>4, <2>1
      <4> QED
        BY <3>1, <4>1
    <3> QED
      BY <3>2, <3>4, <2>3 DEF PlannedTo
  <2> QED
    BY <2>2, <2>3, <2>5 DEF Planned, PlannedTo, Windows
<1> QED
  BY <1>1, <1>2

-----------------------------------------------------------------------------
(* The schedule: what was asked for, and what is still to be.              *)

\* What is planned and kept of a schedule.
ScheduleKinds ==
    /\ since \in Int /\ since <= now
    /\ through \in Int \cup {Never}
    /\ asked \subseteq Int
    /\ watermark # Never => watermark <= now

\* A pass is at its schedule.
InPass == at \in {"schedule", "mark"}

\* What was asked for is behind the watermark, or the watermark was not written.
Behind ==
    /\ \A m \in asked \ redo :
          \/ watermark # Never /\ m < watermark
          \/ at = "mark" /\ m \in Units(Head(todo))
    /\ at = "mark" => Units(Head(todo)) \subseteq asked

\* What the rules name and the watermark has passed was asked for.
Passed ==
    watermark # Never => \A m \in since..(watermark - 1) : Scheduled(m) => m \in asked

\* So was, or is about to be, what lies before the end of a chunk of this pass.
Ahead ==
    InPass =>
        \A i \in 1..Len(todo) : \A m \in since..(todo[i][2] - 1) :
            Scheduled(m) => m \in asked \/ \E j \in 1..i : m \in Units(todo[j])

\* And what was wanted by the last cutoff.
Reached ==
    through # Never =>
        \A m \in since..(through - 1) :
            Wanted(m, through) =>
                m \in asked \/ (InPass /\ \E j \in 1..Len(todo) : m \in Units(todo[j]))

\* The chunks of a pass do not overlap.
Spaced ==
    InPass => \A i \in 1..Len(todo) : \A j \in 1..(i - 1) : todo[j][2] <= todo[i][1]

\* What holds of the schedule between any two steps.
ScheduleInv ==
    /\ ScheduleKinds
    /\ twice \subseteq redo
    /\ Behind /\ Passed /\ Ahead /\ Reached
    /\ Spaced /\ ChunksAreSound

\* Counting an event keeps the count in range.
LEMMA EventsCounted ==
    ASSUME TypeOK, NEW eventful \in BOOLEAN, Happens(eventful) PROVE events' \in 0..MaxEvents
  BY Constants DEF TypeOK, Happens

\* What is scheduled hangs on the rules alone.
LEMMA ScheduledSame == ASSUME rules' = rules PROVE \A m : Scheduled(m)' = Scheduled(m)
  BY DEF Scheduled

\* So is what is wanted.
LEMMA WantedSame ==
    ASSUME rules' = rules PROVE \A m, until : Wanted(m, until)' = Wanted(m, until)
  BY DEF Scheduled, Wanted

\* The schedule's part of each step.
SameSchedule == UNCHANGED <<rules, watermark, since, through, asked, twice, redo>>

\* The plan: what is between the watermark, or how far back the ring is looked into, and the cutoff.
LEMMA PlanScheduleStep ==
    ASSUME TypeOK, ScheduleInv, PlanSchedule PROVE ScheduleInv'
<1> DEFINE cutoff == now - Lag
           mark == IF watermark = Never THEN now - CatchUp ELSE watermark
           from == Later(mark, cutoff - CatchUp)
<1>1. now \in Nat /\ cutoff \in Int /\ cutoff <= now /\ mark \in Int /\ cutoff - CatchUp \in Int
  BY Constants DEF TypeOK
<1>2. /\ from \in Int /\ (watermark # Never => watermark <= from)
  BY <1>1 DEF Later
<1>3. /\ todo' = WindowsToKeep(from, cutoff) /\ through' = cutoff /\ at' = "schedule"
      /\ since' = IF from = watermark THEN since ELSE Later(since, from)
      /\ UNCHANGED <<now, rules, watermark, asked, twice, redo>>
      /\ at = "incidents"
  BY DEF PlanSchedule, clockVars, siteVars
<1> DEFINE plan == WindowsToKeep(from, cutoff)
<1>4. Planned(plan, from, cutoff)
  BY <1>1, <1>2, PlanIsSound
<1>5. /\ since \in Int /\ since <= now /\ through \in Int \cup {Never} /\ asked \subseteq Int
      /\ watermark # Never => watermark <= now
  BY DEF ScheduleInv, ScheduleKinds
<1>6. since' \in Int /\ since <= since' /\ (from # watermark => from <= since') /\ since' <= now
      /\ (from = watermark => since' = since)
  <2>1. mark <= now /\ cutoff - CatchUp <= now
    BY <1>1, <1>5, Constants DEF TypeOK
  <2>2. from <= now
    <3> HIDE DEF mark, cutoff
    <3> QED
      BY <2>1 DEF Later
  <2> HIDE DEF from
  <2> QED
    BY <2>2, <1>2, <1>3, <1>5 DEF Later
<1> HIDE DEF plan, from, cutoff, mark
<1>7. /\ todo' = plan /\ plan \in Seq(Int \X Int)
  BY <1>3, <1>4 DEF Planned, plan
<1>8. Len(plan) \in Nat /\ \A i \in 1..Len(plan) : plan[i] \in Int \X Int /\ plan[i][1] \in Int /\ plan[i][2] \in Int
  BY <1>7
<1>9. /\ \A m : Scheduled(m)' = Scheduled(m)
      /\ \A m, until : Wanted(m, until)' = Wanted(m, until)
  BY <1>3, ScheduledSame, WantedSame
<1>10. ScheduleKinds'
  BY <1>1, <1>3, <1>5, <1>6 DEF ScheduleKinds
<1>11. (twice \subseteq redo)'
  BY <1>3 DEF ScheduleInv
<1>12. Behind'
  <2>1. \A m \in asked \ redo : watermark # Never /\ m < watermark
    BY <1>3 DEF ScheduleInv, Behind
  <2> QED
    BY <1>3, <2>1 DEF Behind
\* Before the plan begins, the watermark has passed it, or it is older than is asked for.
<1>13. \A m \in Int : (since' <= m /\ m < from /\ Scheduled(m)) => m \in asked
  <2> SUFFICES ASSUME NEW m \in Int, since' <= m, m < from, Scheduled(m) PROVE m \in asked
    OBVIOUS
  <2>1. from = watermark
    BY <1>6, <1>2
  <2>2. watermark # Never /\ watermark \in Int /\ since' = since
    BY <2>1, <1>2, <1>6, Constants
  <2>3. m \in since..(watermark - 1)
    BY <2>1, <2>2, <1>5
  <2> QED
    BY <2>2, <2>3 DEF ScheduleInv, Passed
<1>14. Passed'
  <2> SUFFICES ASSUME watermark # Never, NEW m \in since'..(watermark - 1), Scheduled(m) PROVE m \in asked
    BY <1>3, <1>9 DEF Passed
  <2>1. watermark \in Int
    BY DEF TypeOK
  <2>2. m \in Int /\ since' <= m /\ m < from
    BY <2>1, <1>2, <1>6
  <2> QED
    BY <2>2, <1>13
<1>15. Ahead'
  <2> SUFFICES ASSUME NEW i \in 1..Len(plan), NEW m \in since'..(plan[i][2] - 1), Scheduled(m), m \notin asked
               PROVE  \E j \in 1..i : m \in Units(plan[j])
    BY <1>3, <1>7, <1>9 DEF Ahead, InPass
  <2>1. m \in Int /\ since' <= m /\ m < plan[i][2]
    BY <1>6, <1>8
  <2>2. ~(m < from)
    BY <2>1, <1>13
  <2>3. m \in from..(plan[i][2] - 1)
    BY <2>1, <2>2, <1>2, <1>8
  <2> QED
    BY <2>3, <1>4 DEF Planned
<1>16. Reached'
  <2> SUFFICES ASSUME NEW m \in since'..(cutoff - 1), Wanted(m, cutoff), m \notin asked
               PROVE  \E j \in 1..Len(plan) : m \in Units(plan[j])
    BY <1>3, <1>7, <1>9 DEF Reached, InPass
  <2>1. m \in Int /\ since' <= m /\ m < cutoff /\ Scheduled(m)
    BY <1>1, <1>6 DEF Wanted
  <2>2. ~(m < from)
    BY <2>1, <1>13
  <2>3. m \in from..(cutoff - 1)
    BY <2>1, <2>2, <1>1, <1>2
  <2> QED
    BY <2>3, <1>4 DEF Planned
<1>17. ChunksAreSound'
  <2>1. InOrder(plan, from, cutoff)
    BY <1>4 DEF Planned
  <2>2. \A i \in 1..Len(plan) : watermark # Never => watermark <= plan[i][1]
    <3> SUFFICES ASSUME NEW i \in 1..Len(plan), watermark # Never PROVE watermark <= plan[i][1]
      OBVIOUS
    <3>1. from <= plan[i][1] /\ watermark <= from /\ watermark \in Int
      BY <2>1, <1>2 DEF InOrder, TypeOK
    <3> QED
      BY <3>1, <1>2, <1>8
  <2>3. cutoff = now - Lag
    BY DEF cutoff
  <2>4. \A i \in 1..Len(plan) : i > 1 => i - 1 \in 1..(i - 1)
    BY <1>8
  <2>5. \A i \in 1..Len(plan) : i > 1 => plan[i - 1][2] <= plan[i][1]
    BY <2>1, <2>4 DEF InOrder
  <2> QED
    BY <2>1, <2>2, <2>3, <2>5, <1>3, <1>7, <1>9 DEF ChunksAreSound, InOrder
<1>18. Spaced'
  BY <1>3, <1>4, <1>7 DEF Spaced, Planned, InOrder
<1> QED
  BY <1>10, <1>18, <1>11, <1>12, <1>14, <1>15, <1>16, <1>17 DEF ScheduleInv

\* A chunk is asked for.
LEMMA KeepScheduledStep ==
    ASSUME TypeOK, ScheduleInv, KeepScheduled PROVE ScheduleInv'
<1>1. /\ at = "schedule" /\ todo # <<>> /\ at' = "mark"
      /\ twice' = twice \cup (asked \cap Units(Head(todo)))
      /\ asked' = asked \cup Units(Head(todo))
      /\ UNCHANGED <<now, rules, watermark, todo, since, through, redo>>
  BY DEF KeepScheduled, clockVars, siteVars
<1>2. todo \in Seq(Int \X Int)
  BY <1>1 DEF TypeOK
<1>3. Head(todo) = todo[1] /\ todo[1] \in Int \X Int /\ 1 \in 1..Len(todo)
  BY <1>1, <1>2, TailIs
<1>4. /\ \A m : Scheduled(m)' = Scheduled(m)
      /\ \A m, until : Wanted(m, until)' = Wanted(m, until)
  BY <1>1, ScheduledSame, WantedSame
<1>5. asked \subseteq asked' /\ Units(Head(todo)) \subseteq asked'
  BY <1>1
<1>6. Units(Head(todo)) \subseteq Int
  BY <1>3 DEF Units
<1>7. ScheduleKinds'
  BY <1>1, <1>6 DEF ScheduleInv, ScheduleKinds
\* What is asked for again is a chunk whose watermark was not written: the rest is behind it.
<1>8. (twice \subseteq redo)'
  <2> SUFFICES ASSUME NEW m \in asked, m \in Units(Head(todo)), m \notin redo PROVE FALSE
    BY <1>1 DEF ScheduleInv
  <2>1. watermark # Never /\ m < watermark
    BY <1>1 DEF ScheduleInv, Behind
  <2>2. watermark <= todo[1][1] /\ watermark \in Int
    BY <2>1, <1>1, <1>3 DEF ScheduleInv, ChunksAreSound, TypeOK
  <2>3. todo[1][1] <= m /\ m \in Int
    BY <1>3, <1>6 DEF Units
  <2> QED
    BY <2>1, <2>2, <2>3, <1>3
<1>9. Behind'
  <2>1. \A m \in asked \ redo : watermark # Never /\ m < watermark
    BY <1>1 DEF ScheduleInv, Behind
  <2> QED
    BY <1>1, <2>1 DEF Behind
<1>10. Passed'
  BY <1>1, <1>4, <1>5 DEF ScheduleInv, Passed
<1>11. Ahead'
  BY <1>1, <1>4, <1>5 DEF ScheduleInv, Ahead, InPass
<1>12. Reached'
  BY <1>1, <1>4, <1>5 DEF ScheduleInv, Reached, InPass
<1>13. ChunksAreSound'
  BY <1>1, <1>4 DEF ScheduleInv, ChunksAreSound
<1>14. Spaced'
  BY <1>1 DEF ScheduleInv, Spaced, InPass
<1> QED
  BY <1>7, <1>14, <1>8, <1>9, <1>10, <1>11, <1>12, <1>13 DEF ScheduleInv

\* And its watermark is written, or not.
LEMMA MarkStep ==
    ASSUME TypeOK, ScheduleInv, NEW saved \in BOOLEAN, Mark(saved) PROVE ScheduleInv'
<1>1. /\ at = "mark" /\ at' = "schedule" /\ todo' = Tail(todo) /\ todo # <<>>
      /\ UNCHANGED <<now, rules, since, through, asked, twice>>
  BY DEF Mark, clockVars, siteVars, TypeOK
<1>2. \/ watermark' = Head(todo)[2] /\ redo' = redo
      \/ redo' = redo \cup Units(Head(todo)) /\ watermark' = watermark
  BY DEF Mark
<1>3. todo \in Seq(Int \X Int)
  BY <1>1 DEF TypeOK
<1>4. /\ Head(todo) = todo[1] /\ todo[1] \in Int \X Int /\ Len(todo) \in Nat \ {0} /\ 1 \in 1..Len(todo)
      /\ Tail(todo) \in Seq(Int \X Int) /\ Len(Tail(todo)) = Len(todo) - 1
      /\ \A i \in 1..(Len(todo) - 1) : Tail(todo)[i] = todo[i + 1] /\ i + 1 \in 1..Len(todo)
  BY <1>1, <1>3, TailIs
<1>5. /\ \A m : Scheduled(m)' = Scheduled(m)
      /\ \A m, until : Wanted(m, until)' = Wanted(m, until)
  BY <1>1, ScheduledSame, WantedSame
<1>6. /\ todo[1][1] \in Int /\ todo[1][2] \in Int /\ todo[1][1] < todo[1][2]
      /\ todo[1][2] <= now - Lag /\ (watermark # Never => watermark <= todo[1][1])
      /\ now \in Nat
  BY <1>1, <1>4 DEF ScheduleInv, ChunksAreSound, TypeOK
<1>7. Units(Head(todo)) \subseteq asked
  BY <1>1 DEF ScheduleInv, Behind
<1>8. ScheduleKinds'
  <2>1. todo[1][2] <= now
    BY <1>6, Constants
  <2> QED
    BY <2>1, <1>1, <1>2, <1>4 DEF ScheduleInv, ScheduleKinds
<1>9. (twice \subseteq redo)'
  BY <1>1, <1>2 DEF ScheduleInv
<1>10. Behind'
  <2> SUFFICES ASSUME NEW m \in asked, m \notin redo' PROVE watermark' # Never /\ m < watermark'
    BY <1>1 DEF Behind
  <2>1. m \in Int /\ m \notin redo
    BY <1>2 DEF ScheduleInv, ScheduleKinds
  <2>2. \/ watermark # Never /\ m < watermark
        \/ m \in Units(Head(todo))
    BY <2>1, <1>1 DEF ScheduleInv, Behind
  <2>3. CASE watermark' = Head(todo)[2]
    <3>1. m < todo[1][2]
      <4>1. CASE watermark # Never /\ m < watermark
        <5>1. watermark \in Int
          BY <4>1 DEF TypeOK
        <5> QED
          BY <4>1, <5>1, <2>1, <1>6
      <4>2. CASE m \in Units(Head(todo))
        BY <4>2, <1>4, <1>6 DEF Units
      <4> QED
        BY <4>1, <4>2, <2>2
    <3> QED
      BY <3>1, <2>3, <1>4, <1>6, Constants
  <2>4. CASE redo' = redo \cup Units(Head(todo)) /\ watermark' = watermark
    BY <2>2, <2>4
  <2> QED
    BY <2>3, <2>4, <1>2
<1>11. Passed'
  <2>1. CASE watermark' = watermark
    BY <2>1, <1>1, <1>5 DEF ScheduleInv, Passed
  <2>2. CASE watermark' = Head(todo)[2]
    <3> SUFFICES ASSUME NEW m \in since..(todo[1][2] - 1), Scheduled(m) PROVE m \in asked
      BY <2>2, <1>1, <1>4, <1>5 DEF Passed
    <3>1. m \in asked \/ \E j \in 1..1 : m \in Units(todo[j])
      BY <1>1, <1>4 DEF ScheduleInv, Ahead, InPass
    <3> QED
      BY <3>1, <1>4, <1>7
  <2> QED
    BY <2>1, <2>2, <1>2
\* The chunk that goes was asked for; the others are a place further on.
<1>12. \A n \in 1..Len(todo) : \A m : (\E j \in 1..n : m \in Units(todo[j]))
          => m \in asked \/ \E j \in 1..(n - 1) : m \in Units(Tail(todo)[j])
  <2> SUFFICES ASSUME NEW n \in 1..Len(todo), NEW m, NEW j \in 1..n, m \in Units(todo[j]), m \notin asked
               PROVE  \E k \in 1..(n - 1) : m \in Units(Tail(todo)[k])
    OBVIOUS
  <2>1. j # 1
    BY <1>4, <1>7
  <2>2. j - 1 \in 1..(n - 1) /\ j - 1 \in 1..(Len(todo) - 1) /\ (j - 1) + 1 = j
    BY <2>1, <1>4
  <2>3. Tail(todo)[j - 1] = todo[j]
    BY <2>2, <1>4
  <2> QED
    BY <2>2, <2>3
<1>13. Ahead'
  <2> SUFFICES ASSUME NEW i \in 1..Len(Tail(todo)), NEW m \in since..(Tail(todo)[i][2] - 1), Scheduled(m),
                      m \notin asked
               PROVE  \E j \in 1..i : m \in Units(Tail(todo)[j])
    BY <1>1, <1>5 DEF Ahead, InPass
  <2>1. Tail(todo)[i] = todo[i + 1] /\ i + 1 \in 1..Len(todo) /\ (i + 1) - 1 = i
    BY <1>4
  <2>2. m \in since..(todo[i + 1][2] - 1)
    BY <2>1
  <2>3. \E j \in 1..(i + 1) : m \in Units(todo[j])
    BY <2>1, <2>2, <1>1 DEF ScheduleInv, Ahead, InPass
  <2> QED
    BY <2>1, <2>3, <1>12
<1>14. Reached'
  <2> SUFFICES ASSUME through # Never, NEW m \in since..(through - 1), Wanted(m, through), m \notin asked
               PROVE  \E j \in 1..Len(Tail(todo)) : m \in Units(Tail(todo)[j])
    BY <1>1, <1>5 DEF Reached, InPass
  <2>1. \E j \in 1..Len(todo) : m \in Units(todo[j])
    BY <1>1 DEF ScheduleInv, Reached, InPass
  <2>2. Len(todo) \in 1..Len(todo)
    BY <1>4
  <2> QED
    BY <2>1, <2>2, <1>4, <1>12
<1>15. ChunksAreSound'
  <2> SUFFICES ASSUME NEW i \in 1..Len(Tail(todo))
               PROVE  /\ todo[i + 1][1] < todo[i + 1][2] /\ todo[i + 1][2] - todo[i + 1][1] <= MaxClip
                      /\ todo[i + 1][2] <= now - Lag
                      /\ \A m \in Units(todo[i + 1]) : Scheduled(m)
                      /\ watermark' # Never => watermark' <= todo[i + 1][1]
                      /\ i > 1 => Tail(todo)[i - 1][2] <= todo[i + 1][1]
    <3>1. \A i \in 1..Len(Tail(todo)) : Tail(todo)[i] = todo[i + 1]
      BY <1>4
    <3> QED
      BY <3>1, <1>1, <1>5 DEF ChunksAreSound
  <2>1. i + 1 \in 1..Len(todo) /\ i + 1 > 1 /\ (i + 1) - 1 = i /\ 1 \in 1..i /\ i \in 1..((i + 1) - 1)
    BY <1>4
  <2>2. /\ todo[i + 1][1] < todo[i + 1][2] /\ todo[i + 1][2] - todo[i + 1][1] <= MaxClip
        /\ todo[i + 1][2] <= now - Lag
        /\ \A m \in Units(todo[i + 1]) : Scheduled(m)
        /\ watermark # Never => watermark <= todo[i + 1][1]
        /\ todo[i][2] <= todo[i + 1][1]
    BY <2>1, <1>1 DEF ScheduleInv, ChunksAreSound
  <2>3. todo[1][2] <= todo[i + 1][1]
    BY <2>1, <1>1 DEF ScheduleInv, Spaced, InPass
  <2>4. i > 1 => Tail(todo)[i - 1] = todo[i]
    <3>1. i > 1 => i - 1 \in 1..(Len(todo) - 1) /\ (i - 1) + 1 = i
      BY <1>4
    <3> QED
      BY <3>1, <1>4
  <2> QED
    BY <2>2, <2>3, <2>4, <1>2, <1>4
<1>16. Spaced'
  <2> SUFFICES ASSUME NEW i \in 1..Len(Tail(todo)), NEW j \in 1..(i - 1)
               PROVE  Tail(todo)[j][2] <= Tail(todo)[i][1]
    BY <1>1 DEF Spaced
  <2>1. i + 1 \in 1..Len(todo) /\ j + 1 \in 1..((i + 1) - 1) /\ j \in 1..(Len(todo) - 1) /\ i \in 1..(Len(todo) - 1)
    BY <1>4
  <2> QED
    BY <2>1, <1>1, <1>4 DEF ScheduleInv, Spaced, InPass
<1> QED
  BY <1>8, <1>9, <1>10, <1>11, <1>13, <1>14, <1>15, <1>16 DEF ScheduleInv

\* The clock, the camera and the incidents' part of a pass leave the schedule alone.
LEMMA ScheduleWaits ==
    ASSUME TypeOK, ScheduleInv, SameSchedule, ~InPass, at' \in {"asleep", "incidents"},
           now' \in Nat, now <= now'
    PROVE  ScheduleInv'
<1>1. /\ UNCHANGED <<rules, watermark, since, through, asked, twice, redo>>
      /\ at \notin {"schedule", "mark"} /\ at' \notin {"schedule", "mark"}
  BY DEF SameSchedule, InPass
<1>2. /\ \A m : Scheduled(m)' = Scheduled(m)
      /\ \A m, until : Wanted(m, until)' = Wanted(m, until)
  BY <1>1, ScheduledSame, WantedSame
<1>3. ScheduleKinds'
  BY <1>1 DEF ScheduleInv, ScheduleKinds, TypeOK
<1>4. Behind' /\ Passed' /\ Ahead' /\ Reached'
  BY <1>1, <1>2 DEF ScheduleInv, Behind, Passed, Ahead, Reached, InPass
<1>5. Spaced' /\ ChunksAreSound' /\ (twice \subseteq redo)'
  BY <1>1 DEF ScheduleInv, Spaced, ChunksAreSound, InPass
<1> QED
  BY <1>3, <1>4, <1>5 DEF ScheduleInv

\* A change of the rules begins a new count, of what is from now on.
LEMMA FetchPolicyStep ==
    ASSUME TypeOK, ScheduleInv, NEW policy \in Policies, FetchPolicy(policy) PROVE ScheduleInv'
<1>1. /\ at = "asleep" /\ at' = "asleep" /\ since' = now /\ through' = Never /\ now' = now
      /\ UNCHANGED <<watermark, asked, twice, redo>>
      /\ now \in Nat /\ watermark \in Int \cup {Never}
  BY DEF FetchPolicy, clockVars, siteVars, TypeOK
<1>2. ScheduleKinds'
  BY <1>1 DEF ScheduleInv, ScheduleKinds
<1>3. Passed'
  <2>1. watermark # Never => watermark <= now
    BY DEF ScheduleInv, ScheduleKinds
  <2>2. watermark # Never => now..(watermark - 1) = {}
    BY <1>1, <2>1
  <2> QED
    BY <1>1, <2>2 DEF Passed
<1>4. Behind' /\ Ahead' /\ Reached'
  BY <1>1 DEF ScheduleInv, Behind, Ahead, Reached, InPass
<1>5. Spaced' /\ ChunksAreSound' /\ (twice \subseteq redo)'
  BY <1>1 DEF ScheduleInv, Spaced, ChunksAreSound, InPass
<1> QED
  BY <1>2, <1>3, <1>4, <1>5 DEF ScheduleInv

\* A restart keeps the watermark, and nothing of the pass.
LEMMA RestartStep ==
    ASSUME TypeOK, ScheduleInv, Restart PROVE ScheduleInv'
<1>1. /\ redo' = IF at = "mark" THEN redo \cup Units(Head(todo)) ELSE redo
      /\ at' = "asleep" /\ through' = Never
      /\ UNCHANGED <<now, rules, watermark, since, asked, twice>>
  BY DEF Restart, clockVars
<1>2. \A m : Scheduled(m)' = Scheduled(m)
  BY <1>1, ScheduledSame
<1>3. ScheduleKinds' /\ redo \subseteq redo'
  BY <1>1 DEF ScheduleInv, ScheduleKinds
<1>4. Behind'
  BY <1>1 DEF ScheduleInv, Behind
<1>5. Passed' /\ Ahead' /\ Reached'
  BY <1>1, <1>2 DEF ScheduleInv, Passed, Ahead, Reached, InPass
<1>6. Spaced' /\ ChunksAreSound' /\ (twice \subseteq redo)'
  BY <1>1, <1>3 DEF ScheduleInv, Spaced, ChunksAreSound, InPass
<1> QED
  BY <1>3, <1>4, <1>5, <1>6 DEF ScheduleInv

\* A pass whose chunks are all behind it ends.
LEMMA EndPassStep ==
    ASSUME TypeOK, ScheduleInv, EndPass PROVE ScheduleInv'
<1>1. /\ at = "schedule" /\ todo = <<>> /\ at' = "asleep"
      /\ UNCHANGED <<now, rules, watermark, since, through, asked, twice, redo>>
  BY DEF EndPass, clockVars, siteVars, history
<1>2. /\ \A m : Scheduled(m)' = Scheduled(m)
      /\ \A m, until : Wanted(m, until)' = Wanted(m, until)
  BY <1>1, ScheduledSame, WantedSame
<1>3. ScheduleKinds'
  BY <1>1 DEF ScheduleInv, ScheduleKinds
<1>4. Behind' /\ Passed' /\ Ahead'
  BY <1>1, <1>2 DEF ScheduleInv, Behind, Passed, Ahead, InPass
<1>5. Reached'
  <2>1. Len(todo) = 0
    BY <1>1
  <2>2. ~ \E j \in 1..Len(todo) : TRUE
    BY <2>1
  <2> QED
    BY <1>1, <1>2, <2>2 DEF ScheduleInv, Reached, InPass
<1>6. Spaced' /\ ChunksAreSound' /\ (twice \subseteq redo)'
  BY <1>1 DEF ScheduleInv, Spaced, ChunksAreSound, InPass
<1> QED
  BY <1>3, <1>4, <1>5, <1>6 DEF ScheduleInv

\* So each step keeps what holds of the schedule.
LEMMA ScheduleStep ==
    ASSUME TypeOK, ScheduleInv, Next PROVE ScheduleInv'
<1>0. now \in Nat
  BY DEF TypeOK
<1>1. ASSUME NEW crossed \in BOOLEAN, NEW status, BeginPass(crossed, status) PROVE ScheduleInv'
  <2>1. SameSchedule /\ at = "asleep" /\ at' = "incidents" /\ now' = now
    BY <1>1 DEF BeginPass, SameSchedule, clockVars
  <2> QED
    BY <1>0, <2>1, ScheduleWaits DEF InPass
<1>2. CASE KeepIncident
  <2>1. SameSchedule /\ at = "incidents" /\ at' = at /\ now' = now
    BY <1>2 DEF KeepIncident, SameSchedule, clockVars
  <2> QED
    BY <1>0, <2>1, ScheduleWaits DEF InPass
<1>3. CASE Tick
  <2>1. SameSchedule /\ at \in {"asleep", "incidents"} /\ at' = at /\ now' = now + 1
    BY <1>3 DEF Tick, SameSchedule, history
  <2> QED
    BY <1>0, <2>1, ScheduleWaits DEF InPass
<1>4. ASSUME NEW state, CameraChanges(state) PROVE ScheduleInv'
  <2>1. SameSchedule /\ at = "asleep" /\ at' = at /\ now' = now
    BY <1>4 DEF CameraChanges, SameSchedule, history
  <2> QED
    BY <1>0, <2>1, ScheduleWaits DEF InPass
<1> QED
  BY <1>1, <1>2, <1>3, <1>4, PlanScheduleStep, KeepScheduledStep, MarkStep, EndPassStep, FetchPolicyStep,
     RestartStep DEF Next

-----------------------------------------------------------------------------
(* The incidents: what is owed, and what is due.                           *)

\* When a keep was decided on.
Decided(keep) == IF keep.why = "back" THEN keep.from ELSE keep.from + Pre

\* And of the incidents: with WhatIsWantedIsKept, when what is owed was decided on.
IncidentInv ==
    /\ began # Never => began <= now
    /\ \A i \in 1..Len(owed) : began # Never /\ Decided(owed[i]) <= began
    /\ IncidentsAreKept

\* What Retained walks through.
Walks(f, m, keeps, places) ==
    f = [i \in 0 .. m |->
            IF i = 0 THEN <<>>
            ELSE IF i \in places THEN Append(f[i - 1], keeps[i])
            ELSE f[i - 1]]

\* There is such a walk, so it is what the recursion of Retained is.
LEMMA SomeWalk ==
    ASSUME NEW keeps, NEW places, NEW m \in Nat
    PROVE  \E f : Walks(f, m, keeps, places)
<1> DEFINE T == {n \in Nat : \E f : Walks(f, n, keeps, places)}
<1>1. 0 \in T
  <2> DEFINE f == [i \in 0 .. 0 |-> <<>>]
  <2>1. Walks(f, 0, keeps, places)
    BY DEF Walks
  <2> QED
    BY <2>1
<1>2. ASSUME NEW n \in Nat, n \in T PROVE n + 1 \in T
  <2>1. PICK f : Walks(f, n, keeps, places)
    BY <1>2
  <2> DEFINE last == IF n + 1 \in places THEN Append(f[n], keeps[n + 1]) ELSE f[n]
             g == [i \in 0 .. n + 1 |-> IF i = n + 1 THEN last ELSE f[i]]
  <2>2. \A i \in 0 .. n : f[i] = IF i = 0 THEN <<>>
                                 ELSE IF i \in places THEN Append(f[i - 1], keeps[i])
                                 ELSE f[i - 1]
    BY <2>1 DEF Walks
  <2>3. \A i \in 0 .. n + 1 :
           g[i] = IF i = 0 THEN <<>>
                  ELSE IF i \in places THEN Append(g[i - 1], keeps[i])
                  ELSE g[i - 1]
    <3> SUFFICES ASSUME NEW i \in 0 .. n + 1
                 PROVE  g[i] = IF i = 0 THEN <<>>
                               ELSE IF i \in places THEN Append(g[i - 1], keeps[i])
                               ELSE g[i - 1]
      OBVIOUS
    <3>1. CASE i = n + 1
      <4>1. g[i] = last /\ g[i - 1] = f[n] /\ i # 0
        BY <3>1
      <4> QED
        BY <3>1, <4>1
    <3>2. CASE i # n + 1
      <4>1. i \in 0 .. n /\ g[i] = f[i] /\ (i # 0 => i - 1 \in 0 .. n /\ g[i - 1] = f[i - 1])
        BY <3>2
      <4> HIDE DEF g
      <4> QED
        BY <4>1, <2>2
    <3> QED
      BY <3>1, <3>2
  <2>4. Walks(g, n + 1, keeps, places)
    <3>1. g = [i \in 0 .. n + 1 |-> g[i]]
      OBVIOUS
    <3> HIDE DEF g
    <3> QED
      BY <2>3, <3>1 DEF Walks
  <2> HIDE DEF g
  <2> QED
    BY <2>4
<1> HIDE DEF T
<1>3. Nat \subseteq T
  BY <1>1, <1>2, NumbersFollow
<1> QED
  BY <1>3 DEF T

\* Where the retained keeps come from: each from its place, in the order of the places, and none
\* that was at one of them is missing.
Drawn(pos, q, n, keeps, places) ==
    /\ pos \in [1 .. Len(q) -> 1 .. n]
    /\ \A k \in 1 .. Len(q) : pos[k] \in places /\ q[k] = keeps[pos[k]]
    /\ \A k, l \in 1 .. Len(q) : k < l => pos[k] < pos[l]
    /\ \A i \in 1 .. n : i \in places => \E k \in 1 .. Len(q) : pos[k] = i

\* Retained is drawn from what it is given.
LEMMA RetainedIsFrom ==
    ASSUME NEW S, NEW keeps \in Seq(S), NEW places
    PROVE  /\ Retained(keeps, places) \in Seq(S)
           /\ \E pos : Drawn(pos, Retained(keeps, places), Len(keeps), keeps, places)
<1> DEFINE f == CHOOSE f : Walks(f, Len(keeps), keeps, places)
<1>1. Len(keeps) \in Nat /\ \A i \in 1 .. Len(keeps) : keeps[i] \in S
  OBVIOUS
<1>2. Walks(f, Len(keeps), keeps, places)
  BY <1>1, SomeWalk
<1>3. Retained(keeps, places) = f[Len(keeps)]
  BY DEF Retained, Walks
<1> HIDE DEF f
<1>4. \A i \in 0 .. Len(keeps) : f[i] = IF i = 0 THEN <<>>
                                       ELSE IF i \in places THEN Append(f[i - 1], keeps[i])
                                       ELSE f[i - 1]
  BY <1>2 DEF Walks
<1> DEFINE Good(n) == f[n] \in Seq(S) /\ \E pos : Drawn(pos, f[n], n, keeps, places)
           T == {n \in Nat : n <= Len(keeps) => Good(n)}
<1>5. 0 \in T
  <2>1. f[0] = <<>>
    BY <1>1, <1>4
  <2>2. Drawn([k \in {} |-> k], <<>>, 0, keeps, places)
    BY DEF Drawn
  <2>3. f[0] \in Seq(S) /\ Drawn([k \in {} |-> k], f[0], 0, keeps, places)
    BY <2>1, <2>2
  <2>4. Good(0)
    BY <2>3
  <2> QED
    BY <2>4
<1>6. ASSUME NEW n \in Nat, n \in T PROVE n + 1 \in T
  <2> SUFFICES ASSUME n + 1 <= Len(keeps) PROVE Good(n + 1)
    OBVIOUS
  <2>1. n + 1 \in 0 .. Len(keeps) /\ n + 1 \in 1 .. Len(keeps) /\ (n + 1) - 1 = n /\ n <= Len(keeps)
    BY <1>1
  <2>2. f[n] \in Seq(S) /\ \E pos : Drawn(pos, f[n], n, keeps, places)
    BY <1>6, <2>1
  <2>3. PICK pos : Drawn(pos, f[n], n, keeps, places)
    BY <2>2
  <2>4. Len(f[n]) \in Nat
    BY <2>2
  <2>5. CASE n + 1 \notin places
    <3>1. f[n + 1] = f[n]
      BY <2>1, <2>5, <1>4
    <3>2. Drawn(pos, f[n], n + 1, keeps, places)
      BY <2>3, <2>4, <2>5 DEF Drawn
    <3> QED
      BY <2>2, <3>1, <3>2
  <2>6. CASE n + 1 \in places
    <3> DEFINE q == f[n + 1]
               to == [k \in 1 .. Len(f[n]) + 1 |-> IF k = Len(f[n]) + 1 THEN n + 1 ELSE pos[k]]
    <3>1. q = Append(f[n], keeps[n + 1])
      <4>1. n + 1 # 0
        OBVIOUS
      <4>2. f[n + 1] = Append(f[(n + 1) - 1], keeps[n + 1])
        BY <2>1, <2>6, <4>1, <1>4
      <4> QED
        BY <2>1, <4>2
    <3>2. keeps[n + 1] \in S
      BY <2>1, <1>1
    <3>3. /\ q \in Seq(S) /\ Len(q) = Len(f[n]) + 1 /\ q[Len(f[n]) + 1] = keeps[n + 1]
          /\ \A k \in 1 .. Len(f[n]) : q[k] = f[n][k]
      BY <2>2, <3>1, <3>2
    <3>0. pos \in [1 .. Len(f[n]) -> 1 .. n]
      BY <2>3 DEF Drawn
    <3>4. /\ to[Len(f[n]) + 1] = n + 1
          /\ \A k \in 1 .. Len(f[n]) : to[k] = pos[k] /\ pos[k] \in 1 .. n
          /\ to \in [1 .. Len(q) -> 1 .. n + 1]
      <4>1. Len(f[n]) + 1 \in 1 .. Len(f[n]) + 1 /\ n + 1 \in 1 .. n + 1
        BY <2>4
      <4>2. \A k \in 1 .. Len(f[n]) : k \in 1 .. Len(f[n]) + 1 /\ k # Len(f[n]) + 1 /\ pos[k] \in 1 .. n
        BY <2>4, <3>0
      <4>3. \A k \in 1 .. n : k \in 1 .. n + 1
        OBVIOUS
      <4>4. \A k \in 1 .. Len(f[n]) + 1 : k = Len(f[n]) + 1 \/ k \in 1 .. Len(f[n])
        BY <2>4
      <4>5. to \in [1 .. Len(f[n]) + 1 -> 1 .. n + 1]
        BY <4>1, <4>2, <4>3, <4>4
      <4>6. Len(q) = Len(f[n]) + 1
        BY <3>3
      <4> HIDE DEF q
      <4> QED
        BY <4>1, <4>2, <4>5, <4>6
    <3> HIDE DEF q, to
    <3>5. \A k \in 1 .. Len(q) : k \in 1 .. Len(f[n]) \/ k = Len(f[n]) + 1
      BY <2>4, <3>3
    <3>6. \A k \in 1 .. Len(q) : to[k] \in places /\ q[k] = keeps[to[k]]
      BY <2>3, <2>6, <3>3, <3>4, <3>5 DEF Drawn
    <3>7. \A k, l \in 1 .. Len(q) : k < l => to[k] < to[l]
      <4> SUFFICES ASSUME NEW k \in 1 .. Len(q), NEW l \in 1 .. Len(q), k < l PROVE to[k] < to[l]
        OBVIOUS
      <4>1. k \in 1 .. Len(f[n])
        BY <2>4, <3>3, <3>5
      <4>2. CASE l = Len(f[n]) + 1
        BY <4>1, <4>2, <3>4
      <4>3. CASE l \in 1 .. Len(f[n])
        BY <4>1, <4>3, <3>4, <2>3 DEF Drawn
      <4> QED
        BY <4>2, <4>3, <3>5
    <3>8. \A i \in 1 .. n + 1 : i \in places => \E k \in 1 .. Len(q) : to[k] = i
      <4> SUFFICES ASSUME NEW i \in 1 .. n + 1, i \in places PROVE \E k \in 1 .. Len(q) : to[k] = i
        OBVIOUS
      <4>1. CASE i = n + 1
        <5>1. Len(f[n]) + 1 \in 1 .. Len(q)
          BY <2>4, <3>3
        <5> QED
          BY <4>1, <5>1, <3>4
      <4>2. CASE i # n + 1
        <5>1. PICK k \in 1 .. Len(f[n]) : pos[k] = i
          BY <4>2, <2>3 DEF Drawn
        <5>2. k \in 1 .. Len(q)
          BY <2>4, <3>3
        <5> QED
          BY <5>1, <5>2, <3>4
      <4> QED
        BY <4>1, <4>2
    <3>9. Drawn(to, q, n + 1, keeps, places)
      BY <3>4, <3>6, <3>7, <3>8 DEF Drawn
    <3> QED
      BY <3>3, <3>9 DEF q
  <2> QED
    BY <2>5, <2>6
<1> HIDE DEF T
<1>7. Nat \subseteq T
  BY <1>5, <1>6, NumbersFollow
<1>8. Good(Len(keeps))
  BY <1>1, <1>7 DEF T
<1> QED
  BY <1>3, <1>8

\* What is retained of a sequence without repetition.
LEMMA RetainedIs ==
    ASSUME NEW S, NEW keeps \in Seq(S), NEW places, IsInjective(keeps)
    PROVE  /\ Retained(keeps, places) \in Seq(S)
           /\ IsInjective(Retained(keeps, places))
           /\ \A k \in 1..Len(Retained(keeps, places)) :
                 \E i \in 1..Len(keeps) : i \in places /\ Retained(keeps, places)[k] = keeps[i]
           /\ \A i \in 1..Len(keeps) : i \in places => keeps[i] \in ToSet(Retained(keeps, places))
<1> DEFINE q == Retained(keeps, places)
<1>1. q \in Seq(S)
  BY RetainedIsFrom
<1>2. PICK pos : Drawn(pos, q, Len(keeps), keeps, places)
  BY RetainedIsFrom
<1> HIDE DEF q
<1>3. DOMAIN q = 1..Len(q) /\ DOMAIN keeps = 1..Len(keeps) /\ Len(q) \in Nat /\ Len(keeps) \in Nat
  BY <1>1
<1>4. /\ \A k \in 1..Len(q) : pos[k] \in 1..Len(keeps) /\ pos[k] \in places /\ q[k] = keeps[pos[k]]
      /\ \A k, l \in 1..Len(q) : k < l => pos[k] < pos[l]
      /\ \A i \in 1..Len(keeps) : i \in places => \E k \in 1..Len(q) : pos[k] = i
  BY <1>2 DEF Drawn
<1>5. \A k, l \in 1..Len(q) : q[k] = q[l] => k = l
  <2> SUFFICES ASSUME NEW k \in 1..Len(q), NEW l \in 1..Len(q), q[k] = q[l] PROVE k = l
    OBVIOUS
  <2>1. pos[k] = pos[l]
    BY <1>3, <1>4 DEF IsInjective
  <2>2. ~(k < l) /\ ~(l < k)
    BY <2>1, <1>3, <1>4
  <2> QED
    BY <2>2, <1>3
<1>6. IsInjective(q)
  BY <1>3, <1>5 DEF IsInjective
<1>7. \A i \in 1..Len(keeps) : i \in places => keeps[i] \in ToSet(q)
  BY <1>3, <1>4 DEF ToSet
<1> QED
  BY <1>1, <1>4, <1>6, <1>7 DEF q

\* What a pass owes is parted into what is due and what is not.
LEMMA Parted ==
    ASSUME TypeOK, NEW all \in Seq(Keeps), IsInjective(all)
    PROVE  /\ Due(all) \in Seq(Keeps) /\ NotDue(all) \in Seq(Keeps)
           /\ \A i \in 1..Len(Due(all)) : Due(all)[i].to <= now
           /\ \A i \in 1..Len(NotDue(all)) :
                 NotDue(all)[i].to > now /\ \E k \in 1..Len(all) : NotDue(all)[i] = all[k]
           /\ IsInjective(NotDue(all) \o Due(all))
           /\ ToSet(NotDue(all) \o Due(all)) = ToSet(all)
<1> DEFINE early == {i \in DOMAIN all : all[i].to <= now}
           late == {i \in DOMAIN all : all[i].to > now}
           due == Due(all)
           not == NotDue(all)
<1>1. due = Retained(all, early) /\ not = Retained(all, late)
  BY DEF Due, NotDue
<1>2. DOMAIN all = 1..Len(all) /\ now \in Int /\ \A i \in 1..Len(all) : all[i].to \in Int
  <2>1. now \in Int
    BY DEF TypeOK
  <2>2. \A keep \in Keeps : keep.to \in Int
    BY DEF Keeps
  <2> QED
    BY <2>1, <2>2
<1>3. /\ due \in Seq(Keeps) /\ IsInjective(due)
      /\ \A k \in 1..Len(due) : \E i \in 1..Len(all) : i \in early /\ due[k] = all[i]
      /\ \A i \in 1..Len(all) : i \in early => all[i] \in ToSet(due)
  <2> DEFINE q == Retained(all, early)
  <2>1. due = q
    BY <1>1
  <2> HIDE DEF due, early
  <2>2. /\ q \in Seq(Keeps) /\ IsInjective(q)
        /\ \A k \in 1..Len(q) : \E i \in 1..Len(all) : i \in early /\ q[k] = all[i]
        /\ \A i \in 1..Len(all) : i \in early => all[i] \in ToSet(q)
    BY RetainedIs
  <2> HIDE DEF q
  <2> QED
    BY <2>1, <2>2
<1>4. /\ not \in Seq(Keeps) /\ IsInjective(not)
      /\ \A k \in 1..Len(not) : \E i \in 1..Len(all) : i \in late /\ not[k] = all[i]
      /\ \A i \in 1..Len(all) : i \in late => all[i] \in ToSet(not)
  <2> DEFINE q == Retained(all, late)
  <2>1. not = q
    BY <1>1
  <2> HIDE DEF not, late
  <2>2. /\ q \in Seq(Keeps) /\ IsInjective(q)
        /\ \A k \in 1..Len(q) : \E i \in 1..Len(all) : i \in late /\ q[k] = all[i]
        /\ \A i \in 1..Len(all) : i \in late => all[i] \in ToSet(q)
    BY RetainedIs
  <2> HIDE DEF q
  <2> QED
    BY <2>1, <2>2
<1>5. \A i \in 1..Len(all) : i \in early \/ i \in late
  BY <1>2
<1> HIDE DEF due, not
<1>6. \A k \in 1..Len(due) : due[k].to <= now
  BY <1>3
<1>7. \A k \in 1..Len(not) : not[k].to > now /\ \E i \in 1..Len(all) : not[k] = all[i]
  BY <1>4
<1>8. \A i \in 1..Len(not), j \in 1..Len(due) : not[i] # due[j]
  <2> SUFFICES ASSUME NEW i \in 1..Len(not), NEW j \in 1..Len(due), not[i] = due[j] PROVE FALSE
    OBVIOUS
  <2>1. not[i].to > now /\ due[j].to <= now /\ due[j].to \in Int
    <3>1. \A keep \in Keeps : keep.to \in Int
      BY DEF Keeps
    <3> QED
      BY <1>3, <1>6, <1>7, <3>1
  <2> QED
    BY <2>1, <1>2
<1>9. IsInjective(not \o due)
  BY <1>3, <1>4, <1>8, AfterInjective
<1>10. ToSet(not \o due) = ToSet(all)
  <2>1. ToSet(not \o due) = ToSet(not) \cup ToSet(due)
    BY <1>3, <1>4, After
  <2>2. DOMAIN due = 1..Len(due) /\ DOMAIN not = 1..Len(not)
    BY <1>3, <1>4
  <2>3. ToSet(not) \subseteq ToSet(all) /\ ToSet(due) \subseteq ToSet(all)
    <3>1. \A i \in 1..Len(all) : all[i] \in ToSet(all)
      BY <1>2 DEF ToSet
    <3>2. \A k \in 1..Len(due) : due[k] \in ToSet(all)
      BY <3>1, <1>3
    <3>3. \A k \in 1..Len(not) : not[k] \in ToSet(all)
      BY <3>1, <1>4
    <3> QED
      BY <2>2, <3>2, <3>3 DEF ToSet
  <2>4. \A e \in ToSet(all) : \E i \in 1..Len(all) : e = all[i]
    BY <1>2 DEF ToSet
  <2> QED
    BY <2>1, <2>3, <2>4, <1>3, <1>4, <1>5
<1> QED
  BY <1>3, <1>4, <1>6, <1>7, <1>9, <1>10 DEF due, not

\* What a Keep is.
LEMMA KeepIs ==
    ASSUME TypeOK, NEW why \in {"quiet", "back", "detected"}, NEW from \in Int, NEW to \in Int
    PROVE  Keep(why, from, to) \in Keeps
  BY DEF Keep, Keeps

\* What is decided on by a pass is of the moment it begins, and no two of it are the same.
Fresh(crossed, status) == Observed(status) \o Remembered(crossed)

\* So are the keeps of observe and watch_with_plugins.
LEMMA NewsAre ==
    ASSUME TypeOK, NEW crossed \in BOOLEAN, NEW status
    PROVE  /\ Fresh(crossed, status) \in Seq(Keeps)
           /\ Observed(status) \in Seq(Keeps) /\ Remembered(crossed) \in Seq(Keeps)
           /\ \A i \in 1..Len(Fresh(crossed, status)) : Decided(Fresh(crossed, status)[i]) = now
           /\ IsInjective(Fresh(crossed, status))
<1> DEFINE quiet == Keep("quiet", now - Pre, now)
           back == Keep("back", now, now + Post)
           detected == Keep("detected", now - Pre, now + Post)
<1>1. now \in Int /\ Pre \in Int /\ Post \in Int
  BY Constants DEF TypeOK
<1>2. quiet \in Keeps /\ back \in Keeps /\ detected \in Keeps
  BY <1>1, KeepIs
<1>3. Decided(quiet) = now /\ Decided(back) = now /\ Decided(detected) = now
  BY <1>1 DEF Decided, Keep
<1>4. quiet.why = "quiet" /\ back.why = "back" /\ detected.why = "detected"
  BY DEF Keep
<1>5. /\ \A keep \in Keeps, b \in BOOLEAN : When(b, keep) \in {<<keep>>, <<>>} 
      /\ Remembered(crossed) \in {<<detected>>, <<>>}
  BY DEF When, Remembered
<1>6. Observed(status) \in {<<quiet>>, <<back>>, <<>>}
  <2>1. CASE status = "Offline"
    <3>1. When(seen = "Offline" /\ status # "Offline" /\ Post > 0, back) = <<>>
      BY <2>1 DEF When
    <3>2. When(seen \notin {Never, "Offline"} /\ status = "Offline" /\ Pre > 0, quiet) \in {<<quiet>>, <<>>}
      BY DEF When
    <3> HIDE DEF quiet, back
    <3>3. <<quiet>> \o <<>> = <<quiet>> /\ <<>> \o <<>> = <<>>
      BY <1>2
    <3> QED
      BY <3>1, <3>2, <3>3 DEF Observed, quiet, back
  <2>2. CASE status # "Offline"
    <3>1. When(seen = "Offline" /\ status # "Offline" /\ Post > 0, back) \in {<<back>>, <<>>}
      BY DEF When
    <3>2. When(seen \notin {Never, "Offline"} /\ status = "Offline" /\ Pre > 0, quiet) = <<>>
      BY <2>2 DEF When
    <3> HIDE DEF quiet, back
    <3>3. <<>> \o <<back>> = <<back>> /\ <<>> \o <<>> = <<>>
      BY <1>2
    <3> QED
      BY <3>1, <3>2, <3>3 DEF Observed, quiet, back
  <2> QED
    BY <2>1, <2>2
<1> HIDE DEF quiet, back, detected
<1>7. quiet # detected /\ back # detected
  BY <1>4
<1> DEFINE o == Observed(status)
           r == Remembered(crossed)
<1>8. o \in Seq(Keeps) /\ r \in Seq(Keeps)
  <2>1. <<quiet>> \in Seq(Keeps) /\ <<back>> \in Seq(Keeps) /\ <<detected>> \in Seq(Keeps) /\ <<>> \in Seq(Keeps)
    BY <1>2
  <2> QED
    BY <2>1, <1>5, <1>6
<1>9. Len(o) \in {0, 1} /\ Len(r) \in {0, 1}
      /\ (Len(o) = 1 => o[1] \in {quiet, back}) /\ (Len(r) = 1 => r[1] = detected)
  <2>1. Len(o) \in {0, 1} /\ (Len(o) = 1 => o[1] \in {quiet, back})
    <3> HIDE DEF o
    <3> QED
      BY <1>6 DEF o
  <2>2. Len(r) \in {0, 1} /\ (Len(r) = 1 => r[1] = detected)
    <3> HIDE DEF r
    <3> QED
      BY <1>5 DEF r
  <2> QED
    BY <2>1, <2>2
<1> DEFINE n == Fresh(crossed, status)
<1>10. n = o \o r
  BY DEF Fresh
<1> HIDE DEF o, r, n
<1>11. /\ n \in Seq(Keeps) /\ Len(n) = Len(o) + Len(r) /\ Len(n) \in Nat
       /\ \A i \in 1..Len(n) : n[i] = IF i <= Len(o) THEN o[i] ELSE r[i - Len(o)]
  BY <1>8, <1>10
<1>12. \A i \in 1..Len(n) : \/ i = 1 /\ Len(o) = 1 /\ n[i] \in {quiet, back}
                            \/ i = Len(n) /\ n[i] = detected
  BY <1>9, <1>11
<1>13. \A i \in 1..Len(n) : Decided(n[i]) = now
  BY <1>3, <1>12
<1>14. \A i, j \in 1..Len(n) : n[i] = n[j] => i = j
  BY <1>7, <1>12
<1>15. DOMAIN n = 1..Len(n)
  BY <1>11
<1>16. IsInjective(n)
  BY <1>14, <1>15 DEF IsInjective
<1> QED
  BY <1>8, <1>11, <1>13, <1>16 DEF n, o, r

\* Everything a pass has to keep is of a moment not after it, and no two of it are the same.
LEMMA AllIsSound ==
    ASSUME TypeOK, IncidentInv, at = "asleep", began # now, NEW crossed \in BOOLEAN, NEW status
    PROVE  LET all == (owed \o Observed(status)) \o Remembered(crossed)
           IN  /\ all \in Seq(Keeps) /\ IsInjective(all)
               /\ \A i \in 1..Len(all) : Decided(all[i]) <= now
               /\ ToSet(owed) \subseteq ToSet(all)
<1> DEFINE fresh == Fresh(crossed, status)
           all == (owed \o Observed(status)) \o Remembered(crossed)
<1>1. owed \in Seq(Keeps) /\ now \in Nat /\ began \in 0..Horizon \cup {Never} /\ todo = <<>>
  BY DEF TypeOK
<1>2. /\ fresh \in Seq(Keeps) /\ IsInjective(fresh)
      /\ \A i \in 1..Len(fresh) : Decided(fresh[i]) = now
      /\ Observed(status) \in Seq(Keeps) /\ Remembered(crossed) \in Seq(Keeps)
      /\ fresh = Observed(status) \o Remembered(crossed)
  BY NewsAre DEF Fresh
<1> DEFINE o == Observed(status)
           r == Remembered(crossed)
<1>3. all = owed \o fresh
  <2> HIDE DEF o, r
  <2>1. o \in Seq(Keeps) /\ r \in Seq(Keeps)
    BY <1>2 DEF o, r
  <2>2. (owed \o o) \o r = owed \o (o \o r)
    BY ONLY <2>1, <1>1, ConcatAssociative
  <2> QED
    BY <2>2, <1>2 DEF o, r
<1> HIDE DEF fresh, all
<1>4. \A i \in 1..Len(owed) : Decided(owed[i]) < now
  <2> SUFFICES ASSUME NEW i \in 1..Len(owed) PROVE Decided(owed[i]) < now
    OBVIOUS
  <2>1. began # Never /\ Decided(owed[i]) <= began /\ began <= now
    BY DEF IncidentInv
  <2>2. owed[i] \in Keeps
    BY <1>1
  <2>3. Decided(owed[i]) \in Int
    BY <2>2, Constants DEF Keeps, Decided
  <2> QED
    BY <2>1, <2>3, <1>1
<1>5. IsInjective(owed)
  <2>1. IsInjective(owed \o <<>>)
    BY DEF IncidentInv, IncidentsAreKept
  <2> QED
    BY <2>1, <1>1
<1>6. \A i \in 1..Len(owed), j \in 1..Len(fresh) : owed[i] # fresh[j]
  BY <1>1, <1>2, <1>4
<1>7. IsInjective(all)
  BY <1>1, <1>2, <1>3, <1>5, <1>6, AfterInjective
<1>8. all \in Seq(Keeps) /\ ToSet(all) = ToSet(owed) \cup ToSet(fresh)
  <2>1. owed \o fresh \in Seq(Keeps)
    BY <1>1, <1>2, After
  <2>2. ToSet(owed \o fresh) = ToSet(owed) \cup ToSet(fresh)
    <3>1. owed \in Seq(Keeps) /\ fresh \in Seq(Keeps)
      BY <1>1, <1>2
    <3> QED
      BY <3>1, AfterSet
  <2> QED
    BY <2>1, <2>2, <1>3
<1>9. \A i \in 1..Len(all) : Decided(all[i]) <= now
  <2> SUFFICES ASSUME NEW i \in 1..Len(all) PROVE Decided(all[i]) <= now
    OBVIOUS
  <2>1. i \in 1..Len(owed) \/ (i - Len(owed) \in 1..Len(fresh) /\ all[i] = fresh[i - Len(owed)])
    BY <1>1, <1>2, <1>3, After
  <2>2. CASE i \in 1..Len(owed)
    <3>1. all[i] = owed[i] /\ owed[i] \in Keeps
      BY <2>2, <1>1, <1>2, <1>3, After
    <3>2. Decided(all[i]) < now
      BY <3>1, <2>2, <1>4
    <3>3. Decided(all[i]) \in Int
      BY <3>1, Constants DEF Keeps, Decided
    <3> QED
      BY <3>2, <3>3, <1>1
  <2>3. CASE i - Len(owed) \in 1..Len(fresh) /\ all[i] = fresh[i - Len(owed)]
    <3>1. Decided(all[i]) = now
      BY <2>3, <1>2
    <3> QED
      BY <3>1, <1>1
  <2> QED
    BY <2>1, <2>2, <2>3
<1> QED
  BY <1>7, <1>8, <1>9 DEF all

\* All that a pass has to keep when it begins.
BeginsAll(crossed, status) ==
    IF status = "gone" THEN <<>> ELSE (owed \o Observed(status)) \o Remembered(crossed)

\* All of it is sound.
LEMMA BeginIsSound ==
    ASSUME TypeOK, IncidentInv, at = "asleep", began # now, NEW crossed \in BOOLEAN, NEW status
    PROVE  LET all == BeginsAll(crossed, status)
           IN  /\ all \in Seq(Keeps) /\ IsInjective(all)
               /\ \A i \in 1..Len(all) : Decided(all[i]) <= now
               /\ status # "gone" => ToSet(owed) \subseteq ToSet(all)
<1>1. CASE status = "gone"
  <2>1. BeginsAll(crossed, status) = <<>>
    BY <1>1 DEF BeginsAll
  <2>2. <<>> \in Seq(Keeps) /\ IsInjective(<<>>) /\ Len(<<>>) = 0
    BY DEF IsInjective
  <2>3. \A i \in 1..Len(<<>>) : FALSE
    OBVIOUS
  <2>4. \A i \in 1..Len(<<>>) : Decided(<<>>[i]) <= now
    BY <2>3
  <2> QED
    BY <1>1, <2>1, <2>2, <2>4
<1>2. CASE status # "gone"
  BY <1>2, AllIsSound DEF BeginsAll
<1> QED
  BY <1>1, <1>2

\* A pass begins: what is promised is owed or handed over, once.
LEMMA BeginPassIncidents ==
    ASSUME TypeOK, IncidentInv, NEW crossed \in BOOLEAN, NEW status, BeginPass(crossed, status)
    PROVE  /\ IncidentInv'
           /\ owed' \in Seq(Keeps) /\ todo' \in Seq(Keeps)
<1> DEFINE all == BeginsAll(crossed, status)
<1>1. /\ at = "asleep" /\ began # now /\ at' = "incidents" /\ began' = now /\ now' = now
      /\ owed' = NotDue(all) /\ todo' = Due(all)
      /\ promised' = IF status = "gone" THEN {} ELSE promised \cup ToSet(all)
  BY DEF BeginPass, BeginsAll, clockVars
<1>2. /\ all \in Seq(Keeps) /\ IsInjective(all)
      /\ \A i \in 1..Len(all) : Decided(all[i]) <= now
      /\ status # "gone" => ToSet(owed) \subseteq ToSet(all)
  BY <1>1, BeginIsSound
<1>3. status = "gone" => all = <<>>
  BY DEF BeginsAll
<1> HIDE DEF all
<1>4. /\ Due(all) \in Seq(Keeps) /\ NotDue(all) \in Seq(Keeps)
      /\ \A i \in 1..Len(Due(all)) : Due(all)[i].to <= now
      /\ \A i \in 1..Len(NotDue(all)) :
            NotDue(all)[i].to > now /\ \E k \in 1..Len(all) : NotDue(all)[i] = all[k]
      /\ IsInjective(NotDue(all) \o Due(all))
      /\ ToSet(NotDue(all) \o Due(all)) = ToSet(all)
  BY <1>2, Parted
<1>5. promised = ToSet(owed)
  <2>1. promised = ToSet(owed \o <<>>)
    BY <1>1 DEF IncidentInv, IncidentsAreKept
  <2>2. owed \in Seq(Keeps)
    BY DEF TypeOK
  <2> QED
    BY <2>1, <2>2
<1>6. promised' = ToSet(owed' \o todo')
  <2>1. CASE status = "gone"
    <3>1. ToSet(<<>>) = {}
      BY DEF ToSet
    <3> QED
      BY <2>1, <3>1, <1>1, <1>3, <1>4
  <2>2. CASE status # "gone"
    BY <2>2, <1>1, <1>2, <1>4, <1>5
  <2> QED
    BY <2>1, <2>2
<1>7. now \in Nat /\ now # Never
  BY Constants DEF TypeOK
<1>8. \A i \in 1..Len(NotDue(all)) : Decided(NotDue(all)[i]) <= now
  BY <1>2, <1>4
<1>9. IncidentsAreKept'
  BY <1>1, <1>4, <1>6, <1>7 DEF IncidentsAreKept
<1>10. /\ (began # Never => began <= now)'
       /\ \A i \in 1..Len(owed') : began' # Never /\ Decided(owed'[i]) <= began'
  BY <1>1, <1>7, <1>8
<1> QED
  BY <1>1, <1>4, <1>9, <1>10 DEF IncidentInv, Decided

\* A keep is handed over: it is promised no more.
LEMMA KeepIncidentIncidents ==
    ASSUME TypeOK, IncidentInv, KeepIncident PROVE IncidentInv' /\ todo' \in Seq(Keeps)
<1>1. /\ at = "incidents" /\ todo # <<>> /\ at' = at /\ todo' = Tail(todo)
      /\ promised' = promised \ {Head(todo)}
      /\ UNCHANGED <<now, owed, began>>
  BY DEF KeepIncident, clockVars, siteVars
<1>2. owed \in Seq(Keeps) /\ todo \in Seq(Keeps)
  BY <1>1 DEF TypeOK
<1>3. /\ Head(todo) = todo[1] /\ todo[1] \in Keeps /\ Len(todo) \in Nat \ {0}
      /\ Tail(todo) \in Seq(Keeps) /\ Len(Tail(todo)) = Len(todo) - 1
      /\ \A i \in 1..(Len(todo) - 1) : Tail(todo)[i] = todo[i + 1] /\ i + 1 \in 1..Len(todo)
  BY <1>1, <1>2, TailIs
<1>4. /\ promised = ToSet(owed \o todo) /\ IsInjective(owed \o todo)
      /\ \A i \in 1..Len(todo) : todo[i].to <= now
      /\ \A i \in 1..Len(owed) : began # Never => owed[i].to > began
  BY <1>1 DEF IncidentInv, IncidentsAreKept
<1> DEFINE t == Tail(todo)
           before == owed \o todo
           after == owed \o t
<1>5. /\ before \in Seq(Keeps) /\ after \in Seq(Keeps)
      /\ Len(before) = Len(owed) + Len(todo) /\ Len(after) = Len(owed) + Len(t)
      /\ DOMAIN before = 1..Len(before) /\ DOMAIN after = 1..Len(after)
      /\ Len(owed) \in Nat
  BY <1>2, <1>3, After
<1> DEFINE place(i) == IF i <= Len(owed) THEN i ELSE i + 1
<1>6. /\ \A i \in 1..Len(owed) : before[i] = owed[i] /\ after[i] = owed[i]
      /\ \A i \in 1..Len(todo) : before[Len(owed) + i] = todo[i] /\ Len(owed) + i \in 1..Len(before)
      /\ \A i \in 1..Len(t) : after[Len(owed) + i] = t[i]
  BY <1>2, <1>3, After
<1>7. \A i \in 1..Len(after) : place(i) \in 1..Len(before) /\ after[i] = before[place(i)]
                               /\ place(i) # Len(owed) + 1
  <2> SUFFICES ASSUME NEW i \in 1..Len(after)
               PROVE  place(i) \in 1..Len(before) /\ after[i] = before[place(i)] /\ place(i) # Len(owed) + 1
    OBVIOUS
  <2>1. CASE i <= Len(owed)
    <3>1. i \in 1..Len(owed)
      BY <2>1, <1>5
    <3> QED
      BY <2>1, <3>1, <1>3, <1>5, <1>6
  <2>2. CASE ~(i <= Len(owed))
    <3> DEFINE k == i - Len(owed)
    <3>1. k \in 1..Len(t) /\ Len(owed) + k = i /\ k + 1 \in 1..Len(todo) /\ Len(owed) + (k + 1) = i + 1
          /\ k \in 1..(Len(todo) - 1) /\ i + 1 # Len(owed) + 1
      BY <2>2, <1>3, <1>5
    <3>2. after[i] = t[k] /\ before[i + 1] = todo[k + 1] /\ i + 1 \in 1..Len(before)
      <4> HIDE DEF before, after, k, t
      <4> QED
        BY <3>1, <1>6
    <3>3. t[k] = todo[k + 1]
      BY <3>1, <1>3
    <3> QED
      BY <2>2, <3>1, <3>2, <3>3
  <2> QED
    BY <2>1, <2>2
<1>8. Len(owed) + 1 \in 1..Len(before) /\ before[Len(owed) + 1] = todo[1]
  <2>1. 1 \in 1..Len(todo)
    BY <1>3
  <2> QED
    BY <2>1, <1>6
<1> HIDE DEF before, after
<1>9. \A i, j \in 1..Len(before) : before[i] = before[j] => i = j
  BY <1>4, <1>5 DEF IsInjective, before
<1>10. IsInjective(after)
  <2> SUFFICES ASSUME NEW i \in 1..Len(after), NEW j \in 1..Len(after), after[i] = after[j] PROVE i = j
    BY <1>5 DEF IsInjective
  <2>1. place(i) = place(j)
    BY <1>7, <1>9
  <2> QED
    BY <2>1, <1>5
<1>11. ToSet(after) = ToSet(before) \ {todo[1]}
  <2>1. ToSet(before) = ToSet(owed) \cup ToSet(todo) /\ ToSet(after) = ToSet(owed) \cup ToSet(t)
    <3>1. ToSet(owed \o todo) = ToSet(owed) \cup ToSet(todo)
      BY <1>2, After
    <3> HIDE DEF t
    <3>2. ToSet(owed \o t) = ToSet(owed) \cup ToSet(t)
      <4>1. owed \in Seq(Keeps) /\ t \in Seq(Keeps)
        BY <1>2, <1>3 DEF t
      <4> QED
        BY ONLY <4>1, AfterSet
    <3> QED
      BY <3>1, <3>2 DEF before, after
  <2>2. DOMAIN todo = 1..Len(todo) /\ DOMAIN t = 1..Len(t)
    BY <1>2, <1>3
  <2>3. ToSet(todo) = ToSet(t) \cup {todo[1]}
    <3>1. \A i \in 1..Len(todo) : i = 1 \/ (i - 1 \in 1..Len(t) /\ t[i - 1] = todo[i])
      <4> SUFFICES ASSUME NEW i \in 1..Len(todo), i # 1 PROVE i - 1 \in 1..Len(t) /\ t[i - 1] = todo[i]
        OBVIOUS
      <4>1. i - 1 \in 1..(Len(todo) - 1) /\ (i - 1) + 1 = i
        BY <1>3
      <4> QED
        BY <4>1, <1>3
    <3>2. 1 \in 1..Len(todo) /\ \A i \in 1..Len(t) : t[i] = todo[i + 1] /\ i + 1 \in 1..Len(todo)
      BY <1>3
    <3> HIDE DEF t
    <3>3. \A e \in ToSet(todo) : e \in ToSet(t) \cup {todo[1]}
      BY <2>2, <3>1 DEF ToSet
    <3>4. \A e \in ToSet(t) : e \in ToSet(todo)
      BY <2>2, <3>2 DEF ToSet
    <3>5. todo[1] \in ToSet(todo)
      BY <2>2, <3>2 DEF ToSet
    <3> QED
      BY <3>3, <3>4, <3>5
  <2>4. todo[1] \notin ToSet(after)
    <3> SUFFICES ASSUME NEW i \in 1..Len(after), after[i] = todo[1] PROVE FALSE
      BY <1>5 DEF ToSet
    <3> QED
      BY <1>7, <1>8, <1>9
  <2> QED
    BY <2>1, <2>3, <2>4
<1>12. \A i \in 1..Len(t) : t[i].to <= now
  BY <1>3, <1>4
<1>13. IncidentsAreKept'
  <2>1. promised' = ToSet(after)
    BY <1>1, <1>3, <1>4, <1>11 DEF before
  <2> QED
    BY <2>1, <1>1, <1>4, <1>10, <1>12 DEF IncidentsAreKept, after
<1> QED
  BY <1>1, <1>3, <1>13 DEF IncidentInv, Decided

\* So each step keeps what holds of the incidents.
LEMMA IncidentStep ==
    ASSUME TypeOK, IncidentInv, Next PROVE IncidentInv'
<1>0. now \in Nat /\ (began # Never => began \in Nat)
  BY Constants DEF TypeOK
<1>1. ASSUME NEW crossed \in BOOLEAN, NEW status, BeginPass(crossed, status) PROVE IncidentInv'
  BY <1>1, BeginPassIncidents
<1>2. CASE KeepIncident
  BY <1>2, KeepIncidentIncidents
<1>3. CASE PlanSchedule
  <2>1. /\ at = "incidents" /\ todo = <<>> /\ at' = "schedule"
        /\ UNCHANGED <<now, owed, began, promised>>
    BY <1>3 DEF PlanSchedule, clockVars, siteVars
  <2> QED
    BY <2>1 DEF IncidentInv, IncidentsAreKept, Decided
<1>4. CASE KeepScheduled
  <2>1. /\ at = "schedule" /\ at' = "mark" /\ UNCHANGED <<now, owed, began, promised>>
    BY <1>4 DEF KeepScheduled, clockVars, siteVars
  <2> QED
    BY <2>1 DEF IncidentInv, IncidentsAreKept, Decided
<1>5. ASSUME NEW saved \in BOOLEAN, Mark(saved) PROVE IncidentInv'
  <2>1. /\ at = "mark" /\ at' = "schedule" /\ UNCHANGED <<now, owed, began, promised>>
    BY <1>5 DEF Mark, clockVars, siteVars
  <2> QED
    BY <2>1 DEF IncidentInv, IncidentsAreKept, Decided
<1>6. CASE EndPass
  <2>1. /\ at = "schedule" /\ at' = "asleep" /\ UNCHANGED <<now, owed, began, promised>>
    BY <1>6 DEF EndPass, clockVars, siteVars, history
  <2> QED
    BY <2>1 DEF IncidentInv, IncidentsAreKept, Decided
<1>7. CASE Tick
  <2>1. /\ now' = now + 1 /\ todo = <<>>
        /\ UNCHANGED <<at, todo, owed, began, promised>>
    BY <1>7 DEF Tick, siteVars, history
  <2>2. IncidentsAreKept'
    <3>1. \A i \in 1..Len(<<>>) : FALSE
      OBVIOUS
    <3> QED
      BY <2>1, <3>1 DEF IncidentInv, IncidentsAreKept
  <2> QED
    BY <1>0, <2>1, <2>2 DEF IncidentInv, Decided
<1>8. ASSUME NEW state, CameraChanges(state) PROVE IncidentInv'
  <2>1. UNCHANGED <<now, at, todo, owed, began, promised>>
    BY <1>8 DEF CameraChanges, siteVars, history
  <2> QED
    BY <2>1 DEF IncidentInv, IncidentsAreKept, Decided
<1>9. ASSUME NEW policy, FetchPolicy(policy) PROVE IncidentInv'
  <2>1. UNCHANGED <<now, at, todo, owed, began, promised>>
    BY <1>9 DEF FetchPolicy, clockVars, siteVars
  <2> QED
    BY <2>1 DEF IncidentInv, IncidentsAreKept, Decided
<1>10. CASE Restart
  <2>1. /\ at' = "asleep" /\ owed' = <<>> /\ began' = Never /\ promised' = {}
    BY <1>10 DEF Restart
  <2>2. /\ ToSet(<<>> \o <<>>) = {} /\ IsInjective(<<>> \o <<>>) /\ \A i \in 1..Len(<<>>) : FALSE
    <3>1. <<>> \o <<>> = <<>>
      OBVIOUS
    <3>2. ToSet(<<>>) = {} /\ IsInjective(<<>>)
      BY DEF ToSet, IsInjective
    <3> QED
      BY <3>1, <3>2
  <2> QED
    BY <2>1, <2>2 DEF IncidentInv, IncidentsAreKept
<1> QED
  BY <1>1, <1>2, <1>3, <1>4, <1>5, <1>6, <1>7, <1>8, <1>9, <1>10 DEF Next

-----------------------------------------------------------------------------
(* The whole.                                                              *)

KeepsInv == TypeOK /\ ScheduleInv /\ IncidentInv

\* And what each variable holds.
LEMMA TypeStep ==
    ASSUME TypeOK, IncidentInv, Next PROVE TypeOK'
<1>0. /\ now \in 0..Horizon /\ kind \in {"source", "named", "discovered"}
      /\ camera \in {"well", "mute", "dead"}
      /\ rules \in Policies /\ watermark \in Int \cup {Never}
      /\ seen \in {"Healthy", "Warning", "Offline", Never}
      /\ owed \in Seq(Keeps) /\ began \in 0..Horizon \cup {Never}
      /\ at \in {"asleep", "incidents", "schedule", "mark"}
      /\ (at \in {"schedule", "mark"} => todo \in Seq(Int \X Int))
      /\ (at \notin {"schedule", "mark"} => todo \in Seq(Keeps))
      /\ events \in 0..MaxEvents
      /\ (at = "asleep" => todo = <<>>) /\ (at = "mark" => todo # <<>>)
      /\ <<>> \in Seq(Keeps)
  BY DEF TypeOK
<1>1. ASSUME NEW crossed \in BOOLEAN, NEW status \in {Listed} \cup Missed, BeginPass(crossed, status)
      PROVE  TypeOK'
  <2>1. events' \in 0..MaxEvents
    BY <1>1, EventsCounted DEF BeginPass
  <2>2. owed' \in Seq(Keeps) /\ todo' \in Seq(Keeps)
    BY <1>1, BeginPassIncidents
  <2>3. status \in {"Healthy", "Warning", "Offline", "gone"}
    <3>1. Listed \in {"Healthy", "Warning", "Offline", "gone"}
      BY <1>0 DEF Listed
    <3>2. Missed \subseteq {"gone"}
      BY DEF Missed
    <3> QED
      BY <3>1, <3>2
  <2>4. seen' \in {"Healthy", "Warning", "Offline", Never}
    BY <1>1, <2>3 DEF BeginPass, SeenNow
  <2>5. began' = now /\ at' = "incidents" /\ UNCHANGED <<now, kind, camera, rules, watermark>>
    BY <1>1 DEF BeginPass, clockVars
  <2> QED
    BY <1>0, <2>1, <2>2, <2>4, <2>5 DEF TypeOK
<1>2. CASE KeepIncident
  <2>1. events' \in 0..MaxEvents
    BY <1>2, EventsCounted DEF KeepIncident
  <2>2. todo' \in Seq(Keeps)
    BY <1>2, KeepIncidentIncidents
  <2>3. at' = at /\ at = "incidents" /\ UNCHANGED <<now, kind, camera, rules, watermark, seen, owed, began>>
    BY <1>2 DEF KeepIncident, clockVars, siteVars
  <2> QED
    BY <1>0, <2>1, <2>2, <2>3 DEF TypeOK
<1>3. CASE PlanSchedule
  <2>1. events' \in 0..MaxEvents
    BY <1>3, EventsCounted DEF PlanSchedule
  <2> DEFINE cutoff == now - Lag
             mark == IF watermark = Never THEN now - CatchUp ELSE watermark
             from == Later(mark, cutoff - CatchUp)
  <2>2. cutoff \in Int /\ from \in Int
    BY <1>0, Constants DEF Later
  <2>3. todo' = WindowsToKeep(from, cutoff)
    BY <1>3 DEF PlanSchedule
  <2>4. todo' \in Seq(Int \X Int)
    <3> HIDE DEF from, cutoff
    <3> QED
      BY <2>2, <2>3, PlanIsSound DEF Planned
  <2>5. at' = "schedule" /\ UNCHANGED <<now, kind, camera, rules, watermark, seen, owed, began>>
    BY <1>3 DEF PlanSchedule, clockVars, siteVars
  <2> HIDE DEF from, cutoff, mark
  <2> QED
    BY <1>0, <2>1, <2>4, <2>5 DEF TypeOK
<1>4. CASE KeepScheduled
  <2>1. events' \in 0..MaxEvents
    BY <1>4, EventsCounted DEF KeepScheduled
  <2>2. /\ at = "schedule" /\ at' = "mark" /\ todo # <<>>
        /\ UNCHANGED <<now, kind, camera, rules, watermark, seen, owed, began, todo>>
    BY <1>4 DEF KeepScheduled, clockVars, siteVars
  <2> QED
    BY <1>0, <2>1, <2>2 DEF TypeOK
<1>5. ASSUME NEW saved \in BOOLEAN, Mark(saved) PROVE TypeOK'
  <2>1. events' \in 0..MaxEvents
    BY <1>5, EventsCounted DEF Mark
  <2>2. /\ at = "mark" /\ at' = "schedule" /\ todo' = Tail(todo)
        /\ watermark' = watermark \/ watermark' = Head(todo)[2]
        /\ UNCHANGED <<now, kind, camera, rules, seen, owed, began>>
    BY <1>5 DEF Mark, clockVars, siteVars
  <2>3. todo \in Seq(Int \X Int) /\ todo # <<>>
    BY <1>0, <2>2
  <2>4. Tail(todo) \in Seq(Int \X Int) /\ Head(todo) \in Int \X Int
    BY <2>3
  <2> QED
    BY <1>0, <2>1, <2>2, <2>4 DEF TypeOK
<1>6. CASE EndPass
  <2>1. events' \in 0..MaxEvents
    BY <1>6, EventsCounted DEF EndPass
  <2>2. /\ at' = "asleep" /\ todo' = <<>>
        /\ UNCHANGED <<now, kind, camera, rules, watermark, seen, owed, began>>
    BY <1>6 DEF EndPass, clockVars, siteVars
  <2> QED
    BY <1>0, <2>1, <2>2 DEF TypeOK
<1>7. CASE Tick
  <2>1. events' \in 0..MaxEvents
    BY <1>7, EventsCounted DEF Tick
  <2>2. /\ now < Horizon /\ now' = now + 1
        /\ UNCHANGED <<kind, camera, rules, watermark, seen, owed, began, at, todo>>
    BY <1>7 DEF Tick, siteVars
  <2>3. now' \in 0..Horizon
    BY <1>0, <2>2, Constants
  <2> QED
    BY <1>0, <2>1, <2>2, <2>3 DEF TypeOK
<1>8. ASSUME NEW state \in {"well", "mute", "dead"} \ {camera}, CameraChanges(state) PROVE TypeOK'
  <2>1. events' \in 0..MaxEvents
    BY <1>8, EventsCounted DEF CameraChanges
  <2>2. /\ camera' = state
        /\ UNCHANGED <<now, kind, rules, watermark, seen, owed, began, at, todo>>
    BY <1>8 DEF CameraChanges, siteVars
  <2> QED
    BY <1>0, <2>1, <2>2 DEF TypeOK
<1>9. ASSUME NEW policy \in Policies, FetchPolicy(policy) PROVE TypeOK'
  <2>1. events' \in 0..MaxEvents
    BY <1>9, EventsCounted DEF FetchPolicy
  <2>2. /\ rules' = policy
        /\ UNCHANGED <<now, kind, camera, watermark, seen, owed, began, at, todo>>
    BY <1>9 DEF FetchPolicy, siteVars, clockVars
  <2> QED
    BY <1>0, <2>1, <2>2 DEF TypeOK
<1>10. CASE Restart
  <2>1. events' \in 0..MaxEvents
    BY <1>10, EventsCounted DEF Restart
  <2>2. /\ at' = "asleep" /\ todo' = <<>> /\ seen' = Never /\ owed' = <<>> /\ began' = Never
        /\ UNCHANGED <<now, kind, camera, rules, watermark>>
    BY <1>10 DEF Restart, clockVars
  <2> QED
    BY <1>0, <2>1, <2>2 DEF TypeOK
<1> QED
  BY <1>1, <1>2, <1>3, <1>4, <1>5, <1>6, <1>7, <1>8, <1>9, <1>10 DEF Next

\* A gateway that has just begun owes nothing and has asked for nothing.
LEMMA KeepsInit == Init => KeepsInv
<1> SUFFICES ASSUME Init PROVE KeepsInv
  OBVIOUS
<1>1. TypeOK
  BY Constants DEF Init, TypeOK
<1>2. /\ ToSet(<<>> \o <<>>) = {} /\ IsInjective(<<>> \o <<>>) /\ \A i \in 1..Len(<<>>) : FALSE
  <2>1. <<>> \o <<>> = <<>>
    OBVIOUS
  <2>2. ToSet(<<>>) = {} /\ IsInjective(<<>>)
    BY DEF ToSet, IsInjective
  <2> QED
    BY <2>1, <2>2
<1>3. IncidentInv
  BY <1>2 DEF Init, IncidentInv, IncidentsAreKept
<1>4. ScheduleInv
  BY DEF Init, ScheduleInv, ScheduleKinds, Behind, Passed, Ahead, Reached, Spaced, InPass, ChunksAreSound
<1> QED
  BY <1>1, <1>3, <1>4 DEF KeepsInv

\* Every step keeps the whole of it.
LEMMA KeepsStep == KeepsInv /\ [Next]_vars => KeepsInv'
<1> SUFFICES ASSUME KeepsInv, [Next]_vars PROVE KeepsInv'
  OBVIOUS
<1>1. CASE Next
  BY <1>1, TypeStep, ScheduleStep, IncidentStep DEF KeepsInv
<1>2. CASE UNCHANGED vars
  <2>1. /\ UNCHANGED <<now, kind, camera, rules, watermark, seen, owed, began, at, todo, events>>
        /\ UNCHANGED <<since, through, asked, twice, redo, promised>>
    BY <1>2 DEF vars, clockVars, siteVars, history
  <2>2. TypeOK'
    BY <2>1 DEF KeepsInv, TypeOK
  <2>3. IncidentInv'
    BY <2>1 DEF KeepsInv, IncidentInv, IncidentsAreKept, Decided
  <2>4. /\ \A m : Scheduled(m)' = Scheduled(m)
        /\ \A m, until : Wanted(m, until)' = Wanted(m, until)
    BY <2>1, ScheduledSame, WantedSame
  <2>5. ScheduleInv'
    BY <2>1, <2>4 DEF KeepsInv, ScheduleInv, ScheduleKinds, Behind, Passed, Ahead, Reached, Spaced, InPass,
       ChunksAreSound
  <2> QED
    BY <2>2, <2>3, <2>5 DEF KeepsInv
<1> QED
  BY <1>1, <1>2

\* The invariant says what the runs check.
LEMMA KeepsEnough == KeepsInv => TypeOK /\ WhatIsWantedIsKept
<1> SUFFICES ASSUME KeepsInv PROVE TypeOK /\ WhatIsWantedIsKept
  OBVIOUS
<1>1. CaughtUp
  BY DEF KeepsInv, ScheduleInv, Reached, InPass, Wanted, CaughtUp
<1> QED
  BY <1>1 DEF KeepsInv, ScheduleInv, IncidentInv, WhatIsWantedIsKept, AskedOnce

\* So it always holds.
LEMMA KeepsAlways == Spec => []KeepsInv
  BY KeepsInit, KeepsStep, PTL DEF Spec

\* A pass of camera_loop leaves each variable, and each keep and each window still to be asked for,
\* what the next statement takes it for.
THEOREM KeepsTypesHold == Spec => []TypeOK
  BY KeepsAlways, KeepsEnough, PTL

\* Whatever the rules, the clips and the rolls: schedules are asked for all and once, in sound clips,
\* and what an incident is owed is handed over once there is video of it and not twice (keep_scheduled,
\* windows_to_keep, Incidents::due).
THEOREM WhatIsWantedIsAlwaysKept == Spec => []WhatIsWantedIsKept
  BY KeepsAlways, KeepsEnough, PTL

-----------------------------------------------------------------------------
(* The incident timeline.  Told is what OnlyTransitionsAreNews needs to be *)
(* inductive: the event the pass is about to write is already paid for by  *)
(* the transition it announces.                                            *)

\* Alerts and recoveries, each with the one being raised, are transitions made.
Told ==
    \A c \in Cameras :
        /\ alerts[c] <= outages[c] /\ recoveries[c] <= endings[c]
        /\ news # None /\ news.camera = c =>
              IF news.kind = "offline" THEN alerts[c] < outages[c]
                                       ELSE recoveries[c] < endings[c]

TimelineInv == IncidentTypeOK /\ Told /\ UntoldOnlyByFault /\ RecoveryFollowsOutage

\* Counting a fault or a change keeps within its bound.
LEMMA Bounds ==
    ASSUME IncidentTypeOK
    PROVE  /\ Fault => faults' \in 0..MaxFaults /\ faults' = faults + 1
           /\ Change => changes' \in 0..MaxChanges
  BY IncidentAssumption DEF IncidentTypeOK, Fault, Change

\* The types are established by IncidentInit.
LEMMA IncidentTypeStart == IncidentInit => IncidentTypeOK
<1> SUFFICES ASSUME IncidentInit PROVE IncidentTypeOK
  OBVIOUS
<1>1. admin \in Requests
  BY DEF IncidentInit, Requests, Rest
<1>2. 0 \in 0..MaxChanges /\ 0 \in 0..MaxFaults
  BY IncidentAssumption
<1> QED
  BY <1>1, <1>2 DEF IncidentInit, IncidentTypeOK

\* Every action keeps the types.
LEMMA IncidentTypeStep == IncidentTypeOK /\ [IncidentNext]_incidentVars => IncidentTypeOK'
<1> SUFFICES ASSUME IncidentTypeOK, [IncidentNext]_incidentVars PROVE IncidentTypeOK'
  OBVIOUS
<1> USE IncidentAssumption, Bounds DEF IncidentTypeOK, Requests, Rest, dbVars, passVars, counts, Roster, News
<1>count. \A f \in [Cameras -> Nat], x \in Cameras : [f EXCEPT ![x] = f[x] + 1] \in [Cameras -> Nat]
  OBVIOUS
<1>1. ASSUME NEW c \in Cameras, ConditionChanges(c) PROVE IncidentTypeOK'
  BY <1>1 DEF ConditionChanges
<1>2. ASSUME NEW c \in Cameras, PassAsksInVain(c) PROVE IncidentTypeOK'
  BY <1>2 DEF PassAsksInVain
<1>3. ASSUME NEW c \in Cameras, PassFails(c) PROVE IncidentTypeOK'
  BY <1>3 DEF PassFails
<1>4. ASSUME NEW c \in Cameras, AdminCloseFails(c) PROVE IncidentTypeOK'
  BY <1>4 DEF AdminCloseFails
<1>5. ASSUME NEW g \in Gateways, ReportAuthorised(g) PROVE IncidentTypeOK'
  BY <1>5 DEF ReportAuthorised
<1>6. ASSUME NEW g \in Gateways, ReportStored(g) PROVE IncidentTypeOK'
  BY <1>6 DEF ReportStored
<1>7. ASSUME NEW g \in Gateways, Reenroll(g) PROVE IncidentTypeOK'
  BY <1>7 DEF Reenroll
<1>8. ASSUME NEW g \in Gateways, RevokeStored(g) PROVE IncidentTypeOK'
  BY <1>8 DEF RevokeStored
<1>9. ASSUME NEW g \in Gateways, RetireChecked(g) PROVE IncidentTypeOK'
  BY <1>9 DEF RetireChecked
<1>10. ASSUME PassBegins PROVE IncidentTypeOK'
  BY <1>10 DEF PassBegins, NoAnswersYet
<1>11. ASSUME PassTells PROVE IncidentTypeOK'
  BY <1>11, <1>count DEF PassTells
<1>12. ASSUME PassEnds PROVE IncidentTypeOK'
  BY <1>12 DEF PassEnds, NoAnswersYet
<1>13. ASSUME NEW c \in Cameras, PassAsks(c) PROVE IncidentTypeOK'
  BY <1>13 DEF PassAsks
<1>14. ASSUME NEW c \in Cameras, PassSkips(c) PROVE IncidentTypeOK'
  BY <1>14 DEF PassSkips
<1>15. ASSUME NEW c \in Cameras, PassOpens(c) PROVE IncidentTypeOK'
  BY <1>15, <1>count DEF PassOpens
<1>16. ASSUME NEW c \in Cameras, PassCloses(c) PROVE IncidentTypeOK'
  BY <1>16, <1>count DEF PassCloses
<1>17. ASSUME AdminLists PROVE IncidentTypeOK'
  BY <1>17 DEF AdminLists
<1>18. ASSUME AdminEnds PROVE IncidentTypeOK'
  BY <1>18 DEF AdminEnds
<1>19. ASSUME NEW c \in Cameras, AdminCloses(c) PROVE IncidentTypeOK'
  BY <1>19 DEF AdminCloses
<1>20. ASSUME PassCannotTell PROVE IncidentTypeOK'
  BY <1>20 DEF PassCannotTell
<1>21. ASSUME AdminGone PROVE IncidentTypeOK'
  BY <1>21 DEF AdminGone
<1>22. ASSUME ApiRestarts PROVE IncidentTypeOK'
  BY <1>22 DEF ApiRestarts
<1>23. ASSUME GraceEnds PROVE IncidentTypeOK'
  BY <1>23 DEF GraceEnds
<1>24. CASE UNCHANGED incidentVars
  BY <1>24 DEF incidentVars
<1> QED
  BY <1>1, <1>2, <1>3, <1>4, <1>5, <1>6, <1>7, <1>8, <1>9, <1>10, <1>11, <1>12, <1>13, <1>14, <1>15, <1>16, <1>17, <1>18, <1>19, <1>20, <1>21, <1>22, <1>23, <1>24 DEF IncidentNext, Pass, PassStep, AdminStep

\* The three counting invariants hold at the start.
LEMMA CountStart == IncidentInit => Told /\ UntoldOnlyByFault /\ RecoveryFollowsOutage
  BY DEF IncidentInit, Told, UntoldOnlyByFault, Pending, RecoveryFollowsOutage

\* Every action keeps them.
LEMMA CountStep ==
    TimelineInv /\ [IncidentNext]_incidentVars => Told' /\ UntoldOnlyByFault' /\ RecoveryFollowsOutage'
<1> DEFINE Goal == Told' /\ UntoldOnlyByFault' /\ RecoveryFollowsOutage'
<1> SUFFICES ASSUME TimelineInv, [IncidentNext]_incidentVars PROVE Goal
  OBVIOUS
<1> USE IncidentAssumption, Bounds DEF TimelineInv
<1>nat. /\ outages \in [Cameras -> Nat] /\ alerts \in [Cameras -> Nat]
        /\ endings \in [Cameras -> Nat] /\ recoveries \in [Cameras -> Nat]
        /\ faults \in Nat /\ news \in News \cup {None} /\ None \notin News
        /\ incident \subseteq Cameras
  BY IncidentAssumption DEF IncidentTypeOK
\* What changes no count and raises no event keeps them: faults only grow.
<1>quiet. ASSUME UNCHANGED <<counts, news>>, incident' \subseteq incident,
                faults' \in Nat, faults' >= faults
          PROVE  Goal
  <2>1. Told'
    BY <1>quiet DEF Told, counts
  <2>2. UntoldOnlyByFault'
    BY <1>nat, <1>quiet DEF UntoldOnlyByFault, Pending, counts
  <2>3. RecoveryFollowsOutage'
    BY <1>quiet DEF RecoveryFollowsOutage, counts
  <2> QED
    BY <2>1, <2>2, <2>3
\* An event that is dropped costs a fault.
<1>drop. ASSUME Fault, UNCHANGED <<counts, incident>>, news' = None PROVE Goal
  <2>0. faults' = faults + 1
    BY <1>drop DEF Fault
  <2>1. Told'
    BY <1>drop DEF Told, counts
  <2>2. UntoldOnlyByFault'
    BY <1>nat, <1>drop, <2>0 DEF UntoldOnlyByFault, Pending, counts
  <2>3. RecoveryFollowsOutage'
    BY <1>drop DEF RecoveryFollowsOutage, counts
  <2> QED
    BY <2>1, <2>2, <2>3
<1>1. ASSUME NEW c \in Cameras, ConditionChanges(c) PROVE Goal
  <2>1. UNCHANGED <<counts, news>> /\ incident' \subseteq incident
    BY <1>1 DEF ConditionChanges, dbVars, passVars
  <2>2. faults' \in Nat /\ faults' >= faults
    BY <1>1, <1>nat DEF ConditionChanges, Fault, counts
  <2> QED
    BY <1>quiet, <2>1, <2>2
<1>2. ASSUME NEW c \in Cameras, PassAsksInVain(c) PROVE Goal
  <2>1. UNCHANGED <<counts, news>> /\ incident' \subseteq incident
    BY <1>2 DEF PassAsksInVain, dbVars, passVars
  <2>2. faults' \in Nat /\ faults' >= faults
    BY <1>2, <1>nat DEF PassAsksInVain, Fault, counts
  <2> QED
    BY <1>quiet, <2>1, <2>2
<1>3. ASSUME NEW c \in Cameras, PassFails(c) PROVE Goal
  <2>1. UNCHANGED <<counts, news>> /\ incident' \subseteq incident
    BY <1>3 DEF PassFails, dbVars, passVars
  <2>2. faults' \in Nat /\ faults' >= faults
    BY <1>3, <1>nat DEF PassFails, Fault, counts
  <2> QED
    BY <1>quiet, <2>1, <2>2
<1>4. ASSUME NEW c \in Cameras, AdminCloseFails(c) PROVE Goal
  <2>1. UNCHANGED <<counts, news>> /\ incident' \subseteq incident
    BY <1>4 DEF AdminCloseFails, dbVars, passVars
  <2>2. faults' \in Nat /\ faults' >= faults
    BY <1>4, <1>nat DEF AdminCloseFails, Fault, counts
  <2> QED
    BY <1>quiet, <2>1, <2>2
<1>5. ASSUME NEW g \in Gateways, ReportAuthorised(g) PROVE Goal
  <2>1. UNCHANGED <<counts, news>> /\ incident' \subseteq incident
    BY <1>5 DEF ReportAuthorised, dbVars, passVars
  <2>2. faults' \in Nat /\ faults' >= faults
    BY <1>5, <1>nat DEF ReportAuthorised, Fault, counts
  <2> QED
    BY <1>quiet, <2>1, <2>2
<1>6. ASSUME NEW g \in Gateways, ReportStored(g) PROVE Goal
  <2>1. UNCHANGED <<counts, news>> /\ incident' \subseteq incident
    BY <1>6 DEF ReportStored, dbVars, passVars
  <2>2. faults' \in Nat /\ faults' >= faults
    BY <1>6, <1>nat DEF ReportStored, Fault, counts
  <2> QED
    BY <1>quiet, <2>1, <2>2
<1>7. ASSUME NEW g \in Gateways, Reenroll(g) PROVE Goal
  <2>1. UNCHANGED <<counts, news>> /\ incident' \subseteq incident
    BY <1>7 DEF Reenroll, dbVars, passVars
  <2>2. faults' \in Nat /\ faults' >= faults
    BY <1>7, <1>nat DEF Reenroll, Fault, counts
  <2> QED
    BY <1>quiet, <2>1, <2>2
<1>8. ASSUME NEW g \in Gateways, RevokeStored(g) PROVE Goal
  <2>1. UNCHANGED <<counts, news>> /\ incident' \subseteq incident
    BY <1>8 DEF RevokeStored, dbVars, passVars
  <2>2. faults' \in Nat /\ faults' >= faults
    BY <1>8, <1>nat DEF RevokeStored, Fault, counts
  <2> QED
    BY <1>quiet, <2>1, <2>2
<1>9. ASSUME NEW g \in Gateways, RetireChecked(g) PROVE Goal
  <2>1. UNCHANGED <<counts, news>> /\ incident' \subseteq incident
    BY <1>9 DEF RetireChecked, dbVars, passVars
  <2>2. faults' \in Nat /\ faults' >= faults
    BY <1>9, <1>nat DEF RetireChecked, Fault, counts
  <2> QED
    BY <1>quiet, <2>1, <2>2
<1>10. ASSUME PassBegins PROVE Goal
  <2>1. UNCHANGED <<counts, news>> /\ incident' \subseteq incident
    BY <1>10 DEF PassBegins, dbVars, passVars
  <2>2. faults' \in Nat /\ faults' >= faults
    BY <1>10, <1>nat DEF PassBegins, Fault, counts
  <2> QED
    BY <1>quiet, <2>1, <2>2
<1>11. ASSUME PassTells PROVE Goal
  <2>1. news \in News /\ news.camera \in Cameras /\ news' = None
    BY <1>11, <1>nat DEF PassTells, News
  <2>2. \A c \in Cameras :
          /\ alerts'[c] = IF c = news.camera /\ news.kind = "offline" THEN alerts[c] + 1 ELSE alerts[c]
          /\ recoveries'[c] = IF c = news.camera /\ news.kind # "offline" THEN recoveries[c] + 1 ELSE recoveries[c]
    BY <1>11, <1>nat, <2>1 DEF PassTells
  <2>3. UNCHANGED <<outages, endings, incident, faults>>
    BY <1>11 DEF PassTells, dbVars
  <2>4. Told'
    BY <1>nat, <1>11, <2>1, <2>2, <2>3 DEF Told, PassTells
  <2>5. UntoldOnlyByFault'
    BY <1>nat, <1>11, <2>1, <2>2, <2>3 DEF UntoldOnlyByFault, Pending, PassTells
  <2>6. RecoveryFollowsOutage'
    BY <2>3 DEF RecoveryFollowsOutage
  <2> QED
    BY <2>4, <2>5, <2>6
<1>12. ASSUME PassEnds PROVE Goal
  <2>1. UNCHANGED <<counts, news>> /\ incident' \subseteq incident
    BY <1>12 DEF PassEnds, dbVars, passVars
  <2>2. faults' \in Nat /\ faults' >= faults
    BY <1>12, <1>nat DEF PassEnds, Fault, counts
  <2> QED
    BY <1>quiet, <2>1, <2>2
<1>13. ASSUME NEW c \in Cameras, PassAsks(c) PROVE Goal
  <2>1. UNCHANGED <<counts, news>> /\ incident' \subseteq incident
    BY <1>13 DEF PassAsks, dbVars, passVars
  <2>2. faults' \in Nat /\ faults' >= faults
    BY <1>13, <1>nat DEF PassAsks, Fault, counts
  <2> QED
    BY <1>quiet, <2>1, <2>2
<1>14. ASSUME NEW c \in Cameras, PassSkips(c) PROVE Goal
  <2>1. UNCHANGED <<counts, news>> /\ incident' \subseteq incident
    BY <1>14 DEF PassSkips, dbVars, passVars
  <2>2. faults' \in Nat /\ faults' >= faults
    BY <1>14, <1>nat DEF PassSkips, Fault, counts
  <2> QED
    BY <1>quiet, <2>1, <2>2
<1>15. ASSUME NEW c \in Cameras, PassOpens(c) PROVE Goal
  <2>0. news = None /\ incident' = incident \cup {c} /\ UNCHANGED <<alerts, recoveries, endings, faults>>
    BY <1>15 DEF PassOpens
  <2>1. CASE c \in incident
    <3>1. UNCHANGED <<outages, news>>
      BY <1>15, <2>1 DEF PassOpens
    <3>2. Told' /\ UntoldOnlyByFault'
      BY <2>0, <3>1 DEF Told, UntoldOnlyByFault, Pending
    <3>3. RecoveryFollowsOutage'
      BY <2>0, <2>1, <3>1 DEF RecoveryFollowsOutage
    <3> QED
      BY <3>2, <3>3
  <2>2. CASE ~(c \in incident)
    <3>1. news' = [camera |-> c, kind |-> "offline"] /\ news' # None
      BY <1>15, <2>2, <1>nat DEF PassOpens, News
    <3>2. \A x \in Cameras : outages'[x] = IF x = c THEN outages[x] + 1 ELSE outages[x]
      BY <1>15, <2>2, <1>nat DEF PassOpens
    <3>3. Told'
      BY <1>nat, <2>0, <3>1, <3>2 DEF Told
    <3>4. UntoldOnlyByFault'
      BY <1>nat, <2>0, <3>1, <3>2 DEF UntoldOnlyByFault, Pending
    <3>5. RecoveryFollowsOutage'
      BY <1>nat, <2>0, <2>2, <3>2 DEF RecoveryFollowsOutage
    <3> QED
      BY <3>3, <3>4, <3>5
  <2> QED
    BY <2>1, <2>2
<1>16. ASSUME NEW c \in Cameras, PassCloses(c) PROVE Goal
  <2>0. news = None /\ incident' = incident \ {c} /\ UNCHANGED <<alerts, recoveries, outages, faults>>
    BY <1>16 DEF PassCloses
  <2>1. CASE c \notin incident
    <3>1. UNCHANGED <<endings, news>>
      BY <1>16, <2>1 DEF PassCloses
    <3>2. Told' /\ UntoldOnlyByFault'
      BY <2>0, <3>1 DEF Told, UntoldOnlyByFault, Pending
    <3>3. RecoveryFollowsOutage'
      BY <2>0, <2>1, <3>1 DEF RecoveryFollowsOutage
    <3> QED
      BY <3>2, <3>3
  <2>2. CASE ~(c \notin incident)
    <3>1. news' = [camera |-> c, kind |-> "recovered"] /\ news' # None
      BY <1>16, <2>2, <1>nat DEF PassCloses, News
    <3>2. \A x \in Cameras : endings'[x] = IF x = c THEN endings[x] + 1 ELSE endings[x]
      BY <1>16, <2>2, <1>nat DEF PassCloses
    <3>3. Told'
      BY <1>nat, <2>0, <3>1, <3>2 DEF Told
    <3>4. UntoldOnlyByFault'
      BY <1>nat, <2>0, <3>1, <3>2 DEF UntoldOnlyByFault, Pending
    <3>5. RecoveryFollowsOutage'
      BY <1>nat, <2>0, <2>2, <3>2 DEF RecoveryFollowsOutage
    <3> QED
      BY <3>3, <3>4, <3>5
  <2> QED
    BY <2>1, <2>2
<1>17. ASSUME AdminLists PROVE Goal
  <2>1. UNCHANGED <<counts, news>> /\ incident' \subseteq incident
    BY <1>17 DEF AdminLists, dbVars, passVars
  <2>2. faults' \in Nat /\ faults' >= faults
    BY <1>17, <1>nat DEF AdminLists, Fault, counts
  <2> QED
    BY <1>quiet, <2>1, <2>2
<1>18. ASSUME AdminEnds PROVE Goal
  <2>1. UNCHANGED <<counts, news>> /\ incident' \subseteq incident
    BY <1>18 DEF AdminEnds, dbVars, passVars
  <2>2. faults' \in Nat /\ faults' >= faults
    BY <1>18, <1>nat DEF AdminEnds, Fault, counts
  <2> QED
    BY <1>quiet, <2>1, <2>2
<1>19. ASSUME NEW c \in Cameras, AdminCloses(c) PROVE Goal
  <2>1. UNCHANGED <<counts, news>> /\ incident' \subseteq incident
    BY <1>19 DEF AdminCloses, dbVars, passVars
  <2>2. faults' \in Nat /\ faults' >= faults
    BY <1>19, <1>nat DEF AdminCloses, Fault, counts
  <2> QED
    BY <1>quiet, <2>1, <2>2
<1>20. ASSUME PassCannotTell PROVE Goal
  BY <1>20, <1>drop DEF PassCannotTell, dbVars
<1>21. ASSUME AdminGone PROVE Goal
  <2>1. UNCHANGED <<counts, news>> /\ incident' \subseteq incident
    BY <1>21 DEF AdminGone, dbVars, passVars
  <2>2. faults' \in Nat /\ faults' >= faults
    BY <1>21, <1>nat DEF AdminGone, Fault, counts
  <2> QED
    BY <1>quiet, <2>1, <2>2
<1>22. ASSUME ApiRestarts PROVE Goal
  BY <1>22, <1>drop DEF ApiRestarts, dbVars
<1>23. ASSUME GraceEnds PROVE Goal
  <2>1. UNCHANGED <<counts, news>> /\ incident' \subseteq incident
    BY <1>23 DEF GraceEnds, dbVars, passVars
  <2>2. faults' \in Nat /\ faults' >= faults
    BY <1>23, <1>nat DEF GraceEnds, Fault, counts
  <2> QED
    BY <1>quiet, <2>1, <2>2
<1>24. CASE UNCHANGED incidentVars
  <2>1. UNCHANGED <<counts, news, incident, faults>>
    BY <1>24 DEF incidentVars, dbVars, passVars
  <2> QED
    BY <1>quiet, <1>nat, <2>1
<1> QED
  BY <1>1, <1>2, <1>3, <1>4, <1>5, <1>6, <1>7, <1>8, <1>9, <1>10, <1>11, <1>12, <1>13, <1>14, <1>15, <1>16, <1>17, <1>18, <1>19, <1>20, <1>21, <1>22, <1>23, <1>24 DEF IncidentNext, Pass, PassStep, AdminStep

\* Told says more than OnlyTransitionsAreNews asks.
LEMMA ToldIsEnough == TimelineInv => OnlyTransitionsAreNews
<1> SUFFICES ASSUME TimelineInv, NEW c \in Cameras
             PROVE  /\ alerts[c] <= outages[c] /\ recoveries[c] <= endings[c]
                    /\ alerts[c] + recoveries[c] + Pending(c) <= outages[c] + endings[c]
  BY DEF OnlyTransitionsAreNews
<1>1. /\ outages[c] \in Nat /\ alerts[c] \in Nat
      /\ endings[c] \in Nat /\ recoveries[c] \in Nat
  BY DEF TimelineInv, IncidentTypeOK
<1>2. /\ alerts[c] <= outages[c] /\ recoveries[c] <= endings[c]
      /\ news # None /\ news.camera = c =>
             alerts[c] < outages[c] \/ recoveries[c] < endings[c]
  BY DEF TimelineInv, Told
<1>3. CASE news # None /\ news.camera = c
  <2>1. Pending(c) = 1
    BY <1>3 DEF Pending
  <2> QED
    BY <1>1, <1>2, <1>3, <2>1
<1>4. CASE ~(news # None /\ news.camera = c)
  <2>1. Pending(c) = 0
    BY <1>4 DEF Pending
  <2> QED
    BY <1>1, <1>2, <2>1
<1> QED
  BY <1>3, <1>4

\* The inductive invariant holds in every reachable state.
THEOREM IncidentInvariant == IncidentSpec => []TimelineInv
<1>1. IncidentInit => TimelineInv
  BY IncidentTypeStart, CountStart DEF TimelineInv
<1>2. TimelineInv /\ [IncidentNext]_incidentVars => TimelineInv'
  BY IncidentTypeStep, CountStep DEF TimelineInv
<1> QED
  BY <1>1, <1>2, PTL DEF IncidentSpec

\* Every variable keeps its type.
THEOREM IncidentTypes == IncidentSpec => []IncidentTypeOK
<1>1. TimelineInv => IncidentTypeOK
  BY DEF TimelineInv
<1> QED
  BY <1>1, IncidentInvariant, PTL

\* No outage and no recovery is announced without its transition, or twice.
THEOREM NewsIsTransitions == IncidentSpec => []OnlyTransitionsAreNews
<1> QED
  BY ToldIsEnough, IncidentInvariant, PTL

\* Every transition is announced, but for one for each fault at most.
THEOREM TransitionsAreNews == IncidentSpec => []UntoldOnlyByFault
<1>1. TimelineInv => UntoldOnlyByFault
  BY DEF TimelineInv
<1> QED
  BY <1>1, IncidentInvariant, PTL

\* The timeline of a camera never ends an outage it did not begin.
THEOREM EndingsHaveBeginnings == IncidentSpec => []RecoveryFollowsOutage
<1>1. TimelineInv => RecoveryFollowsOutage
  BY DEF TimelineInv
<1> QED
  BY <1>1, IncidentInvariant, PTL

\* What the timeline tells is what happened: the three together, as the runs check them
\* (incident_pass, raise_event).
THEOREM TimelineHolds == IncidentSpec => []TimelineIsTrue
<1>1. OnlyTransitionsAreNews /\ UntoldOnlyByFault /\ RecoveryFollowsOutage => TimelineIsTrue
  BY DEF TimelineIsTrue
<1> QED
  BY <1>1, NewsIsTransitions, TransitionsAreNews, EndingsHaveBeginnings, PTL
=============================================================================
