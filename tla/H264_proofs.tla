----------------------------- MODULE H264_proofs ---------------------------
(***************************************************************************)
(* The framing of H.264, for any units, any pictures an SPS can describe   *)
(* and any number of them: what an access unit is split into is what was   *)
(* joined, whatever bytes the units hold; escaping, and every cut of it,   *)
(* is undone; a configuration record gives back the sets it was made of;   *)
(* and the picture described is the one the encoder meant, read field by   *)
(* field from where the bits of the one before end.                        *)
(***************************************************************************)
EXTENDS H264, FiniteSetTheorems, SequenceTheorems, WellFoundedInduction, TLAPS

\* A set of numbers has a least one.
LEMMA LeastIndex ==
    ASSUME NEW T \in SUBSET Nat, T # {}
    PROVE  \E n \in T : \A m \in T : n <= m
<1>1. PICK n \in T : \A m \in T : ~(<<m, n>> \in OpToRel(<, Nat))
  BY NatLessThanWellFounded, WFMin
<1>2. \A m \in T : ~(m < n)
  BY <1>1 DEF OpToRel
<1> QED
  BY <1>2

\* Induction, over a set.
LEMMA IndicesFollow ==
    ASSUME NEW T, 0 \in T, \A n \in Nat : n \in T => n + 1 \in T
    PROVE  Nat \subseteq T
<1> SUFFICES ASSUME Nat \ T # {} PROVE FALSE
  OBVIOUS
<1>1. PICK n \in Nat \ T : \A m \in Nat \ T : n <= m
  BY LeastIndex
<1>2. n # 0 /\ n - 1 \in Nat
  BY <1>1
<1>3. n - 1 \in T
  BY <1>1, <1>2
<1> QED
  BY <1>1, <1>2, <1>3

\* Induction over the first numbers.
LEMMA FirstNumbers ==
    ASSUME NEW n \in Nat, NEW T, 0 \in T, \A i \in 1..n : i - 1 \in T => i \in T
    PROVE  0..n \subseteq T
<1> DEFINE M == {k \in Nat : k <= n => k \in T}
<1>1. 0 \in M
  OBVIOUS
<1>2. ASSUME NEW k \in Nat, k \in M PROVE k + 1 \in M
  <2> SUFFICES ASSUME k + 1 <= n PROVE k + 1 \in T
    OBVIOUS
  <2>1. k + 1 \in 1..n /\ (k + 1) - 1 = k /\ k \in T
    BY <1>2
  <2> QED
    BY <2>1
<1>3. Nat \subseteq M
  <2> HIDE DEF M
  <2> QED
    BY <1>1, <1>2, IndicesFollow
<1> QED
  BY <1>3

-----------------------------------------------------------------------------
(* Recursions over the first numbers.                                      *)

\* A recursion over the first numbers, every value of which is in S.
Recurs(f, S, b, n, step) ==
    /\ f \in [0..n -> S] /\ f[0] = b
    /\ \A i \in 1..n : f[i] = step[<<f[i - 1], i>>]

\* Such a recursion has a result.
LEMMA SomeRecursion ==
    ASSUME NEW S, NEW b \in S, NEW n \in Nat, NEW step \in [S \X (1..n) -> S]
    PROVE  \E f : Recurs(f, S, b, n, step)
<1> DEFINE T == {k \in Nat : k <= n => \E f : Recurs(f, S, b, k, step)}
<1>1. 0 \in T
  <2>1. Recurs([i \in 0..0 |-> b], S, b, 0, step)
    BY DEF Recurs
  <2> QED
    BY <2>1
<1>2. ASSUME NEW k \in Nat, k \in T PROVE k + 1 \in T
  <2> SUFFICES ASSUME k + 1 <= n PROVE \E f : Recurs(f, S, b, k + 1, step)
    OBVIOUS
  <2>1. PICK f : Recurs(f, S, b, k, step)
    BY <1>2
  <2> DEFINE g == [i \in 0..(k + 1) |-> IF i = k + 1 THEN step[<<f[k], k + 1>>] ELSE f[i]]
  <2>2. f[k] \in S /\ step[<<f[k], k + 1>>] \in S
    <3>1. k \in 0..k /\ k + 1 \in 1..n
      OBVIOUS
    <3>2. f[k] \in S
      BY <2>1, <3>1 DEF Recurs
    <3>3. <<f[k], k + 1>> \in S \X (1..n)
      BY <3>1, <3>2
    <3> QED
      BY <3>2, <3>3
  <2>3. \A i \in 0..k : g[i] = f[i] /\ f[i] \in S
    BY <2>1 DEF Recurs
  <2>4. g[k + 1] = step[<<f[k], k + 1>>] /\ g[k] = f[k]
    OBVIOUS
  <2>5. g \in [0..(k + 1) -> S]
    <3>1. \A i \in 0..(k + 1) : i = k + 1 \/ i \in 0..k
      OBVIOUS
    <3>2. \A i \in 0..(k + 1) : g[i] \in S
      <4> HIDE DEF g
      <4> QED
        BY <3>1, <2>2, <2>3, <2>4
    <3> QED
      BY <3>2
  <2> HIDE DEF g
  <2>6. \A i \in 1..(k + 1) : g[i] = step[<<g[i - 1], i>>]
    <3> SUFFICES ASSUME NEW i \in 1..(k + 1) PROVE g[i] = step[<<g[i - 1], i>>]
      OBVIOUS
    <3>1. CASE i = k + 1
      <4>1. i - 1 = k
        BY <3>1
      <4> QED
        BY <3>1, <4>1, <2>4
    <3>2. CASE i # k + 1
      <4>1. i \in 1..k /\ i \in 0..k /\ i - 1 \in 0..k
        BY <3>2
      <4>2. f[i] = step[<<f[i - 1], i>>]
        BY <4>1, <2>1 DEF Recurs
      <4> QED
        BY <4>1, <4>2, <2>3
    <3> QED
      BY <3>1, <3>2
  <2>7. g[0] = b
    BY <2>1, <2>3 DEF Recurs
  <2>8. Recurs(g, S, b, k + 1, step)
    BY <2>5, <2>6, <2>7 DEF Recurs
  <2> QED
    BY <2>8
<1> HIDE DEF T
<1>3. n \in T
  BY <1>1, <1>2, IndicesFollow
<1> QED
  BY <1>3 DEF T

\* What is defined as it is, is such a recursion.
LEMMA ItRecurs ==
    ASSUME NEW S, NEW b \in S, NEW n \in Nat, NEW step \in [S \X (1..n) -> S],
           NEW f, DOMAIN f = 0..n, f = [i \in DOMAIN f |-> f[i]], f[0] = b,
           \A i \in 1..n : f[i - 1] \in S => f[i] = step[<<f[i - 1], i>>]
    PROVE  Recurs(f, S, b, n, step)
<1> DEFINE T == {i \in 0..n : f[i] \in S}
<1>1. 0 \in T
  OBVIOUS
<1>2. \A i \in 1..n : i - 1 \in T => i \in T
  <2> SUFFICES ASSUME NEW i \in 1..n, f[i - 1] \in S PROVE f[i] \in S
    OBVIOUS
  <2>1. <<f[i - 1], i>> \in S \X (1..n)
    OBVIOUS
  <2>2. step[<<f[i - 1], i>>] \in S
    BY <2>1
  <2> QED
    BY <2>2
<1>3. 0..n \subseteq T
  <2> HIDE DEF T
  <2> QED
    BY <1>1, <1>2, FirstNumbers
<1>4. \A i \in 1..n : i - 1 \in 0..n
  OBVIOUS
<1> QED
  BY <1>3, <1>4 DEF Recurs

\* Two that begin and go on alike are the same as far as both go.
LEMMA RecurAlike ==
    ASSUME NEW S, NEW b, NEW n \in Nat, NEW m \in Nat, n <= m, NEW f, NEW g,
           NEW step1, NEW step2, Recurs(f, S, b, n, step1), Recurs(g, S, b, m, step2),
           \A i \in 1..n : \A s \in S : step1[<<s, i>>] = step2[<<s, i>>]
    PROVE  \A i \in 0..n : f[i] = g[i]
<1> DEFINE T == {i \in 0..n : f[i] = g[i]}
<1>1. 0 \in T
  BY DEF Recurs
<1>2. \A i \in 1..n : i - 1 \in T => i \in T
  <2> SUFFICES ASSUME NEW i \in 1..n, i - 1 \in T PROVE i \in T
    OBVIOUS
  <2>0. f[i - 1] = g[i - 1] /\ i \in 0..n
    OBVIOUS
  <2>1. i \in 1..m /\ i - 1 \in 0..n
    OBVIOUS
  <2>2. f[i] = step1[<<f[i - 1], i>>] /\ g[i] = step2[<<g[i - 1], i>>] /\ f[i - 1] \in S
    BY <2>1 DEF Recurs
  <2>3. step1[<<f[i - 1], i>>] = step2[<<f[i - 1], i>>]
    BY <2>0, <2>2
  <2> QED
    BY <2>0, <2>2, <2>3
<1>3. 0..n \subseteq T
  <2> HIDE DEF T
  <2> QED
    BY <1>1, <1>2, FirstNumbers
<1> QED
  BY <1>3

\* A sequence after another: where each element comes from.
LEMMA JoinIs ==
    ASSUME NEW S, NEW s \in Seq(S), NEW t \in Seq(S)
    PROVE  /\ s \o t \in Seq(S) /\ Len(s \o t) = Len(s) + Len(t)
           /\ Len(s) \in Nat /\ Len(t) \in Nat
           /\ \A i \in 1..Len(s) : (s \o t)[i] = s[i] /\ i \in 1..Len(s \o t)
           /\ \A i \in 1..Len(t) : (s \o t)[Len(s) + i] = t[i] /\ Len(s) + i \in 1..Len(s \o t)
<1>1. s \o t \in Seq(S) /\ Len(s \o t) = Len(s) + Len(t) /\ Len(s) \in Nat /\ Len(t) \in Nat
  OBVIOUS
<1>2. \A i \in 1..Len(s) : (s \o t)[i] = s[i] /\ i \in 1..Len(s \o t)
  OBVIOUS
<1>3. \A i \in 1..Len(t) : (s \o t)[Len(s) + i] = t[i] /\ Len(s) + i \in 1..Len(s \o t)
  <2> SUFFICES ASSUME NEW i \in 1..Len(t)
               PROVE  (s \o t)[Len(s) + i] = t[i] /\ Len(s) + i \in 1..Len(s \o t)
    OBVIOUS
  <2>1. Len(s) + i \in 1..Len(s \o t) /\ ~(Len(s) + i <= Len(s)) /\ (Len(s) + i) - Len(s) = i
    BY <1>1
  <2> QED
    BY <2>1
<1> QED
  BY <1>1, <1>2, <1>3

\* A part of a sequence.
LEMMA PartIs ==
    ASSUME NEW S, NEW s \in Seq(S), NEW m \in Nat \ {0}, NEW n \in Nat, n <= Len(s), m <= n + 1
    PROVE  /\ SubSeq(s, m, n) \in Seq(S) /\ Len(SubSeq(s, m, n)) = n - m + 1
           /\ \A i \in 1..(n - m + 1) : SubSeq(s, m, n)[i] = s[m + i - 1] /\ m + i - 1 \in 1..Len(s)
<1>1. Len(s) \in Nat
  OBVIOUS
<1>2. m \in 1..(Len(s) + 1) /\ n \in (m - 1)..Len(s)
  BY <1>1
<1>3. /\ SubSeq(s, m, n) \in Seq(S) /\ Len(SubSeq(s, m, n)) = n - m + 1
      /\ \A i \in 1..(n - m + 1) : SubSeq(s, m, n)[i] = s[m + i - 1]
  BY <1>2, SubSeqProperties
<1>4. \A i \in 1..(n - m + 1) : m + i - 1 \in 1..Len(s)
  BY <1>1
<1> QED
  BY <1>3, <1>4

\* Sequences of the same elements are the same.
LEMMA SameSeq ==
    ASSUME NEW S, NEW s \in Seq(S), NEW T, NEW t \in Seq(T), Len(s) = Len(t), \A i \in 1..Len(s) : s[i] = t[i]
    PROVE  s = t
  OBVIOUS

\* One more element.
LEMMA OneMoreIs ==
    ASSUME NEW S, NEW s \in Seq(S), NEW e \in S
    PROVE  /\ Append(s, e) \in Seq(S) /\ Len(Append(s, e)) = Len(s) + 1 /\ Len(s) \in Nat
           /\ Append(s, e)[Len(s) + 1] = e
           /\ \A i \in 1..Len(s) : Append(s, e)[i] = s[i]
  OBVIOUS

-----------------------------------------------------------------------------
(* annex_b_units.                                                          *)

ScanStates == [units : Seq(Seq(Byte)), begin : Nat]

NothingScanned == [units |-> <<>>, begin |-> 0]

ScanStep(data) == [a \in ScanStates \X (1..Len(data)) |-> Scanned(data, a[1], a[2])]

\* What ends at a start code, or with the data, is one unit more at most, of bytes.
LEMMA EndedIs ==
    ASSUME NEW data \in Seq(Byte), NEW s \in ScanStates, NEW end \in 0..Len(data)
    PROVE  Ended(data, s, end) \in Seq(Seq(Byte))
<1>1. s.units \in Seq(Seq(Byte)) /\ s.begin \in Nat
  BY DEF ScanStates
<1>2. CASE s.begin = 0 \/ s.begin > end
  BY <1>1, <1>2 DEF Ended
<1>3. CASE ~(s.begin = 0 \/ s.begin > end)
  <2>1. SubSeq(data, s.begin, end) \in Seq(Byte)
    BY <1>1, <1>3, PartIs
  <2> HIDE DEF Byte
  <2> QED
    BY <1>1, <1>3, <2>1 DEF Ended
<1> QED
  BY <1>2, <1>3

\* A byte looked at leaves the scanner in one of its states.
LEMMA ScannedIs ==
    ASSUME NEW data \in Seq(Byte), NEW s \in ScanStates, NEW i \in 1..Len(data)
    PROVE  Scanned(data, s, i) \in ScanStates
<1> DEFINE end == IF i > 1 /\ data[i - 1] = 0 THEN i - 2 ELSE i - 1
<1>1. end \in 0..Len(data) /\ i + 3 \in Nat
  OBVIOUS
<1> HIDE DEF end
<1>2. Ended(data, s, end) \in Seq(Seq(Byte))
  BY <1>1, EndedIs
<1>3. Scanned(data, s, i) = IF ~IsCode(data, i) THEN s ELSE [units |-> Ended(data, s, end), begin |-> i + 3]
  BY DEF Scanned, end
<1>4. [units |-> Ended(data, s, end), begin |-> i + 3] \in ScanStates
  BY <1>1, <1>2 DEF ScanStates
<1> QED
  BY <1>3, <1>4

\* annex_b_units goes over the data byte by byte: its loop as a sequence of states.
LEMMA UnitsAreScanned ==
    ASSUME NEW data \in Seq(Byte)
    PROVE  \E f : /\ Recurs(f, ScanStates, NothingScanned, Len(data), ScanStep(data))
                  /\ AnnexBUnits(data) = Ended(data, f[Len(data)], Len(data))
<1> DEFINE n == Len(data)
           Is(g) == g = [i \in 0..n |-> IF i = 0 THEN [units |-> <<>>, begin |-> 0] ELSE Scanned(data, g[i - 1], i)]
           f == CHOOSE g : Is(g)
<1>1. n \in Nat /\ NothingScanned \in ScanStates
  BY DEF NothingScanned, ScanStates
<1>2. ScanStep(data) \in [ScanStates \X (1..n) -> ScanStates]
  <2>1. \A a \in ScanStates \X (1..n) : Scanned(data, a[1], a[2]) \in ScanStates
    BY ScannedIs
  <2> QED
    BY <2>1 DEF ScanStep
<1>3. \A s \in ScanStates, i \in 1..n : ScanStep(data)[<<s, i>>] = Scanned(data, s, i)
  BY DEF ScanStep
<1>4. PICK g : Recurs(g, ScanStates, NothingScanned, n, ScanStep(data))
  <2> HIDE DEF n
  <2> QED
    BY <1>1, <1>2, SomeRecursion
<1>5. Is(g)
  <2>1. g = [i \in 0..n |-> g[i]] /\ g[0] = NothingScanned
    BY <1>4 DEF Recurs
  <2>2. ASSUME NEW i \in 0..n, i # 0 PROVE g[i] = Scanned(data, g[i - 1], i)
    <3>1. i \in 1..n /\ i - 1 \in 0..n
      BY <2>2, <1>1
    <3>2. g[i] = ScanStep(data)[<<g[i - 1], i>>] /\ g[i - 1] \in ScanStates
      BY <3>1, <1>4 DEF Recurs
    <3> QED
      BY <3>1, <3>2, <1>3
  <2> HIDE DEF n
  <2> QED
    BY <2>1, <2>2 DEF NothingScanned
<1>6. Is(f)
  <2> HIDE DEF Is
  <2> QED
    BY <1>5
<1>7. AnnexBUnits(data) = Ended(data, f[n], n)
  BY DEF AnnexBUnits
<1> HIDE DEF f
<1>8. Recurs(f, ScanStates, NothingScanned, n, ScanStep(data))
  <2>1. DOMAIN f = 0..n /\ f = [i \in DOMAIN f |-> f[i]] /\ f[0] = NothingScanned
    BY <1>6, <1>1 DEF NothingScanned
  <2>2. \A i \in 1..n : f[i - 1] \in ScanStates => f[i] = ScanStep(data)[<<f[i - 1], i>>]
    <3> SUFFICES ASSUME NEW i \in 1..n, f[i - 1] \in ScanStates PROVE f[i] = ScanStep(data)[<<f[i - 1], i>>]
      OBVIOUS
    <3>1. i \in 0..n /\ i # 0
      BY <1>1
    <3>2. f[i] = Scanned(data, f[i - 1], i)
      BY <1>6, <3>1
    <3> QED
      BY <3>2, <1>3
  <2> HIDE DEF n, Is
  <2> QED
    BY <1>1, <1>2, <2>1, <2>2, ItRecurs
<1> QED
  BY <1>7, <1>8

\* What no start code hides in, and no zero is lost of: a NAL unit.
Clean(u) == /\ u \in Seq(Byte) /\ u # <<>> /\ u[1] # 0 /\ u[Len(u)] # 0
            /\ \A i \in 1..Len(u) : ~IsCode(u, i)

StartCodes == {<<0, 0, 1>>, <<0, 0, 0, 1>>}

\* The two start codes, byte by byte.
LEMMA CodeIs ==
    ASSUME NEW code \in StartCodes
    PROVE  /\ code \in Seq(Byte) /\ Len(code) \in {3, 4}
           /\ code[1] = 0 /\ code[2] = 0
           /\ Len(code) = 3 => code[3] = 1
           /\ Len(code) = 4 => code[3] = 0 /\ code[4] = 1
<1>1. CASE code = <<0, 0, 1>>
  BY <1>1 DEF Byte
<1>2. CASE code = <<0, 0, 0, 1>>
  BY <1>2 DEF Byte
<1> QED
  BY <1>1, <1>2 DEF StartCodes

\* What is before a start code is scanned as if nothing followed.
LEMMA ScannedBefore ==
    ASSUME NEW s \in Seq(Byte), s # <<>> => s[Len(s)] # 0, NEW t \in Seq(Byte),
           NEW st \in ScanStates, NEW i \in 1..Len(s)
    PROVE  Scanned(s \o t, st, i) = Scanned(s, st, i)
<1> DEFINE d == s \o t
           n == Len(s)
           end == IF i > 1 /\ s[i - 1] = 0 THEN i - 2 ELSE i - 1
<1>1. d \in Seq(Byte) /\ Len(d) = n + Len(t) /\ n \in Nat /\ Len(t) \in Nat /\ \A j \in 1..n : d[j] = s[j]
  BY JoinIs
<1>2. s[n] # 0 /\ n \in 1..n
  BY <1>1
<1> HIDE DEF d, n
<1>3. IsCode(d, i) <=> IsCode(s, i)
  <2>1. CASE i + 2 <= n
    <3>1. d[i] = s[i] /\ d[i + 1] = s[i + 1] /\ d[i + 2] = s[i + 2] /\ i + 2 <= Len(d)
      BY <1>1, <2>1 DEF n
    <3> QED
      BY <3>1, <2>1 DEF IsCode, n
  <2>2. CASE i = n
    <3>1. d[i] # 0 /\ ~(i + 2 <= n)
      BY <1>1, <1>2, <2>2
    <3> QED
      BY <3>1 DEF IsCode, n
  <2>3. CASE i + 1 = n
    <3>1. d[i + 1] # 0 /\ ~(i + 2 <= n)
      BY <1>1, <1>2, <2>3
    <3> QED
      BY <3>1 DEF IsCode, n
  <2> QED
    BY <2>1, <2>2, <2>3, <1>1 DEF n
<1>4. i > 1 => d[i - 1] = s[i - 1]
  BY <1>1, SMTT(30) DEF n
<1>5. end \in 0..n
  BY <1>1 DEF n
<1>6. Ended(d, st, end) = Ended(s, st, end)
  <2>1. st.begin \in Nat
    BY DEF ScanStates
  <2>2. CASE st.begin = 0 \/ st.begin > end
    BY <2>2 DEF Ended
  <2>3. CASE ~(st.begin = 0 \/ st.begin > end)
    <3> HIDE DEF end
    <3> DEFINE b == st.begin
    <3>1. SubSeq(d, b, end) = SubSeq(s, b, end)
      <4>0. b \in Nat /\ ~(b = 0 \/ b > end)
        BY <2>1, <2>3
      <4> HIDE DEF b
      <4>1. b \in Nat \ {0} /\ end \in Nat /\ end <= Len(s) /\ end <= Len(d) /\ b <= end + 1
        BY <1>1, <1>5, <4>0 DEF n
      <4>2. /\ SubSeq(d, b, end) \in Seq(Byte) /\ Len(SubSeq(d, b, end)) = end - b + 1
            /\ \A j \in 1..(end - b + 1) : SubSeq(d, b, end)[j] = d[b + j - 1]
        BY <1>1, <4>1, PartIs
      <4>3. /\ SubSeq(s, b, end) \in Seq(Byte) /\ Len(SubSeq(s, b, end)) = end - b + 1
            /\ \A j \in 1..(end - b + 1) : /\ SubSeq(s, b, end)[j] = s[b + j - 1]
                                                  /\ b + j - 1 \in 1..n
        BY <4>1, PartIs DEF n
      <4>4. \A j \in 1..(end - b + 1) : SubSeq(d, b, end)[j] = SubSeq(s, b, end)[j]
        BY <4>2, <4>3, <1>1
      <4> HIDE DEF Byte
      <4> QED
        BY <4>2, <4>3, <4>4, SameSeq, SMTT(30), ZenonT(30)
    <3> QED
      BY <3>1 DEF Ended
  <2> QED
    BY <2>2, <2>3
<1>7. Scanned(d, st, i) = IF ~IsCode(d, i) THEN st ELSE [units |-> Ended(d, st, end), begin |-> i + 3]
  BY <1>4 DEF Scanned
<1>8. Scanned(s, st, i) = IF ~IsCode(s, i) THEN st ELSE [units |-> Ended(s, st, end), begin |-> i + 3]
  BY DEF Scanned
<1> HIDE DEF end
<1>9. Scanned(d, st, i) = Scanned(s, st, i)
  BY <1>3, <1>6, <1>7, <1>8
<1> QED
  BY <1>9 DEF d

\* One more unit behind a start code: it is what is found besides.
LEMMA OneMoreUnit ==
    ASSUME NEW s \in Seq(Byte), s # <<>> => s[Len(s)] # 0, NEW code \in StartCodes, NEW u, Clean(u)
    PROVE  AnnexBUnits((s \o code) \o u) = Append(AnnexBUnits(s), u)
<1> DEFINE n == Len(s)
           c == Len(code)
           t == code \o u
           d == s \o t
           m == Len(d)
<1>1. u \in Seq(Byte) /\ Len(u) \in Nat \ {0} /\ code \in Seq(Byte) /\ c \in {3, 4}
  BY CodeIs DEF Clean
<1>2. (s \o code) \o u = d
  BY <1>1, SMTT(30)
<1>3. /\ t \in Seq(Byte) /\ Len(t) = c + Len(u)
      /\ \A i \in 1..c : t[i] = code[i]
      /\ \A i \in 1..Len(u) : t[c + i] = u[i]
  <2>1. code \in Seq(Byte) /\ u \in Seq(Byte)
    BY <1>1
  <2> QED
    BY <2>1, JoinIs
<1> HIDE DEF t
<1>4. /\ d \in Seq(Byte) /\ m = n + c + Len(u) /\ n \in Nat
      /\ \A i \in 1..n : d[i] = s[i]
      /\ \A i \in 1..Len(t) : d[n + i] = t[i]
  <2>1. /\ d \in Seq(Byte) /\ Len(d) = Len(s) + Len(t) /\ Len(s) \in Nat
        /\ \A i \in 1..n : d[i] = s[i]
        /\ \A i \in 1..Len(t) : d[n + i] = t[i]
    <3>1. t \in Seq(Byte) /\ s \in Seq(Byte)
      BY <1>3
    <3> QED
      BY ONLY <3>1, JoinIs
  <2> QED
    BY <1>1, <1>3, <2>1
<1> HIDE DEF d, m
<1>5. /\ \A i \in 1..c : d[n + i] = code[i]
      /\ \A i \in 1..Len(u) : d[n + c + i] = u[i]
  <2>1. \A i \in 1..c : i \in 1..Len(t)
    BY <1>1, <1>3
  <2>2. ASSUME NEW i \in 1..Len(u) PROVE d[n + c + i] = u[i]
    <3>1. c + i \in 1..Len(t) /\ n + (c + i) = n + c + i
      BY <1>1, <1>3, <1>4
    <3> QED
      BY <3>1, <1>3, <1>4
  <2> QED
    BY <2>1, <2>2, <1>3, <1>4
<1>6. PICK f : /\ Recurs(f, ScanStates, NothingScanned, n, ScanStep(s))
               /\ AnnexBUnits(s) = Ended(s, f[n], n)
  BY UnitsAreScanned
<1>7. PICK g : /\ Recurs(g, ScanStates, NothingScanned, m, ScanStep(d))
               /\ AnnexBUnits(d) = Ended(d, g[m], m)
  BY <1>4, UnitsAreScanned DEF m
<1> DEFINE found == AnnexBUnits(s)
           last == [units |-> found, begin |-> n + c + 1]
<1>8. f[n] = g[n] /\ g[n] \in ScanStates
  <2>1. \A i \in 1..n : \A st \in ScanStates : ScanStep(s)[<<st, i>>] = ScanStep(d)[<<st, i>>]
    <3> SUFFICES ASSUME NEW i \in 1..n, NEW st \in ScanStates PROVE ScanStep(s)[<<st, i>>] = ScanStep(d)[<<st, i>>]
      OBVIOUS
    <3>1. i \in 1..Len(s) /\ i \in 1..Len(d)
      BY <1>1, <1>4 DEF m
    <3>2. Scanned(d, st, i) = Scanned(s, st, i)
      BY <1>3, ScannedBefore DEF d
    <3> QED
      BY <3>1, <3>2 DEF ScanStep
  <2>2. n \in Nat /\ n <= m /\ m \in Nat
    BY <1>1, <1>4
  <2>3. \A i \in 0..n : f[i] = g[i]
    <3> HIDE DEF n
    <3>1. /\ Recurs(f, ScanStates, NothingScanned, n, ScanStep(s))
          /\ Recurs(g, ScanStates, NothingScanned, m, ScanStep(d))
      BY <1>6, <1>7
    <3> QED
      BY ONLY <3>1, <2>1, <2>2, RecurAlike
  <2> QED
    BY <2>2, <2>3, <1>4, <1>7 DEF Recurs
<1>9. Ended(d, g[n], n) = found /\ found \in Seq(Seq(Byte))
  <2>1. g[n].begin \in Nat
    BY <1>8 DEF ScanStates
  <2>2. SubSeq(d, g[n].begin, n) = SubSeq(s, g[n].begin, n) \/ g[n].begin = 0 \/ g[n].begin > n
    <3> DEFINE b == g[n].begin
    <3> SUFFICES ASSUME b \in Nat \ {0}, b <= n PROVE SubSeq(d, b, n) = SubSeq(s, b, n)
      <4>1. b \in Nat /\ n \in Nat
        BY <2>1, <1>4
      <4> HIDE DEF b, n
      <4>2. b = 0 \/ b > n \/ (b \in Nat \ {0} /\ b <= n)
        BY <4>1
      <4> QED
        BY <4>2 DEF b
    <3>0. b \in Nat \ {0} /\ b <= n
      OBVIOUS
    <3> HIDE DEF b
    <3>1. n <= Len(s) /\ n <= Len(d) /\ b <= n + 1
      BY <1>4, <1>1, <3>0 DEF m
    <3>2. /\ SubSeq(d, b, n) \in Seq(Byte) /\ Len(SubSeq(d, b, n)) = n - b + 1
          /\ \A j \in 1..(n - b + 1) : SubSeq(d, b, n)[j] = d[b + j - 1]
      BY <1>4, <3>0, <3>1, PartIs
    <3>3. /\ SubSeq(s, b, n) \in Seq(Byte) /\ Len(SubSeq(s, b, n)) = n - b + 1
          /\ \A j \in 1..(n - b + 1) : SubSeq(s, b, n)[j] = s[b + j - 1] /\ b + j - 1 \in 1..n
      BY <1>4, <3>0, <3>1, PartIs
    <3>4. \A j \in 1..(n - b + 1) : SubSeq(d, b, n)[j] = SubSeq(s, b, n)[j]
      BY <3>2, <3>3, <1>4
    <3> QED
      BY <3>2, <3>3, <3>4, SameSeq
  <2>3. Ended(d, g[n], n) = Ended(s, g[n], n)
    BY <2>2 DEF Ended
  <2>4. Ended(s, g[n], n) \in Seq(Seq(Byte))
    <3>1. n \in 0..Len(s)
      BY <1>4
    <3> QED
      BY <1>8, <3>1, EndedIs
  <2> QED
    BY <2>3, <2>4, <1>6, <1>8
<1>10. ASSUME NEW i \in 1..Len(u) PROVE ~IsCode(d, n + c + i)
  <2>1. ~IsCode(u, i)
    BY DEF Clean
  <2>2. CASE i + 2 <= Len(u)
    <3>1. i \in 1..Len(u) /\ i + 1 \in 1..Len(u) /\ i + 2 \in 1..Len(u)
      BY <1>1, <2>2
    <3>2. /\ d[n + c + i] = u[i] /\ d[(n + c + i) + 1] = u[i + 1] /\ d[(n + c + i) + 2] = u[i + 2]
      <4>1. (n + c + i) + 1 = n + c + (i + 1) /\ (n + c + i) + 2 = n + c + (i + 2)
        BY <1>1, <1>4
      <4> QED
        BY <3>1, <4>1, <1>5
    <3> QED
      BY <2>1, <2>2, <3>2 DEF IsCode
  <2>3. CASE ~(i + 2 <= Len(u))
    <3>1. ~((n + c + i) + 2 <= m)
      BY <1>1, <1>4, <2>3
    <3> QED
      BY <3>1 DEF IsCode, m
  <2> QED
    BY <2>2, <2>3
<1>11. /\ \A i \in 1..m : g[i] = Scanned(d, g[i - 1], i)
  <2> SUFFICES ASSUME NEW i \in 1..m PROVE g[i] = Scanned(d, g[i - 1], i)
    OBVIOUS
  <2>1. i - 1 \in 0..m /\ i \in 1..Len(d)
    BY <1>1, <1>4 DEF m
  <2>2. g[i - 1] \in ScanStates /\ g[i] = ScanStep(d)[<<g[i - 1], i>>]
    BY <1>7, <2>1 DEF Recurs
  <2> QED
    BY <2>1, <2>2 DEF ScanStep
<1>12. g[n + c] = last
  <2>1. CASE c = 3
    <3>1. d[n + 1] = 0 /\ d[n + 2] = 0 /\ d[n + 3] = 1
      <4>1. code[1] = 0 /\ code[2] = 0 /\ code[3] = 1
        BY <2>1, CodeIs
      <4> QED
        BY <4>1, <1>5, <2>1
    <3>2. n + 1 \in 1..m /\ n + 2 \in 1..m /\ n + 3 \in 1..m /\ (n + 1) - 1 = n /\ (n + 2) - 1 = n + 1 /\ (n + 3) - 1 = n + 2
      BY <1>1, <1>4, <2>1
    <3>3. IsCode(d, n + 1)
      BY <3>1, <3>2, <1>4 DEF IsCode, m
    <3>4. ~(n + 1 > 1 /\ d[n] = 0)
      BY <1>4
    <3>5. g[n + 1] = [units |-> Ended(d, g[n], n), begin |-> n + 4]
      <4>1. g[n + 1] = Scanned(d, g[n], n + 1)
        BY <1>11, <3>2
      <4>2. (n + 1) + 3 = n + 4
        BY <1>4
      <4> QED
        BY <4>1, <4>2, <3>2, <3>3, <3>4 DEF Scanned
    <3>6. ~IsCode(d, n + 2) /\ ~IsCode(d, n + 3)
      BY <3>1, <1>4 DEF IsCode
    <3>7. g[n + 2] = g[n + 1] /\ g[n + 3] = g[n + 2]
      BY <1>11, <3>2, <3>6 DEF Scanned
    <3>8. n + 4 = n + c + 1 /\ n + c = n + 3
      BY <1>4, <2>1
    <3> QED
      BY <3>5, <3>7, <3>8, <1>9
  <2>2. CASE c = 4
    <3>1. d[n + 1] = 0 /\ d[n + 2] = 0 /\ d[n + 3] = 0 /\ d[n + 4] = 1
      <4>1. code[1] = 0 /\ code[2] = 0 /\ code[3] = 0 /\ code[4] = 1
        BY <2>2, CodeIs
      <4> QED
        BY <4>1, <1>5, <2>2
    <3>2. /\ n + 1 \in 1..m /\ n + 2 \in 1..m /\ n + 3 \in 1..m /\ n + 4 \in 1..m
          /\ (n + 1) - 1 = n /\ (n + 2) - 1 = n + 1 /\ (n + 3) - 1 = n + 2 /\ (n + 4) - 1 = n + 3
      BY <1>1, <1>4, <2>2
    <3>3. IsCode(d, n + 2) /\ ~IsCode(d, n + 1)
      <4>1. (n + 2) + 2 = n + 4 /\ (n + 2) + 1 = n + 3 /\ (n + 1) + 2 = n + 3 /\ n + 4 <= m
        BY <1>4, <3>2
      <4> QED
        BY <3>1, <4>1, <1>4 DEF IsCode, m
    <3>4. n + 2 > 1 /\ (n + 2) - 2 = n /\ (n + 2) + 3 = n + 5
      BY <1>4
    <3>5. g[n + 1] = g[n]
      BY <1>11, <3>2, <3>3 DEF Scanned
    <3>6. g[n + 2] = [units |-> Ended(d, g[n], n), begin |-> n + 5]
      <4>1. g[n + 2] = Scanned(d, g[n], n + 2)
        BY <1>11, <3>2, <3>5
      <4> QED
        BY <4>1, <3>1, <3>2, <3>3, <3>4 DEF Scanned
    <3>7. ~IsCode(d, n + 3) /\ ~IsCode(d, n + 4)
      <4>1. (n + 3) + 1 = n + 4
        BY <1>4
      <4> QED
        BY <3>1, <4>1 DEF IsCode
    <3>8. g[n + 3] = g[n + 2] /\ g[n + 4] = g[n + 3]
      BY <1>11, <3>2, <3>7 DEF Scanned
    <3>9. n + 5 = n + c + 1 /\ n + c = n + 4
      BY <1>4, <2>2
    <3> QED
      BY <3>6, <3>8, <3>9, <1>9
  <2> QED
    BY <1>1, <2>1, <2>2
<1> HIDE DEF last
<1>13. g[m] = last
  <2> DEFINE l == Len(u)
             T == {i \in 0..l : g[n + c + i] = last}
  <2>0. l \in Nat /\ n + c \in Nat /\ n + c + 0 = n + c /\ m = n + c + l
    BY <1>1, <1>4
  <2>1. 0 \in T
    BY <1>12, <2>0
  <2>2. \A i \in 1..l : i - 1 \in T => i \in T
    <3> SUFFICES ASSUME NEW i \in 1..l, i - 1 \in T PROVE i \in T
      OBVIOUS
    <3>1. g[n + c + (i - 1)] = last /\ i \in 0..l
      OBVIOUS
    <3>2. n + c + i \in 1..m /\ (n + c + i) - 1 = n + c + (i - 1)
      BY <2>0
    <3>3. g[n + c + i] = g[n + c + (i - 1)]
      BY <3>2, <1>10, <1>11 DEF Scanned
    <3> QED
      BY <3>1, <3>3
  <2> HIDE DEF T, l
  <2>3. 0..l \subseteq T
    BY <2>0, <2>1, <2>2, FirstNumbers
  <2>4. l \in T
    BY <2>0, <2>3
  <2> QED
    BY <2>0, <2>4 DEF T
<1>14. Ended(d, last, m) = Append(found, u)
  <2>1. last.units = found /\ last.begin = n + c + 1 /\ last.begin # 0 /\ ~(last.begin > m)
    BY <1>1, <1>4 DEF last
  <2>2. SubSeq(d, n + c + 1, m) = u
    <3>1. n + c + 1 \in Nat \ {0} /\ m \in Nat /\ m <= Len(d) /\ n + c + 1 <= m + 1 /\ m - (n + c + 1) + 1 = Len(u)
      BY <1>1, <1>4 DEF m
    <3> DEFINE q == SubSeq(d, n + c + 1, m)
    <3>2. /\ q \in Seq(Byte) /\ Len(q) = m - (n + c + 1) + 1
          /\ \A j \in 1..(m - (n + c + 1) + 1) : q[j] = d[(n + c + 1) + j - 1]
      BY <1>4, <3>1, PartIs
    <3> HIDE DEF q
    <3>3. \A j \in 1..Len(q) : q[j] = u[j]
      <4> SUFFICES ASSUME NEW j \in 1..Len(u) PROVE q[j] = u[j]
        BY <3>1, <3>2
      <4>1. (n + c + 1) + j - 1 = n + c + j
        BY <1>1, <1>4
      <4> QED
        BY <4>1, <3>1, <3>2, <1>5
    <3>4. q = u
      <4> HIDE DEF Byte
      <4> QED
        BY <3>1, <3>2, <3>3, <1>1, SameSeq
    <3> QED
      BY <3>4 DEF q
  <2> QED
    BY <2>1, <2>2 DEF Ended
<1> QED
  BY <1>2, <1>7, <1>13, <1>14

-----------------------------------------------------------------------------
(* The emulation prevention, and its undoing.                              *)

\* What is written so far holds nothing that reads like a start code, and the zeros at its end
\* are counted.
Wary(s) ==
    LET n == Len(s.out)
    IN  /\ \A j \in 1..n : j + 2 <= n /\ s.out[j] = 0 /\ s.out[j + 1] = 0 => s.out[j + 2] > 2
        /\ n > 0 /\ s.out[n] = 0 => s.zeros > 0
        /\ n > 1 /\ s.out[n] = 0 /\ s.out[n - 1] = 0 => s.zeros = 2

Escapes == {s \in [out : Seq(Byte), zeros : 0..2] : Wary(s)}

NothingOut == [out |-> <<>>, zeros |-> 0]

\* A byte that is written is the last of what has been written, escaped or not.
LEMMA PutIs ==
    ASSUME NEW s \in Escapes, NEW b \in Byte
    PROVE  /\ Put(s, b) \in Escapes
           /\ Len(Put(s, b).out) \in Nat \ {0} /\ Put(s, b).out[Len(Put(s, b).out)] = b
<1> DEFINE q == s.out
           n == Len(q)
           z == s.zeros
           r == Put(s, b)
<1>1. /\ q \in Seq(Byte) /\ n \in Nat /\ z \in 0..2 /\ b \in 0..255 /\ \A j \in 1..n : q[j] \in 0..255
      /\ \A j \in 1..n : j + 2 <= n /\ q[j] = 0 /\ q[j + 1] = 0 => q[j + 2] > 2
      /\ n > 0 /\ q[n] = 0 => z > 0
      /\ n > 1 /\ q[n] = 0 /\ q[n - 1] = 0 => z = 2
  <2>1. q \in Seq(Byte) /\ z \in 0..2 /\ Wary(s)
    BY DEF Escapes
  <2>2. n \in Nat /\ \A j \in 1..n : q[j] \in Byte
    BY <2>1
  <2>3. b \in 0..255 /\ \A j \in 1..n : q[j] \in 0..255
    BY <2>2 DEF Byte
  <2>4. /\ \A j \in 1..n : j + 2 <= n /\ q[j] = 0 /\ q[j + 1] = 0 => q[j + 2] > 2
        /\ n > 0 /\ q[n] = 0 => z > 0
        /\ n > 1 /\ q[n] = 0 /\ q[n - 1] = 0 => z = 2
    BY <2>1 DEF Wary
  <2> QED
    BY <2>1, <2>2, <2>3, <2>4
<1>2. CASE z = 2 /\ b <= 3
  <2> DEFINE o == q \o <<3, b>>
             y == IF b = 0 THEN 1 ELSE 0
  <2>1. r = [out |-> o, zeros |-> y]
    BY <1>2 DEF Put
  <2>2. <<3, b>> \in Seq(Byte) /\ Len(<<3, b>>) = 2 /\ <<3, b>>[1] = 3 /\ <<3, b>>[2] = b
    BY DEF Byte
  <2>3. /\ o \in Seq(Byte) /\ Len(o) = n + 2 /\ o[n + 1] = 3 /\ o[n + 2] = b
        /\ \A j \in 1..n : o[j] = q[j]
    <3> HIDE DEF q
    <3>1. q \in Seq(Byte)
      BY <1>1
    <3> DEFINE x == <<3, b>>
    <3>0. x \in Seq(Byte)
      BY <2>2
    <3>2. Len(x) = 2 /\ x[1] = 3 /\ x[2] = b
      BY <2>2
    <3> HIDE DEF x
    <3>3. /\ q \o x \in Seq(Byte) /\ Len(q \o x) = Len(q) + Len(x)
          /\ \A i \in 1..Len(q) : (q \o x)[i] = q[i]
          /\ \A i \in 1..Len(x) : (q \o x)[Len(q) + i] = x[i]
      BY ONLY <3>0, <3>1, JoinIs
    <3>4. 1 \in 1..Len(x) /\ 2 \in 1..Len(x)
      BY <3>2
    <3> QED
      BY <3>2, <3>3, <3>4 DEF x
  <2>4. y \in 0..2
    OBVIOUS
  <2> HIDE DEF o, y
  <2>5. r \in [out : Seq(Byte), zeros : 0..2] /\ r.out = o /\ r.zeros = y
    BY <2>1, <2>3, <2>4
  <2>6. ASSUME NEW j \in 1..(n + 2), j + 2 <= n + 2, o[j] = 0, o[j + 1] = 0 PROVE o[j + 2] > 2
    <3>1. j \in 1..n /\ j + 1 # n + 1 /\ j # n + 1
      BY <1>1, <2>3, <2>6, SMTT(30)
    <3>2. CASE j + 2 = n + 1
      BY <2>3, <3>2
    <3>3. CASE j + 2 # n + 1
      <4>1. j + 2 <= n /\ j + 1 \in 1..n /\ j + 2 \in 1..n
        BY <1>1, <2>6, <3>1, <3>3, SMTT(30)
      <4> QED
        BY <1>1, <2>3, <2>6, <3>1, <4>1
    <3> QED
      BY <3>2, <3>3
  <2>7. Wary(r)
    <3>1. b = 0 => y > 0
      BY DEF y
    <3>2. ~(o[n + 2] = 0 /\ o[(n + 2) - 1] = 0)
      BY <2>3, <1>1
    <3> HIDE DEF r
    <3> QED
      BY <2>3, <2>5, <2>6, <3>1, <3>2, <1>1 DEF Wary
  <2> HIDE DEF r
  <2>8. r \in Escapes /\ Len(r.out) \in Nat \ {0} /\ r.out[Len(r.out)] = b
    BY <2>3, <2>5, <2>7, <1>1 DEF Escapes
  <2> QED
    BY <2>8 DEF r
<1>3. CASE ~(z = 2 /\ b <= 3)
  <2> DEFINE o == Append(q, b)
             y == IF b = 0 THEN z + 1 ELSE 0
  <2>1. r = [out |-> o, zeros |-> y]
    BY <1>3 DEF Put
  <2>3. /\ o \in Seq(Byte) /\ Len(o) = n + 1 /\ o[n + 1] = b
        /\ \A j \in 1..n : o[j] = q[j]
    <3> HIDE DEF q
    <3> QED
      BY <1>1, OneMoreIs
  <2>4. y \in 0..2 /\ (b = 0 => y = z + 1)
    BY <1>1, <1>3
  <2> HIDE DEF o, y
  <2>5. r \in [out : Seq(Byte), zeros : 0..2] /\ r.out = o /\ r.zeros = y
    BY <2>1, <2>3, <2>4
  <2>6. ASSUME NEW j \in 1..(n + 1), j + 2 <= n + 1, o[j] = 0, o[j + 1] = 0 PROVE o[j + 2] > 2
    <3>1. CASE j + 2 <= n
      <4>1. j \in 1..n /\ j + 1 \in 1..n /\ j + 2 \in 1..n
        BY <1>1, <3>1
      <4> QED
        BY <1>1, <2>3, <2>6, <3>1, <4>1
    <3>2. CASE j + 2 = n + 1
      <4>1. j + 1 = n /\ j = n - 1 /\ n > 1 /\ j \in 1..n /\ n \in 1..n
        BY <1>1, <3>2
      <4>2. q[n] = 0 /\ q[n - 1] = 0
        BY <2>3, <2>6, <4>1
      <4>3. z = 2
        BY <1>1, <4>1, <4>2
      <4> QED
        BY <1>1, <1>3, <2>3, <3>2, <4>3
    <3> QED
      BY <1>1, <2>6, <3>1, <3>2
  <2>7. Wary(r)
    <3>1. o[n + 1] = 0 => y > 0
      BY <1>1, <2>3, <2>4
    <3>2. ASSUME n + 1 > 1, o[n + 1] = 0, o[(n + 1) - 1] = 0 PROVE y = 2
      <4>1. n \in 1..n /\ (n + 1) - 1 = n
        BY <1>1, <3>2
      <4>2. q[n] = 0 /\ b = 0
        BY <2>3, <3>2, <4>1
      <4>3. z > 0 /\ z # 2
        BY <1>1, <1>3, <4>1, <4>2
      <4> QED
        BY <1>1, <2>4, <4>2, <4>3
    <3> HIDE DEF r
    <3> QED
      BY <2>3, <2>5, <2>6, <3>1, <3>2, <1>1 DEF Wary
  <2> HIDE DEF r
  <2>8. r \in Escapes /\ Len(r.out) \in Nat \ {0} /\ r.out[Len(r.out)] = b
    BY <2>3, <2>5, <2>7, <1>1 DEF Escapes
  <2> QED
    BY <2>8 DEF r
<1> QED
  BY <1>2, <1>3

EscapeStep(data) == [a \in Escapes \X (1..Len(data)) |-> Put(a[1], data[a[2]])]

\* Escaping goes over the data byte by byte: its loop as a sequence of states.
LEMMA EscapeRecurs ==
    ASSUME NEW data \in Seq(Byte)
    PROVE  \E f : /\ Recurs(f, Escapes, NothingOut, Len(data), EscapeStep(data))
                  /\ \A i \in 1..Len(data) : f[i] = Put(f[i - 1], data[i]) /\ f[i - 1] \in Escapes
                  /\ Escape(data) = f[Len(data)].out
<1> DEFINE n == Len(data)
           Is(g) == g = [i \in 0..n |-> IF i = 0 THEN [out |-> <<>>, zeros |-> 0] ELSE Put(g[i - 1], data[i])]
           f == CHOOSE g : Is(g)
<1>1. n \in Nat /\ NothingOut \in Escapes
  BY DEF NothingOut, Escapes, Wary
<1>2. EscapeStep(data) \in [Escapes \X (1..n) -> Escapes]
  <2>1. \A a \in Escapes \X (1..n) : Put(a[1], data[a[2]]) \in Escapes
    BY PutIs
  <2> QED
    BY <2>1 DEF EscapeStep
<1>3. \A s \in Escapes, i \in 1..n : EscapeStep(data)[<<s, i>>] = Put(s, data[i])
  BY DEF EscapeStep
<1>4. PICK g : Recurs(g, Escapes, NothingOut, n, EscapeStep(data))
  <2> HIDE DEF n
  <2> QED
    BY <1>1, <1>2, SomeRecursion
<1>5. Is(g)
  <2>1. g = [i \in 0..n |-> g[i]] /\ g[0] = NothingOut
    BY <1>4 DEF Recurs
  <2>2. ASSUME NEW i \in 0..n, i # 0 PROVE g[i] = Put(g[i - 1], data[i])
    <3>1. i \in 1..n /\ i - 1 \in 0..n
      BY <2>2, <1>1
    <3>2. g[i] = EscapeStep(data)[<<g[i - 1], i>>] /\ g[i - 1] \in Escapes
      BY <3>1, <1>4 DEF Recurs
    <3> QED
      BY <3>1, <3>2, <1>3
  <2> HIDE DEF n
  <2> QED
    BY <2>1, <2>2 DEF NothingOut
<1>6. Is(f)
  <2> HIDE DEF Is
  <2> QED
    BY <1>5
<1>7. Escape(data) = f[n].out
  BY DEF Escape
<1> HIDE DEF f
<1>8. Recurs(f, Escapes, NothingOut, n, EscapeStep(data))
  <2>1. DOMAIN f = 0..n /\ f = [i \in DOMAIN f |-> f[i]] /\ f[0] = NothingOut
    BY <1>6, <1>1 DEF NothingOut
  <2>2. \A i \in 1..n : f[i - 1] \in Escapes => f[i] = EscapeStep(data)[<<f[i - 1], i>>]
    <3> SUFFICES ASSUME NEW i \in 1..n, f[i - 1] \in Escapes PROVE f[i] = EscapeStep(data)[<<f[i - 1], i>>]
      OBVIOUS
    <3>1. i \in 0..n /\ i # 0
      BY <1>1
    <3>2. f[i] = Put(f[i - 1], data[i])
      BY <1>6, <3>1
    <3> QED
      BY <3>2, <1>3
  <2> HIDE DEF n, Is
  <2> QED
    BY <1>1, <1>2, <2>1, <2>2, ItRecurs
<1>9. ASSUME NEW i \in 1..n PROVE f[i] = Put(f[i - 1], data[i]) /\ f[i - 1] \in Escapes
  <2>1. i - 1 \in 0..n
    BY <1>1
  <2>2. f[i] = EscapeStep(data)[<<f[i - 1], i>>] /\ f[i - 1] \in Escapes
    BY <1>8, <2>1 DEF Recurs
  <2> QED
    BY <2>2, <1>3
<1> QED
  BY <1>7, <1>8, <1>9

\* What is escaped reads like no start code, and ends as it ended.
LEMMA EscapedIs ==
    ASSUME NEW data \in Seq(Byte)
    PROVE  /\ Escape(data) \in Seq(Byte)
           /\ \A i \in 1..Len(Escape(data)) : ~IsCode(Escape(data), i)
           /\ data # <<>> => /\ Escape(data) # <<>>
                             /\ Escape(data)[Len(Escape(data))] = data[Len(data)]
           /\ data = <<>> => Escape(data) = <<>>
<1> DEFINE n == Len(data)
           e == Escape(data)
<1>1. PICK f : /\ Recurs(f, Escapes, NothingOut, n, EscapeStep(data))
               /\ \A i \in 1..n : f[i] = Put(f[i - 1], data[i]) /\ f[i - 1] \in Escapes
               /\ e = f[n].out
  BY EscapeRecurs
<1>2. n \in 0..n /\ n \in Nat /\ f[n] \in Escapes
  BY <1>1 DEF Recurs
<1> HIDE DEF e
<1>3. e \in Seq(Byte) /\ Wary(f[n])
  BY <1>1, <1>2 DEF Escapes
<1>4. \A i \in 1..Len(e) : ~IsCode(e, i)
  <2>1. \A j \in 1..Len(e) : j + 2 <= Len(e) /\ e[j] = 0 /\ e[j + 1] = 0 => e[j + 2] > 2
    BY <1>1, <1>3 DEF Wary
  <2> QED
    BY <2>1 DEF IsCode
<1>5. ASSUME data # <<>> PROVE e # <<>> /\ e[Len(e)] = data[n]
  <2>1. n \in 1..n
    BY <1>2, <1>5
  <2>2. data[n] \in Byte /\ f[n] = Put(f[n - 1], data[n]) /\ f[n - 1] \in Escapes
    BY <1>1, <2>1
  <2>3. Len(e) \in Nat \ {0} /\ e[Len(e)] = data[n]
    BY <2>2, <1>1, PutIs
  <2> QED
    BY <2>3
<1>6. ASSUME data = <<>> PROVE e = <<>>
  BY <1>1, <1>6 DEF Recurs, NothingOut
<1> QED
  BY <1>3, <1>4, <1>5, <1>6 DEF e

-----------------------------------------------------------------------------
(* Sequences one after another, and numbers of several digits.             *)

\* Where each of the sequences is in what they are put together to.
Flat(flat, seqs, at) ==
    /\ at \in [0..Len(seqs) -> Nat] /\ at[0] = 0 /\ Len(flat) = at[Len(seqs)]
    /\ \A i \in 1..Len(seqs) :
          /\ at[i] = at[i - 1] + Len(seqs[i]) /\ at[i] <= Len(flat)
          /\ \A j \in 1..Len(seqs[i]) : flat[at[i - 1] + j] = seqs[i][j]

\* Sequences one after the other are a sequence, and there are the places where each begins.
LEMMA FlattenIs ==
    ASSUME NEW S, NEW seqs \in Seq(Seq(S))
    PROVE  FlattenSeq(seqs) \in Seq(S) /\ \E at : Flat(FlattenSeq(seqs), seqs, at)
<1> DEFINE n == Len(seqs)
           step == [a \in Seq(S) \X (1..n) |-> a[1] \o seqs[a[2]]]
<1>1. n \in Nat /\ \A i \in 1..n : seqs[i] \in Seq(S) /\ Len(seqs[i]) \in Nat
  <2>1. n \in Nat /\ \A i \in 1..n : seqs[i] \in Seq(S)
    OBVIOUS
  <2> QED
    BY <2>1
<1> HIDE DEF n
<1>2. step \in [Seq(S) \X (1..n) -> Seq(S)]
  <2>1. \A a \in Seq(S) \X (1..n) : a[1] \o seqs[a[2]] \in Seq(S)
    <3> SUFFICES ASSUME NEW a \in Seq(S) \X (1..n) PROVE a[1] \o seqs[a[2]] \in Seq(S)
      OBVIOUS
    <3>1. a[1] \in Seq(S) /\ seqs[a[2]] \in Seq(S)
      BY <1>1
    <3> QED
      BY <3>1, JoinIs
  <2> QED
    BY <2>1
<1>3. <<>> \in Seq(S)
  OBVIOUS
<1>4. \A s \in Seq(S), i \in 1..n : step[<<s, i>>] = s \o seqs[i]
  OBVIOUS
<1> HIDE DEF step
<1>5. PICK h : Recurs(h, Seq(S), <<>>, n, step)
  BY <1>1, <1>2, <1>3, SomeRecursion
<1>6. /\ \A i \in 0..n : h[i] \in Seq(S) /\ Len(h[i]) \in Nat
      /\ h[0] = <<>>
      /\ \A i \in 1..n : h[i] = h[i - 1] \o seqs[i] /\ i - 1 \in 0..n /\ i \in 0..n
  <2>1. \A i \in 0..n : h[i] \in Seq(S)
    BY <1>5 DEF Recurs
  <2>2. ASSUME NEW i \in 1..n PROVE h[i] = h[i - 1] \o seqs[i] /\ i - 1 \in 0..n /\ i \in 0..n
    <3>1. i - 1 \in 0..n /\ i \in 0..n
      BY <1>1
    <3>2. h[i] = step[<<h[i - 1], i>>]
      BY <1>5 DEF Recurs
    <3> QED
      BY <2>1, <3>1, <3>2, <1>4
  <2>3. \A i \in 0..n : Len(h[i]) \in Nat
    BY <2>1
  <2> QED
    BY <2>1, <2>2, <2>3, <1>5 DEF Recurs
<1>61. n # 0 => h[1] = seqs[1]
  <2> SUFFICES ASSUME n # 0 PROVE h[1] = seqs[1]
    OBVIOUS
  <2>1. 1 \in 1..n /\ 1 - 1 = 0
    BY <1>1
  <2>2. h[1] = h[0] \o seqs[1] /\ seqs[1] \in Seq(S) /\ h[0] = <<>>
    BY <2>1, <1>1, <1>6
  <2> QED
    BY <2>2, ConcatEmptySeq
<1>7. FlattenSeq(seqs) = h[n]
  <2>1. CASE n = 0
    <3>1. seqs = <<>>
      BY <2>1 DEF n
    <3> QED
      BY <2>1, <3>1, <1>6 DEF FlattenSeq, n
  <2>2. CASE n # 0
    <3> DEFINE Is(g) == g = [i \in 1..n |-> IF i = 1 THEN seqs[i] ELSE g[i - 1] \o seqs[i]]
               f == CHOOSE g : Is(g)
               k == [i \in 1..n |-> h[i]]
    <3>1. Is(k)
      <4>1. ASSUME NEW i \in 1..n PROVE h[i] = IF i = 1 THEN seqs[i] ELSE k[i - 1] \o seqs[i]
        <5>1. CASE i = 1
          <6> QED
            BY <2>2, <5>1, <1>61
        <5>2. CASE i # 1
          <6>1. i - 1 \in 1..n
            BY <1>1, <5>2
          <6> QED
            BY <1>6, <5>2, <6>1
        <5> QED
          BY <5>1, <5>2
      <4> QED
        BY <4>1
    <3>2. Is(f)
      <4> HIDE DEF Is, k
      <4> QED
        BY <3>1
    <3>3. FlattenSeq(seqs) = f[n]
      BY <2>2 DEF FlattenSeq, n
    <3> HIDE DEF f
    <3> DEFINE T == {i \in 0..n : i = 0 \/ f[i] = h[i]}
    <3>4. 0 \in T
      BY <1>1
    <3>5. \A i \in 1..n : i - 1 \in T => i \in T
      <4> SUFFICES ASSUME NEW i \in 1..n, i - 1 \in T PROVE i \in T
        OBVIOUS
      <4>1. f[i] = IF i = 1 THEN seqs[i] ELSE f[i - 1] \o seqs[i]
        BY <3>2
      <4>2. i \in 0..n /\ (i - 1 = 0 \/ f[i - 1] = h[i - 1])
        BY <1>1
      <4>3. CASE i = 1
        <5>2. f[i] = h[i]
          BY <4>1, <4>3, <2>2, <1>61
        <5> QED
          BY <4>2, <5>2
      <4>4. CASE i # 1
        <5>1. f[i - 1] = h[i - 1]
          BY <4>2, <4>4
        <5>2. f[i] = h[i]
          BY <4>1, <4>4, <5>1, <1>6
        <5> QED
          BY <4>2, <5>2
      <4> QED
        BY <4>3, <4>4
    <3>6. n \in T
      <4> HIDE DEF T
      <4>1. 0..n \subseteq T
        BY <1>1, <3>4, <3>5, FirstNumbers
      <4> QED
        BY <1>1, <4>1
    <3> QED
      BY <2>2, <3>3, <3>6
  <2> QED
    BY <2>1, <2>2
<1> DEFINE at == [i \in 0..n |-> Len(h[i])]
           Holds(k) == /\ \A i \in 1..k : /\ at[i] = at[i - 1] + Len(seqs[i]) /\ at[i] <= Len(h[k])
                                          /\ \A j \in 1..Len(seqs[i]) : h[k][at[i - 1] + j] = seqs[i][j]
           T == {k \in 0..n : Holds(k)}
<1>8. at \in [0..n -> Nat] /\ at[0] = 0 /\ \A i \in 0..n : at[i] = Len(h[i])
  <2>1. 0 \in 0..n /\ Len(<<>>) = 0
    BY <1>1
  <2> QED
    BY <1>6, <2>1
<1> HIDE DEF at
<1>9. 0 \in T
  BY <1>1
<1>10. \A k \in 1..n : k - 1 \in T => k \in T
  <2> SUFFICES ASSUME NEW k \in 1..n, k - 1 \in T PROVE k \in T
    OBVIOUS
  <2>1. Holds(k - 1) /\ k \in 0..n /\ k - 1 \in 0..n
    BY <1>1
  <2>2. /\ h[k] = h[k - 1] \o seqs[k] /\ h[k - 1] \in Seq(S) /\ seqs[k] \in Seq(S)
    BY <1>1, <1>6
  <2>3. /\ Len(h[k]) = Len(h[k - 1]) + Len(seqs[k]) /\ Len(h[k - 1]) \in Nat /\ Len(seqs[k]) \in Nat
        /\ \A i \in 1..Len(h[k - 1]) : h[k][i] = h[k - 1][i]
        /\ \A i \in 1..Len(seqs[k]) : h[k][Len(h[k - 1]) + i] = seqs[k][i]
    <3> DEFINE a == h[k - 1]
               b == seqs[k]
    <3>1. a \in Seq(S) /\ b \in Seq(S) /\ h[k] = a \o b
      BY <2>2
    <3> HIDE DEF a, b
    <3>2. /\ Len(a \o b) = Len(a) + Len(b) /\ Len(a) \in Nat /\ Len(b) \in Nat
          /\ \A i \in 1..Len(a) : (a \o b)[i] = a[i]
          /\ \A i \in 1..Len(b) : (a \o b)[Len(a) + i] = b[i]
      BY <3>1, JoinIs
    <3> QED
      BY <3>1, <3>2 DEF a, b
  <2>4. at[k] = Len(h[k]) /\ at[k - 1] = Len(h[k - 1])
    BY <1>8, <2>1
  <2>5. ASSUME NEW i \in 1..k
        PROVE  /\ at[i] = at[i - 1] + Len(seqs[i]) /\ at[i] <= Len(h[k])
               /\ \A j \in 1..Len(seqs[i]) : h[k][at[i - 1] + j] = seqs[i][j]
    <3>1. CASE i = k
      BY <3>1, <2>3, <2>4
    <3>2. CASE i # k
      <4>1. i \in 1..(k - 1) /\ i \in 1..n /\ i - 1 \in 0..n
        BY <1>1, <3>2
      <4>2. /\ at[i] = at[i - 1] + Len(seqs[i]) /\ at[i] <= Len(h[k - 1])
            /\ \A j \in 1..Len(seqs[i]) : h[k - 1][at[i - 1] + j] = seqs[i][j]
        BY <2>1, <4>1
      <4>3. at[i - 1] \in Nat /\ at[i] \in Nat /\ Len(seqs[i]) \in Nat
        BY <1>1, <1>6, <1>8, <4>1
      <4>a. at[i] <= Len(h[k - 1]) /\ at[i] = at[i - 1] + Len(seqs[i])
        BY <4>2
      <4>b. Len(h[k]) = Len(h[k - 1]) + Len(seqs[k]) /\ Len(h[k - 1]) \in Nat /\ Len(seqs[k]) \in Nat
        BY <2>3
      <4> DEFINE x == at[i]
                 w == at[i - 1]
                 v == Len(seqs[i])
                 y == Len(h[k - 1])
                 z == Len(seqs[k])
      <4>c. x \in Nat /\ w \in Nat /\ v \in Nat /\ y \in Nat /\ z \in Nat /\ x <= y /\ x = w + v /\ Len(h[k]) = y + z
        BY ONLY <4>a, <4>b, <4>3
      <4>4. at[i] <= Len(h[k])
        <5> HIDE DEF x, y, z, w, v
        <5>1. x <= y + z
          BY <4>c
        <5> QED
          BY <4>c, <5>1 DEF x
      <4>5. ASSUME NEW j \in 1..Len(seqs[i]) PROVE h[k][at[i - 1] + j] = seqs[i][j]
        <5>1. at[i - 1] + j \in 1..Len(h[k - 1])
          <6>1. j \in 1..v
            OBVIOUS
          <6> HIDE DEF x, y, z, w, v
          <6>2. w + j \in 1..y
            BY <4>c, <6>1
          <6> QED
            BY <6>2 DEF w, y
        <5> QED
          BY <5>1, <2>3, <4>2
      <4> QED
        BY <4>2, <4>4, <4>5
    <3> QED
      BY <3>1, <3>2
  <2> HIDE DEF at
  <2> QED
    BY <2>1, <2>5
<1>11. Holds(n)
  <2> HIDE DEF Holds
  <2>1. 0..n \subseteq T
    <3> HIDE DEF T
    <3> QED
      BY <1>1, <1>9, <1>10, FirstNumbers
  <2> QED
    BY <1>1, <2>1
<1>12. n \in 0..n
  BY <1>1
<1>13. h[n] \in Seq(S)
  BY <1>6, <1>12
<1>14. Flat(h[n], seqs, at)
  BY <1>8, <1>11, <1>12 DEF Flat, n
<1> QED
  BY <1>7, <1>13, <1>14

-----------------------------------------------------------------------------
NumberStep(base, digits) == [a \in Nat \X (1..Len(digits)) |-> base * a[1] + digits[a[2]]]

\* A number is read digit by digit: its sum as a sequence of sums.
LEMMA NumberRecurs ==
    ASSUME NEW base \in Nat, NEW digits \in Seq(Nat)
    PROVE  \E f : /\ f \in [0..Len(digits) -> Nat] /\ f[0] = 0
                  /\ \A i \in 1..Len(digits) : f[i] = base * f[i - 1] + digits[i]
                  /\ Number(base, digits) = f[Len(digits)]
<1> DEFINE n == Len(digits)
           Is(g) == g = [i \in 0..n |-> IF i = 0 THEN 0 ELSE base * g[i - 1] + digits[i]]
           f == CHOOSE g : Is(g)
           step == NumberStep(base, digits)
<1>1. n \in Nat /\ 0 \in Nat /\ \A i \in 1..n : digits[i] \in Nat
  OBVIOUS
<1>2. step \in [Nat \X (1..n) -> Nat]
  <2>1. \A a \in Nat \X (1..n) : base * a[1] + digits[a[2]] \in Nat
    <3> SUFFICES ASSUME NEW a \in Nat \X (1..n) PROVE base * a[1] + digits[a[2]] \in Nat
      OBVIOUS
    <3>1. a[1] \in Nat /\ digits[a[2]] \in Nat
      BY <1>1
    <3>2. base * a[1] \in Nat
      BY <3>1
    <3> QED
      BY <3>1, <3>2
  <2> QED
    BY <2>1 DEF NumberStep
<1>3. \A s \in Nat, i \in 1..n : step[<<s, i>>] = base * s + digits[i]
  BY DEF NumberStep
<1> HIDE DEF step
<1>4. PICK g : Recurs(g, Nat, 0, n, step)
  <2> HIDE DEF n
  <2> QED
    BY <1>1, <1>2, SomeRecursion
<1>5. Is(g)
  <2>1. g = [i \in 0..n |-> g[i]] /\ g[0] = 0
    BY <1>4 DEF Recurs
  <2>2. ASSUME NEW i \in 0..n, i # 0 PROVE g[i] = base * g[i - 1] + digits[i]
    <3>1. i \in 1..n /\ i - 1 \in 0..n
      BY <2>2, <1>1
    <3>2. g[i] = step[<<g[i - 1], i>>] /\ g[i - 1] \in Nat
      BY <3>1, <1>4 DEF Recurs
    <3> QED
      BY <3>1, <3>2, <1>3
  <2> HIDE DEF n
  <2> QED
    BY <2>1, <2>2
<1>6. Is(f)
  <2> HIDE DEF Is
  <2> QED
    BY <1>5
<1>7. Number(base, digits) = f[n]
  BY DEF Number
<1> HIDE DEF f
<1>8. DOMAIN f = 0..n /\ f = [i \in DOMAIN f |-> f[i]] /\ f[0] = 0
  BY <1>6, <1>1
<1>9. \A i \in 1..n : f[i] = base * f[i - 1] + digits[i]
  <2> SUFFICES ASSUME NEW i \in 1..n PROVE f[i] = base * f[i - 1] + digits[i]
    OBVIOUS
  <2>1. i \in 0..n /\ i # 0
    BY <1>1
  <2> HIDE DEF n
  <2> QED
    BY <1>6, <2>1
<1> HIDE DEF n, Is
<1>10. Recurs(f, Nat, 0, n, step)
  <2>1. \A i \in 1..n : f[i - 1] \in Nat => f[i] = step[<<f[i - 1], i>>]
    BY <1>3, <1>9
  <2> QED
    BY <1>1, <1>2, <1>8, <2>1, ItRecurs
<1> QED
  BY <1>7, <1>9, <1>10 DEF Recurs, n

\* A byte is a number up to 255.
LEMMA ByteIs == \A b : b \in Byte <=> b \in Nat /\ b <= 255
  BY DEF Byte

\* The lengths four and two bytes can say.
LEMMA LengthsAre ==
    /\ MaxUnitLength \in Nat /\ MaxUnitLength <= 2147483647
    /\ MaxSetLength \in Nat /\ MaxSetLength <= 65535 /\ MaxSetLength < MaxUnitLength
  BY SMTT(20) DEF MaxUnitLength, MaxSetLength

\* A function on the first numbers is a sequence.
LEMMA FunctionIsSeq ==
    ASSUME NEW S, NEW n \in Nat, NEW q \in [1..n -> S]
    PROVE  q \in Seq(S) /\ Len(q) = n
  OBVIOUS

\* A length in four bytes says it.
LEMMA FourBytes ==
    ASSUME NEW n \in 0..MaxUnitLength
    PROVE  BigEndian(n, 4) \in Seq(Byte) /\ Len(BigEndian(n, 4)) = 4 /\ Number(256, BigEndian(n, 4)) = n
<1> DEFINE q == BigEndian(n, 4)
<1>1. n \in Nat /\ n <= 2147483647
  <2>1. n \in Nat /\ n <= MaxUnitLength
    BY LengthsAre
  <2> QED
    BY SMTT(20), <2>1, LengthsAre
<1>2. q = [i \in 1..4 |-> (n \div Weight[4 - 4 + i]) % 256]
  BY SMTT(20) DEF BigEndian
<1>3. /\ 1 \in 1..4 /\ 2 \in 1..4 /\ 3 \in 1..4 /\ 4 \in 1..4
      /\ Weight[4 - 4 + 1] = 16777216 /\ Weight[4 - 4 + 2] = 65536
      /\ Weight[4 - 4 + 3] = 256 /\ Weight[4 - 4 + 4] = 1
  BY SMTT(20) DEF Weight
<1> HIDE DEF q
<1>4. /\ q[1] = (n \div 16777216) % 256 /\ q[2] = (n \div 65536) % 256
      /\ q[3] = (n \div 256) % 256 /\ q[4] = (n \div 1) % 256
  BY SMTT(20), <1>2, <1>3
<1>5. q[1] \in Nat /\ q[1] <= 255 /\ q[2] \in Nat /\ q[2] <= 255 /\ q[3] \in Nat /\ q[3] <= 255 /\ q[4] \in Nat /\ q[4] <= 255
  BY SMTT(20), <1>1, <1>4
<1>6. q \in [1..4 -> Byte] /\ q \in [1..4 -> Nat]
  <2>1. \A i \in 1..4 : i = 1 \/ i = 2 \/ i = 3 \/ i = 4
    OBVIOUS
  <2>2. \A i \in 1..4 : q[i] \in Byte
    BY <2>1, <1>5, ByteIs
  <2>3. q = [i \in 1..4 |-> q[i]]
    BY <1>2
  <2> QED
    BY <2>2, <2>3, ByteIs
<1>7. q \in Seq(Byte) /\ q \in Seq(Nat) /\ Len(q) = 4
  BY <1>6, FunctionIsSeq, ZenonT(40)
<1>8. PICK f : /\ f \in [0..4 -> Nat] /\ f[0] = 0
               /\ \A i \in 1..4 : f[i] = 256 * f[i - 1] + q[i]
               /\ Number(256, q) = f[4]
  <2>1. q \in Seq(Nat) /\ 256 \in Nat
    BY <1>7
  <2>2. \E f : /\ f \in [0..Len(q) -> Nat] /\ f[0] = 0
               /\ \A i \in 1..Len(q) : f[i] = 256 * f[i - 1] + q[i]
               /\ Number(256, q) = f[Len(q)]
    BY <2>1, NumberRecurs
  <2> QED
    BY <2>2, <1>7, ZenonT(40)
<1>9. f[1] = q[1] /\ f[2] = 256 * q[1] + q[2] /\ f[3] = 256 * f[2] + q[3] /\ f[4] = 256 * f[3] + q[4]
  <2>1. f[1] = 256 * f[1 - 1] + q[1] /\ f[2] = 256 * f[2 - 1] + q[2] /\ f[3] = 256 * f[3 - 1] + q[3] /\ f[4] = 256 * f[4 - 1] + q[4]
    BY <1>3, <1>8
  <2> QED
    BY <2>1, <1>8, <1>5
<1>10. f[4] = n
  <2> DEFINE a == n \div 256
             b == n \div 65536
             c == n \div 16777216
  <2>1. n = 256 * a + q[4] /\ a = 256 * b + q[3] /\ b = 256 * c + q[2] /\ c = q[1]
    BY SMTT(20), <1>1, <1>4
  <2>2. a \in Nat /\ b \in Nat /\ c \in Nat
    BY SMTT(20), <1>1
  <2> HIDE DEF a, b, c
  <2> QED
    BY <1>5, <1>9, <2>1, <2>2
<1> QED
  BY <1>7, <1>8, <1>10 DEF q

\* And one in two bytes.
LEMMA TwoBytes ==
    ASSUME NEW n \in 0..MaxSetLength
    PROVE  BigEndian(n, 2) \in Seq(Byte) /\ Len(BigEndian(n, 2)) = 2 /\ Number(256, BigEndian(n, 2)) = n
<1> DEFINE q == BigEndian(n, 2)
<1>1. n \in Nat /\ n <= 65535
  <2>1. n \in Nat /\ n <= MaxSetLength
    BY LengthsAre
  <2> QED
    BY SMTT(20), <2>1, LengthsAre
<1>2. q = [i \in 1..2 |-> (n \div Weight[4 - 2 + i]) % 256]
  BY SMTT(20) DEF BigEndian
<1>3. 1 \in 1..2 /\ 2 \in 1..2 /\ Weight[4 - 2 + 1] = 256 /\ Weight[4 - 2 + 2] = 1
  BY SMTT(20) DEF Weight
<1> HIDE DEF q
<1>4. q[1] = (n \div 256) % 256 /\ q[2] = (n \div 1) % 256
  BY SMTT(20), <1>2, <1>3
<1>5. q[1] \in Nat /\ q[1] <= 255 /\ q[2] \in Nat /\ q[2] <= 255
  BY SMTT(20), <1>1, <1>4
<1>6. q \in [1..2 -> Byte] /\ q \in [1..2 -> Nat]
  <2>1. \A i \in 1..2 : i = 1 \/ i = 2
    OBVIOUS
  <2>2. \A i \in 1..2 : q[i] \in Byte
    BY <2>1, <1>5, ByteIs
  <2>3. q = [i \in 1..2 |-> q[i]]
    BY <1>2
  <2> QED
    BY <2>2, <2>3, ByteIs
<1>7. q \in Seq(Byte) /\ q \in Seq(Nat) /\ Len(q) = 2
  BY ONLY <1>6, SMTT(30)
<1>8. PICK f : /\ f \in [0..2 -> Nat] /\ f[0] = 0
               /\ \A i \in 1..2 : f[i] = 256 * f[i - 1] + q[i]
               /\ Number(256, q) = f[2]
  BY <1>7, NumberRecurs
<1>9. f[1] = q[1] /\ f[2] = 256 * q[1] + q[2]
  <2>1. f[1] = 256 * f[1 - 1] + q[1] /\ f[2] = 256 * f[2 - 1] + q[2]
    BY <1>3, <1>8
  <2> QED
    BY <2>1, <1>8, <1>5
<1>10. f[2] = n
  <2>1. n = 256 * q[1] + q[2]
    BY SMTT(20), <1>1, <1>4
  <2> QED
    BY <1>5, <1>9, <2>1
<1> QED
  BY <1>7, <1>8, <1>10 DEF q

-----------------------------------------------------------------------------
(* to_avcc and what takes a recorded frame apart.                          *)

\* A sequence stands in another, from a place on.
Stands(data, p, s) ==
    p + Len(s) <= Len(data) + 1 /\ \A j \in 1..Len(s) : data[p + j - 1] = s[j]

\* What stands there is what is cut out there.
LEMMA StandsIs ==
    ASSUME NEW S, NEW data \in Seq(S), NEW p \in Nat \ {0}, NEW s \in Seq(S), Stands(data, p, s)
    PROVE  SubSeq(data, p, p + Len(s) - 1) = s
<1> DEFINE n == Len(s)
           e == p + n - 1
<1>1. n \in Nat /\ Len(data) \in Nat /\ p + n <= Len(data) + 1
  BY DEF Stands
<1>2. e \in Nat /\ e <= Len(data) /\ p <= e + 1 /\ e - p + 1 = n
  BY <1>1
<1> HIDE DEF e
<1>3. /\ SubSeq(data, p, e) \in Seq(S) /\ Len(SubSeq(data, p, e)) = e - p + 1
      /\ \A i \in 1..(e - p + 1) : SubSeq(data, p, e)[i] = data[p + i - 1]
  BY <1>2, PartIs
<1>4. \A i \in 1..n : SubSeq(data, p, e)[i] = s[i]
  BY <1>2, <1>3 DEF Stands
<1>5. SubSeq(data, p, e) = s
  BY <1>2, <1>3, <1>4, SameSeq
<1> QED
  BY <1>5 DEF e

\* Of two that follow each other, each stands where it is.
LEMMA BothStand ==
    ASSUME NEW S, NEW s \in Seq(S), NEW t \in Seq(S), NEW data, NEW p \in Nat \ {0}, Len(data) \in Nat
    PROVE  Stands(data, p, s \o t) <=> Stands(data, p, s) /\ Stands(data, p + Len(s), t)
<1> DEFINE q == s \o t
           m == Len(s)
           n == Len(t)
<1>1. /\ Len(q) = m + n /\ m \in Nat /\ n \in Nat
      /\ \A i \in 1..m : q[i] = s[i]
      /\ \A i \in 1..n : q[m + i] = t[i]
  BY JoinIs
<1> HIDE DEF q, m, n
<1>2. ASSUME Stands(data, p, q) PROVE Stands(data, p, s) /\ Stands(data, p + m, t)
  <2>1. p + (m + n) <= Len(data) + 1 /\ \A j \in 1..(m + n) : data[p + j - 1] = q[j]
    BY <1>1, <1>2 DEF Stands
  <2>2. p + m <= Len(data) + 1 /\ (p + m) + n <= Len(data) + 1
    BY <1>1, <2>1
  <2>3. \A j \in 1..m : data[p + j - 1] = s[j]
    <3> SUFFICES ASSUME NEW j \in 1..m PROVE data[p + j - 1] = s[j]
      OBVIOUS
    <3>1. j \in 1..(m + n)
      BY <1>1
    <3> QED
      BY <3>1, <1>1, <2>1
  <2>4. \A j \in 1..n : data[(p + m) + j - 1] = t[j]
    <3> SUFFICES ASSUME NEW j \in 1..n PROVE data[(p + m) + j - 1] = t[j]
      OBVIOUS
    <3>1. m + j \in 1..(m + n) /\ p + (m + j) - 1 = (p + m) + j - 1
      BY <1>1
    <3> QED
      BY <3>1, <1>1, <2>1
  <2> QED
    BY <2>2, <2>3, <2>4 DEF Stands, m, n
<1>3. ASSUME Stands(data, p, s), Stands(data, p + m, t) PROVE Stands(data, p, q)
  <2>1. /\ p + m <= Len(data) + 1 /\ \A j \in 1..m : data[p + j - 1] = s[j]
        /\ (p + m) + n <= Len(data) + 1 /\ \A j \in 1..n : data[(p + m) + j - 1] = t[j]
    BY <1>3 DEF Stands, m, n
  <2>2. p + (m + n) <= Len(data) + 1
    BY <1>1, <2>1
  <2>3. \A j \in 1..(m + n) : data[p + j - 1] = q[j]
    <3> SUFFICES ASSUME NEW j \in 1..(m + n) PROVE data[p + j - 1] = q[j]
      OBVIOUS
    <3>1. CASE j <= m
      <4>1. j \in 1..m
        BY <1>1, <3>1
      <4> QED
        BY <4>1, <1>1, <2>1
    <3>2. CASE ~(j <= m)
      <4>1. j - m \in 1..n /\ m + (j - m) = j /\ (p + m) + (j - m) - 1 = p + j - 1
        BY <1>1, <3>2, SMTT(30)
      <4>2. q[m + (j - m)] = t[j - m]
        BY <4>1, <1>1
      <4>3. data[(p + m) + (j - m) - 1] = t[j - m]
        BY <4>1, <2>1
      <4> QED
        BY <4>1, <4>2, <4>3
    <3> QED
      BY <3>1, <3>2
  <2> QED
    BY <1>1, <2>2, <2>3 DEF Stands
<1> QED
  BY <1>2, <1>3 DEF q, m

\* A unit behind its length is read.
LEMMA ReadNalIs ==
    ASSUME NEW data \in Seq(Byte), NEW u \in Seq(Byte), NEW big \in Seq(Byte), NEW r, NEW q,
           Number(256, big) = Len(u), r.cursor \in Nat \ {0},
           Stands(data, r.cursor, big), Stands(data, r.cursor + Len(big), u),
           q = [nals |-> Append(r.nals, u), cursor |-> (r.cursor + Len(big)) + Len(u)]
    PROVE  ReadNal(data, r, Len(big)) = q
<1> DEFINE n == Len(u)
           bytes == Len(big)
           c == r.cursor
           b == c + bytes
<1>1. n \in Nat /\ bytes \in Nat /\ b \in Nat \ {0}
  OBVIOUS
<1>4. SubSeq(data, c, c + bytes - 1) = big
  BY StandsIs
<1>5. SubSeq(data, b, b + n - 1) = u
  BY <1>1, StandsIs
<1>6. Number(256, SubSeq(data, r.cursor, r.cursor + bytes - 1)) = n
  BY <1>4
<1>7. SubSeq(data, r.cursor + bytes, r.cursor + bytes + n - 1) = u
  BY <1>5
<1>8. ReadNal(data, r, bytes) =
        [nals |-> Append(r.nals, SubSeq(data, r.cursor + bytes, r.cursor + bytes + n - 1)),
         cursor |-> r.cursor + bytes + n]
  <2> HIDE DEF n, bytes
  <2> QED
    BY <1>6 DEF ReadNal
<1> QED
  BY <1>7, <1>8

\* Units short enough for their length come out of a recorded frame as they went into it.
LEMMA FramesComeApart ==
    ASSUME NEW list \in Seq(Seq(Byte)), \A i \in 1..Len(list) : Len(list[i]) <= MaxUnitLength
    PROVE  AvccUnits(ToAvcc(list)) = list
<1> DEFINE n == Len(list)
           piece == [i \in 1..n |-> BigEndian(Len(list[i]), 4) \o list[i]]
           data == FlattenSeq(piece)
<1>1. n \in Nat /\ DOMAIN list = 1..n /\ \A i \in 1..n : list[i] \in Seq(Byte)
  OBVIOUS
<1>2. \A i \in 1..n : Len(list[i]) \in Nat
  BY <1>1
<1>3. ToAvcc(list) = data
  BY <1>1 DEF ToAvcc
<1>4. ASSUME NEW i \in 1..n
      PROVE  /\ BigEndian(Len(list[i]), 4) \in Seq(Byte) /\ Len(BigEndian(Len(list[i]), 4)) = 4
             /\ Number(256, BigEndian(Len(list[i]), 4)) = Len(list[i])
             /\ piece[i] \in Seq(Byte) /\ Len(piece[i]) = 4 + Len(list[i])
             /\ \A j \in 1..4 : piece[i][j] = BigEndian(Len(list[i]), 4)[j]
             /\ \A j \in 1..Len(list[i]) : piece[i][4 + j] = list[i][j]
  <2> DEFINE l == Len(list[i])
             x == BigEndian(l, 4)
             u == list[i]
  <2>1. l \in 0..MaxUnitLength
    BY <1>2, LengthsAre
  <2> HIDE DEF l
  <2>2. x \in Seq(Byte) /\ Len(x) = 4 /\ Number(256, x) = l
    BY <2>1, FourBytes
  <2> HIDE DEF x, u
  <2>3. u \in Seq(Byte) /\ Len(u) = l /\ l \in Nat
    BY <1>1, <1>2 DEF u, l
  <2>4. /\ x \o u \in Seq(Byte) /\ Len(x \o u) = Len(x) + Len(u)
        /\ \A j \in 1..Len(x) : (x \o u)[j] = x[j]
        /\ \A j \in 1..Len(u) : (x \o u)[Len(x) + j] = u[j]
    <3>1. x \in Seq(Byte) /\ u \in Seq(Byte)
      BY <2>2, <2>3
    <3> QED
      BY ONLY <3>1, JoinIs
  <2>5. piece[i] = x \o u
    BY DEF x, u, l
  <2> HIDE DEF piece
  <2>6. /\ piece[i] \in Seq(Byte) /\ Len(piece[i]) = 4 + l
        /\ \A j \in 1..4 : piece[i][j] = x[j]
        /\ \A j \in 1..l : piece[i][4 + j] = u[j]
    BY <2>2, <2>3, <2>4, <2>5
  <2> QED
    BY <2>2, <2>6 DEF x, u, l
<1>5. piece \in Seq(Seq(Byte)) /\ Len(piece) = n
  <2>1. piece \in [1..n -> Seq(Byte)]
    BY <1>4
  <2> HIDE DEF piece, n
  <2> QED
    BY <2>1, <1>1, FunctionIsSeq
<1> HIDE DEF piece
<1>6. data \in Seq(Byte) /\ \E at : Flat(data, piece, at)
  BY <1>5, FlattenIs
<1> HIDE DEF data
<1>7. PICK at : Flat(data, piece, at)
  BY <1>6
<1>8. /\ at \in [0..n -> Nat] /\ at[0] = 0 /\ Len(data) = at[n]
      /\ \A i \in 1..n :
            /\ at[i] = at[i - 1] + Len(piece[i]) /\ at[i] <= Len(data)
            /\ \A j \in 1..Len(piece[i]) : data[at[i - 1] + j] = piece[i][j]
  BY <1>5, <1>7 DEF Flat
<1>9. \A i \in 0..n : at[i] \in Nat /\ (i < n => at[i] < Len(data)) /\ i <= at[i]
  <2> DEFINE T == {i \in 0..n : i <= at[i]}
  <2>1. 0 \in T
    BY <1>1, <1>8
  <2>2. \A i \in 1..n : at[i] >= at[i - 1] + 4 /\ i - 1 \in 0..n /\ i \in 0..n /\ at[i - 1] \in Nat /\ at[i] \in Nat
    <3> SUFFICES ASSUME NEW i \in 1..n
                 PROVE at[i] >= at[i - 1] + 4 /\ i - 1 \in 0..n /\ i \in 0..n /\ at[i - 1] \in Nat /\ at[i] \in Nat
      OBVIOUS
    <3>1. i - 1 \in 0..n /\ i \in 0..n
      BY <1>1
    <3>2. at[i - 1] \in Nat /\ at[i] \in Nat
      BY <1>8, <3>1
    <3>3. at[i] = at[i - 1] + Len(piece[i]) /\ Len(piece[i]) = 4 + Len(list[i]) /\ Len(list[i]) \in Nat
      BY <1>2, <1>4, <1>8
    <3> QED
      BY <3>1, <3>2, <3>3, SMTT(30)
  <2>3. \A i \in 1..n : i - 1 \in T => i \in T
    BY <2>2
  <2>4. 0..n \subseteq T
    <3> HIDE DEF T
    <3> QED
      BY <1>1, <2>1, <2>3, FirstNumbers
  <2> SUFFICES ASSUME NEW i \in 0..n PROVE at[i] \in Nat /\ (i < n => at[i] < Len(data)) /\ i <= at[i]
    OBVIOUS
  <2>5. at[i] \in Nat /\ i <= at[i]
    BY <1>8, <2>4
  <2>6. ASSUME i < n PROVE at[i] < Len(data)
    <3>1. i + 1 \in 1..n /\ (i + 1) - 1 = i
      BY <1>1, <2>6
    <3>2. at[i + 1] >= at[i] + 4 /\ at[i + 1] <= Len(data) /\ at[i + 1] \in Nat
      BY <2>2, <3>1, <1>8
    <3>3. Len(data) \in Nat
      BY <1>6
    <3> QED
      BY <2>5, <3>2, <3>3
  <2> QED
    BY <2>5, <2>6
<1> DEFINE least(k) == IF k < n THEN k ELSE n
           state(k) == [nals |-> SubSeq(list, 1, k), cursor |-> 1 + at[k]]
           l == Len(data)
           Is(g) == g = [k \in 0..l |-> IF k = 0 THEN [nals |-> <<>>, cursor |-> 1] ELSE NextNal(data, g[k - 1])]
           f == CHOOSE g : Is(g)
           h == [k \in 0..l |-> state(least(k))]
<1>10. l \in Nat /\ n <= l
  <2>1. n \in 0..n
    BY <1>1
  <2> QED
    BY <1>1, <1>6, <1>8, <1>9, <2>1
<1>11. ASSUME NEW i \in 1..n PROVE NextNal(data, state(i - 1)) = state(i)
  <2> DEFINE u == list[i]
             big == BigEndian(Len(u), 4)
             c == 1 + at[i - 1]
  <2>1. i - 1 \in 0..n /\ i - 1 < n
    BY <1>1
  <2>2. c \in Nat \ {0} /\ ~(c > l)
    BY <2>1, <1>9, <1>10, SMTT(30)
  <2>3. /\ big \in Seq(Byte) /\ Len(big) = 4 /\ Number(256, big) = Len(u) /\ u \in Seq(Byte) /\ Len(u) \in Nat
        /\ Len(piece[i]) = 4 + Len(u)
        /\ \A j \in 1..4 : piece[i][j] = big[j]
        /\ \A j \in 1..Len(u) : piece[i][4 + j] = u[j]
    BY <1>1, <1>2, <1>4
  <2>4. /\ at[i] = at[i - 1] + Len(piece[i]) /\ at[i] <= l
        /\ \A j \in 1..Len(piece[i]) : data[at[i - 1] + j] = piece[i][j]
    BY <1>8
  <2>5. at[i] \in Nat /\ at[i - 1] \in Nat
    BY <2>1, <1>9
  <2> HIDE DEF u, big
  <2> DEFINE w == at[i - 1]
             v == at[i]
             p == Len(piece[i])
             y == Len(u)
  <2>a. /\ w \in Nat /\ v \in Nat /\ y \in Nat /\ p = 4 + y /\ v = w + p /\ c = 1 + w /\ v <= l /\ l \in Nat
    BY <2>3, <2>4, <2>5, <1>10
  <2>6. (c + 4) + Len(u) <= l + 1 /\ (c + 4) + Len(u) = 1 + at[i]
    <3> HIDE DEF w, v, p, y, c, l
    <3>1. (c + 4) + y <= l + 1 /\ (c + 4) + y = 1 + v
      BY <2>a
    <3> QED
      BY <3>1 DEF y, v
  <2>7. \A j \in 1..4 : data[c + j - 1] = big[j]
    <3> SUFFICES ASSUME NEW j \in 1..4 PROVE data[c + j - 1] = big[j]
      OBVIOUS
    <3>1. j \in 1..Len(piece[i]) /\ c + j - 1 = at[i - 1] + j
      <4> HIDE DEF w, v, p, y, c, l
      <4>1. j \in 1..p /\ c + j - 1 = w + j
        BY <2>a
      <4> QED
        BY <4>1 DEF p, w
    <3> QED
      BY <3>1, <2>3, <2>4
  <2>8. \A j \in 1..Len(u) : data[(c + 4) + j - 1] = u[j]
    <3> SUFFICES ASSUME NEW j \in 1..Len(u) PROVE data[(c + 4) + j - 1] = u[j]
      OBVIOUS
    <3>0. j \in 1..y
      OBVIOUS
    <3>1. 4 + j \in 1..Len(piece[i]) /\ (c + 4) + j - 1 = at[i - 1] + (4 + j)
      <4> HIDE DEF w, v, p, y, c, l
      <4>1. 4 + j \in 1..p /\ (c + 4) + j - 1 = w + (4 + j)
        BY <2>a, <3>0
      <4> QED
        BY <4>1 DEF p, w
    <3> QED
      BY <3>1, <2>3, <2>4
  <2>9. SubSeq(list, 1, i) = Append(SubSeq(list, 1, i - 1), u)
    <3> DEFINE a == SubSeq(list, 1, i - 1)
               b == SubSeq(list, 1, i)
    <3>1. i - 1 \in Nat /\ i \in Nat /\ i - 1 <= n /\ i <= n /\ 1 <= (i - 1) + 1 /\ 1 <= i + 1 /\ (i - 1) - 1 + 1 = i - 1 /\ i - 1 + 1 = i
      BY <1>1
    <3>2. /\ a \in Seq(Seq(Byte)) /\ Len(a) = (i - 1) - 1 + 1
          /\ \A k \in 1..((i - 1) - 1 + 1) : a[k] = list[1 + k - 1]
      BY <3>1, PartIs
    <3>3. /\ b \in Seq(Seq(Byte)) /\ Len(b) = i - 1 + 1
          /\ \A k \in 1..(i - 1 + 1) : b[k] = list[1 + k - 1]
      BY <3>1, PartIs
    <3> HIDE DEF a, b
    <3>4. /\ Append(a, u) \in Seq(Seq(Byte)) /\ Len(Append(a, u)) = Len(a) + 1
          /\ Append(a, u)[Len(a) + 1] = u /\ \A k \in 1..Len(a) : Append(a, u)[k] = a[k]
      <4>1. u \in Seq(Byte)
        BY <2>3
      <4> QED
        BY <3>2, <4>1, OneMoreIs
    <3>5. \A k \in 1..Len(b) : b[k] = Append(a, u)[k]
      <4> SUFFICES ASSUME NEW k \in 1..i PROVE b[k] = Append(a, u)[k]
        BY <3>1, <3>3
      <4>1. b[k] = list[k]
        BY <3>1, <3>3
      <4>2. CASE k = i
        BY <4>1, <4>2, <3>1, <3>2, <3>4 DEF u
      <4>3. CASE k # i
        <5>1. k \in 1..(i - 1) /\ 1 + k - 1 = k
          BY <4>3, <3>1
        <5> QED
          BY <5>1, <4>1, <3>1, <3>2, <3>4
      <4> QED
        BY <4>2, <4>3
    <3>6. Len(b) = Len(Append(a, u))
      BY <3>1, <3>2, <3>3, <3>4
    <3>7. b = Append(a, u)
      BY <3>3, <3>4, <3>5, <3>6, SameSeq
    <3> QED
      BY <3>7 DEF a, b
  <2>10. ReadNal(data, [nals |-> SubSeq(list, 1, i - 1), cursor |-> c], 4)
           = [nals |-> Append(SubSeq(list, 1, i - 1), u), cursor |-> (c + 4) + Len(u)]
    <3> HIDE DEF c
    <3>1. data \in Seq(Byte) /\ c \in Nat \ {0} /\ u \in Seq(Byte) /\ big \in Seq(Byte)
      BY <1>6, <2>2, <2>3
    <3>2. Len(big) = 4 /\ Number(256, big) = Len(u) /\ (c + 4) + Len(u) <= Len(data) + 1 /\ c + 4 <= Len(data) + 1
      <4>1. (c + 4) + Len(u) <= Len(data) + 1
        BY <2>6
      <4>2. Len(u) \in Nat /\ Len(data) \in Nat /\ c \in Nat
        BY <3>1
      <4> QED
        BY <2>3, <4>1, <4>2
    <3>3. Stands(data, c, big)
      BY <3>2, <2>7 DEF Stands
    <3>4. Stands(data, c + Len(big), u)
      BY <3>2, <2>8 DEF Stands
    <3> DEFINE before == [nals |-> SubSeq(list, 1, i - 1), cursor |-> c]
               after == [nals |-> Append(before.nals, u), cursor |-> (before.cursor + Len(big)) + Len(u)]
    <3>5. before.cursor = c /\ after = [nals |-> Append(before.nals, u), cursor |-> (before.cursor + Len(big)) + Len(u)]
      OBVIOUS
    <3>6. before.nals = SubSeq(list, 1, i - 1)
      OBVIOUS
    <3> HIDE DEF before, after
    <3>7. ReadNal(data, before, Len(big)) = after
      <4>1. before.cursor \in Nat \ {0} /\ Stands(data, before.cursor, big) /\ Stands(data, before.cursor + Len(big), u)
        BY <3>1, <3>3, <3>4, <3>5
      <4>2. data \in Seq(Byte) /\ u \in Seq(Byte) /\ big \in Seq(Byte) /\ Number(256, big) = Len(u)
        BY <3>1, <3>2
      <4>3. after = [nals |-> Append(before.nals, u), cursor |-> (before.cursor + Len(big)) + Len(u)]
        BY <3>5
      <4> QED
        BY <4>1, <4>2, <4>3, ReadNalIs
    <3> QED
      BY <3>2, <3>5, <3>6, <3>7 DEF before
  <2>11. state(i) = [nals |-> Append(SubSeq(list, 1, i - 1), u), cursor |-> (c + 4) + Len(u)]
    BY <2>6, <2>9
  <2>12. state(i - 1) = [nals |-> SubSeq(list, 1, i - 1), cursor |-> c]
    OBVIOUS
  <2>13. NextNal(data, state(i - 1)) = ReadNal(data, state(i - 1), 4)
    BY <2>2 DEF NextNal
  <2> HIDE DEF state, c
  <2> QED
    BY <2>10, <2>11, <2>12, <2>13
<1>12. NextNal(data, state(n)) = state(n)
  BY <1>1, <1>8, <1>10 DEF NextNal
<1>13. state(0) = [nals |-> <<>>, cursor |-> 1]
  BY <1>8
<1> HIDE DEF state
<1>a. n \in Nat /\ l \in Nat /\ n <= l
  BY <1>1, <1>10
<1>b. \A k \in 1..l : k <= n => k \in 1..n /\ least(k) = k /\ least(k - 1) = k - 1
  <2> HIDE DEF n, l
  <2> QED
    BY <1>a
<1>c. \A k \in 1..l : ~(k <= n) => least(k) = n /\ least(k - 1) = n
  <2> HIDE DEF n, l
  <2> QED
    BY <1>a
<1>14. \A k \in 1..l : state(least(k)) = NextNal(data, state(least(k - 1)))
  <2> SUFFICES ASSUME NEW k \in 1..l PROVE state(least(k)) = NextNal(data, state(least(k - 1)))
    OBVIOUS
  <2>1. CASE k <= n
    <3>1. k \in 1..n /\ least(k) = k /\ least(k - 1) = k - 1
      BY <1>b, <2>1
    <3> QED
      BY <3>1, <1>11
  <2>2. CASE ~(k <= n)
    <3>1. least(k) = n /\ least(k - 1) = n
      BY <1>c, <2>2
    <3> QED
      BY <3>1, <1>12
  <2> QED
    BY <2>1, <2>2
<1>15. state(least(0)) = [nals |-> <<>>, cursor |-> 1]
  BY <1>1, <1>13
<1>16. Is(h)
  <2>1. ASSUME NEW k \in 0..l
        PROVE  state(least(k)) = IF k = 0 THEN [nals |-> <<>>, cursor |-> 1] ELSE NextNal(data, h[k - 1])
    <3>1. CASE k = 0
      BY <3>1, <1>15
    <3>2. CASE k # 0
      <4>1. k \in 1..l /\ k - 1 \in 0..l
        BY <3>2, <1>10
      <4> HIDE DEF least, l
      <4>2. h[k - 1] = state(least(k - 1))
        BY <4>1
      <4> QED
        BY <3>2, <4>1, <4>2, <1>14
    <3> QED
      BY <3>1, <3>2
  <2> HIDE DEF least, l
  <2> QED
    BY <2>1
<1>17. Is(f)
  <2> HIDE DEF Is, h
  <2> QED
    BY <1>16
<1>18. AvccUnits(data) = f[l].nals
  BY DEF AvccUnits
<1> HIDE DEF f
<1>19. f[l] = state(n)
  <2> DEFINE T == {k \in 0..l : f[k] = state(least(k))}
  <2>1. 0 \in T
    <3>1. 0 \in 0..l
      BY <1>10
    <3> HIDE DEF least, l
    <3> QED
      BY <3>1, <1>15, <1>17
  <2>2. \A k \in 1..l : k - 1 \in T => k \in T
    <3> SUFFICES ASSUME NEW k \in 1..l, k - 1 \in T PROVE k \in T
      OBVIOUS
    <3>1. k \in 0..l /\ k # 0 /\ f[k - 1] = state(least(k - 1))
      BY <1>10
    <3> HIDE DEF least, l
    <3>2. f[k] = NextNal(data, f[k - 1])
      BY <3>1, <1>17
    <3> QED
      BY <3>1, <3>2, <1>14
  <2>3. l \in T
    <3> HIDE DEF T, l
    <3>1. 0..l \subseteq T
      BY <1>a, <2>1, <2>2, FirstNumbers
    <3> QED
      BY <1>a, <3>1
  <2>4. least(l) = n
    BY <1>1, <1>10
  <2> QED
    BY <2>3, <2>4
<1>20. SubSeq(list, 1, n) = list
  <2>1. list \in Seq(Seq(Byte)) /\ n = Len(list)
    OBVIOUS
  <2> QED
    BY <2>1, SubSeqFull
<1> QED
  BY <1>3, <1>18, <1>19, <1>20 DEF state

\* What a length in four bytes is enough for.
ShortUnits == {u \in Seq(Byte) : Len(u) <= MaxUnitLength}

\* The parameter sets of a configuration record are units that are short enough for it.
LEMMA RecordedIs ==
    ASSUME NEW list \in Seq(ShortUnits)
    PROVE  Recorded(list) \in Seq(ShortUnits)
<1> DEFINE n == Len(list)
           S == Seq(ShortUnits)
           Next(kept, i) == IF NalType(list[i]) \in Unrecorded THEN kept ELSE Append(kept, list[i])
           step == [a \in S \X (1..n) |-> Next(a[1], a[2])]
           Is(g) == g = [i \in 0..n |-> IF i = 0 THEN <<>> ELSE Next(g[i - 1], i)]
           f == CHOOSE g : Is(g)
<1>1. n \in Nat /\ <<>> \in S /\ \A i \in 1..n : list[i] \in ShortUnits
  OBVIOUS
<1>2. \A kept \in S, i \in 1..n : Next(kept, i) \in S
  <2> SUFFICES ASSUME NEW kept \in S, NEW i \in 1..n PROVE Next(kept, i) \in S
    OBVIOUS
  <2>1. Append(kept, list[i]) \in S
    BY <1>1
  <2> QED
    BY <2>1
<1> HIDE DEF Next, n, S
<1>3. step \in [S \X (1..n) -> S]
  <2>1. \A a \in S \X (1..n) : Next(a[1], a[2]) \in S
    BY <1>2
  <2> QED
    BY <2>1
<1>4. \A kept \in S, i \in 1..n : step[<<kept, i>>] = Next(kept, i)
  OBVIOUS
<1> HIDE DEF step
<1>5. PICK g : Recurs(g, S, <<>>, n, step)
  BY <1>1, <1>3, SomeRecursion
<1>6. Is(g)
  <2>1. g = [i \in 0..n |-> g[i]] /\ g[0] = <<>>
    BY <1>5 DEF Recurs
  <2>2. ASSUME NEW i \in 0..n, i # 0 PROVE g[i] = Next(g[i - 1], i)
    <3>1. i \in 1..n /\ i - 1 \in 0..n
      BY <2>2, <1>1
    <3>2. g[i] = step[<<g[i - 1], i>>] /\ g[i - 1] \in S
      BY <3>1, <1>5 DEF Recurs
    <3> QED
      BY <3>1, <3>2, <1>4
  <2> QED
    BY <2>1, <2>2
<1>7. Is(f)
  <2> HIDE DEF Is
  <2> QED
    BY <1>6
<1>8. Recorded(list) = f[n]
  BY DEF Recorded, Next, n
<1> HIDE DEF f
<1>9. Recurs(f, S, <<>>, n, step)
  <2>1. DOMAIN f = 0..n /\ f = [i \in DOMAIN f |-> f[i]] /\ f[0] = <<>>
    BY <1>7, <1>1
  <2>2. \A i \in 1..n : f[i - 1] \in S => f[i] = step[<<f[i - 1], i>>]
    <3> SUFFICES ASSUME NEW i \in 1..n, f[i - 1] \in S PROVE f[i] = step[<<f[i - 1], i>>]
      OBVIOUS
    <3>1. i \in 0..n /\ i # 0
      BY <1>1
    <3>2. f[i] = Next(f[i - 1], i)
      BY <1>7, <3>1
    <3> QED
      BY <3>2, <1>4
  <2> HIDE DEF Is
  <2> QED
    BY <1>1, <1>3, <2>1, <2>2, ItRecurs
<1>10. n \in 0..n
  BY <1>1
<1> QED
  BY <1>8, <1>9, <1>10 DEF Recurs, S

-----------------------------------------------------------------------------
(* avcc_record and parse_avcc.                                             *)

\* One set is counted where there is one of a kind.
LEMMA CountedOne ==
    ASSUME NEW data, NEW at
    PROVE  Counted(data, 1, at) = ReadNal(data, [nals |-> <<>>, cursor |-> at], 2)
<1> DEFINE b == [nals |-> <<>>, cursor |-> at]
           Is(g) == g = [k \in 0..1 |-> IF k = 0 THEN [nals |-> <<>>, cursor |-> at] ELSE ReadNal(data, g[k - 1], 2)]
           f == CHOOSE g : Is(g)
           r == ReadNal(data, b, 2)
           h == [k \in 0..1 |-> IF k = 0 THEN b ELSE r]
<1>1. Counted(data, 1, at) = f[1]
  BY DEF Counted
<1>2. Is(h)
  <2> HIDE DEF r
  <2>1. h = [k \in 0..1 |-> h[k]] /\ h[0] = b /\ h[1] = r
    OBVIOUS
  <2>2. \A k \in 0..1 : h[k] = IF k = 0 THEN b ELSE ReadNal(data, h[k - 1], 2)
    <3> SUFFICES ASSUME NEW k \in 0..1 PROVE h[k] = IF k = 0 THEN b ELSE ReadNal(data, h[k - 1], 2)
      OBVIOUS
    <3>1. k = 0 \/ (k = 1 /\ k - 1 = 0)
      OBVIOUS
    <3> HIDE DEF h, b
    <3> QED
      BY <3>1, <2>1 DEF r
  <2> HIDE DEF h
  <2> QED
    BY <2>1, <2>2
<1>3. Is(f)
  <2> HIDE DEF Is, h
  <2> QED
    BY <1>2
<1> HIDE DEF f
<1>4. f[0] = b /\ f[1] = ReadNal(data, f[0], 2)
  <2>1. 0 \in 0..1 /\ 1 \in 0..1 /\ 1 - 1 = 0
    OBVIOUS
  <2> HIDE DEF b
  <2> QED
    BY <2>1, <1>3 DEF b
<1> QED
  BY <1>1, <1>4

\* The parameter sets come out of the record as they went into it.
LEMMA SetsComeBack ==
    ASSUME NEW sps \in Seq(Byte), NEW pps \in Seq(Byte), Len(sps) >= 4,
           Len(sps) <= MaxSetLength, Len(pps) <= MaxSetLength
    PROVE  ParseAvcc(AvccRecord(sps, pps)) = [lengths |-> 3, sps |-> <<sps>>, pps |-> <<pps>>]
<1> DEFINE m == Len(sps)
           n == Len(pps)
           head == <<1, sps[2], sps[3], sps[4], 255, 225>>
           x == BigEndian(m, 2)
           y == BigEndian(n, 2)
           one == <<1>>
           d == ((((head \o x) \o sps) \o one) \o y) \o pps
<1>1. m \in Nat /\ n \in Nat /\ m \in 0..MaxSetLength /\ n \in 0..MaxSetLength /\ ~(m < 4)
  BY LengthsAre
<1>2. AvccRecord(sps, pps) = d
  BY <1>1 DEF AvccRecord
<1>3. head \in Seq(Byte) /\ one \in Seq(Byte) /\ Len(head) = 6 /\ Len(one) = 1 /\ head[5] = 255 /\ head[6] = 225 /\ one[1] = 1
  <2>1. sps[2] \in Byte /\ sps[3] \in Byte /\ sps[4] \in Byte /\ 1 \in Byte /\ 255 \in Byte /\ 225 \in Byte
    <3>1. 2 \in 1..Len(sps) /\ 3 \in 1..Len(sps) /\ 4 \in 1..Len(sps)
      BY <1>1
    <3>2. sps[2] \in Byte /\ sps[3] \in Byte /\ sps[4] \in Byte
      BY <3>1
    <3>3. 1 \in Byte /\ 255 \in Byte /\ 225 \in Byte
      BY DEF Byte
    <3> QED
      BY <3>2, <3>3
  <2> QED
    BY <2>1
<1>4. x \in Seq(Byte) /\ Len(x) = 2 /\ Number(256, x) = m /\ y \in Seq(Byte) /\ Len(y) = 2 /\ Number(256, y) = n
  <2> HIDE DEF m, n
  <2> QED
    BY <1>1, TwoBytes
<1> HIDE DEF head, x, y, one
<1> DEFINE d1 == head \o x
           d2 == d1 \o sps
           d3 == d2 \o one
           d4 == d3 \o y
<1>5. d1 \in Seq(Byte) /\ Len(d1) = 8
  <2>1. head \in Seq(Byte) /\ x \in Seq(Byte)
    BY <1>3, <1>4
  <2>2. d1 \in Seq(Byte) /\ Len(d1) = Len(head) + Len(x)
    BY ONLY <2>1, JoinIs
  <2> QED
    BY <2>2, <1>3, <1>4
<1>6. d2 \in Seq(Byte) /\ Len(d2) = 8 + m
  <2> HIDE DEF d1
  <2>1. d1 \in Seq(Byte) /\ sps \in Seq(Byte)
    BY <1>5
  <2>2. d2 \in Seq(Byte) /\ Len(d2) = Len(d1) + Len(sps)
    BY ONLY <2>1, JoinIs
  <2> QED
    BY <2>2, <1>5
<1>7. d3 \in Seq(Byte) /\ Len(d3) = (8 + m) + 1
  <2> HIDE DEF d2
  <2>1. d2 \in Seq(Byte) /\ one \in Seq(Byte)
    BY <1>3, <1>6
  <2>2. d3 \in Seq(Byte) /\ Len(d3) = Len(d2) + Len(one)
    BY ONLY <2>1, JoinIs
  <2> QED
    BY <2>2, <1>3, <1>6
<1>8. d4 \in Seq(Byte) /\ Len(d4) = ((8 + m) + 1) + 2
  <2> HIDE DEF d3
  <2>1. d3 \in Seq(Byte) /\ y \in Seq(Byte)
    BY <1>4, <1>7
  <2>2. d4 \in Seq(Byte) /\ Len(d4) = Len(d3) + Len(y)
    BY ONLY <2>1, JoinIs
  <2> QED
    BY <2>2, <1>4, <1>7
<1>9. d = d4 \o pps /\ d \in Seq(Byte) /\ Len(d) \in Nat
  <2>1. d = d4 \o pps
    OBVIOUS
  <2> HIDE DEF d4, d
  <2> QED
    BY <2>1, <1>8, JoinIs
<1> HIDE DEF d
<1>10. Stands(d, 1, d4) /\ Stands(d, 1 + Len(d4), pps)
  <2>1. Stands(d, 1, d)
    BY <1>9 DEF Stands
  <2>2. Stands(d, 1, d4 \o pps)
    BY <2>1, <1>9
  <2> HIDE DEF d4
  <2>3. 1 \in Nat \ {0}
    OBVIOUS
  <2> QED
    BY <2>2, <2>3, <1>8, <1>9, BothStand
<1>11. Stands(d, 1, d3) /\ Stands(d, 1 + Len(d3), y)
  <2> HIDE DEF d3
  <2>1. 1 \in Nat \ {0} /\ d3 \in Seq(Byte) /\ y \in Seq(Byte) /\ Len(d) \in Nat /\ Stands(d, 1, d3 \o y)
    BY <1>4, <1>7, <1>9, <1>10
  <2> QED
    BY ONLY <2>1, BothStand
<1>12. Stands(d, 1, d2) /\ Stands(d, 1 + Len(d2), one)
  <2> HIDE DEF d2
  <2>1. 1 \in Nat \ {0} /\ d2 \in Seq(Byte) /\ one \in Seq(Byte) /\ Len(d) \in Nat /\ Stands(d, 1, d2 \o one)
    BY <1>3, <1>6, <1>9, <1>11
  <2> QED
    BY ONLY <2>1, BothStand
<1>13. Stands(d, 1, d1) /\ Stands(d, 1 + Len(d1), sps)
  <2> HIDE DEF d1
  <2>1. 1 \in Nat \ {0} /\ d1 \in Seq(Byte) /\ sps \in Seq(Byte) /\ Len(d) \in Nat /\ Stands(d, 1, d1 \o sps)
    BY <1>5, <1>9, <1>12
  <2> QED
    BY ONLY <2>1, BothStand
<1>14. Stands(d, 1, head) /\ Stands(d, 1 + Len(head), x)
  <2>1. 1 \in Nat \ {0} /\ head \in Seq(Byte) /\ x \in Seq(Byte) /\ Len(d) \in Nat /\ Stands(d, 1, head \o x)
    BY <1>3, <1>4, <1>9, <1>13
  <2> QED
    BY ONLY <2>1, BothStand
<1>15. Stands(d, 7, x) /\ Stands(d, 9, sps) /\ Stands(d, 9 + m, one) /\ Stands(d, 10 + m, y) /\ Stands(d, 12 + m, pps)
  <2> HIDE DEF m, d1, d2, d3, d4
  <2>1. /\ 1 + Len(head) = 7 /\ 1 + Len(d1) = 9 /\ 1 + Len(d2) = 9 + m /\ 1 + Len(d3) = 10 + m
        /\ 1 + Len(d4) = 12 + m
    BY <1>1, <1>3, <1>5, <1>6, <1>7, <1>8
  <2> QED
    BY <2>1, <1>10, <1>11, <1>12, <1>13, <1>14
<1>16. d[5] = 255 /\ d[6] = 225 /\ d[9 + m] = 1
  <2>1. 5 \in 1..Len(head) /\ 6 \in 1..Len(head) /\ 1 + 5 - 1 = 5 /\ 1 + 6 - 1 = 6
    BY <1>3
  <2>2. d[1 + 5 - 1] = head[5] /\ d[1 + 6 - 1] = head[6]
    BY <2>1, <1>14 DEF Stands
  <2>3. 1 \in 1..Len(one) /\ (9 + m) + 1 - 1 = 9 + m
    BY <1>1, <1>3
  <2>4. d[(9 + m) + 1 - 1] = one[1]
    BY <2>3, <1>15 DEF Stands
  <2> QED
    BY <2>1, <2>2, <2>3, <2>4, <1>3
<1>17. Counted(d, 1, 7) = [nals |-> <<sps>>, cursor |-> 9 + m]
  <2> DEFINE r == [nals |-> <<>>, cursor |-> 7]
             q == [nals |-> Append(r.nals, sps), cursor |-> (r.cursor + Len(x)) + Len(sps)]
  <2>1. r.cursor = 7 /\ r.nals = <<>> /\ q = [nals |-> Append(r.nals, sps), cursor |-> (r.cursor + Len(x)) + Len(sps)]
    OBVIOUS
  <2>2. Counted(d, 1, 7) = ReadNal(d, r, 2)
    BY CountedOne
  <2> HIDE DEF r, q
  <2>3. ReadNal(d, r, Len(x)) = q
    <3>1. r.cursor \in Nat \ {0} /\ Stands(d, r.cursor, x) /\ Stands(d, r.cursor + Len(x), sps)
      BY <2>1, <1>4, <1>15
    <3>2. x \in Seq(Byte) /\ sps \in Seq(Byte) /\ Number(256, x) = Len(sps) /\ d \in Seq(Byte)
      BY <1>4, <1>9
    <3> QED
      BY <3>1, <3>2, <2>1, ReadNalIs
  <2>4. Append(<<>>, sps) = <<sps>> /\ (7 + 2) + Len(sps) = 9 + m
    BY <1>1
  <2>5. q = [nals |-> Append(<<>>, sps), cursor |-> (7 + 2) + Len(sps)]
    BY <2>1, <1>4
  <2> QED
    BY <2>2, <2>3, <2>4, <2>5, <1>4
<1>18. Counted(d, 1, 10 + m) = [nals |-> <<pps>>, cursor |-> 12 + m + n]
  <2> DEFINE r == [nals |-> <<>>, cursor |-> 10 + m]
             q == [nals |-> Append(r.nals, pps), cursor |-> (r.cursor + Len(y)) + Len(pps)]
  <2>1. r.cursor = 10 + m /\ r.nals = <<>> /\ q = [nals |-> Append(r.nals, pps), cursor |-> (r.cursor + Len(y)) + Len(pps)]
    OBVIOUS
  <2>2. Counted(d, 1, 10 + m) = ReadNal(d, r, 2)
    BY CountedOne
  <2> HIDE DEF r, q, m
  <2>3. ReadNal(d, r, Len(y)) = q
    <3>1. r.cursor \in Nat \ {0} /\ Stands(d, r.cursor, y) /\ Stands(d, r.cursor + Len(y), pps)
      <4>1. (10 + m) + 2 = 12 + m
        BY <1>1
      <4> QED
        BY <4>1, <2>1, <1>1, <1>4, <1>15
    <3>2. y \in Seq(Byte) /\ pps \in Seq(Byte) /\ Number(256, y) = Len(pps) /\ d \in Seq(Byte)
      BY <1>4, <1>9
    <3> QED
      BY <3>1, <3>2, <2>1, ReadNalIs
  <2>4. Append(<<>>, pps) = <<pps>> /\ ((10 + m) + 2) + Len(pps) = 12 + m + n
    BY <1>1
  <2>5. q = [nals |-> Append(<<>>, pps), cursor |-> ((10 + m) + 2) + Len(pps)]
    BY <2>1, <1>4
  <2> QED
    BY <2>2, <2>3, <2>4, <2>5, <1>4
<1>19. d[5] % 4 = 3 /\ d[6] % 32 = 1 /\ (9 + m) + 1 = 10 + m
  BY <1>1, <1>16
<1>20. ParseAvcc(d) = [lengths |-> 3, sps |-> <<sps>>, pps |-> <<pps>>]
  <2> DEFINE a == Counted(d, d[6] % 32, 7)
             b == Counted(d, d[a.cursor], a.cursor + 1)
  <2>1. ParseAvcc(d) = [lengths |-> d[5] % 4, sps |-> a.nals, pps |-> b.nals]
    BY DEF ParseAvcc
  <2>2. a = [nals |-> <<sps>>, cursor |-> 9 + m]
    BY <1>17, <1>19
  <2> HIDE DEF a
  <2>3. a.nals = <<sps>> /\ a.cursor = 9 + m
    BY <2>2
  <2>4. b = [nals |-> <<pps>>, cursor |-> 12 + m + n]
    BY <2>3, <1>16, <1>18, <1>19
  <2> HIDE DEF b
  <2> QED
    BY <2>1, <2>3, <2>4, <1>19
<1> QED
  BY <1>2, <1>20

-----------------------------------------------------------------------------
(* The binary digits of a number.                                          *)

Bit == {0, 1}

\* Bits, and what halving a number leaves.
LEMMA BitIs == /\ \A b : b \in Bit <=> b \in Nat /\ b <= 1
               /\ \A n \in Nat : n % 2 \in Bit /\ n \div 2 \in Nat /\ n % 2 = n - 2 * (n \div 2)
               /\ \A n \in Nat : n >= 2 => n \div 2 < n /\ n \div 2 >= 1
<1>1. \A b : b \in Bit <=> b \in Nat /\ b <= 1
  BY DEF Bit
<1>2. \A n \in Nat : n % 2 \in 0..1 /\ n \div 2 \in Nat
  OBVIOUS
<1>5. \A n \in Nat : n % 2 = n - 2 * (n \div 2)
  OBVIOUS
<1>3. \A n \in Nat : n >= 2 => n \div 2 < n /\ n \div 2 >= 1
  OBVIOUS
<1>4. \A n \in Nat : n % 2 \in Bit
  BY <1>1, <1>2
<1> QED
  BY <1>1, <1>2, <1>3, <1>4, <1>5

\* One digit more.
LEMMA OneDigitMore ==
    ASSUME NEW base \in Nat, NEW s \in Seq(Nat), NEW d \in Nat
    PROVE  Number(base, s) \in Nat /\ Number(base, Append(s, d)) = base * Number(base, s) + d
<1> DEFINE n == Len(s)
           t == Append(s, d)
<1>1. /\ t \in Seq(Nat) /\ Len(t) = n + 1 /\ n \in Nat /\ t[n + 1] = d
      /\ \A i \in 1..n : t[i] = s[i]
  BY OneMoreIs
<1> HIDE DEF t
<1>2. PICK f : /\ f \in [0..n -> Nat] /\ f[0] = 0
               /\ \A i \in 1..n : f[i] = base * f[i - 1] + s[i]
               /\ Number(base, s) = f[n]
  BY NumberRecurs
<1>3. PICK g : /\ g \in [0..(n + 1) -> Nat] /\ g[0] = 0
               /\ \A i \in 1..(n + 1) : g[i] = base * g[i - 1] + t[i]
               /\ Number(base, t) = g[n + 1]
  <2>1. \E g : /\ g \in [0..Len(t) -> Nat] /\ g[0] = 0
               /\ \A i \in 1..Len(t) : g[i] = base * g[i - 1] + t[i]
               /\ Number(base, t) = g[Len(t)]
    BY <1>1, NumberRecurs
  <2> QED
    BY <2>1, <1>1
<1> HIDE DEF n
<1> DEFINE T == {i \in 0..n : f[i] = g[i]}
<1>4. 0 \in T
  BY <1>1, <1>2, <1>3
<1>5. \A i \in 1..n : i - 1 \in T => i \in T
  <2> SUFFICES ASSUME NEW i \in 1..n, f[i - 1] = g[i - 1] PROVE i \in T
    OBVIOUS
  <2>1. i \in 0..n /\ i \in 1..(n + 1)
    BY <1>1
  <2>2. f[i] = base * f[i - 1] + s[i] /\ g[i] = base * g[i - 1] + t[i] /\ t[i] = s[i]
    BY <2>1, <1>1, <1>2, <1>3
  <2> QED
    BY <2>1, <2>2
<1>6. f[n] = g[n]
  <2> HIDE DEF T
  <2>1. 0..n \subseteq T
    BY <1>1, <1>4, <1>5, FirstNumbers
  <2>2. n \in T
    BY <1>1, <2>1
  <2> QED
    BY <2>2 DEF T
<1>7. n + 1 \in 1..(n + 1) /\ (n + 1) - 1 = n /\ n \in 0..n
  BY <1>1
<1>8. g[n + 1] = base * g[n] + d
  BY <1>1, <1>3, <1>7
<1>9. f[n] \in Nat
  BY <1>2, <1>7
<1> QED
  BY <1>2, <1>3, <1>6, <1>8, <1>9 DEF t

\* A number, and the digits of its half.
Halving(h, n) ==
    \A k \in 0..n : h[k] = IF k < 2 THEN <<k>> ELSE Append(h[k \div 2], k % 2)

\* Two halvings of a number agree where both go.
LEMMA HalvingsAgree ==
    ASSUME NEW f, NEW g, NEW m \in Nat, NEW n \in Nat, NEW k \in 0..m, k <= n, Halving(f, m), Halving(g, n)
    PROVE  f[k] = g[k]
<1> DEFINE T == {i \in Nat : i <= m /\ i <= n /\ f[i] # g[i]}
<1>1. T = {}
  <2> SUFFICES ASSUME T # {} PROVE FALSE
    OBVIOUS
  <2>1. PICK i \in T : \A j \in T : i <= j
    BY LeastIndex
  <2>2. i \in 0..m /\ i \in 0..n /\ i \in Nat /\ f[i] # g[i]
    OBVIOUS
  <2>3. /\ f[i] = IF i < 2 THEN <<i>> ELSE Append(f[i \div 2], i % 2)
        /\ g[i] = IF i < 2 THEN <<i>> ELSE Append(g[i \div 2], i % 2)
    BY <2>2 DEF Halving
  <2>4. ~(i < 2)
    BY <2>2, <2>3
  <2>5. i \div 2 \in Nat /\ i \div 2 < i
    BY <2>2, <2>4, BitIs
  <2> DEFINE half == i \div 2
  <2> HIDE DEF half
  <2>6. half \in Nat /\ half < i
    BY <2>5 DEF half
  <2>7. half \notin T
    BY <2>1, <2>2, <2>6
  <2>8. f[half] = g[half]
    BY <2>2, <2>6, <2>7
  <2> QED
    BY <2>2, <2>3, <2>8 DEF half
<1> QED
  BY <1>1

\* Every number can be halved to the end.
LEMMA HalvingsExist == \A n \in Nat : \E h : Halving(h, n)
<1> DEFINE T == {n \in Nat : \E h : Halving(h, n)}
<1>1. 0 \in T
  <2>1. Halving([k \in 0..0 |-> <<k>>], 0)
    BY DEF Halving
  <2> QED
    BY <2>1
<1>2. ASSUME NEW n \in Nat, n \in T PROVE n + 1 \in T
  <2>1. PICK h : Halving(h, n)
    BY <1>2
  <2> DEFINE m == n + 1
             e == IF m < 2 THEN <<m>> ELSE Append(h[m \div 2], m % 2)
             g == [k \in 0..m |-> IF k = m THEN e ELSE h[k]]
  <2>2. m \in Nat /\ g[m] = e /\ \A k \in 0..n : g[k] = h[k]
    <3>1. m \in Nat /\ m \in 0..m /\ \A k \in 0..n : k \in 0..m /\ k # m
      OBVIOUS
    <3> HIDE DEF e, m
    <3> QED
      BY <3>1
  <2> HIDE DEF g
  <2>3. ASSUME NEW k \in 0..m PROVE g[k] = IF k < 2 THEN <<k>> ELSE Append(g[k \div 2], k % 2)
    <3>1. k \in Nat /\ k <= m
      OBVIOUS
    <3>2. k >= 2 => k \div 2 \in Nat /\ k \div 2 < k
      BY <3>1, BitIs
    <3> DEFINE half == k \div 2
    <3> HIDE DEF half
    <3>3. k >= 2 => half \in 0..n
      BY <3>1, <3>2 DEF half
    <3>4. k >= 2 => g[half] = h[half]
      BY <3>3, <2>2
    <3>5. CASE k = m
      BY <3>1, <3>4, <3>5, <2>2 DEF half
    <3>6. CASE k # m
      <4>1. k \in 0..n
        BY <3>1, <3>6
      <4>2. h[k] = IF k < 2 THEN <<k>> ELSE Append(h[k \div 2], k % 2)
        BY <4>1, <2>1 DEF Halving
      <4> QED
        BY <4>1, <4>2, <3>1, <3>4, <2>2 DEF half
    <3> QED
      BY <3>5, <3>6
  <2>4. Halving(g, m)
    BY <2>3 DEF Halving
  <2> QED
    BY <2>2, <2>4
<1>3. Nat \subseteq T
  <2> HIDE DEF T
  <2> QED
    BY <1>1, <1>2, IndicesFollow
<1> QED
  BY <1>3

\* The digits of a number are those of its half and one more.
LEMMA BinaryIs == \A n \in Nat : Binary[n] = IF n < 2 THEN <<n>> ELSE Append(Binary[n \div 2], n % 2)
<1> DEFINE Of(n) == CHOOSE h : Halving(h, n)
           whole == [n \in Nat |-> Of(n)[n]]
           Is(f) == f = [n \in Nat |-> IF n < 2 THEN <<n>> ELSE Append(f[n \div 2], n % 2)]
<1>1. \A n \in Nat : Halving(Of(n), n)
  BY HalvingsExist
<1> HIDE DEF Of
<1>2. ASSUME NEW n \in Nat PROVE whole[n] = IF n < 2 THEN <<n>> ELSE Append(whole[n \div 2], n % 2)
  <2>1. Of(n)[n] = IF n < 2 THEN <<n>> ELSE Append(Of(n)[n \div 2], n % 2)
    <3>1. n \in 0..n /\ Halving(Of(n), n)
      BY <1>1
    <3> QED
      BY <3>1 DEF Halving
  <2> DEFINE half == n \div 2
  <2> HIDE DEF half
  <2>2. ~(n < 2) => half \in Nat /\ half <= n
    BY BitIs DEF half
  <2>3. ~(n < 2) => Of(n)[half] = Of(half)[half]
    <3> SUFFICES ASSUME ~(n < 2) PROVE Of(n)[half] = Of(half)[half]
      OBVIOUS
    <3>1. half \in Nat /\ half \in 0..n /\ half <= half /\ Halving(Of(n), n) /\ Halving(Of(half), half)
      BY <1>1, <2>2
    <3> QED
      BY <3>1, HalvingsAgree
  <2>4. whole[n] = Of(n)[n] /\ (~(n < 2) => whole[half] = Of(half)[half])
    BY <2>2
  <2> HIDE DEF whole
  <2> QED
    BY <2>1, <2>3, <2>4 DEF half
<1>3. Is(whole)
  BY <1>2
<1> HIDE DEF whole
<1>4. Binary = CHOOSE f : Is(f)
  BY DEF Binary
<1>5. Is(Binary)
  <2> HIDE DEF Is
  <2> QED
    BY <1>3, <1>4
<1> QED
  BY <1>5

\* The digits of n are bits, the first of them is a one if n is not 0, and they stand for n.
BinaryStands(n) ==
    /\ Binary[n] \in Seq(Bit) /\ Len(Binary[n]) \in Nat \ {0}
    /\ n >= 1 => Binary[n][1] = 1
    /\ Number(2, Binary[n]) = n

\* A digit alone is its own number.
LEMMA OneDigit == ASSUME NEW n \in Nat PROVE Number(2, <<n>>) = n
<1>1. <<n>> \in Seq(Nat) /\ Len(<<n>>) = 1 /\ <<n>>[1] = n
  OBVIOUS
<1> DEFINE s == <<n>>
<1> HIDE DEF s
<1>2. PICK f : /\ f \in [0..Len(s) -> Nat] /\ f[0] = 0
               /\ \A i \in 1..Len(s) : f[i] = 2 * f[i - 1] + s[i]
               /\ Number(2, s) = f[Len(s)]
  <2>1. s \in Seq(Nat) /\ 2 \in Nat
    BY <1>1 DEF s
  <2> QED
    BY ONLY <2>1, NumberRecurs
<1>3. Len(s) = 1 /\ s[1] = n /\ 1 \in 1..1 /\ 1 - 1 = 0
  BY <1>1 DEF s
<1>4. f[1] = 2 * 0 + n
  BY <1>2, <1>3
<1> QED
  BY <1>2, <1>3, <1>4 DEF s

\* The digits of a number, read as a number, are it.
LEMMA BinariesStand == \A n \in Nat : BinaryStands(n)
<1> DEFINE T == {n \in Nat : ~BinaryStands(n)}
<1>1. T = {}
  <2> SUFFICES ASSUME T # {} PROVE FALSE
    OBVIOUS
  <2>1. PICK n \in T : \A j \in T : n <= j
    BY LeastIndex
  <2>2. n \in Nat /\ ~BinaryStands(n)
    OBVIOUS
  <2> DEFINE b == Binary[n]
  <2>3. CASE n < 2
    <3>1. b = <<n>> /\ n \in Bit
      <4>1. b = <<n>>
        BY <2>2, <2>3, BinaryIs
      <4>2. n \in Bit
        BY <2>2, <2>3, BitIs
      <4> QED
        BY <4>1, <4>2
    <3>2. b \in Seq(Bit) /\ Len(b) = 1 /\ (n >= 1 => b[1] = 1)
      BY <2>2, <2>3, <3>1
    <3>3. Number(2, b) = n
      BY <2>2, <3>1, OneDigit
    <3> HIDE DEF b
    <3>4. Binary[n] = b
      BY DEF b
    <3> QED
      BY <2>2, <3>2, <3>3, <3>4 DEF BinaryStands
  <2>4. CASE ~(n < 2)
    <3> DEFINE half == n \div 2
               d == n % 2
               a == Binary[half]
    <3>1. half \in Nat /\ half < n /\ half >= 1 /\ d \in Bit /\ n = 2 * half + d
      BY <2>2, <2>4, BitIs
    <3>2. b = Append(a, d)
      BY <2>2, <2>4, BinaryIs
    <3> HIDE DEF half, d
    <3>3. half \notin T
      BY <2>1, <2>2, <3>1
    <3>4. BinaryStands(half)
      BY <3>1, <3>3
    <3>5. a \in Seq(Bit) /\ Len(a) \in Nat \ {0} /\ a[1] = 1 /\ Number(2, a) = half
      BY <3>1, <3>4 DEF BinaryStands
    <3> HIDE DEF a
    <3>6. /\ Append(a, d) \in Seq(Bit) /\ Len(Append(a, d)) = Len(a) + 1
          /\ \A i \in 1..Len(a) : Append(a, d)[i] = a[i]
      BY <3>1, <3>5, OneMoreIs
    <3>7. Number(2, Append(a, d)) = 2 * Number(2, a) + d
      <4>1. a \in Seq(Nat) /\ d \in Nat /\ 2 \in Nat
        BY <3>1, <3>5 DEF Bit
      <4> QED
        BY <4>1, OneDigitMore
    <3>8. b \in Seq(Bit) /\ Len(b) \in Nat \ {0} /\ b[1] = 1 /\ Number(2, b) = n
      <4>1. 1 \in 1..Len(a)
        BY <3>5
      <4> HIDE DEF b
      <4> QED
        BY <4>1, <3>1, <3>2, <3>5, <3>6, <3>7
    <3> HIDE DEF b
    <3>9. Binary[n] = b
      BY DEF b
    <3> QED
      BY <2>2, <3>8, <3>9 DEF BinaryStands
  <2> QED
    BY <2>3, <2>4
<1> QED
  BY <1>1

\* A number below m has no more than k digits.
Within(m, k) == \A n \in Nat : n < m => Len(Binary[n]) <= k

\* A bound of k digits doubled is one of k + 1.
LEMMA TwiceWithin ==
    ASSUME NEW m \in Nat, NEW k \in Nat \ {0}, Within(m, k)
    PROVE  Within(2 * m, k + 1)
<1> SUFFICES ASSUME NEW n \in Nat, n < 2 * m PROVE Len(Binary[n]) <= k + 1
  BY DEF Within
<1>1. CASE n < 2
  <2>1. Binary[n] = <<n>>
    BY <1>1, BinaryIs
  <2> QED
    BY <2>1
<1>2. CASE ~(n < 2)
  <2> DEFINE half == n \div 2
             a == Binary[half]
             d == n % 2
  <2>1. half \in Nat /\ half < m
    OBVIOUS
  <2>2. Binary[n] = Append(a, d)
    BY <1>2, BinaryIs
  <2>3. d \in Bit
    BY BitIs
  <2> HIDE DEF half, d
  <2>4. Len(a) <= k
    BY <2>1 DEF Within
  <2>5. a \in Seq(Bit)
    BY <2>1, BinariesStand DEF BinaryStands
  <2> HIDE DEF a
  <2>6. Len(Append(a, d)) = Len(a) + 1 /\ Len(a) \in Nat
    BY <2>3, <2>5, OneMoreIs
  <2> QED
    BY <2>2, <2>4, <2>6
<1> QED
  BY <1>1, <1>2

\* A bound of k digits times eight is one of k + 3.
LEMMA MoreWithin ==
    ASSUME NEW m \in Nat, NEW k \in Nat \ {0}, Within(m, k)
    PROVE  Within(8 * m, k + 3)
<1>1. Within(2 * m, k + 1) /\ 2 * m \in Nat /\ k + 1 \in Nat \ {0}
  BY TwiceWithin
<1>2. Within(2 * (2 * m), (k + 1) + 1) /\ 2 * (2 * m) \in Nat /\ (k + 1) + 1 \in Nat \ {0}
  BY <1>1, TwiceWithin
<1>3. Within(2 * (2 * (2 * m)), ((k + 1) + 1) + 1)
  BY <1>2, TwiceWithin
<1>4. 2 * (2 * (2 * m)) = 8 * m /\ ((k + 1) + 1) + 1 = k + 3
  OBVIOUS
<1> QED
  BY <1>3, <1>4

\* What a code of at most 31 zeros, and as many bits and one more, can say.
Codable(n) == n \in Nat /\ Len(Binary[n + 1]) <= 32

CodeLimit == 4294967295

\* Every number below the limit has a code that ue can read.
LEMMA CodableIs ==
    ASSUME NEW n \in Nat, n < CodeLimit
    PROVE  Codable(n)
<1>1. Within(2, 1)
  <2> SUFFICES ASSUME NEW i \in Nat, i < 2 PROVE Len(Binary[i]) <= 1
    BY DEF Within
  <2>1. Binary[i] = <<i>>
    BY BinaryIs
  <2> QED
    BY <2>1
<1>2. Within(8 * 2, 1 + 3)
  BY SMTT(20), <1>1, MoreWithin
<1>3. Within(8 * 16, 4 + 3)
  BY SMTT(20), <1>2, MoreWithin
<1>4. Within(8 * 128, 7 + 3)
  BY SMTT(20), <1>3, MoreWithin
<1>5. Within(8 * 1024, 10 + 3)
  BY SMTT(20), <1>4, MoreWithin
<1>6. Within(8 * 8192, 13 + 3)
  BY SMTT(20), <1>5, MoreWithin
<1>7. Within(8 * 65536, 16 + 3)
  BY SMTT(20), <1>6, MoreWithin
<1>8. Within(8 * 524288, 19 + 3)
  BY SMTT(20), <1>7, MoreWithin
<1>9. Within(8 * 4194304, 22 + 3)
  BY SMTT(20), <1>8, MoreWithin
<1>10. Within(8 * 33554432, 25 + 3)
  BY SMTT(20), <1>9, MoreWithin
<1>11. Within(8 * 268435456, 28 + 3)
  BY SMTT(20), <1>10, MoreWithin
<1>12. Within(2 * 2147483648, 31 + 1)
  BY SMTT(20), <1>11, TwiceWithin
<1>13. Within(4294967296, 32)
  BY SMTT(20), <1>12
<1>14. n + 1 \in Nat /\ n + 1 < 4294967296
  BY SMTT(20) DEF CodeLimit
<1>15. Len(Binary[n + 1]) <= 32
  BY SMTT(20), <1>13, <1>14 DEF Within
<1> QED
  BY SMTT(20), <1>15 DEF Codable

\* A row of zeros.
LEMMA ZerosAre ==
    ASSUME NEW n \in Nat
    PROVE  Zeros(n) \in Seq(Bit) /\ Len(Zeros(n)) = n /\ \A i \in 1..n : Zeros(n)[i] = 0
<1>1. Zeros(n) \in [1..n -> Bit] /\ \A i \in 1..n : Zeros(n)[i] = 0
  BY DEF Zeros, Bit
<1> QED
  BY <1>1, FunctionIsSeq

\* An unsigned code: so many zeros, and the digits of the number that is one more.
LEMMA UeCodeIs ==
    ASSUME NEW n, Codable(n)
    PROVE  \E k \in 0..31 : \E b \in Seq(Bit) :
              /\ UeCode(n) = Zeros(k) \o b /\ Len(b) = k + 1 /\ b[1] = 1 /\ Number(2, b) = n + 1
              /\ UeCode(n) \in Seq(Bit) /\ Len(UeCode(n)) = 2 * k + 1
              /\ \A j \in 1..k : UeCode(n)[j] = 0
              /\ \A j \in 1..(k + 1) : UeCode(n)[k + j] = b[j]
<1> DEFINE b == Binary[n + 1]
           k == Len(b) - 1
           z == Zeros(k)
<1>1. n \in Nat /\ n + 1 \in Nat /\ n + 1 >= 1 /\ Len(b) <= 32
  BY DEF Codable
<1>2. b \in Seq(Bit) /\ Len(b) \in Nat \ {0} /\ b[1] = 1 /\ Number(2, b) = n + 1
  BY <1>1, BinariesStand DEF BinaryStands
<1>3. UeCode(n) = z \o b
  BY DEF UeCode
<1> HIDE DEF b
<1>4. k \in 0..31 /\ Len(b) = k + 1 /\ k \in Nat
  <2> DEFINE l == Len(b)
  <2>1. l \in Nat \ {0} /\ l <= 32 /\ k = l - 1
    BY <1>1, <1>2
  <2> HIDE DEF l, k
  <2>2. k \in 0..31 /\ l = k + 1 /\ k \in Nat
    BY <2>1
  <2> QED
    BY <2>2 DEF l
<1> HIDE DEF k
<1>5. z \in Seq(Bit) /\ Len(z) = k /\ \A i \in 1..k : z[i] = 0
  BY <1>4, ZerosAre
<1> HIDE DEF z
<1>6. /\ z \o b \in Seq(Bit) /\ Len(z \o b) = Len(z) + Len(b)
      /\ \A i \in 1..Len(z) : (z \o b)[i] = z[i]
      /\ \A i \in 1..Len(b) : (z \o b)[Len(z) + i] = b[i]
  <2>1. z \in Seq(Bit) /\ b \in Seq(Bit)
    BY <1>2, <1>5
  <2> QED
    BY ONLY <2>1, JoinIs
<1> DEFINE c == UeCode(n)
<1>7. c = z \o b
  BY <1>3
<1> HIDE DEF c
<1>8. /\ c \in Seq(Bit) /\ Len(c) = 2 * k + 1
      /\ \A j \in 1..k : c[j] = 0
      /\ \A j \in 1..(k + 1) : c[k + j] = b[j]
  BY <1>4, <1>5, <1>6, <1>7
<1> QED
  BY <1>2, <1>4, <1>7, <1>8 DEF c, z

-----------------------------------------------------------------------------
(* Fields, where they are and where the bits have run out before them.     *)

\* A code is at a place, as far as there are bits.
Fits(bits, p, code) ==
    \A j \in 1..Len(code) : p + j - 1 <= Len(bits) => bits[p + j - 1] = code[j]

\* Where the reader is that has read what is before p; and with a value.
Where(bits, p) == IF p <= Len(bits) + 1 THEN p ELSE Over(bits)

Field(bits, p, v) == [value |-> IF p <= Len(bits) + 1 THEN v ELSE 0, at |-> Where(bits, p)]

\* Where two codes stand one after the other, each stands at its place.
LEMMA FitsJoined ==
    ASSUME NEW S, NEW s \in Seq(S), NEW t \in Seq(S), NEW bits, NEW p \in Nat, Fits(bits, p, s \o t)
    PROVE  Fits(bits, p, s) /\ Fits(bits, p + Len(s), t)
<1> DEFINE q == s \o t
           m == Len(s)
           n == Len(t)
<1>1. /\ Len(q) = m + n /\ m \in Nat /\ n \in Nat
      /\ \A i \in 1..m : q[i] = s[i]
      /\ \A i \in 1..n : q[m + i] = t[i]
  BY JoinIs
<1> HIDE DEF q, m, n
<1>2. \A j \in 1..(m + n) : p + j - 1 <= Len(bits) => bits[p + j - 1] = q[j]
  BY <1>1 DEF Fits, q
<1>3. \A j \in 1..m : p + j - 1 <= Len(bits) => bits[p + j - 1] = s[j]
  <2> SUFFICES ASSUME NEW j \in 1..m, p + j - 1 <= Len(bits) PROVE bits[p + j - 1] = s[j]
    OBVIOUS
  <2>1. j \in 1..(m + n)
    BY <1>1
  <2> QED
    BY <2>1, <1>1, <1>2
<1>4. \A j \in 1..n : (p + m) + j - 1 <= Len(bits) => bits[(p + m) + j - 1] = t[j]
  <2> SUFFICES ASSUME NEW j \in 1..n, (p + m) + j - 1 <= Len(bits) PROVE bits[(p + m) + j - 1] = t[j]
    OBVIOUS
  <2>1. m + j \in 1..(m + n) /\ (p + m) + j - 1 = p + (m + j) - 1
    BY <1>1
  <2> QED
    BY <2>1, <1>1, <1>2
<1> QED
  BY <1>3, <1>4 DEF Fits, m, n

\* Where it is, it is there whole or runs out.
LEMMA WhereIs ==
    ASSUME NEW bits \in Seq(Bit), NEW p \in Nat \ {0}
    PROVE  /\ Len(bits) \in Nat /\ Over(bits) = Len(bits) + 2 /\ Over(bits) \in Nat
           /\ Where(bits, p) \in Nat \ {0} /\ (Where(bits, p) = Over(bits) <=> p > Len(bits) + 1)
           /\ p <= Len(bits) + 1 => Where(bits, p) = p
           /\ Field(bits, p, 0).at = Where(bits, p)
  BY DEF Over, Where, Field

\* A field of as many bits as there are.
LEMMA UIs ==
    ASSUME NEW bits \in Seq(Bit), NEW p \in Nat \ {0}, NEW code \in Seq(Bit), Fits(bits, p, code)
    PROVE  U(bits, Where(bits, p), Len(code)) = Field(bits, p + Len(code), Number(2, code))
<1> DEFINE n == Len(code)
           l == Len(bits)
<1>1. n \in Nat /\ l \in Nat
  OBVIOUS
<1>2. CASE p + n <= l + 1
  <2>1. p <= l + 1 /\ Where(bits, p) = p
    BY <1>1, <1>2 DEF Where
  <2>2. Stands(bits, p, code)
    <3>1. \A j \in 1..n : p + j - 1 <= l
      BY <1>1, <1>2
    <3> QED
      BY <1>2, <3>1 DEF Stands, Fits
  <2>3. SubSeq(bits, p, p + n - 1) = code
    BY <2>2, StandsIs, SMTT(30)
  <2>4. U(bits, p, n) = [value |-> Number(2, SubSeq(bits, p, p + n - 1)), at |-> p + n]
    BY <1>1, <1>2 DEF U
  <2>5. Field(bits, p + n, Number(2, code)) = [value |-> Number(2, code), at |-> p + n]
    BY <1>2 DEF Field, Where
  <2> QED
    BY <2>1, <2>3, <2>4, <2>5
<1>3. CASE ~(p + n <= l + 1)
  <2>1. Where(bits, p) + n > l + 1
    BY <1>1, <1>3, SMTT(30) DEF Where, Over
  <2>2. U(bits, Where(bits, p), n) = NoField(bits)
    BY <2>1 DEF U
  <2>3. Field(bits, p + n, Number(2, code)) = NoField(bits)
    BY <1>3 DEF Field, Where, NoField
  <2> QED
    BY <2>2, <2>3
<1> QED
  BY <1>2, <1>3

\* How an unsigned code is read, its parts named.
LEMMA UeReads ==
    ASSUME NEW bits, NEW at, NEW one, one = FirstOne(bits, at), NEW number, number = U(bits, one, one - at + 1)
    PROVE  Ue(bits, at) = IF one = Over(bits) \/ one - at > 31 THEN NoField(bits) ELSE LessOne(bits, number)
<1>1. Ue(bits, at) = CodeAt(bits, at, one)
  BY DEF Ue
<1> QED
  BY <1>1 DEF CodeAt

\* The first one bit, if there is one.
LEMMA FirstOneIs ==
    ASSUME NEW bits \in Seq(Bit), NEW at \in Nat
    PROVE  /\ (\A i \in at..Len(bits) : bits[i] # 1) => FirstOne(bits, at) = Over(bits)
           /\ \A one \in at..Len(bits) :
                 bits[one] = 1 /\ (\A i \in at..Len(bits) : bits[i] = 1 => one <= i) => FirstOne(bits, at) = one
<1> DEFINE l == Len(bits)
           ones == {i \in at..l : bits[i] = 1}
           first == CHOOSE i \in ones : \A j \in ones : i <= j
<1>1. FirstOne(bits, at) = IF ones = {} THEN Over(bits) ELSE first
  BY DEF FirstOne
<1>2. l \in Nat /\ \A i \in ones : i \in Nat
  OBVIOUS
<1>3. ASSUME NEW one \in at..l, bits[one] = 1, \A i \in at..l : bits[i] = 1 => one <= i PROVE first = one
  <2>1. one \in ones /\ \A i \in ones : one <= i
    BY <1>3
  <2> HIDE DEF ones
  <2>2. first \in ones /\ \A i \in ones : first <= i
    BY <2>1
  <2> HIDE DEF first
  <2>3. first <= one /\ one <= first /\ first \in Nat /\ one \in Nat
    BY <1>2, <2>1, <2>2
  <2> QED
    BY <2>3
<1>4. (\A i \in at..l : bits[i] # 1) => ones = {}
  OBVIOUS
<1>5. \A one \in at..l : bits[one] = 1 => ones # {}
  OBVIOUS
<1> HIDE DEF ones, first, l
<1>6. (\A i \in at..l : bits[i] # 1) => FirstOne(bits, at) = Over(bits)
  BY <1>1, <1>4
<1>7. \A one \in at..l : bits[one] = 1 /\ (\A i \in at..l : bits[i] = 1 => one <= i) => FirstOne(bits, at) = one
  BY <1>1, <1>3, <1>5
<1> QED
  BY <1>6, <1>7 DEF l

\* An unsigned code is read as the number it is of.
LEMMA UeIs ==
    ASSUME NEW bits \in Seq(Bit), NEW p \in Nat \ {0}, NEW n, Codable(n), Fits(bits, p, UeCode(n))
    PROVE  Ue(bits, Where(bits, p)) = Field(bits, p + Len(UeCode(n)), n)
<1> DEFINE l == Len(bits)
           at == Where(bits, p)
           one == FirstOne(bits, at)
           number == U(bits, one, one - at + 1)
           c == UeCode(n)
<1>1. l \in Nat /\ n \in Nat
  BY SMTT(30) DEF Codable
<1>2. PICK k \in 0..31 : \E b \in Seq(Bit) :
              /\ c = Zeros(k) \o b /\ Len(b) = k + 1 /\ b[1] = 1 /\ Number(2, b) = n + 1
              /\ c \in Seq(Bit) /\ Len(c) = 2 * k + 1
              /\ \A j \in 1..k : c[j] = 0
              /\ \A j \in 1..(k + 1) : c[k + j] = b[j]
  BY UeCodeIs
<1>3. PICK b \in Seq(Bit) :
              /\ c = Zeros(k) \o b /\ Len(b) = k + 1 /\ b[1] = 1 /\ Number(2, b) = n + 1
              /\ c \in Seq(Bit) /\ Len(c) = 2 * k + 1
              /\ \A j \in 1..k : c[j] = 0
              /\ \A j \in 1..(k + 1) : c[k + j] = b[j]
  BY <1>2
<1> HIDE DEF at
<1>a. one = FirstOne(bits, at)
  OBVIOUS
<1> HIDE DEF one
<1>b. number = U(bits, one, one - at + 1)
  OBVIOUS
<1> HIDE DEF number
<1>4. Ue(bits, at) = IF one = Over(bits) \/ one - at > 31 THEN NoField(bits) ELSE LessOne(bits, number)
  BY <1>a, <1>b, UeReads
<1> DEFINE end == p + Len(c)
<1>5. end = p + (2 * k + 1) /\ end \in Nat \ {0}
  BY <1>3
<1>6. \A j \in 1..(2 * k + 1) : p + j - 1 <= l => bits[p + j - 1] = c[j]
  BY <1>3 DEF Fits
<1> HIDE DEF c
<1>7. CASE p > l + 1
  <2>1. at = l + 2
    BY <1>1, <1>7 DEF Where, Over, at
  <2>2. one = Over(bits)
    <3>1. at \in Nat /\ \A i \in at..l : bits[i] # 1
      BY <1>1, <2>1
    <3> QED
      BY <3>1, <1>a, FirstOneIs
  <2>3. Field(bits, end, n) = NoField(bits)
    <3>1. ~(end <= l + 1)
      BY <1>1, <1>5, <1>7
    <3> QED
      BY <3>1 DEF Field, Where, NoField
  <2> QED
    BY <1>4, <2>2, <2>3 DEF c, at
<1>8. CASE p <= l + 1 /\ p + k > l
  <2>1. at = p
    BY <1>8 DEF Where, at
  <2>2. one = Over(bits)
    <3>0. ASSUME NEW i \in p..l PROVE bits[i] # 1
      <4>1. (i - p) + 1 \in 1..k /\ p + ((i - p) + 1) - 1 = i /\ (i - p) + 1 \in 1..(2 * k + 1) /\ i <= l
        BY <1>1, <1>8
      <4>2. bits[i] = c[(i - p) + 1]
        BY <1>6, <4>1
      <4>3. c[(i - p) + 1] = 0
        BY <1>3, <4>1
      <4> QED
        BY <4>2, <4>3
    <3> QED
      BY <2>1, <3>0, <1>a, FirstOneIs
  <2>3. Field(bits, end, n) = NoField(bits)
    <3>1. ~(end <= l + 1)
      BY <1>1, <1>5, <1>8
    <3> QED
      BY <3>1 DEF Field, Where, NoField
  <2> QED
    BY <1>4, <2>2, <2>3 DEF c, at
<1>9. CASE p + k <= l
  <2>0. p <= l + 1 /\ p + k \in Nat \ {0} /\ p + k <= l + 1
    BY <1>1, <1>9
  <2>1. at = p
    BY <2>0 DEF Where, at
  <2> DEFINE q == p + k
  <2>2. q \in p..l /\ bits[q] = 1 /\ \A j \in p..l : bits[j] = 1 => q <= j
    <3>1. bits[q] = 1
      <4>1. k + 1 \in 1..(2 * k + 1) /\ p + (k + 1) - 1 = q /\ 1 \in 1..(k + 1)
        OBVIOUS
      <4>2. bits[q] = c[k + 1]
        BY <1>6, <1>9, <4>1
      <4> QED
        BY <1>3, <4>1, <4>2
    <3>2. q \in p..l
      BY <1>1, <1>9
    <3>3. ASSUME NEW j \in p..l, bits[j] = 1 PROVE q <= j
      <4> SUFFICES ASSUME ~(q <= j) PROVE FALSE
        OBVIOUS
      <4>2. (j - p) + 1 \in 1..k /\ p + ((j - p) + 1) - 1 = j /\ (j - p) + 1 \in 1..(2 * k + 1) /\ j <= l
        BY <1>1
      <4>3. bits[j] = c[(j - p) + 1]
        BY <1>6, <4>2
      <4>4. c[(j - p) + 1] = 0
        BY <1>3, <4>2
      <4> QED
        BY <3>3, <4>3, <4>4
    <3> QED
      BY <3>1, <3>2, <3>3
  <2>3. one = q
    <3>1. p \in Nat /\ one = FirstOne(bits, p)
      BY <1>a, <2>1
    <3> HIDE DEF q
    <3> QED
      BY <2>2, <3>1, FirstOneIs
  <2>4. one - at + 1 = k + 1 /\ ~(one - at > 31)
    BY <2>1, <2>3
  <2>5. number = U(bits, q, k + 1)
    BY <1>b, <2>3, <2>4
  <2>6. Fits(bits, q, b)
    <3> SUFFICES ASSUME NEW j \in 1..(k + 1), q + j - 1 <= l PROVE bits[q + j - 1] = b[j]
      BY <1>3 DEF Fits
    <3>1. k + j \in 1..(2 * k + 1) /\ p + (k + j) - 1 = q + j - 1
      OBVIOUS
    <3>2. bits[q + j - 1] = c[k + j]
      BY <1>6, <3>1
    <3> QED
      BY <1>3, <3>2
  <2>7. U(bits, Where(bits, q), k + 1) = Field(bits, q + (k + 1), n + 1)
    <3>1. b \in Seq(Bit) /\ Len(b) = k + 1 /\ Number(2, b) = n + 1 /\ q \in Nat \ {0}
      BY <1>3, <2>0
    <3> HIDE DEF q
    <3>2. U(bits, Where(bits, q), Len(b)) = Field(bits, q + Len(b), Number(2, b))
      BY <3>1, <2>6, UIs
    <3> QED
      BY <3>1, <3>2
  <2>8. Where(bits, q) = q /\ q + (k + 1) = end
    BY <2>0, <1>5 DEF Where
  <2>9. number = Field(bits, end, n + 1)
    BY <2>5, <2>7, <2>8
  <2> HIDE DEF end
  <2>10. CASE end <= l + 1
    <3>1. number = [value |-> n + 1, at |-> end]
      BY <2>9, <2>10 DEF Field, Where
    <3>2. end # Over(bits)
      BY <1>1, <1>5, <2>10 DEF Over
    <3>3. [number EXCEPT !.value = @ - 1] = [value |-> (n + 1) - 1, at |-> end]
      BY <3>1
    <3>4. (n + 1) - 1 = n /\ one # Over(bits) /\ number.at = end
      <4>1. q # Over(bits)
        BY <1>1, <1>9 DEF Over
      <4> HIDE DEF q
      <4> QED
        BY <1>1, <2>3, <3>1, <4>1
    <3>5. Ue(bits, at) = [value |-> n, at |-> end]
      BY <1>4, <2>4, <3>2, <3>3, <3>4 DEF LessOne
    <3>6. Field(bits, end, n) = [value |-> n, at |-> end]
      BY <2>10 DEF Field, Where
    <3> QED
      BY <3>5, <3>6 DEF at, end, c
  <2>11. CASE ~(end <= l + 1)
    <3>1. number.at = Over(bits) /\ Field(bits, end, n) = NoField(bits)
      BY <2>9, <2>11 DEF Field, Where, NoField
    <3> QED
      BY <1>4, <3>1 DEF at, end, c, LessOne
  <2> QED
    BY <2>10, <2>11
<1> QED
  BY <1>1, <1>7, <1>8, <1>9

\* How a signed code is read, out of what its unsigned one says.
LEMMA SeReads ==
    ASSUME NEW bits, NEW at, NEW v \in Nat, NEW x, NEW w \in Int,
           Ue(bits, at) = [value |-> v, at |-> x],
           w = IF v % 2 = 0 THEN 0 - ((v + 1) \div 2) ELSE (v + 1) \div 2,
           NEW q, q = [value |-> w, at |-> x]
    PROVE  Se(bits, at) = q
<1> DEFINE ue == Ue(bits, at)
           magnitude == (ue.value + 1) \div 2
           m == (v + 1) \div 2
<1>1. Se(bits, at) = [ue EXCEPT !.value = IF @ % 2 = 0 THEN -magnitude ELSE magnitude]
  BY DEF Se
<1>2. ue = [value |-> v, at |-> x]
  OBVIOUS
<1> HIDE DEF ue
<1>3. magnitude = m /\ m \in Int
  BY <1>2
<1> HIDE DEF magnitude
<1>4. \A a \in Int : -a = 0 - a
  OBVIOUS
<1>5. (IF v % 2 = 0 THEN -magnitude ELSE magnitude) = w
  <2>1. w = IF v % 2 = 0 THEN 0 - m ELSE m
    OBVIOUS
  <2> HIDE DEF m
  <2>2. -m = 0 - m
    BY <1>3, <1>4
  <2> QED
    BY <1>3, <2>1, <2>2
<1>6. [ue EXCEPT !.value = IF @ % 2 = 0 THEN -magnitude ELSE magnitude]
        = [value |-> IF v % 2 = 0 THEN -magnitude ELSE magnitude, at |-> x]
  BY <1>2
<1> QED
  BY <1>1, <1>5, <1>6

\* And a signed one.
LEMMA SeIs ==
    ASSUME NEW bits \in Seq(Bit), NEW p \in Nat \ {0}, NEW n \in Int,
           Codable(IF n > 0 THEN 2 * n - 1 ELSE -2 * n), Fits(bits, p, SeCode(n))
    PROVE  Se(bits, Where(bits, p)) = Field(bits, p + Len(SeCode(n)), n)
<1> DEFINE u == IF n > 0 THEN 2 * n - 1 ELSE -2 * n
           end == p + Len(UeCode(u))
           at == Where(bits, p)
           q == Field(bits, end, n)
<1>1. SeCode(n) = UeCode(u)
  BY DEF SeCode
<1>2. Ue(bits, at) = Field(bits, end, u)
  <2>1. Codable(u) /\ Fits(bits, p, UeCode(u))
    BY <1>1
  <2> HIDE DEF u
  <2> QED
    BY <2>1, UeIs
<1>4. u \in Nat /\ n = IF u % 2 = 0 THEN 0 - ((u + 1) \div 2) ELSE (u + 1) \div 2
  <2>1. CASE n > 0
    <3>1. u = 2 * n - 1
      BY <2>1
    <3> HIDE DEF u
    <3>2. u % 2 = 1 /\ (u + 1) \div 2 = n /\ u \in Nat
      BY <2>1, <3>1
    <3> QED
      BY <3>2
  <2>2. CASE ~(n > 0)
    <3>1. u = -2 * n
      BY <2>2
    <3> HIDE DEF u
    <3>2. u \in Nat
      BY <2>2, <3>1
    <3>3. u % 2 = 0 /\ 0 - ((u + 1) \div 2) = n
      BY <2>2, <3>1, <3>2
    <3> QED
      BY <3>2, <3>3
  <2> QED
    BY <2>1, <2>2
<1>5. 0 % 2 = 0 /\ (0 + 1) \div 2 = 0 /\ 0 - 0 = 0
  OBVIOUS
<1> HIDE DEF u, end, at
<1>6. CASE end <= Len(bits) + 1
  <2>1. Ue(bits, at) = [value |-> u, at |-> end]
    BY <1>2, <1>6 DEF Field, Where
  <2>2. q = [value |-> n, at |-> end]
    BY <1>6 DEF Field, Where
  <2> HIDE DEF q
  <2>3. Se(bits, at) = q
    BY <1>4, <2>1, <2>2, SeReads
  <2> QED
    BY <1>1, <2>3 DEF end, q, at
<1>7. CASE ~(end <= Len(bits) + 1)
  <2>1. Ue(bits, at) = [value |-> 0, at |-> Over(bits)]
    BY <1>2, <1>7 DEF Field, Where
  <2>2. q = [value |-> 0, at |-> Over(bits)]
    BY <1>7 DEF Field, Where
  <2> HIDE DEF q
  <2>3. 0 = IF 0 % 2 = 0 THEN 0 - ((0 + 1) \div 2) ELSE (0 + 1) \div 2
    BY <1>5
  <2>4. Se(bits, at) = q
    <3> DEFINE z == 0
    <3>1. z \in Nat /\ z \in Int /\ z = IF z % 2 = 0 THEN 0 - ((z + 1) \div 2) ELSE (z + 1) \div 2
      BY <2>3
    <3>2. Ue(bits, at) = [value |-> z, at |-> Over(bits)] /\ q = [value |-> z, at |-> Over(bits)]
      BY <2>1, <2>2
    <3> HIDE DEF z
    <3> QED
      BY <3>1, <3>2, SeReads
  <2> QED
    BY <1>1, <2>4 DEF end, q, at
<1> QED
  BY <1>6, <1>7

\* Once the bits have run out, nothing is read any more.
LEMMA OverStays ==
    ASSUME NEW bits \in Seq(Bit)
    PROVE  /\ \A n \in Nat : U(bits, Over(bits), n) = NoField(bits)
           /\ Ue(bits, Over(bits)) = NoField(bits) /\ Se(bits, Over(bits)) = NoField(bits)
           /\ NoField(bits).at = Over(bits) /\ NoField(bits).value = 0
<1>1. Len(bits) \in Nat
  BY SMTT(30)
<1>2. \A n \in Nat : U(bits, Over(bits), n) = NoField(bits)
  BY <1>1 DEF U, Over
<1>3. Ue(bits, Over(bits)) = NoField(bits)
  <2>1. Over(bits) \in Nat /\ \A i \in Over(bits)..Len(bits) : bits[i] # 1
    BY <1>1 DEF Over
  <2>2. FirstOne(bits, Over(bits)) = Over(bits)
    BY <2>1, FirstOneIs
  <2> QED
    BY <2>2, UeReads
<1>4. NoField(bits).at = Over(bits) /\ NoField(bits).value = 0
  BY DEF NoField
<1>5. Se(bits, Over(bits)) = NoField(bits)
  <2> DEFINE z == 0
             q == NoField(bits)
  <2>1. z \in Nat /\ z \in Int /\ z = IF z % 2 = 0 THEN 0 - ((z + 1) \div 2) ELSE (z + 1) \div 2
    OBVIOUS
  <2>2. Ue(bits, Over(bits)) = [value |-> z, at |-> Over(bits)] /\ q = [value |-> z, at |-> Over(bits)]
    BY <1>3 DEF NoField
  <2> HIDE DEF z, q
  <2>3. Se(bits, Over(bits)) = q
    BY <2>1, <2>2, SeReads
  <2> QED
    BY <2>3 DEF q
<1> QED
  BY <1>2, <1>3, <1>4, <1>5

\* What a field is read as: a number, and a place.
Readings == [value : Int, at : Nat \ {0}]

\* u, ue and se read an integer and leave a position behind them, whatever the bits.
LEMMA ReadsAreTyped ==
    ASSUME NEW bits \in Seq(Bit), NEW at \in Nat \ {0}
    PROVE  /\ \A n \in Nat : U(bits, at, n) \in Readings
           /\ Ue(bits, at) \in Readings /\ Se(bits, at) \in Readings
<1>1. Len(bits) \in Nat /\ Over(bits) \in Nat \ {0} /\ NoField(bits) \in Readings
  BY DEF Over, NoField, Readings
<1>2. \A a \in Nat \ {0} : \A n \in Nat : U(bits, a, n) \in Readings
  <2> SUFFICES ASSUME NEW a \in Nat \ {0}, NEW n \in Nat PROVE U(bits, a, n) \in Readings
    BY SMTT(30)
  <2>1. CASE a + n > Len(bits) + 1
    BY <1>1, <2>1 DEF U
  <2>2. CASE ~(a + n > Len(bits) + 1)
    <3> DEFINE e == a + n - 1
               part == SubSeq(bits, a, e)
    <3>1. e \in Nat /\ e <= Len(bits) /\ a <= e + 1
      BY <1>1, <2>2
    <3> HIDE DEF e
    <3>2. part \in Seq(Bit)
      BY <3>1, PartIs
    <3> HIDE DEF part
    <3>3. Number(2, part) \in Nat
      <4>1. part \in Seq(Nat) /\ 2 \in Nat
        BY <3>2 DEF Bit
      <4> QED
        BY <4>1, OneDigitMore
    <3>4. U(bits, a, n) = [value |-> Number(2, part), at |-> a + n]
      BY <2>2 DEF U, part, e
    <3> QED
      BY <3>3, <3>4 DEF Readings
  <2> QED
    BY <2>1, <2>2
<1>3. Ue(bits, at) \in Readings
  <2> DEFINE one == FirstOne(bits, at)
             number == U(bits, one, one - at + 1)
  <2>1. CASE \A i \in at..Len(bits) : bits[i] # 1
    <3>1. one = Over(bits)
      BY <2>1, FirstOneIs
    <3> QED
      BY <1>1, <3>1, UeReads
  <2>2. CASE ~(\A i \in at..Len(bits) : bits[i] # 1)
    <3> DEFINE T == {i \in at..Len(bits) : bits[i] = 1}
    <3>1. T \in SUBSET Nat /\ T # {}
      BY <2>2
    <3>2. PICK i \in T : \A j \in T : i <= j
      BY <3>1, LeastIndex
    <3>3. one = i
      BY <3>2, FirstOneIs
    <3>4. one \in Nat \ {0} /\ one - at + 1 \in Nat
      BY <3>2, <3>3
    <3>5. number \in Readings
      <4> HIDE DEF one
      <4> QED
        BY <1>2, <3>4
    <3> HIDE DEF number
    <3>6. LessOne(bits, number) \in Readings
      <4>1. number.value \in Int /\ number.at \in Nat \ {0} /\ number = [value |-> number.value, at |-> number.at]
        BY <3>5 DEF Readings
      <4>2. [number EXCEPT !.value = @ - 1] = [value |-> number.value - 1, at |-> number.at]
        BY <4>1
      <4>3. [number EXCEPT !.value = @ - 1] \in Readings
        BY <4>1, <4>2 DEF Readings
      <4> QED
        BY <1>1, <4>3 DEF LessOne
    <3>7. Ue(bits, at) = IF one = Over(bits) \/ one - at > 31 THEN NoField(bits) ELSE LessOne(bits, number)
      <4>1. number = U(bits, one, one - at + 1)
        BY DEF number
      <4> HIDE DEF one
      <4>2. one = FirstOne(bits, at)
        BY DEF one
      <4> QED
        BY <4>1, <4>2, UeReads
    <3> QED
      BY <1>1, <3>6, <3>7
  <2> QED
    BY <2>1, <2>2
<1>4. Se(bits, at) \in Readings
  <2> DEFINE ue == Ue(bits, at)
             magnitude == (ue.value + 1) \div 2
             v == IF ue.value % 2 = 0 THEN -magnitude ELSE magnitude
  <2>1. ue.value \in Int /\ ue.at \in Nat \ {0} /\ ue = [value |-> ue.value, at |-> ue.at]
    BY <1>3 DEF Readings
  <2>2. Se(bits, at) = [ue EXCEPT !.value = IF @ % 2 = 0 THEN -magnitude ELSE magnitude]
    BY DEF Se
  <2> HIDE DEF ue
  <2>3. magnitude \in Int
    BY <2>1
  <2> HIDE DEF magnitude
  <2>4. v \in Int
    BY <2>3
  <2>5. Se(bits, at) = [value |-> v, at |-> ue.at]
    BY <2>1, <2>2
  <2> HIDE DEF v
  <2> QED
    BY <2>1, <2>4, <2>5 DEF Readings
<1> QED
  BY <1>2, <1>3, <1>4

-----------------------------------------------------------------------------
(* Scaling lists.                                                          *)

Scales == [at : Nat \ {0}, next : Int, last : Int]

\* One scale of a list keeps the reader's state, and none is read once the next is zero or
\* the bits are over.
LEMMA ScaleIs ==
    ASSUME NEW bits \in Seq(Bit), NEW s \in Scales
    PROVE  /\ Scale(bits, s) \in Scales
           /\ s.next = 0 => Scale(bits, s) = s
           /\ s.at = Over(bits) => Scale(bits, s).at = Over(bits)
<1> DEFINE delta == Se(bits, s.at)
           scale == (s.last + delta.value + 256) % 256
           q == [at |-> delta.at, next |-> scale, last |-> IF scale = 0 THEN s.last ELSE scale]
<1>1. Scale(bits, s) = IF s.next = 0 THEN s ELSE q
  BY DEF Scale
<1>2. s.at \in Nat \ {0} /\ s.next \in Int /\ s.last \in Int
  BY DEF Scales
<1>3. delta \in Readings
  BY <1>2, ReadsAreTyped
<1>4. s.at = Over(bits) => delta.at = Over(bits)
  BY OverStays
<1> HIDE DEF delta
<1>5. delta.value \in Int /\ delta.at \in Nat \ {0}
  BY <1>3 DEF Readings
<1>6. scale \in Int
  BY <1>2, <1>5
<1>7. q.at = delta.at /\ q.next = scale /\ q.last = IF scale = 0 THEN s.last ELSE scale
  OBVIOUS
<1>8. q \in Scales
  <2> HIDE DEF scale
  <2> QED
    BY <1>2, <1>5, <1>6 DEF Scales
<1> HIDE DEF q
<1> QED
  BY <1>1, <1>4, <1>7, <1>8

\* What the scales differ by here.
Deltas == -12..8

\* A scale that fits is read.
LEMMA ScaleReads ==
    ASSUME NEW bits \in Seq(Bit), NEW s \in Scales, NEW p \in Nat \ {0}, NEW d \in Deltas,
           NEW end, NEW r, s.next # 0, s.at = Where(bits, p), Fits(bits, p, SeCode(d)),
           end = p + Len(SeCode(d)), r = (s.last + d + 256) % 256
    PROVE  /\ Scale(bits, s).at = Where(bits, end)
           /\ end <= Len(bits) + 1 => /\ Scale(bits, s).next = r
                                      /\ Scale(bits, s).last = IF r = 0 THEN s.last ELSE r
<1> DEFINE delta == Se(bits, s.at)
           scale == (s.last + delta.value + 256) % 256
           q == [at |-> delta.at, next |-> scale, last |-> IF scale = 0 THEN s.last ELSE scale]
           u == IF d > 0 THEN 2 * d - 1 ELSE -2 * d
<1>1. Scale(bits, s) = q
  BY DEF Scale
<1>2. Codable(u)
  <2>1. u \in Nat /\ u <= 24
    BY DEF Deltas
  <2> HIDE DEF u
  <2>2. u < CodeLimit
    BY SMTT(20), <2>1 DEF CodeLimit
  <2> QED
    BY <2>1, <2>2, CodableIs
<1>3. delta = Field(bits, end, d)
  <2>1. d \in Int
    BY DEF Deltas
  <2> HIDE DEF u
  <2>2. Codable(IF d > 0 THEN 2 * d - 1 ELSE -2 * d)
    BY <1>2 DEF u
  <2> QED
    BY <2>1, <2>2, SeIs
<1> HIDE DEF delta
<1>4. delta.at = Where(bits, end) /\ (end <= Len(bits) + 1 => delta.value = d)
  BY <1>3 DEF Field
<1>5. end <= Len(bits) + 1 => scale = r
  BY <1>4
<1>7. q.at = delta.at /\ q.next = scale /\ q.last = IF scale = 0 THEN s.last ELSE scale
  OBVIOUS
<1> HIDE DEF scale, q
<1> QED
  BY <1>1, <1>4, <1>5, <1>7

\* A list is read scale after scale.
LEMMA ScalesFollow ==
    ASSUME NEW bits \in Seq(Bit), NEW at \in Nat \ {0}, NEW size \in Nat
    PROVE  \E f : /\ f \in [0..size -> Scales] /\ f[0] = [at |-> at, last |-> 8, next |-> 8]
                  /\ \A i \in 1..size : f[i] = Scale(bits, f[i - 1])
                  /\ SkipScalingList(bits, at, size) = f[size].at
<1> DEFINE b == [at |-> at, last |-> 8, next |-> 8]
           step == [a \in Scales \X (1..size) |-> Scale(bits, a[1])]
           Is(g) == g = [i \in 0..size |-> IF i = 0 THEN [at |-> at, last |-> 8, next |-> 8] ELSE Scale(bits, g[i - 1])]
           f == CHOOSE g : Is(g)
<1>1. b \in Scales
  BY DEF Scales
<1>2. step \in [Scales \X (1..size) -> Scales]
  <2>1. \A a \in Scales \X (1..size) : Scale(bits, a[1]) \in Scales
    BY ScaleIs
  <2> QED
    BY <2>1
<1>3. \A s \in Scales, i \in 1..size : step[<<s, i>>] = Scale(bits, s)
  OBVIOUS
<1> HIDE DEF step, b
<1>4. PICK g : Recurs(g, Scales, b, size, step)
  BY <1>1, <1>2, SomeRecursion
<1>5. /\ g \in [0..size -> Scales] /\ g[0] = b
      /\ \A i \in 1..size : g[i] = Scale(bits, g[i - 1])
  <2>1. g \in [0..size -> Scales] /\ g[0] = b /\ \A i \in 1..size : g[i] = step[<<g[i - 1], i>>]
    BY <1>4 DEF Recurs
  <2>2. \A i \in 1..size : i - 1 \in 0..size
    OBVIOUS
  <2> QED
    BY <2>1, <2>2, <1>3
<1>6. Is(g)
  <2>1. \A i \in 0..size : i = 0 \/ i \in 1..size
    OBVIOUS
  <2>2. \A i \in 0..size : g[i] = IF i = 0 THEN b ELSE Scale(bits, g[i - 1])
    BY <2>1, <1>5
  <2>3. g = [i \in 0..size |-> g[i]]
    BY <1>5
  <2> QED
    BY <2>2, <2>3 DEF b
<1>7. Is(f)
  <2> HIDE DEF Is
  <2> QED
    BY <1>6
<1>8. SkipScalingList(bits, at, size) = f[size].at
  BY DEF SkipScalingList
<1> HIDE DEF f
<1> DEFINE T == {i \in 0..size : f[i] = g[i]}
<1>9. 0 \in T
  BY <1>5, <1>7 DEF b
<1>10. \A i \in 1..size : i - 1 \in T => i \in T
  <2> SUFFICES ASSUME NEW i \in 1..size, i - 1 \in T PROVE i \in T
    OBVIOUS
  <2>1. i \in 0..size /\ i # 0 /\ f[i - 1] = g[i - 1]
    OBVIOUS
  <2>2. f[i] = Scale(bits, f[i - 1]) /\ g[i] = Scale(bits, g[i - 1])
    BY <1>5, <1>7, <2>1
  <2> QED
    BY <2>1, <2>2
<1>11. f[size] = g[size]
  <2> HIDE DEF T
  <2>1. 0..size \subseteq T
    BY <1>9, <1>10, FirstNumbers
  <2>2. size \in T
    BY <2>1
  <2> QED
    BY <2>2 DEF T
<1> QED
  BY <1>5, <1>8, <1>11 DEF b

\* The code of a number is bits, one at least.
LEMMA UeCodeIsBits ==
    ASSUME NEW n, Codable(n)
    PROVE  UeCode(n) \in Seq(Bit) /\ Len(UeCode(n)) \in Nat \ {0}
<1>1. \E k \in 0..31 : UeCode(n) \in Seq(Bit) /\ Len(UeCode(n)) = 2 * k + 1
  BY UeCodeIs
<1> QED
  BY <1>1

\* Numbers to a thousand have codes that ue can read.
LEMMA SmallCodes == \A n \in Nat : n <= 1000 => Codable(n)
<1> SUFFICES ASSUME NEW n \in Nat, n <= 1000 PROVE Codable(n)
  OBVIOUS
<1>1. n < CodeLimit
  BY SMTT(20) DEF CodeLimit
<1> QED
  BY <1>1, CodableIs

\* A scale as it is coded here.
LEMMA ScaleCodeIs ==
    ASSUME NEW d \in Deltas
    PROVE  SeCode(d) \in Seq(Bit) /\ Len(SeCode(d)) \in Nat \ {0}
<1> DEFINE u == IF d > 0 THEN 2 * d - 1 ELSE -2 * d
<1>1. SeCode(d) = UeCode(u)
  BY DEF SeCode
<1>2. u \in Nat /\ u <= 24
  BY DEF Deltas
<1> HIDE DEF u
<1>3. Codable(u)
  BY <1>2, SmallCodes
<1> QED
  BY <1>1, <1>3, UeCodeIsBits

\* The shortest codes.
LEMMA OneIs ==
    /\ UeCode(0) = <<1>> /\ SeCode(0) = <<1>>
    /\ <<1>> \in Seq(Bit) /\ Len(<<1>>) = 1 /\ <<1>>[1] = 1 /\ Number(2, <<1>>) = 1
    /\ <<0>> \in Seq(Bit) /\ Len(<<0>>) = 1 /\ <<0>>[1] = 0 /\ Number(2, <<0>>) = 0
<1>1. Binary[1] = <<1>>
  <2>1. 1 \in Nat /\ 1 < 2
    OBVIOUS
  <2> DEFINE n == 1
  <2> HIDE DEF n
  <2>2. n \in Nat /\ n < 2
    BY <2>1 DEF n
  <2>3. Binary[n] = <<n>>
    BY <2>2, BinaryIs
  <2> QED
    BY <2>3 DEF n
<1>2. Zeros(0) = <<>>
  <2>1. Zeros(0) \in Seq(Bit) /\ Len(Zeros(0)) = 0
    BY ZerosAre
  <2> QED
    BY <2>1
<1>3. UeCode(0) = <<1>>
  <2>1. <<1>> \in Seq(Nat) /\ Len(<<1>>) = 1 /\ 0 + 1 = 1 /\ 1 - 1 = 0
    OBVIOUS
  <2>2. UeCode(0) = Zeros(0) \o <<1>>
    BY <1>1, <2>1 DEF UeCode
  <2> QED
    BY <1>2, <2>1, <2>2, ConcatEmptySeq
<1>4. SeCode(0) = UeCode(0)
  BY DEF SeCode
<1>5. Number(2, <<1>>) = 1 /\ Number(2, <<0>>) = 0
  BY OneDigit
<1>6. <<1>> \in Seq(Bit) /\ Len(<<1>>) = 1 /\ <<1>>[1] = 1 /\ <<0>> \in Seq(Bit) /\ Len(<<0>>) = 1 /\ <<0>>[1] = 0
  BY DEF Bit
<1> QED
  BY <1>3, <1>4, <1>5, <1>6

\* Behind the end of a list, and behind the end of the bits, scales are not read.
LEMMA ScalesStay ==
    ASSUME NEW bits \in Seq(Bit), NEW size \in Nat, NEW f \in [0..size -> Scales],
           \A i \in 1..size : f[i] = Scale(bits, f[i - 1]),
           NEW m \in 0..size, f[m].next = 0 \/ f[m].at = Over(bits)
    PROVE  f[size].at = f[m].at
<1> DEFINE T == {i \in 0..size : i < m \/ (f[i].at = f[m].at /\ (f[i].next = 0 \/ f[i].at = Over(bits)))}
<1>1. 0 \in T
  OBVIOUS
<1>2. \A i \in 1..size : i - 1 \in T => i \in T
  <2> SUFFICES ASSUME NEW i \in 1..size, i - 1 \in T PROVE i \in T
    OBVIOUS
  <2>1. i \in 0..size /\ i - 1 \in 0..size
    OBVIOUS
  <2>2. f[i] = Scale(bits, f[i - 1]) /\ f[i - 1] \in Scales
    BY <2>1
  <2>3. CASE i < m
    BY <2>1, <2>3
  <2>4. CASE i = m
    BY <2>1, <2>4
  <2>5. CASE i > m
    <3>1. f[i - 1].at = f[m].at /\ (f[i - 1].next = 0 \/ f[i - 1].at = Over(bits))
      BY <2>5
    <3>2. f[i].at = f[m].at /\ (f[i].next = 0 \/ f[i].at = Over(bits))
      BY <2>2, <3>1, ScaleIs
    <3> QED
      BY <2>1, <3>2
  <2> QED
    BY <2>3, <2>4, <2>5
<1>3. size \in T
  <2> HIDE DEF T
  <2>1. 0..size \subseteq T
    BY <1>1, <1>2, FirstNumbers
  <2> QED
    BY <2>1
<1> QED
  BY <1>3

\* A scaling list that says "the default" is skipped with its one number.
LEMMA DefaultListIsSkipped ==
    ASSUME NEW bits \in Seq(Bit), NEW p \in Nat \ {0}, p <= Len(bits) + 1, NEW n \in Nat \ {0},
           Fits(bits, p, SeCode(-8))
    PROVE  SkipScalingList(bits, p, n) = Where(bits, p + Len(SeCode(-8)))
<1> DEFINE end == p + Len(SeCode(-8))
<1>1. PICK f : /\ f \in [0..n -> Scales] /\ f[0] = [at |-> p, last |-> 8, next |-> 8]
               /\ \A i \in 1..n : f[i] = Scale(bits, f[i - 1])
               /\ SkipScalingList(bits, p, n) = f[n].at
  BY ScalesFollow
<1>2. f[0] \in Scales /\ f[0].at = Where(bits, p) /\ f[0].next = 8 /\ f[0].last = 8 /\ f[1] = Scale(bits, f[0])
  <2>1. 0 \in 0..n /\ 1 \in 1..n /\ 1 - 1 = 0
    OBVIOUS
  <2>2. f[1] = Scale(bits, f[0]) /\ f[0] \in Scales
    BY <1>1, <2>1
  <2> QED
    BY <2>2, <1>1 DEF Where
<1>3. f[1].at = Where(bits, end) /\ (end <= Len(bits) + 1 => f[1].next = 0)
  <2> DEFINE d == -8
  <2>0. d \in Deltas /\ (8 + d + 256) % 256 = 0 /\ f[0].next # 0
    BY <1>2 DEF Deltas
  <2>1. Fits(bits, p, SeCode(d))
    OBVIOUS
  <2>a. end = p + Len(SeCode(d)) /\ 0 = (f[0].last + d + 256) % 256
    BY <1>2, <2>0
  <2> HIDE DEF d, end
  <2>2. Scale(bits, f[0]).at = Where(bits, end) /\ (end <= Len(bits) + 1 => Scale(bits, f[0]).next = 0)
    <3> DEFINE s == f[0]
               r == 0
    <3>1. /\ bits \in Seq(Bit) /\ s \in Scales /\ p \in Nat \ {0} /\ d \in Deltas
          /\ s.next # 0 /\ s.at = Where(bits, p) /\ Fits(bits, p, SeCode(d))
          /\ end = p + Len(SeCode(d)) /\ r = (s.last + d + 256) % 256
      BY <1>2, <2>0, <2>1, <2>a
    <3> HIDE DEF s, r
    <3>2. /\ Scale(bits, s).at = Where(bits, end)
          /\ end <= Len(bits) + 1 => /\ Scale(bits, s).next = r
                                    /\ Scale(bits, s).last = IF r = 0 THEN s.last ELSE r
      BY ONLY <3>1, ScaleReads
    <3> QED
      BY <3>2 DEF s, r
  <2> QED
    BY <1>2, <2>2
<1> HIDE DEF end
<1>4. f[1].next = 0 \/ f[1].at = Over(bits)
  BY <1>3 DEF Where
<1>5. f[n].at = f[1].at
  <2>1. 1 \in 0..n
    OBVIOUS
  <2> QED
    BY <1>1, <1>4, <2>1, ScalesStay
<1> QED
  BY <1>1, <1>3, <1>5 DEF end

\* A scaling list that ends after its first scale is skipped with its two numbers.
LEMMA EndingListIsSkipped ==
    ASSUME NEW bits \in Seq(Bit), NEW p \in Nat \ {0}, p <= Len(bits) + 1, NEW n \in Nat \ {0, 1},
           Fits(bits, p, SeCode(4) \o SeCode(-12))
    PROVE  SkipScalingList(bits, p, n) = Where(bits, p + Len(SeCode(4) \o SeCode(-12)))
<1> DEFINE a == 4
           b == -12
           x == SeCode(a)
           y == SeCode(b)
           e1 == p + Len(x)
           e2 == e1 + Len(y)
<1>0. a \in Deltas /\ b \in Deltas /\ (8 + a + 256) % 256 = 12 /\ (12 + b + 256) % 256 = 0
  BY DEF Deltas
<1>1. x \in Seq(Bit) /\ y \in Seq(Bit) /\ Len(x) \in Nat /\ Len(y) \in Nat
  <2> HIDE DEF a, b
  <2> QED
    BY <1>0, ScaleCodeIs
<1>2. Fits(bits, p, x) /\ Fits(bits, e1, y) /\ Len(x \o y) = Len(x) + Len(y)
  <2>1. Fits(bits, p, x \o y)
    OBVIOUS
  <2> HIDE DEF x, y
  <2>2. x \in Seq(Bit) /\ y \in Seq(Bit)
    BY <1>1
  <2>3. Fits(bits, p, x) /\ Fits(bits, e1, y)
    BY <2>1, <2>2, FitsJoined
  <2> QED
    BY <2>2, <2>3
<1>3. p + Len(SeCode(4) \o SeCode(-12)) = e2
  <2>1. p + Len(x \o y) = e2
    <3> HIDE DEF x, y
    <3> QED
      BY <1>1, <1>2
  <2> QED
    BY <2>1
<1> HIDE DEF a, b
<1>4. PICK f : /\ f \in [0..n -> Scales] /\ f[0] = [at |-> p, last |-> 8, next |-> 8]
               /\ \A i \in 1..n : f[i] = Scale(bits, f[i - 1])
               /\ SkipScalingList(bits, p, n) = f[n].at
  BY ScalesFollow
<1>5. /\ f[0] \in Scales /\ f[0].at = Where(bits, p) /\ f[0].next = 8 /\ f[0].last = 8 /\ f[1] = Scale(bits, f[0])
      /\ f[1] \in Scales /\ f[2] = Scale(bits, f[1]) /\ 1 \in 0..n /\ 2 \in 0..n
  <2>1. 0 \in 0..n /\ 1 \in 1..n /\ 1 - 1 = 0 /\ 2 \in 1..n /\ 2 - 1 = 1 /\ 1 \in 0..n /\ 2 \in 0..n
    OBVIOUS
  <2>2. f[1] = Scale(bits, f[0]) /\ f[0] \in Scales /\ f[1] \in Scales /\ f[2] = Scale(bits, f[1])
    BY <1>4, <2>1
  <2>3. f[0].at = Where(bits, p) /\ f[0].next = 8 /\ f[0].last = 8
    BY <1>4 DEF Where
  <2> QED
    BY <2>1, <2>2, <2>3
<1> HIDE DEF x, y
<1>6. f[1].at = Where(bits, e1) /\ (e1 <= Len(bits) + 1 => f[1].next = 12 /\ f[1].last = 12)
  <2>1. f[0].next # 0 /\ Fits(bits, p, SeCode(a)) /\ e1 = p + Len(SeCode(a)) /\ 12 = (f[0].last + a + 256) % 256
    BY <1>0, <1>2, <1>5 DEF x
  <2> HIDE DEF e1
  <2> DEFINE r == 12
  <2>a. r = (f[0].last + a + 256) % 256 /\ r # 0
    BY <2>1
  <2> HIDE DEF r
  <2>2. /\ Scale(bits, f[0]).at = Where(bits, e1)
        /\ e1 <= Len(bits) + 1 => /\ Scale(bits, f[0]).next = r
                                  /\ Scale(bits, f[0]).last = IF r = 0 THEN f[0].last ELSE r
    <3> DEFINE s == f[0]
    <3>1. /\ bits \in Seq(Bit) /\ s \in Scales /\ p \in Nat \ {0} /\ a \in Deltas
          /\ s.next # 0 /\ s.at = Where(bits, p) /\ Fits(bits, p, SeCode(a))
          /\ e1 = p + Len(SeCode(a)) /\ r = (s.last + a + 256) % 256
      BY <1>0, <1>5, <2>1, <2>a
    <3> HIDE DEF s
    <3>2. /\ Scale(bits, s).at = Where(bits, e1)
          /\ e1 <= Len(bits) + 1 => /\ Scale(bits, s).next = r
                                    /\ Scale(bits, s).last = IF r = 0 THEN s.last ELSE r
      BY ONLY <3>1, ScaleReads
    <3> QED
      BY <3>2 DEF s
  <2> QED
    BY <1>5, <2>2, <2>a DEF r
<1>7. CASE e1 <= Len(bits) + 1
  <2>1. f[2].at = Where(bits, e2) /\ (e2 <= Len(bits) + 1 => f[2].next = 0)
    <3>1. f[1].next # 0 /\ f[1].last = 12 /\ f[1].at = Where(bits, e1) /\ Fits(bits, e1, SeCode(b)) /\ e1 \in Nat \ {0}
      BY <1>1, <1>2, <1>6, <1>7 DEF y
    <3>a. e2 = e1 + Len(SeCode(b)) /\ 0 = (f[1].last + b + 256) % 256
      BY <1>0, <3>1 DEF y
    <3> HIDE DEF e1, e2
    <3>2. Scale(bits, f[1]).at = Where(bits, e2) /\ (e2 <= Len(bits) + 1 => Scale(bits, f[1]).next = 0)
      <4> DEFINE s == f[1]
                 r == 0
      <4>1. /\ bits \in Seq(Bit) /\ s \in Scales /\ e1 \in Nat \ {0} /\ b \in Deltas
            /\ s.next # 0 /\ s.at = Where(bits, e1) /\ Fits(bits, e1, SeCode(b))
            /\ e2 = e1 + Len(SeCode(b)) /\ r = (s.last + b + 256) % 256
        BY <1>0, <1>5, <3>1, <3>a
      <4> HIDE DEF s, r
      <4>2. /\ Scale(bits, s).at = Where(bits, e2)
            /\ e2 <= Len(bits) + 1 => /\ Scale(bits, s).next = r
                                      /\ Scale(bits, s).last = IF r = 0 THEN s.last ELSE r
        BY ONLY <4>1, ScaleReads
      <4> QED
        BY <4>2 DEF s, r
    <3> QED
      BY <1>5, <3>2
  <2> HIDE DEF e1, e2
  <2>2. f[2].next = 0 \/ f[2].at = Over(bits)
    BY <2>1 DEF Where
  <2>3. f[n].at = f[2].at
    BY <1>4, <1>5, <2>2, ScalesStay
  <2> QED
    BY <1>3, <1>4, <2>1, <2>3
<1>8. CASE ~(e1 <= Len(bits) + 1)
  <2>1. f[1].at = Over(bits) /\ Where(bits, e2) = Over(bits)
    <3>1. ~(e2 <= Len(bits) + 1)
      BY <1>1, <1>8
    <3> HIDE DEF e1, e2
    <3> QED
      BY <1>6, <1>8, <3>1 DEF Where
  <2>2. f[n].at = f[1].at
    BY <1>4, <1>5, <2>1, ScalesStay
  <2> QED
    BY <1>3, <1>4, <2>1, <2>2
<1> QED
  BY <1>7, <1>8

\* A scale that repeats the last is one bit.
LEMMA OneScaleMore ==
    ASSUME NEW bits \in Seq(Bit), NEW s \in Scales, NEW q \in Nat \ {0}, NEW v,
           v = q + 1, s.at = Where(bits, q), Fits(bits, q, << 1 >>),
           q <= Len(bits) + 1 => s.next = 16 /\ s.last = 16
    PROVE  /\ Scale(bits, s).at = Where(bits, v)
           /\ v <= Len(bits) + 1 => Scale(bits, s).next = 16 /\ Scale(bits, s).last = 16
<1> DEFINE z == 0
           r == 16
           l == Len(bits)
<1>0. z \in Deltas /\ l \in Nat
  BY DEF Deltas
<1>1. CASE q <= l + 1
  <2>1. r = (s.last + z + 256) % 256 /\ r # 0
    BY <1>1
  <2>2. Fits(bits, q, SeCode(z)) /\ v = q + Len(SeCode(z))
    BY OneIs
  <2>3. s.next # 0
    BY <1>1
  <2>4. /\ bits \in Seq(Bit) /\ s \in Scales /\ q \in Nat \ {0} /\ z \in Deltas
        /\ s.next # 0 /\ s.at = Where(bits, q) /\ Fits(bits, q, SeCode(z))
        /\ v = q + Len(SeCode(z)) /\ r = (s.last + z + 256) % 256
    BY <1>0, <2>1, <2>2, <2>3
  <2> HIDE DEF z, r
  <2>5. /\ Scale(bits, s).at = Where(bits, v)
        /\ v <= Len(bits) + 1 => /\ Scale(bits, s).next = r
                                 /\ Scale(bits, s).last = IF r = 0 THEN s.last ELSE r
    BY ONLY <2>4, ScaleReads
  <2> QED
    BY <2>1, <2>5 DEF r
<1>2. CASE ~(q <= l + 1)
  <2>1. s.at = Over(bits)
    BY <1>2 DEF Where
  <2>2. Scale(bits, s).at = Over(bits)
    BY <2>1, ScaleIs
  <2>3. ~(v <= l + 1)
    BY <1>0, <1>2
  <2> QED
    BY <2>2, <2>3 DEF Where
<1> QED
  BY <1>1, <1>2

\* A scaling list of one scale over and over is skipped, a bit for each.
LEMMA FlatListIsSkipped ==
    ASSUME NEW bits \in Seq(Bit), NEW p \in Nat \ {0}, p <= Len(bits) + 1, NEW n \in Nat \ {0, 1},
           Fits(bits, p, SeCode(8) \o [i \in 1 .. n - 1 |-> 1])
    PROVE  SkipScalingList(bits, p, n) = Where(bits, p + Len(SeCode(8) \o [i \in 1 .. n - 1 |-> 1]))
<1> DEFINE a == 8
           x == SeCode(a)
           y == [i \in 1 .. n - 1 |-> 1]
           l == Len(bits)
           e == p + Len(x)
           w == e + (n - 1)
<1>0. a \in Deltas /\ (8 + a + 256) % 256 = 16 /\ 0 \in Deltas /\ (16 + 0 + 256) % 256 = 16 /\ l \in Nat
  BY DEF Deltas
<1>1. x \in Seq(Bit) /\ Len(x) \in Nat /\ y \in Seq(Bit) /\ Len(y) = n - 1 /\ \A i \in 1..(n - 1) : y[i] = 1
  <2>1. x \in Seq(Bit) /\ Len(x) \in Nat
    <3> HIDE DEF a
    <3> QED
      BY <1>0, ScaleCodeIs
  <2>2. y \in [1..(n - 1) -> Bit] /\ n - 1 \in Nat
    BY DEF Bit
  <2> HIDE DEF y
  <2>3. y \in Seq(Bit) /\ Len(y) = n - 1
    BY <2>2, FunctionIsSeq
  <2> QED
    BY <2>1, <2>3 DEF y
<1>2. Fits(bits, p, x) /\ Fits(bits, e, y) /\ Len(x \o y) = Len(x) + Len(y)
  <2>1. Fits(bits, p, x \o y)
    OBVIOUS
  <2> HIDE DEF x, y
  <2>2. x \in Seq(Bit) /\ y \in Seq(Bit)
    BY <1>1
  <2>3. Fits(bits, p, x) /\ Fits(bits, e, y)
    BY <2>1, <2>2, FitsJoined
  <2> QED
    BY <2>2, <2>3
<1>3. p + Len(SeCode(8) \o [i \in 1 .. n - 1 |-> 1]) = w
  <2>1. p + Len(x \o y) = w
    <3> HIDE DEF x, y
    <3> QED
      BY <1>1, <1>2
  <2> QED
    BY <2>1
<1> HIDE DEF a, y
<1>4. PICK f : /\ f \in [0..n -> Scales] /\ f[0] = [at |-> p, last |-> 8, next |-> 8]
               /\ \A i \in 1..n : f[i] = Scale(bits, f[i - 1])
               /\ SkipScalingList(bits, p, n) = f[n].at
  BY ScalesFollow
<1>5. f[0] \in Scales /\ f[0].at = Where(bits, p) /\ f[0].next = 8 /\ f[0].last = 8 /\ f[1] = Scale(bits, f[0])
  <2>1. 0 \in 0..n /\ 1 \in 1..n /\ 1 - 1 = 0
    OBVIOUS
  <2>2. f[1] = Scale(bits, f[0]) /\ f[0] \in Scales
    BY <1>4, <2>1
  <2> QED
    BY <2>2, <1>4 DEF Where
<1> HIDE DEF x
<1>e. e \in Nat \ {0}
  BY <1>1
<1>6. f[1].at = Where(bits, e) /\ (e <= l + 1 => f[1].next = 16 /\ f[1].last = 16)
  <2> DEFINE s == f[0]
             r == 16
  <2>1. /\ bits \in Seq(Bit) /\ s \in Scales /\ p \in Nat \ {0} /\ a \in Deltas
        /\ s.next # 0 /\ s.at = Where(bits, p) /\ Fits(bits, p, SeCode(a))
        /\ e = p + Len(SeCode(a)) /\ r = (s.last + a + 256) % 256 /\ r # 0
    BY <1>0, <1>2, <1>5 DEF x
  <2> HIDE DEF s, r, e
  <2>2. /\ Scale(bits, s).at = Where(bits, e)
        /\ e <= Len(bits) + 1 => /\ Scale(bits, s).next = r
                                 /\ Scale(bits, s).last = IF r = 0 THEN s.last ELSE r
    BY ONLY <2>1, ScaleReads
  <2> QED
    BY <1>5, <2>1, <2>2 DEF s, r
<1> HIDE DEF e
<1> DEFINE At(i) == e + (i - 1)
           Good(i) == f[i].at = Where(bits, At(i)) /\ (At(i) <= l + 1 => f[i].next = 16 /\ f[i].last = 16)
           T == {i \in 0..n : i = 0 \/ Good(i)}
<1>7. 0 \in T
  OBVIOUS
<1>8. \A i \in 1..n : i - 1 \in T => i \in T
  <2> SUFFICES ASSUME NEW i \in 1..n, i - 1 \in T PROVE Good(i)
    OBVIOUS
  <2>1. CASE i = 1
    <3>1. At(1) = e
      BY <1>e
    <3> QED
      BY <2>1, <3>1, <1>6
  <2>2. CASE i # 1
    <3> DEFINE s == f[i - 1]
               q == At(i - 1)
    <3>1. Good(i - 1) /\ i - 1 # 0 /\ i - 1 \in 0..n
      BY <2>2
    <3>2. f[i] = Scale(bits, s) /\ s \in Scales
      BY <1>4, <3>1
    <3>3. q \in Nat \ {0} /\ At(i) = q + 1
      BY ONLY <1>e, <2>2
    <3>4. s.at = Where(bits, q) /\ (q <= l + 1 => s.next = 16 /\ s.last = 16)
      BY <3>1
    <3>a. i - 1 \in 1..(n - 1) /\ q = e + (i - 1) - 1
      BY <1>e, <2>2
    <3>5. Fits(bits, q, <<1>>)
      <4> SUFFICES ASSUME NEW j \in 1..Len(<< 1 >>), q + j - 1 <= l PROVE bits[q + j - 1] = <<1>>[j]
        BY DEF Fits
      <4>1. j = 1 /\ q + j - 1 = q
        BY <3>3, OneIs
      <4>2. i - 1 \in 1..Len(y) /\ e + (i - 1) - 1 <= Len(bits)
        BY <1>1, <3>a, <4>1
      <4>3. bits[e + (i - 1) - 1] = y[i - 1]
        BY <1>2, <4>2 DEF Fits
      <4>4. y[i - 1] = 1
        BY <1>1, <3>a
      <4> QED
        BY <3>a, <4>1, <4>3, <4>4, OneIs
    <3>6. s \in Scales /\ q \in Nat \ {0} /\ At(i) = q + 1 /\ s.at = Where(bits, q)
          /\ Fits(bits, q, <<1>>) /\ (q <= Len(bits) + 1 => s.next = 16 /\ s.last = 16)
      BY <3>2, <3>3, <3>4, <3>5
    <3> DEFINE v == At(i)
    <3> HIDE DEF q, s, v
    <3>7. v = q + 1
      BY <3>6 DEF v
    <3>8. /\ Scale(bits, s).at = Where(bits, v)
          /\ v <= Len(bits) + 1 => Scale(bits, s).next = 16 /\ Scale(bits, s).last = 16
      BY <3>6, <3>7, OneScaleMore
    <3> QED
      BY <3>2, <3>8 DEF v
  <2> QED
    BY <2>1, <2>2
<1>9. Good(n)
  <2>1. n \in T
    <3> HIDE DEF T
    <3>1. 0..n \subseteq T
      BY <1>7, <1>8, FirstNumbers
    <3> QED
      BY <3>1
  <2> HIDE DEF Good
  <2> QED
    BY <2>1
<1> QED
  BY <1>3, <1>4, <1>9

Forms == {"absent", "default", "ends", "flat"}

\* The code of a scaling list is bits, one at least.
LEMMA ListCodeIs ==
    ASSUME NEW form \in Forms, NEW n \in Nat \ {0, 1}
    PROVE  ListCode(form, n) \in Seq(Bit) /\ Len(ListCode(form, n)) \in Nat \ {0}
<1>0. \A s, t : s \in Seq(Bit) /\ t \in Seq(Bit) /\ Len(s) \in Nat \ {0} => s \o t \in Seq(Bit) /\ Len(s \o t) \in Nat \ {0}
  <2> SUFFICES ASSUME NEW s \in Seq(Bit), NEW t \in Seq(Bit), Len(s) \in Nat \ {0}
               PROVE  s \o t \in Seq(Bit) /\ Len(s \o t) \in Nat \ {0}
    OBVIOUS
  <2>1. s \o t \in Seq(Bit) /\ Len(s \o t) = Len(s) + Len(t) /\ Len(t) \in Nat
    BY JoinIs
  <2> QED
    BY <2>1
<1>1. <<1>> \in Seq(Bit) /\ Len(<<1>>) \in Nat \ {0} /\ <<0>> \in Seq(Bit) /\ Len(<<0>>) \in Nat \ {0}
  BY OneIs
<1>2. CASE form = "absent"
  BY <1>1, <1>2 DEF ListCode
<1>3. CASE form = "default"
  <2> DEFINE d == -8
  <2>1. d \in Deltas
    BY DEF Deltas
  <2> HIDE DEF d
  <2>2. SeCode(d) \in Seq(Bit)
    BY <2>1, ScaleCodeIs
  <2>3. ListCode(form, n) = <<1>> \o SeCode(d)
    BY <1>3 DEF ListCode, d
  <2> QED
    BY <1>0, <1>1, <2>2, <2>3
<1>4. CASE form = "ends"
  <2> DEFINE a == 4
             b == -12
  <2>1. a \in Deltas /\ b \in Deltas
    BY DEF Deltas
  <2> HIDE DEF a, b
  <2>2. SeCode(a) \in Seq(Bit) /\ SeCode(b) \in Seq(Bit) /\ Len(SeCode(a)) \in Nat \ {0}
    BY <2>1, ScaleCodeIs
  <2>3. ListCode(form, n) = <<1>> \o (SeCode(a) \o SeCode(b))
    <3>1. ListCode(form, n) = <<1>> \o SeCode(a) \o SeCode(b)
      BY <1>4 DEF ListCode, a, b
    <3> QED
      BY <1>1, <2>2, <3>1
  <2>4. SeCode(a) \o SeCode(b) \in Seq(Bit)
    BY <1>0, <2>2
  <2> QED
    BY <1>0, <1>1, <2>3, <2>4
<1>5. CASE form = "flat"
  <2> DEFINE a == 8
             y == [i \in 1 .. n - 1 |-> 1]
  <2>1. a \in Deltas
    BY DEF Deltas
  <2> HIDE DEF a
  <2>2. SeCode(a) \in Seq(Bit) /\ Len(SeCode(a)) \in Nat \ {0}
    BY <2>1, ScaleCodeIs
  <2>3. y \in [1..(n - 1) -> Bit] /\ n - 1 \in Nat
    BY DEF Bit
  <2>4. ListCode(form, n) = <<1>> \o SeCode(a) \o y
    BY <1>5 DEF ListCode, a
  <2> HIDE DEF y
  <2>5. y \in Seq(Bit)
    BY <2>3, FunctionIsSeq
  <2>6. <<1>> \o SeCode(a) \in Seq(Bit) /\ Len(<<1>> \o SeCode(a)) \in Nat \ {0}
    BY <1>0, <1>1, <2>2
  <2> QED
    BY <1>0, <2>4, <2>5, <2>6
<1> QED
  BY <1>2, <1>3, <1>4, <1>5 DEF Forms

\* What a field of so many bits, a code or a signed code says where it stands.
LEMMA FieldIs ==
    ASSUME NEW bits \in Seq(Bit), NEW end \in Nat \ {0}, NEW v
    PROVE  /\ Field(bits, end, v).at = Where(bits, end)
           /\ end <= Len(bits) + 1 => Field(bits, end, v).value = v /\ Field(bits, end, v).at = end
           /\ ~(end <= Len(bits) + 1) => Field(bits, end, v) = NoField(bits)
  BY DEF Field, Where, NoField

\* u reads the bit that stands where it is.
LEMMA BitAt ==
    ASSUME NEW bits \in Seq(Bit), NEW p \in Nat \ {0}, NEW b \in Bit, NEW at, NEW end, NEW field,
           Fits(bits, p, <<b>>), at = Where(bits, p), end = p + 1, field = U(bits, at, 1)
    PROVE  field = Field(bits, end, b) /\ end \in Nat \ {0}
<1>1. /\ <<b>> \in Seq(Bit) /\ Len(<<b>>) = 1 /\ Number(2, <<b>>) = b
  <2>1. b \in Nat
    BY DEF Bit
  <2> QED
    BY <2>1, OneDigit
<1> DEFINE code == <<b>>
<1>2. code \in Seq(Bit) /\ Fits(bits, p, code) /\ Len(code) = 1 /\ Number(2, code) = b
  BY <1>1
<1> HIDE DEF code
<1>3. U(bits, Where(bits, p), Len(code)) = Field(bits, p + Len(code), Number(2, code))
  BY <1>2, UIs
<1> QED
  BY <1>2, <1>3

\* ue reads the number whose code stands where it is.
LEMMA UeAt ==
    ASSUME NEW bits \in Seq(Bit), NEW p \in Nat \ {0}, NEW n, NEW at, NEW end, NEW field,
           Codable(n), Fits(bits, p, UeCode(n)), at = Where(bits, p), end = p + Len(UeCode(n)),
           field = Ue(bits, at)
    PROVE  field = Field(bits, end, n) /\ end \in Nat \ {0}
<1>1. Len(UeCode(n)) \in Nat
  BY UeCodeIsBits
<1>2. Ue(bits, Where(bits, p)) = Field(bits, p + Len(UeCode(n)), n)
  BY UeIs
<1> QED
  BY <1>1, <1>2

\* The code of a signed number is bits, one at least.
LEMMA SeCodeIsBits ==
    ASSUME NEW n \in Int, Codable(IF n > 0 THEN 2 * n - 1 ELSE -2 * n)
    PROVE  SeCode(n) \in Seq(Bit) /\ Len(SeCode(n)) \in Nat \ {0}
<1> DEFINE u == IF n > 0 THEN 2 * n - 1 ELSE -2 * n
<1>1. Codable(u) /\ SeCode(n) = UeCode(u)
  BY DEF SeCode
<1> HIDE DEF u
<1> QED
  BY <1>1, UeCodeIsBits

\* se reads the number whose code stands where it is.
LEMMA SeAt ==
    ASSUME NEW bits \in Seq(Bit), NEW p \in Nat \ {0}, NEW n \in Int, NEW at, NEW end, NEW field,
           Codable(IF n > 0 THEN 2 * n - 1 ELSE -2 * n), Fits(bits, p, SeCode(n)),
           at = Where(bits, p), end = p + Len(SeCode(n)), field = Se(bits, at)
    PROVE  field = Field(bits, end, n) /\ end \in Nat \ {0}
<1>1. Len(SeCode(n)) \in Nat
  BY SeCodeIsBits
<1>2. Se(bits, Where(bits, p)) = Field(bits, p + Len(SeCode(n)), n)
  BY SeIs
<1> QED
  BY <1>1, <1>2

\* A list that is there is one bit and what is skipped.
LEMMA ListIsThere ==
    ASSUME NEW form \in Forms, form # "absent", NEW n \in Nat \ {0, 1}
    PROVE  \E rest \in Seq(Bit) :
              /\ ListCode(form, n) = <<1>> \o rest
              /\ \A bits \in Seq(Bit) : \A p \in Nat \ {0} :
                    p <= Len(bits) + 1 /\ Fits(bits, p, rest)
                        => SkipScalingList(bits, p, n) = Where(bits, p + Len(rest))
<1> DEFINE Skipped(rest) == \A bits \in Seq(Bit) : \A p \in Nat \ {0} :
                    p <= Len(bits) + 1 /\ Fits(bits, p, rest)
                        => SkipScalingList(bits, p, n) = Where(bits, p + Len(rest))
<1>1. CASE form = "default"
  <2>1. Skipped(SeCode(-8))
    BY DefaultListIsSkipped
  <2> DEFINE d == -8
  <2>2. Skipped(SeCode(d)) /\ d \in Deltas /\ ListCode(form, n) = <<1>> \o SeCode(d)
    BY <1>1, <2>1 DEF Deltas, ListCode
  <2> HIDE DEF d, Skipped
  <2>3. SeCode(d) \in Seq(Bit)
    BY <2>2, ScaleCodeIs
  <2> QED
    BY <2>2, <2>3 DEF Skipped
<1>2. CASE form = "ends"
  <2>1. Skipped(SeCode(4) \o SeCode(-12))
    BY EndingListIsSkipped
  <2> DEFINE a == 4
             b == -12
  <2>2. Skipped(SeCode(a) \o SeCode(b)) /\ a \in Deltas /\ b \in Deltas
        /\ ListCode(form, n) = <<1>> \o SeCode(a) \o SeCode(b)
    BY <1>2, <2>1 DEF Deltas, ListCode
  <2> HIDE DEF a, b, Skipped
  <2>3. SeCode(a) \in Seq(Bit) /\ SeCode(b) \in Seq(Bit)
    BY <2>2, ScaleCodeIs
  <2>4. ListCode(form, n) = <<1>> \o (SeCode(a) \o SeCode(b)) /\ SeCode(a) \o SeCode(b) \in Seq(Bit)
    BY <2>2, <2>3, OneIs
  <2> QED
    BY <2>2, <2>4 DEF Skipped
<1>3. CASE form = "flat"
  <2> DEFINE x == [i \in 1 .. n - 1 |-> 1]
             a == 8
  <2>1. Skipped(SeCode(8) \o x)
    BY FlatListIsSkipped
  <2>2. Skipped(SeCode(a) \o x) /\ a \in Deltas /\ ListCode(form, n) = <<1>> \o SeCode(a) \o x
    <3>1. Skipped(SeCode(a) \o x)
      BY <2>1
    <3>2. a \in Deltas
      BY DEF Deltas
    <3> HIDE DEF Skipped
    <3>3. ListCode(form, n) = <<1>> \o SeCode(8) \o [i \in 1 .. n - 1 |-> 1]
      BY <1>3 DEF ListCode
    <3> QED
      BY <3>1, <3>2, <3>3
  <2>3. x \in [1..(n - 1) -> Bit] /\ n - 1 \in Nat
    BY DEF Bit
  <2> HIDE DEF a, x, Skipped
  <2>4. SeCode(a) \in Seq(Bit) /\ x \in Seq(Bit)
    BY <2>2, <2>3, ScaleCodeIs, FunctionIsSeq
  <2>5. ListCode(form, n) = <<1>> \o (SeCode(a) \o x) /\ SeCode(a) \o x \in Seq(Bit)
    BY <2>2, <2>4, OneIs
  <2> QED
    BY <2>2, <2>5 DEF Skipped
<1> QED
  BY <1>1, <1>2, <1>3 DEF Forms

\* What skipping a list reads, and in which order.
LEMMA SkipListReads ==
    ASSUME NEW bits, NEW at, NEW i, NEW n, NEW present,
           n = (IF i <= 6 THEN 16 ELSE 64), present = U(bits, at, 1)
    PROVE  SkipList(bits, at, i) = IF present.value = 0 THEN present.at ELSE SkipScalingList(bits, present.at, n)
  BY DEF SkipList

\* A list is skipped to where its code ends, whatever it holds.
LEMMA ListIsSkipped ==
    ASSUME NEW bits \in Seq(Bit), NEW p \in Nat \ {0}, NEW form \in Forms, NEW i \in Nat, NEW n, NEW end,
           n = (IF i <= 6 THEN 16 ELSE 64), Fits(bits, p, ListCode(form, n)),
           end = p + Len(ListCode(form, n))
    PROVE  SkipList(bits, Where(bits, p), i) = Where(bits, end)
<1> DEFINE present == U(bits, Where(bits, p), 1)
           q == p + 1
<1>1. SkipList(bits, Where(bits, p), i) = IF present.value = 0 THEN present.at ELSE SkipScalingList(bits, present.at, n)
  BY SkipListReads
<1>n. n \in Nat \ {0, 1}
  OBVIOUS
<1>q. q \in Nat \ {0} /\ 0 \in Bit /\ 1 \in Bit /\ Len(bits) \in Nat
  BY DEF Bit
<1>2. CASE form = "absent"
  <2>1. ListCode(form, n) = <<0>> /\ end = q
    <3>1. ListCode(form, n) = <<0>>
      BY <1>2 DEF ListCode
    <3> QED
      BY <3>1, OneIs
  <2>2. present = Field(bits, q, 0)
    BY <1>q, <2>1, BitAt
  <2>3. present.value = 0 /\ present.at = Where(bits, q)
    BY <2>2 DEF Field
  <2> QED
    BY <1>1, <2>1, <2>3
<1>3. CASE form # "absent"
  <2>1. PICK rest \in Seq(Bit) :
              /\ ListCode(form, n) = <<1>> \o rest
              /\ \A bts \in Seq(Bit) : \A pp \in Nat \ {0} :
                    pp <= Len(bts) + 1 /\ Fits(bts, pp, rest)
                        => SkipScalingList(bts, pp, n) = Where(bts, pp + Len(rest))
    BY <1>3, <1>n, ListIsThere
  <2> DEFINE o == <<1>>
  <2>2. o \in Seq(Bit) /\ Len(o) = 1 /\ Fits(bits, p, o \o rest) /\ end = p + Len(o \o rest)
    BY <2>1, OneIs
  <2> HIDE DEF o
  <2>3. Fits(bits, p, o) /\ Fits(bits, p + Len(o), rest)
    BY <2>2, FitsJoined
  <2>4. Fits(bits, q, rest) /\ end = q + Len(rest) /\ Len(rest) \in Nat
    <3>1. Len(o \o rest) = Len(o) + Len(rest) /\ Len(rest) \in Nat
      <4>1. o \in Seq(Bit) /\ rest \in Seq(Bit)
        BY <2>2
      <4> QED
        BY ONLY <4>1, JoinIs
    <3> QED
      BY <2>2, <2>3, <3>1
  <2>5. present = Field(bits, q, 1)
    BY <1>q, <2>3, BitAt DEF o
  <2> HIDE DEF present, q
  <2>6. CASE q <= Len(bits) + 1
    <3>1. present.value = 1 /\ present.at = q
      BY <1>q, <2>5, <2>6, FieldIs
    <3>2. SkipScalingList(bits, q, n) = Where(bits, q + Len(rest))
      BY <1>q, <2>1, <2>4, <2>6
    <3> QED
      BY <1>1, <2>4, <3>1, <3>2
  <2>7. CASE ~(q <= Len(bits) + 1)
    <3>1. present.value = 0 /\ present.at = Over(bits)
      BY <1>q, <2>5, <2>7, FieldIs DEF NoField
    <3>2. ~(end <= Len(bits) + 1)
      BY <1>q, <2>4, <2>7
    <3> QED
      BY <1>1, <3>1, <3>2 DEF Where
  <2> QED
    BY <2>6, <2>7
<1> QED
  BY <1>2, <1>3

\* Where a reader may be.
Positions == Nat \ {0}

\* Skipping a list leaves a position.
LEMMA AListIsTyped ==
    ASSUME NEW bits \in Seq(Bit), NEW at \in Positions, NEW i \in Nat
    PROVE  SkipList(bits, at, i) \in Positions
<1> DEFINE n == IF i <= 6 THEN 16 ELSE 64
           present == U(bits, at, 1)
<1>1. n \in Nat
  OBVIOUS
<1> HIDE DEF n, present
<1>2. SkipList(bits, at, i) = IF present.value = 0 THEN present.at ELSE SkipScalingList(bits, present.at, n)
  BY SkipListReads DEF n, present
<1>3. present.at \in Nat \ {0}
  BY ReadsAreTyped DEF present, Readings, Positions
<1> DEFINE q == present.at
<1> HIDE DEF q
<1>4. PICK f : /\ f \in [0..n -> Scales] /\ f[0] = [at |-> q, last |-> 8, next |-> 8]
               /\ \A j \in 1..n : f[j] = Scale(bits, f[j - 1])
               /\ SkipScalingList(bits, q, n) = f[n].at
  <2>1. q \in Nat \ {0}
    BY <1>3 DEF q
  <2> QED
    BY <1>1, <2>1, ScalesFollow
<1>5. f[n] \in Scales
  BY <1>1, <1>4
<1>6. SkipScalingList(bits, q, n) \in Nat \ {0}
  BY <1>4, <1>5 DEF Scales
<1> QED
  BY <1>2, <1>3, <1>6 DEF q, Positions

\* Skipping an offset leaves a position.
LEMMA AnOffsetIsTyped ==
    ASSUME NEW bits \in Seq(Bit), NEW at \in Positions
    PROVE  Se(bits, at).at \in Positions
  BY ReadsAreTyped DEF Positions, Readings

\* The lists are skipped one after another.
LEMMA ListsFollow ==
    ASSUME NEW bits \in Seq(Bit), NEW at \in Positions, NEW count \in Nat
    PROVE  \E f : /\ f \in [0..count -> Positions] /\ f[0] = at
                  /\ \A i \in 1..count : f[i] = SkipList(bits, f[i - 1], i)
                  /\ SkipLists(bits, at, count) = f[count]
<1> DEFINE step == [a \in Positions \X (1..count) |-> SkipList(bits, a[1], a[2])]
           Is(g) == g = [i \in 0..count |-> IF i = 0 THEN at ELSE SkipList(bits, g[i - 1], i)]
           f == CHOOSE g : Is(g)
<1>1. step \in [Positions \X (1..count) -> Positions]
  <2>1. \A a \in Positions \X (1..count) : SkipList(bits, a[1], a[2]) \in Positions
    BY AListIsTyped
  <2> QED
    BY <2>1
<1>2. \A s \in Positions, i \in 1..count : step[<<s, i>>] = SkipList(bits, s, i)
  OBVIOUS
<1> HIDE DEF step
<1>3. PICK g : Recurs(g, Positions, at, count, step)
  BY <1>1, SomeRecursion
<1>4. /\ g \in [0..count -> Positions] /\ g[0] = at
      /\ \A i \in 1..count : g[i] = SkipList(bits, g[i - 1], i)
  <2>1. g \in [0..count -> Positions] /\ g[0] = at /\ \A i \in 1..count : g[i] = step[<<g[i - 1], i>>]
    BY <1>3 DEF Recurs
  <2>2. \A i \in 1..count : i - 1 \in 0..count
    OBVIOUS
  <2> QED
    BY <2>1, <2>2, <1>2
<1>5. Is(g)
  <2>1. \A i \in 0..count : i = 0 \/ i \in 1..count
    OBVIOUS
  <2>2. \A i \in 0..count : g[i] = IF i = 0 THEN at ELSE SkipList(bits, g[i - 1], i)
    BY <2>1, <1>4
  <2>3. g = [i \in 0..count |-> g[i]]
    BY <1>4
  <2> QED
    BY <2>2, <2>3
<1>6. Is(f)
  <2> HIDE DEF Is
  <2> QED
    BY <1>5
<1>7. SkipLists(bits, at, count) = f[count]
  BY DEF SkipLists
<1> HIDE DEF f
<1>8. /\ DOMAIN f = 0..count /\ f = [i \in DOMAIN f |-> f[i]] /\ f[0] = at
      /\ \A i \in 1..count : f[i] = SkipList(bits, f[i - 1], i)
  <2>1. DOMAIN f = 0..count /\ f = [i \in DOMAIN f |-> f[i]] /\ f[0] = at
    BY <1>6
  <2>2. \A i \in 1..count : i \in 0..count /\ i # 0
    OBVIOUS
  <2> QED
    BY <2>1, <2>2, <1>6
<1> HIDE DEF Is
<1>9. Recurs(f, Positions, at, count, step)
  <2>1. \A i \in 1..count : f[i - 1] \in Positions => f[i] = step[<<f[i - 1], i>>]
    BY <1>2, <1>8
  <2> QED
    BY <1>1, <1>8, <2>1, ItRecurs
<1> QED
  BY <1>7, <1>8, <1>9 DEF Recurs

\* The offsets are skipped one after another.
LEMMA OffsetsFollow ==
    ASSUME NEW bits \in Seq(Bit), NEW at \in Positions, NEW count \in Nat
    PROVE  \E f : /\ f \in [0..count -> Positions] /\ f[0] = at
                  /\ \A i \in 1..count : f[i] = Se(bits, f[i - 1]).at
                  /\ SkipOffsets(bits, at, count) = f[count]
<1> DEFINE step == [a \in Positions \X (1..count) |-> Se(bits, a[1]).at]
           Is(g) == g = [i \in 0..count |-> IF i = 0 THEN at ELSE Se(bits, g[i - 1]).at]
           f == CHOOSE g : Is(g)
<1>1. step \in [Positions \X (1..count) -> Positions]
  <2>1. \A a \in Positions \X (1..count) : Se(bits, a[1]).at \in Positions
    BY AnOffsetIsTyped
  <2> QED
    BY <2>1
<1>2. \A s \in Positions, i \in 1..count : step[<<s, i>>] = Se(bits, s).at
  OBVIOUS
<1> HIDE DEF step
<1>3. PICK g : Recurs(g, Positions, at, count, step)
  BY <1>1, SomeRecursion
<1>4. /\ g \in [0..count -> Positions] /\ g[0] = at
      /\ \A i \in 1..count : g[i] = Se(bits, g[i - 1]).at
  <2>1. g \in [0..count -> Positions] /\ g[0] = at /\ \A i \in 1..count : g[i] = step[<<g[i - 1], i>>]
    BY <1>3 DEF Recurs
  <2>2. \A i \in 1..count : i - 1 \in 0..count
    OBVIOUS
  <2> QED
    BY <2>1, <2>2, <1>2
<1>5. Is(g)
  <2>1. \A i \in 0..count : i = 0 \/ i \in 1..count
    OBVIOUS
  <2>2. \A i \in 0..count : g[i] = IF i = 0 THEN at ELSE Se(bits, g[i - 1]).at
    BY <2>1, <1>4
  <2>3. g = [i \in 0..count |-> g[i]]
    BY <1>4
  <2> QED
    BY <2>2, <2>3
<1>6. Is(f)
  <2> HIDE DEF Is
  <2> QED
    BY <1>5
<1>7. SkipOffsets(bits, at, count) = f[count]
  BY DEF SkipOffsets
<1> HIDE DEF f
<1>8. /\ DOMAIN f = 0..count /\ f = [i \in DOMAIN f |-> f[i]] /\ f[0] = at
      /\ \A i \in 1..count : f[i] = Se(bits, f[i - 1]).at
  <2>1. DOMAIN f = 0..count /\ f = [i \in DOMAIN f |-> f[i]] /\ f[0] = at
    BY <1>6
  <2>2. \A i \in 1..count : i \in 0..count /\ i # 0
    OBVIOUS
  <2> QED
    BY <2>1, <2>2, <1>6
<1> HIDE DEF Is
<1>9. Recurs(f, Positions, at, count, step)
  <2>1. \A i \in 1..count : f[i - 1] \in Positions => f[i] = step[<<f[i - 1], i>>]
    BY <1>2, <1>8
  <2> QED
    BY <1>1, <1>8, <2>1, ItRecurs
<1> QED
  BY <1>7, <1>8, <1>9 DEF Recurs

\* Where the parts of what is at p are.
LEMMA PartsFit ==
    ASSUME NEW S, NEW seqs \in Seq(Seq(S)), NEW at, NEW flat \in Seq(S), Flat(flat, seqs, at),
           NEW bits, Len(bits) \in Nat, NEW p \in Nat \ {0}, Fits(bits, p, flat)
    PROVE  \A i \in 1..Len(seqs) :
              /\ p + at[i - 1] \in Nat \ {0} /\ Fits(bits, p + at[i - 1], seqs[i])
              /\ p + at[i] = (p + at[i - 1]) + Len(seqs[i])
<1> SUFFICES ASSUME NEW i \in 1..Len(seqs)
             PROVE  /\ p + at[i - 1] \in Nat \ {0} /\ Fits(bits, p + at[i - 1], seqs[i])
                    /\ p + at[i] = (p + at[i - 1]) + Len(seqs[i])
  OBVIOUS
<1> DEFINE m == at[i - 1]
           n == at[i]
           s == seqs[i]
           k == Len(s)
           l == Len(flat)
<1>1. m \in Nat /\ n \in Nat /\ l \in Nat
  <2>1. i - 1 \in 0..Len(seqs) /\ i \in 0..Len(seqs)
    OBVIOUS
  <2>2. at \in [0..Len(seqs) -> Nat]
    BY DEF Flat
  <2>3. m \in Nat /\ n \in Nat
    BY <2>1, <2>2
  <2>4. l \in Nat
    OBVIOUS
  <2> QED
    BY <2>3, <2>4
<1>2. k \in Nat
  <2>1. s \in Seq(S)
    OBVIOUS
  <2> HIDE DEF s
  <2> QED
    BY <2>1
<1>3. n = m + k /\ n <= l /\ \A j \in 1..k : flat[m + j] = s[j]
  BY DEF Flat
<1> HIDE DEF m, n, s, k, l
<1>4. \A j \in 1..l : p + j - 1 <= Len(bits) => bits[p + j - 1] = flat[j]
  BY DEF Fits, l
<1>5. \A j \in 1..k : (p + m) + j - 1 <= Len(bits) => bits[(p + m) + j - 1] = s[j]
  <2> SUFFICES ASSUME NEW j \in 1..k, (p + m) + j - 1 <= Len(bits) PROVE bits[(p + m) + j - 1] = s[j]
    OBVIOUS
  <2>1. m + j \in 1..l /\ (p + m) + j - 1 = p + (m + j) - 1
    BY <1>1, <1>2, <1>3
  <2> QED
    BY <2>1, <1>3, <1>4
<1>6. Fits(bits, p + m, s)
  BY <1>5 DEF Fits, k
<1> QED
  BY <1>1, <1>2, <1>3, <1>6, SMTT(30) DEF m, n, s, k

\* The scaling lists that are sent, each in its code.
ListForm(s, i) == s.lists[1 + ((i - 1) % Len(s.lists))]

ListSize(i) == IF i <= 6 THEN 16 ELSE 64

ListCodes(s, n) == [i \in 1 .. n |-> ListCode(ListForm(s, i), ListSize(i))]

\* The lists of an SPS, each with its code.
LEMMA ListCodesAre ==
    ASSUME NEW s, NEW lists \in Seq(Forms), NEW n \in Nat, s.lists = lists, lists # <<>>
    PROVE  /\ \A i \in 1..n : ListForm(s, i) \in Forms
           /\ ListCodes(s, n) \in Seq(Seq(Bit)) /\ Len(ListCodes(s, n)) = n
           /\ ListBits(s, n) = FlattenSeq(ListCodes(s, n))
<1>1. \A i \in 1..n : ListForm(s, i) \in Forms
  <2> SUFFICES ASSUME NEW i \in 1..n PROVE lists[1 + ((i - 1) % Len(lists))] \in Forms
    BY DEF ListForm
  <2> DEFINE l == Len(lists)
             m == i - 1
  <2>1. l \in Nat /\ l > 0 /\ m \in Nat
    OBVIOUS
  <2> HIDE DEF l, m
  <2>2. m % l \in 0..(l - 1)
    BY <2>1
  <2>3. 1 + (m % l) \in 1..l
    BY <2>1, <2>2
  <2>4. \A j \in 1..l : lists[j] \in Forms
    BY DEF l
  <2> QED
    BY <2>3, <2>4 DEF l, m
<1>2. \A i \in 1..n : ListCode(ListForm(s, i), ListSize(i)) \in Seq(Bit)
  <2> SUFFICES ASSUME NEW i \in 1..n PROVE ListCode(ListForm(s, i), ListSize(i)) \in Seq(Bit)
    OBVIOUS
  <2>1. ListSize(i) \in Nat \ {0, 1}
    BY DEF ListSize
  <2>2. ListForm(s, i) \in Forms
    BY <1>1
  <2> QED
    BY <2>1, <2>2, ListCodeIs
<1>3. ListCodes(s, n) \in [1..n -> Seq(Bit)]
  BY <1>2 DEF ListCodes
<1>4. ListCodes(s, n) \in Seq(Seq(Bit)) /\ Len(ListCodes(s, n)) = n
  BY <1>3, FunctionIsSeq
<1>5. ListBits(s, n) = FlattenSeq(ListCodes(s, n))
  BY DEF ListBits, ListCodes, ListForm, ListSize
<1> QED
  BY <1>1, <1>4, <1>5

\* The lists of an SPS are skipped to where the last one's code ends.
LEMMA ListsAreSkipped ==
    ASSUME NEW bits \in Seq(Bit), NEW p \in Nat \ {0}, NEW s, NEW lists \in Seq(Forms), NEW n \in Nat,
           NEW end, s.lists = lists, lists # <<>>, Fits(bits, p, ListBits(s, n)),
           end = p + Len(ListBits(s, n))
    PROVE  SkipLists(bits, Where(bits, p), n) = Where(bits, end)
<1> DEFINE seqs == ListCodes(s, n)
           flat == FlattenSeq(seqs)
           b == Where(bits, p)
<1>1. /\ \A i \in 1..n : ListForm(s, i) \in Forms
      /\ seqs \in Seq(Seq(Bit)) /\ Len(seqs) = n /\ ListBits(s, n) = flat
  BY ListCodesAre
<1>2. \A i \in 1..n : seqs[i] = ListCode(ListForm(s, i), ListSize(i))
  BY DEF ListCodes
<1> HIDE DEF seqs
<1>3. flat \in Seq(Bit) /\ \E at : Flat(flat, seqs, at)
  BY <1>1, FlattenIs
<1> HIDE DEF flat
<1>4. PICK at : Flat(flat, seqs, at)
  BY <1>3
<1>5. Len(bits) \in Nat /\ b \in Positions
  BY WhereIs DEF Positions
<1>6. Fits(bits, p, flat) /\ end = p + Len(flat)
  BY <1>1
<1>7. \A i \in 1..n : /\ p + at[i - 1] \in Nat \ {0} /\ Fits(bits, p + at[i - 1], seqs[i])
                      /\ p + at[i] = (p + at[i - 1]) + Len(seqs[i])
  <2>1. \A i \in 1..Len(seqs) :
              /\ p + at[i - 1] \in Nat \ {0} /\ Fits(bits, p + at[i - 1], seqs[i])
              /\ p + at[i] = (p + at[i - 1]) + Len(seqs[i])
    <3>1. seqs \in Seq(Seq(Bit)) /\ flat \in Seq(Bit) /\ Flat(flat, seqs, at) /\ Len(bits) \in Nat
          /\ p \in Nat \ {0} /\ Fits(bits, p, flat)
      BY <1>1, <1>3, <1>4, <1>5, <1>6
    <3> QED
      BY ONLY <3>1, PartsFit
  <2> QED
    BY <2>1, <1>1
<1>8. at[0] = 0 /\ p + at[n] = end
  BY <1>1, <1>4, <1>6 DEF Flat
<1> HIDE DEF b
<1>9. PICK f : /\ f \in [0..n -> Positions] /\ f[0] = b
               /\ \A i \in 1..n : f[i] = SkipList(bits, f[i - 1], i)
               /\ SkipLists(bits, b, n) = f[n]
  <2>1. bits \in Seq(Bit) /\ b \in Positions /\ n \in Nat
    BY <1>5
  <2> QED
    BY ONLY <2>1, ListsFollow, ZenonT(40)
<1> DEFINE T == {i \in 0..n : f[i] = Where(bits, p + at[i])}
<1>10. 0 \in T
  <2>1. p + at[0] = p
    BY <1>8
  <2> QED
    BY <2>1, <1>9 DEF b
<1>11. \A i \in 1..n : i - 1 \in T => i \in T
  <2> SUFFICES ASSUME NEW i \in 1..n, i - 1 \in T PROVE f[i] = Where(bits, p + at[i])
    OBVIOUS
  <2> DEFINE m == p + at[i - 1]
             form == ListForm(s, i)
             k == ListSize(i)
             e == p + at[i]
  <2>1. /\ m \in Nat \ {0} /\ form \in Forms /\ i \in Nat /\ k = (IF i <= 6 THEN 16 ELSE 64)
        /\ Fits(bits, m, ListCode(form, k)) /\ e = m + Len(ListCode(form, k))
    BY <1>1, <1>2, <1>7 DEF ListSize
  <2>2. f[i] = SkipList(bits, f[i - 1], i) /\ f[i - 1] = Where(bits, m)
    BY <1>9
  <2> HIDE DEF m, form, k, e
  <2>3. SkipList(bits, Where(bits, m), i) = Where(bits, e)
    BY <2>1, ListIsSkipped
  <2> QED
    BY <2>2, <2>3 DEF e
<1>12. f[n] = Where(bits, p + at[n])
  <2> HIDE DEF T
  <2>1. 0..n \subseteq T
    BY <1>10, <1>11, FirstNumbers
  <2>2. n \in T
    BY <2>1
  <2> QED
    BY <2>2 DEF T
<1> QED
  BY <1>8, <1>9, <1>12 DEF b

\* The offsets that are sent, each in its code.
OffsetCodes(offsets) == [i \in DOMAIN offsets |-> SeCode(offsets[i])]

\* An offset has a code that se can read.
LEMMA OffsetIs ==
    ASSUME NEW n \in Offsets
    PROVE  n \in Int /\ Codable(IF n > 0 THEN 2 * n - 1 ELSE -2 * n)
<1> DEFINE u == IF n > 0 THEN 2 * n - 1 ELSE -2 * n
<1>1. n \in Int /\ u \in Nat /\ u < CodeLimit
  <2>1. n \in Int /\ n <= 2147483647 /\ 0 - n <= 2147483647
    <3>1. MaxOffset \in Nat /\ MaxOffset <= 2147483647
      BY SMTT(20) DEF MaxOffset
    <3>2. n \in Int /\ n <= MaxOffset /\ -MaxOffset <= n
      BY <3>1 DEF Offsets
    <3> QED
      BY <3>1, <3>2, SMTT(20)
  <2>2. CASE n > 0
    <3>1. u = 2 * n - 1
      BY <2>2
    <3> HIDE DEF u
    <3>2. 2 * n - 1 \in Nat /\ 2 * n - 1 < CodeLimit
      BY <2>1, <2>2, SMTT(20) DEF CodeLimit
    <3> QED
      BY <2>1, <3>1, <3>2
  <2>3. CASE ~(n > 0)
    <3>1. u = -2 * n
      BY <2>3
    <3>2. -2 * n = 2 * (0 - n)
      BY <2>1
    <3> HIDE DEF u
    <3>3. 2 * (0 - n) \in Nat /\ 2 * (0 - n) < CodeLimit
      BY <2>1, <2>3, SMTT(20) DEF CodeLimit
    <3> QED
      BY <2>1, <3>1, <3>2, <3>3
  <2> QED
    BY <2>2, <2>3
<1> HIDE DEF u
<1>2. Codable(u)
  BY <1>1, CodableIs
<1> QED
  BY <1>1, <1>2 DEF u

\* The offsets of an SPS, each with its code.
LEMMA OffsetCodesAre ==
    ASSUME NEW offsets \in Seq(Offsets)
    PROVE  OffsetCodes(offsets) \in Seq(Seq(Bit)) /\ Len(OffsetCodes(offsets)) = Len(offsets)
<1> DEFINE n == Len(offsets)
<1>1. n \in Nat /\ DOMAIN offsets = 1..n /\ \A i \in 1..n : offsets[i] \in Offsets
  OBVIOUS
<1> HIDE DEF n
<1>2. \A i \in 1..n : SeCode(offsets[i]) \in Seq(Bit)
  BY <1>1, OffsetIs, SeCodeIsBits
<1>3. OffsetCodes(offsets) \in [1..n -> Seq(Bit)]
  BY <1>1, <1>2 DEF OffsetCodes
<1> QED
  BY <1>1, <1>3, FunctionIsSeq DEF n

\* The offsets of an SPS are skipped to where the last one's code ends.
LEMMA OffsetsAreSkipped ==
    ASSUME NEW bits \in Seq(Bit), NEW p \in Nat \ {0}, NEW offsets \in Seq(Offsets), NEW n, NEW end,
           n = Len(offsets), Fits(bits, p, FlattenSeq(OffsetCodes(offsets))),
           end = p + Len(FlattenSeq(OffsetCodes(offsets)))
    PROVE  SkipOffsets(bits, Where(bits, p), n) = Where(bits, end)
<1> DEFINE seqs == OffsetCodes(offsets)
           flat == FlattenSeq(seqs)
           b == Where(bits, p)
<1>0. n \in Nat /\ DOMAIN offsets = 1..n /\ \A i \in 1..n : offsets[i] \in Offsets
  OBVIOUS
<1>1. seqs \in Seq(Seq(Bit)) /\ Len(seqs) = n
  BY OffsetCodesAre
<1>2. \A i \in 1..n : seqs[i] = SeCode(offsets[i])
  BY <1>0 DEF OffsetCodes
<1> HIDE DEF seqs
<1>3. flat \in Seq(Bit) /\ \E at : Flat(flat, seqs, at)
  BY <1>1, FlattenIs
<1>6. Fits(bits, p, flat) /\ end = p + Len(flat)
  BY DEF seqs
<1> HIDE DEF flat
<1>4. PICK at : Flat(flat, seqs, at)
  BY <1>3
<1>5. Len(bits) \in Nat /\ b \in Positions
  BY WhereIs DEF Positions
<1>7. \A i \in 1..n : /\ p + at[i - 1] \in Nat \ {0} /\ Fits(bits, p + at[i - 1], seqs[i])
                      /\ p + at[i] = (p + at[i - 1]) + Len(seqs[i])
  <2>1. \A i \in 1..Len(seqs) :
              /\ p + at[i - 1] \in Nat \ {0} /\ Fits(bits, p + at[i - 1], seqs[i])
              /\ p + at[i] = (p + at[i - 1]) + Len(seqs[i])
    <3>1. seqs \in Seq(Seq(Bit)) /\ flat \in Seq(Bit) /\ Flat(flat, seqs, at) /\ Len(bits) \in Nat
          /\ p \in Nat \ {0} /\ Fits(bits, p, flat)
      BY <1>1, <1>3, <1>4, <1>5, <1>6
    <3> QED
      BY ONLY <3>1, PartsFit
  <2> QED
    BY <2>1, <1>1
<1>8. at[0] = 0 /\ p + at[n] = end
  BY <1>1, <1>4, <1>6 DEF Flat
<1> HIDE DEF b
<1>9. PICK f : /\ f \in [0..n -> Positions] /\ f[0] = b
               /\ \A i \in 1..n : f[i] = Se(bits, f[i - 1]).at
               /\ SkipOffsets(bits, b, n) = f[n]
  <2>1. bits \in Seq(Bit) /\ b \in Positions /\ n \in Nat
    BY <1>0, <1>5
  <2> QED
    BY ONLY <2>1, OffsetsFollow, ZenonT(40)
<1> DEFINE T == {i \in 0..n : f[i] = Where(bits, p + at[i])}
<1>10. 0 \in T
  <2>1. p + at[0] = p
    BY <1>8
  <2> QED
    BY <2>1, <1>0, <1>9 DEF b
<1>11. \A i \in 1..n : i - 1 \in T => i \in T
  <2> SUFFICES ASSUME NEW i \in 1..n, i - 1 \in T PROVE f[i] = Where(bits, p + at[i])
    BY <1>0
  <2> DEFINE m == p + at[i - 1]
             o == offsets[i]
             a == Where(bits, m)
             e == p + at[i]
             x == Se(bits, a)
  <2>1. m \in Nat \ {0} /\ o \in Offsets /\ Fits(bits, m, SeCode(o)) /\ e = m + Len(SeCode(o))
    BY <1>0, <1>2, <1>7
  <2>2. f[i] = x.at
    BY <1>9
  <2> HIDE DEF m, o, e, x
  <2>3. o \in Int /\ Codable(IF o > 0 THEN 2 * o - 1 ELSE -2 * o)
    BY <2>1, OffsetIs
  <2>4. x = Field(bits, e, o) /\ e \in Nat \ {0}
    BY <2>1, <2>3, SeAt DEF x
  <2> QED
    BY <2>2, <2>4, FieldIs DEF e
<1>12. f[n] = Where(bits, p + at[n])
  <2> HIDE DEF T
  <2>1. 0..n \subseteq T
    BY <1>0, <1>10, <1>11, FirstNumbers
  <2>2. n \in T
    BY <1>0, <2>1
  <2> QED
    BY <2>2 DEF T
<1> QED
  BY <1>8, <1>9, <1>12 DEF b

\* A scale's difference from the one before has a code that se can read.
LEMMA DeltaIs ==
    ASSUME NEW d \in Deltas
    PROVE  d \in Int /\ Codable(IF d > 0 THEN 2 * d - 1 ELSE -2 * d)
<1> DEFINE u == IF d > 0 THEN 2 * d - 1 ELSE -2 * d
<1>1. d \in Int /\ u \in Nat /\ u <= 1000
  BY DEF Deltas
<1> HIDE DEF u
<1>2. Codable(u)
  BY <1>1, SmallCodes
<1> QED
  BY <1>1, <1>2 DEF u

\* Where the bits have run out, they have for what is behind.
LEMMA OverLater ==
    ASSUME NEW bits \in Seq(Bit), NEW p \in Nat \ {0}, NEW q \in Nat, p <= q, ~(p <= Len(bits) + 1)
    PROVE  ~(q <= Len(bits) + 1) /\ Where(bits, q) = Over(bits)
<1>1. Len(bits) \in Nat
  OBVIOUS
<1>2. ~(q <= Len(bits) + 1)
  BY <1>1
<1> QED
  BY <1>2 DEF Where

\* Two sequences one after the other.
LEMMA JoinTyped ==
    ASSUME NEW S, NEW s \in Seq(S), NEW t \in Seq(S)
    PROVE  s \o t \in Seq(S) /\ Len(s \o t) = Len(s) + Len(t) /\ Len(s) \in Nat /\ Len(t) \in Nat
  BY JoinIs

\* Three sequences one after the other, whichever two are joined first.
LEMMA JoinAgain ==
    ASSUME NEW S, NEW s \in Seq(S), NEW t \in Seq(S), NEW u \in Seq(S)
    PROVE  s \o t \o u = s \o (t \o u)
  BY SMTT(30)

\* Both parts of what is at p, and where they end.
LEMMA Joined ==
    ASSUME NEW s \in Seq(Bit), NEW t \in Seq(Bit), NEW bits, NEW p \in Nat \ {0}, NEW end, NEW q,
           Fits(bits, p, s \o t), end = p + Len(s \o t), q = p + Len(s)
    PROVE  /\ Fits(bits, p, s) /\ Fits(bits, q, t) /\ q \in Nat \ {0} /\ p <= q
           /\ end = q + Len(t) /\ end \in Nat \ {0} /\ q <= end
<1> DEFINE st == s \o t
           a == Len(s)
           b == Len(t)
<1>1. Len(st) = a + b /\ a \in Nat /\ b \in Nat
  BY JoinTyped
<1>2. Fits(bits, p, s) /\ Fits(bits, p + a, t)
  <2>1. p \in Nat
    OBVIOUS
  <2> QED
    BY <2>1, FitsJoined
<1> HIDE DEF st, a, b
<1>3. end = p + Len(st) /\ q = p + a
  BY DEF st, a
<1> QED
  BY <1>1, <1>2, <1>3 DEF a, b

\* The parts of what only some profiles have.
ListsBits(s) == IF s.lists = <<>> THEN <<0>> ELSE <<1>> \o ListBits(s, IF s.chroma = 3 THEN 12 ELSE 8)

PlaneBits(s) == IF s.chroma = 3 THEN <<s.plane>> ELSE <<>>

\* The lists of an SPS are bits.
LEMMA ListBitsAre ==
    ASSUME NEW s, NEW lists \in Seq(Forms), NEW n \in Nat, s.lists = lists, lists # <<>>
    PROVE  ListBits(s, n) \in Seq(Bit)
<1>1. ListCodes(s, n) \in Seq(Seq(Bit)) /\ ListBits(s, n) = FlattenSeq(ListCodes(s, n))
  BY ListCodesAre
<1> QED
  BY <1>1, FlattenIs

\* A bit is its own code.
LEMMA BitCodes == ASSUME NEW b \in Bit PROVE <<b>> \in Seq(Bit) /\ Len(<<b>>) = 1
  OBVIOUS

\* What an SPS says of its chroma format, code by code.
LEMMA ChromaCodes ==
    ASSUME NEW s, NEW lists \in Seq(Forms), s.lists = lists, s.chroma \in 0..3, s.plane \in Bit
    PROVE  /\ ListsBits(s) \in Seq(Bit) /\ PlaneBits(s) \in Seq(Bit)
           /\ UeCode(s.chroma) \in Seq(Bit) /\ Codable(s.chroma) /\ UeCode(0) \in Seq(Bit) /\ Codable(0)
           /\ <<0>> \in Seq(Bit)
           /\ <<0>> \o ListsBits(s) \in Seq(Bit)
           /\ UeCode(0) \o (<<0>> \o ListsBits(s)) \in Seq(Bit)
           /\ UeCode(0) \o (UeCode(0) \o (<<0>> \o ListsBits(s))) \in Seq(Bit)
           /\ PlaneBits(s) \o (UeCode(0) \o (UeCode(0) \o (<<0>> \o ListsBits(s)))) \in Seq(Bit)
           /\ ChromaBits(s) \in Seq(Bit)
           /\ ChromaBits(s) = UeCode(s.chroma) \o (PlaneBits(s) \o (UeCode(0) \o (UeCode(0) \o (<<0>> \o ListsBits(s)))))
<1>1. ListsBits(s) \in Seq(Bit)
  <2> DEFINE n == IF s.chroma = 3 THEN 12 ELSE 8
  <2>1. n \in Nat
    OBVIOUS
  <2> HIDE DEF n
  <2>2. lists # <<>> => ListBits(s, n) \in Seq(Bit)
    BY <2>1, ListBitsAre
  <2>3. lists # <<>> => <<1>> \o ListBits(s, n) \in Seq(Bit)
    BY <2>2, OneIs, JoinTyped
  <2> QED
    BY <2>3, OneIs DEF ListsBits, n
<1>2. PlaneBits(s) \in Seq(Bit)
  <2>1. <<s.plane>> \in Seq(Bit)
    BY BitCodes
  <2>2. <<>> \in Seq(Bit)
    OBVIOUS
  <2> QED
    BY <2>1, <2>2 DEF PlaneBits
<1>3. Codable(s.chroma) /\ Codable(0)
  BY SmallCodes
<1> DEFINE a == UeCode(s.chroma)
           b == PlaneBits(s)
           c == UeCode(0)
           z == <<0>>
           l == ListsBits(s)
<1>4. a \in Seq(Bit) /\ c \in Seq(Bit) /\ z \in Seq(Bit) /\ b \in Seq(Bit) /\ l \in Seq(Bit)
  BY <1>1, <1>2, <1>3, UeCodeIsBits, OneIs
<1>5. ChromaBits(s) = a \o b \o (c \o (c \o (z \o l)))
  BY DEF ChromaBits, PlaneBits, ListsBits
<1> HIDE DEF a, b, c, z, l
<1>6. z \o l \in Seq(Bit)
  BY <1>4, JoinTyped
<1>7. c \o (z \o l) \in Seq(Bit)
  BY <1>4, <1>6, JoinTyped
<1>8. c \o (c \o (z \o l)) \in Seq(Bit)
  BY <1>4, <1>7, JoinTyped
<1>9. b \o (c \o (c \o (z \o l))) \in Seq(Bit)
  BY <1>4, <1>8, JoinTyped
<1> DEFINE r == c \o (c \o (z \o l))
<1>10. r \in Seq(Bit) /\ ChromaBits(s) = a \o b \o r
  BY <1>5, <1>8
<1> HIDE DEF r
<1>11. a \o b \o r = a \o (b \o r)
  <2>1. a \in Seq(Bit) /\ b \in Seq(Bit) /\ r \in Seq(Bit)
    BY <1>4, <1>10
  <2> QED
    BY ONLY <2>1, JoinAgain, SMTT(30)
<1>12. a \o (b \o r) \in Seq(Bit)
  BY <1>4, <1>9, JoinTyped DEF r
<1> QED
  BY <1>3, <1>4, <1>6, <1>7, <1>8, <1>9, <1>10, <1>11, <1>12 DEF a, b, c, z, l, r

\* What only some profiles have is read: the chroma format, and what is behind it is skipped.
LEMMA ChromaIs ==
    ASSUME NEW bits \in Seq(Bit), NEW p \in Nat \ {0}, NEW s, NEW lists \in Seq(Forms), NEW end,
           s.lists = lists, s.chroma \in 0..3, s.plane \in Bit, Fits(bits, p, ChromaBits(s)),
           end = p + Len(ChromaBits(s))
    PROVE  /\ Chroma(bits, Where(bits, p)).at = Where(bits, end) /\ end \in Nat \ {0} /\ p <= end
           /\ end <= Len(bits) + 1 => Chroma(bits, Where(bits, p)).value = s.chroma
<1> DEFINE at == Where(bits, p)
           idc == Ue(bits, at)
           plane == U(bits, idc.at, 1)
           next == IF idc.value = 3 THEN plane.at ELSE idc.at
           luma == Ue(bits, next)
           depth == Ue(bits, luma.at)
           zero == U(bits, depth.at, 1)
           matrix == U(bits, zero.at, 1)
           c == s.chroma
           a == UeCode(c)
           b == PlaneBits(s)
           u == UeCode(0)
           z == <<0>>
           l == ListsBits(s)
           p1 == p + Len(a)
           p2 == p1 + Len(b)
           p3 == p2 + Len(u)
           p4 == p3 + Len(u)
           p5 == p4 + Len(z)
<1>1. /\ l \in Seq(Bit) /\ b \in Seq(Bit) /\ a \in Seq(Bit) /\ Codable(c) /\ u \in Seq(Bit)
      /\ Codable(0) /\ z \in Seq(Bit)
      /\ z \o l \in Seq(Bit) /\ u \o (z \o l) \in Seq(Bit) /\ u \o (u \o (z \o l)) \in Seq(Bit)
      /\ b \o (u \o (u \o (z \o l))) \in Seq(Bit)
      /\ ChromaBits(s) = a \o (b \o (u \o (u \o (z \o l))))
  BY ChromaCodes
<1>2. /\ Chroma(bits, at).value = idc.value
      /\ Chroma(bits, at).at = IF matrix.value = 0 THEN matrix.at
                               ELSE SkipLists(bits, matrix.at, IF idc.value = 3 THEN 12 ELSE 8)
  BY ONLY DEF Chroma
<1>3. Len(bits) \in Nat /\ Len(z) = 1
  BY OneIs
<1>4. c \in 0..3 /\ s.plane \in Bit /\ 0 \in Bit /\ 1 \in Bit
  BY DEF Bit
<1>b. b = IF c = 3 THEN <<s.plane>> ELSE <<>>
  BY DEF PlaneBits
<1>l. l = IF lists = <<>> THEN <<0>> ELSE <<1>> \o ListBits(s, IF c = 3 THEN 12 ELSE 8)
  BY DEF ListsBits
<1>z. z = <<0>>
  OBVIOUS
<1>5. Fits(bits, p, a \o (b \o (u \o (u \o (z \o l))))) /\ end = p + Len(a \o (b \o (u \o (u \o (z \o l)))))
  BY <1>1
<1>6. a = UeCode(c) /\ u = UeCode(0)
  OBVIOUS
<1> HIDE DEF a, b, u, z, l, c
<1> DEFINE r1 == b \o (u \o (u \o (z \o l)))
           r2 == u \o (u \o (z \o l))
           r3 == u \o (z \o l)
           r4 == z \o l
<1>7. /\ Fits(bits, p, a) /\ Fits(bits, p1, r1) /\ p1 \in Nat \ {0} /\ p <= p1
      /\ end = p1 + Len(r1)
  <2>1. p1 = p + Len(a)
    OBVIOUS
  <2> HIDE DEF r1, p1
  <2>2. /\ a \in Seq(Bit) /\ r1 \in Seq(Bit) /\ p \in Nat \ {0} /\ Fits(bits, p, a \o r1)
        /\ end = p + Len(a \o r1) /\ p1 = p + Len(a)
    BY <1>1, <1>5, <2>1 DEF r1
  <2> QED
    BY ONLY <2>2, Joined
<1> HIDE DEF p1
<1>8. /\ Fits(bits, p1, b) /\ Fits(bits, p2, r2) /\ p2 \in Nat \ {0} /\ p1 <= p2
      /\ end = p2 + Len(r2)
  <2>1. p2 = p1 + Len(b)
    OBVIOUS
  <2> HIDE DEF r2, p2
  <2>2. /\ b \in Seq(Bit) /\ r2 \in Seq(Bit) /\ p1 \in Nat \ {0} /\ Fits(bits, p1, b \o r2)
        /\ end = p1 + Len(b \o r2) /\ p2 = p1 + Len(b)
    BY <1>1, <1>7, <2>1 DEF r2
  <2> QED
    BY ONLY <2>2, Joined
<1>p. p2 = p1 + Len(b)
  OBVIOUS
<1> HIDE DEF p2, r1
<1>9. /\ Fits(bits, p2, u) /\ Fits(bits, p3, r3) /\ p3 \in Nat \ {0} /\ p2 <= p3
      /\ end = p3 + Len(r3) /\ p3 = p2 + Len(u)
  <2>1. p3 = p2 + Len(u)
    OBVIOUS
  <2> HIDE DEF r3, p3
  <2>2. /\ u \in Seq(Bit) /\ r3 \in Seq(Bit) /\ p2 \in Nat \ {0} /\ Fits(bits, p2, u \o r3)
        /\ end = p2 + Len(u \o r3) /\ p3 = p2 + Len(u)
    BY <1>1, <1>8, <2>1 DEF r3
  <2> QED
    BY ONLY <2>2, Joined
<1> HIDE DEF p3, r2
<1>10. /\ Fits(bits, p3, u) /\ Fits(bits, p4, r4) /\ p4 \in Nat \ {0} /\ p3 <= p4
       /\ end = p4 + Len(r4) /\ p4 = p3 + Len(u)
  <2>1. p4 = p3 + Len(u)
    OBVIOUS
  <2> HIDE DEF r4, p4
  <2>2. /\ u \in Seq(Bit) /\ r4 \in Seq(Bit) /\ p3 \in Nat \ {0} /\ Fits(bits, p3, u \o r4)
        /\ end = p3 + Len(u \o r4) /\ p4 = p3 + Len(u)
    BY <1>1, <1>9, <2>1 DEF r4
  <2> QED
    BY ONLY <2>2, Joined
<1> HIDE DEF p4, r3
<1>11. /\ Fits(bits, p4, z) /\ Fits(bits, p5, l) /\ p5 \in Nat \ {0} /\ p4 <= p5
       /\ end = p5 + Len(l) /\ end \in Nat \ {0} /\ p5 <= end /\ p5 = p4 + Len(z)
  <2>1. p5 = p4 + Len(z)
    OBVIOUS
  <2> HIDE DEF p5
  <2>2. /\ z \in Seq(Bit) /\ l \in Seq(Bit) /\ p4 \in Nat \ {0} /\ Fits(bits, p4, z \o l)
        /\ end = p4 + Len(z \o l) /\ p5 = p4 + Len(z)
    BY <1>1, <1>10, <2>1
  <2> QED
    BY ONLY <2>2, Joined
<1> HIDE DEF p5, r4
<1>12. idc = Field(bits, p1, c)
  <2>1. Codable(c) /\ Fits(bits, p, UeCode(c)) /\ p1 = p + Len(UeCode(c))
    BY <1>1, <1>6, <1>7 DEF p1
  <2> QED
    BY <2>1, UeAt
<1>13. next = Where(bits, p2)
  <2> HIDE DEF idc
  <2>1. CASE p1 <= Len(bits) + 1
    <3>1. idc.value = c /\ idc.at = Where(bits, p1)
      BY <1>7, <1>12, <2>1, FieldIs
    <3>2. CASE c = 3
      <4>1. Fits(bits, p1, <<s.plane>>) /\ p2 = p1 + 1
        <5>1. b = <<s.plane>>
          BY <1>b, <3>2
        <5>2. Len(b) = 1
          BY <1>4, <5>1, BitCodes
        <5> QED
          BY <1>8, <1>p, <5>1, <5>2
      <4>2. plane = Field(bits, p2, s.plane) /\ p2 \in Nat \ {0}
        BY <1>4, <1>7, <3>1, <4>1, BitAt
      <4> HIDE DEF plane
      <4> QED
        BY <3>1, <3>2, <4>2, FieldIs
    <3>3. CASE c # 3
      <4>1. p2 = p1
        <5>1. Len(b) = 0
          BY <1>b, <3>3
        <5> QED
          BY <1>7, <1>p, <5>1
      <4> QED
        BY <3>1, <3>3, <4>1
    <3> QED
      BY <3>2, <3>3
  <2>2. CASE ~(p1 <= Len(bits) + 1)
    <3>1. idc.value = 0 /\ idc.at = Over(bits)
      BY <1>7, <1>12, <2>2, FieldIs DEF NoField
    <3>2. Where(bits, p2) = Over(bits)
      <4>1. p2 \in Nat
        BY <1>8
      <4> QED
        BY <1>7, <1>8, <2>2, <4>1, OverLater
    <3> QED
      BY <3>1, <3>2
  <2> QED
    BY <2>1, <2>2
<1> HIDE DEF next
<1>14. luma = Field(bits, p3, 0)
  BY <1>1, <1>6, <1>8, <1>9, <1>13, UeAt
<1> HIDE DEF luma
<1>15. depth = Field(bits, p4, 0)
  <2>1. luma.at = Where(bits, p3)
    BY <1>9, <1>14, FieldIs
  <2> QED
    <3> DEFINE at1 == luma.at
               n == 0
    <3>1. /\ bits \in Seq(Bit) /\ p3 \in Nat \ {0} /\ Codable(n) /\ Fits(bits, p3, UeCode(n))
          /\ at1 = Where(bits, p3) /\ p4 = p3 + Len(UeCode(n)) /\ depth = Ue(bits, at1)
      BY <1>1, <1>6, <1>9, <1>10, <2>1
    <3> HIDE DEF depth, at1, n
    <3>2. depth = Field(bits, p4, n)
      BY ONLY <3>1, UeAt
    <3> QED
      BY <3>2 DEF n
<1> HIDE DEF depth
<1>16. zero = Field(bits, p5, 0)
  <2>1. depth.at = Where(bits, p4)
    BY <1>10, <1>15, FieldIs
  <2>2. Fits(bits, p4, <<0>>) /\ p5 = p4 + 1
    BY <1>3, <1>11, <1>z
  <2> QED
    BY <1>4, <1>10, <2>1, <2>2, BitAt
<1> HIDE DEF zero
<1>17. zero.at = Where(bits, p5)
  BY <1>11, <1>16, FieldIs
<1> DEFINE p6 == p5 + 1
<1>o. <<0>> \in Seq(Bit) /\ <<1>> \in Seq(Bit) /\ Len(<<0>>) = 1 /\ Len(<<1>>) = 1
  BY OneIs
<1>18. Chroma(bits, at).at = Where(bits, end)
  <2>1. CASE lists = <<>>
    <3>1. Fits(bits, p5, <<0>>) /\ end = p5 + 1
      BY <1>11, <1>l, <1>o, <2>1
    <3>2. matrix = Field(bits, end, 0)
      BY <1>4, <1>11, <1>17, <3>1, BitAt
    <3> HIDE DEF matrix
    <3>3. matrix.at = Where(bits, end) /\ matrix.value = 0
      BY <3>2 DEF Field
    <3> QED
      BY <1>2, <3>3
  <2>2. CASE lists # <<>>
    <3> DEFINE n == IF c = 3 THEN 12 ELSE 8
               list == ListBits(s, n)
               o == <<1>>
    <3>1. n \in Nat /\ l = o \o list
      BY <1>l, <2>2
    <3>2. o \in Seq(Bit) /\ Len(o) = 1
      BY <1>o
    <3> HIDE DEF n
    <3>3. list \in Seq(Bit)
      BY <2>2, <3>1, ListBitsAre
    <3> HIDE DEF o, list
    <3>4. p6 = p5 + Len(o)
      BY <3>2
    <3> HIDE DEF p6
    <3>5. /\ Fits(bits, p5, o) /\ Fits(bits, p6, list) /\ p6 \in Nat \ {0} /\ p5 <= p6
          /\ end = p6 + Len(list) /\ p6 <= end
      <4>1. Fits(bits, p5, o \o list) /\ end = p5 + Len(o \o list)
        BY <1>11, <3>1
      <4>2. /\ o \in Seq(Bit) /\ list \in Seq(Bit) /\ p5 \in Nat \ {0} /\ Fits(bits, p5, o \o list)
            /\ end = p5 + Len(o \o list) /\ p6 = p5 + Len(o)
        BY <1>11, <3>2, <3>3, <3>4, <4>1
      <4> QED
        BY ONLY <4>2, Joined
    <3>6. matrix = Field(bits, p6, 1)
      <4>1. Fits(bits, p5, <<1>>) /\ p6 = p5 + 1
        BY <3>5 DEF o, p6
      <4> QED
        BY <1>4, <1>11, <1>17, <4>1, BitAt
    <3> HIDE DEF matrix
    <3>7. CASE p6 <= Len(bits) + 1
      <4>1. matrix.value = 1 /\ matrix.at = Where(bits, p6)
        BY <3>5, <3>6, <3>7, FieldIs
      <4>2. idc.value = c
        <5>1. p1 <= Len(bits) + 1
          <6>1. p1 <= p2 /\ p2 <= p3 /\ p3 <= p4 /\ p4 <= p5 /\ p5 <= p6 /\ p6 <= Len(bits) + 1
            BY <1>8, <1>9, <1>10, <1>11, <3>5, <3>7
          <6>2. /\ p1 \in Nat /\ p2 \in Nat /\ p3 \in Nat /\ p4 \in Nat /\ p5 \in Nat /\ p6 \in Nat
                /\ Len(bits) \in Nat
            BY <1>3, <1>7, <1>8, <1>9, <1>10, <1>11, <3>5
          <6> QED
            BY ONLY <6>1, <6>2
        <5> HIDE DEF idc
        <5> QED
          BY <1>7, <1>12, <5>1, FieldIs
      <4>3. SkipLists(bits, Where(bits, p6), n) = Where(bits, end)
        <5>1. Fits(bits, p6, ListBits(s, n)) /\ end = p6 + Len(ListBits(s, n))
          BY <3>5 DEF list
        <5> QED
          <6>1. /\ bits \in Seq(Bit) /\ p6 \in Nat \ {0} /\ lists \in Seq(Forms) /\ s.lists = lists
                /\ lists # <<>> /\ n \in Nat /\ Fits(bits, p6, ListBits(s, n))
                /\ end = p6 + Len(ListBits(s, n))
            BY <2>2, <3>1, <3>5, <5>1
          <6> QED
            BY ONLY <6>1, ListsAreSkipped
      <4> HIDE DEF idc
      <4> QED
        BY <1>2, <4>1, <4>2, <4>3 DEF n
    <3>8. CASE ~(p6 <= Len(bits) + 1)
      <4>1. matrix.value = 0 /\ matrix.at = Over(bits)
        BY <3>5, <3>6, <3>8, FieldIs DEF NoField
      <4>2. Where(bits, end) = Over(bits)
        <5>1. end \in Nat
          BY <1>11
        <5> QED
          BY <3>5, <3>8, <5>1, OverLater
      <4> QED
        BY <1>2, <4>1, <4>2
    <3> QED
      BY <3>7, <3>8
  <2> QED
    BY <2>1, <2>2
<1>19. end <= Len(bits) + 1 => Chroma(bits, at).value = c
  <2> SUFFICES ASSUME end <= Len(bits) + 1 PROVE Chroma(bits, at).value = c
    OBVIOUS
  <2>1. p1 <= Len(bits) + 1
    BY <1>3, <1>7, <1>8, <1>9, <1>10, <1>11, SMTT(30)
  <2> HIDE DEF idc
  <2>2. idc.value = c
    BY <1>7, <1>12, <2>1, FieldIs
  <2> QED
    BY <1>2, <2>2
<1>20. end \in Nat \ {0} /\ p <= end
  BY <1>7, <1>8, <1>9, <1>10, <1>11
<1> QED
  BY <1>18, <1>19, <1>20 DEF c

\* What is read of the order of pictures, and in which order (Sps::parse).
LEMMA OrderReads ==
    ASSUME NEW bits, NEW at, NEW type, NEW always, NEW one, NEW two, NEW cycle,
           type = Ue(bits, at), always = U(bits, type.at, 1), one = Se(bits, always.at),
           two = Se(bits, one.at), cycle = Ue(bits, two.at)
    PROVE  AfterOrder(bits, at) = CASE type.value = 0 -> Ue(bits, type.at).at
                                    [] type.value = 1 -> SkipOffsets(bits, cycle.at, cycle.value)
                                    [] OTHER          -> type.at
  BY DEF AfterOrder

\* The order of pictures of the second kind, behind its type.
CycleBits(offsets) ==
    <<0>> \o (SeCode(-1) \o (SeCode(1) \o (UeCode(Len(offsets)) \o FlattenSeq(OffsetCodes(offsets)))))

\* What an SPS says of a cycle of offsets, code by code.
LEMMA CycleCodes ==
    ASSUME NEW offsets \in Seq(Offsets), Len(offsets) <= 255
    PROVE  /\ Codable(Len(offsets)) /\ UeCode(Len(offsets)) \in Seq(Bit)
           /\ FlattenSeq(OffsetCodes(offsets)) \in Seq(Bit)
           /\ SeCode(-1) \in Seq(Bit) /\ SeCode(1) \in Seq(Bit) /\ <<0>> \in Seq(Bit)
           /\ UeCode(Len(offsets)) \o FlattenSeq(OffsetCodes(offsets)) \in Seq(Bit)
           /\ SeCode(1) \o (UeCode(Len(offsets)) \o FlattenSeq(OffsetCodes(offsets))) \in Seq(Bit)
           /\ SeCode(-1) \o (SeCode(1) \o (UeCode(Len(offsets)) \o FlattenSeq(OffsetCodes(offsets)))) \in Seq(Bit)
           /\ CycleBits(offsets) \in Seq(Bit)
<1> DEFINE d == -1
           e == 1
           n == Len(offsets)
           a == SeCode(d)
           b == SeCode(e)
           c == UeCode(n)
           f == FlattenSeq(OffsetCodes(offsets))
           z == <<0>>
<1>1. d \in Deltas /\ e \in Deltas /\ n \in Nat /\ n <= 1000
  BY DEF Deltas
<1>2. Codable(n)
  BY <1>1, SmallCodes
<1>3. f \in Seq(Bit)
  <2>1. OffsetCodes(offsets) \in Seq(Seq(Bit))
    BY OffsetCodesAre
  <2> QED
    BY <2>1, FlattenIs
<1> HIDE DEF d, e, n, f
<1>4. a \in Seq(Bit) /\ b \in Seq(Bit) /\ c \in Seq(Bit)
  BY <1>1, <1>2, ScaleCodeIs, UeCodeIsBits
<1>5. z \in Seq(Bit)
  BY OneIs
<1> HIDE DEF a, b, c, z
<1>6. c \o f \in Seq(Bit)
  BY <1>3, <1>4, JoinTyped
<1>7. b \o (c \o f) \in Seq(Bit)
  BY <1>4, <1>6, JoinTyped
<1>8. a \o (b \o (c \o f)) \in Seq(Bit)
  BY <1>4, <1>7, JoinTyped
<1>9. z \o (a \o (b \o (c \o f))) \in Seq(Bit)
  BY <1>5, <1>8, JoinTyped
<1> QED
  BY <1>2, <1>3, <1>4, <1>5, <1>6, <1>7, <1>8, <1>9 DEF a, b, c, d, e, f, n, z, CycleBits

\* What says the order of pictures by offsets is skipped, as many as it says there are.
LEMMA CycleIsSkipped ==
    ASSUME NEW bits \in Seq(Bit), NEW p \in Nat \ {0}, NEW offsets \in Seq(Offsets), NEW end,
           NEW at, NEW always, NEW one, NEW two, NEW cycle,
           Len(offsets) <= 255, Fits(bits, p, CycleBits(offsets)), end = p + Len(CycleBits(offsets)),
           at = Where(bits, p), always = U(bits, at, 1), one = Se(bits, always.at),
           two = Se(bits, one.at), cycle = Ue(bits, two.at)
    PROVE  /\ SkipOffsets(bits, cycle.at, cycle.value) = Where(bits, end)
           /\ end \in Nat \ {0} /\ p <= end
<1> DEFINE d == -1
           e == 1
           n == Len(offsets)
           a == SeCode(d)
           b == SeCode(e)
           c == UeCode(n)
           f == FlattenSeq(OffsetCodes(offsets))
           z == <<0>>
           r1 == a \o (b \o (c \o f))
           r2 == b \o (c \o f)
           r3 == c \o f
           p1 == p + Len(z)
           p2 == p1 + Len(a)
           p3 == p2 + Len(b)
           p4 == p3 + Len(c)
<1>0. Len(bits) \in Nat /\ n \in Nat /\ Len(z) = 1 /\ 0 \in Bit
  BY OneIs DEF Bit
<1>1. /\ Codable(n) /\ z \in Seq(Bit) /\ a \in Seq(Bit) /\ b \in Seq(Bit) /\ c \in Seq(Bit) /\ f \in Seq(Bit)
      /\ r1 \in Seq(Bit) /\ r2 \in Seq(Bit) /\ r3 \in Seq(Bit) /\ CycleBits(offsets) = z \o r1
  BY CycleCodes DEF CycleBits
<1>d. /\ d \in Deltas /\ e \in Deltas
  BY DEF Deltas
<1>z. z = <<0>> /\ a = SeCode(d) /\ b = SeCode(e) /\ c = UeCode(n) /\ n = Len(offsets)
  OBVIOUS
<1>5. Fits(bits, p, z \o r1) /\ end = p + Len(z \o r1)
  BY <1>1
<1> HIDE DEF a, b, c, d, e, f, n, z
<1>r. r1 = a \o r2 /\ r2 = b \o r3 /\ r3 = c \o f
  OBVIOUS
<1> HIDE DEF r1, r2, r3
<1>p. p1 = p + Len(z) /\ p2 = p1 + Len(a) /\ p3 = p2 + Len(b) /\ p4 = p3 + Len(c)
  OBVIOUS
<1> HIDE DEF p1, p2, p3, p4
<1>6. /\ Fits(bits, p, z) /\ Fits(bits, p1, r1) /\ p1 \in Nat \ {0} /\ p <= p1 /\ end = p1 + Len(r1)
  <2>1. /\ z \in Seq(Bit) /\ r1 \in Seq(Bit) /\ p \in Nat \ {0} /\ Fits(bits, p, z \o r1)
        /\ end = p + Len(z \o r1) /\ p1 = p + Len(z)
    BY <1>1, <1>5, <1>p
  <2> QED
    BY ONLY <2>1, Joined
<1>7. /\ Fits(bits, p1, a) /\ Fits(bits, p2, r2) /\ p2 \in Nat \ {0} /\ p1 <= p2 /\ end = p2 + Len(r2)
  <2>1. /\ a \in Seq(Bit) /\ r2 \in Seq(Bit) /\ p1 \in Nat \ {0} /\ Fits(bits, p1, a \o r2)
        /\ end = p1 + Len(a \o r2) /\ p2 = p1 + Len(a)
    BY <1>1, <1>6, <1>p, <1>r
  <2> QED
    BY ONLY <2>1, Joined
<1>8. /\ Fits(bits, p2, b) /\ Fits(bits, p3, r3) /\ p3 \in Nat \ {0} /\ p2 <= p3 /\ end = p3 + Len(r3)
  <2>1. /\ b \in Seq(Bit) /\ r3 \in Seq(Bit) /\ p2 \in Nat \ {0} /\ Fits(bits, p2, b \o r3)
        /\ end = p2 + Len(b \o r3) /\ p3 = p2 + Len(b)
    BY <1>1, <1>7, <1>p, <1>r
  <2> QED
    BY ONLY <2>1, Joined
<1>9. /\ Fits(bits, p3, c) /\ Fits(bits, p4, f) /\ p4 \in Nat \ {0} /\ p3 <= p4 /\ end = p4 + Len(f)
      /\ end \in Nat \ {0} /\ p4 <= end
  <2>1. /\ c \in Seq(Bit) /\ f \in Seq(Bit) /\ p3 \in Nat \ {0} /\ Fits(bits, p3, c \o f)
        /\ end = p3 + Len(c \o f) /\ p4 = p3 + Len(c)
    BY <1>1, <1>8, <1>p, <1>r
  <2> QED
    BY ONLY <2>1, Joined
<1>10. always.at = Where(bits, p1)
  <2>1. Fits(bits, p, <<0>>) /\ p1 = p + 1
    BY <1>0, <1>6, <1>p, <1>z
  <2>2. always = Field(bits, p1, 0) /\ p1 \in Nat \ {0}
    BY <1>0, <2>1, BitAt
  <2> QED
    BY <2>2, FieldIs
<1>11. one.at = Where(bits, p2)
  <2>1. d \in Int /\ Codable(IF d > 0 THEN 2 * d - 1 ELSE -2 * d)
    BY <1>d, DeltaIs
  <2>2. Fits(bits, p1, SeCode(d)) /\ p2 = p1 + Len(SeCode(d)) /\ p1 \in Nat \ {0}
    BY <1>6, <1>7, <1>p, <1>z
  <2> DEFINE x == always.at
  <2>3. x = Where(bits, p1) /\ one = Se(bits, x)
    BY <1>10
  <2> HIDE DEF x
  <2>4. one = Field(bits, p2, d)
    BY <2>1, <2>2, <2>3, SeAt
  <2> QED
    BY <1>7, <2>4, FieldIs
<1>12. two.at = Where(bits, p3)
  <2>1. e \in Int /\ Codable(IF e > 0 THEN 2 * e - 1 ELSE -2 * e)
    BY <1>d, DeltaIs
  <2>2. Fits(bits, p2, SeCode(e)) /\ p3 = p2 + Len(SeCode(e)) /\ p2 \in Nat \ {0}
    BY <1>7, <1>8, <1>p, <1>z
  <2> DEFINE x == one.at
  <2>3. x = Where(bits, p2) /\ two = Se(bits, x)
    BY <1>11
  <2> HIDE DEF x
  <2>4. two = Field(bits, p3, e)
    BY <2>1, <2>2, <2>3, SeAt
  <2> QED
    BY <1>8, <2>4, FieldIs
<1>13. cycle = Field(bits, p4, n)
  <2>1. Codable(n) /\ Fits(bits, p3, UeCode(n)) /\ p4 = p3 + Len(UeCode(n)) /\ p3 \in Nat \ {0}
    BY <1>1, <1>8, <1>9, <1>p, <1>z
  <2> DEFINE x == two.at
  <2>2. x = Where(bits, p3) /\ cycle = Ue(bits, x)
    BY <1>12
  <2> HIDE DEF x
  <2> QED
    BY <2>1, <2>2, UeAt
<1>14. SkipOffsets(bits, cycle.at, cycle.value) = Where(bits, end)
  <2>1. CASE p4 <= Len(bits) + 1
    <3>1. cycle.value = n /\ cycle.at = Where(bits, p4)
      BY <1>9, <1>13, <2>1, FieldIs
    <3>2. /\ bits \in Seq(Bit) /\ p4 \in Nat \ {0} /\ offsets \in Seq(Offsets) /\ n = Len(offsets)
          /\ Fits(bits, p4, FlattenSeq(OffsetCodes(offsets)))
          /\ end = p4 + Len(FlattenSeq(OffsetCodes(offsets)))
      BY <1>9, <1>z DEF f
    <3>3. SkipOffsets(bits, Where(bits, p4), n) = Where(bits, end)
      BY ONLY <3>2, OffsetsAreSkipped
    <3> QED
      BY <3>1, <3>3
  <2>2. CASE ~(p4 <= Len(bits) + 1)
    <3>1. cycle.value = 0 /\ cycle.at = Over(bits)
      BY <1>9, <1>13, <2>2, FieldIs DEF NoField
    <3>2. Where(bits, end) = Over(bits)
      <4>1. end \in Nat
        BY <1>9
      <4> QED
        BY <1>9, <2>2, <4>1, OverLater
    <3> DEFINE o == Over(bits)
    <3>3. o \in Positions
      BY <1>0 DEF Over, Positions
    <3> HIDE DEF o
    <3>4. PICK g : /\ g \in [0..0 -> Positions] /\ g[0] = o
                   /\ \A i \in 1..0 : g[i] = Se(bits, g[i - 1]).at
                   /\ SkipOffsets(bits, o, 0) = g[0]
      <4>1. bits \in Seq(Bit) /\ o \in Positions /\ 0 \in Nat
        BY <3>3
      <4> QED
        BY ONLY <4>1, OffsetsFollow, ZenonT(40)
    <3> QED
      BY <3>1, <3>2, <3>4 DEF o
  <2> QED
    BY <2>1, <2>2
<1> QED
  BY <1>6, <1>7, <1>8, <1>9, <1>14

\* What hangs on the kind of order.
OrderRest(s) == CASE s.order = 0 -> UeCode(2) [] s.order = 1 -> CycleBits(s.offsets) [] OTHER -> <<>>

\* What an SPS says of the order of pictures, code by code.
LEMMA OrderCodes ==
    ASSUME NEW s, NEW offsets \in Seq(Offsets), s.offsets = offsets, Len(offsets) <= 255, s.order \in 0..2
    PROVE  /\ Codable(s.order) /\ UeCode(s.order) \in Seq(Bit) /\ OrderRest(s) \in Seq(Bit)
           /\ OrderBits(s) = UeCode(s.order) \o OrderRest(s) /\ OrderBits(s) \in Seq(Bit)
<1>1. Codable(s.order) /\ Codable(2)
  BY SmallCodes
<1>2. UeCode(s.order) \in Seq(Bit) /\ UeCode(2) \in Seq(Bit)
  BY <1>1, UeCodeIsBits
<1>3. CycleBits(offsets) \in Seq(Bit) /\ <<>> \in Seq(Bit)
  BY CycleCodes
<1>4. OrderRest(s) \in Seq(Bit)
  BY <1>2, <1>3 DEF OrderRest
<1>5. OrderBits(s) = UeCode(s.order) \o OrderRest(s)
  BY DEF OrderBits, OrderRest, CycleBits, OffsetCodes
<1>6. UeCode(s.order) \o OrderRest(s) \in Seq(Bit)
  BY <1>2, <1>4, JoinTyped
<1> QED
  BY <1>1, <1>2, <1>4, <1>5, <1>6

\* The order of pictures is read to where what the SPS says of it ends.
LEMMA OrderIs ==
    ASSUME NEW bits \in Seq(Bit), NEW p \in Nat \ {0}, NEW s, NEW offsets \in Seq(Offsets), NEW end,
           s.offsets = offsets, Len(offsets) <= 255, s.order \in 0..2,
           Fits(bits, p, OrderBits(s)), end = p + Len(OrderBits(s))
    PROVE  AfterOrder(bits, Where(bits, p)) = Where(bits, end) /\ end \in Nat \ {0} /\ p <= end
<1> DEFINE at == Where(bits, p)
           type == Ue(bits, at)
           always == U(bits, type.at, 1)
           one == Se(bits, always.at)
           two == Se(bits, one.at)
           cycle == Ue(bits, two.at)
           o == s.order
           a == UeCode(o)
           r == OrderRest(s)
           q == p + Len(a)
<1>0. Len(bits) \in Nat /\ o \in 0..2
  OBVIOUS
<1>1. /\ Codable(o) /\ a \in Seq(Bit) /\ r \in Seq(Bit) /\ OrderBits(s) = a \o r
  BY OrderCodes
<1>2. AfterOrder(bits, at) = CASE type.value = 0 -> Ue(bits, type.at).at
                               [] type.value = 1 -> SkipOffsets(bits, cycle.at, cycle.value)
                               [] OTHER          -> type.at
  BY OrderReads
<1>3. r = CASE o = 0 -> UeCode(2) [] o = 1 -> CycleBits(offsets) [] OTHER -> <<>>
  BY DEF OrderRest
<1>4. a = UeCode(o) /\ q = p + Len(a)
  OBVIOUS
<1>5. Fits(bits, p, a \o r) /\ end = p + Len(a \o r)
  BY <1>1
<1> HIDE DEF o, a, r, q
<1>6. /\ Fits(bits, p, a) /\ Fits(bits, q, r) /\ q \in Nat \ {0} /\ p <= q /\ end = q + Len(r)
      /\ end \in Nat \ {0} /\ q <= end
  <2>1. /\ a \in Seq(Bit) /\ r \in Seq(Bit) /\ p \in Nat \ {0} /\ Fits(bits, p, a \o r)
        /\ end = p + Len(a \o r) /\ q = p + Len(a)
    BY <1>1, <1>4, <1>5
  <2> QED
    BY ONLY <2>1, Joined
<1>7. type = Field(bits, q, o)
  BY <1>1, <1>4, <1>6, UeAt
<1>8. AfterOrder(bits, at) = Where(bits, end)
  <2>0. always = U(bits, type.at, 1) /\ one = Se(bits, always.at) /\ two = Se(bits, one.at) /\ cycle = Ue(bits, two.at)
    OBVIOUS
  <2> HIDE DEF type, always, one, two, cycle
  <2>1. CASE q <= Len(bits) + 1
    <3>1. type.value = o /\ type.at = Where(bits, q)
      BY <1>6, <1>7, <2>1, FieldIs
    <3>2. CASE o = 0
      <4>1. r = UeCode(2) /\ Codable(2)
        BY <1>3, <3>2, SmallCodes
      <4> DEFINE x == type.at
                 y == Ue(bits, x)
                 n == 2
      <4>2. /\ bits \in Seq(Bit) /\ q \in Nat \ {0} /\ Codable(n) /\ Fits(bits, q, UeCode(n))
            /\ x = Where(bits, q) /\ end = q + Len(UeCode(n)) /\ y = Ue(bits, x)
        BY <1>6, <3>1, <4>1
      <4>5. AfterOrder(bits, at) = y.at
        BY <1>2, <3>1, <3>2
      <4> HIDE DEF x, y, n
      <4>3. y = Field(bits, end, n)
        BY ONLY <4>2, UeAt
      <4>4. y.at = Where(bits, end)
        BY <1>6, <4>3, FieldIs
      <4> QED
        BY <4>4, <4>5
    <3>3. CASE o = 1
      <4>1. r = CycleBits(offsets)
        BY <1>3, <3>3
      <4> DEFINE x == type.at
      <4>2. /\ bits \in Seq(Bit) /\ q \in Nat \ {0} /\ offsets \in Seq(Offsets) /\ Len(offsets) <= 255
            /\ Fits(bits, q, CycleBits(offsets)) /\ end = q + Len(CycleBits(offsets)) /\ x = Where(bits, q)
            /\ always = U(bits, x, 1) /\ one = Se(bits, always.at) /\ two = Se(bits, one.at)
            /\ cycle = Ue(bits, two.at)
        BY <1>6, <2>0, <3>1, <4>1
      <4> HIDE DEF x
      <4>3. SkipOffsets(bits, cycle.at, cycle.value) = Where(bits, end)
        BY ONLY <4>2, CycleIsSkipped
      <4> QED
        BY <1>2, <3>1, <3>3, <4>3
    <3>4. CASE o # 0 /\ o # 1
      <4>1. r = <<>>
        BY <1>3, <3>4
      <4>2. end = q
        BY <1>6, <4>1
      <4> QED
        BY <1>2, <3>1, <3>4, <4>2
    <3> QED
      BY <3>2, <3>3, <3>4
  <2>2. CASE ~(q <= Len(bits) + 1)
    <3>1. type.value = 0 /\ type.at = Over(bits)
      BY <1>6, <1>7, <2>2, FieldIs DEF NoField
    <3>2. Where(bits, end) = Over(bits)
      <4>1. end \in Nat
        BY <1>6
      <4> QED
        BY <1>6, <2>2, <4>1, OverLater
    <3>3. Ue(bits, Over(bits)).at = Over(bits)
      BY OverStays
    <3> QED
      BY <1>2, <3>1, <3>2, <3>3
  <2> QED
    BY <2>1, <2>2
<1> HIDE DEF at
<1> QED
  BY <1>6, <1>8 DEF at

\* A picture that an encoder may send: macroblocks and cropping make up its size.
Pictured(s) ==
    /\ s.frames \in {0, 1} /\ s.chroma \in 0..3 /\ s.pixels \in Nat \X Nat
    /\ \A i \in {1, 2} : s.pixels[i] >= 1 /\ s.pixels[i] <= 65535
    /\ s.pixels[1] % Samples(s.chroma)[1] = 0
    /\ s.pixels[2] % (Rows(s) * Samples(s.chroma)[2]) = 0

\* What quartering a number leaves.
LEMMA QuartersAre == \A n \in Nat : n % 4 \in 0..3 /\ n \div 4 \in Nat /\ n % 4 = n - 4 * (n \div 4)
  OBVIOUS

\* What is cut off, in samples of one pixel, of two and of four.
LEMMA CutByOne == \A g \in Nat : g \div 1 = g
  OBVIOUS

\* What is cut to reach an even width is even.
LEMMA CutByTwo ==
    ASSUME NEW w \in Nat, NEW g \in Nat, NEW m \in Nat, w % 2 = 0, g + w = 2 * m
    PROVE  g \div 2 \in Nat /\ 2 * (g \div 2) = g
<1> DEFINE a == w \div 2
           b == g \div 2
           c == g % 2
<1>1. a \in Nat /\ b \in Nat /\ c \in Nat /\ c <= 1 /\ c = g - 2 * b /\ 0 = w - 2 * a
  <2>1. w % 2 = w - 2 * (w \div 2) /\ w \div 2 \in Nat
    BY BitIs
  <2>2. g % 2 = g - 2 * (g \div 2) /\ g \div 2 \in Nat /\ g % 2 \in Bit
    BY BitIs
  <2> QED
    BY <2>1, <2>2, BitIs
<1> HIDE DEF a, b, c
<1>2. c = 0
  BY <1>1
<1> QED
  BY <1>1, <1>2 DEF b

\* What is cut to reach a multiple of four is one.
LEMMA CutByFour ==
    ASSUME NEW w \in Nat, NEW g \in Nat, NEW m \in Nat, w % 4 = 0, g + w = 4 * m
    PROVE  g \div 4 \in Nat /\ 4 * (g \div 4) = g
<1> DEFINE a == w \div 4
           b == g \div 4
           c == g % 4
<1>1. a \in Nat /\ b \in Nat /\ c \in 0..3 /\ c = g - 4 * b /\ 0 = w - 4 * a
  <2>1. w % 4 = w - 4 * (w \div 4) /\ w \div 4 \in Nat
    BY QuartersAre
  <2>2. g % 4 = g - 4 * (g \div 4) /\ g \div 4 \in Nat /\ g % 4 \in 0..3
    BY QuartersAre
  <2> QED
    BY <2>1, <2>2
<1> HIDE DEF a, b, c
<1>2. c = 0
  BY <1>1
<1> QED
  BY <1>1, <1>2 DEF b

\* How many samples of brightness one of colour stands for.
Ratios == {1, 2}

\* The width an SPS describes, in macroblocks less what is cut, is the picture's.
LEMMA WidthIs ==
    ASSUME NEW w \in Nat, NEW k \in Ratios, NEW m, NEW d, w >= 1, w <= 65535,
           w % k = 0, m = (w + 15) \div 16, d = (16 * m - w) \div k
    PROVE  m \in Nat /\ m >= 1 /\ m <= 4096 /\ d \in Nat /\ d <= 16 /\ m * 16 - d * k = w
<1> DEFINE g == 16 * m - w
<1>1. m \in Nat /\ m >= 1 /\ m <= 4096 /\ g \in Nat /\ g <= 15 /\ w \in Nat
  <2>1. w \in Nat /\ w >= 1 /\ w <= 65535
    OBVIOUS
  <2>2. LET n == (w + 15) \div 16
        IN  n \in Nat /\ n >= 1 /\ n <= 4096 /\ 16 * n - w \in Nat /\ 16 * n - w <= 15
    BY ONLY <2>1
  <2> QED
    BY <2>2
<1>2. CASE k = 1
  <2>1. d = g
    <3>1. g \div 1 = g
      BY <1>1, CutByOne
    <3> QED
      BY <1>2, <3>1
  <2> HIDE DEF g
  <2>2. d * k = d
    BY <1>1, <1>2, <2>1
  <2>3. m \in Int /\ w \in Int /\ g = 16 * m - w
    BY <1>1 DEF g
  <2> QED
    BY ONLY <1>1, <2>1, <2>2, <2>3
<1>3. CASE k = 2
  <2>0. w % 2 = 0 /\ d = g \div 2
    BY <1>3
  <2>1. g + w = 2 * (8 * m) /\ 8 * m \in Nat /\ g \in Nat
    BY <1>1
  <2>g. g = 16 * m - w
    OBVIOUS
  <2> HIDE DEF g
  <2>2. g \div 2 \in Nat /\ 2 * (g \div 2) = g
    <3> DEFINE n == 8 * m
    <3>1. w \in Nat /\ g \in Nat /\ n \in Nat /\ w % 2 = 0 /\ g + w = 2 * n
      BY <1>1, <2>0, <2>1
    <3> HIDE DEF n
    <3> QED
      BY ONLY <3>1, CutByTwo
  <2>3. d \in Nat /\ 2 * d = g /\ d * k = 2 * d
    BY ONLY <2>0, <2>2, <1>3
  <2> QED
    BY ONLY <1>1, <2>3, <2>g
<1> QED
  BY <1>2, <1>3 DEF Ratios

\* The height an SPS describes, in macroblocks less what is cut, is the picture's.
LEMMA HeightIs ==
    ASSUME NEW h \in Nat, NEW r \in Ratios, NEW k \in Ratios, NEW m, NEW d, h >= 1, h <= 65535,
           h % (r * k) = 0, m = (h + 16 * r - 1) \div (16 * r), d = (16 * r * m - h) \div (r * k)
    PROVE  m \in Nat /\ m >= 1 /\ m <= 4096 /\ d \in Nat /\ d <= 32 /\ r * m * 16 - d * (k * r) = h
<1>1. CASE r = 1
  <2>1. h \in Nat /\ h >= 1 /\ h <= 65535 /\ k \in Ratios /\ 16 * r = 16 /\ r * k = k /\ k * r = k /\ h + 16 * r - 1 = h + 15
    BY <1>1
  <2>2. h % k = 0 /\ m = (h + 15) \div 16 /\ d = (16 * m - h) \div k
    BY <2>1
  <2>3. m \in Nat /\ m >= 1 /\ m <= 4096 /\ d \in Nat /\ d <= 16 /\ m * 16 - d * k = h
    <3>1. h \in Nat /\ k \in Ratios /\ h >= 1 /\ h <= 65535 /\ h % k = 0 /\ m = (h + 15) \div 16
          /\ d = (16 * m - h) \div k
      BY <2>1, <2>2
    <3> QED
      BY ONLY <3>1, WidthIs
  <2>4. r * m * 16 = m * 16 /\ d * (k * r) = d * k
    BY ONLY <2>1, <2>3, <1>1
  <2>5. d <= 32
    BY ONLY <2>3
  <2> QED
    BY ONLY <2>3, <2>4, <2>5
<1>2. CASE r = 2
  <2> DEFINE g == 32 * m - h
  <2>1. h \in Nat /\ h >= 1 /\ h <= 65535 /\ k \in Ratios /\ m = (h + 31) \div 32 /\ d = (32 * m - h) \div (2 * k)
        /\ h % (2 * k) = 0
    <3>1. 16 * r = 32 /\ r * k = 2 * k /\ h + 16 * r - 1 = h + 31
      BY <1>2
    <3> QED
      BY <3>1
  <2>2. m \in Nat /\ m >= 1 /\ m <= 4096 /\ g \in Nat /\ g <= 31 /\ h \in Nat
    <3>1. LET n == (h + 31) \div 32
          IN  n \in Nat /\ n >= 1 /\ n <= 4096 /\ 32 * n - h \in Nat /\ 32 * n - h <= 31
      BY ONLY <2>1
    <3> QED
      BY <2>1, <3>1
  <2>g. g = 32 * m - h
    OBVIOUS
  <2>d. d = g \div (2 * k)
    BY <2>1
  <2> HIDE DEF g
  <2>3. CASE k = 1
    <3>1. 2 * k = 2 /\ k * r = 2 /\ r * m * 16 = 32 * m
      BY ONLY <2>2, <2>3, <1>2
    <3> DEFINE n == 16 * m
    <3>2. h \in Nat /\ g \in Nat /\ n \in Nat /\ h % 2 = 0 /\ g + h = 2 * n
      BY ONLY <2>1, <2>2, <2>g, <3>1
    <3> HIDE DEF n
    <3>3. g \div 2 \in Nat /\ 2 * (g \div 2) = g
      BY ONLY <3>2, CutByTwo
    <3>4. d \in Nat /\ 2 * d = g
      BY ONLY <2>d, <3>1, <3>3
    <3>5. d * (k * r) = 2 * d
      BY ONLY <3>1, <3>4
    <3> QED
      BY ONLY <2>2, <2>g, <3>1, <3>4, <3>5
  <2>4. CASE k = 2
    <3>1. 2 * k = 4 /\ k * r = 4 /\ r * m * 16 = 32 * m
      BY ONLY <2>2, <2>4, <1>2
    <3> DEFINE n == 8 * m
    <3>2. h \in Nat /\ g \in Nat /\ n \in Nat /\ h % 4 = 0 /\ g + h = 4 * n
      BY ONLY <2>1, <2>2, <2>g, <3>1
    <3> HIDE DEF n
    <3>3. g \div 4 \in Nat /\ 4 * (g \div 4) = g
      BY ONLY <3>2, CutByFour
    <3>4. d \in Nat /\ 4 * d = g
      BY ONLY <2>d, <3>1, <3>3
    <3>5. d * (k * r) = 4 * d
      BY ONLY <3>1, <3>4
    <3> QED
      BY ONLY <2>2, <2>g, <3>1, <3>4, <3>5
  <2> QED
    BY <2>3, <2>4 DEF Ratios
<1> QED
  BY <1>1, <1>2 DEF Ratios

\* The samples to a unit of cropping, for each chroma format.
LEMMA SamplesAre ==
    ASSUME NEW c \in 0..3
    PROVE  Samples(c)[1] \in Ratios /\ Samples(c)[2] \in Ratios
  BY DEF Samples, Ratios

\* The macroblocks and the cropping of a picture, in numbers that have a code.
LEMMA PictureIs ==
    ASSUME NEW s, NEW w, NEW h, NEW r, NEW j, NEW k, NEW m, NEW n, NEW c, NEW d,
           Pictured(s), w = s.pixels[1], h = s.pixels[2], r = Rows(s), j = Samples(s.chroma)[1],
           k = Samples(s.chroma)[2], m = Mbs(s)[1], n = Mbs(s)[2], c = Crop(s)[1], d = Crop(s)[2]
    PROVE  /\ w \in Nat /\ w >= 1 /\ h \in Nat /\ h >= 1 /\ s.pixels = <<w, h>> /\ Crop(s) = <<c, d>>
           /\ r \in Ratios /\ r = 2 - s.frames /\ j \in Ratios /\ k \in Ratios
           /\ m \in Nat /\ m >= 1 /\ m <= 4096 /\ n \in Nat /\ n >= 1 /\ n <= 4096
           /\ c \in Nat /\ c <= 32 /\ d \in Nat /\ d <= 32
           /\ m * 16 - c * j = w /\ r * n * 16 - d * (k * r) = h
<1>1. w \in Nat /\ w >= 1 /\ w <= 65535 /\ h \in Nat /\ h >= 1 /\ h <= 65535 /\ s.pixels = <<w, h>>
  <2>1. s.pixels \in Nat \X Nat /\ \A i \in {1, 2} : s.pixels[i] >= 1 /\ s.pixels[i] <= 65535
    BY DEF Pictured
  <2> QED
    BY <2>1
<1>2. r \in Ratios /\ r = 2 - s.frames /\ j \in Ratios /\ k \in Ratios
  <2>1. s.frames \in {0, 1} /\ s.chroma \in 0..3
    BY DEF Pictured
  <2>2. j \in Ratios /\ k \in Ratios
    BY <2>1, SamplesAre
  <2> QED
    BY <2>1, <2>2 DEF Rows, Ratios
<1>3. w % j = 0 /\ h % (r * k) = 0
  BY DEF Pictured
<1>4. m = (w + 15) \div 16 /\ n = (h + 16 * r - 1) \div (16 * r)
  BY DEF Mbs
<1>5. c = (16 * m - w) \div j /\ d = (16 * r * n - h) \div (r * k) /\ Crop(s) = <<c, d>>
  BY DEF Crop
<1>6. m \in Nat /\ m >= 1 /\ m <= 4096 /\ c \in Nat /\ c <= 16 /\ m * 16 - c * j = w
  <2>1. w \in Nat /\ j \in Ratios /\ w >= 1 /\ w <= 65535 /\ w % j = 0 /\ m = (w + 15) \div 16
        /\ c = (16 * m - w) \div j
    BY <1>1, <1>2, <1>3, <1>4, <1>5
  <2> QED
    BY ONLY <2>1, WidthIs
<1>7. n \in Nat /\ n >= 1 /\ n <= 4096 /\ d \in Nat /\ d <= 32 /\ r * n * 16 - d * (k * r) = h
  <2>1. h \in Nat /\ r \in Ratios /\ k \in Ratios /\ h >= 1 /\ h <= 65535 /\ h % (r * k) = 0
        /\ n = (h + 16 * r - 1) \div (16 * r) /\ d = (16 * r * n - h) \div (r * k)
    BY <1>1, <1>2, <1>3, <1>4, <1>5
  <2> QED
    BY ONLY <2>1, HeightIs
<1>8. c <= 32
  BY ONLY <1>6
<1> QED
  BY ONLY <1>1, <1>2, <1>5, <1>6, <1>7, <1>8

SmallNumbers == {n \in Nat : n <= 5000}

\* The numbers an SPS describes a size with have codes that ue can read.
LEMMA SmallIsCodable ==
    ASSUME NEW n \in SmallNumbers
    PROVE  Codable(n) /\ UeCode(n) \in Seq(Bit) /\ n \in Nat
<1>1. n < CodeLimit /\ n \in Nat
  BY SMTT(20) DEF CodeLimit, SmallNumbers
<1>2. Codable(n)
  BY <1>1, CodableIs
<1> QED
  BY <1>1, <1>2, UeCodeIsBits

\* A code and what is behind it, at a place: what is read, and where that is.
LEMMA UeThen ==
    ASSUME NEW bits \in Seq(Bit), NEW p \in Nat \ {0}, NEW n \in SmallNumbers, NEW rest \in Seq(Bit), NEW end,
           NEW at, NEW field, NEW q,
           Fits(bits, p, UeCode(n) \o rest), end = p + Len(UeCode(n) \o rest), at = Where(bits, p),
           field = Ue(bits, at), q = p + Len(UeCode(n))
    PROVE  /\ field = Field(bits, q, n) /\ q \in Nat \ {0} /\ field.at = Where(bits, q) /\ p <= q
           /\ Fits(bits, q, rest) /\ end = q + Len(rest) /\ q <= end
<1> DEFINE a == UeCode(n)
<1>1. Codable(n) /\ a \in Seq(Bit)
  BY SmallIsCodable
<1>2. q = p + Len(a) /\ Fits(bits, p, a \o rest) /\ end = p + Len(a \o rest)
  OBVIOUS
<1>z. a = UeCode(n)
  OBVIOUS
<1> HIDE DEF a
<1>3. /\ Fits(bits, p, a) /\ Fits(bits, q, rest) /\ q \in Nat \ {0} /\ p <= q
      /\ end = q + Len(rest) /\ end \in Nat \ {0} /\ q <= end
  <2>1. a \in Seq(Bit) /\ rest \in Seq(Bit) /\ p \in Nat \ {0}
        /\ Fits(bits, p, a \o rest) /\ end = p + Len(a \o rest) /\ q = p + Len(a)
    BY <1>1, <1>2
  <2> QED
    BY ONLY <2>1, Joined
<1>4. field = Field(bits, q, n)
  <2>1. /\ bits \in Seq(Bit) /\ p \in Nat \ {0} /\ Codable(n) /\ Fits(bits, p, UeCode(n)) /\ at = Where(bits, p)
        /\ q = p + Len(UeCode(n)) /\ field = Ue(bits, at)
    BY <1>1, <1>2, <1>3, <1>z
  <2> QED
    BY ONLY <2>1, UeAt
<1> QED
  BY <1>3, <1>4, FieldIs

\* A bit is read, and the rest stands behind it.
LEMMA BitThen ==
    ASSUME NEW bits \in Seq(Bit), NEW p \in Nat \ {0}, NEW b \in Bit, NEW rest \in Seq(Bit), NEW end,
           NEW at, NEW field, NEW q,
           Fits(bits, p, <<b>> \o rest), end = p + Len(<<b>> \o rest), at = Where(bits, p),
           field = U(bits, at, 1), q = p + 1
    PROVE  /\ field = Field(bits, q, b) /\ q \in Nat \ {0} /\ field.at = Where(bits, q) /\ p <= q
           /\ Fits(bits, q, rest) /\ end = q + Len(rest) /\ q <= end
<1> DEFINE a == <<b>>
<1>1. a \in Seq(Bit) /\ Len(a) = 1
  BY BitCodes
<1>2. Fits(bits, p, a \o rest) /\ end = p + Len(a \o rest)
  OBVIOUS
<1>z. a = <<b>>
  OBVIOUS
<1> HIDE DEF a
<1>3. /\ Fits(bits, p, a) /\ Fits(bits, q, rest) /\ q \in Nat \ {0} /\ p <= q
      /\ end = q + Len(rest) /\ end \in Nat \ {0} /\ q <= end
  <2>1. a \in Seq(Bit) /\ rest \in Seq(Bit) /\ p \in Nat \ {0}
        /\ Fits(bits, p, a \o rest) /\ end = p + Len(a \o rest) /\ q = p + Len(a)
    BY <1>1, <1>2
  <2> QED
    BY ONLY <2>1, Joined
<1>4. field = Field(bits, q, b)
  <2>1. /\ bits \in Seq(Bit) /\ p \in Nat \ {0} /\ b \in Bit /\ Fits(bits, p, <<b>>) /\ at = Where(bits, p)
        /\ q = p + 1 /\ field = U(bits, at, 1)
    BY <1>3, <1>z
  <2> QED
    BY ONLY <2>1, BitAt
<1> QED
  BY <1>3, <1>4, FieldIs

\* The cropping of so many samples, and what is read of it.
CropCode(c, d) ==
    IF <<c, d>> = <<0, 0>> THEN <<0>>
    ELSE <<1>> \o (UeCode(0) \o (UeCode(c) \o (UeCode(0) \o UeCode(d))))

\* What an SPS cuts off, code by code.
LEMMA CropCodeIs ==
    ASSUME NEW c \in SmallNumbers, NEW d \in SmallNumbers
    PROVE  /\ UeCode(d) \in Seq(Bit) /\ UeCode(0) \o UeCode(d) \in Seq(Bit)
           /\ UeCode(c) \o (UeCode(0) \o UeCode(d)) \in Seq(Bit)
           /\ UeCode(0) \o (UeCode(c) \o (UeCode(0) \o UeCode(d))) \in Seq(Bit)
           /\ CropCode(c, d) \in Seq(Bit)
<1> DEFINE e == 0
<1>0. e \in SmallNumbers
  BY DEF SmallNumbers
<1> HIDE DEF e
<1> DEFINE u == UeCode(e)
           x == UeCode(c)
           y == UeCode(d)
           o == <<1>>
<1>1. u \in Seq(Bit) /\ x \in Seq(Bit) /\ y \in Seq(Bit) /\ o \in Seq(Bit) /\ <<0>> \in Seq(Bit)
  BY <1>0, SmallIsCodable, OneIs
<1> HIDE DEF u, x, y, o
<1>2. u \o y \in Seq(Bit)
  BY <1>1, JoinTyped
<1>3. x \o (u \o y) \in Seq(Bit)
  BY <1>1, <1>2, JoinTyped
<1>4. u \o (x \o (u \o y)) \in Seq(Bit)
  BY <1>1, <1>3, JoinTyped
<1>5. o \o (u \o (x \o (u \o y))) \in Seq(Bit)
  BY <1>1, <1>4, JoinTyped
<1> QED
  BY <1>1, <1>2, <1>3, <1>4, <1>5 DEF u, x, y, o, e, CropCode

CropOf(cropped, left, right, top, bottom) ==
    IF cropped.value = 0 THEN <<0, 0>> ELSE <<left.value + right.value, top.value + bottom.value>>

\* No bits are bits.
LEMMA NothingIsBits == <<>> \in Seq(Bit) /\ Len(<<>>) = 0
  BY SMTT(30)

\* What an SPS cuts off is read as it was written, or the bits are over.
LEMMA CropIsRead ==
    ASSUME NEW bits \in Seq(Bit), NEW p \in Nat \ {0}, NEW c \in SmallNumbers, NEW d \in SmallNumbers, NEW end,
           NEW at, NEW cropped, NEW left, NEW right, NEW top, NEW bottom,
           Fits(bits, p, CropCode(c, d)), end = p + Len(CropCode(c, d)), at = Where(bits, p),
           cropped = U(bits, at, 1), left = Ue(bits, cropped.at), right = Ue(bits, left.at),
           top = Ue(bits, right.at), bottom = Ue(bits, top.at)
    PROVE  /\ (IF cropped.value = 0 THEN cropped.at ELSE bottom.at) = Where(bits, end)
           /\ end \in Nat \ {0} /\ p <= end
           /\ end <= Len(bits) + 1 => CropOf(cropped, left, right, top, bottom) = <<c, d>>
<1> DEFINE crop == CropOf(cropped, left, right, top, bottom)
<1>0. Len(bits) \in Nat /\ 0 \in Bit /\ 1 \in Bit /\ c \in Nat /\ d \in Nat
  BY DEF Bit, SmallNumbers
<1>1. CASE <<c, d>> = <<0, 0>>
  <2>1. CropCode(c, d) = <<0>> /\ c = 0 /\ d = 0
    BY <1>1 DEF CropCode
  <2>2. end = p + 1
    BY <2>1, OneIs
  <2>3. cropped = Field(bits, end, 0) /\ end \in Nat \ {0}
    <3>1. /\ bits \in Seq(Bit) /\ p \in Nat \ {0} /\ 0 \in Bit /\ Fits(bits, p, <<0>>) /\ at = Where(bits, p)
          /\ end = p + 1 /\ cropped = U(bits, at, 1)
      BY <1>0, <2>1, <2>2
    <3> QED
      BY ONLY <3>1, BitAt
  <2>4. cropped.value = 0 /\ cropped.at = Where(bits, end)
    BY <2>3 DEF Field
  <2>5. p <= end
    BY <2>2, SMTT(30)
  <2> QED
    BY <2>1, <2>3, <2>4, <2>5 DEF CropOf
<1>2. CASE <<c, d>> # <<0, 0>>
  <2> DEFINE e == 0
             b == 1
             t4 == UeCode(d)
             t3 == UeCode(e) \o t4
             t2 == UeCode(c) \o t3
             t1 == UeCode(e) \o t2
             q0 == p + 1
             q1 == q0 + Len(UeCode(e))
             q2 == q1 + Len(UeCode(c))
             q3 == q2 + Len(UeCode(e))
  <2>1. t4 \in Seq(Bit) /\ t3 \in Seq(Bit) /\ t2 \in Seq(Bit) /\ t1 \in Seq(Bit)
    BY CropCodeIs
  <2>2. e \in SmallNumbers /\ b \in Bit
    BY DEF SmallNumbers, Bit
  <2>3. Fits(bits, p, <<b>> \o t1) /\ end = p + Len(<<b>> \o t1)
    <3>1. CropCode(c, d) = <<b>> \o t1
      BY <1>2 DEF CropCode
    <3> HIDE DEF b, t1
    <3> QED
      BY <3>1
  <2>b. b = 1 /\ e = 0
    OBVIOUS
  <2> HIDE DEF e, b
  <2>4. /\ t3 = UeCode(e) \o t4 /\ t2 = UeCode(c) \o t3 /\ t1 = UeCode(e) \o t2 /\ t4 = UeCode(d)
        /\ q0 = p + 1 /\ q1 = q0 + Len(UeCode(e)) /\ q2 = q1 + Len(UeCode(c)) /\ q3 = q2 + Len(UeCode(e))
    OBVIOUS
  <2> HIDE DEF t1, t2, t3, t4, q0, q1, q2, q3
  <2> DEFINE a0 == cropped.at
             a1 == left.at
             a2 == right.at
             a3 == top.at
  <2>a. left = Ue(bits, a0) /\ right = Ue(bits, a1) /\ top = Ue(bits, a2) /\ bottom = Ue(bits, a3)
    OBVIOUS
  <2>5. /\ cropped = Field(bits, q0, b) /\ q0 \in Nat \ {0} /\ cropped.at = Where(bits, q0) /\ p <= q0
        /\ Fits(bits, q0, t1) /\ end = q0 + Len(t1) /\ q0 <= end
    <3>1. /\ bits \in Seq(Bit) /\ p \in Nat \ {0} /\ b \in Bit /\ t1 \in Seq(Bit)
          /\ Fits(bits, p, <<b>> \o t1) /\ end = p + Len(<<b>> \o t1) /\ at = Where(bits, p)
          /\ cropped = U(bits, at, 1) /\ q0 = p + 1
      BY <2>1, <2>2, <2>3, <2>4
    <3> QED
      BY ONLY <3>1, BitThen
  <2> HIDE DEF a0, a1, a2, a3
  <2>6. /\ left = Field(bits, q1, e) /\ q1 \in Nat \ {0} /\ left.at = Where(bits, q1) /\ q0 <= q1
        /\ Fits(bits, q1, t2) /\ end = q1 + Len(t2) /\ q1 <= end
    <3>1. /\ bits \in Seq(Bit) /\ q0 \in Nat \ {0} /\ e \in SmallNumbers /\ t2 \in Seq(Bit)
          /\ Fits(bits, q0, UeCode(e) \o t2) /\ end = q0 + Len(UeCode(e) \o t2) /\ a0 = Where(bits, q0)
          /\ left = Ue(bits, a0) /\ q1 = q0 + Len(UeCode(e))
      BY <2>1, <2>2, <2>4, <2>5, <2>a DEF a0
    <3> QED
      BY ONLY <3>1, UeThen
  <2>7. /\ right = Field(bits, q2, c) /\ q2 \in Nat \ {0} /\ right.at = Where(bits, q2) /\ q1 <= q2
        /\ Fits(bits, q2, t3) /\ end = q2 + Len(t3) /\ q2 <= end
    <3>1. /\ bits \in Seq(Bit) /\ q1 \in Nat \ {0} /\ c \in SmallNumbers /\ t3 \in Seq(Bit)
          /\ Fits(bits, q1, UeCode(c) \o t3) /\ end = q1 + Len(UeCode(c) \o t3) /\ a1 = Where(bits, q1)
          /\ right = Ue(bits, a1) /\ q2 = q1 + Len(UeCode(c))
      BY <2>1, <2>2, <2>4, <2>6, <2>a DEF a1
    <3> QED
      BY ONLY <3>1, UeThen
  <2>8. /\ top = Field(bits, q3, e) /\ q3 \in Nat \ {0} /\ top.at = Where(bits, q3) /\ q2 <= q3
        /\ Fits(bits, q3, t4) /\ end = q3 + Len(t4) /\ q3 <= end
    <3>1. /\ bits \in Seq(Bit) /\ q2 \in Nat \ {0} /\ e \in SmallNumbers /\ t4 \in Seq(Bit)
          /\ Fits(bits, q2, UeCode(e) \o t4) /\ end = q2 + Len(UeCode(e) \o t4) /\ a2 = Where(bits, q2)
          /\ top = Ue(bits, a2) /\ q3 = q2 + Len(UeCode(e))
      BY <2>1, <2>2, <2>4, <2>7, <2>a DEF a2
    <3> QED
      BY ONLY <3>1, UeThen
  <2>9. bottom = Field(bits, end, d) /\ end \in Nat \ {0}
    <3>1. /\ bits \in Seq(Bit) /\ q3 \in Nat \ {0} /\ Codable(d) /\ Fits(bits, q3, UeCode(d))
          /\ a3 = Where(bits, q3) /\ end = q3 + Len(UeCode(d)) /\ bottom = Ue(bits, a3)
      BY <2>4, <2>8, <2>a, SmallIsCodable DEF a3
    <3> QED
      BY ONLY <3>1, UeAt, SMTT(30)
  <2>10. p <= q0 /\ q0 <= q1 /\ q1 <= q2 /\ q2 <= q3 /\ q3 <= end
    BY <2>5, <2>6, <2>7, <2>8
  <2>11. q0 \in Nat /\ q1 \in Nat /\ q2 \in Nat /\ q3 \in Nat /\ end \in Nat /\ p \in Nat /\ Len(bits) \in Nat
    BY <1>0, <2>5, <2>6, <2>7, <2>8, <2>9
  <2>12. p <= end
    BY ONLY <2>10, <2>11
  <2>13. (IF cropped.value = 0 THEN cropped.at ELSE bottom.at) = Where(bits, end)
    <3>1. CASE q0 <= Len(bits) + 1
      <4>1. cropped.value = 1
        BY <2>5, <2>b, <3>1, FieldIs
      <4> QED
        BY <2>9, <4>1, FieldIs
    <3>2. CASE ~(q0 <= Len(bits) + 1)
      <4>1. cropped.value = 0 /\ cropped.at = Over(bits)
        BY <2>5, <3>2, FieldIs DEF NoField
      <4>2. Where(bits, end) = Over(bits)
        BY <2>5, <2>11, <3>2, OverLater, SMTT(30)
      <4> QED
        BY <4>1, <4>2
    <3> QED
      BY <3>1, <3>2
  <2>14. end <= Len(bits) + 1 => crop = <<c, d>>
    <3> SUFFICES ASSUME end <= Len(bits) + 1 PROVE crop = <<c, d>>
      OBVIOUS
    <3>1. q0 <= Len(bits) + 1 /\ q1 <= Len(bits) + 1 /\ q2 <= Len(bits) + 1 /\ q3 <= Len(bits) + 1
      BY <2>10, <2>11
    <3>2. cropped.value = 1
      BY <2>5, <2>b, <3>1, FieldIs
    <3>3. left.value = 0 /\ right.value = c
      BY <2>6, <2>7, <2>b, <3>1, FieldIs
    <3>4. top.value = 0 /\ bottom.value = d
      BY <2>8, <2>9, <2>b, <3>1, FieldIs
    <3>5. 0 + c = c /\ 0 + d = d
      BY <1>0
    <3> QED
      BY <3>2, <3>3, <3>4, <3>5, SMTT(30) DEF CropOf
  <2> QED
    BY <2>9, <2>12, <2>13, <2>14
<1> QED
  BY <1>1, <1>2

\* The size of a picture, its parts by name.
FollowCode(f) == IF f = 0 THEN <<1>> ELSE <<>>

SizeCode(m, n, f, follows, crop) ==
    UeCode(3) \o (<<0>> \o (UeCode(m) \o (UeCode(n) \o (<<f>> \o (follows \o (<<1>> \o crop))))))

\* What an SPS says of its size, code by code.
LEMMA SizeCodeIs ==
    ASSUME NEW m \in SmallNumbers, NEW n \in SmallNumbers, NEW f \in Bit, NEW follows \in Seq(Bit),
           NEW crop \in Seq(Bit)
    PROVE  /\ <<1>> \o crop \in Seq(Bit) /\ follows \o (<<1>> \o crop) \in Seq(Bit)
           /\ <<f>> \o (follows \o (<<1>> \o crop)) \in Seq(Bit)
           /\ UeCode(n) \o (<<f>> \o (follows \o (<<1>> \o crop))) \in Seq(Bit)
           /\ UeCode(m) \o (UeCode(n) \o (<<f>> \o (follows \o (<<1>> \o crop)))) \in Seq(Bit)
           /\ <<0>> \o (UeCode(m) \o (UeCode(n) \o (<<f>> \o (follows \o (<<1>> \o crop))))) \in Seq(Bit)
           /\ SizeCode(m, n, f, follows, crop) \in Seq(Bit)
<1> DEFINE e == 3
<1>0. e \in SmallNumbers
  BY DEF SmallNumbers
<1> HIDE DEF e
<1> DEFINE u == UeCode(e)
           x == UeCode(m)
           y == UeCode(n)
           o == <<1>>
           z == <<0>>
           g == <<f>>
<1>1. u \in Seq(Bit) /\ x \in Seq(Bit) /\ y \in Seq(Bit) /\ o \in Seq(Bit) /\ z \in Seq(Bit) /\ g \in Seq(Bit)
  BY <1>0, SmallIsCodable, OneIs, BitCodes
<1> HIDE DEF u, x, y, o, z, g
<1>2. o \o crop \in Seq(Bit)
  BY <1>1, JoinTyped
<1>3. follows \o (o \o crop) \in Seq(Bit)
  BY <1>1, <1>2, JoinTyped
<1>4. g \o (follows \o (o \o crop)) \in Seq(Bit)
  BY <1>1, <1>3, JoinTyped
<1>5. y \o (g \o (follows \o (o \o crop))) \in Seq(Bit)
  BY <1>1, <1>4, JoinTyped
<1>6. x \o (y \o (g \o (follows \o (o \o crop)))) \in Seq(Bit)
  BY <1>1, <1>5, JoinTyped
<1>7. z \o (x \o (y \o (g \o (follows \o (o \o crop))))) \in Seq(Bit)
  BY <1>1, <1>6, JoinTyped
<1>8. u \o (z \o (x \o (y \o (g \o (follows \o (o \o crop)))))) \in Seq(Bit)
  BY <1>1, <1>7, JoinTyped
<1> QED
  BY <1>2, <1>3, <1>4, <1>5, <1>6, <1>7, <1>8 DEF u, x, y, o, z, g, e, SizeCode

\* Where the reader is behind the bit that only pictures of fields have.
Behind(bits, frames) == IF frames.value = 0 THEN U(bits, frames.at, 1).at ELSE frames.at

\* The bit that only an interlaced picture has is read when there is one.
LEMMA FollowsIsRead ==
    ASSUME NEW bits \in Seq(Bit), NEW f \in Bit, NEW p \in Nat \ {0}, NEW q \in Nat \ {0},
           p <= q, Fits(bits, p, FollowCode(f)), q = p + Len(FollowCode(f))
    PROVE  Behind(bits, Field(bits, p, f)) = Where(bits, q)
<1> DEFINE frames == Field(bits, p, f)
           follows == Behind(bits, frames)
<1>0. follows = (IF frames.value = 0 THEN U(bits, frames.at, 1).at ELSE frames.at)
  BY DEF Behind
<1> HIDE DEF follows
<1>1. CASE p <= Len(bits) + 1
  <2>1. frames.value = f /\ frames.at = Where(bits, p)
    BY <1>1, FieldIs
  <2>2. CASE f = 0
    <3>1. FollowCode(f) = <<1>> /\ Len(<<1>>) = 1 /\ 1 \in Bit
      BY <2>2, OneIs, BitIs DEF FollowCode
    <3>2. q = p + 1
      BY <3>1
    <3> DEFINE x == frames.at
               y == U(bits, x, 1)
               o == 1
    <3>3. /\ bits \in Seq(Bit) /\ p \in Nat \ {0} /\ o \in Bit /\ Fits(bits, p, <<o>>) /\ x = Where(bits, p)
          /\ q = p + 1 /\ y = U(bits, x, 1)
      BY <2>1, <3>1, <3>2
    <3>4. follows = y.at
      BY <1>0, <2>1, <2>2
    <3> HIDE DEF x, y, o
    <3>5. y = Field(bits, q, o)
      BY ONLY <3>3, BitAt
    <3> QED
      BY <3>4, <3>5, FieldIs DEF follows
  <2>3. CASE f # 0
    <3>1. FollowCode(f) = <<>>
      BY <2>3 DEF FollowCode
    <3>2. q = p
      BY <3>1, NothingIsBits
    <3> QED
      BY <1>0, <2>1, <2>3, <3>2 DEF follows
  <2> QED
    BY <2>2, <2>3
<1>2. CASE ~(p <= Len(bits) + 1)
  <2>1. frames.value = 0 /\ frames.at = Over(bits)
    BY <1>2, FieldIs DEF NoField
  <2>2. Where(bits, q) = Over(bits)
    BY <1>2, OverLater
  <2>3. U(bits, Over(bits), 1).at = Over(bits)
    BY OverStays
  <2> QED
    BY <1>0, <2>1, <2>2, <2>3 DEF follows
<1> QED
  BY <1>1, <1>2 DEF follows

\* The fields that are read from `at` on.
SizeRead(bits, at, refs, gaps, width, height, frames, direct, cropped, left, right, top, bottom) ==
    /\ refs = Ue(bits, at) /\ gaps = U(bits, refs.at, 1) /\ width = Ue(bits, gaps.at)
    /\ height = Ue(bits, width.at) /\ frames = U(bits, height.at, 1)
    /\ direct = U(bits, Behind(bits, frames), 1) /\ cropped = U(bits, direct.at, 1)
    /\ left = Ue(bits, cropped.at) /\ right = Ue(bits, left.at) /\ top = Ue(bits, right.at)
    /\ bottom = Ue(bits, top.at)

\* What an SPS says of its size is read as it was written, or the bits are over.
LEMMA SizeIsRead ==
    ASSUME NEW bits \in Seq(Bit), NEW p \in Nat \ {0}, NEW m \in SmallNumbers, NEW n \in SmallNumbers,
           NEW f \in Bit, NEW c \in SmallNumbers, NEW d \in SmallNumbers, NEW end, NEW at,
           NEW refs, NEW gaps, NEW width, NEW height, NEW frames, NEW direct, NEW cropped, NEW left, NEW right,
           NEW top, NEW bottom,
           Fits(bits, p, SizeCode(m, n, f, FollowCode(f), CropCode(c, d))),
           end = p + Len(SizeCode(m, n, f, FollowCode(f), CropCode(c, d))), at = Where(bits, p),
           SizeRead(bits, at, refs, gaps, width, height, frames, direct, cropped, left, right, top, bottom)
    PROVE  /\ (IF cropped.value = 0 THEN cropped.at ELSE bottom.at) = Where(bits, end)
           /\ end \in Nat \ {0} /\ p <= end
           /\ end <= Len(bits) + 1 =>
                 width.value = m /\ height.value = n /\ frames.value = f /\ CropOf(cropped, left, right, top, bottom) = <<c, d>>
<1> DEFINE e == 3
           z == 0
           o == 1
           follow == FollowCode(f)
           follows == Behind(bits, frames)
           t7 == CropCode(c, d)
           t6 == <<o>> \o t7
           t5 == follow \o t6
           t4 == <<f>> \o t5
           t3 == UeCode(n) \o t4
           t2 == UeCode(m) \o t3
           t1 == <<z>> \o t2
           q1 == p + Len(UeCode(e))
           q2 == q1 + 1
           q3 == q2 + Len(UeCode(m))
           q4 == q3 + Len(UeCode(n))
           q5 == q4 + 1
           q6 == q5 + Len(follow)
           q7 == q6 + 1
<1>0. Len(bits) \in Nat /\ follow \in Seq(Bit) /\ t7 \in Seq(Bit)
  <2>1. follow \in Seq(Bit)
    <3>1. follow = <<1>> \/ follow = <<>>
      BY DEF FollowCode
    <3> QED
      BY ONLY <3>1, OneIs, NothingIsBits
  <2>2. t7 \in Seq(Bit)
    BY ONLY c \in SmallNumbers, d \in SmallNumbers, CropCodeIs
  <2>3. Len(bits) \in Nat
    BY ONLY bits \in Seq(Bit)
  <2> HIDE DEF t7
  <2> QED
    BY ONLY <2>1, <2>2, <2>3
<1>1. t6 \in Seq(Bit) /\ t5 \in Seq(Bit) /\ t4 \in Seq(Bit) /\ t3 \in Seq(Bit) /\ t2 \in Seq(Bit) /\ t1 \in Seq(Bit)
  <2>1. m \in SmallNumbers /\ n \in SmallNumbers /\ f \in Bit /\ follow \in Seq(Bit) /\ t7 \in Seq(Bit)
    BY <1>0
  <2> HIDE DEF t7
  <2> QED
    BY ONLY <2>1, SizeCodeIs
<1>2. e \in SmallNumbers /\ z \in Bit /\ o \in Bit
  BY ONLY TRUE DEF SmallNumbers, Bit
<1>3. Fits(bits, p, UeCode(e) \o t1) /\ end = p + Len(UeCode(e) \o t1)
  <2>1. SizeCode(m, n, f, follow, t7) = UeCode(e) \o t1
    <3> HIDE DEF t7
    <3> QED
      BY DEF SizeCode
  <2> HIDE DEF e, t1
  <2> QED
    BY <2>1
<1>c. /\ refs = Ue(bits, at) /\ gaps = U(bits, refs.at, 1) /\ width = Ue(bits, gaps.at)
      /\ height = Ue(bits, width.at) /\ frames = U(bits, height.at, 1)
      /\ direct = U(bits, follows, 1) /\ cropped = U(bits, direct.at, 1)
      /\ left = Ue(bits, cropped.at) /\ right = Ue(bits, left.at) /\ top = Ue(bits, right.at)
      /\ bottom = Ue(bits, top.at)
  BY DEF SizeRead
<1>b. o = 1 /\ z = 0
  OBVIOUS
<1>f. follow = FollowCode(f) /\ follows = Behind(bits, frames)
  OBVIOUS
<1> HIDE DEF e, o, z, t7, follow, follows
<1>4. /\ t6 = <<o>> \o t7 /\ t5 = follow \o t6 /\ t4 = <<f>> \o t5 /\ t3 = UeCode(n) \o t4
      /\ t2 = UeCode(m) \o t3 /\ t1 = <<z>> \o t2 /\ t7 = CropCode(c, d)
      /\ q1 = p + Len(UeCode(e)) /\ q2 = q1 + 1 /\ q3 = q2 + Len(UeCode(m)) /\ q4 = q3 + Len(UeCode(n))
      /\ q5 = q4 + 1 /\ q6 = q5 + Len(follow) /\ q7 = q6 + 1
  BY DEF t7
<1> HIDE DEF t1, t2, t3, t4, t5, t6, q1, q2, q3, q4, q5, q6, q7
<1> DEFINE a1 == refs.at
           a2 == gaps.at
           a3 == width.at
           a4 == height.at
           a7 == direct.at
<1>a. /\ gaps = U(bits, a1, 1) /\ width = Ue(bits, a2) /\ height = Ue(bits, a3) /\ frames = U(bits, a4, 1)
      /\ cropped = U(bits, a7, 1)
  BY <1>c
<1> HIDE DEF a1, a2, a3, a4, a7
<1>5. /\ refs = Field(bits, q1, e) /\ q1 \in Nat \ {0} /\ refs.at = Where(bits, q1) /\ p <= q1
      /\ Fits(bits, q1, t1) /\ end = q1 + Len(t1) /\ q1 <= end
  <2>1. /\ bits \in Seq(Bit) /\ p \in Nat \ {0} /\ e \in SmallNumbers /\ t1 \in Seq(Bit)
        /\ Fits(bits, p, UeCode(e) \o t1) /\ end = p + Len(UeCode(e) \o t1) /\ at = Where(bits, p)
        /\ refs = Ue(bits, at) /\ q1 = p + Len(UeCode(e))
    BY <1>1, <1>2, <1>3, <1>4, <1>c
  <2> QED
    BY ONLY <2>1, UeThen
<1>6. /\ gaps = Field(bits, q2, z) /\ q2 \in Nat \ {0} /\ gaps.at = Where(bits, q2) /\ q1 <= q2
      /\ Fits(bits, q2, t2) /\ end = q2 + Len(t2) /\ q2 <= end
  <2>1. /\ bits \in Seq(Bit) /\ q1 \in Nat \ {0} /\ z \in Bit /\ t2 \in Seq(Bit)
        /\ Fits(bits, q1, <<z>> \o t2) /\ end = q1 + Len(<<z>> \o t2) /\ a1 = Where(bits, q1)
        /\ gaps = U(bits, a1, 1) /\ q2 = q1 + 1
    BY <1>1, <1>2, <1>4, <1>5, <1>a DEF a1
  <2> QED
    BY ONLY <2>1, BitThen
<1>7. /\ width = Field(bits, q3, m) /\ q3 \in Nat \ {0} /\ width.at = Where(bits, q3) /\ q2 <= q3
      /\ Fits(bits, q3, t3) /\ end = q3 + Len(t3) /\ q3 <= end
  <2>1. /\ bits \in Seq(Bit) /\ q2 \in Nat \ {0} /\ m \in SmallNumbers /\ t3 \in Seq(Bit)
        /\ Fits(bits, q2, UeCode(m) \o t3) /\ end = q2 + Len(UeCode(m) \o t3) /\ a2 = Where(bits, q2)
        /\ width = Ue(bits, a2) /\ q3 = q2 + Len(UeCode(m))
    BY <1>1, <1>4, <1>6, <1>a DEF a2
  <2> QED
    BY ONLY <2>1, UeThen
<1>8. /\ height = Field(bits, q4, n) /\ q4 \in Nat \ {0} /\ height.at = Where(bits, q4) /\ q3 <= q4
      /\ Fits(bits, q4, t4) /\ end = q4 + Len(t4) /\ q4 <= end
  <2>1. /\ bits \in Seq(Bit) /\ q3 \in Nat \ {0} /\ n \in SmallNumbers /\ t4 \in Seq(Bit)
        /\ Fits(bits, q3, UeCode(n) \o t4) /\ end = q3 + Len(UeCode(n) \o t4) /\ a3 = Where(bits, q3)
        /\ height = Ue(bits, a3) /\ q4 = q3 + Len(UeCode(n))
    BY <1>1, <1>4, <1>7, <1>a DEF a3
  <2> QED
    BY ONLY <2>1, UeThen
<1>9. /\ frames = Field(bits, q5, f) /\ q5 \in Nat \ {0} /\ frames.at = Where(bits, q5) /\ q4 <= q5
      /\ Fits(bits, q5, t5) /\ end = q5 + Len(t5) /\ q5 <= end
  <2>1. /\ bits \in Seq(Bit) /\ q4 \in Nat \ {0} /\ f \in Bit /\ t5 \in Seq(Bit)
        /\ Fits(bits, q4, <<f>> \o t5) /\ end = q4 + Len(<<f>> \o t5) /\ a4 = Where(bits, q4)
        /\ frames = U(bits, a4, 1) /\ q5 = q4 + 1
    BY <1>1, <1>4, <1>8, <1>a DEF a4
  <2> QED
    BY ONLY <2>1, BitThen
<1>10. /\ Fits(bits, q5, follow) /\ Fits(bits, q6, t6) /\ q6 \in Nat \ {0} /\ q5 <= q6
       /\ end = q6 + Len(t6) /\ q6 <= end
  <2>1. /\ follow \in Seq(Bit) /\ t6 \in Seq(Bit) /\ q5 \in Nat \ {0} /\ Fits(bits, q5, follow \o t6)
        /\ end = q5 + Len(follow \o t6) /\ q6 = q5 + Len(follow)
    BY <1>0, <1>1, <1>4, <1>9
  <2> QED
    BY ONLY <2>1, Joined
<1>11. follows = Where(bits, q6)
  <2>0. /\ follow = FollowCode(f)
        /\ follows = Behind(bits, frames)
    BY <1>f
  <2>1. /\ bits \in Seq(Bit) /\ f \in Bit /\ q5 \in Nat \ {0} /\ q6 \in Nat \ {0} /\ q5 <= q6
        /\ Fits(bits, q5, follow) /\ q6 = q5 + Len(follow) /\ frames = Field(bits, q5, f)
    BY <1>4, <1>9, <1>10
  <2>2. Behind(bits, Field(bits, q5, f)) = Where(bits, q6)
    <3>1. /\ bits \in Seq(Bit) /\ f \in Bit /\ q5 \in Nat \ {0} /\ q6 \in Nat \ {0} /\ q5 <= q6
          /\ Fits(bits, q5, FollowCode(f)) /\ q6 = q5 + Len(FollowCode(f))
      BY ONLY <2>0, <2>1
    <3> QED
      BY ONLY <3>1, FollowsIsRead
  <2> QED
    BY ONLY <2>0, <2>2, <2>1
<1>12. /\ direct = Field(bits, q7, o) /\ q7 \in Nat \ {0} /\ direct.at = Where(bits, q7) /\ q6 <= q7
       /\ Fits(bits, q7, t7) /\ end = q7 + Len(t7) /\ q7 <= end
  <2>1. /\ bits \in Seq(Bit) /\ q6 \in Nat \ {0} /\ o \in Bit /\ t7 \in Seq(Bit)
        /\ Fits(bits, q6, <<o>> \o t7) /\ end = q6 + Len(<<o>> \o t7) /\ follows = Where(bits, q6)
        /\ direct = U(bits, follows, 1) /\ q7 = q6 + 1
    BY <1>0, <1>2, <1>4, <1>10, <1>11, <1>c
  <2> QED
    BY ONLY <2>1, BitThen
<1>13. /\ (IF cropped.value = 0 THEN cropped.at ELSE bottom.at) = Where(bits, end)
       /\ end \in Nat \ {0} /\ q7 <= end
       /\ end <= Len(bits) + 1 => CropOf(cropped, left, right, top, bottom) = <<c, d>>
  <2>1. /\ bits \in Seq(Bit) /\ q7 \in Nat \ {0} /\ c \in SmallNumbers /\ d \in SmallNumbers
        /\ Fits(bits, q7, CropCode(c, d)) /\ end = q7 + Len(CropCode(c, d)) /\ a7 = Where(bits, q7)
        /\ cropped = U(bits, a7, 1) /\ left = Ue(bits, cropped.at) /\ right = Ue(bits, left.at)
        /\ top = Ue(bits, right.at) /\ bottom = Ue(bits, top.at)
    BY <1>4, <1>12, <1>a, <1>c DEF a7
  <2> QED
    BY ONLY <2>1, CropIsRead
<1>14. p <= q1 /\ q1 <= q2 /\ q2 <= q3 /\ q3 <= q4 /\ q4 <= q5 /\ q5 <= q6 /\ q6 <= q7 /\ q7 <= end
  BY <1>5, <1>6, <1>7, <1>8, <1>9, <1>10, <1>12, <1>13
<1>15. /\ p \in Nat /\ q1 \in Nat /\ q2 \in Nat /\ q3 \in Nat /\ q4 \in Nat /\ q5 \in Nat /\ q6 \in Nat /\ q7 \in Nat
       /\ end \in Nat /\ Len(bits) \in Nat
  BY <1>0, <1>5, <1>6, <1>7, <1>8, <1>9, <1>10, <1>12, <1>13
<1>16. p <= end
  BY ONLY <1>14, <1>15
<1>17. end <= Len(bits) + 1 => width.value = m /\ height.value = n /\ frames.value = f
  <2> SUFFICES ASSUME end <= Len(bits) + 1 PROVE width.value = m /\ height.value = n /\ frames.value = f
    OBVIOUS
  <2>1. q3 <= Len(bits) + 1 /\ q4 <= Len(bits) + 1 /\ q5 <= Len(bits) + 1
    BY ONLY <1>14, <1>15, end <= Len(bits) + 1
  <2> QED
    BY ONLY bits \in Seq(Bit), <1>7, <1>8, <1>9, <2>1, FieldIs
<1> QED
  BY <1>13, <1>16, <1>17

\* What a picture's SPS says of its size, in numbers that have codes.
LEMMA SizeBitsAre ==
    ASSUME NEW s, NEW m, NEW n, NEW c, NEW d,
           Pictured(s), m = Mbs(s)[1] - 1, n = Mbs(s)[2] - 1, c = Crop(s)[1], d = Crop(s)[2]
    PROVE  /\ m \in SmallNumbers /\ n \in SmallNumbers /\ c \in SmallNumbers /\ d \in SmallNumbers
           /\ s.frames \in Bit
           /\ SizeBits(s) = SizeCode(m, n, s.frames, FollowCode(s.frames), CropCode(c, d))
           /\ SizeBits(s) \in Seq(Bit)
<1> DEFINE w == s.pixels[1]
           h == s.pixels[2]
           r == Rows(s)
           j == Samples(s.chroma)[1]
           k == Samples(s.chroma)[2]
           x == Mbs(s)[1]
           y == Mbs(s)[2]
<1>1. /\ Crop(s) = <<c, d>> /\ x \in Nat /\ x >= 1 /\ x <= 4096 /\ y \in Nat /\ y >= 1 /\ y <= 4096
      /\ c \in Nat /\ c <= 32 /\ d \in Nat /\ d <= 32
  <2>1. /\ Pictured(s) /\ w = s.pixels[1] /\ h = s.pixels[2] /\ r = Rows(s) /\ j = Samples(s.chroma)[1]
        /\ k = Samples(s.chroma)[2] /\ x = Mbs(s)[1] /\ y = Mbs(s)[2] /\ c = Crop(s)[1] /\ d = Crop(s)[2]
    OBVIOUS
  <2> HIDE DEF w, h, r, j, k, x, y
  <2> QED
    BY ONLY <2>1, PictureIs
<1>x. m = x - 1 /\ n = y - 1
  OBVIOUS
<1> HIDE DEF w, h, r, j, k, x, y
<1>2. m \in SmallNumbers /\ n \in SmallNumbers /\ c \in SmallNumbers /\ d \in SmallNumbers
  BY ONLY <1>1, <1>x DEF SmallNumbers
<1>3. s.frames \in Bit
  BY DEF Pictured, Bit
<1>4. CropBits(s) = CropCode(c, d)
  BY <1>1 DEF CropBits, CropCode
<1>5. SizeBits(s) = SizeCode(m, n, s.frames, FollowCode(s.frames), CropBits(s))
  BY DEF SizeBits, SizeCode, FollowCode
<1>6. FollowCode(s.frames) \in Seq(Bit)
  BY OneIs, NothingIsBits DEF FollowCode
<1>7. CropCode(c, d) \in Seq(Bit)
  BY <1>2, CropCodeIs
<1>8. SizeCode(m, n, s.frames, FollowCode(s.frames), CropCode(c, d)) \in Seq(Bit)
  BY ONLY <1>2, <1>3, <1>6, <1>7, SizeCodeIs
<1> QED
  BY ONLY <1>2, <1>3, <1>4, <1>5, <1>8

\* The size that is read is the picture's, or none.
LEMMA PixelsAreRead ==
    ASSUME NEW bits \in Seq(Bit), NEW p \in Nat \ {0}, NEW s, NEW end, NEW chroma,
           Pictured(s), Fits(bits, p, SizeBits(s)), end = p + Len(SizeBits(s)),
           end <= Len(bits) + 1 => chroma = s.chroma
    PROVE  /\ SizeAt(bits, chroma, Where(bits, p)) = IF end <= Len(bits) + 1 THEN s.pixels ELSE NoSize
           /\ end \in Nat \ {0} /\ p <= end
<1> DEFINE at == Where(bits, p)
           refs == Ue(bits, at)
           gaps == U(bits, refs.at, 1)
           width == Ue(bits, gaps.at)
           height == Ue(bits, width.at)
           frames == U(bits, height.at, 1)
           rows == 2 - frames.value
           direct == U(bits, Behind(bits, frames), 1)
           cropped == U(bits, direct.at, 1)
           left == Ue(bits, cropped.at)
           right == Ue(bits, left.at)
           top == Ue(bits, right.at)
           bottom == Ue(bits, top.at)
           crop == IF cropped.value = 0 THEN <<0, 0>> ELSE <<left.value + right.value, top.value + bottom.value>>
           size == <<(width.value + 1) * 16 - crop[1] * Samples(chroma)[1],
                     rows * (height.value + 1) * 16 - crop[2] * (Samples(chroma)[2] * rows)>>
<1> DEFINE x == Mbs(s)[1]
           y == Mbs(s)[2]
           m == x - 1
           n == y - 1
           c == Crop(s)[1]
           d == Crop(s)[2]
           f == s.frames
<1>1. /\ m \in SmallNumbers /\ n \in SmallNumbers /\ c \in SmallNumbers /\ d \in SmallNumbers
      /\ f \in Bit /\ SizeBits(s) = SizeCode(m, n, f, FollowCode(f), CropCode(c, d))
  <2>1. Pictured(s) /\ m = Mbs(s)[1] - 1 /\ n = Mbs(s)[2] - 1 /\ c = Crop(s)[1] /\ d = Crop(s)[2] /\ f = s.frames
    OBVIOUS
  <2> HIDE DEF x, y, m, n, c, d, f
  <2>2. /\ m \in SmallNumbers /\ n \in SmallNumbers /\ c \in SmallNumbers /\ d \in SmallNumbers
        /\ s.frames \in Bit
        /\ SizeBits(s) = SizeCode(m, n, s.frames, FollowCode(s.frames), CropCode(c, d))
    BY ONLY <2>1, SizeBitsAre
  <2> QED
    BY ONLY <2>1, <2>2
<1> DEFINE w == s.pixels[1]
           h == s.pixels[2]
           r == Rows(s)
           j == Samples(s.chroma)[1]
           k == Samples(s.chroma)[2]
<1>2. /\ w \in Nat /\ w >= 1 /\ h \in Nat /\ h >= 1 /\ s.pixels = <<w, h>>
      /\ r \in Ratios /\ r = 2 - s.frames /\ j \in Ratios /\ k \in Ratios
      /\ x \in Nat /\ y \in Nat /\ c \in Nat /\ d \in Nat
      /\ x * 16 - c * j = w /\ r * y * 16 - d * (k * r) = h
  <2>1. /\ Pictured(s) /\ w = s.pixels[1] /\ h = s.pixels[2] /\ r = Rows(s) /\ j = Samples(s.chroma)[1]
        /\ k = Samples(s.chroma)[2] /\ x = Mbs(s)[1] /\ y = Mbs(s)[2] /\ c = Crop(s)[1] /\ d = Crop(s)[2]
    OBVIOUS
  <2> HIDE DEF w, h, r, j, k, x, y, c, d
  <2> QED
    BY ONLY <2>1, PictureIs
<1>3. m = x - 1 /\ n = y - 1 /\ j = Samples(s.chroma)[1] /\ k = Samples(s.chroma)[2] /\ f = s.frames
  OBVIOUS
<1> HIDE DEF w, h, r, j, k, x, y, m, n, c, d, f
<1>4. /\ refs = Ue(bits, at) /\ gaps = U(bits, refs.at, 1) /\ width = Ue(bits, gaps.at)
      /\ height = Ue(bits, width.at) /\ frames = U(bits, height.at, 1)
      /\ direct = U(bits, Behind(bits, frames), 1) /\ cropped = U(bits, direct.at, 1) /\ left = Ue(bits, cropped.at)
      /\ right = Ue(bits, left.at) /\ top = Ue(bits, right.at) /\ bottom = Ue(bits, top.at)
      /\ at = Where(bits, p)
  OBVIOUS
<1> DEFINE last == IF cropped.value = 0 THEN cropped.at ELSE bottom.at
<1>7. SizeAt(bits, chroma, at) = IF last = Over(bits) \/ size[1] = 0 \/ size[2] = 0 THEN NoSize ELSE size
  BY DEF SizeAt, Behind
<1> HIDE DEF at, refs, gaps, width, height, frames, direct, cropped, left, right, top, bottom
<1>5. /\ rows = 2 - frames.value
      /\ crop = (IF cropped.value = 0 THEN <<0, 0>> ELSE <<left.value + right.value, top.value + bottom.value>>)
      /\ size = <<(width.value + 1) * 16 - crop[1] * Samples(chroma)[1],
                  rows * (height.value + 1) * 16 - crop[2] * (Samples(chroma)[2] * rows)>>
  OBVIOUS
<1>6. crop = CropOf(cropped, left, right, top, bottom)
  BY DEF CropOf
<1> HIDE DEF rows, crop, size
<1>8. /\ last = Where(bits, end) /\ end \in Nat \ {0} /\ p <= end
      /\ end <= Len(bits) + 1 =>
                 width.value = m /\ height.value = n /\ frames.value = f
                 /\ CropOf(cropped, left, right, top, bottom) = <<c, d>>
  <2>1. /\ bits \in Seq(Bit) /\ p \in Nat \ {0} /\ m \in SmallNumbers /\ n \in SmallNumbers /\ f \in Bit
        /\ c \in SmallNumbers /\ d \in SmallNumbers
        /\ Fits(bits, p, SizeCode(m, n, f, FollowCode(f), CropCode(c, d)))
        /\ end = p + Len(SizeCode(m, n, f, FollowCode(f), CropCode(c, d))) /\ at = Where(bits, p)
        /\ SizeRead(bits, at, refs, gaps, width, height, frames, direct, cropped, left, right, top, bottom)
    BY <1>1, <1>4 DEF SizeRead
  <2> QED
    BY ONLY <2>1, SizeIsRead
<1> HIDE DEF last
<1>9. SizeAt(bits, chroma, at) = IF end <= Len(bits) + 1 THEN s.pixels ELSE NoSize
  <2>1. CASE end <= Len(bits) + 1
    <3>1. last # Over(bits)
      <4>1. Len(bits) \in Nat
        OBVIOUS
      <4> QED
        BY ONLY <4>1, <1>8, <2>1 DEF Where, Over
    <3>2. width.value = m /\ height.value = n /\ rows = r /\ crop = <<c, d>> /\ chroma = s.chroma
      <4>1. rows = r
        BY <1>2, <1>3, <1>5, <1>8, <2>1
      <4> QED
        BY <1>6, <1>8, <2>1, <4>1
    <3>3. size = <<(m + 1) * 16 - c * j, r * (n + 1) * 16 - d * (k * r)>>
      <4>1. crop[1] = c /\ crop[2] = d
        BY <3>2
      <4>2. Samples(chroma)[1] = j /\ Samples(chroma)[2] = k
        BY <1>3, <3>2
      <4> QED
        BY ONLY <1>5, <3>2, <4>1, <4>2
    <3>4. m + 1 = x /\ n + 1 = y
      BY ONLY <1>2, <1>3
    <3>5. size = <<w, h>>
      BY ONLY <1>2, <3>3, <3>4
    <3>6. size[1] # 0 /\ size[2] # 0
      BY ONLY <1>2, <3>5
    <3> QED
      BY ONLY <1>2, <1>7, <2>1, <3>1, <3>5, <3>6
  <2>2. CASE ~(end <= Len(bits) + 1)
    <3>1. last = Over(bits)
      BY <1>8, <2>2 DEF Where
    <3> QED
      BY ONLY <1>7, <2>2, <3>1
  <2> QED
    BY <2>1, <2>2
<1> QED
  BY <1>8, <1>9 DEF at

-----------------------------------------------------------------------------
(* Octets and their bits.                                                  *)

\* What each bit of a byte counts.
LEMMA PlacesAre ==
    /\ Place[1] = 128 /\ Place[2] = 64 /\ Place[3] = 32 /\ Place[4] = 16
    /\ Place[5] = 8 /\ Place[6] = 4 /\ Place[7] = 2 /\ Place[8] = 1
  BY DEF Place

\* The number that eight digits stand for, digit after digit.
LEMMA EightDigits ==
    ASSUME NEW s \in Seq(Bit), Len(s) = 8
    PROVE  \E f \in [0..8 -> Nat] :
              /\ f[0] = 0 /\ f[8] = Number(2, s)
              /\ f[1] = 2 * f[0] + s[1] /\ f[2] = 2 * f[1] + s[2] /\ f[3] = 2 * f[2] + s[3]
              /\ f[4] = 2 * f[3] + s[4] /\ f[5] = 2 * f[4] + s[5] /\ f[6] = 2 * f[5] + s[6]
              /\ f[7] = 2 * f[6] + s[7] /\ f[8] = 2 * f[7] + s[8]
<1>1. s \in Seq(Nat) /\ 2 \in Nat
  BY DEF Bit
<1>2. PICK f : /\ f \in [0..Len(s) -> Nat] /\ f[0] = 0
               /\ \A i \in 1..Len(s) : f[i] = 2 * f[i - 1] + s[i]
               /\ Number(2, s) = f[Len(s)]
  <2> DEFINE b == 2
  <2>1. b \in Nat /\ s \in Seq(Nat)
    BY <1>1
  <2> HIDE DEF b
  <2>2. \E f : /\ f \in [0..Len(s) -> Nat] /\ f[0] = 0
               /\ \A i \in 1..Len(s) : f[i] = b * f[i - 1] + s[i]
               /\ Number(b, s) = f[Len(s)]
    BY ONLY <2>1, NumberRecurs
  <2> QED
    BY <2>2 DEF b
<1>3. f \in [0..8 -> Nat] /\ f[0] = 0 /\ Number(2, s) = f[8] /\ \A i \in 1..8 : f[i] = 2 * f[i - 1] + s[i]
  BY <1>2
<1>4. \A i \in 1..8 : f[i] = 2 * f[i - 1] + s[i]
  BY <1>3
<1>5. /\ f[1] = 2 * f[0] + s[1] /\ f[2] = 2 * f[1] + s[2] /\ f[3] = 2 * f[2] + s[3]
      /\ f[4] = 2 * f[3] + s[4] /\ f[5] = 2 * f[4] + s[5] /\ f[6] = 2 * f[5] + s[6]
      /\ f[7] = 2 * f[6] + s[7] /\ f[8] = 2 * f[7] + s[8]
  BY ONLY <1>4
<1> QED
  BY <1>3, <1>5

\* Eight bits, one by one.
LEMMA BitsAre ==
    ASSUME NEW s \in Seq(Bit), Len(s) = 8
    PROVE  /\ s[1] \in Bit /\ s[2] \in Bit /\ s[3] \in Bit /\ s[4] \in Bit
           /\ s[5] \in Bit /\ s[6] \in Bit /\ s[7] \in Bit /\ s[8] \in Bit
<1>1. \A i \in 1..Len(s) : s[i] \in Bit
  <2> SUFFICES ASSUME NEW i \in 1..Len(s) PROVE s[i] \in Bit
    OBVIOUS
  <2>1. s \in Seq(Bit)
    OBVIOUS
  <2> QED
    BY ONLY <2>1, i \in 1..Len(s), ElementOfSeq
<1>2. /\ 1 \in 1..Len(s) /\ 2 \in 1..Len(s) /\ 3 \in 1..Len(s) /\ 4 \in 1..Len(s)
      /\ 5 \in 1..Len(s) /\ 6 \in 1..Len(s) /\ 7 \in 1..Len(s) /\ 8 \in 1..Len(s)
  OBVIOUS
<1> QED
  BY ONLY <1>1, <1>2

\* The bits of an octet stand for it.
LEMMA OctetIs ==
    ASSUME NEW b \in Byte
    PROVE  OctetBits(b) \in Seq(Bit) /\ Len(OctetBits(b)) = 8 /\ Number(2, OctetBits(b)) = b
<1> DEFINE s == OctetBits(b)
<1>0. b \in Nat /\ b <= 255
  BY ByteIs
<1>1. \A i \in 1..8 : s[i] = (b \div Place[i]) % 2
  BY DEF OctetBits
<1>2. /\ s[1] = (b \div 128) % 2 /\ s[2] = (b \div 64) % 2 /\ s[3] = (b \div 32) % 2 /\ s[4] = (b \div 16) % 2
      /\ s[5] = (b \div 8) % 2 /\ s[6] = (b \div 4) % 2 /\ s[7] = (b \div 2) % 2 /\ s[8] = (b \div 1) % 2
  <2> HIDE DEF s
  <2> QED
    BY <1>1, PlacesAre
<1>3. s \in Seq(Bit) /\ Len(s) = 8
  <2>1. \A i \in 1..8 : (b \div Place[i]) % 2 \in Bit
    <3> SUFFICES ASSUME NEW i \in 1..8 PROVE (b \div Place[i]) % 2 \in Bit
      OBVIOUS
    <3> DEFINE p == Place[i]
               n == b \div p
    <3>1. p \in Nat \ {0}
      BY PlacesAre
    <3> HIDE DEF p
    <3>2. n \in Nat
      BY <1>0, <3>1
    <3> HIDE DEF n
    <3>3. n % 2 \in Bit
      BY <3>2, BitIs
    <3> QED
      BY <3>3 DEF n, p
  <2>2. s \in [1..8 -> Bit]
    BY <2>1 DEF OctetBits
  <2> HIDE DEF s
  <2> QED
    BY <2>2, FunctionIsSeq
<1> HIDE DEF s
<1>4. PICK f \in [0..8 -> Nat] :
              /\ f[0] = 0 /\ f[8] = Number(2, s)
              /\ f[1] = 2 * f[0] + s[1] /\ f[2] = 2 * f[1] + s[2] /\ f[3] = 2 * f[2] + s[3]
              /\ f[4] = 2 * f[3] + s[4] /\ f[5] = 2 * f[4] + s[5] /\ f[6] = 2 * f[5] + s[6]
              /\ f[7] = 2 * f[6] + s[7] /\ f[8] = 2 * f[7] + s[8]
  BY <1>3, EightDigits
<1>5. f[8] = b
  <2>h. \A n \in Nat : n \div 2 \in Nat /\ n % 2 = n - 2 * (n \div 2)
    BY BitIs
  <2>d. /\ b \div 1 = b /\ b \div 2 \in Nat /\ b \div 4 = (b \div 2) \div 2 /\ b \div 8 = (b \div 4) \div 2
        /\ b \div 16 = (b \div 8) \div 2 /\ b \div 32 = (b \div 16) \div 2 /\ b \div 64 = (b \div 32) \div 2
        /\ b \div 128 = (b \div 64) \div 2 /\ b \div 128 <= 1
    BY ONLY <1>0
  <2> DEFINE d2 == b \div 2
             d3 == b \div 4
             d4 == b \div 8
             d5 == b \div 16
             d6 == b \div 32
             d7 == b \div 64
             d8 == b \div 128
  <2>1. /\ d2 = b \div 2 /\ d3 = d2 \div 2 /\ d4 = d3 \div 2 /\ d5 = d4 \div 2 /\ d6 = d5 \div 2
        /\ d7 = d6 \div 2 /\ d8 = d7 \div 2 /\ d8 <= 1
        /\ s[1] = d8 % 2 /\ s[2] = d7 % 2 /\ s[3] = d6 % 2 /\ s[4] = d5 % 2
        /\ s[5] = d4 % 2 /\ s[6] = d3 % 2 /\ s[7] = d2 % 2 /\ s[8] = b % 2
    BY <1>2, <2>d
  <2> HIDE DEF d2, d3, d4, d5, d6, d7, d8
  <2>2. d2 \in Nat /\ b % 2 = b - 2 * d2
    BY ONLY <1>0, <2>h, <2>1
  <2>3. d3 \in Nat /\ d2 % 2 = d2 - 2 * d3
    BY ONLY <2>2, <2>h, <2>1
  <2>4. d4 \in Nat /\ d3 % 2 = d3 - 2 * d4
    BY ONLY <2>3, <2>h, <2>1
  <2>5. d5 \in Nat /\ d4 % 2 = d4 - 2 * d5
    BY ONLY <2>4, <2>h, <2>1
  <2>6. d6 \in Nat /\ d5 % 2 = d5 - 2 * d6
    BY ONLY <2>5, <2>h, <2>1
  <2>7. d7 \in Nat /\ d6 % 2 = d6 - 2 * d7
    BY ONLY <2>6, <2>h, <2>1
  <2>8. d8 \in Nat /\ d7 % 2 = d7 - 2 * d8
    BY ONLY <2>7, <2>h, <2>1
  <2>9. d8 \in Nat /\ d8 <= 1
    BY ONLY <2>8, <2>1
  <2>9a. d8 % 2 = d8
    BY ONLY <2>9
  <2> DEFINE f1 == f[1]
             f2 == f[2]
             f3 == f[3]
             f4 == f[4]
             f5 == f[5]
             f6 == f[6]
             f7 == f[7]
             f8 == f[8]
  <2>f. /\ f1 = 2 * 0 + (d8 % 2) /\ f2 = 2 * f1 + (d7 % 2) /\ f3 = 2 * f2 + (d6 % 2)
        /\ f4 = 2 * f3 + (d5 % 2) /\ f5 = 2 * f4 + (d4 % 2) /\ f6 = 2 * f5 + (d3 % 2)
        /\ f7 = 2 * f6 + (d2 % 2) /\ f8 = 2 * f7 + (b % 2)
    BY <1>4, <2>1
  <2>g. /\ f2 = 2 * f1 + (d7 - 2 * d8) /\ f3 = 2 * f2 + (d6 - 2 * d7)
        /\ f4 = 2 * f3 + (d5 - 2 * d6) /\ f5 = 2 * f4 + (d4 - 2 * d5) /\ f6 = 2 * f5 + (d3 - 2 * d4)
        /\ f7 = 2 * f6 + (d2 - 2 * d3) /\ f8 = 2 * f7 + (b - 2 * d2)
    BY <2>f, <2>2, <2>3, <2>4, <2>5, <2>6, <2>7, <2>8
  <2>h1. d2 \in Nat /\ d3 \in Nat /\ d4 \in Nat /\ d5 \in Nat /\ d6 \in Nat /\ d7 \in Nat /\ d8 \in Nat
    BY ONLY <2>2, <2>3, <2>4, <2>5, <2>6, <2>7, <2>8
  <2> HIDE DEF f1, f2, f3, f4, f5, f6, f7, f8
  <2>10. f1 = d8
    BY ONLY <2>f, <2>9, <2>9a
  <2>11. f2 = d7
    BY ONLY <2>g, <2>h1, <2>10
  <2>12. f3 = d6
    BY ONLY <2>g, <2>h1, <2>11
  <2>13. f4 = d5
    BY ONLY <2>g, <2>h1, <2>12
  <2>14. f5 = d4
    BY ONLY <2>g, <2>h1, <2>13
  <2>15. f6 = d3
    BY ONLY <2>g, <2>h1, <2>14
  <2>16. f7 = d2
    BY ONLY <2>g, <2>h1, <2>15
  <2>17. f8 = b
    BY ONLY <1>0, <2>g, <2>h1, <2>16
  <2> QED
    BY <2>17 DEF f8
<1> QED
  BY <1>3, <1>4, <1>5 DEF s

\* Eight bits are the bits of the octet they stand for.
LEMMA OctetOf ==
    ASSUME NEW s \in Seq(Bit), Len(s) = 8
    PROVE  Number(2, s) \in Byte /\ \A i \in 1..8 : OctetBits(Number(2, s))[i] = s[i]
<1>1. PICK f \in [0..8 -> Nat] :
              /\ f[0] = 0 /\ f[8] = Number(2, s)
              /\ f[1] = 2 * f[0] + s[1] /\ f[2] = 2 * f[1] + s[2] /\ f[3] = 2 * f[2] + s[3]
              /\ f[4] = 2 * f[3] + s[4] /\ f[5] = 2 * f[4] + s[5] /\ f[6] = 2 * f[5] + s[6]
              /\ f[7] = 2 * f[6] + s[7] /\ f[8] = 2 * f[7] + s[8]
  BY EightDigits
<1> DEFINE n == Number(2, s)
           a1 == s[1]
           a2 == s[2]
           a3 == s[3]
           a4 == s[4]
           a5 == s[5]
           a6 == s[6]
           a7 == s[7]
           a8 == s[8]
<1>2. /\ a1 \in Nat /\ a1 <= 1 /\ a2 \in Nat /\ a2 <= 1 /\ a3 \in Nat /\ a3 <= 1 /\ a4 \in Nat /\ a4 <= 1
      /\ a5 \in Nat /\ a5 <= 1 /\ a6 \in Nat /\ a6 <= 1 /\ a7 \in Nat /\ a7 <= 1 /\ a8 \in Nat /\ a8 <= 1
  BY BitsAre, BitIs
<1>3. n = 128 * a1 + 64 * a2 + 32 * a3 + 16 * a4 + 8 * a5 + 4 * a6 + 2 * a7 + a8
  <2> DEFINE f1 == f[1]
             f2 == f[2]
             f3 == f[3]
             f4 == f[4]
             f5 == f[5]
             f6 == f[6]
             f7 == f[7]
             f8 == f[8]
  <2>f. /\ f1 = 2 * 0 + a1 /\ f2 = 2 * f1 + a2 /\ f3 = 2 * f2 + a3
        /\ f4 = 2 * f3 + a4 /\ f5 = 2 * f4 + a5 /\ f6 = 2 * f5 + a6
        /\ f7 = 2 * f6 + a7 /\ f8 = 2 * f7 + a8 /\ n = f8
    BY <1>1
  <2> HIDE DEF f1, f2, f3, f4, f5, f6, f7, f8, n, a1, a2, a3, a4, a5, a6, a7, a8
  <2> QED
    BY ONLY <1>2, <2>f
<1>4. \A i \in 1..8 : OctetBits(n)[i] = (n \div Place[i]) % 2
  BY DEF OctetBits
<1> HIDE DEF n, a1, a2, a3, a4, a5, a6, a7, a8
<1>5. n \in Nat /\ n <= 255
  BY ONLY <1>2, <1>3
<1> DEFINE e1 == a1
           e2 == 2 * e1 + a2
           e3 == 2 * e2 + a3
           e4 == 2 * e3 + a4
           e5 == 2 * e4 + a5
           e6 == 2 * e5 + a6
           e7 == 2 * e6 + a7
<1>e. e1 \in Nat /\ e2 \in Nat /\ e3 \in Nat /\ e4 \in Nat /\ e5 \in Nat /\ e6 \in Nat /\ e7 \in Nat
  BY ONLY <1>2
<1>d1. n \div 128 = e1 /\ (n \div 128) % 2 = a1
  <2> DEFINE r == 64 * a2 + 32 * a3 + 16 * a4 + 8 * a5 + 4 * a6 + 2 * a7 + a8
  <2>1. n = 128 * e1 + r /\ r \in Nat /\ r < 128
    BY ONLY <1>2, <1>3
  <2>2. e1 = a1
    BY ONLY <1>2
  <2> HIDE DEF r, e1, e2, e3, e4, e5, e6, e7
  <2>3. n \div 128 = e1
    BY ONLY <1>5, <1>e, <2>1, SMTT(30)
  <2>4. e1 % 2 = a1
    BY ONLY <1>2, <1>e, <2>2, SMTT(30)
  <2> QED
    BY ONLY <2>3, <2>4
<1>d2. n \div 64 = e2 /\ (n \div 64) % 2 = a2
  <2> DEFINE r == 32 * a3 + 16 * a4 + 8 * a5 + 4 * a6 + 2 * a7 + a8
  <2>1. n = 64 * e2 + r /\ r \in Nat /\ r < 64
    BY ONLY <1>2, <1>3
  <2>2. e2 = 2 * e1 + a2
    BY ONLY <1>2
  <2> HIDE DEF r, e1, e2, e3, e4, e5, e6, e7
  <2>3. n \div 64 = e2
    BY ONLY <1>5, <1>e, <2>1, SMTT(30)
  <2>4. e2 % 2 = a2
    BY ONLY <1>2, <1>e, <2>2, SMTT(30)
  <2> QED
    BY ONLY <2>3, <2>4
<1>d3. n \div 32 = e3 /\ (n \div 32) % 2 = a3
  <2> DEFINE r == 16 * a4 + 8 * a5 + 4 * a6 + 2 * a7 + a8
  <2>1. n = 32 * e3 + r /\ r \in Nat /\ r < 32
    BY ONLY <1>2, <1>3
  <2>2. e3 = 2 * e2 + a3
    BY ONLY <1>2
  <2> HIDE DEF r, e1, e2, e3, e4, e5, e6, e7
  <2>3. n \div 32 = e3
    BY ONLY <1>5, <1>e, <2>1, SMTT(30)
  <2>4. e3 % 2 = a3
    BY ONLY <1>2, <1>e, <2>2, SMTT(30)
  <2> QED
    BY ONLY <2>3, <2>4
<1>d4. n \div 16 = e4 /\ (n \div 16) % 2 = a4
  <2> DEFINE r == 8 * a5 + 4 * a6 + 2 * a7 + a8
  <2>1. n = 16 * e4 + r /\ r \in Nat /\ r < 16
    BY ONLY <1>2, <1>3
  <2>2. e4 = 2 * e3 + a4
    BY ONLY <1>2
  <2> HIDE DEF r, e1, e2, e3, e4, e5, e6, e7
  <2>3. n \div 16 = e4
    BY ONLY <1>5, <1>e, <2>1, SMTT(30)
  <2>4. e4 % 2 = a4
    BY ONLY <1>2, <1>e, <2>2, SMTT(30)
  <2> QED
    BY ONLY <2>3, <2>4
<1>d5. n \div 8 = e5 /\ (n \div 8) % 2 = a5
  <2> DEFINE r == 4 * a6 + 2 * a7 + a8
  <2>1. n = 8 * e5 + r /\ r \in Nat /\ r < 8
    BY ONLY <1>2, <1>3
  <2>2. e5 = 2 * e4 + a5
    BY ONLY <1>2
  <2> HIDE DEF r, e1, e2, e3, e4, e5, e6, e7
  <2>3. n \div 8 = e5
    BY ONLY <1>5, <1>e, <2>1, SMTT(30)
  <2>4. e5 % 2 = a5
    BY ONLY <1>2, <1>e, <2>2, SMTT(30)
  <2> QED
    BY ONLY <2>3, <2>4
<1>d6. n \div 4 = e6 /\ (n \div 4) % 2 = a6
  <2> DEFINE r == 2 * a7 + a8
  <2>1. n = 4 * e6 + r /\ r \in Nat /\ r < 4
    BY ONLY <1>2, <1>3
  <2>2. e6 = 2 * e5 + a6
    BY ONLY <1>2
  <2> HIDE DEF r, e1, e2, e3, e4, e5, e6, e7
  <2>3. n \div 4 = e6
    BY ONLY <1>5, <1>e, <2>1, SMTT(30)
  <2>4. e6 % 2 = a6
    BY ONLY <1>2, <1>e, <2>2, SMTT(30)
  <2> QED
    BY ONLY <2>3, <2>4
<1>d7. n \div 2 = e7 /\ (n \div 2) % 2 = a7
  <2> DEFINE r == a8
  <2>1. n = 2 * e7 + r /\ r \in Nat /\ r < 2
    BY ONLY <1>2, <1>3
  <2>2. e7 = 2 * e6 + a7
    BY ONLY <1>2
  <2> HIDE DEF r, e1, e2, e3, e4, e5, e6, e7
  <2>3. n \div 2 = e7
    BY ONLY <1>5, <1>e, <2>1, SMTT(30)
  <2>4. e7 % 2 = a7
    BY ONLY <1>2, <1>e, <2>2, SMTT(30)
  <2> QED
    BY ONLY <2>3, <2>4
<1>d8. n \div 1 = n /\ (n \div 1) % 2 = a8
  <2>1. n = 2 * e7 + a8
    BY ONLY <1>2, <1>3
  <2> HIDE DEF e1, e2, e3, e4, e5, e6, e7
  <2>2. n \div 1 = n
    BY ONLY <1>5
  <2>3. n % 2 = a8
    BY ONLY <1>2, <1>e, <2>1, SMTT(30)
  <2> QED
    BY ONLY <2>2, <2>3
<1>8. n \in Byte
  BY <1>5, ByteIs
<1>9. \A i \in 1..8 : OctetBits(n)[i] = s[i]
  <2> DEFINE o == OctetBits(n)
  <2>0. \A i \in 1..8 : o[i] = (n \div Place[i]) % 2
    BY <1>4
  <2> HIDE DEF o
  <2>1. /\ o[1] = (n \div 128) % 2 /\ o[2] = (n \div 64) % 2 /\ o[3] = (n \div 32) % 2
        /\ o[4] = (n \div 16) % 2 /\ o[5] = (n \div 8) % 2 /\ o[6] = (n \div 4) % 2
        /\ o[7] = (n \div 2) % 2 /\ o[8] = (n \div 1) % 2
    <3>1. /\ 1 \in 1..8 /\ 2 \in 1..8 /\ 3 \in 1..8 /\ 4 \in 1..8
          /\ 5 \in 1..8 /\ 6 \in 1..8 /\ 7 \in 1..8 /\ 8 \in 1..8
      OBVIOUS
    <3>2. /\ o[1] = (n \div Place[1]) % 2 /\ o[2] = (n \div Place[2]) % 2 /\ o[3] = (n \div Place[3]) % 2
          /\ o[4] = (n \div Place[4]) % 2 /\ o[5] = (n \div Place[5]) % 2 /\ o[6] = (n \div Place[6]) % 2
          /\ o[7] = (n \div Place[7]) % 2 /\ o[8] = (n \div Place[8]) % 2
      <4> DEFINE v(i) == (n \div Place[i]) % 2
      <4>1. \A i \in 1..8 : o[i] = v(i)
        BY <2>0
      <4> HIDE DEF v
      <4>2. /\ o[1] = v(1) /\ o[2] = v(2) /\ o[3] = v(3) /\ o[4] = v(4)
            /\ o[5] = v(5) /\ o[6] = v(6) /\ o[7] = v(7) /\ o[8] = v(8)
        BY ONLY <3>1, <4>1
      <4> QED
        BY <4>2 DEF v
    <3> QED
      BY ONLY <3>2, PlacesAre
  <2>2. /\ o[1] = a1 /\ o[2] = a2 /\ o[3] = a3 /\ o[4] = a4
        /\ o[5] = a5 /\ o[6] = a6 /\ o[7] = a7 /\ o[8] = a8
    <3> HIDE DEF e1, e2, e3, e4, e5, e6, e7
    <3> QED
      BY ONLY <2>1, <1>d1, <1>d2, <1>d3, <1>d4, <1>d5, <1>d6, <1>d7, <1>d8
  <2>3. /\ o[1] = s[1] /\ o[2] = s[2] /\ o[3] = s[3] /\ o[4] = s[4]
        /\ o[5] = s[5] /\ o[6] = s[6] /\ o[7] = s[7] /\ o[8] = s[8]
    BY <2>2 DEF a1, a2, a3, a4, a5, a6, a7, a8
  <2>4. \A i \in 1..8 : i = 1 \/ i = 2 \/ i = 3 \/ i = 4 \/ i = 5 \/ i = 6 \/ i = 7 \/ i = 8
    OBVIOUS
  <2>5. \A i \in 1..8 : o[i] = s[i]
    BY ONLY <2>3, <2>4
  <2> QED
    BY <2>5 DEF o
<1> QED
  BY <1>8, <1>9 DEF n

-----------------------------------------------------------------------------
(* A whole SPS.                                                            *)

\* Eight bits in front of others are read as the octet that they are.
LEMMA OctetThen ==
    ASSUME NEW bits \in Seq(Bit), NEW p \in Nat \ {0}, NEW b \in Byte, NEW rest \in Seq(Bit), NEW end,
           NEW at, NEW field, NEW q,
           Fits(bits, p, OctetBits(b) \o rest), end = p + Len(OctetBits(b) \o rest), at = Where(bits, p),
           field = U(bits, at, 8), q = p + 8
    PROVE  /\ field = Field(bits, q, b) /\ q \in Nat \ {0} /\ field.at = Where(bits, q) /\ p <= q
           /\ Fits(bits, q, rest) /\ end = q + Len(rest) /\ q <= end
<1> DEFINE code == OctetBits(b)
<1>1. code \in Seq(Bit) /\ Len(code) = 8 /\ Number(2, code) = b
  BY OctetIs
<1>0. Fits(bits, p, code \o rest) /\ end = p + Len(code \o rest)
  OBVIOUS
<1> HIDE DEF code
<1>2. /\ Fits(bits, p, code) /\ Fits(bits, q, rest) /\ q \in Nat \ {0} /\ p <= q
      /\ end = q + Len(rest) /\ end \in Nat \ {0} /\ q <= end
  <2>1. /\ code \in Seq(Bit) /\ rest \in Seq(Bit) /\ p \in Nat \ {0} /\ Fits(bits, p, code \o rest)
        /\ end = p + Len(code \o rest) /\ q = p + Len(code)
    BY <1>0, <1>1
  <2> QED
    BY ONLY <2>1, Joined
<1>3. field = Field(bits, q, b)
  <2>1. bits \in Seq(Bit) /\ p \in Nat \ {0} /\ code \in Seq(Bit) /\ Fits(bits, p, code)
    BY <1>1, <1>2
  <2>2. U(bits, Where(bits, p), Len(code)) = Field(bits, p + Len(code), Number(2, code))
    BY ONLY <2>1, UIs
  <2> QED
    BY <1>1, <2>2
<1>4. field.at = Where(bits, q)
  BY <1>3 DEF Field
<1> QED
  BY <1>2, <1>3, <1>4

\* What an encoder may send, as far as a reader of it goes.
Describable(s) ==
    /\ Pictured(s) /\ s.lists \in Seq(Forms) /\ s.offsets \in Seq(Offsets) /\ Len(s.offsets) <= 255
    /\ s.order \in 0..2 /\ s.chroma \in 0..3 /\ s.plane \in Bit /\ s.profile \in Byte
    /\ s.profile \notin Profiles => s.chroma = 1

\* What the profiles with a chroma format have, and nothing for the others.
ProfileBits(s) == IF s.profile \in Profiles THEN ChromaBits(s) ELSE <<>>

ChromaPart(bits, profile, at) == IF profile \in Profiles THEN Chroma(bits, at) ELSE [value |-> 1, at |-> at]

\* The parts of an SPS are bits.
LEMMA SpsCodes ==
    ASSUME NEW s, Describable(s)
    PROVE  /\ ProfileBits(s) \in Seq(Bit) /\ OrderBits(s) \in Seq(Bit) /\ SizeBits(s) \in Seq(Bit)
           /\ <<0>> \in Seq(Bit) /\ UeCode(0) \in Seq(Bit) /\ UeCode(4) \in Seq(Bit)
           /\ OctetBits(s.profile) \in Seq(Bit) /\ OctetBits(0) \in Seq(Bit) /\ OctetBits(30) \in Seq(Bit)
           /\ 0 \in Byte /\ 30 \in Byte /\ s.profile \in Byte /\ 0 \in SmallNumbers /\ 4 \in SmallNumbers
<1>1. 0 \in Byte /\ 30 \in Byte /\ s.profile \in Byte
  BY ByteIs DEF Describable
<1>2. OctetBits(s.profile) \in Seq(Bit) /\ OctetBits(0) \in Seq(Bit) /\ OctetBits(30) \in Seq(Bit)
  BY ONLY <1>1, OctetIs
<1>3. 0 \in SmallNumbers /\ 4 \in SmallNumbers
  BY DEF SmallNumbers
<1>4. UeCode(0) \in Seq(Bit) /\ UeCode(4) \in Seq(Bit)
  BY ONLY <1>3, SmallIsCodable
<1>5. ProfileBits(s) \in Seq(Bit)
  <2> DEFINE lists == s.lists
  <2>1. lists \in Seq(Forms) /\ s.lists = lists /\ s.chroma \in 0..3 /\ s.plane \in Bit
    BY DEF Describable
  <2> HIDE DEF lists
  <2>2. ChromaBits(s) \in Seq(Bit)
    BY ONLY <2>1, ChromaCodes
  <2> QED
    BY <2>2, NothingIsBits DEF ProfileBits
<1>6. OrderBits(s) \in Seq(Bit)
  <2> DEFINE offsets == s.offsets
  <2>1. offsets \in Seq(Offsets) /\ s.offsets = offsets /\ Len(offsets) <= 255 /\ s.order \in 0..2
    BY DEF Describable
  <2> HIDE DEF offsets
  <2> QED
    BY ONLY <2>1, OrderCodes
<1>7. SizeBits(s) \in Seq(Bit)
  <2> DEFINE m == Mbs(s)[1] - 1
             n == Mbs(s)[2] - 1
             c == Crop(s)[1]
             d == Crop(s)[2]
  <2>1. Pictured(s) /\ m = Mbs(s)[1] - 1 /\ n = Mbs(s)[2] - 1 /\ c = Crop(s)[1] /\ d = Crop(s)[2]
    BY DEF Describable
  <2> HIDE DEF m, n, c, d
  <2> QED
    BY ONLY <2>1, SizeBitsAre
<1> QED
  BY <1>1, <1>2, <1>3, <1>4, <1>5, <1>6, <1>7, OneIs

\* What is left of an SPS from each of its parts on.
SpsParts(s, t1, t2, t3, t4, t5, t6, t7) ==
    /\ t7 = SizeBits(s) \o <<0>> /\ t6 = OrderBits(s) \o t7 /\ t5 = UeCode(4) \o t6
    /\ t4 = ProfileBits(s) \o t5 /\ t3 = UeCode(0) \o t4 /\ t2 = OctetBits(30) \o t3
    /\ t1 = OctetBits(0) \o t2

\* And so is the whole.
LEMMA SpsBitsAre ==
    ASSUME NEW s, NEW t1, NEW t2, NEW t3, NEW t4, NEW t5, NEW t6, NEW t7, Describable(s),
           SpsParts(s, t1, t2, t3, t4, t5, t6, t7)
    PROVE  /\ t7 \in Seq(Bit) /\ t6 \in Seq(Bit) /\ t5 \in Seq(Bit) /\ t4 \in Seq(Bit) /\ t3 \in Seq(Bit)
           /\ t2 \in Seq(Bit) /\ t1 \in Seq(Bit)
           /\ SpsBits(s) = OctetBits(s.profile) \o t1 /\ SpsBits(s) \in Seq(Bit)
<1>1. SpsBits(s) = OctetBits(s.profile) \o t1
  BY DEF SpsBits, ProfileBits, SpsParts
<1>2. \A a \in Seq(Bit), b \in Seq(Bit) : a \o b \in Seq(Bit)
  BY JoinTyped
<1> DEFINE size == SizeBits(s)
           order == OrderBits(s)
           four == UeCode(4)
           profile == ProfileBits(s)
           zero == UeCode(0)
           oc == OctetBits(30)
           ob == OctetBits(0)
           oa == OctetBits(s.profile)
           z == <<0>>
<1>3. /\ size \in Seq(Bit) /\ order \in Seq(Bit) /\ four \in Seq(Bit) /\ profile \in Seq(Bit)
      /\ zero \in Seq(Bit) /\ oc \in Seq(Bit) /\ ob \in Seq(Bit) /\ oa \in Seq(Bit) /\ z \in Seq(Bit)
  BY SpsCodes
<1>4. /\ t7 = size \o z /\ t6 = order \o t7 /\ t5 = four \o t6 /\ t4 = profile \o t5 /\ t3 = zero \o t4
      /\ t2 = oc \o t3 /\ t1 = ob \o t2 /\ SpsBits(s) = oa \o t1
  BY <1>1 DEF SpsParts
<1> HIDE DEF size, order, four, profile, zero, oc, ob, oa, z
<1>5. t7 \in Seq(Bit) /\ t6 \in Seq(Bit) /\ t5 \in Seq(Bit) /\ t4 \in Seq(Bit)
  BY ONLY <1>2, <1>3, <1>4
<1>6. t3 \in Seq(Bit) /\ t2 \in Seq(Bit) /\ t1 \in Seq(Bit) /\ SpsBits(s) \in Seq(Bit)
  BY ONLY <1>2, <1>3, <1>4, <1>5
<1> QED
  BY <1>1, <1>5, <1>6

\* The profile that a reader at p0 has read.
Profiled(bits, p0, s, v) == v = IF p0 <= Len(bits) + 1 THEN s.profile ELSE 0

\* The profile was read before p, where what it calls for begins.
ProfileThere(bits, p, p0, s, end, v, at) ==
    /\ bits \in Seq(Bit) /\ p \in Nat \ {0} /\ p0 \in Nat \ {0} /\ Describable(s) /\ p0 <= p
    /\ Fits(bits, p, ProfileBits(s)) /\ end = p + Len(ProfileBits(s))
    /\ at = Where(bits, p) /\ Profiled(bits, p0, s, v)

\* What it calls for is read, up to its end.
ProfileRead(bits, p, s, end, v, at) ==
    /\ ChromaPart(bits, v, at).at = Where(bits, end) /\ end \in Nat \ {0} /\ p <= end
    /\ end <= Len(bits) + 1 => ChromaPart(bits, v, at).value = s.chroma

\* What a profile has is read to its end, whether or not the bits go that far.
LEMMA ProfileIsRead ==
    ASSUME NEW bits, NEW p, NEW p0, NEW s, NEW end, NEW v, NEW at, ProfileThere(bits, p, p0, s, end, v, at)
    PROVE  ProfileRead(bits, p, s, end, v, at)
<1> SUFFICES ASSUME bits \in Seq(Bit), p \in Nat \ {0}, p0 \in Nat \ {0},
                    Describable(s), p0 <= p, Fits(bits, p, ProfileBits(s)), end = p + Len(ProfileBits(s)),
                    at = Where(bits, p), Profiled(bits, p0, s, v)
             PROVE  /\ ChromaPart(bits, v, at).at = Where(bits, end) /\ end \in Nat \ {0} /\ p <= end
                    /\ end <= Len(bits) + 1 => ChromaPart(bits, v, at).value = s.chroma
  BY DEF ProfileThere, ProfileRead
<1>0. Len(bits) \in Nat
  OBVIOUS
<1>v. v = IF p0 <= Len(bits) + 1 THEN s.profile ELSE 0
  BY DEF Profiled
<1>1. end \in Nat \ {0} /\ p <= end
  <2> DEFINE n == Len(ProfileBits(s))
  <2>1. n \in Nat
    BY SpsCodes
  <2>2. end = p + n
    OBVIOUS
  <2> HIDE DEF n
  <2> QED
    BY <2>1, <2>2
<1>2. CASE p0 <= Len(bits) + 1 /\ s.profile \in Profiles
  <2>1. ChromaPart(bits, v, at) = Chroma(bits, Where(bits, p))
    BY <1>v, <1>2 DEF ChromaPart
  <2> DEFINE lists == s.lists
  <2>2. /\ bits \in Seq(Bit) /\ p \in Nat \ {0} /\ lists \in Seq(Forms)
        /\ s.lists = lists /\ s.chroma \in 0..3 /\ s.plane \in Bit /\ Fits(bits, p, ChromaBits(s))
        /\ end = p + Len(ChromaBits(s))
    BY <1>2 DEF ProfileBits, Describable
  <2> HIDE DEF lists
  <2>3. /\ Chroma(bits, Where(bits, p)).at = Where(bits, end)
        /\ end <= Len(bits) + 1 => Chroma(bits, Where(bits, p)).value = s.chroma
    BY ONLY <2>2, ChromaIs
  <2> QED
    BY <1>1, <2>1, <2>3
<1>3. CASE s.profile \notin Profiles
  <2>1. v \notin Profiles
    BY <1>v, <1>3 DEF Profiles
  <2>2. ChromaPart(bits, v, at) = [value |-> 1, at |-> at]
    BY <2>1 DEF ChromaPart
  <2>3. end = p /\ s.chroma = 1
    BY <1>3, NothingIsBits DEF ProfileBits, Describable
  <2> QED
    BY <1>1, <2>2, <2>3
<1>4. CASE ~(p0 <= Len(bits) + 1)
  <2>1. v \notin Profiles
    BY <1>v, <1>4 DEF Profiles
  <2>2. ChromaPart(bits, v, at) = [value |-> 1, at |-> at]
    BY <2>1 DEF ChromaPart
  <2>3. ~(p <= Len(bits) + 1) /\ ~(end <= Len(bits) + 1)
    BY ONLY <1>0, <1>1, <1>4, p \in Nat \ {0}, p0 \in Nat \ {0}, p0 <= p
  <2>4. at = Where(bits, end)
    BY <2>3 DEF Where
  <2> QED
    BY <1>1, <2>2, <2>3, <2>4
<1> QED
  BY <1>2, <1>3, <1>4

\* The size that the bits of an SPS say.
SizeOf(bits) ==
    LET profile == U(bits, 1, 8)
        level == U(bits, U(bits, profile.at, 8).at, 8)
        id == Ue(bits, level.at)
        chroma == ChromaPart(bits, profile.value, id.at)
    IN  SizeAt(bits, chroma.value, AfterOrder(bits, Ue(bits, chroma.at).at))

\* Bits that begin an SPS say the size that is in it, and no other when they end before it.
LEMMA SizeOfIs ==
    ASSUME NEW bits \in Seq(Bit), NEW s, Describable(s), Fits(bits, 1, SpsBits(s))
    PROVE  /\ SizeOf(bits) \in {s.pixels, NoSize}
           /\ Len(bits) >= Len(SpsBits(s)) => SizeOf(bits) = s.pixels
<1> DEFINE t7 == SizeBits(s) \o <<0>>
           t6 == OrderBits(s) \o t7
           t5 == UeCode(4) \o t6
           t4 == ProfileBits(s) \o t5
           t3 == UeCode(0) \o t4
           t2 == OctetBits(30) \o t3
           t1 == OctetBits(0) \o t2
           p0 == 1
           end == p0 + Len(SpsBits(s))
           p1 == p0 + 8
           p2 == p1 + 8
           p3 == p2 + 8
           p4 == p3 + Len(UeCode(0))
           p5 == p4 + Len(ProfileBits(s))
           p6 == p5 + Len(UeCode(4))
           p7 == p6 + Len(OrderBits(s))
           p8 == p7 + Len(SizeBits(s))
           profile == U(bits, p0, 8)
           a1 == profile.at
           middle == U(bits, a1, 8)
           a2 == middle.at
           level == U(bits, a2, 8)
           a3 == level.at
           id == Ue(bits, a3)
           a4 == id.at
           v == profile.value
           chroma == ChromaPart(bits, v, a4)
           a5 == chroma.at
           bit == Ue(bits, a5)
           a6 == bit.at
           a7 == AfterOrder(bits, a6)
<1>0. SizeOf(bits) = SizeAt(bits, chroma.value, a7)
  BY DEF SizeOf
<1>1. /\ t7 = SizeBits(s) \o <<0>> /\ t6 = OrderBits(s) \o t7 /\ t5 = UeCode(4) \o t6
      /\ t4 = ProfileBits(s) \o t5 /\ t3 = UeCode(0) \o t4 /\ t2 = OctetBits(30) \o t3
      /\ t1 = OctetBits(0) \o t2
  OBVIOUS
<1>2. /\ p0 = 1 /\ end = p0 + Len(SpsBits(s)) /\ p1 = p0 + 8 /\ p2 = p1 + 8 /\ p3 = p2 + 8
      /\ p4 = p3 + Len(UeCode(0)) /\ p5 = p4 + Len(ProfileBits(s)) /\ p6 = p5 + Len(UeCode(4))
      /\ p7 = p6 + Len(OrderBits(s)) /\ p8 = p7 + Len(SizeBits(s))
  OBVIOUS
<1>3. /\ profile = U(bits, p0, 8) /\ middle = U(bits, a1, 8) /\ level = U(bits, a2, 8) /\ id = Ue(bits, a3)
      /\ chroma = ChromaPart(bits, v, a4) /\ bit = Ue(bits, a5) /\ a7 = AfterOrder(bits, a6)
  OBVIOUS
<1> HIDE DEF t1, t2, t3, t4, t5, t6, t7, p0, p1, p2, p3, p4, p5, p6, p7, p8, end
<1>4. /\ t7 \in Seq(Bit) /\ t6 \in Seq(Bit) /\ t5 \in Seq(Bit) /\ t4 \in Seq(Bit) /\ t3 \in Seq(Bit)
      /\ t2 \in Seq(Bit) /\ t1 \in Seq(Bit)
      /\ SpsBits(s) = OctetBits(s.profile) \o t1 /\ SpsBits(s) \in Seq(Bit)
  <2>1. Describable(s) /\ SpsParts(s, t1, t2, t3, t4, t5, t6, t7)
    BY <1>1 DEF SpsParts
  <2> QED
    BY ONLY <2>1, SpsBitsAre
<1> DEFINE pb == s.profile
           b2 == 0
           b3 == 30
           n4 == 4
<1>5. /\ pb \in Byte /\ b2 \in Byte /\ b3 \in Byte /\ b2 \in SmallNumbers /\ n4 \in SmallNumbers
      /\ t5 = UeCode(n4) \o t6 /\ t3 = UeCode(b2) \o t4 /\ t2 = OctetBits(b3) \o t3
      /\ t1 = OctetBits(b2) \o t2 /\ p4 = p3 + Len(UeCode(b2)) /\ p6 = p5 + Len(UeCode(n4))
  BY <1>1, <1>2, SpsCodes
<1>p. ProfileBits(s) \in Seq(Bit) /\ OrderBits(s) \in Seq(Bit) /\ SizeBits(s) \in Seq(Bit) /\ <<0>> \in Seq(Bit)
  BY SpsCodes
<1>6. p0 = Where(bits, p0) /\ p0 \in Nat \ {0} /\ Len(bits) \in Nat
  BY <1>2, SMTT(30) DEF Where
<1>7. Fits(bits, p0, OctetBits(pb) \o t1) /\ end = p0 + Len(OctetBits(pb) \o t1)
  BY <1>2, <1>4
<1> HIDE DEF profile, middle, level, id, chroma, bit, pb, b2, b3, n4
<1>8. /\ profile = Field(bits, p1, pb) /\ p1 \in Nat \ {0} /\ profile.at = Where(bits, p1) /\ p0 <= p1
      /\ Fits(bits, p1, t1) /\ end = p1 + Len(t1) /\ p1 <= end
  <2>1. /\ bits \in Seq(Bit) /\ p0 \in Nat \ {0} /\ pb \in Byte /\ t1 \in Seq(Bit)
        /\ Fits(bits, p0, OctetBits(pb) \o t1) /\ end = p0 + Len(OctetBits(pb) \o t1) /\ p0 = Where(bits, p0)
        /\ profile = U(bits, p0, 8) /\ p1 = p0 + 8
    BY <1>2, <1>3, <1>4, <1>5, <1>6, <1>7
  <2> QED
    BY ONLY <2>1, OctetThen
<1>9. /\ middle = Field(bits, p2, b2) /\ p2 \in Nat \ {0} /\ middle.at = Where(bits, p2) /\ p1 <= p2
      /\ Fits(bits, p2, t2) /\ end = p2 + Len(t2) /\ p2 <= end
  <2>1. /\ bits \in Seq(Bit) /\ p1 \in Nat \ {0} /\ b2 \in Byte /\ t2 \in Seq(Bit)
        /\ Fits(bits, p1, OctetBits(b2) \o t2) /\ end = p1 + Len(OctetBits(b2) \o t2) /\ a1 = Where(bits, p1)
        /\ middle = U(bits, a1, 8) /\ p2 = p1 + 8
    BY <1>2, <1>3, <1>4, <1>5, <1>8, SMTT(30)
  <2> HIDE DEF a1
  <2> QED
    BY ONLY <2>1, OctetThen, SMTT(30)
<1>10. /\ level = Field(bits, p3, b3) /\ p3 \in Nat \ {0} /\ level.at = Where(bits, p3) /\ p2 <= p3
       /\ Fits(bits, p3, t3) /\ end = p3 + Len(t3) /\ p3 <= end
  <2>1. /\ bits \in Seq(Bit) /\ p2 \in Nat \ {0} /\ b3 \in Byte /\ t3 \in Seq(Bit)
        /\ Fits(bits, p2, OctetBits(b3) \o t3) /\ end = p2 + Len(OctetBits(b3) \o t3) /\ a2 = Where(bits, p2)
        /\ level = U(bits, a2, 8) /\ p3 = p2 + 8
    BY <1>2, <1>3, <1>4, <1>5, <1>9
  <2> HIDE DEF a2
  <2> QED
    BY ONLY <2>1, OctetThen
<1>11. /\ id = Field(bits, p4, b2) /\ p4 \in Nat \ {0} /\ id.at = Where(bits, p4) /\ p3 <= p4
       /\ Fits(bits, p4, t4) /\ end = p4 + Len(t4) /\ p4 <= end
  <2>1. /\ bits \in Seq(Bit) /\ p3 \in Nat \ {0} /\ b2 \in SmallNumbers /\ t4 \in Seq(Bit)
        /\ Fits(bits, p3, UeCode(b2) \o t4) /\ end = p3 + Len(UeCode(b2) \o t4) /\ a3 = Where(bits, p3)
        /\ id = Ue(bits, a3) /\ p4 = p3 + Len(UeCode(b2))
    BY <1>2, <1>3, <1>4, <1>5, <1>10
  <2> HIDE DEF a3
  <2> QED
    BY ONLY <2>1, UeThen, SMTT(30)
<1>12. /\ Fits(bits, p4, ProfileBits(s)) /\ Fits(bits, p5, t5) /\ p5 \in Nat \ {0} /\ p4 <= p5
       /\ end = p5 + Len(t5) /\ p5 <= end
  <2> DEFINE code == ProfileBits(s)
  <2>1. /\ code \in Seq(Bit) /\ t5 \in Seq(Bit) /\ p4 \in Nat \ {0} /\ Fits(bits, p4, code \o t5)
        /\ end = p4 + Len(code \o t5) /\ p5 = p4 + Len(code)
    BY <1>1, <1>2, <1>4, <1>11, <1>p
  <2> HIDE DEF code
  <2>2. /\ Fits(bits, p4, code) /\ Fits(bits, p5, t5) /\ p5 \in Nat \ {0} /\ p4 <= p5
        /\ end = p5 + Len(t5) /\ p5 <= end
    BY ONLY <2>1, Joined
  <2> QED
    BY <2>2, SMTT(30) DEF code
<1>13. /\ chroma.at = Where(bits, p5)
       /\ p5 <= Len(bits) + 1 => chroma.value = s.chroma
  <2>0. p1 <= p4
    <3>1. p1 \in Nat /\ p2 \in Nat /\ p3 \in Nat /\ p4 \in Nat
      BY <1>8, <1>9, <1>10, <1>11
    <3>2. p1 <= p2 /\ p2 <= p3 /\ p3 <= p4
      BY <1>9, <1>10, <1>11
    <3> QED
      BY ONLY <3>1, <3>2
  <2>1. Profiled(bits, p1, s, v)
    BY <1>8 DEF Field, pb, Profiled
  <2>2. /\ bits \in Seq(Bit) /\ p4 \in Nat \ {0} /\ p1 \in Nat \ {0} /\ Describable(s) /\ p1 <= p4
        /\ Fits(bits, p4, ProfileBits(s)) /\ p5 = p4 + Len(ProfileBits(s)) /\ a4 = Where(bits, p4)
        /\ Profiled(bits, p1, s, v)
    BY <1>2, <1>8, <1>11, <1>12, <2>0, <2>1
  <2> HIDE DEF v, a4
  <2>3. ProfileThere(bits, p4, p1, s, p5, v, a4)
    BY ONLY <2>2 DEF ProfileThere
  <2>4. ProfileRead(bits, p4, s, p5, v, a4)
    BY ONLY <2>3, ProfileIsRead
  <2> QED
    BY <1>3, <2>4 DEF ProfileRead
<1>14. /\ bit = Field(bits, p6, n4) /\ p6 \in Nat \ {0} /\ bit.at = Where(bits, p6) /\ p5 <= p6
       /\ Fits(bits, p6, t6) /\ end = p6 + Len(t6) /\ p6 <= end
  <2>1. /\ bits \in Seq(Bit) /\ p5 \in Nat \ {0} /\ n4 \in SmallNumbers /\ t6 \in Seq(Bit)
        /\ Fits(bits, p5, UeCode(n4) \o t6) /\ end = p5 + Len(UeCode(n4) \o t6) /\ a5 = Where(bits, p5)
        /\ bit = Ue(bits, a5) /\ p6 = p5 + Len(UeCode(n4))
    BY <1>3, <1>4, <1>5, <1>12, <1>13
  <2> HIDE DEF a5
  <2> QED
    BY ONLY <2>1, UeThen
<1>15. /\ Fits(bits, p6, OrderBits(s)) /\ Fits(bits, p7, t7) /\ p7 \in Nat \ {0} /\ p6 <= p7
       /\ end = p7 + Len(t7) /\ p7 <= end
  <2> DEFINE code == OrderBits(s)
  <2>1. /\ code \in Seq(Bit) /\ t7 \in Seq(Bit) /\ p6 \in Nat \ {0} /\ Fits(bits, p6, code \o t7)
        /\ end = p6 + Len(code \o t7) /\ p7 = p6 + Len(code)
    BY <1>1, <1>2, <1>4, <1>14, <1>p
  <2> HIDE DEF code
  <2>2. /\ Fits(bits, p6, code) /\ Fits(bits, p7, t7) /\ p7 \in Nat \ {0} /\ p6 <= p7
        /\ end = p7 + Len(t7) /\ p7 <= end
    BY ONLY <2>1, Joined
  <2> QED
    BY <2>2, SMTT(30) DEF code
<1>16. a7 = Where(bits, p7)
  <2> DEFINE offsets == s.offsets
  <2>1. /\ bits \in Seq(Bit) /\ p6 \in Nat \ {0} /\ offsets \in Seq(Offsets)
        /\ s.offsets = offsets /\ Len(offsets) <= 255 /\ s.order \in 0..2
        /\ Fits(bits, p6, OrderBits(s)) /\ p7 = p6 + Len(OrderBits(s))
    BY <1>2, <1>14, <1>15 DEF Describable
  <2> HIDE DEF offsets
  <2>2. AfterOrder(bits, Where(bits, p6)) = Where(bits, p7)
    BY ONLY <2>1, OrderIs, SMTT(30)
  <2> QED
    BY <1>14, <2>2
<1>17. /\ Fits(bits, p7, SizeBits(s)) /\ p8 \in Nat \ {0} /\ p7 <= p8 /\ p8 <= end /\ end \in Nat
  <2> DEFINE code == SizeBits(s)
             z == <<0>>
  <2>1. /\ code \in Seq(Bit) /\ z \in Seq(Bit) /\ p7 \in Nat \ {0} /\ Fits(bits, p7, code \o z)
        /\ end = p7 + Len(code \o z) /\ p8 = p7 + Len(code)
    BY <1>1, <1>2, <1>4, <1>15, <1>p
  <2> HIDE DEF code, z
  <2>2. /\ Fits(bits, p7, code) /\ p8 \in Nat \ {0} /\ p7 <= p8 /\ end \in Nat \ {0} /\ p8 <= end
    BY ONLY <2>1, Joined
  <2> QED
    BY <2>2 DEF code
<1> DEFINE c == chroma.value
<1>18. SizeOf(bits) = IF p8 <= Len(bits) + 1 THEN s.pixels ELSE NoSize
  <2>1. p8 <= Len(bits) + 1 => p5 <= Len(bits) + 1
    <3>1. p5 <= p6 /\ p6 <= p7 /\ p7 <= p8
      BY <1>14, <1>15, <1>17
    <3>2. p5 \in Nat /\ p6 \in Nat /\ p7 \in Nat /\ p8 \in Nat
      BY <1>12, <1>14, <1>15, <1>17
    <3> QED
      BY ONLY <1>6, <3>1, <3>2
  <2>2. /\ bits \in Seq(Bit) /\ p7 \in Nat \ {0} /\ Pictured(s) /\ Fits(bits, p7, SizeBits(s))
        /\ p8 = p7 + Len(SizeBits(s)) /\ (p8 <= Len(bits) + 1 => c = s.chroma)
    BY <1>2, <1>13, <1>15, <1>17, <2>1 DEF Describable
  <2>4. SizeOf(bits) = SizeAt(bits, c, Where(bits, p7))
    BY <1>0, <1>16
  <2> HIDE DEF c
  <2>3. SizeAt(bits, c, Where(bits, p7)) = IF p8 <= Len(bits) + 1 THEN s.pixels ELSE NoSize
    BY ONLY <2>2, PixelsAreRead
  <2> QED
    BY ONLY <2>3, <2>4
<1>19. Len(bits) >= Len(SpsBits(s)) => p8 <= Len(bits) + 1
  <2> DEFINE n == Len(SpsBits(s))
             m == Len(bits)
  <2>1. end = 1 + n /\ n \in Nat /\ m \in Nat /\ p8 <= end /\ p8 \in Nat
    <3>1. n \in Nat
      BY <1>4
    <3>2. end = 1 + n
      BY <1>2
    <3> QED
      BY ONLY <1>6, <1>17, <3>1, <3>2 DEF m
  <2> HIDE DEF n, m
  <2>2. m >= n => p8 <= m + 1
    BY ONLY <2>1
  <2> QED
    BY <2>2 DEF n, m
<1> HIDE DEF c
<1> QED
  BY ONLY <1>18, <1>19

-----------------------------------------------------------------------------
(* The bytes of a unit without the encoder's escapes.                      *)

\* Where unescape is after data.
TakeStates == [out : Seq(Byte), zeros : Nat]

Taken(data) ==
    LET upTo[i \in 0 .. Len(data)] ==
            IF i = 0 THEN [out |-> <<>>, zeros |-> 0] ELSE TakeByte(upTo[i - 1], data[i])
    IN  upTo[Len(data)]

TakeStep(data) == [a \in TakeStates \X (1..Len(data)) |-> TakeByte(a[1], data[a[2]])]

\* A byte is taken or dropped.
LEMMA TakeByteIs ==
    ASSUME NEW s \in TakeStates, NEW b \in Byte
    PROVE  TakeByte(s, b) \in TakeStates
<1> DEFINE o == s.out
           z == s.zeros
<1>1. o \in Seq(Byte) /\ z \in Nat /\ s = [out |-> o, zeros |-> z]
  BY DEF TakeStates
<1>2. Append(o, b) \in Seq(Byte)
  <2> HIDE DEF o
  <2> QED
    BY <1>1, OneMoreIs
<1>3. TakeByte(s, b) = IF z = 2 /\ b = 3 THEN [out |-> o, zeros |-> 0]
                       ELSE [out |-> Append(o, b), zeros |-> IF b = 0 THEN z + 1 ELSE 0]
  <2> HIDE DEF o, z
  <2>1. s.zeros = z /\ s.out = o
    BY DEF o, z
  <2>2. [s EXCEPT !.zeros = 0] = [out |-> o, zeros |-> 0]
    BY <1>1
  <2> QED
    BY <2>1, <2>2 DEF TakeByte
<1> HIDE DEF o, z
<1> DEFINE y == IF b = 0 THEN z + 1 ELSE 0
<1>4. y \in Nat
  BY <1>1
<1> HIDE DEF y
<1>5. [out |-> o, zeros |-> 0] \in TakeStates /\ [out |-> Append(o, b), zeros |-> y] \in TakeStates
  BY <1>1, <1>2, <1>4 DEF TakeStates
<1> QED
  BY <1>3, <1>5 DEF y

\* Byte after byte.
LEMMA TakenRecurs ==
    ASSUME NEW data \in Seq(Byte)
    PROVE  \E f : /\ f \in [0..Len(data) -> TakeStates] /\ f[0] = NothingOut
                  /\ \A i \in 1..Len(data) : f[i] = TakeByte(f[i - 1], data[i])
                  /\ Taken(data) = f[Len(data)]
<1> DEFINE n == Len(data)
           Is(g) == g = [i \in 0..n |-> IF i = 0 THEN [out |-> <<>>, zeros |-> 0] ELSE TakeByte(g[i - 1], data[i])]
           f == CHOOSE g : Is(g)
           step == TakeStep(data)
<1>1. n \in Nat /\ NothingOut \in TakeStates /\ \A i \in 1..n : data[i] \in Byte
  BY DEF NothingOut, TakeStates
<1>2. step \in [TakeStates \X (1..n) -> TakeStates]
  <2>1. \A a \in TakeStates \X (1..n) : TakeByte(a[1], data[a[2]]) \in TakeStates
    BY <1>1, TakeByteIs
  <2> QED
    BY <2>1 DEF TakeStep
<1>3. \A s \in TakeStates, i \in 1..n : step[<<s, i>>] = TakeByte(s, data[i])
  BY DEF TakeStep
<1> HIDE DEF step
<1>4. PICK g : Recurs(g, TakeStates, NothingOut, n, step)
  <2> HIDE DEF n
  <2> QED
    BY <1>1, <1>2, SomeRecursion
<1>5. Is(g)
  <2>1. g = [i \in 0..n |-> g[i]] /\ g[0] = NothingOut
    BY <1>4 DEF Recurs
  <2>2. ASSUME NEW i \in 0..n, i # 0 PROVE g[i] = TakeByte(g[i - 1], data[i])
    <3>1. i \in 1..n /\ i - 1 \in 0..n
      BY <2>2, <1>1
    <3>2. g[i] = step[<<g[i - 1], i>>] /\ g[i - 1] \in TakeStates
      BY <3>1, <1>4 DEF Recurs
    <3> QED
      BY <3>1, <3>2, <1>3
  <2> HIDE DEF n
  <2> QED
    BY <2>1, <2>2 DEF NothingOut
<1>6. Is(f)
  <2> HIDE DEF Is
  <2> QED
    BY <1>5
<1>7. Taken(data) = f[n]
  BY DEF Taken
<1> HIDE DEF f
<1>8. DOMAIN f = 0..n /\ f = [i \in DOMAIN f |-> f[i]] /\ f[0] = NothingOut
  BY <1>6, <1>1 DEF NothingOut
<1>9. \A i \in 1..n : f[i] = TakeByte(f[i - 1], data[i])
  <2> SUFFICES ASSUME NEW i \in 1..n PROVE f[i] = TakeByte(f[i - 1], data[i])
    OBVIOUS
  <2>1. i \in 0..n /\ i # 0
    BY <1>1
  <2> HIDE DEF n
  <2> QED
    BY <1>6, <2>1
<1> HIDE DEF n, Is
<1>10. Recurs(f, TakeStates, NothingOut, n, step)
  <2>1. \A i \in 1..n : f[i - 1] \in TakeStates => f[i] = step[<<f[i - 1], i>>]
    BY <1>3, <1>9
  <2> QED
    BY <1>1, <1>2, <1>8, <2>1, ItRecurs
<1> QED
  BY <1>7, <1>9, <1>10 DEF Recurs, n

\* One byte more is one step more.
LEMMA OneByteMore ==
    ASSUME NEW s \in Seq(Byte), NEW b \in Byte
    PROVE  /\ Taken(s) \in TakeStates /\ Taken(Append(s, b)) = TakeByte(Taken(s), b)
           /\ Unescape(s) = Taken(s).out
<1> DEFINE n == Len(s)
           t == Append(s, b)
<1>1. /\ t \in Seq(Byte) /\ Len(t) = n + 1 /\ n \in Nat /\ t[n + 1] = b
      /\ \A i \in 1..n : t[i] = s[i]
  BY OneMoreIs
<1> HIDE DEF t
<1>2. PICK f : /\ f \in [0..n -> TakeStates] /\ f[0] = NothingOut
               /\ \A i \in 1..n : f[i] = TakeByte(f[i - 1], s[i])
               /\ Taken(s) = f[n]
  BY TakenRecurs
<1>3. PICK g : /\ g \in [0..(n + 1) -> TakeStates] /\ g[0] = NothingOut
               /\ \A i \in 1..(n + 1) : g[i] = TakeByte(g[i - 1], t[i])
               /\ Taken(t) = g[n + 1]
  <2>1. \E g : /\ g \in [0..Len(t) -> TakeStates] /\ g[0] = NothingOut
               /\ \A i \in 1..Len(t) : g[i] = TakeByte(g[i - 1], t[i])
               /\ Taken(t) = g[Len(t)]
    BY <1>1, TakenRecurs
  <2> QED
    BY <2>1, <1>1
<1> HIDE DEF n
<1> DEFINE T == {i \in 0..n : f[i] = g[i]}
<1>4. 0 \in T
  BY <1>1, <1>2, <1>3
<1>5. \A i \in 1..n : i - 1 \in T => i \in T
  <2> SUFFICES ASSUME NEW i \in 1..n, f[i - 1] = g[i - 1] PROVE i \in T
    OBVIOUS
  <2>1. i \in 0..n /\ i \in 1..(n + 1)
    BY <1>1
  <2>2. f[i] = TakeByte(f[i - 1], s[i]) /\ g[i] = TakeByte(g[i - 1], t[i]) /\ t[i] = s[i]
    BY <2>1, <1>1, <1>2, <1>3
  <2> QED
    BY <2>1, <2>2
<1>6. f[n] = g[n]
  <2> HIDE DEF T
  <2>1. 0..n \subseteq T
    BY <1>1, <1>4, <1>5, FirstNumbers
  <2>2. n \in T
    BY <1>1, <2>1
  <2> QED
    BY <2>2 DEF T
<1>7. n + 1 \in 1..(n + 1) /\ (n + 1) - 1 = n /\ n \in 0..n
  BY <1>1
<1>8. g[n + 1] = TakeByte(g[n], b)
  BY <1>1, <1>3, <1>7
<1>9. f[n] \in TakeStates
  BY <1>2, <1>7
<1>10. Unescape(s) = Taken(s).out
  BY DEF Unescape, Taken
<1> QED
  BY <1>2, <1>3, <1>6, <1>8, <1>9, <1>10 DEF t

\* Nothing taken is nothing.
LEMMA NothingTaken == Taken(<<>>) = NothingOut /\ Unescape(<<>>) = <<>>
<1> DEFINE e == <<>>
<1>1. e \in Seq(Byte) /\ Len(e) = 0
  OBVIOUS
<1>2. Unescape(e) = Taken(e).out
  BY DEF Unescape, Taken
<1> HIDE DEF e
<1>3. Taken(e) = NothingOut
  BY <1>1, TakenRecurs
<1>4. Unescape(e) = <<>>
  BY <1>2, <1>3 DEF NothingOut
<1> QED
  BY <1>3, <1>4 DEF e

\* What the encoder puts before a byte is dropped again, and the byte is taken.
LEMMA PutIsTaken ==
    ASSUME NEW s \in Escapes, NEW b \in Byte, NEW d \in Seq(Byte),
           Taken(s.out) = [out |-> d, zeros |-> s.zeros]
    PROVE  /\ Taken(Put(s, b).out) = [out |-> Append(d, b), zeros |-> Put(s, b).zeros]
           /\ s.out \in Seq(Byte) /\ Append(s.out, 3) \in Seq(Byte)
           /\ Put(s, b).out \in {Append(s.out, b), Append(Append(s.out, 3), b)}
           /\ Put(s, b).out = Append(Append(s.out, 3), b) => Unescape(Append(s.out, 3)) = d
<1> DEFINE o == s.out
           z == s.zeros
<1>1. o \in Seq(Byte) /\ z \in Nat /\ z <= 2 /\ 3 \in Byte
  BY ByteIs DEF Escapes
<1>0. Taken(o) = [out |-> d, zeros |-> z]
  OBVIOUS
<1>b. b \in Nat
  BY ByteIs
<1> DEFINE o3 == Append(o, 3)
<1>2. o3 \in Seq(Byte) /\ Taken(o3) = TakeByte(Taken(o), 3)
  <2> HIDE DEF o
  <2> QED
    BY <1>1, OneMoreIs, OneByteMore
<1>3. CASE z = 2 /\ b <= 3
  <2> DEFINE y == IF b = 0 THEN 1 ELSE 0
             j == o \o <<3, b>>
  <2>1. Put(s, b) = [out |-> j, zeros |-> y]
    BY <1>3 DEF Put
  <2>2. j = Append(o3, b)
    <3> HIDE DEF o
    <3> QED
      BY <1>1
  <2>3. Taken(o3) = [out |-> d, zeros |-> 0]
    <3> DEFINE q == [out |-> d, zeros |-> z]
    <3>1. q.zeros = 2 /\ [q EXCEPT !.zeros = 0] = [out |-> d, zeros |-> 0]
      BY <1>3
    <3>2. TakeByte(q, 3) = [out |-> d, zeros |-> 0]
      BY <3>1 DEF TakeByte
    <3> QED
      BY <1>0, <1>2, <3>2
  <2>4. Taken(Append(o3, b)) = TakeByte(Taken(o3), b) /\ Unescape(o3) = Taken(o3).out
    <3> HIDE DEF o3
    <3> QED
      BY <1>2, OneByteMore
  <2>5. TakeByte([out |-> d, zeros |-> 0], b) = [out |-> Append(d, b), zeros |-> y]
    BY DEF TakeByte
  <2> HIDE DEF o3, y, j
  <2>6. Put(s, b).out = Append(o3, b) /\ Put(s, b).zeros = y
    BY <2>1, <2>2
  <2>7. Taken(Put(s, b).out) = [out |-> Append(d, b), zeros |-> y]
    BY <2>3, <2>4, <2>5, <2>6
  <2>8. Unescape(o3) = d
    BY <2>3, <2>4
  <2> QED
    BY <1>1, <1>2, <2>6, <2>7, <2>8 DEF o3
<1>4. CASE ~(z = 2 /\ b <= 3)
  <2> DEFINE y == IF b = 0 THEN z + 1 ELSE 0
  <2>1. Put(s, b) = [out |-> Append(o, b), zeros |-> y]
    BY <1>4 DEF Put
  <2>2. Taken(Append(o, b)) = TakeByte(Taken(o), b)
    <3> HIDE DEF o
    <3> QED
      BY <1>1, OneByteMore
  <2>3. TakeByte([out |-> d, zeros |-> z], b) = [out |-> Append(d, b), zeros |-> y]
    <3>1. ~(z = 2 /\ b = 3)
      BY <1>4
    <3> HIDE DEF z
    <3> QED
      BY <3>1 DEF TakeByte
  <2>4. Append(o, b) # Append(o3, b)
    <3>1. Len(Append(o, b)) = Len(o) + 1 /\ Len(Append(o3, b)) = Len(o) + 2 /\ Len(o) \in Nat
      <4> HIDE DEF o
      <4> QED
        BY <1>1
    <3> HIDE DEF o, o3
    <3> QED
      BY <3>1
  <2> HIDE DEF o3, y
  <2>5. Put(s, b).out = Append(o, b) /\ Put(s, b).zeros = y
    BY <2>1
  <2>6. Taken(Put(s, b).out) = [out |-> Append(d, b), zeros |-> y]
    BY <1>0, <2>2, <2>3, <2>5
  <2> QED
    BY <1>1, <1>2, <2>4, <2>5, <2>6 DEF o3
<1> QED
  BY <1>3, <1>4

-----------------------------------------------------------------------------
(* The beginnings of a sequence.                                           *)

\* The first n of a sequence.
LEMMA StartIs ==
    ASSUME NEW S, NEW s \in Seq(S), NEW n \in Nat, n <= Len(s)
    PROVE  /\ SubSeq(s, 1, n) \in Seq(S) /\ Len(SubSeq(s, 1, n)) = n /\ Len(s) \in Nat
           /\ \A i \in 1..n : SubSeq(s, 1, n)[i] = s[i]
<1> DEFINE m == 1
<1>1. m \in Nat \ {0} /\ m <= n + 1 /\ m = 1 /\ Len(s) \in Nat
  OBVIOUS
<1> HIDE DEF m
<1>2. /\ SubSeq(s, m, n) \in Seq(S) /\ Len(SubSeq(s, m, n)) = n - m + 1
      /\ \A i \in 1..(n - m + 1) : SubSeq(s, m, n)[i] = s[m + i - 1] /\ m + i - 1 \in 1..Len(s)
  BY <1>1, PartIs
<1> DEFINE p == SubSeq(s, m, n)
<1>3. p \in Seq(S) /\ Len(p) = n /\ \A i \in 1..n : p[i] = s[i]
  BY <1>1, <1>2
<1> QED
  BY <1>1, <1>3

\* The first n + 1 of a sequence are the first n and one more.
LEMMA StartMore ==
    ASSUME NEW S, NEW s \in Seq(S), NEW n \in Nat, n < Len(s)
    PROVE  SubSeq(s, 1, n + 1) = Append(SubSeq(s, 1, n), s[n + 1]) /\ s[n + 1] \in S
<1> DEFINE a == SubSeq(s, 1, n)
           b == SubSeq(s, 1, n + 1)
           e == s[n + 1]
           c == Append(a, e)
<1>1. n <= Len(s) /\ n + 1 \in Nat /\ n + 1 <= Len(s) /\ e \in S
  OBVIOUS
<1>2. a \in Seq(S) /\ Len(a) = n /\ \A i \in 1..n : a[i] = s[i]
  BY <1>1, StartIs
<1>3. b \in Seq(S) /\ Len(b) = n + 1 /\ \A i \in 1..(n + 1) : b[i] = s[i]
  BY <1>1, StartIs
<1> HIDE DEF a, b
<1>4. c \in Seq(S) /\ Len(c) = n + 1 /\ c[n + 1] = e /\ \A i \in 1..n : c[i] = a[i]
  BY <1>1, <1>2, OneMoreIs
<1>5. \A i \in 1..Len(b) : b[i] = c[i]
  <2> HIDE DEF c
  <2> QED
    BY <1>2, <1>3, <1>4, SMTT(30)
<1> HIDE DEF c
<1>6. b = c
  BY <1>3, <1>4, <1>5, SameSeq
<1> QED
  BY <1>1, <1>6 DEF a, b, c

\* The first n of a sequence stay so when it grows.
LEMMA StartOfMore ==
    ASSUME NEW S, NEW s \in Seq(S), NEW e \in S, NEW n \in Nat, n <= Len(s)
    PROVE  SubSeq(Append(s, e), 1, n) = SubSeq(s, 1, n)
<1> DEFINE t == Append(s, e)
           a == SubSeq(t, 1, n)
           b == SubSeq(s, 1, n)
<1>1. t \in Seq(S) /\ Len(t) = Len(s) + 1 /\ Len(s) \in Nat /\ \A i \in 1..Len(s) : t[i] = s[i]
  BY OneMoreIs
<1> HIDE DEF t
<1>2. a \in Seq(S) /\ Len(a) = n /\ \A i \in 1..n : a[i] = t[i]
  <2>1. n <= Len(t)
    BY <1>1
  <2> QED
    BY <1>1, <2>1, StartIs
<1>3. b \in Seq(S) /\ Len(b) = n /\ \A i \in 1..n : b[i] = s[i]
  BY StartIs
<1> HIDE DEF a, b
<1>4. \A i \in 1..Len(a) : a[i] = b[i]
  BY <1>1, <1>2, <1>3, SMTT(30)
<1>5. a = b
  BY <1>2, <1>3, <1>4, SameSeq
<1> QED
  BY <1>5 DEF a, b, t

\* All of a sequence, and nothing of it, are beginnings of it.
LEMMA WholeStart ==
    ASSUME NEW S, NEW s \in Seq(S)
    PROVE  SubSeq(s, 1, Len(s)) = s /\ SubSeq(s, 1, 0) = <<>>
  OBVIOUS

-----------------------------------------------------------------------------

\* What is left after unescape of a beginning of an escaped unit is a beginning of the unit.
CutBack(data, i, o) ==
    \A n \in Nat : n <= Len(o) =>
        \E k \in Nat : k <= i /\ Unescape(SubSeq(o, 1, n)) = SubSeq(data, 1, k) /\ (n = Len(o) => k = i)

\* A byte that is written as it is keeps what a cut escape gives back.
LEMMA CutsBack ==
    ASSUME NEW data \in Seq(Byte), NEW i \in Nat, NEW j \in Nat, NEW o \in Seq(Byte), NEW b \in Byte,
           CutBack(data, i, o), i <= j, Unescape(Append(o, b)) = SubSeq(data, 1, j)
    PROVE  CutBack(data, j, Append(o, b))
<1> DEFINE t == Append(o, b)
<1>1. t \in Seq(Byte) /\ Len(t) = Len(o) + 1 /\ Len(o) \in Nat
  BY OneMoreIs
<1>2. ASSUME NEW n \in Nat, n <= Len(t)
      PROVE  \E k \in Nat : k <= j /\ Unescape(SubSeq(t, 1, n)) = SubSeq(data, 1, k) /\ (n = Len(t) => k = j)
  <2>1. CASE n = Len(t)
    <3>1. SubSeq(t, 1, n) = t
      <4> HIDE DEF t
      <4> QED
        BY <1>1, <2>1, WholeStart
    <3>2. Unescape(t) = SubSeq(data, 1, j) /\ j <= j
      OBVIOUS
    <3> HIDE DEF t
    <3> QED
      BY <3>1, <3>2
  <2>2. CASE n # Len(t)
    <3>1. n <= Len(o)
      <4> HIDE DEF t
      <4> QED
        BY <1>1, <1>2, <2>2
    <3>2. SubSeq(t, 1, n) = SubSeq(o, 1, n)
      BY <3>1, StartOfMore
    <3>3. PICK k \in Nat : k <= i /\ Unescape(SubSeq(o, 1, n)) = SubSeq(data, 1, k)
      BY <3>1 DEF CutBack
    <3>4. k <= j
      BY <3>3
    <3> HIDE DEF t
    <3> QED
      BY <2>2, <3>2, <3>3, <3>4
  <2> QED
    BY <2>1, <2>2
<1> HIDE DEF t
<1>3. CutBack(data, j, t)
  BY <1>2 DEF CutBack
<1> QED
  BY <1>3 DEF t

\* However an escaped unit is cut, what unescape makes of the piece is a beginning of the
\* unit.
LEMMA CutComesBack ==
    ASSUME NEW data \in Seq(Byte)
    PROVE  CutBack(data, Len(data), Escape(data))
<1> DEFINE len == Len(data)
<1>0. len \in Nat
  OBVIOUS
<1>1. PICK f : /\ Recurs(f, Escapes, NothingOut, len, EscapeStep(data))
               /\ \A i \in 1..len : f[i] = Put(f[i - 1], data[i]) /\ f[i - 1] \in Escapes
               /\ Escape(data) = f[len].out
  BY EscapeRecurs
<1>2. f[0] = NothingOut /\ \A i \in 0..len : f[i] \in Escapes
  BY <1>1 DEF Recurs
<1> DEFINE P(i) == /\ Taken(f[i].out) = [out |-> SubSeq(data, 1, i), zeros |-> f[i].zeros]
                   /\ CutBack(data, i, f[i].out)
           T == {i \in 0..len : P(i)}
<1>3. 0 \in T
  <2>1. f[0].out = <<>> /\ f[0].zeros = 0 /\ NothingOut = [out |-> <<>>, zeros |-> 0]
    BY <1>2 DEF NothingOut
  <2>2. SubSeq(data, 1, 0) = <<>>
    BY WholeStart
  <2>3. Taken(f[0].out) = [out |-> SubSeq(data, 1, 0), zeros |-> f[0].zeros]
    BY <2>1, <2>2, NothingTaken
  <2>4. CutBack(data, 0, f[0].out)
    <3> DEFINE e == <<>>
    <3>0. e \in Seq(Byte) /\ Len(e) = 0 /\ SubSeq(e, 1, 0) = e
      OBVIOUS
    <3>a. Unescape(e) = SubSeq(data, 1, 0)
      BY <2>2, NothingTaken
    <3>1. e \in Seq(Byte) /\ Len(e) = 0 /\ SubSeq(e, 1, 0) = e /\ Unescape(e) = SubSeq(data, 1, 0)
      BY <3>0, <3>a
    <3>2. f[0].out = e
      BY <2>1
    <3> HIDE DEF e
    <3>3. \A n \in Nat : n <= Len(e) => n = 0
      BY <3>1
    <3> QED
      BY <3>1, <3>2, <3>3 DEF CutBack
  <2> QED
    BY <1>0, <2>3, <2>4
<1>4. \A i \in 1..len : i - 1 \in T => i \in T
  <2> SUFFICES ASSUME NEW i \in 1..len, i - 1 \in T PROVE i \in T
    OBVIOUS
  <2> DEFINE h == i - 1
             s == f[h]
             b == data[i]
             d == SubSeq(data, 1, h)
             o == s.out
             o3 == Append(o, 3)
             q == f[i].out
  <2>1. h \in Nat /\ h \in 0..len /\ h < len /\ h + 1 = i /\ i \in 0..len
    BY <1>0
  <2>2. P(h)
    OBVIOUS
  <2>3. s \in Escapes /\ b \in Byte /\ f[i] = Put(s, b)
    BY <1>1, <1>2, <2>1
  <2>4. SubSeq(data, 1, i) = Append(d, b)
    <3>1. SubSeq(data, 1, h + 1) = Append(SubSeq(data, 1, h), data[h + 1])
      <4> HIDE DEF h
      <4> QED
        BY <2>1, StartMore
    <3> QED
      BY <2>1, <3>1
  <2>5. d \in Seq(Byte)
    <3>1. h <= len
      BY <1>0, <2>1
    <3> HIDE DEF h
    <3> QED
      BY <2>1, <3>1, StartIs
  <2>6. /\ Taken(Put(s, b).out) = [out |-> Append(d, b), zeros |-> Put(s, b).zeros]
        /\ s.out \in Seq(Byte) /\ Append(s.out, 3) \in Seq(Byte)
        /\ Put(s, b).out \in {Append(s.out, b), Append(Append(s.out, 3), b)}
        /\ Put(s, b).out = Append(Append(s.out, 3), b) => Unescape(Append(s.out, 3)) = d
    <3>1. Taken(s.out) = [out |-> d, zeros |-> s.zeros]
      BY <2>2
    <3> HIDE DEF s, b, d, P
    <3> QED
      BY <2>3, <2>5, <3>1, PutIsTaken
  <2>7. /\ Taken(q) = [out |-> SubSeq(data, 1, i), zeros |-> f[i].zeros]
        /\ o \in Seq(Byte) /\ o3 \in Seq(Byte) /\ q \in {Append(o, b), Append(o3, b)}
        /\ q = Append(o3, b) => Unescape(o3) = d
    BY <2>3, <2>4, <2>6
  <2>8. CutBack(data, h, o)
    BY <2>2
  <2>9. \A r \in Seq(Byte) : Unescape(Append(r, b)) = Taken(Append(r, b)).out
    BY <2>3, OneMoreIs, OneByteMore
  <2>10. h <= i /\ i \in Nat
    BY <2>1
  <2>15. 3 \in Byte /\ d = SubSeq(data, 1, h)
    BY ByteIs
  <2> HIDE DEF P, T, q, o3, o, s, h, d, b
  <2>11. Unescape(q) = SubSeq(data, 1, i)
    <3>1. Unescape(q) = Taken(q).out
      BY ONLY <2>7, <2>9
    <3>2. Taken(q).out = SubSeq(data, 1, i)
      BY ONLY <2>7
    <3> QED
      BY ONLY <3>1, <3>2
  <2>12. CutBack(data, i, q)
    <3>1. CASE q = Append(o, b)
      BY <2>1, <2>3, <2>7, <2>8, <2>10, <2>11, <3>1, CutsBack
    <3>2. CASE q = Append(o3, b)
      <4>1. o3 = Append(o, 3)
        BY DEF o3
      <4>2. Unescape(Append(o, 3)) = SubSeq(data, 1, h)
        BY <2>7, <2>15, <3>2, <4>1
      <4>3. h <= h
        BY <2>1
      <4> DEFINE e == 3
      <4>4. e \in Byte /\ Unescape(Append(o, e)) = SubSeq(data, 1, h) /\ o3 = Append(o, e)
        BY <2>15, <4>1, <4>2
      <4> HIDE DEF e
      <4>5. CutBack(data, h, o3)
        BY <2>1, <2>7, <2>8, <4>3, <4>4, CutsBack
      <4> QED
        BY <2>1, <2>3, <2>7, <2>10, <2>11, <3>2, <4>5, CutsBack
    <3> QED
      BY <2>7, <3>1, <3>2
  <2>13. P(i)
    BY <2>7, <2>12 DEF P, q
  <2> QED
    BY <2>1, <2>13 DEF T
<1> HIDE DEF P
<1>5. len \in T
  <2> HIDE DEF T
  <2>1. 0..len \subseteq T
    BY <1>0, <1>3, <1>4, FirstNumbers
  <2> QED
    BY <1>0, <2>1
<1>6. P(len)
  BY <1>5
<1> QED
  BY <1>1, <1>6 DEF P

-----------------------------------------------------------------------------
(* Bits in octets.                                                         *)

\* What dividing a number by eight leaves.
LEMMA EighthsAre ==
    \A n \in Nat : n \div 8 \in Nat /\ n % 8 \in Nat /\ n % 8 <= 7 /\ n % 8 = n - 8 * (n \div 8)
  OBVIOUS

\* rbsp_trailing_bits fill an octet, behind the bits.
LEMMA TrailedIs ==
    ASSUME NEW bits \in Seq(Bit)
    PROVE  /\ Trailed(bits) \in Seq(Bit)
           /\ \E m \in Nat \ {0} : Len(Trailed(bits)) = 8 * m /\ Len(bits) < 8 * m
           /\ \A i \in 1..Len(bits) : Trailed(bits)[i] = bits[i]
<1> DEFINE n == Len(bits)
           r == n % 8
           z == Zeros(7 - r)
           one == <<1>>
           b1 == bits \o one
           t == b1 \o z
           q == n \div 8
<1>1. n \in Nat
  OBVIOUS
<1>2. q \in Nat /\ r \in Nat /\ r <= 7 /\ r = n - 8 * q
  <2> HIDE DEF n
  <2> QED
    BY <1>1, EighthsAre
<1>3. Trailed(bits) = t
  BY DEF Trailed
<1>4. one \in Seq(Bit) /\ Len(one) = 1
  BY OneIs
<1> HIDE DEF n, r, q, one
<1>5. z \in Seq(Bit) /\ Len(z) = 7 - r
  <2> DEFINE k == 7 - r
  <2>1. k \in Nat
    BY <1>2
  <2> HIDE DEF k
  <2>2. Zeros(k) \in Seq(Bit) /\ Len(Zeros(k)) = k
    BY <2>1, ZerosAre
  <2> QED
    BY <2>2 DEF k
<1> HIDE DEF z
<1>6. b1 \in Seq(Bit) /\ Len(b1) = n + 1 /\ \A i \in 1..n : b1[i] = bits[i]
  <2>1. /\ b1 \in Seq(Bit) /\ Len(b1) = Len(bits) + Len(one)
        /\ \A i \in 1..Len(bits) : b1[i] = bits[i] /\ i \in 1..Len(b1)
    BY <1>4, JoinIs
  <2> QED
    BY <1>4, <2>1 DEF n
<1> HIDE DEF b1
<1>7. t \in Seq(Bit) /\ Len(t) = (n + 1) + (7 - r) /\ \A i \in 1..(n + 1) : t[i] = b1[i]
  <2>1. /\ t \in Seq(Bit) /\ Len(t) = Len(b1) + Len(z)
        /\ \A i \in 1..Len(b1) : t[i] = b1[i] /\ i \in 1..Len(t)
    BY <1>5, <1>6, JoinIs
  <2> HIDE DEF t
  <2> QED
    BY <1>5, <1>6, <2>1
<1> HIDE DEF t
<1> DEFINE m == q + 1
<1>8. m \in Nat \ {0} /\ Len(t) = 8 * m /\ n < 8 * m
  BY ONLY <1>1, <1>2, <1>7
<1>9. \A i \in 1..n : t[i] = bits[i]
  BY <1>1, <1>6, <1>7
<1> HIDE DEF m
<1> QED
  BY <1>3, <1>7, <1>8, <1>9 DEF n

\* Its octets are the bits again.
LEMMA PackedIs ==
    ASSUME NEW bits \in Seq(Bit)
    PROVE  /\ Packed(bits) \in Seq(Byte) /\ Len(Packed(bits)) \in Nat \ {0}
           /\ Len(Trailed(bits)) = 8 * Len(Packed(bits)) /\ Len(bits) < 8 * Len(Packed(bits))
           /\ \A k \in 1..Len(Packed(bits)) : \A i \in 1..8 :
                 OctetBits(Packed(bits)[k])[i] = Trailed(bits)[8 * k - 8 + i]
<1> DEFINE t == Trailed(bits)
           p == Packed(bits)
           v(k) == Number(2, SubSeq(t, 8 * k - 7, 8 * k))
<1>1. t \in Seq(Bit)
  BY TrailedIs
<1>2. PICK m \in Nat \ {0} : Len(t) = 8 * m /\ Len(bits) < 8 * m
  BY TrailedIs
<1>3. p = [k \in 1 .. Len(t) \div 8 |-> v(k)]
  BY DEF Packed
<1> HIDE DEF t, p
<1>4. Len(t) \div 8 = m
  BY ONLY <1>2
<1>5. p = [k \in 1..m |-> v(k)]
  BY <1>3, <1>4
<1>6. ASSUME NEW k \in 1..m
      PROVE  v(k) \in Byte /\ \A i \in 1..8 : OctetBits(v(k))[i] = t[8 * k - 8 + i]
  <2> DEFINE a == 8 * k - 7
             e == 8 * k
             c == SubSeq(t, a, e)
  <2>1. a \in Nat \ {0} /\ e \in Nat /\ e <= Len(t) /\ a <= e + 1 /\ e - a + 1 = 8
    BY <1>2
  <2>2. a - 1 = 8 * k - 8 /\ a \in Nat
    BY <1>2
  <2>h. v(k) = Number(2, c)
    OBVIOUS
  <2> HIDE DEF a, e, v
  <2>3. c \in Seq(Bit) /\ Len(c) = 8 /\ \A i \in 1..8 : c[i] = t[a + i - 1]
    <3>1. /\ c \in Seq(Bit) /\ Len(c) = e - a + 1
          /\ \A i \in 1..(e - a + 1) : c[i] = t[a + i - 1]
      BY <1>1, <2>1, PartIs
    <3> QED
      BY <2>1, <3>1
  <2> HIDE DEF c
  <2>4. Number(2, c) \in Byte /\ \A i \in 1..8 : OctetBits(Number(2, c))[i] = c[i]
    BY <2>3, OctetOf
  <2>5. \A i \in 1..8 : a + i - 1 = 8 * k - 8 + i
    BY ONLY <2>2, k \in Nat
  <2> QED
    BY <2>3, <2>4, <2>5, <2>h
<1> HIDE DEF v
<1>7. p \in Seq(Byte) /\ Len(p) = m
  <2>1. p \in [1..m -> Byte]
    BY <1>5, <1>6
  <2> QED
    BY <2>1, FunctionIsSeq
<1>8. \A k \in 1..m : \A i \in 1..8 : OctetBits(p[k])[i] = t[8 * k - 8 + i]
  BY <1>5, <1>6
<1> QED
  BY <1>2, <1>7, <1>8 DEF t, p

\* The bits that a reader of octets reads.
LEMMA BitsOfIs ==
    ASSUME NEW data \in Seq(Byte)
    PROVE  /\ BitsOf(data) \in Seq(Bit) /\ Len(BitsOf(data)) = 8 * Len(data) /\ Len(data) \in Nat
           /\ \A k \in 1..Len(data) : \A i \in 1..8 :
                 BitsOf(data)[8 * k - 8 + i] = OctetBits(data[k])[i]
           /\ \A i \in 1..(8 * Len(data)) :
                 \E k \in 1..Len(data) : \E j \in 1..8 : i = 8 * k - 8 + j
<1> DEFINE n == Len(data)
           b == BitsOf(data)
           v(i) == OctetBits(data[1 + ((i - 1) \div 8)])[1 + ((i - 1) % 8)]
<1>1. n \in Nat /\ \A k \in 1..n : data[k] \in Byte
  OBVIOUS
<1>2. b = [i \in 1..(8 * n) |-> v(i)]
  BY DEF BitsOf
<1> HIDE DEF n, b
<1>3. ASSUME NEW k \in 1..n, NEW i \in 1..8
      PROVE  /\ 8 * k - 8 + i \in 1..(8 * n) /\ v(8 * k - 8 + i) = OctetBits(data[k])[i]
             /\ OctetBits(data[k])[i] \in Bit
  <2> DEFINE h == 8 * k - 8 + i
  <2>1. h \in 1..(8 * n) /\ h - 1 \in Nat /\ h - 1 = 8 * (k - 1) + (i - 1)
    BY <1>1
  <2>k. k \in Nat /\ k >= 1 /\ i \in Nat /\ i >= 1 /\ i <= 8 /\ k <= n
    BY <1>1
  <2> DEFINE g == h - 1
             q == g \div 8
             r == g % 8
  <2>2. g \in Nat /\ g = 8 * (k - 1) + (i - 1)
    BY <2>1
  <2> HIDE DEF h, g
  <2>3. q = k - 1 /\ r = i - 1
    <3>1. q \in Nat /\ r \in Nat /\ r <= 7 /\ r = g - 8 * q
      BY <2>2, EighthsAre
    <3> HIDE DEF q, r
    <3> QED
      BY ONLY <3>1, <2>2, <2>k
  <2>4. 1 + q = k /\ 1 + r = i
    BY ONLY <2>3, <2>k
  <2>5. v(h) = OctetBits(data[1 + q])[1 + r]
    BY DEF g
  <2>6. OctetBits(data[k])[i] \in Bit
    <3> DEFINE o == OctetBits(data[k])
    <3>1. o \in Seq(Bit) /\ Len(o) = 8
      BY <1>1, <2>k, OctetIs
    <3> HIDE DEF o
    <3>2. i \in 1..Len(o)
      BY <3>1
    <3>3. o[i] \in Bit
      BY ONLY <3>1, <3>2, ElementOfSeq
    <3> QED
      BY <3>3 DEF o
  <2> HIDE DEF v, q, r
  <2>7. v(h) = OctetBits(data[k])[i]
    BY ONLY <2>4, <2>5
  <2> QED
    BY <2>1, <2>6, <2>7 DEF h
<1>4. ASSUME NEW i \in 1..(8 * n)
      PROVE  \E k \in 1..n : \E j \in 1..8 : i = 8 * k - 8 + j
  <2> DEFINE g == i - 1
             q == g \div 8
             r == g % 8
  <2>1. g \in Nat /\ i = g + 1 /\ g < 8 * n
    BY <1>1
  <2> HIDE DEF g
  <2>2. q \in Nat /\ r \in Nat /\ r <= 7 /\ r = g - 8 * q
    BY <2>1, EighthsAre
  <2> HIDE DEF q, r
  <2>3. q + 1 \in 1..n /\ r + 1 \in 1..8 /\ i = 8 * (q + 1) - 8 + (r + 1)
    BY ONLY <1>1, <2>1, <2>2
  <2> QED
    BY <2>3
<1> HIDE DEF v
<1>5. \A i \in 1..(8 * n) : v(i) \in Bit
  BY <1>3, <1>4
<1>6. b \in Seq(Bit) /\ Len(b) = 8 * n
  <2>1. b \in [1..(8 * n) -> Bit]
    BY <1>2, <1>5
  <2>2. 8 * n \in Nat
    BY <1>1
  <2> DEFINE m == 8 * n
  <2> HIDE DEF m
  <2>3. b \in [1..m -> Bit] /\ m \in Nat
    BY <2>1, <2>2 DEF m
  <2>4. b \in Seq(Bit) /\ Len(b) = m
    BY ONLY <2>3, FunctionIsSeq
  <2> QED
    BY <2>4 DEF m
<1>7. \A k \in 1..n : \A i \in 1..8 : b[8 * k - 8 + i] = OctetBits(data[k])[i]
  BY <1>2, <1>3
<1> QED
  BY <1>1, <1>4, <1>6, <1>7 DEF n, b

\* A beginning of the octets is a beginning of the bits.
LEMMA PackedFits ==
    ASSUME NEW bits \in Seq(Bit), NEW n \in Nat, n <= Len(Packed(bits)), NEW read,
           read = BitsOf(SubSeq(Packed(bits), 1, n))
    PROVE  /\ read \in Seq(Bit) /\ Fits(read, 1, bits)
           /\ n = Len(Packed(bits)) => Len(read) >= Len(bits)
<1> DEFINE p == Packed(bits)
           c == SubSeq(p, 1, n)
           t == Trailed(bits)
<1>1. /\ p \in Seq(Byte) /\ Len(p) \in Nat \ {0} /\ Len(bits) < 8 * Len(p) /\ Len(bits) \in Nat
      /\ \A k \in 1..Len(p) : \A i \in 1..8 : OctetBits(p[k])[i] = t[8 * k - 8 + i]
  BY PackedIs
<1>2. \A i \in 1..Len(bits) : t[i] = bits[i]
  BY TrailedIs
<1>0. n <= Len(p) /\ read = BitsOf(c)
  OBVIOUS
<1> HIDE DEF p, t
<1>3. c \in Seq(Byte) /\ Len(c) = n /\ \A i \in 1..n : c[i] = p[i]
  BY <1>0, <1>1, StartIs
<1> HIDE DEF c
<1>4. /\ read \in Seq(Bit) /\ Len(read) = 8 * n
      /\ \A k \in 1..n : \A i \in 1..8 : read[8 * k - 8 + i] = OctetBits(c[k])[i]
      /\ \A i \in 1..(8 * n) : \E k \in 1..n : \E j \in 1..8 : i = 8 * k - 8 + j
  <2> DEFINE l == Len(c)
             b == BitsOf(c)
  <2>1. /\ b \in Seq(Bit) /\ Len(b) = 8 * l
        /\ \A k \in 1..l : \A i \in 1..8 : b[8 * k - 8 + i] = OctetBits(c[k])[i]
        /\ \A i \in 1..(8 * l) : \E k \in 1..l : \E j \in 1..8 : i = 8 * k - 8 + j
    BY <1>3, BitsOfIs
  <2>2. l = n /\ read = b
    BY <1>0, <1>3
  <2> HIDE DEF l, b
  <2> QED
    BY ONLY <2>1, <2>2
<1>5. \A i \in 1..(8 * n) : read[i] = t[i]
  <2> SUFFICES ASSUME NEW i \in 1..(8 * n) PROVE read[i] = t[i]
    OBVIOUS
  <2>1. PICK k \in 1..n : \E j \in 1..8 : i = 8 * k - 8 + j
    BY <1>4
  <2>2. PICK j \in 1..8 : i = 8 * k - 8 + j
    BY <2>1
  <2>3. k \in 1..Len(p)
    BY <1>0, <1>1
  <2>4. OctetBits(p[k])[j] = t[8 * k - 8 + j]
    BY ONLY <1>1, <2>3, j \in 1..8
  <2>5. read[8 * k - 8 + j] = OctetBits(c[k])[j]
    BY ONLY <1>4, k \in 1..n, j \in 1..8
  <2>6. c[k] = p[k]
    BY ONLY <1>3, k \in 1..n
  <2> QED
    BY ONLY <2>2, <2>4, <2>5, <2>6
<1>6. Fits(read, 1, bits)
  <2> SUFFICES ASSUME NEW j \in 1..Len(bits), 1 + j - 1 <= Len(read) PROVE read[1 + j - 1] = bits[j]
    BY DEF Fits
  <2>1. 1 + j - 1 = j /\ j \in 1..(8 * n)
    BY <1>1, <1>4
  <2> QED
    BY <1>2, <1>5, <2>1
<1>7. n = Len(p) => Len(read) >= Len(bits)
  <2> DEFINE a == Len(p)
             l == Len(read)
             m == Len(bits)
  <2>1. a \in Nat /\ l = 8 * n /\ m < 8 * a /\ m \in Nat /\ n \in Nat
    BY <1>1, <1>4
  <2> HIDE DEF a, l, m
  <2>2. n = a => l >= m
    BY ONLY <2>1
  <2> QED
    BY <2>2 DEF a, l, m
<1> QED
  BY <1>4, <1>6, <1>7 DEF p

-----------------------------------------------------------------------------
(* The units of an access unit.                                            *)

\* An encoder's SPS is one that a reader is right about.
LEMMA ShapeIs ==
    ASSUME NEW s \in Shapes
    PROVE  /\ Describable(s) /\ s.cut \in Nat
           /\ Len(SpsOf(s)) \in Nat /\ Len(SpsOf(s)) >= 1 /\ Len(SpsOf(s)) <= MaxSetLength
<1>1. s \in SpsShapes
  BY ShapesAssumption
<1>2. /\ s.profile \notin Profiles => s.chroma = 1
      /\ Len(s.offsets) <= 255
      /\ s.pixels[1] % Samples(s.chroma)[1] = 0
      /\ s.pixels[2] % (Rows(s) * Samples(s.chroma)[2]) = 0
  BY ShapesAssumption
<1>3. Len(SpsOf(s)) \in 1..MaxSetLength
  BY ShapesAssumption
<1>4. Len(SpsOf(s)) \in Nat /\ Len(SpsOf(s)) >= 1 /\ Len(SpsOf(s)) <= MaxSetLength
  <2> DEFINE n == Len(SpsOf(s))
             m == MaxSetLength
  <2>1. n \in 1..m /\ m \in Nat
    BY <1>3, LengthsAre
  <2> HIDE DEF n, m
  <2>2. n \in Nat /\ n >= 1 /\ n <= m
    BY ONLY <2>1
  <2> QED
    BY <2>2 DEF n, m
<1> DEFINE top == 1..MaxPixels
<1>5. /\ s.profile \in Byte /\ s.chroma \in 0..3 /\ s.plane \in Bit /\ s.lists \in Seq(Forms)
      /\ s.order \in 0..2 /\ s.offsets \in Seq(Offsets) /\ s.frames \in {0, 1}
      /\ s.pixels \in top \X top /\ s.cut \in Nat
  BY <1>1 DEF SpsShapes, Bit, Forms
<1>6. \A n \in top : n \in Nat /\ n >= 1 /\ n <= 65535
  <2> DEFINE m == MaxPixels
  <2>1. m \in Nat /\ m <= 65535 /\ top = 1..m
    BY DEF MaxPixels
  <2> HIDE DEF m, top
  <2> QED
    BY ONLY <2>1
<1> HIDE DEF top
<1>7. /\ s.pixels \in Nat \X Nat
      /\ s.pixels[1] >= 1 /\ s.pixels[1] <= 65535 /\ s.pixels[2] >= 1 /\ s.pixels[2] <= 65535
  BY <1>5, <1>6
<1>8. Pictured(s)
  BY <1>2, <1>5, <1>7 DEF Pictured
<1> QED
  BY <1>2, <1>4, <1>5, <1>8 DEF Describable

\* The first byte of a unit and what is behind it.
LEMMA NalIs ==
    ASSUME NEW type \in Byte, type # 0, NEW e \in Seq(Byte), \A i \in 1..Len(e) : ~IsCode(e, i), NEW u,
           u = <<type>> \o e
    PROVE  /\ u \in Seq(Byte) /\ Len(u) = 1 + Len(e) /\ Len(e) \in Nat /\ u[1] = type
           /\ \A i \in 1..Len(e) : u[1 + i] = e[i]
           /\ \A i \in 1..Len(u) : ~IsCode(u, i)
<1> DEFINE h == <<type>>
<1>1. h \in Seq(Byte) /\ Len(h) = 1 /\ h[1] = type
  OBVIOUS
<1>0. u = h \o e
  OBVIOUS
<1> HIDE DEF h
<1>2. /\ u \in Seq(Byte) /\ Len(u) = 1 + Len(e) /\ Len(e) \in Nat /\ u[1] = type
      /\ \A i \in 1..Len(e) : u[1 + i] = e[i]
  <2>1. /\ h \o e \in Seq(Byte) /\ Len(h \o e) = Len(h) + Len(e)
        /\ Len(h) \in Nat /\ Len(e) \in Nat
        /\ \A i \in 1..Len(h) : (h \o e)[i] = h[i] /\ i \in 1..Len(h \o e)
        /\ \A i \in 1..Len(e) : (h \o e)[Len(h) + i] = e[i] /\ Len(h) + i \in 1..Len(h \o e)
    BY ONLY <1>1, e \in Seq(Byte), JoinIs
  <2>2. 1 \in 1..Len(h)
    BY <1>1
  <2> QED
    BY <1>0, <1>1, <2>1, <2>2
<1>3. ASSUME NEW i \in 1..Len(u) PROVE ~IsCode(u, i)
  <2>1. CASE i = 1
    BY <1>2, <2>1 DEF IsCode
  <2>2. CASE i # 1
    <3> DEFINE j == i - 1
               n == Len(e)
    <3>1. j \in 1..n /\ i = 1 + j /\ n \in Nat /\ Len(u) = 1 + n
      BY <1>2, <2>2
    <3> SUFFICES ASSUME IsCode(u, i) PROVE FALSE
      OBVIOUS
    <3> HIDE DEF j
    <3>2. i + 2 <= Len(u) /\ u[i] = 0 /\ u[i + 1] = 0 /\ u[i + 2] = 1
      BY DEF IsCode
    <3>3. j + 2 <= n /\ j + 1 \in 1..n /\ j + 2 \in 1..n /\ i + 1 = 1 + (j + 1) /\ i + 2 = 1 + (j + 2)
      BY ONLY <3>1, <3>2
    <3>4. e[j] = 0 /\ e[j + 1] = 0 /\ e[j + 2] = 1
      BY <1>2, <3>1, <3>2, <3>3
    <3>5. IsCode(e, j)
      BY <3>3, <3>4 DEF IsCode
    <3> QED
      BY <3>1, <3>5
  <2> QED
    BY <2>1, <2>2
<1> QED
  BY <1>2, <1>3

\* A beginning of a unit has no start code in it either.
LEMMA BeginningIs ==
    ASSUME NEW u \in Seq(Byte), \A i \in 1..Len(u) : ~IsCode(u, i), NEW n \in Nat, n <= Len(u), NEW c,
           c = SubSeq(u, 1, n)
    PROVE  \A i \in 1..Len(c) : ~IsCode(c, i)
<1>1. c \in Seq(Byte) /\ Len(c) = n /\ Len(u) \in Nat /\ \A i \in 1..n : c[i] = u[i]
  BY StartIs
<1> SUFFICES ASSUME NEW i \in 1..Len(c), IsCode(c, i) PROVE FALSE
  OBVIOUS
<1>2. i \in 1..n /\ i + 2 <= n /\ c[i] = 0 /\ c[i + 1] = 0 /\ c[i + 2] = 1
  BY <1>1 DEF IsCode
<1>3. i + 1 \in 1..n /\ i + 2 \in 1..n /\ i \in 1..Len(u) /\ i + 2 <= Len(u)
  BY <1>1, <1>2
<1>4. IsCode(u, i)
  BY <1>1, <1>2, <1>3 DEF IsCode
<1> QED
  BY <1>3, <1>4

\* What an encoder writes of a body.
LEMMA BodyIs ==
    ASSUME NEW type \in Byte, type # 0, NEW body \in Seq(Byte), body # <<>> => body[Len(body)] # 0, NEW u,
           u = Nal(type, body)
    PROVE  Clean(u) /\ u[1] = type /\ Len(u) = 1 + Len(Escape(body)) /\ Len(Escape(body)) \in Nat
<1> DEFINE e == Escape(body)
<1>1. /\ e \in Seq(Byte) /\ \A i \in 1..Len(e) : ~IsCode(e, i)
      /\ body # <<>> => e # <<>> /\ e[Len(e)] = body[Len(body)]
      /\ body = <<>> => e = <<>>
  BY EscapedIs
<1>2. u = <<type>> \o e
  BY DEF Nal
<1> HIDE DEF e
<1>3. /\ u \in Seq(Byte) /\ Len(u) = 1 + Len(e) /\ Len(e) \in Nat /\ u[1] = type
      /\ \A i \in 1..Len(e) : u[1 + i] = e[i]
      /\ \A i \in 1..Len(u) : ~IsCode(u, i)
  BY <1>1, <1>2, NalIs
<1>4. u # <<>>
  BY <1>3
<1>5. u[Len(u)] # 0
  <2>1. CASE body = <<>>
    <3>1. Len(e) = 0
      BY <1>1, <2>1
    <3>2. Len(u) = 1
      BY <1>3, <3>1
    <3> QED
      BY <1>3, <3>2
  <2>2. CASE body # <<>>
    <3>1. Len(e) \in 1..Len(e) /\ e[Len(e)] # 0
      BY <1>1, <1>3, <2>2
    <3>2. u[1 + Len(e)] = e[Len(e)]
      BY <1>3, <3>1
    <3> QED
      BY <1>3, <3>1, <3>2
  <2> QED
    BY <2>1, <2>2
<1> QED
  BY <1>3, <1>4, <1>5 DEF Clean, e

\* The bytes of a whole SPS, and those left of one that is cut.
LEMMA SpsStart ==
    ASSUME NEW s, Describable(s), NEW whole, whole = Nal(NalSps, Packed(SpsBits(s))), NEW n \in Nat,
           n >= 1, n <= Len(whole), NEW u, u = SubSeq(whole, 1, n)
    PROVE  /\ u \in Seq(Byte) /\ Len(u) = n /\ Len(whole) \in Nat /\ u[1] = NalSps
           /\ \A i \in 1..Len(u) : ~IsCode(u, i)
           /\ Dimensions(u) \in {s.pixels, NoSize}
           /\ n = Len(whole) => Dimensions(u) = s.pixels
<1> DEFINE bits == SpsBits(s)
           data == Packed(bits)
           e == Escape(data)
           h == n - 1
<1>0. h \in Nat /\ n = 1 + h
  OBVIOUS
<1>1. bits \in Seq(Bit)
  <2> DEFINE t7 == SizeBits(s) \o <<0>>
             t6 == OrderBits(s) \o t7
             t5 == UeCode(4) \o t6
             t4 == ProfileBits(s) \o t5
             t3 == UeCode(0) \o t4
             t2 == OctetBits(30) \o t3
             t1 == OctetBits(0) \o t2
  <2>1. Describable(s) /\ SpsParts(s, t1, t2, t3, t4, t5, t6, t7)
    BY DEF SpsParts
  <2> HIDE DEF t1, t2, t3, t4, t5, t6, t7
  <2> QED
    BY ONLY <2>1, SpsBitsAre
<1>b. bits = SpsBits(s)
  OBVIOUS
<1> HIDE DEF bits
<1>2. data \in Seq(Byte)
  BY <1>1, PackedIs
<1>3. e \in Seq(Byte) /\ (\A i \in 1..Len(e) : ~IsCode(e, i)) /\ CutBack(data, Len(data), e)
  <2> HIDE DEF data
  <2> QED
    BY <1>2, EscapedIs, CutComesBack
<1>4. whole = <<NalSps>> \o e /\ NalSps \in Byte /\ NalSps # 0
  BY <1>b, ByteIs DEF Nal, NalSps
<1> HIDE DEF e
<1>5. /\ whole \in Seq(Byte) /\ Len(whole) = 1 + Len(e) /\ Len(e) \in Nat /\ whole[1] = NalSps
      /\ \A i \in 1..Len(e) : whole[1 + i] = e[i]
      /\ \A i \in 1..Len(whole) : ~IsCode(whole, i)
  <2> DEFINE type == NalSps
  <2>1. type \in Byte /\ type # 0 /\ whole = <<type>> \o e
    BY <1>4
  <2>3. e \in Seq(Byte) /\ \A i \in 1..Len(e) : ~IsCode(e, i)
    BY <1>3
  <2> HIDE DEF type
  <2>2. /\ whole \in Seq(Byte) /\ Len(whole) = 1 + Len(e) /\ Len(e) \in Nat /\ whole[1] = type
        /\ \A i \in 1..Len(e) : whole[1 + i] = e[i]
        /\ \A i \in 1..Len(whole) : ~IsCode(whole, i)
    BY <2>1, <2>3, NalIs
  <2> QED
    BY <2>2 DEF type
<1>6. u \in Seq(Byte) /\ Len(u) = n /\ \A i \in 1..n : u[i] = whole[i]
  BY <1>5, StartIs
<1>7. u[1] = NalSps
  BY <1>5, <1>6
<1>8. \A i \in 1..Len(u) : ~IsCode(u, i)
  BY <1>5, BeginningIs
<1> DEFINE part == SubSeq(e, 1, h)
           rest == Tail(u)
<1>9. rest = part
  <2>0. h <= Len(e)
    BY <1>0, <1>5
  <2>1. part \in Seq(Byte) /\ Len(part) = h /\ \A i \in 1..h : part[i] = e[i]
    BY <1>0, <1>3, <2>0, StartIs
  <2>2. rest \in Seq(Byte) /\ Len(rest) = h /\ \A i \in 1..h : rest[i] = u[1 + i]
    BY <1>0, <1>6
  <2> HIDE DEF part, rest
  <2>3. \A i \in 1..h : rest[i] = part[i]
    <3> SUFFICES ASSUME NEW i \in 1..h PROVE rest[i] = part[i]
      OBVIOUS
    <3>1. 1 + i \in 1..n /\ i \in 1..Len(e)
      BY <1>0, <1>5, <2>0
    <3> QED
      BY <1>5, <1>6, <2>1, <2>2, <3>1
  <2> QED
    BY <2>1, <2>2, <2>3, SameSeq
<1>10. PICK k \in Nat : /\ k <= Len(data) /\ Unescape(part) = SubSeq(data, 1, k)
                        /\ h = Len(e) => k = Len(data)
  <2>1. h <= Len(e)
    BY <1>0, <1>5
  <2> HIDE DEF data, h
  <2> QED
    BY <1>0, <1>3, <2>1 DEF CutBack
<1> DEFINE read == BitsOf(SubSeq(data, 1, k))
<1>11. /\ read \in Seq(Bit) /\ Fits(read, 1, bits) /\ (k = Len(data) => Len(read) >= Len(bits))
  <2>1. bits \in Seq(Bit) /\ k \in Nat /\ k <= Len(Packed(bits)) /\ read = BitsOf(SubSeq(Packed(bits), 1, k))
    BY <1>1, <1>10
  <2> HIDE DEF read
  <2>2. /\ read \in Seq(Bit) /\ Fits(read, 1, bits) /\ (k = Len(Packed(bits)) => Len(read) >= Len(bits))
    BY ONLY <2>1, PackedFits
  <2> QED
    BY <2>2
<1>12. Dimensions(u) = SizeOf(read)
  <2>1. Unescape(Tail(u)) = SubSeq(data, 1, k)
    BY <1>9, <1>10
  <2> HIDE DEF data
  <2> QED
    BY <2>1 DEF Dimensions, SizeOf, ChromaPart
<1> HIDE DEF read, data
<1>13. SizeOf(read) \in {s.pixels, NoSize} /\ (Len(read) >= Len(SpsBits(s)) => SizeOf(read) = s.pixels)
  BY <1>11, <1>b, SizeOfIs
<1>14. n = Len(whole) => h = Len(e)
  BY <1>0, <1>5
<1> QED
  BY <1>5, <1>6, <1>7, <1>8, <1>b, <1>10, <1>11, <1>12, <1>13, <1>14

\* An encoder's SPS, cut or not.
LEMMA SpsUnitIs ==
    ASSUME NEW s \in Shapes, NEW u, u = SpsOf(s), u[Len(u)] # 0
    PROVE  /\ Clean(u) /\ u[1] = NalSps /\ Len(u) <= MaxSetLength
           /\ Dimensions(u) \in {s.pixels} \cup (IF s.cut = 0 THEN {} ELSE {NoSize})
<1> DEFINE whole == Nal(NalSps, Packed(SpsBits(s)))
           len == Len(whole)
           n == len - s.cut
<1>1. /\ Describable(s) /\ s.cut \in Nat
      /\ Len(u) \in Nat /\ Len(u) >= 1 /\ Len(u) <= MaxSetLength
  BY ShapeIs
<1>2. u = SubSeq(whole, 1, n)
  BY DEF SpsOf
<1>w. whole = Nal(NalSps, Packed(SpsBits(s)))
  OBVIOUS
<1>3. len \in Nat /\ whole \in Seq(Byte)
  <2> DEFINE bits == SpsBits(s)
             data == Packed(bits)
             e == Escape(data)
  <2>1. bits \in Seq(Bit)
    <3> DEFINE t7 == SizeBits(s) \o <<0>>
               t6 == OrderBits(s) \o t7
               t5 == UeCode(4) \o t6
               t4 == ProfileBits(s) \o t5
               t3 == UeCode(0) \o t4
               t2 == OctetBits(30) \o t3
               t1 == OctetBits(0) \o t2
    <3>1. Describable(s) /\ SpsParts(s, t1, t2, t3, t4, t5, t6, t7)
      BY <1>1 DEF SpsParts
    <3> HIDE DEF t1, t2, t3, t4, t5, t6, t7
    <3> QED
      BY ONLY <3>1, SpsBitsAre
  <2>2. data \in Seq(Byte)
    <3> HIDE DEF bits
    <3> QED
      BY <2>1, PackedIs
  <2>3. e \in Seq(Byte)
    <3> HIDE DEF data
    <3> QED
      BY <2>2, EscapedIs
  <2>4. whole = <<NalSps>> \o e
    BY DEF Nal
  <2> HIDE DEF e, whole
  <2>5. <<NalSps>> \in Seq(Byte)
    BY ByteIs DEF NalSps
  <2> QED
    BY <2>3, <2>4, <2>5, JoinIs
<1> HIDE DEF whole
<1>4. n \in Nat /\ n >= 1 /\ n <= len
  <2>1. n \in Int /\ n <= len
    BY <1>1, <1>3
  <2>2. n >= 1
    <3> SUFFICES ASSUME ~(n >= 1) PROVE FALSE
      OBVIOUS
    <3>1. n <= 0
      BY <2>1
    <3> HIDE DEF n
    <3>2. u = <<>>
      BY <1>2, <1>3, <2>1, <3>1
    <3> QED
      BY <1>1, <3>2
  <2> QED
    BY <2>1, <2>2
<1>c. s.cut = 0 => n = len
  BY <1>3
<1> HIDE DEF n
<1>5. /\ u \in Seq(Byte) /\ Len(u) = n /\ Len(whole) \in Nat /\ u[1] = NalSps
      /\ \A i \in 1..Len(u) : ~IsCode(u, i)
      /\ Dimensions(u) \in {s.pixels, NoSize}
      /\ n = Len(whole) => Dimensions(u) = s.pixels
  <2>1. /\ Describable(s) /\ whole = Nal(NalSps, Packed(SpsBits(s))) /\ n \in Nat
        /\ n >= 1 /\ n <= Len(whole) /\ u = SubSeq(whole, 1, n)
    BY <1>1, <1>2, <1>4, <1>w
  <2> QED
    BY ONLY <2>1, SpsStart, ZenonT(40)
<1>6. Clean(u)
  <2>1. u # <<>> /\ u[1] # 0
    BY <1>1, <1>5 DEF NalSps
  <2> QED
    BY <1>5, <2>1 DEF Clean
<1>7. Dimensions(u) \in {s.pixels} \cup (IF s.cut = 0 THEN {} ELSE {NoSize})
  BY <1>5, <1>c
<1> QED
  BY <1>1, <1>5, <1>6, <1>7

-----------------------------------------------------------------------------
(* The access unit as it grows.                                            *)

\* The units an encoder sends, and what is true of one when s is the SPS among them.
WholeUnits == {u \in Seq(Byte) : Clean(u) /\ Len(u) <= MaxUnitLength}

UnitIsTrue(u, s) ==
    /\ NalType(u) = NalPps => Len(u) <= MaxSetLength
    /\ NalType(u) = NalSps =>
          /\ s \in Shapes /\ Len(u) <= MaxSetLength
          /\ Dimensions(u) \in {s.pixels} \cup (IF s.cut = 0 THEN {} ELSE {NoSize})

\* The inductive invariant.
H264Inv ==
    /\ stream \in Seq(Byte) /\ (stream # <<>> => stream[Len(stream)] # 0)
    /\ units \in Seq(WholeUnits) /\ Len(units) <= MaxUnits
    /\ AnnexBUnits(stream) = units
    /\ \A i \in 1..Len(units) : UnitIsTrue(units[i], shape)
    /\ shape \in Shapes \cup {NoShape}

\* Nothing is not an SPS.
LEMMA NoShapeIs == NoShape \notin Shapes
<1> SUFFICES ASSUME NoShape \in Shapes PROVE FALSE
  OBVIOUS
<1>1. Pictured(NoShape)
  BY ShapeIs DEF Describable
<1>2. NoShape.pixels[1] = 0
  BY DEF NoShape
<1> QED
  BY <1>1, <1>2 DEF Pictured

\* A framing begins so.
LEMMA H264Starts ==
    ASSUME H264Init
    PROVE  H264Inv
<1>1. stream = <<>> /\ units = <<>> /\ shape = NoShape
  BY DEF H264Init
<1>2. AnnexBUnits(stream) = <<>>
  <2> DEFINE e == <<>>
  <2>1. e \in Seq(Byte) /\ Len(e) = 0
    OBVIOUS
  <2> HIDE DEF e
  <2>2. PICK f : /\ Recurs(f, ScanStates, NothingScanned, Len(e), ScanStep(e))
                 /\ AnnexBUnits(e) = Ended(e, f[Len(e)], Len(e))
    BY <2>1, UnitsAreScanned
  <2>3. f[0] = NothingScanned
    BY <2>2 DEF Recurs
  <2>4. AnnexBUnits(e) = Ended(e, NothingScanned, 0)
    BY <2>1, <2>2, <2>3
  <2>5. Ended(e, NothingScanned, 0) = <<>>
    BY DEF Ended, NothingScanned
  <2> QED
    BY <1>1, <2>4, <2>5 DEF e
<1>3. MaxUnits \in Nat
  BY H264Assumption
<1> QED
  BY <1>1, <1>2, <1>3 DEF H264Inv

\* A unit more, behind its start code.
LEMMA UnitIsAdded ==
    ASSUME H264Inv, NEW unit, Clean(unit), Len(unit) <= MaxUnitLength, Adds(unit),
           shape' \in Shapes \cup {NoShape}, UnitIsTrue(unit, shape'),
           \A i \in 1..Len(units) : UnitIsTrue(units[i], shape')
    PROVE  H264Inv'
<1>1. /\ stream \in Seq(Byte) /\ (stream # <<>> => stream[Len(stream)] # 0)
      /\ units \in Seq(WholeUnits) /\ Len(units) <= MaxUnits /\ AnnexBUnits(stream) = units
  BY DEF H264Inv
<1>2. Len(units) < MaxUnits /\ units' = Append(units, unit)
  BY DEF Adds
<1>3. PICK code \in StartCodes : stream' = (stream \o code) \o unit
  BY DEF Adds, StartCodes
<1>4. AnnexBUnits(stream') = units'
  BY <1>1, <1>2, <1>3, OneMoreUnit
<1>5. unit \in WholeUnits /\ unit \in Seq(Byte) /\ Len(unit) \in Nat /\ unit # <<>> /\ unit[Len(unit)] # 0
  BY DEF WholeUnits, Clean
<1>6. stream' \in Seq(Byte) /\ stream'[Len(stream')] # 0
  <2> DEFINE b == stream \o code
  <2>1. b \in Seq(Byte)
    BY <1>1, CodeIs, JoinIs
  <2>0. stream' = b \o unit
    BY <1>3
  <2> HIDE DEF b
  <2>2. /\ b \o unit \in Seq(Byte) /\ Len(b \o unit) = Len(b) + Len(unit)
        /\ Len(b) \in Nat /\ Len(unit) \in Nat
        /\ \A i \in 1..Len(unit) : (b \o unit)[Len(b) + i] = unit[i] /\ Len(b) + i \in 1..Len(b \o unit)
    BY <1>5, <2>1, JoinIs
  <2>3. Len(unit) \in 1..Len(unit)
    BY <1>5
  <2> QED
    BY <1>5, <2>0, <2>2, <2>3
<1>7. /\ units' \in Seq(WholeUnits) /\ Len(units') = Len(units) + 1 /\ Len(units) \in Nat
      /\ units'[Len(units) + 1] = unit /\ \A i \in 1..Len(units) : units'[i] = units[i]
  BY <1>1, <1>2, <1>5, OneMoreIs
<1>8. Len(units') <= MaxUnits
  BY <1>2, <1>7, H264Assumption
<1>9. \A i \in 1..Len(units') : UnitIsTrue(units'[i], shape')
  <2> SUFFICES ASSUME NEW i \in 1..Len(units') PROVE UnitIsTrue(units'[i], shape')
    OBVIOUS
  <2>1. i \in 1..Len(units) \/ i = Len(units) + 1
    BY <1>7
  <2> QED
    BY <1>7, <2>1
<1> QED
  BY <1>4, <1>6, <1>7, <1>8, <1>9 DEF H264Inv

\* A unit that says nothing of the picture leaves what is said true.
LEMMA BodyIsAdded ==
    ASSUME H264Inv, NEW type \in {NalPicture, NalIdr, NalSei, NalPps}, NEW body \in Bodies, AddUnit(type, body)
    PROVE  H264Inv'
<1> DEFINE unit == Nal(type, body)
<1>0. unit = Nal(type, body)
  OBVIOUS
<1>1. Adds(unit) /\ shape' = shape /\ (type = NalPps => Len(unit) <= MaxSetLength)
  BY DEF AddUnit
<1> HIDE DEF unit
<1>2. /\ body \in Seq(Byte) /\ (body # <<>> => body[Len(body)] # 0) /\ Len(Escape(body)) < MaxUnitLength
  BY H264Assumption, ShapesAssumption
<1>3. type \in Byte /\ type # 0 /\ type % 32 = type /\ type # NalSps
  BY ByteIs DEF NalPicture, NalIdr, NalSei, NalPps, NalSps
<1>4. Clean(unit) /\ unit[1] = type /\ Len(unit) = 1 + Len(Escape(body)) /\ Len(Escape(body)) \in Nat
  BY <1>0, <1>2, <1>3, BodyIs
<1>5. Len(unit) <= MaxUnitLength
  <2> DEFINE m == MaxUnitLength
             n == Len(Escape(body))
  <2>1. m \in Nat /\ n \in Nat /\ n < m /\ Len(unit) = 1 + n
    BY <1>2, <1>4, LengthsAre
  <2> HIDE DEF m, n
  <2>2. Len(unit) <= m
    BY ONLY <2>1
  <2> QED
    BY <2>2 DEF m
<1>6. NalType(unit) = type
  BY <1>3, <1>4 DEF NalType
<1>7. UnitIsTrue(unit, shape')
  BY <1>1, <1>3, <1>6 DEF UnitIsTrue
<1>8. shape' \in Shapes \cup {NoShape} /\ \A i \in 1..Len(units) : UnitIsTrue(units[i], shape')
  BY <1>1 DEF H264Inv
<1> QED
  BY <1>1, <1>4, <1>5, <1>7, <1>8, UnitIsAdded

\* The one SPS is what its encoder meant.
LEMMA SpsIsAdded ==
    ASSUME H264Inv, NEW s \in Shapes, AddSps(s)
    PROVE  H264Inv'
<1> DEFINE unit == SpsOf(s)
<1>0. unit = SpsOf(s)
  OBVIOUS
<1>1. shape = NoShape /\ unit[Len(unit)] # 0 /\ Adds(unit) /\ shape' = s
  BY DEF AddSps
<1> HIDE DEF unit
<1>2. /\ Clean(unit) /\ unit[1] = NalSps /\ Len(unit) <= MaxSetLength
      /\ Dimensions(unit) \in {s.pixels} \cup (IF s.cut = 0 THEN {} ELSE {NoSize})
  BY <1>0, <1>1, SpsUnitIs
<1>3. Len(unit) <= MaxUnitLength
  <2> DEFINE m == MaxUnitLength
             n == MaxSetLength
  <2>1. m \in Nat /\ n \in Nat /\ n < m /\ Len(unit) <= n /\ Len(unit) \in Nat
    BY <1>2, LengthsAre DEF Clean
  <2> HIDE DEF m, n
  <2>2. Len(unit) <= m
    BY ONLY <2>1
  <2> QED
    BY <2>2 DEF m
<1>4. NalType(unit) = NalSps /\ NalSps # NalPps
  BY <1>2 DEF NalType, NalSps, NalPps
<1>5. UnitIsTrue(unit, shape')
  BY <1>1, <1>2, <1>4 DEF UnitIsTrue
<1>6. \A i \in 1..Len(units) : UnitIsTrue(units[i], shape')
  BY <1>1, NoShapeIs DEF H264Inv, UnitIsTrue
<1>7. shape' \in Shapes \cup {NoShape}
  BY <1>1
<1> QED
  BY <1>1, <1>2, <1>3, <1>5, <1>6, <1>7, UnitIsAdded

\* Every step of it keeps it.
LEMMA H264Steps ==
    ASSUME H264Inv, [H264Next]_h264Vars
    PROVE  H264Inv'
<1>1. CASE UNCHANGED h264Vars
  BY <1>1 DEF h264Vars, H264Inv
<1>2. CASE H264Next
  BY <1>2, BodyIsAdded, SpsIsAdded DEF H264Next
<1> QED
  BY <1>1, <1>2

\* What it says of the framing and of the picture described.
LEMMA H264Holds ==
    ASSUME H264Inv
    PROVE  H264TypeOK /\ UnitsComeThrough /\ DescriptionIsTrue
<1>1. /\ stream \in Seq(Byte) /\ units \in Seq(WholeUnits) /\ Len(units) <= MaxUnits
      /\ AnnexBUnits(stream) = units /\ \A i \in 1..Len(units) : UnitIsTrue(units[i], shape)
      /\ shape \in Shapes \cup {NoShape}
  BY DEF H264Inv
<1>2. /\ DOMAIN units = 1..Len(units)
      /\ \A i \in 1..Len(units) : units[i] \in Seq(Byte) /\ Len(units[i]) <= MaxUnitLength
  BY <1>1 DEF WholeUnits
<1>3. H264TypeOK
  BY <1>1, <1>2 DEF H264TypeOK
<1>4. UnitsComeThrough
  <2> DEFINE pictures == Recorded(units)
  <2>1. units \in Seq(ShortUnits)
    <3>1. WholeUnits \subseteq ShortUnits
      BY DEF WholeUnits, ShortUnits
    <3> QED
      BY <1>1, <3>1
  <2>2. pictures \in Seq(ShortUnits)
    BY <2>1, RecordedIs
  <2>a. UnitsComeThrough <=> AnnexBUnits(stream) = units /\ AvccUnits(ToAvcc(Recorded(AnnexBUnits(stream)))) = Recorded(AnnexBUnits(stream))
    BY DEF UnitsComeThrough
  <2> HIDE DEF pictures
  <2>3. pictures \in Seq(Seq(Byte)) /\ \A i \in 1..Len(pictures) : Len(pictures[i]) <= MaxUnitLength
    BY <2>2 DEF ShortUnits
  <2>4. AvccUnits(ToAvcc(pictures)) = pictures
    BY <2>3, FramesComeApart
  <2> QED
    BY <1>1, <2>4, <2>a DEF pictures
<1>5. DescriptionIsTrue
  <2> SUFFICES ASSUME NEW i \in 1..Len(units), NalType(units[i]) = NalSps
               PROVE  /\ Dimensions(units[i]) \in {shape.pixels} \cup (IF shape.cut = 0 THEN {} ELSE {NoSize})
                      /\ \A j \in DOMAIN units : NalType(units[j]) = NalPps /\ Len(units[i]) >= 4 =>
                            ParseAvcc(AvccRecord(units[i], units[j]))
                                = [lengths |-> 3, sps |-> <<units[i]>>, pps |-> <<units[j]>>]
    BY <1>2 DEF DescriptionIsTrue
  <2>1. /\ Dimensions(units[i]) \in {shape.pixels} \cup (IF shape.cut = 0 THEN {} ELSE {NoSize})
        /\ Len(units[i]) <= MaxSetLength /\ units[i] \in Seq(Byte)
    BY <1>1, <1>2 DEF UnitIsTrue
  <2>2. ASSUME NEW j \in DOMAIN units, NalType(units[j]) = NalPps, Len(units[i]) >= 4
        PROVE  ParseAvcc(AvccRecord(units[i], units[j]))
                   = [lengths |-> 3, sps |-> <<units[i]>>, pps |-> <<units[j]>>]
    <3>1. j \in 1..Len(units)
      BY <1>2
    <3>2. Len(units[j]) <= MaxSetLength /\ units[j] \in Seq(Byte)
      BY <1>1, <1>2, <2>2, <3>1 DEF UnitIsTrue
    <3> DEFINE a == units[i]
               b == units[j]
    <3>3. a \in Seq(Byte) /\ b \in Seq(Byte) /\ Len(a) >= 4 /\ Len(a) <= MaxSetLength /\ Len(b) <= MaxSetLength
      BY <2>1, <2>2, <3>2
    <3> HIDE DEF a, b
    <3>4. ParseAvcc(AvccRecord(a, b)) = [lengths |-> 3, sps |-> <<a>>, pps |-> <<b>>]
      BY ONLY <3>3, SetsComeBack
    <3> QED
      BY <3>4 DEF a, b
  <2> QED
    BY <2>1, <2>2
<1> QED
  BY <1>3, <1>4, <1>5

\* The units found in an encoder's stream are the ones it sent, whatever they hold and
\* whatever start codes stand between them; a recorded frame is taken apart into its
\* pictures; the size announced is the one the encoder meant, whatever stands before it in
\* the SPS, and an SPS that was cut says that size or none; and a configuration record gives
\* back the sets it was made of (annex_b_units, to_avcc, unescape, dimensions, avcc_record,
\* parse_avcc).
THEOREM H264Safe == H264Spec => [](H264TypeOK /\ UnitsComeThrough /\ DescriptionIsTrue)
<1>1. H264Init => H264Inv
  BY H264Starts
<1>2. H264Inv /\ [H264Next]_h264Vars => H264Inv'
  BY H264Steps
<1>3. H264Inv => H264TypeOK /\ UnitsComeThrough /\ DescriptionIsTrue
  BY H264Holds
<1> QED
  BY <1>1, <1>2, <1>3, PTL DEF H264Spec
=============================================================================
