---------------------------- MODULE Frames_proofs --------------------------
(***************************************************************************)
(* The demuxer of a transport stream and the recording on command, for any *)
(* packets, pids, cuts of a read, frames, gaps and lengths: an access unit *)
(* that is handed over is what its packets carried and when, however the   *)
(* bytes came; and what a recording hands on is its frames, each once, in  *)
(* segments that begin with a keyframe and are described as they lie.      *)
(*                                                                         *)
(* With the framing of H.264 and what is proved of the other parts, two    *)
(* theorems of the whole gateway follow at the end.                        *)
(***************************************************************************)
EXTENDS Gateway_proofs, H264_proofs

-----------------------------------------------------------------------------
(* The demuxer of a transport stream.                                      *)

\* What it holds, and hands over.
AccessUnits == [data : Seq(Nat), pts : Nat]

DemuxStates ==
    [table : Tables \cup {Unnamed}, video : Videos \cup {Unnamed}, pes : Seq(Nat), pts : Nat,
     ready : Seq(AccessUnits), ok : BOOLEAN]

\* What a packet that arrives is.
IsPacket(p) ==
    /\ p.pid \in {"pat", "audio"} \cup Tables \cup Videos
    /\ p.flaw \in {"none", "damaged", "no payload", "scrambled", "unsynced"}
    /\ p.start \in BOOLEAN /\ p.pts \in BOOLEAN /\ p.body \in BOOLEAN
    /\ p.flaw # "none" => ~p.start /\ ~p.body
    /\ p.flaw = "none" =>
          /\ p.pid = "pat" => p.names \in Tables \cup {Unnamed}
          /\ p.pid \in Tables => p.names \in Videos \cup {Unnamed} /\ ~p.body
          /\ ~p.start => p.body

\* Of every packet a publisher sends.
LEMMA PacketsAre ==
    ASSUME NEW p \in Packets
    PROVE  IsPacket(p)
<1>1. CASE \E t \in Tables \cup {Unnamed} : p = Sound("pat", TRUE, t, FALSE, FALSE)
  BY <1>1, TransportAssumption DEF IsPacket, Sound
<1>2. CASE \E t \in Tables, v \in Videos \cup {Unnamed} : p = Sound(t, TRUE, v, FALSE, FALSE)
  BY <1>2, TransportAssumption DEF IsPacket, Sound
<1>3. CASE \E v \in Videos, s \in BOOLEAN, b \in BOOLEAN : p = Sound(v, TRUE, Unnamed, s, b)
  BY <1>3, TransportAssumption DEF IsPacket, Sound
<1>4. CASE \E v \in Videos : p = Sound(v, FALSE, Unnamed, FALSE, TRUE)
  BY <1>4, TransportAssumption DEF IsPacket, Sound
<1>5. CASE \E v \in Videos, f \in {"damaged", "no payload"} : p = Flawed(v, f)
  BY <1>5, TransportAssumption DEF IsPacket, Sound, Flawed
<1>6. CASE \E f \in {"scrambled", "unsynced"} : p = Flawed("audio", f)
  BY <1>6, TransportAssumption DEF IsPacket, Sound, Flawed
<1> DEFINE A1 == {Sound("pat", TRUE, t, FALSE, FALSE) : t \in Tables \cup {Unnamed}}
           A2 == {Sound(s[1], TRUE, s[2], FALSE, FALSE) : s \in Tables \X (Videos \cup {Unnamed})}
           A3 == {Sound(s[1], TRUE, Unnamed, s[2], s[3]) : s \in Videos \X BOOLEAN \X BOOLEAN}
           A4 == {Sound(v, FALSE, Unnamed, FALSE, TRUE) : v \in Videos}
           A5 == {Flawed(s[1], s[2]) : s \in Videos \X {"damaged", "no payload"}}
           A6 == {Flawed("audio", f) : f \in {"scrambled", "unsynced"}}
<1>7. Packets = A1 \cup A2 \cup A3 \cup A4 \cup A5 \cup A6
  BY DEF Packets
<1>8. p \in A1 => IsPacket(p)
  BY <1>1
<1>9. p \in A2 => IsPacket(p)
  BY <1>2
<1>10. p \in A3 => IsPacket(p)
  BY <1>3
<1>11. p \in A4 => IsPacket(p)
  BY <1>4
<1>12. p \in A5 => IsPacket(p)
  BY <1>5
<1>13. p \in A6 => IsPacket(p)
  BY <1>6
<1> HIDE DEF A1, A2, A3, A4, A5, A6
<1> QED
  BY <1>7, <1>8, <1>9, <1>10, <1>11, <1>12, <1>13

\* What finish_pes leaves.
LEMMA FinishedIs ==
    ASSUME NEW d \in DemuxStates
    PROVE  /\ Finished(d) \in DemuxStates /\ Finished(d).pes = <<>> /\ Finished(d).pts = 0
           /\ Finished(d).table = d.table /\ Finished(d).video = d.video /\ Finished(d).ok = d.ok
           /\ Finished(d).ready = IF d.pes = <<>> THEN d.ready
                                  ELSE Append(d.ready, [data |-> d.pes, pts |-> d.pts])
<1>1. [data |-> d.pes, pts |-> d.pts] \in AccessUnits
  BY DEF DemuxStates, AccessUnits
<1>2. Append(d.ready, [data |-> d.pes, pts |-> d.pts]) \in Seq(AccessUnits)
  <2>1. d.ready \in Seq(AccessUnits)
    BY DEF DemuxStates
  <2> HIDE DEF AccessUnits
  <2> QED
    BY <1>1, <2>1
<1> HIDE DEF AccessUnits
<1>3. <<>> \in Seq(Nat) /\ 0 \in Nat
  OBVIOUS
<1>4. CASE d.pes = <<>>
  BY <1>3, <1>4 DEF Finished, NoPts, DemuxStates
<1>5. CASE d.pes # <<>>
  BY <1>2, <1>3, <1>5 DEF Finished, NoPts, DemuxStates
<1> QED
  BY <1>4, <1>5

\* What a packet does, case by case.
DoesNothing(d, p) ==
    \/ ~d.ok \/ p.flaw \in {"damaged", "no payload"}
    \/ p.flaw = "none" /\ p.pid \notin {"pat", d.table, d.video}
    \/ p.flaw = "none" /\ p.pid \notin {"pat", d.table} /\ ~p.start /\ d.pes = <<>> /\ d.pts = 0

Fails(d, p) == d.ok /\ p.flaw \in {"unsynced", "scrambled"}

NamesTable(d, p) == d.ok /\ p.flaw = "none" /\ p.pid = "pat"

NamesVideo(d, p) == d.ok /\ p.flaw = "none" /\ p.pid # "pat" /\ p.pid = d.table

Begins(d, p) == d.ok /\ p.flaw = "none" /\ p.pid \notin {"pat", d.table} /\ p.pid = d.video /\ p.start

GoesOn(d, p) ==
    /\ d.ok /\ p.flaw = "none" /\ p.pid \notin {"pat", d.table} /\ p.pid = d.video /\ ~p.start
    /\ d.pes # <<>> \/ d.pts # 0

WithTable(d, t) == [d EXCEPT !.table = t]

WithVideo(d, v) == [d EXCEPT !.video = v]

Failing(d) == [d EXCEPT !.ok = FALSE]

Longer(d, n) == [d EXCEPT !.pes = Append(@, n)]

Begun(d, p, n) ==
    [Finished(d) EXCEPT !.pts = IF p.pts THEN n ELSE 0, !.pes = IF p.body THEN <<n>> ELSE <<>>]

Done(d, e, p, n) ==
    \/ DoesNothing(d, p) /\ e = d
    \/ Fails(d, p) /\ e = Failing(d)
    \/ NamesTable(d, p) /\ e = WithTable(d, p.names)
    \/ NamesVideo(d, p) /\ e = WithVideo(d, p.names)
    \/ Begins(d, p) /\ e = Begun(d, p, n)
    \/ GoesOn(d, p) /\ e = Longer(d, n)

\* There are no other cases.
LEMMA PacketDoes ==
    ASSUME NEW wire, NEW d, NEW n, IsPacket(wire[n])
    PROVE  Done(d, Packet(wire, d, n), wire[n], n)
  BY DEF IsPacket, Packet, DoesNothing, Fails, NamesTable, NamesVideo, Begins, GoesOn, NoPts,
         WithTable, WithVideo, Failing, Longer, Begun, Done

\* Each leaves a state of the demuxer.
LEMMA DoneIs ==
    ASSUME NEW d \in DemuxStates, NEW e, NEW p, NEW n \in Nat, IsPacket(p), Done(d, e, p, n)
    PROVE  e \in DemuxStates
<1>1. CASE DoesNothing(d, p) /\ e = d
  BY <1>1
<1>2. CASE Fails(d, p) /\ e = Failing(d)
  BY <1>2 DEF DemuxStates, Failing
<1>3. CASE NamesTable(d, p) /\ e = WithTable(d, p.names)
  <2>1. p.names \in Tables \cup {Unnamed}
    BY <1>3 DEF NamesTable, IsPacket
  <2> QED
    BY <1>3, <2>1 DEF DemuxStates, WithTable
<1>4. CASE NamesVideo(d, p) /\ e = WithVideo(d, p.names)
  <2>1. p.pid \in Tables \/ p.pid = Unnamed
    BY <1>4 DEF NamesVideo, DemuxStates
  <2>2. p.pid \in Tables
    BY <2>1, TransportAssumption DEF IsPacket, Unnamed
  <2>3. p.names \in Videos \cup {Unnamed}
    BY <1>4, <2>2 DEF NamesVideo, IsPacket
  <2> QED
    BY <1>4, <2>3 DEF DemuxStates, WithVideo
<1>5. CASE Begins(d, p) /\ e = Begun(d, p, n)
  <2> DEFINE s == IF p.pts THEN n ELSE 0
             b == IF p.body THEN <<n>> ELSE <<>>
  <2>1. s \in Nat /\ b \in Seq(Nat)
    OBVIOUS
  <2>2. e = [Finished(d) EXCEPT !.pts = s, !.pes = b]
    BY <1>5 DEF Begun
  <2> HIDE DEF s, b
  <2>3. Finished(d) \in DemuxStates
    BY FinishedIs
  <2> QED
    BY <2>1, <2>2, <2>3 DEF DemuxStates
<1>6. CASE GoesOn(d, p) /\ e = Longer(d, n)
  <2>1. Append(d.pes, n) \in Seq(Nat)
    BY DEF DemuxStates
  <2> QED
    BY <1>6, <2>1 DEF DemuxStates, Longer
<1> QED
  BY <1>1, <1>2, <1>3, <1>4, <1>5, <1>6 DEF Done

\* A packet leaves the demuxer in one of its states.
LEMMA PacketIs ==
    ASSUME NEW wire, NEW d \in DemuxStates, NEW n \in Nat, IsPacket(wire[n])
    PROVE  Packet(wire, d, n) \in DemuxStates
<1>1. Done(d, Packet(wire, d, n), wire[n], n)
  BY PacketDoes
<1> QED
  BY <1>1, DoneIs

\* One packet after the other.
DemuxStep(wire, numbers) ==
    [a \in DemuxStates \X (1..Len(numbers)) |-> Packet(wire, a[1], numbers[a[2]])]

ArePackets(wire, numbers) == \A i \in 1..Len(numbers) : IsPacket(wire[numbers[i]])

\* push goes over the packets one by one: its loop as a sequence of states.
LEMMA DemuxedRecurs ==
    ASSUME NEW wire, NEW d \in DemuxStates, NEW numbers \in Seq(Nat), ArePackets(wire, numbers)
    PROVE  \E f : /\ f \in [0..Len(numbers) -> DemuxStates] /\ f[0] = d
                  /\ \A i \in 1..Len(numbers) : f[i] = Packet(wire, f[i - 1], numbers[i])
                  /\ Demuxed(wire, d, numbers) = f[Len(numbers)]
<1> DEFINE n == Len(numbers)
           Is(g) == g = [i \in 0..n |-> IF i = 0 THEN d ELSE Packet(wire, g[i - 1], numbers[i])]
           f == CHOOSE g : Is(g)
           step == DemuxStep(wire, numbers)
<1>1. n \in Nat /\ \A i \in 1..n : numbers[i] \in Nat /\ IsPacket(wire[numbers[i]])
  BY DEF ArePackets
<1>2. step \in [DemuxStates \X (1..n) -> DemuxStates]
  <2>1. \A a \in DemuxStates \X (1..n) : Packet(wire, a[1], numbers[a[2]]) \in DemuxStates
    BY <1>1, PacketIs
  <2> HIDE DEF DemuxStates
  <2> QED
    BY <2>1 DEF DemuxStep
<1>3. \A s \in DemuxStates, i \in 1..n : step[<<s, i>>] = Packet(wire, s, numbers[i])
  BY DEF DemuxStep
<1> HIDE DEF step
<1>4. PICK g : Recurs(g, DemuxStates, d, n, step)
  <2> HIDE DEF n
  <2> QED
    BY <1>1, <1>2, SomeRecursion
<1>5. Is(g)
  <2>1. g = [i \in 0..n |-> g[i]] /\ g[0] = d
    BY <1>4 DEF Recurs
  <2>2. ASSUME NEW i \in 0..n, i # 0 PROVE g[i] = Packet(wire, g[i - 1], numbers[i])
    <3>1. i \in 1..n /\ i - 1 \in 0..n
      BY <2>2, <1>1
    <3>2. g[i] = step[<<g[i - 1], i>>] /\ g[i - 1] \in DemuxStates
      BY <3>1, <1>4 DEF Recurs
    <3> QED
      BY <3>1, <3>2, <1>3
  <2> HIDE DEF n
  <2> QED
    BY <2>1, <2>2
<1>6. Is(f)
  <2> HIDE DEF Is
  <2> QED
    BY <1>5
<1>7. Demuxed(wire, d, numbers) = f[n]
  BY DEF Demuxed
<1> HIDE DEF f
<1>8. DOMAIN f = 0..n /\ f = [i \in DOMAIN f |-> f[i]] /\ f[0] = d
  BY <1>6, <1>1
<1>9. \A i \in 1..n : f[i] = Packet(wire, f[i - 1], numbers[i])
  <2> SUFFICES ASSUME NEW i \in 1..n PROVE f[i] = Packet(wire, f[i - 1], numbers[i])
    OBVIOUS
  <2>1. i \in 0..n /\ i # 0
    BY <1>1
  <2> HIDE DEF n
  <2> QED
    BY <1>6, <2>1
<1> HIDE DEF n, Is
<1>10. Recurs(f, DemuxStates, d, n, step)
  <2>1. \A i \in 1..n : f[i - 1] \in DemuxStates => f[i] = step[<<f[i - 1], i>>]
    BY <1>3, <1>9
  <2> QED
    BY <1>1, <1>2, <1>8, <2>1, ItRecurs
<1> QED
  BY <1>7, <1>9, <1>10 DEF Recurs, n

\* A demuxer that has seen nothing, and what the first k packets leave of it.
EmptyDemux ==
    [table |-> Unnamed, video |-> Unnamed, pes |-> <<>>, pts |-> NoPts, ready |-> <<>>, ok |-> TRUE]

FirstOf(k) == [j \in 1..k |-> j]

UpTo(wire, k) == Demuxed(wire, EmptyDemux, FirstOf(k))

AllPackets(wire) == Len(wire) \in Nat /\ \A n \in Nat : 1 <= n /\ n <= Len(wire) => IsPacket(wire[n])

\* A demuxer begins in one of its states.
LEMMA EmptyDemuxIs == EmptyDemux \in DemuxStates /\ EmptyDemux.ok
<1>1. <<>> \in Seq(Nat) /\ <<>> \in Seq(AccessUnits) /\ 0 \in Nat
  OBVIOUS
<1> HIDE DEF AccessUnits
<1> QED
  BY <1>1 DEF EmptyDemux, DemuxStates, NoPts

\* The numbers of the first packets, or of some after the first s.
LEMMA NumbersAre ==
    ASSUME NEW wire, NEW s \in Nat, NEW w \in Nat, AllPackets(wire), s + w <= Len(wire),
           NEW numbers, numbers = [k \in 1..w |-> s + k]
    PROVE  numbers \in Seq(Nat) /\ Len(numbers) = w /\ ArePackets(wire, numbers)
<1>1. numbers \in Seq(Nat) /\ Len(numbers) = w
  OBVIOUS
<1>2. ASSUME NEW i \in 1..w PROVE IsPacket(wire[numbers[i]])
  <2>1. numbers[i] = s + i /\ s + i \in Nat /\ 1 <= s + i /\ s + i <= Len(wire)
    BY DEF AllPackets
  <2> QED
    BY <2>1 DEF AllPackets
<1> QED
  BY <1>1, <1>2 DEF ArePackets

\* The first k packets, by number.
LEMMA FirstOfIs ==
    ASSUME NEW wire, NEW k \in Nat, AllPackets(wire), k <= Len(wire)
    PROVE  FirstOf(k) \in Seq(Nat) /\ Len(FirstOf(k)) = k /\ ArePackets(wire, FirstOf(k))
<1>1. FirstOf(k) = [j \in 1..k |-> 0 + j] /\ 0 + k <= Len(wire)
  BY DEF FirstOf, AllPackets
<1> QED
  BY <1>1, NumbersAre

\* What a demuxer holds after k packets, as a sequence of states.
LEMMA UpToIs ==
    ASSUME NEW wire, NEW k \in Nat, AllPackets(wire), k <= Len(wire)
    PROVE  \E f : /\ f \in [0..k -> DemuxStates] /\ f[0] = EmptyDemux
                  /\ \A i \in 1..k : f[i] = Packet(wire, f[i - 1], i)
                  /\ UpTo(wire, k) = f[k]
<1>1. FirstOf(k) \in Seq(Nat) /\ Len(FirstOf(k)) = k /\ ArePackets(wire, FirstOf(k))
  BY FirstOfIs
<1>2. PICK f : /\ f \in [0..Len(FirstOf(k)) -> DemuxStates] /\ f[0] = EmptyDemux
               /\ \A i \in 1..Len(FirstOf(k)) : f[i] = Packet(wire, f[i - 1], FirstOf(k)[i])
               /\ Demuxed(wire, EmptyDemux, FirstOf(k)) = f[Len(FirstOf(k))]
  BY <1>1, EmptyDemuxIs, DemuxedRecurs
<1>3. \A i \in 1..k : FirstOf(k)[i] = i
  BY DEF FirstOf
<1>4. /\ f \in [0..k -> DemuxStates] /\ f[0] = EmptyDemux
      /\ \A i \in 1..k : f[i] = Packet(wire, f[i - 1], i)
      /\ UpTo(wire, k) = f[k]
  BY <1>1, <1>2, <1>3 DEF UpTo
<1> QED
  BY <1>4

\* One packet more is one step more.
LEMMA OnePacketMore ==
    ASSUME NEW wire, NEW k \in Nat, AllPackets(wire), k + 1 <= Len(wire)
    PROVE  UpTo(wire, k + 1) = Packet(wire, UpTo(wire, k), k + 1)
<1>0. k <= Len(wire) /\ k + 1 \in Nat
  BY DEF AllPackets
<1>1. PICK f : /\ f \in [0..k -> DemuxStates] /\ f[0] = EmptyDemux
               /\ \A i \in 1..k : f[i] = Packet(wire, f[i - 1], i)
               /\ UpTo(wire, k) = f[k]
  BY <1>0, UpToIs
<1>2. PICK g : /\ g \in [0..(k + 1) -> DemuxStates] /\ g[0] = EmptyDemux
               /\ \A i \in 1..(k + 1) : g[i] = Packet(wire, g[i - 1], i)
               /\ UpTo(wire, k + 1) = g[k + 1]
  BY <1>0, UpToIs
<1> DEFINE T == {i \in 0..k : f[i] = g[i]}
<1>3. 0 \in T
  BY <1>1, <1>2
<1>4. \A i \in 1..k : i - 1 \in T => i \in T
  <2> SUFFICES ASSUME NEW i \in 1..k, i - 1 \in T PROVE i \in T
    OBVIOUS
  <2>1. i \in 1..(k + 1) /\ i \in 0..k /\ f[i - 1] = g[i - 1]
    OBVIOUS
  <2> QED
    BY <1>1, <1>2, <2>1
<1>5. 0..k \subseteq T
  <2> HIDE DEF T
  <2> QED
    BY <1>3, <1>4, FirstNumbers
<1>6. k \in 0..k /\ k + 1 \in 1..(k + 1) /\ (k + 1) - 1 = k
  OBVIOUS
<1>7. f[k] = g[k]
  BY <1>5, <1>6
<1> HIDE DEF T
<1> QED
  BY <1>1, <1>2, <1>6, <1>7

\* What a demuxer holds after k packets is one of its states.
LEMMA UpToStates ==
    ASSUME NEW wire, NEW k \in Nat, AllPackets(wire), k <= Len(wire)
    PROVE  UpTo(wire, k) \in DemuxStates /\ UpTo(wire, 0) = EmptyDemux
<1>1. PICK f : /\ f \in [0..k -> DemuxStates] /\ f[0] = EmptyDemux
               /\ \A i \in 1..k : f[i] = Packet(wire, f[i - 1], i)
               /\ UpTo(wire, k) = f[k]
  BY UpToIs
<1>2. k \in 0..k /\ 0 <= Len(wire)
  BY DEF AllPackets
<1>3. PICK g : /\ g \in [0..0 -> DemuxStates] /\ g[0] = EmptyDemux
               /\ \A i \in 1..0 : g[i] = Packet(wire, g[i - 1], i)
               /\ UpTo(wire, 0) = g[0]
  BY <1>2, UpToIs
<1> QED
  BY <1>1, <1>2, <1>3

\* A read goes on where the ones before it were.
LEMMA ReadGoesOn ==
    ASSUME NEW wire, NEW s \in Nat, NEW w \in Nat, AllPackets(wire), s + w <= Len(wire)
    PROVE  Demuxed(wire, UpTo(wire, s), [k \in 1..w |-> s + k]) = UpTo(wire, s + w)
<1> DEFINE numbers == [k \in 1..w |-> s + k]
           d == UpTo(wire, s)
<1>1. numbers \in Seq(Nat) /\ Len(numbers) = w /\ ArePackets(wire, numbers)
  BY NumbersAre
<1>2. \A i \in 1..w : numbers[i] = s + i
  OBVIOUS
<1>3. s <= Len(wire)
  BY DEF AllPackets
<1>4. d \in DemuxStates
  BY <1>3, UpToStates
<1> HIDE DEF numbers, d
<1>5. PICK f : /\ f \in [0..Len(numbers) -> DemuxStates] /\ f[0] = d
               /\ \A i \in 1..Len(numbers) : f[i] = Packet(wire, f[i - 1], numbers[i])
               /\ Demuxed(wire, d, numbers) = f[Len(numbers)]
  BY <1>1, <1>4, DemuxedRecurs, ZenonT(30)
<1>6. \A i \in 1..w : f[i] = Packet(wire, f[i - 1], s + i)
  BY <1>1, <1>2, <1>5
<1> DEFINE T == {i \in 0..w : f[i] = UpTo(wire, s + i)}
<1>7. 0 \in T
  <2>1. s + 0 = s /\ 0 \in 0..w
    OBVIOUS
  <2> QED
    BY <1>5, <2>1 DEF d
<1>8. \A i \in 1..w : i - 1 \in T => i \in T
  <2> SUFFICES ASSUME NEW i \in 1..w, i - 1 \in T PROVE i \in T
    OBVIOUS
  <2>1. i \in 0..w /\ f[i - 1] = UpTo(wire, s + (i - 1)) /\ f[i] = Packet(wire, f[i - 1], s + i)
    BY <1>6
  <2>2. /\ s + (i - 1) \in Nat /\ (s + (i - 1)) + 1 = s + i /\ (s + (i - 1)) + 1 <= Len(wire)
    BY DEF AllPackets
  <2> DEFINE m == s + (i - 1)
  <2>3. m \in Nat /\ m + 1 = s + i /\ m + 1 <= Len(wire) /\ f[i - 1] = UpTo(wire, m)
    BY <2>1, <2>2
  <2> HIDE DEF m
  <2>4. UpTo(wire, m + 1) = Packet(wire, UpTo(wire, m), m + 1)
    BY <2>3, OnePacketMore
  <2>5. f[i] = UpTo(wire, s + i)
    BY <2>1, <2>3, <2>4
  <2> QED
    BY <2>1, <2>5
<1>9. 0..w \subseteq T
  <2> HIDE DEF T
  <2> QED
    BY <1>7, <1>8, FirstNumbers
<1>10. w \in 0..w
  OBVIOUS
<1>11. f[w] = UpTo(wire, s + w)
  BY <1>9, <1>10
<1>12. Demuxed(wire, d, numbers) = UpTo(wire, s + w)
  BY <1>1, <1>5, <1>11
<1> QED
  BY <1>12 DEF d, numbers

\* What was sent later makes no difference.
LEMMA UpToAlike ==
    ASSUME NEW wire, NEW more, AllPackets(wire), AllPackets(more), Len(wire) <= Len(more),
           \A n \in Nat : 1 <= n /\ n <= Len(wire) => more[n] = wire[n],
           NEW k \in Nat, k <= Len(wire)
    PROVE  UpTo(more, k) = UpTo(wire, k)
<1> DEFINE T == {i \in 0..k : UpTo(more, i) = UpTo(wire, i)}
<1>1. 0 \in T
  <2>1. k <= Len(more)
    BY DEF AllPackets
  <2>2. UpTo(wire, 0) = EmptyDemux
    BY UpToStates
  <2>3. UpTo(more, 0) = EmptyDemux
    BY <2>1, UpToStates
  <2> QED
    BY <2>2, <2>3
<1>2. \A i \in 1..k : i - 1 \in T => i \in T
  <2> SUFFICES ASSUME NEW i \in 1..k, i - 1 \in T PROVE i \in T
    OBVIOUS
  <2> DEFINE m == i - 1
  <2>1. m \in Nat /\ m + 1 = i /\ m + 1 <= Len(wire) /\ m + 1 <= Len(more) /\ i \in 0..k
    BY DEF AllPackets
  <2>2. UpTo(more, m) = UpTo(wire, m) /\ more[i] = wire[i]
    BY <2>1
  <2> HIDE DEF m
  <2>3. UpTo(more, m + 1) = Packet(more, UpTo(more, m), m + 1)
    BY <2>1, OnePacketMore
  <2>4. UpTo(wire, m + 1) = Packet(wire, UpTo(wire, m), m + 1)
    BY <2>1, OnePacketMore
  <2>5. ASSUME NEW d PROVE Packet(more, d, i) = Packet(wire, d, i)
    BY <2>2 DEF Packet
  <2> QED
    BY <2>1, <2>2, <2>3, <2>4, <2>5
<1>3. 0..k \subseteq T
  <2> HIDE DEF T
  <2> QED
    BY <1>1, <1>2, FirstNumbers
<1>4. k \in 0..k
  OBVIOUS
<1> QED
  BY <1>3, <1>4

\* Numbers of the first k packets, each once and in order; the last of them.
Top(s) == s[Len(s)]

Ordered(s, k) ==
    /\ s \in Seq(Nat)
    /\ \A i \in 1..Len(s) : 1 <= s[i] /\ s[i] <= k /\ s[i] <= Top(s)
    /\ \A i \in 1..(Len(s) - 1) : s[i] < s[i + 1]

IsIn(n, s) == \E i \in 1..Len(s) : s[i] = n

\* Up to the k-th packet no table names another video than v, or takes it back.
Tabled(wire, n) == wire[n].pid \in Tables

SettledOn(wire, v, k) ==
    \A m \in 1..k : \A n \in 1..k :
        Tabled(wire, m) /\ Tabled(wire, n) /\ m <= n => wire[n].names = v \/ wire[m].names = Unnamed

\* A frame of v that began with the b-th of the first k packets, and no later one.
StartsVideo(wire, n, v) == wire[n].pid = v /\ wire[n].start

CarriesVideo(wire, n, v) == wire[n].pid = v /\ wire[n].body

FrameFrom(wire, data, pts, v, k, b) ==
    /\ StartsVideo(wire, b, v)
    /\ \A n \in 1..k : StartsVideo(wire, n, v) => n <= b
    /\ \A n \in 1..k : IsIn(n, data) <=> CarriesVideo(wire, n, v) /\ b <= n
    /\ pts = IF wire[b].pts THEN b ELSE 0

IsFrame(wire, data, pts, v, k) == \E b \in 1..k : FrameFrom(wire, data, pts, v, k, b)

\* Numbers in order stay so for one packet more, with it or without it.
LEMMA OrderGoesOn ==
    ASSUME NEW k \in Nat, NEW s, Ordered(s, k)
    PROVE  /\ Ordered(s, k + 1) /\ Ordered(Append(s, k + 1), k + 1) /\ Ordered(<<k + 1>>, k + 1)
           /\ Ordered(<<>>, k + 1) /\ Top(Append(s, k + 1)) = k + 1 /\ Top(<<k + 1>>) = k + 1
           /\ Append(s, k + 1) # <<>>
           /\ \A n \in 1..k : IsIn(n, Append(s, k + 1)) <=> IsIn(n, s)
           /\ IsIn(k + 1, Append(s, k + 1)) /\ ~IsIn(k + 1, s)
<1> DEFINE t == Append(s, k + 1)
           z == Len(s)
<1>1. z \in Nat /\ s \in Seq(Nat) /\ \A i \in 1..z : s[i] \in Nat /\ 1 <= s[i] /\ s[i] <= k
  BY DEF Ordered
<1>2. t \in Seq(Nat) /\ Len(t) = z + 1 /\ t[z + 1] = k + 1 /\ \A i \in 1..z : t[i] = s[i]
  BY <1>1, OneMoreIs
<1>3. z + 1 \in 1..(z + 1) /\ \A i \in 1..(z + 1) : i = z + 1 \/ i \in 1..z
  BY <1>1
<1> HIDE DEF t
<1>4. Ordered(s, k + 1)
  BY <1>1 DEF Ordered
<1>5. \A i \in 1..(z + 1) : t[i] \in Nat /\ 1 <= t[i] /\ t[i] <= k + 1
  <2> SUFFICES ASSUME NEW i \in 1..(z + 1) PROVE t[i] \in Nat /\ 1 <= t[i] /\ t[i] <= k + 1
    OBVIOUS
  <2>1. CASE i = z + 1
    BY <2>1, <1>2
  <2>2. CASE i \in 1..z
    <3>1. t[i] = s[i] /\ s[i] \in Nat /\ 1 <= s[i] /\ s[i] <= k
      BY <2>2, <1>1, <1>2
    <3> HIDE DEF z
    <3> QED
      BY <3>1
  <2> HIDE DEF z
  <2> QED
    BY <2>1, <2>2, <1>3
<1>6. ASSUME NEW i \in 1..z PROVE t[i] < t[i + 1]
  <2>1. CASE i = z
    BY <2>1, <1>1, <1>2
  <2>2. CASE i # z
    <3>1. i \in 1..(z - 1) /\ i + 1 \in 1..z
      BY <2>2, <1>1
    <3>2. s[i] < s[i + 1]
      BY <3>1 DEF Ordered
    <3> QED
      BY <3>1, <3>2, <1>2
  <2> QED
    BY <2>1, <2>2
<1>7. Ordered(t, k + 1)
  <2>1. (z + 1) - 1 = z
    BY <1>1
  <2>2. Top(t) = k + 1
    BY <1>2 DEF Top
  <2> HIDE DEF z
  <2> QED
    BY <2>1, <2>2, <1>2, <1>5, <1>6 DEF Ordered
<1>8. Ordered(<<k + 1>>, k + 1) /\ Ordered(<<>>, k + 1) /\ Top(<<k + 1>>) = k + 1
  BY DEF Ordered, Top
<1>9. Top(t) = k + 1 /\ t # <<>>
  BY <1>1, <1>2 DEF Top
<1>10. \A n \in 1..k : IsIn(n, t) <=> IsIn(n, s)
  <2> SUFFICES ASSUME NEW n \in 1..k PROVE IsIn(n, t) <=> IsIn(n, s)
    OBVIOUS
  <2>1. ASSUME IsIn(n, t) PROVE IsIn(n, s)
    <3>1. PICK i \in 1..(z + 1) : t[i] = n
      BY <2>1, <1>2 DEF IsIn
    <3>2. i # z + 1
      BY <3>1, <1>2
    <3> QED
      BY <3>1, <3>2, <1>2, <1>3 DEF IsIn
  <2>2. ASSUME IsIn(n, s) PROVE IsIn(n, t)
    <3>1. PICK i \in 1..z : s[i] = n
      BY <2>2 DEF IsIn
    <3>2. i \in 1..(z + 1) /\ t[i] = n
      BY <3>1, <1>1, <1>2, SMTT(30)
    <3> QED
      BY <3>2, <1>2 DEF IsIn
  <2> QED
    BY <2>1, <2>2
<1>11. IsIn(k + 1, t) /\ ~IsIn(k + 1, s)
  <2>1. ASSUME IsIn(k + 1, s) PROVE FALSE
    <3>1. PICK i \in 1..z : s[i] = k + 1
      BY <2>1 DEF IsIn
    <3> QED
      BY <3>1, <1>1
  <2> HIDE DEF z
  <2>2. IsIn(k + 1, t)
    BY <1>2, <1>3 DEF IsIn
  <2> QED
    BY <2>1, <2>2
<1> QED
  BY <1>4, <1>7, <1>8, <1>9, <1>10, <1>11 DEF t

\* The tables before the last packet are among those with it.
LEMMA SettledBefore ==
    ASSUME NEW wire, NEW v, NEW k \in Nat, SettledOn(wire, v, k + 1)
    PROVE  SettledOn(wire, v, k)
<1>1. \A m \in 1..k : m \in 1..(k + 1)
  OBVIOUS
<1> QED
  BY <1>1 DEF SettledOn

\* A packet that is not of the video leaves its frame as it is.
LEMMA FrameStays ==
    ASSUME NEW wire, NEW data, NEW pts, NEW v, NEW k \in Nat, Ordered(data, k),
           IsFrame(wire, data, pts, v, k), ~StartsVideo(wire, k + 1, v), ~CarriesVideo(wire, k + 1, v)
    PROVE  IsFrame(wire, data, pts, v, k + 1)
<1>1. PICK b \in 1..k : FrameFrom(wire, data, pts, v, k, b)
  BY DEF IsFrame
<1>2. ~IsIn(k + 1, data)
  BY OrderGoesOn
<1>3. b \in 1..(k + 1) /\ \A n \in 1..(k + 1) : n = k + 1 \/ n \in 1..k
  OBVIOUS
<1>4. FrameFrom(wire, data, pts, v, k + 1, b)
  BY <1>1, <1>2, <1>3 DEF FrameFrom
<1> QED
  BY <1>3, <1>4 DEF IsFrame

\* One that goes on with it is its last.
LEMMA FrameGrows ==
    ASSUME NEW wire, NEW data, NEW pts, NEW v, NEW k \in Nat, Ordered(data, k),
           IsFrame(wire, data, pts, v, k), ~StartsVideo(wire, k + 1, v), CarriesVideo(wire, k + 1, v)
    PROVE  IsFrame(wire, Append(data, k + 1), pts, v, k + 1)
<1> DEFINE t == Append(data, k + 1)
<1>1. PICK b \in 1..k : FrameFrom(wire, data, pts, v, k, b)
  BY DEF IsFrame
<1>2. IsIn(k + 1, t) /\ \A n \in 1..k : IsIn(n, t) <=> IsIn(n, data)
  BY OrderGoesOn
<1>3. b \in 1..(k + 1) /\ b <= k + 1 /\ \A n \in 1..(k + 1) : n = k + 1 \/ n \in 1..k
  OBVIOUS
<1> HIDE DEF t
<1>4. FrameFrom(wire, t, pts, v, k + 1, b)
  BY <1>1, <1>2, <1>3 DEF FrameFrom
<1> QED
  BY <1>3, <1>4 DEF IsFrame, t

\* One that starts is a new frame.
LEMMA FrameStarts ==
    ASSUME NEW wire, NEW v, NEW n \in Nat, n # 0, StartsVideo(wire, n, v), NEW data, NEW pts,
           data = IF wire[n].body THEN <<n>> ELSE <<>>, pts = IF wire[n].pts THEN n ELSE 0
    PROVE  IsFrame(wire, data, pts, v, n)
<1>1. n \in 1..n /\ \A m \in 1..n : m <= n /\ (n <= m => m = n)
  OBVIOUS
<1>2. \A m \in 1..n : IsIn(m, data) <=> m = n /\ wire[n].body
  <2>1. CASE wire[n].body
    <3>1. data = <<n>> /\ Len(data) = 1 /\ data[1] = n
      BY <2>1
    <3> QED
      BY <2>1, <3>1 DEF IsIn
  <2>2. CASE ~wire[n].body
    <3>1. data = <<>> /\ Len(data) = 0
      BY <2>2
    <3> QED
      BY <2>2, <3>1 DEF IsIn
  <2> QED
    BY <2>1, <2>2
<1>3. FrameFrom(wire, data, pts, v, n, n)
  BY <1>1, <1>2 DEF FrameFrom, StartsVideo, CarriesVideo
<1> QED
  BY <1>1, <1>3 DEF IsFrame

\* An access unit is the frame of whatever video was settled when it ended.
UnitIsGood(wire, k, data, pts) ==
    /\ data # <<>> /\ Ordered(data, k)
    /\ \A v \in Videos : SettledOn(wire, v, Top(data)) => IsFrame(wire, data, pts, v, Top(data))

\* What the demuxer holds after k packets, and handed over.
VideoWasNamed(wire, k, d) ==
    d.video # Unnamed => \E m \in 1..k : Tabled(wire, m) /\ wire[m].names = d.video

PesIsOpen(d) == d.pes # <<>> \/ d.pts # 0

PesIsFrame(wire, k, d) ==
    PesIsOpen(d) => \A v \in Videos : SettledOn(wire, v, k) =>
        IsFrame(wire, d.pes, d.pts, v, k) /\ d.video = v

ReadyIsGood(wire, k, handed) ==
    \A i \in 1..Len(handed) : UnitIsGood(wire, k, handed[i].data, handed[i].pts)

DemuxIsGood(wire, k, d) ==
    /\ VideoWasNamed(wire, k, d) /\ PesIsFrame(wire, k, d) /\ ReadyIsGood(wire, k, d.ready)
    /\ Ordered(d.pes, k) /\ d.pts <= k
    /\ d.pes # <<>> => UnitIsGood(wire, k, d.pes, d.pts)

\* An access unit that was handed over stays good when a packet more is seen.
LEMMA UnitsStayGood ==
    ASSUME NEW wire, NEW k \in Nat, NEW data, NEW pts, UnitIsGood(wire, k, data, pts)
    PROVE  UnitIsGood(wire, k + 1, data, pts)
<1>1. Ordered(data, k + 1)
  BY OrderGoesOn DEF UnitIsGood
<1> QED
  BY <1>1 DEF UnitIsGood

\* Nothing is both named and settled but the video.
LEMMA NamedIsSettled ==
    ASSUME NEW wire, NEW k \in Nat, NEW d, VideoWasNamed(wire, k, d), d.video # Unnamed,
           NEW v, SettledOn(wire, v, k)
    PROVE  d.video = v
<1>1. PICK m \in 1..k : Tabled(wire, m) /\ wire[m].names = d.video
  BY DEF VideoWasNamed
<1>2. m <= m
  BY <1>1
<1> QED
  BY <1>1, <1>2 DEF SettledOn

\* What finish_pes hands over.
LEMMA FinishedIsGood ==
    ASSUME NEW wire, NEW k \in Nat, NEW d \in DemuxStates, DemuxIsGood(wire, k, d)
    PROVE  ReadyIsGood(wire, k, Finished(d).ready)
<1>1. Finished(d).ready = IF d.pes = <<>> THEN d.ready ELSE Append(d.ready, [data |-> d.pes, pts |-> d.pts])
  BY FinishedIs
<1>2. CASE d.pes = <<>>
  BY <1>1, <1>2 DEF DemuxIsGood
<1>3. CASE d.pes # <<>>
  <2> DEFINE u == [data |-> d.pes, pts |-> d.pts]
             r == d.ready
             t == Append(r, u)
  <2>1. u \in AccessUnits /\ r \in Seq(AccessUnits) /\ u.data = d.pes /\ u.pts = d.pts
    BY DEF DemuxStates, AccessUnits
  <2>2. UnitIsGood(wire, k, u.data, u.pts) /\ ReadyIsGood(wire, k, r)
    BY <1>3, <2>1 DEF DemuxIsGood
  <2> HIDE DEF u, r
  <2>3. Len(t) = Len(r) + 1 /\ Len(r) \in Nat /\ t[Len(r) + 1] = u /\ \A i \in 1..Len(r) : t[i] = r[i]
    BY <2>1, OneMoreIs
  <2>4. \A i \in 1..(Len(r) + 1) : i = Len(r) + 1 \/ i \in 1..Len(r)
    BY <2>3
  <2> HIDE DEF t
  <2>5. ReadyIsGood(wire, k, t)
    <3> SUFFICES ASSUME NEW i \in 1..Len(t) PROVE UnitIsGood(wire, k, t[i].data, t[i].pts)
      BY DEF ReadyIsGood
    <3>1. CASE i = Len(r) + 1
      BY <3>1, <2>2, <2>3
    <3>2. CASE i \in 1..Len(r)
      <4>1. UnitIsGood(wire, k, r[i].data, r[i].pts)
        BY <3>2, <2>2 DEF ReadyIsGood
      <4> QED
        BY <4>1, <3>2, <2>3
    <3> QED
      BY <3>1, <3>2, <2>3, <2>4
  <2> QED
    BY <1>1, <1>3, <2>5 DEF t, u, r
<1> QED
  BY <1>2, <1>3

\* A packet that is no part of the frame: it is of no video, of another one, or flawed.
LEMMA OthersLeaveIt ==
    ASSUME NEW wire, NEW k \in Nat, NEW d \in DemuxStates, DemuxIsGood(wire, k, d),
           NEW e \in DemuxStates, e.video = d.video, e.pes = d.pes, e.pts = d.pts, e.ready = d.ready,
           \A v \in Videos : PesIsOpen(d) /\ d.video = v =>
               ~StartsVideo(wire, k + 1, v) /\ ~CarriesVideo(wire, k + 1, v)
    PROVE  DemuxIsGood(wire, k + 1, e)
<1>1. VideoWasNamed(wire, k + 1, e)
  <2>1. \A m \in 1..k : m \in 1..(k + 1)
    OBVIOUS
  <2> QED
    BY <2>1 DEF VideoWasNamed, DemuxIsGood
<1>2. PesIsFrame(wire, k + 1, e)
  <2> SUFFICES ASSUME PesIsOpen(e), NEW v \in Videos, SettledOn(wire, v, k + 1)
               PROVE  IsFrame(wire, e.pes, e.pts, v, k + 1) /\ e.video = v
    BY DEF PesIsFrame
  <2>1. SettledOn(wire, v, k) /\ PesIsOpen(d)
    BY SettledBefore DEF PesIsOpen
  <2>2. IsFrame(wire, d.pes, d.pts, v, k) /\ d.video = v /\ Ordered(d.pes, k)
    BY <2>1 DEF DemuxIsGood, PesIsFrame
  <2>3. IsFrame(wire, d.pes, d.pts, v, k + 1)
    BY <2>1, <2>2, FrameStays
  <2> QED
    BY <2>2, <2>3
<1>3. ReadyIsGood(wire, k + 1, e.ready)
  BY UnitsStayGood DEF DemuxIsGood, ReadyIsGood
<1>4. Ordered(e.pes, k + 1) /\ e.pts <= k + 1
  <2>1. Ordered(d.pes, k) /\ d.pts <= k /\ d.pts \in Nat
    BY DEF DemuxIsGood, DemuxStates
  <2>2. Ordered(d.pes, k + 1)
    BY <2>1, OrderGoesOn
  <2> QED
    BY <2>1, <2>2
<1>5. e.pes # <<>> => UnitIsGood(wire, k + 1, e.pes, e.pts)
  BY UnitsStayGood DEF DemuxIsGood
<1> QED
  BY <1>1, <1>2, <1>3, <1>4, <1>5 DEF DemuxIsGood

\* A table names the video.
LEMMA NamingKeepsIt ==
    ASSUME NEW wire, NEW k \in Nat, NEW d \in DemuxStates, DemuxIsGood(wire, k, d),
           IsPacket(wire[k + 1]), NamesVideo(d, wire[k + 1])
    PROVE  DemuxIsGood(wire, k + 1, WithVideo(d, wire[k + 1].names))
<1> DEFINE p == wire[k + 1]
           e == WithVideo(d, p.names)
<1>1. p.pid \in Tables /\ p.names \in Videos \cup {Unnamed} /\ p.pid \notin Videos
  <2>1. p.pid \in Tables \/ p.pid = Unnamed
    BY DEF NamesVideo, DemuxStates
  <2>2. p.pid \in Tables
    BY <2>1, TransportAssumption DEF IsPacket, Unnamed
  <2> QED
    BY <2>2, TransportAssumption DEF NamesVideo, IsPacket
<1>2. e.video = p.names /\ e.pes = d.pes /\ e.pts = d.pts /\ e.ready = d.ready
  BY DEF WithVideo, DemuxStates
<1>3. k + 1 \in 1..(k + 1) /\ Tabled(wire, k + 1)
  BY <1>1 DEF Tabled
<1> HIDE DEF e
<1>4. VideoWasNamed(wire, k + 1, e)
  BY <1>2, <1>3 DEF VideoWasNamed
<1>5. PesIsFrame(wire, k + 1, e)
  <2> SUFFICES ASSUME PesIsOpen(e), NEW v \in Videos, SettledOn(wire, v, k + 1)
               PROVE  IsFrame(wire, e.pes, e.pts, v, k + 1) /\ e.video = v
    BY DEF PesIsFrame
  <2>1. SettledOn(wire, v, k) /\ PesIsOpen(d)
    BY <1>2, SettledBefore DEF PesIsOpen
  <2>2. IsFrame(wire, d.pes, d.pts, v, k) /\ d.video = v /\ Ordered(d.pes, k)
    BY <2>1 DEF DemuxIsGood, PesIsFrame
  <2>3. ~StartsVideo(wire, k + 1, v) /\ ~CarriesVideo(wire, k + 1, v)
    BY <1>1 DEF StartsVideo, CarriesVideo
  <2>4. IsFrame(wire, d.pes, d.pts, v, k + 1)
    BY <2>1, <2>2, <2>3, FrameStays
  <2>5. v # Unnamed
    BY TransportAssumption
  <2>6. PICK m \in 1..k : Tabled(wire, m) /\ wire[m].names = v
    BY <2>2, <2>5 DEF DemuxIsGood, VideoWasNamed
  <2>7. m \in 1..(k + 1) /\ m <= k + 1
    OBVIOUS
  <2>8. p.names = v
    BY <2>5, <2>6, <2>7, <1>3 DEF SettledOn
  <2> QED
    BY <1>2, <2>4, <2>8
<1>6. ReadyIsGood(wire, k + 1, e.ready)
  BY <1>2, UnitsStayGood DEF DemuxIsGood, ReadyIsGood
<1>7. Ordered(e.pes, k + 1) /\ e.pts <= k + 1
  <2>1. Ordered(d.pes, k) /\ d.pts <= k /\ d.pts \in Nat
    BY DEF DemuxIsGood, DemuxStates
  <2>2. Ordered(d.pes, k + 1)
    BY <2>1, OrderGoesOn
  <2> QED
    BY <1>2, <2>1, <2>2
<1>8. e.pes # <<>> => UnitIsGood(wire, k + 1, e.pes, e.pts)
  BY <1>2, UnitsStayGood DEF DemuxIsGood
<1> QED
  BY <1>4, <1>5, <1>6, <1>7, <1>8 DEF DemuxIsGood, e

\* A PES packet starts: the one before it is handed over, and the new one is a frame.
LEMMA BeginningKeepsIt ==
    ASSUME NEW wire, NEW k \in Nat, NEW d \in DemuxStates, DemuxIsGood(wire, k, d),
           IsPacket(wire[k + 1]), Begins(d, wire[k + 1])
    PROVE  DemuxIsGood(wire, k + 1, Begun(d, wire[k + 1], k + 1))
<1> DEFINE n == k + 1
           p == wire[k + 1]
           s == IF p.pts THEN n ELSE 0
           b == IF p.body THEN <<n>> ELSE <<>>
           e == Begun(d, p, n)
<1>1. /\ e.video = d.video /\ e.pes = b /\ e.pts = s /\ e.ready = Finished(d).ready
  <2>1. Finished(d) \in DemuxStates /\ Finished(d).video = d.video
    BY FinishedIs
  <2>2. e = [Finished(d) EXCEPT !.pts = s, !.pes = b]
    BY DEF Begun
  <2> HIDE DEF s, b
  <2> QED
    BY <2>1, <2>2 DEF DemuxStates
<1>2. d.video \in Videos /\ StartsVideo(wire, n, d.video)
  <2>1. d.video \in Videos \/ d.video = Unnamed
    BY DEF DemuxStates
  <2>2. p.pid # Unnamed
    BY TransportAssumption DEF IsPacket, Unnamed
  <2> QED
    BY <2>1, <2>2 DEF Begins, StartsVideo
<1>3. /\ Ordered(b, n) /\ s \in Nat /\ s <= n /\ (b # <<>> => b = <<n>> /\ Top(b) = n)
  <2>1. Ordered(<<n>>, n) /\ Ordered(<<>>, n) /\ Top(<<n>>) = n
    BY OrderGoesOn DEF DemuxIsGood
  <2> QED
    BY <2>1
<1> HIDE DEF e
<1>4. VideoWasNamed(wire, n, e)
  <2>1. \A m \in 1..k : m \in 1..n
    OBVIOUS
  <2> QED
    BY <1>1, <2>1 DEF VideoWasNamed, DemuxIsGood
<1>5. IsFrame(wire, b, s, d.video, n)
  <2>1. n \in Nat /\ n # 0 /\ b = (IF wire[n].body THEN <<n>> ELSE <<>>) /\ s = (IF wire[n].pts THEN n ELSE 0)
    OBVIOUS
  <2> HIDE DEF b, s, n, p
  <2> QED
    BY <1>2, <2>1, FrameStarts
<1> HIDE DEF b, s
<1>6. ASSUME NEW v \in Videos, SettledOn(wire, v, n) PROVE IsFrame(wire, b, s, v, n) /\ e.video = v
  <2>1. d.video # Unnamed
    BY <1>2, TransportAssumption
  <2>2. SettledOn(wire, v, k) /\ VideoWasNamed(wire, k, d)
    BY <1>6, SettledBefore DEF DemuxIsGood
  <2>3. d.video = v
    BY <2>1, <2>2, NamedIsSettled
  <2> QED
    BY <2>3, <1>1, <1>5
<1>7. PesIsFrame(wire, n, e)
  BY <1>1, <1>6 DEF PesIsFrame
<1>8. ReadyIsGood(wire, n, e.ready)
  <2>1. ReadyIsGood(wire, k, Finished(d).ready)
    BY FinishedIsGood
  <2> QED
    BY <1>1, <2>1, UnitsStayGood DEF ReadyIsGood
<1>9. e.pes # <<>> => UnitIsGood(wire, n, e.pes, e.pts)
  BY <1>1, <1>3, <1>6 DEF UnitIsGood
<1> HIDE DEF n, p
<1> QED
  BY <1>1, <1>3, <1>4, <1>7, <1>8, <1>9 DEF DemuxIsGood, e, n, p

\* One goes on.
LEMMA GoingOnKeepsIt ==
    ASSUME NEW wire, NEW k \in Nat, NEW d \in DemuxStates, DemuxIsGood(wire, k, d),
           IsPacket(wire[k + 1]), GoesOn(d, wire[k + 1])
    PROVE  DemuxIsGood(wire, k + 1, Longer(d, k + 1))
<1> DEFINE n == k + 1
           p == wire[k + 1]
           t == Append(d.pes, n)
           e == Longer(d, n)
<1>1. e.video = d.video /\ e.pes = t /\ e.pts = d.pts /\ e.ready = d.ready
  <2> HIDE DEF n
  <2> QED
    BY DEF Longer, DemuxStates
<1>2. Ordered(d.pes, k) /\ d.pts <= k /\ d.pts \in Nat
  BY DEF DemuxIsGood, DemuxStates
<1>3. Ordered(t, n) /\ Top(t) = n /\ t # <<>>
  BY <1>2, OrderGoesOn
<1> HIDE DEF e, t
<1>4. VideoWasNamed(wire, n, e)
  <2>1. \A m \in 1..k : m \in 1..n
    OBVIOUS
  <2> QED
    BY <1>1, <2>1 DEF VideoWasNamed, DemuxIsGood
<1>5. ASSUME NEW v \in Videos, SettledOn(wire, v, n) PROVE IsFrame(wire, t, d.pts, v, n) /\ e.video = v
  <2>1. SettledOn(wire, v, k) /\ PesIsOpen(d)
    BY <1>5, SettledBefore DEF PesIsOpen, GoesOn
  <2>2. IsFrame(wire, d.pes, d.pts, v, k) /\ d.video = v
    BY <2>1 DEF DemuxIsGood, PesIsFrame
  <2>3. ~StartsVideo(wire, k + 1, v) /\ CarriesVideo(wire, k + 1, v)
    BY <2>2 DEF GoesOn, StartsVideo, CarriesVideo, IsPacket
  <2> QED
    BY <1>1, <1>2, <2>2, <2>3, FrameGrows DEF t
<1>6. PesIsFrame(wire, n, e)
  BY <1>1, <1>5 DEF PesIsFrame
<1>7. ReadyIsGood(wire, n, e.ready)
  BY <1>1, UnitsStayGood DEF DemuxIsGood, ReadyIsGood
<1>8. UnitIsGood(wire, n, e.pes, e.pts)
  BY <1>1, <1>3, <1>5 DEF UnitIsGood
<1>9. d.pts <= n
  BY <1>2
<1> HIDE DEF n, p
<1> QED
  BY <1>1, <1>3, <1>4, <1>6, <1>7, <1>8, <1>9 DEF DemuxIsGood, e, n

\* A packet keeps what the demuxer holds and has handed over good.
LEMMA PacketKeepsIt ==
    ASSUME NEW wire, NEW k \in Nat, NEW d \in DemuxStates, IsPacket(wire[k + 1]),
           d.ok => DemuxIsGood(wire, k, d),
           NEW e \in DemuxStates, e.ok, Done(d, e, wire[k + 1], k + 1)
    PROVE  d.ok /\ DemuxIsGood(wire, k + 1, e)
<1> DEFINE p == wire[k + 1]
<1>2. CASE DoesNothing(d, p) /\ e = d
  <2>1. ASSUME NEW v \in Videos, PesIsOpen(d), d.video = v
        PROVE  ~StartsVideo(wire, k + 1, v) /\ ~CarriesVideo(wire, k + 1, v)
    <3>1. v \notin Tables /\ v # "pat" /\ v # Unnamed
      BY TransportAssumption
    <3>2. d.table \in Tables \/ d.table = Unnamed
      BY DEF DemuxStates
    <3>3. d.table # v
      BY <3>1, <3>2
    <3> QED
      BY <1>2, <2>1, <3>1, <3>3 DEF DoesNothing, PesIsOpen, StartsVideo, CarriesVideo, IsPacket
  <2> QED
    BY <1>2, <2>1, OthersLeaveIt
<1>3. CASE Fails(d, p) /\ e = Failing(d)
  <2>1. ~e.ok
    BY <1>3 DEF Failing, DemuxStates
  <2> QED
    BY <2>1
<1>4. CASE NamesTable(d, p) /\ e = WithTable(d, p.names)
  <2>1. ASSUME NEW v \in Videos, PesIsOpen(d), d.video = v
        PROVE  ~StartsVideo(wire, k + 1, v) /\ ~CarriesVideo(wire, k + 1, v)
    BY <1>4, TransportAssumption DEF NamesTable, StartsVideo, CarriesVideo
  <2>2. e.video = d.video /\ e.pes = d.pes /\ e.pts = d.pts /\ e.ready = d.ready /\ d.ok
    BY <1>4 DEF WithTable, NamesTable, DemuxStates
  <2> QED
    BY <2>1, <2>2, OthersLeaveIt
<1>5. CASE NamesVideo(d, p) /\ e = WithVideo(d, p.names)
  BY <1>5, NamingKeepsIt DEF NamesVideo
<1>6. CASE Begins(d, p) /\ e = Begun(d, p, k + 1)
  BY <1>6, BeginningKeepsIt DEF Begins
<1>7. CASE GoesOn(d, p) /\ e = Longer(d, k + 1)
  BY <1>7, GoingOnKeepsIt DEF GoesOn
<1> QED
  BY <1>2, <1>3, <1>4, <1>5, <1>6, <1>7 DEF Done

\* A demuxer that has seen nothing holds nothing that is not good.
LEMMA EmptyIsGood == ASSUME NEW wire PROVE DemuxIsGood(wire, 0, EmptyDemux)
<1>1. Ordered(<<>>, 0)
  BY DEF Ordered
<1> QED
  BY <1>1 DEF DemuxIsGood, VideoWasNamed, PesIsFrame, PesIsOpen, ReadyIsGood, EmptyDemux, NoPts

\* Whatever was sent, what the demuxer made of it is good.
LEMMA UpToIsGood ==
    ASSUME NEW wire, AllPackets(wire), NEW k \in Nat, k <= Len(wire), UpTo(wire, k).ok
    PROVE  DemuxIsGood(wire, k, UpTo(wire, k))
<1> DEFINE T == {i \in 0..k : UpTo(wire, i).ok => DemuxIsGood(wire, i, UpTo(wire, i))}
<1>1. 0 \in T
  BY EmptyIsGood, UpToStates
<1>2. \A i \in 1..k : i - 1 \in T => i \in T
  <2> SUFFICES ASSUME NEW i \in 1..k, i - 1 \in T PROVE i \in T
    OBVIOUS
  <2> DEFINE m == i - 1
             d == UpTo(wire, m)
             e == UpTo(wire, m + 1)
  <2>1. /\ m \in Nat /\ m + 1 = i /\ m + 1 \in Nat /\ 1 <= m + 1 /\ m <= Len(wire) /\ m + 1 <= Len(wire)
        /\ i \in 0..k
    BY DEF AllPackets
  <2>2. d.ok => DemuxIsGood(wire, m, d)
    OBVIOUS
  <2> HIDE DEF m
  <2>3. e = Packet(wire, d, m + 1) /\ IsPacket(wire[m + 1])
    BY <2>1, OnePacketMore DEF AllPackets
  <2>4. d \in DemuxStates /\ e \in DemuxStates
    BY <2>1, UpToStates
  <2>5. Done(d, e, wire[m + 1], m + 1)
    BY <2>3, PacketDoes
  <2> HIDE DEF d, e
  <2>6. e.ok => DemuxIsGood(wire, m + 1, e)
    BY <2>1, <2>2, <2>3, <2>4, <2>5, PacketKeepsIt
  <2> QED
    BY <2>1, <2>6 DEF e
<1>3. 0..k \subseteq T
  <2> HIDE DEF T
  <2> QED
    BY <1>1, <1>2, FirstNumbers
<1>4. k \in 0..k
  OBVIOUS
<1> QED
  BY <1>3, <1>4

\* A time that is told is that of a packet.
LEMMA UpToTells ==
    ASSUME NEW wire, AllPackets(wire), NEW k \in Nat, k <= Len(wire)
    PROVE  UpTo(wire, k).pts <= k
<1> DEFINE T == {i \in 0..k : UpTo(wire, i).pts <= i}
<1>1. 0 \in T
  BY UpToStates DEF EmptyDemux, NoPts
<1>2. \A i \in 1..k : i - 1 \in T => i \in T
  <2> SUFFICES ASSUME NEW i \in 1..k, i - 1 \in T PROVE i \in T
    OBVIOUS
  <2> DEFINE m == i - 1
             d == UpTo(wire, m)
             e == UpTo(wire, m + 1)
             p == wire[m + 1]
  <2>1. /\ m \in Nat /\ m + 1 = i /\ m + 1 \in Nat /\ 1 <= m + 1 /\ m <= Len(wire) /\ m + 1 <= Len(wire)
        /\ i \in 0..k
    BY DEF AllPackets
  <2>2. d.pts <= m
    OBVIOUS
  <2> HIDE DEF m
  <2>3. e = Packet(wire, d, m + 1) /\ IsPacket(p)
    BY <2>1, OnePacketMore DEF AllPackets
  <2>4. d \in DemuxStates /\ e \in DemuxStates
    BY <2>1, UpToStates
  <2>5. Done(d, e, p, m + 1)
    BY <2>3, PacketDoes
  <2> HIDE DEF d, e, p
  <2>6. d.pts \in Nat
    BY <2>4 DEF DemuxStates
  <2>7. e.pts = d.pts \/ e.pts = 0 \/ e.pts = m + 1
    <3>1. CASE Begins(d, p) /\ e = Begun(d, p, m + 1)
      <4>1. Finished(d) \in DemuxStates
        BY <2>4, FinishedIs
      <4> QED
        BY <3>1, <4>1 DEF Begun, DemuxStates
    <3> QED
      BY <2>4, <2>5, <3>1 DEF Done, DemuxStates, Failing, WithTable, WithVideo, Longer
  <2>8. e.pts <= m + 1
    BY <2>1, <2>2, <2>6, <2>7
  <2> QED
    BY <2>1, <2>8 DEF e
<1>3. 0..k \subseteq T
  <2> HIDE DEF T
  <2> QED
    BY <1>1, <1>2, FirstNumbers
<1>4. k \in 0..k
  BY SMTT(30)
<1> QED
  BY <1>3, <1>4

\* A sequence is its parts.
LEMMA SplitAt ==
    ASSUME NEW S, NEW s \in Seq(S), NEW n \in Nat, n <= Len(s)
    PROVE  /\ SubSeq(s, 1, n) \in Seq(S) /\ SubSeq(s, n + 1, Len(s)) \in Seq(S)
           /\ Len(SubSeq(s, 1, n)) = n /\ Len(SubSeq(s, n + 1, Len(s))) = Len(s) - n
           /\ s = SubSeq(s, 1, n) \o SubSeq(s, n + 1, Len(s))
<1>1. n \in 0..Len(s) /\ 1 \in 1..(Len(s) + 1) /\ Len(s) \in n..Len(s) /\ n \in (1 - 1)..Len(s)
  OBVIOUS
<1>2. SubSeq(s, 1, n) \o SubSeq(s, n + 1, Len(s)) = SubSeq(s, 1, Len(s))
  BY <1>1, ConcatAdjacentSubSeq
<1>3. SubSeq(s, 1, Len(s)) = s
  BY SubSeqFull
<1>4. /\ SubSeq(s, 1, n) \in Seq(S) /\ SubSeq(s, n + 1, Len(s)) \in Seq(S)
      /\ Len(SubSeq(s, 1, n)) = n /\ Len(SubSeq(s, n + 1, Len(s))) = Len(s) - n
  OBVIOUS
<1> QED
  BY <1>2, <1>3, <1>4

\* Halves of numbers.
LEMMA Halves ==
    ASSUME NEW k \in Nat
    PROVE  (2 * k) \div 2 = k /\ (2 * k + 1) \div 2 = k /\ k * 2 = 2 * k
  OBVIOUS

\* What half of a number of half packets is.
LEMMA HalfIs ==
    ASSUME NEW l \in Nat, NEW w, w = l \div 2
    PROVE  w \in Nat /\ 2 * w <= l /\ l < 2 * w + 2
  OBVIOUS

\* A half packet more.
LEMMA HalfMore ==
    ASSUME NEW w \in Nat, NEW j \in Nat
    PROVE  ((2 * w + j) + 1) \div 2 = w + (j + 1) \div 2 /\ (j + 1) \div 2 \in Nat
  OBVIOUS
-----------------------------------------------------------------------------
(* The demuxer behind its reads.                                           *)

\* What has arrived in part and what has not been read yet, two units of each packet, are
\* the packets after those seen.
UnitNumbers == Nat

SeenOf(wire, bytes) == Len(wire) - Len(bytes) \div PacketLen

Following(wire, bytes) ==
    /\ bytes \in Seq(UnitNumbers) /\ SeenOf(wire, bytes) \in Nat
    /\ Len(bytes) = 2 * (Len(wire) - SeenOf(wire, bytes))
    /\ \A j \in 1..Len(bytes) : bytes[j] = SeenOf(wire, bytes) + (j + 1) \div 2

\* The units of w packets, and then others.
EndsWith(all, w, c) == Len(all) = 2 * w + Len(c) /\ \A j \in 1..Len(c) : c[j] = all[2 * w + j]

\* The units that follow, after those of w packets.
LEMMA RestFollows ==
    ASSUME NEW wire, Len(wire) \in Nat, NEW all, Following(wire, all), NEW s, s = SeenOf(wire, all),
           NEW w \in Nat, NEW c \in Seq(UnitNumbers), EndsWith(all, w, c)
    PROVE  /\ Following(wire, c) /\ SeenOf(wire, c) = s + w /\ s \in Nat /\ s + w <= Len(wire)
           /\ \A k \in 1..w : all[2 * k] = s + k
<1> DEFINE m == Len(wire)
           z == Len(c)
           q == m - (s + w)
<1>0. Len(all) = 2 * w + Len(c) /\ \A j \in 1..Len(c) : c[j] = all[2 * w + j]
  BY DEF EndsWith
<1>1. /\ s \in Nat /\ Len(all) = 2 * (m - s) /\ m \in Nat /\ z \in Nat
      /\ \A j \in 1..Len(all) : all[j] = s + (j + 1) \div 2
  BY DEF Following
<1>2. /\ z = 2 * q /\ q \in Nat /\ s + w <= m /\ m - q = s + w /\ s + w \in Nat
      /\ z = 2 * (m - (s + w))
  <2>1. s \in Nat /\ m \in Nat /\ z \in Nat /\ w \in Nat /\ 2 * (m - s) = 2 * w + z
    BY <1>0, <1>1
  <2> HIDE DEF m, z
  <2> QED
    BY ONLY <2>1
<1>3. (2 * q) \div 2 = q
  <2> HIDE DEF q
  <2> QED
    BY <1>2, Halves
<1>4. SeenOf(wire, c) = s + w
  <2> HIDE DEF q
  <2> QED
    BY <1>2, <1>3 DEF SeenOf, PacketLen
<1>5. ASSUME NEW j \in 1..z PROVE c[j] = (s + w) + (j + 1) \div 2
  <2>1. 2 * w + j \in 1..Len(all) /\ j \in Nat
    BY <1>0, <1>1
  <2>2. all[2 * w + j] = s + ((2 * w + j) + 1) \div 2
    BY <2>1, <1>1
  <2> DEFINE h == (j + 1) \div 2
  <2>3. ((2 * w + j) + 1) \div 2 = w + h /\ h \in Nat
    BY <2>1, HalfMore
  <2> HIDE DEF h
  <2>4. s + (w + h) = (s + w) + h
    BY <1>1, <2>3
  <2> QED
    BY <1>0, <2>2, <2>3, <2>4 DEF h
<1>6. Following(wire, c)
  <2>1. z = 2 * (m - (s + w)) /\ s + w \in Nat
    BY ONLY <1>2
  <2> QED
    BY <2>1, <1>4, <1>5 DEF Following
<1>7. ASSUME NEW k \in 1..w PROVE all[2 * k] = s + k
  <2>1. 2 * k \in 1..Len(all) /\ k \in Nat
    BY <1>0, <1>1
  <2>2. all[2 * k] = s + (2 * k + 1) \div 2
    BY <2>1, <1>1
  <2>3. (2 * k + 1) \div 2 = k
    BY <2>1, Halves
  <2> QED
    BY <2>2, <2>3
<1> QED
  BY <1>1, <1>2, <1>4, <1>6, <1>7

\* A read takes some of it: what arrives, how many packets that makes, and what is left.
IsRead(wire, a, b, n, from, bytes, w, a2, b2) ==
    /\ Len(wire) \in Nat /\ a \in Seq(UnitNumbers) /\ b \in Seq(UnitNumbers)
    /\ Following(wire, a \o b) /\ from = SeenOf(wire, a \o b)
    /\ n \in Nat /\ 1 <= n /\ n <= Len(b)
    /\ bytes = a \o SubSeq(b, 1, n) /\ w = Len(bytes) \div PacketLen
    /\ a2 = SubSeq(bytes, w * PacketLen + 1, Len(bytes)) /\ b2 = SubSeq(b, n + 1, Len(b))

\* What a read leaves is what follows the packets it has handed to the demuxer.
LEMMA ReadIs ==
    ASSUME NEW wire, NEW a, NEW b, NEW n, NEW from, NEW bytes, NEW w, NEW a2, NEW b2,
           IsRead(wire, a, b, n, from, bytes, w, a2, b2)
    PROVE  /\ a2 \in Seq(UnitNumbers) /\ b2 \in Seq(UnitNumbers) /\ Len(a2) < PacketLen /\ w \in Nat /\ from \in Nat
           /\ from + w <= Len(wire) /\ SeenOf(wire, a2 \o b2) = from + w /\ Following(wire, a2 \o b2)
           /\ [k \in 1..w |-> bytes[k * PacketLen]] = [k \in 1..w |-> from + k]
<1> DEFINE all == a \o b
           c == a2 \o b2
           f == SubSeq(b, 1, n)
           g == SubSeq(bytes, 1, 2 * w)
<1> USE DEF IsRead
<1>1. f \in Seq(UnitNumbers) /\ b2 \in Seq(UnitNumbers) /\ b = f \o b2
  BY SplitAt
<1>2. bytes \in Seq(UnitNumbers) /\ bytes = a \o f
  BY <1>1, SMTT(30)
<1>3. all = bytes \o b2
  <2> HIDE DEF f
  <2>2. a \in Seq(UnitNumbers) /\ f \in Seq(UnitNumbers) /\ b2 \in Seq(UnitNumbers)
    BY <1>1
  <2>1. (a \o f) \o b2 = a \o (f \o b2)
    BY ONLY <2>2, ConcatAssociative, SMTT(30)
  <2> QED
    BY <2>1, <1>1, <1>2
<1>4. w \in Nat /\ 2 * w <= Len(bytes) /\ Len(bytes) < 2 * w + 2 /\ w * PacketLen = 2 * w /\ Len(bytes) \in Nat
  <2> DEFINE l == Len(bytes)
  <2>1. l \in Nat /\ w = l \div 2
    BY <1>2 DEF PacketLen
  <2> HIDE DEF l
  <2>2. w \in Nat /\ 2 * w <= l /\ l < 2 * w + 2
    BY <2>1, HalfIs
  <2>3. w * 2 = 2 * w
    BY <2>2, Halves, SMTT(30)
  <2> QED
    BY <2>1, <2>2, <2>3 DEF PacketLen, l
<1>5. g \in Seq(UnitNumbers) /\ a2 \in Seq(UnitNumbers) /\ Len(g) = 2 * w /\ Len(a2) = Len(bytes) - 2 * w /\ bytes = g \o a2
  <2> DEFINE m == 2 * w
  <2>1. m \in Nat /\ m <= Len(bytes) /\ a2 = SubSeq(bytes, m + 1, Len(bytes)) /\ g = SubSeq(bytes, 1, m)
    <3>1. w * PacketLen + 1 = 2 * w + 1 /\ 2 * w \in Nat
      BY ONLY <1>4
    <3> QED
      BY <3>1, <1>4
  <2> HIDE DEF m, g
  <2>2. /\ SubSeq(bytes, 1, m) \in Seq(UnitNumbers) /\ SubSeq(bytes, m + 1, Len(bytes)) \in Seq(UnitNumbers)
        /\ Len(SubSeq(bytes, 1, m)) = m /\ Len(SubSeq(bytes, m + 1, Len(bytes))) = Len(bytes) - m
        /\ bytes = SubSeq(bytes, 1, m) \o SubSeq(bytes, m + 1, Len(bytes))
    BY <2>1, <1>2, SplitAt
  <2> QED
    BY <2>1, <2>2 DEF m
<1>6. Len(a2) < PacketLen
  BY <1>4, <1>5 DEF PacketLen
<1> HIDE DEF f, g, all, c, IsRead
<1>7. all = g \o c /\ c \in Seq(UnitNumbers)
  <2>1. (g \o a2) \o b2 = g \o (a2 \o b2)
    <3>1. g \in Seq(UnitNumbers) /\ a2 \in Seq(UnitNumbers) /\ b2 \in Seq(UnitNumbers)
      BY <1>1, <1>5
    <3> QED
      BY ONLY <3>1, ConcatAssociative, SMTT(40)
  <2>2. a2 \o b2 \in Seq(UnitNumbers)
    <3>1. a2 \in Seq(UnitNumbers) /\ b2 \in Seq(UnitNumbers)
      BY <1>1, <1>5
    <3> QED
      BY ONLY <3>1
  <2> QED
    BY <2>1, <2>2, <1>3, <1>5 DEF c
<1>8. Len(all) = 2 * w + Len(c) /\ \A j \in 1..Len(c) : all[2 * w + j] = c[j]
  <2>1. /\ g \o c \in Seq(UnitNumbers) /\ Len(g \o c) = Len(g) + Len(c)
        /\ Len(g) \in Nat /\ Len(c) \in Nat
        /\ \A i \in 1..Len(g) : (g \o c)[i] = g[i] /\ i \in 1..Len(g \o c)
        /\ \A i \in 1..Len(c) : (g \o c)[Len(g) + i] = c[i] /\ Len(g) + i \in 1..Len(g \o c)
    <3>1. g \in Seq(UnitNumbers) /\ c \in Seq(UnitNumbers)
      BY <1>5, <1>7
    <3> QED
      BY ONLY <3>1, JoinIs
  <2> QED
    BY <2>1, <1>5, <1>7
<1>9. /\ Following(wire, c) /\ SeenOf(wire, c) = from + w /\ from \in Nat /\ from + w <= Len(wire)
      /\ \A k \in 1..w : all[2 * k] = from + k
  <2>1. Following(wire, all) /\ from = SeenOf(wire, all)
    BY DEF all, IsRead
  <2> QED
    <3>1. /\ Len(wire) \in Nat /\ Following(wire, all) /\ from = SeenOf(wire, all) /\ w \in Nat /\ c \in Seq(UnitNumbers)
          /\ EndsWith(all, w, c)
      BY <2>1, <1>4, <1>7, <1>8, SMTT(30) DEF EndsWith
    <3> QED
      BY ONLY <3>1, RestFollows, SMTT(40)
<1>10. \A i \in 1..Len(bytes) : all[i] = bytes[i]
  <2>1. \A i \in 1..Len(bytes) : (bytes \o b2)[i] = bytes[i]
    <3>1. bytes \in Seq(UnitNumbers) /\ b2 \in Seq(UnitNumbers)
      BY <1>1, <1>2
    <3> QED
      BY ONLY <3>1, JoinIs
  <2> QED
    BY ONLY <2>1, <1>3
<1>11. ASSUME NEW k \in 1..w PROVE bytes[k * PacketLen] = from + k
  <2>1. 2 * k \in 1..Len(bytes) /\ k * PacketLen = 2 * k
    BY <1>4 DEF PacketLen
  <2> QED
    BY <2>1, <1>9, <1>10
<1> QED
  BY <1>1, <1>4, <1>5, <1>6, <1>9, <1>11 DEF c

\* A packet more is two units more.
IsSending(wire, a, b, m, b2) ==
    /\ a \in Seq(UnitNumbers) /\ b \in Seq(UnitNumbers) /\ Following(wire, a \o b)
    /\ m \in UnitNumbers /\ m = Len(wire) + 1 /\ b2 = b \o [u \in 1..PacketLen |-> m]

\* A packet that is sent follows all that were.
LEMMA SendingIs ==
    ASSUME NEW S, NEW wire \in Seq(S), NEW p \in S, NEW a, NEW b, NEW m, NEW b2,
           IsSending(wire, a, b, m, b2)
    PROVE  /\ b2 \in Seq(UnitNumbers) /\ SeenOf(Append(wire, p), a \o b2) = SeenOf(wire, a \o b)
           /\ Following(Append(wire, p), a \o b2) /\ SeenOf(wire, a \o b) <= Len(wire)
<1> DEFINE all == a \o b
           two == <<m, m>>
           c == a \o b2
           from == SeenOf(wire, all)
           more == Append(wire, p)
<1> USE DEF IsSending
<1>1. Len(more) = m /\ m \in Nat /\ Len(wire) \in Nat /\ m = Len(wire) + 1
  BY DEF UnitNumbers
<1>2. [u \in 1..PacketLen |-> m] = two /\ two \in Seq(UnitNumbers) /\ Len(two) = 2 /\ two[1] = m /\ two[2] = m
  BY <1>1 DEF PacketLen
<1>3. b2 = b \o two
  BY <1>2
<1>4. c = all \o two /\ b2 \in Seq(UnitNumbers)
  <2> HIDE DEF two
  <2>1. (a \o b) \o two = a \o (b \o two)
    <3>1. a \in Seq(UnitNumbers) /\ b \in Seq(UnitNumbers) /\ two \in Seq(UnitNumbers)
      BY <1>2
    <3> QED
      BY ONLY <3>1, ConcatAssociative, SMTT(40)
  <2>2. b2 \in Seq(UnitNumbers)
    <3>1. b \in Seq(UnitNumbers) /\ two \in Seq(UnitNumbers)
      BY <1>2
    <3> QED
      BY ONLY <3>1, <1>3
  <2>3. a \o b2 = a \o (b \o two)
    BY <1>3
  <2> QED
    BY ONLY <2>1, <2>2, <2>3
<1>5. /\ from \in Nat /\ all \in Seq(UnitNumbers) /\ Len(all) = 2 * (Len(wire) - from) /\ Len(all) \in Nat
      /\ \A j \in 1..Len(all) : all[j] = from + (j + 1) \div 2
  BY DEF Following
<1> HIDE DEF all, two, c, from, more, IsSending
<1>6. /\ c \in Seq(UnitNumbers) /\ Len(c) = Len(all) + 2
      /\ \A i \in 1..Len(all) : c[i] = all[i]
      /\ \A i \in 1..Len(two) : c[Len(all) + i] = two[i]
  <2>1. /\ all \o two \in Seq(UnitNumbers) /\ Len(all \o two) = Len(all) + Len(two)
        /\ Len(all) \in Nat /\ Len(two) \in Nat
        /\ \A i \in 1..Len(all) : (all \o two)[i] = all[i] /\ i \in 1..Len(all \o two)
        /\ \A i \in 1..Len(two) : (all \o two)[Len(all) + i] = two[i] /\ Len(all) + i \in 1..Len(all \o two)
    <3>1. all \in Seq(UnitNumbers) /\ two \in Seq(UnitNumbers)
      BY <1>2, <1>5
    <3> QED
      BY ONLY <3>1, JoinIs
  <2> QED
    BY ONLY <2>1, <1>2, <1>4
<1>7. c[Len(all) + 1] = m /\ c[Len(all) + 2] = m
  <2>1. 1 \in 1..Len(two) /\ 2 \in 1..Len(two)
    BY <1>2
  <2> QED
    BY <2>1, <1>2, <1>6
<1>8. SeenOf(more, c) = from /\ from <= Len(wire) /\ Len(c) = 2 * (m - from)
  <2> DEFINE q == m - from
  <2>0. m \in Nat /\ Len(wire) = m - 1 /\ from \in Nat /\ Len(all) = 2 * ((m - 1) - from) /\ Len(all) \in Nat
    BY <1>1, <1>5
  <2>1. q \in Nat /\ m - q = from /\ from <= Len(wire) /\ Len(c) = 2 * q
    BY <2>0, <1>6
  <2> HIDE DEF q
  <2>3. (2 * q) \div 2 = q
    BY <2>1, Halves
  <2>2. SeenOf(more, c) = from /\ from <= Len(wire)
    BY <2>1, <2>3, <1>1 DEF SeenOf, PacketLen
  <2> QED
    BY <2>1, <2>2 DEF q
<1>9. ASSUME NEW j \in 1..Len(c) PROVE c[j] = from + (j + 1) \div 2
  <2> DEFINE z == Len(all)
  <2>1. z \in Nat /\ z = 2 * (Len(wire) - from) /\ j \in 1..(z + 2)
    BY <1>5, <1>6
  <2> HIDE DEF z
  <2>2. j \in 1..z \/ j = z + 1 \/ j = z + 2
    <3>1. z \in Nat /\ j \in 1..(z + 2)
      BY ONLY <2>1
    <3> QED
      BY ONLY <3>1
  <2> DEFINE q == m - from
  <2>7. q \in Nat /\ from + q = m /\ (z + 1) + 1 = 2 * q /\ (z + 2) + 1 = 2 * q + 1
    BY <1>1, <1>5, <2>1
  <2> HIDE DEF q
  <2>3. ((z + 1) + 1) \div 2 = q /\ ((z + 2) + 1) \div 2 = q /\ from + q = m
    BY <2>7, Halves
  <2>4. CASE j \in 1..z
    BY <2>4, <1>5, <1>6 DEF z
  <2>5. CASE j = z + 1
    BY <2>3, <2>5, <1>7 DEF z
  <2>6. CASE j = z + 2
    BY <2>3, <2>6, <1>7 DEF z
  <2> QED
    BY <2>2, <2>4, <2>5, <2>6
<1>10. Following(more, c)
  BY <1>1, <1>5, <1>6, <1>8, <1>9 DEF Following
<1> QED
  BY <1>4, <1>8, <1>10 DEF c, from, all, more

\* What was handed over stays good when more is seen, or sent.
LEMMA UnitsGoOn ==
    ASSUME NEW wire, NEW more, NEW k \in Nat, NEW l \in Nat, k <= l,
           \A n \in 1..k : more[n] = wire[n],
           NEW data, NEW pts, UnitIsGood(wire, k, data, pts)
    PROVE  UnitIsGood(more, l, data, pts)
<1> DEFINE top == Top(data)
<1>1. /\ data # <<>> /\ data \in Seq(Nat)
      /\ \A i \in 1..Len(data) : data[i] \in Nat /\ 1 <= data[i] /\ data[i] <= k /\ data[i] <= Top(data)
      /\ \A i \in 1..(Len(data) - 1) : data[i] < data[i + 1]
  BY DEF UnitIsGood, Ordered
<1>2. Ordered(data, l)
  <2>1. \A i \in 1..Len(data) : 1 <= data[i] /\ data[i] <= l /\ data[i] <= Top(data)
    <3> SUFFICES ASSUME NEW i \in 1..Len(data) PROVE 1 <= data[i] /\ data[i] <= l /\ data[i] <= Top(data)
      OBVIOUS
    <3>1. data[i] \in Nat /\ 1 <= data[i] /\ data[i] <= k /\ data[i] <= Top(data)
      BY <1>1
    <3> QED
      BY <3>1
  <2> QED
    BY <1>1, <2>1 DEF Ordered
<1>3. Len(data) \in 1..Len(data)
  BY <1>1
<1>4. top \in Nat /\ top <= k
  BY <1>1, <1>3 DEF Top
<1> HIDE DEF top
<1>5. \A n \in 1..top : more[n] = wire[n]
  BY <1>4
<1>6. ASSUME NEW v \in Videos, SettledOn(more, v, top) PROVE IsFrame(more, data, pts, v, top)
  <2>1. SettledOn(wire, v, top)
    BY <1>5, <1>6 DEF SettledOn, Tabled
  <2>2. IsFrame(wire, data, pts, v, top)
    BY <2>1 DEF UnitIsGood, top
  <2>3. PICK b \in 1..top : FrameFrom(wire, data, pts, v, top, b)
    BY <2>2 DEF IsFrame
  <2>4. FrameFrom(more, data, pts, v, top, b)
    BY <1>5, <2>3 DEF FrameFrom, StartsVideo, CarriesVideo
  <2> QED
    BY <2>4 DEF IsFrame
<1> QED
  BY <1>1, <1>2, <1>6 DEF UnitIsGood, top

TransportInv ==
    /\ packets \in Seq(Packets)
    /\ partial \in Seq(UnitNumbers) /\ unread \in Seq(UnitNumbers) /\ Len(partial) < PacketLen
    /\ Held \in DemuxStates /\ pesPts <= Len(packets) /\ demuxer \in {"open", "failed", "flushed"}
    /\ ReadyIsGood(packets, Len(packets), ready)
    /\ demuxer = "open" =>
          /\ Following(packets, partial \o unread)
          /\ Held = UpTo(packets, SeenOf(packets, partial \o unread))

\* What a publisher sends are packets.
LEMMA PacketsAreAll ==
    ASSUME NEW wire \in Seq(Packets)
    PROVE  AllPackets(wire)
<1>1. Len(wire) \in Nat /\ \A n \in 1..Len(wire) : wire[n] \in Packets
  <2> HIDE DEF Packets
  <2> QED
    OBVIOUS
<1>2. \A n \in Nat : 1 <= n /\ n <= Len(wire) => n \in 1..Len(wire)
  BY <1>1
<1> QED
  BY <1>1, <1>2, PacketsAre DEF AllPackets

\* A demuxer begins so.
LEMMA TransportBegins == TransportInit => TransportInv
<1> SUFFICES ASSUME TransportInit PROVE TransportInv
  OBVIOUS
<1>1. packets = <<>> /\ unread = <<>> /\ partial = <<>> /\ ready = <<>> /\ demuxer = "open" /\ pesPts = 0
  BY DEF TransportInit, NoPts
<1>2. Held = EmptyDemux
  BY DEF TransportInit, Held, EmptyDemux
<1>3. packets \in Seq(Packets) /\ Len(packets) = 0
  BY <1>1
<1>4. AllPackets(packets)
  BY <1>3, PacketsAreAll
<1>5. partial \o unread = <<>> /\ partial \in Seq(UnitNumbers) /\ unread \in Seq(UnitNumbers) /\ Len(partial) = 0
  BY <1>1
<1>6. SeenOf(packets, <<>>) = 0
  BY <1>3 DEF SeenOf, PacketLen
<1>7. Following(packets, <<>>)
  BY <1>3, <1>6 DEF Following
<1>8. UpTo(packets, 0) = EmptyDemux
  BY <1>3, <1>4, UpToStates
<1>9. ReadyIsGood(packets, Len(packets), ready)
  BY <1>1 DEF ReadyIsGood
<1> QED
  BY <1>1, <1>2, <1>3, <1>5, <1>6, <1>7, <1>8, <1>9, EmptyDemuxIs DEF TransportInv, PacketLen

\* A packet is sent.
LEMMA SentHolds ==
    ASSUME TransportInv, NEW p \in Packets, Sent(p)
    PROVE  TransportInv'
<1> DEFINE z == Len(packets)
           all == partial \o unread
           m == z + 1
<1>1. /\ packets \in Seq(Packets) /\ packets' = Append(packets, p) /\ demuxer = "open"
      /\ partial \in Seq(UnitNumbers) /\ unread \in Seq(UnitNumbers)
      /\ partial' = partial /\ demuxer' = demuxer /\ ready' = ready /\ pesPts' = pesPts
      /\ tablePid' = tablePid /\ videoPid' = videoPid /\ pes' = pes
  BY DEF TransportInv, Sent
<1>2. /\ packets' \in Seq(Packets) /\ Len(packets') = z + 1 /\ z \in Nat
      /\ \A n \in 1..z : packets'[n] = packets[n]
  <2> HIDE DEF Packets
  <2> QED
    BY <1>1, OneMoreIs
<1>3. unread' = unread \o [u \in 1..PacketLen |-> m] /\ m \in UnitNumbers
  BY <1>2 DEF Sent, UnitNumbers
<1>4. Held' = Held
  BY <1>1 DEF Held
<1>5. Following(packets, all) /\ Held = UpTo(packets, SeenOf(packets, all))
  BY <1>1 DEF TransportInv
<1>6. /\ unread' \in Seq(UnitNumbers) /\ SeenOf(packets', partial \o unread') = SeenOf(packets, all)
      /\ Following(packets', partial \o unread') /\ SeenOf(packets, all) <= Len(packets)
  <2> DEFINE wire == packets
             a == partial
             b == unread
             b2 == unread'
  <2>1. IsSending(wire, a, b, m, b2) /\ wire \in Seq(Packets)
    BY <1>1, <1>3, <1>5 DEF IsSending
  <2> HIDE DEF wire, a, b, m, b2, Packets
  <2>2. /\ b2 \in Seq(UnitNumbers) /\ SeenOf(Append(wire, p), a \o b2) = SeenOf(wire, a \o b)
        /\ Following(Append(wire, p), a \o b2) /\ SeenOf(wire, a \o b) <= Len(wire)
    BY <2>1, SendingIs
  <2> QED
    BY <2>2, <1>1 DEF wire, a, b, b2
<1>7. UpTo(packets', SeenOf(packets, all)) = UpTo(packets, SeenOf(packets, all))
  <2> DEFINE wire == packets
             more == packets'
             k == SeenOf(packets, all)
  <2>1. AllPackets(wire) /\ AllPackets(more) /\ Len(wire) <= Len(more)
    <3>1. packets \in Seq(Packets) /\ packets' \in Seq(Packets) /\ Len(packets) <= Len(packets')
      BY <1>1, <1>2
    <3> HIDE DEF Packets
    <3> QED
      BY <3>1, PacketsAreAll
  <2>2. \A n \in Nat : 1 <= n /\ n <= Len(wire) => more[n] = wire[n]
    BY <1>2
  <2>3. k \in Nat /\ k <= Len(wire)
    BY <1>5, <1>6 DEF Following
  <2> HIDE DEF wire, more, k
  <2>4. UpTo(more, k) = UpTo(wire, k)
    BY <2>1, <2>2, <2>3, UpToAlike
  <2> QED
    BY <2>4 DEF wire, more, k
<1>8. ReadyIsGood(packets', Len(packets'), ready')
  <2>1. \A i \in 1..Len(ready) : UnitIsGood(packets, z, ready[i].data, ready[i].pts)
    BY DEF TransportInv, ReadyIsGood
  <2>2. z + 1 \in Nat /\ z <= z + 1
    BY <1>2
  <2>3. \A i \in 1..Len(ready) : UnitIsGood(packets', z + 1, ready[i].data, ready[i].pts)
    <3> SUFFICES ASSUME NEW i \in 1..Len(ready) PROVE UnitIsGood(packets', z + 1, ready[i].data, ready[i].pts)
      OBVIOUS
    <3>1. UnitIsGood(packets, z, ready[i].data, ready[i].pts)
      BY <2>1
    <3> QED
      BY <1>2, <2>2, <3>1, UnitsGoOn
  <2> QED
    BY <1>1, <1>2, <2>3 DEF ReadyIsGood
<1>9. pesPts' <= Len(packets')
  <2>1. pesPts <= z /\ pesPts \in Nat
    BY DEF TransportInv, Held, DemuxStates
  <2> QED
    BY <1>1, <1>2, <2>1
<1> QED
  BY <1>1, <1>2, <1>4, <1>5, <1>6, <1>7, <1>8, <1>9 DEF TransportInv

\* A read is pushed.
LEMMA FedHolds ==
    ASSUME TransportInv, NEW n \in Nat, Fed(n)
    PROVE  TransportInv'
<1> DEFINE z == Len(packets)
           all == partial \o unread
           from == SeenOf(packets, all)
           bytes == partial \o SubSeq(unread, 1, n)
           w == Len(bytes) \div PacketLen
           d == Demuxed(packets, Held, [k \in 1..w |-> bytes[k * PacketLen]])
<1>1. /\ packets \in Seq(Packets) /\ packets' = packets /\ demuxer = "open" /\ z \in Nat
      /\ partial \in Seq(UnitNumbers) /\ unread \in Seq(UnitNumbers)
      /\ 1 <= n /\ n <= Len(unread) /\ Len(unread) \in Nat
  <2> HIDE DEF Packets, UnitNumbers
  <2> QED
    BY DEF TransportInv, Fed
<1>2. /\ unread' = SubSeq(unread, n + 1, Len(unread))
      /\ partial' = SubSeq(bytes, w * PacketLen + 1, Len(bytes))
      /\ tablePid' = d.table /\ videoPid' = d.video /\ pes' = d.pes /\ pesPts' = d.pts
      /\ ready' = IF d.ok THEN d.ready ELSE ready
      /\ demuxer' = IF d.ok THEN "open" ELSE "failed"
  BY DEF Fed
<1>3. Following(packets, all) /\ Held = UpTo(packets, from) /\ from = SeenOf(packets, all)
  BY <1>1 DEF TransportInv
<1> HIDE DEF from
<1>4. /\ partial' \in Seq(UnitNumbers) /\ unread' \in Seq(UnitNumbers) /\ Len(partial') < PacketLen
      /\ w \in Nat /\ from \in Nat /\ from + w <= z
      /\ SeenOf(packets, partial' \o unread') = from + w /\ Following(packets, partial' \o unread')
      /\ [k \in 1..w |-> bytes[k * PacketLen]] = [k \in 1..w |-> from + k]
  <2> DEFINE flow == packets
             a == partial
             b == unread
             by == a \o SubSeq(b, 1, n)
             v == Len(by) \div PacketLen
             a2 == SubSeq(by, v * PacketLen + 1, Len(by))
             b2 == SubSeq(b, n + 1, Len(b))
  <2>1. Len(flow) \in Nat /\ a \in Seq(UnitNumbers) /\ b \in Seq(UnitNumbers) /\ 1 <= n /\ n <= Len(b)
    BY <1>1
  <2>2. Following(flow, a \o b) /\ from = SeenOf(flow, a \o b)
    BY <1>3
  <2>4. IsRead(flow, a, b, n, from, by, v, a2, b2)
    BY <2>1, <2>2 DEF IsRead
  <2> HIDE DEF flow, a, b, by, v, a2, b2
  <2>3. /\ a2 \in Seq(UnitNumbers) /\ b2 \in Seq(UnitNumbers) /\ Len(a2) < PacketLen /\ v \in Nat /\ from \in Nat
        /\ from + v <= Len(flow) /\ SeenOf(flow, a2 \o b2) = from + v /\ Following(flow, a2 \o b2)
        /\ [k \in 1..v |-> by[k * PacketLen]] = [k \in 1..v |-> from + k]
    BY <2>4, ReadIs
  <2> QED
    BY <2>3, <1>2 DEF flow, a, b, by, v, a2, b2
<1>5. AllPackets(packets)
  BY <1>1, PacketsAreAll
<1>6. d = UpTo(packets, from + w)
  <2> HIDE DEF w, bytes
  <2>1. Demuxed(packets, UpTo(packets, from), [k \in 1..w |-> from + k]) = UpTo(packets, from + w)
    BY <1>4, <1>5, ReadGoesOn
  <2> QED
    BY <2>1, <1>3, <1>4
<1> HIDE DEF w, bytes, d
<1>7. from + w \in Nat
  BY <1>4
<1> DEFINE t == from + w
<1> HIDE DEF t
<1>8. d \in DemuxStates /\ d.pts <= t /\ d.pts \in Nat /\ (d.ok => DemuxIsGood(packets, t, d)) /\ t \in Nat /\ t <= z
  <2>1. t \in Nat /\ t <= Len(packets) /\ d = UpTo(packets, t)
    BY <1>4, <1>6, <1>7 DEF t
  <2>2. d \in DemuxStates
    BY <2>1, <1>5, UpToStates
  <2>3. d.pts <= t
    BY <2>1, <1>5, UpToTells
  <2>4. d.ok => DemuxIsGood(packets, t, d)
    BY <2>1, <1>5, UpToIsGood
  <2>5. d.pts \in Nat
    BY <2>2 DEF DemuxStates
  <2> QED
    BY <2>1, <2>2, <2>3, <2>4, <2>5
<1>9. Held \in DemuxStates /\ ReadyIsGood(packets, z, ready) /\ ready \in Seq(AccessUnits)
  BY DEF TransportInv, Held, DemuxStates
<1>10. pesPts' <= Len(packets')
  BY <1>1, <1>2, <1>8
<1>11. CASE d.ok
  <2>1. Held' = d
    BY <1>2, <1>8, <1>11 DEF Held, DemuxStates
  <2>2. ReadyIsGood(packets, t, d.ready)
    BY <1>8, <1>11 DEF DemuxIsGood
  <2>3. ReadyIsGood(packets, z, d.ready)
    <3> SUFFICES ASSUME NEW i \in 1..Len(d.ready) PROVE UnitIsGood(packets, z, d.ready[i].data, d.ready[i].pts)
      BY DEF ReadyIsGood
    <3>1. UnitIsGood(packets, t, d.ready[i].data, d.ready[i].pts)
      BY <2>2 DEF ReadyIsGood
    <3>2. \A k \in 1..t : packets[k] = packets[k]
      OBVIOUS
    <3> QED
      BY <1>1, <1>8, <3>1, <3>2, UnitsGoOn
  <2>4. SeenOf(packets', partial' \o unread') = t /\ Following(packets', partial' \o unread') /\ d = UpTo(packets', t)
    BY <1>1, <1>4, <1>6 DEF t
  <2>5. ready' = d.ready /\ demuxer' = "open"
    BY <1>2, <1>11
  <2> QED
    BY <1>1, <1>4, <1>8, <1>10, <2>1, <2>3, <2>4, <2>5 DEF TransportInv
<1>12. CASE ~d.ok
  <2>1. Held' \in DemuxStates
    BY <1>2, <1>8, <1>9, <1>12 DEF Held, DemuxStates
  <2>2. ready' = ready /\ demuxer' = "failed"
    BY <1>2, <1>12
  <2> QED
    BY <1>1, <1>4, <1>9, <1>10, <2>1, <2>2 DEF TransportInv
<1> QED
  BY <1>11, <1>12

\* The publisher is gone.
LEMMA FlushedHolds ==
    ASSUME TransportInv, Flushed
    PROVE  TransportInv'
<1> DEFINE k == SeenOf(packets, partial \o unread)
           z == Len(packets)
<1>1. /\ packets \in Seq(Packets) /\ packets' = packets /\ demuxer = "open" /\ demuxer' = "flushed" /\ z \in Nat
      /\ partial' = partial /\ unread' = unread /\ tablePid' = tablePid /\ videoPid' = videoPid
      /\ ready' = Finished(Held).ready /\ pes' = <<>> /\ pesPts' = 0
  <2> HIDE DEF Packets
  <2> QED
    BY DEF TransportInv, Flushed, NoPts
<1>2. Held \in DemuxStates /\ Held = UpTo(packets, k) /\ Held.ok /\ k \in Nat /\ k <= z
  <2>1. Held \in DemuxStates /\ Held = UpTo(packets, k) /\ Following(packets, partial \o unread)
    BY <1>1 DEF TransportInv
  <2>2. Held.ok
    BY DEF Held
  <2>3. k \in Nat /\ Len(partial \o unread) = 2 * (z - k) /\ Len(partial \o unread) \in Nat
    BY <2>1 DEF Following, UnitNumbers
  <2>4. k <= z
    <3> DEFINE l == Len(partial \o unread)
    <3>1. l \in Nat /\ l = 2 * (z - k)
      BY <2>3
    <3> HIDE DEF l, k, z
    <3> QED
      BY <3>1, <2>3, <1>1
  <2> QED
    BY <2>1, <2>2, <2>3, <2>4
<1> HIDE DEF k
<1>3. AllPackets(packets)
  BY <1>1, PacketsAreAll
<1>4. DemuxIsGood(packets, k, Held)
  <2>1. UpTo(packets, k).ok
    BY <1>2
  <2>2. DemuxIsGood(packets, k, UpTo(packets, k))
    BY <1>2, <1>3, <2>1, UpToIsGood
  <2> QED
    BY <1>2, <2>2
<1> DEFINE r == Finished(Held).ready
<1>5. ReadyIsGood(packets, k, r)
  BY <1>2, <1>4, FinishedIsGood
<1>6. r \in Seq(AccessUnits)
  BY <1>2, FinishedIs DEF DemuxStates
<1> HIDE DEF r
<1>7. ReadyIsGood(packets, z, r)
  <2> SUFFICES ASSUME NEW i \in 1..Len(r) PROVE UnitIsGood(packets, z, r[i].data, r[i].pts)
    BY DEF ReadyIsGood
  <2>1. UnitIsGood(packets, k, r[i].data, r[i].pts)
    BY <1>5 DEF ReadyIsGood
  <2>2. \A j \in 1..k : packets[j] = packets[j]
    OBVIOUS
  <2> QED
    BY <1>1, <1>2, <2>1, <2>2, UnitsGoOn
<1>8. ready' = r
  BY <1>1 DEF r
<1>9. Held' \in DemuxStates
  <2>1. tablePid \in Tables \cup {Unnamed} /\ videoPid \in Videos \cup {Unnamed}
    BY <1>2 DEF Held, DemuxStates
  <2>2. <<>> \in Seq(Nat) /\ 0 \in Nat
    OBVIOUS
  <2> QED
    BY <1>1, <1>6, <1>8, <2>1, <2>2 DEF Held, DemuxStates
<1>10. pesPts' <= Len(packets')
  BY <1>1
<1>11. partial \in Seq(UnitNumbers) /\ unread \in Seq(UnitNumbers) /\ Len(partial) < PacketLen
  BY DEF TransportInv
<1> HIDE DEF Packets
<1> QED
  BY <1>1, <1>7, <1>8, <1>9, <1>10, <1>11 DEF TransportInv

\* Every packet sent and every read keeps it.
LEMMA TransportStep == TransportInv /\ [TransportNext]_transportVars => TransportInv'
<1> SUFFICES ASSUME TransportInv, [TransportNext]_transportVars PROVE TransportInv'
  OBVIOUS
<1>1. CASE \E p \in Packets : Sent(p)
  BY <1>1, SentHolds
<1>2. CASE \E n \in 1..PacketLen + MaxBacklog : Fed(n)
  <2>1. \A n \in 1..PacketLen + MaxBacklog : n \in Nat
    OBVIOUS
  <2> QED
    BY <1>2, <2>1, FedHolds
<1>3. CASE Flushed
  BY <1>3, FlushedHolds
<1>4. CASE UNCHANGED transportVars
  BY <1>4 DEF transportVars, TransportInv, Held
<1> QED
  BY <1>1, <1>2, <1>3, <1>4 DEF TransportNext

\* What follows from it.
LEMMA TransportIsRight == TransportInv => TransportTypeOK /\ UnitsAreFrames /\ CutsDoNotMatter
<1> SUFFICES ASSUME TransportInv PROVE TransportTypeOK /\ UnitsAreFrames /\ CutsDoNotMatter
  OBVIOUS
<1>1. /\ packets \in Seq(Packets) /\ Len(packets) \in Nat /\ DOMAIN packets = 1..Len(packets)
      /\ partial \in Seq(UnitNumbers) /\ unread \in Seq(UnitNumbers)
  <2> HIDE DEF Packets, UnitNumbers
  <2> QED
    BY DEF TransportInv
<1>2. Held \in DemuxStates /\ Held.ready = ready /\ Held.pts = pesPts /\ Held.table = tablePid /\ Held.video = videoPid
  BY DEF TransportInv, Held
<1>3. ready \in Seq(AccessUnits) /\ pesPts \in Nat
  BY <1>2 DEF DemuxStates
<1>4. TransportTypeOK
  BY <1>1, <1>2, <1>3 DEF TransportTypeOK, TransportInv, DemuxStates
<1>5. CutsDoNotMatter
  <2> SUFFICES ASSUME demuxer = "open" PROVE CutsDoNotMatter
    BY DEF CutsDoNotMatter
  <2>1. Held = UpTo(packets, SeenOf(packets, partial \o unread))
    BY DEF TransportInv
  <2>2. Len(partial \o unread) = Len(unread) + Len(partial)
    BY <1>1 DEF UnitNumbers
  <2>3. Held = Demuxed(packets, EmptyDemux, FirstOf(Len(packets) - (Len(unread) + Len(partial)) \div PacketLen))
    BY <2>1, <2>2 DEF UpTo, SeenOf
  <2> QED
    BY <2>3 DEF CutsDoNotMatter, EmptyDemux, FirstOf
<1>6. UnitsAreFrames
  <2> DEFINE starts(v) == {n \in DOMAIN packets : packets[n].pid = v /\ packets[n].start}
             carries(v) == {n \in DOMAIN packets : packets[n].pid = v /\ packets[n].body}
             tables(k) == {n \in 1..k : packets[n].pid \in Tables}
             Settled(v, k) ==
                 \A m \in tables(k), n \in tables(k) :
                     m <= n => packets[n].names = v \/ packets[m].names = Unnamed
             opening(v, u) == {n \in starts(v) : n <= u.data[1]}
             begin(v, u) == CHOOSE n \in opening(v, u) : \A m \in opening(v, u) : m <= n
             between(v, u) == {n \in carries(v) : begin(v, u) <= n /\ n <= Last(u.data)}
             Sounds(v, u) ==
                 /\ opening(v, u) # {} /\ u.pts = IF packets[begin(v, u)].pts THEN begin(v, u) ELSE NoPts
                 /\ ToSet(u.data) = between(v, u)
                 /\ \A j \in 1..Len(u.data) - 1 : u.data[j] < u.data[j + 1]
                 /\ \A n \in starts(v) : n <= Last(u.data) => n <= begin(v, u)
  <2>1. ASSUME NEW i \in DOMAIN ready, NEW v \in Videos, Settled(v, Last(ready[i].data)) PROVE Sounds(v, ready[i])
    <3> DEFINE u == ready[i]
               data == u.data
               top == Top(data)
               z == Len(packets)
    <3>1. UnitIsGood(packets, z, data, u.pts)
      <4>1. i \in 1..Len(ready)
        <5> HIDE DEF AccessUnits
        <5> QED
          BY <1>3
      <4> QED
        BY <4>1 DEF TransportInv, ReadyIsGood
    <3>2. Last(data) = top
      BY DEF Last, Top
    <3> HIDE DEF u, data, top
    <3>3. /\ data # <<>> /\ data \in Seq(Nat)
          /\ \A j \in 1..Len(data) : data[j] \in Nat /\ 1 <= data[j] /\ data[j] <= z /\ data[j] <= top
          /\ \A j \in 1..(Len(data) - 1) : data[j] < data[j + 1]
      BY <3>1 DEF UnitIsGood, Ordered, top
    <3>4. Len(data) \in 1..Len(data) /\ 1 \in 1..Len(data)
      BY <3>3
    <3>5. top \in Nat /\ top <= z /\ IsIn(top, data) /\ IsIn(data[1], data) /\ data[1] \in Nat /\ 1 <= data[1] /\ data[1] <= z /\ data[1] <= top
      BY <3>3, <3>4 DEF top, Top, IsIn
    <3>6. SettledOn(packets, v, top)
      <4>1. Settled(v, top)
        BY <2>1, <3>2 DEF u, data
      <4> QED
        BY <4>1 DEF SettledOn, Tabled
    <3>7. PICK b \in 1..top : FrameFrom(packets, data, u.pts, v, top, b)
      BY <3>1, <3>6 DEF UnitIsGood, IsFrame, top
    <3> DEFINE one == data[1]
               pts == u.pts
    <3> HIDE DEF one, z, pts
    <3>8. /\ b \in 1..top /\ b \in 1..z /\ StartsVideo(packets, b, v)
          /\ \A n \in 1..top : StartsVideo(packets, n, v) => n <= b
          /\ \A n \in 1..top : IsIn(n, data) <=> CarriesVideo(packets, n, v) /\ b <= n
          /\ pts = IF packets[b].pts THEN b ELSE 0
      BY <3>5, <3>7 DEF FrameFrom, z, pts
    <3>9. \A n \in Nat : IsIn(n, data) => n \in 1..top
      BY <3>3, <3>5 DEF IsIn
    <3>10. one \in 1..top /\ IsIn(one, data) /\ b <= one
      <4>1. one \in 1..top /\ IsIn(one, data)
        BY <3>5 DEF one
      <4> QED
        BY <4>1, <3>8
    <3>11. starts(v) = {n \in 1..z : StartsVideo(packets, n, v)} /\ carries(v) = {n \in 1..z : CarriesVideo(packets, n, v)}
      BY <1>1 DEF z, StartsVideo, CarriesVideo
    <3>12. opening(v, u) = {n \in 1..z : StartsVideo(packets, n, v) /\ n <= one}
      BY <3>11 DEF one, data
    <3> DEFINE F == opening(v, u)
    <3>13. \A n \in F : n \in 1..top /\ n <= b
      BY <3>5, <3>8, <3>10, <3>12
    <3>14. b \in F
      BY <3>8, <3>10, <3>12
    <3> HIDE DEF F
    <3>15. \A n \in F : (\A m \in F : m <= n) => n = b
      BY <3>13, <3>14
    <3>16. b = CHOOSE n \in F : \A m \in F : m <= n
      BY <3>13, <3>14, <3>15
    <3>17. begin(v, u) = b
      BY <3>16 DEF F
    <3>18. ToSet(data) = {n \in 1..z : CarriesVideo(packets, n, v) /\ b <= n /\ n <= top}
      <4>1. ToSet(data) = {n \in Nat : IsIn(n, data)}
        BY <3>3 DEF ToSet, IsIn
      <4>2. \A n \in 1..top : n \in 1..z
        BY <3>5, <1>1 DEF z
      <4>3. \A n \in 1..z : n <= top => n \in 1..top
        OBVIOUS
      <4>4. ASSUME NEW n \in Nat
            PROVE  IsIn(n, data) <=> n \in 1..z /\ CarriesVideo(packets, n, v) /\ b <= n /\ n <= top
        <5>1. CASE n \in 1..top
          BY <5>1, <4>2, <3>8
        <5>2. CASE n \notin 1..top
          BY <5>2, <4>3, <3>9
        <5> QED
          BY <5>1, <5>2
      <4>5. \A n \in 1..z : n \in Nat
        OBVIOUS
      <4> QED
        BY <4>1, <4>4, <4>5
    <3>19. between(v, u) = {n \in 1..z : CarriesVideo(packets, n, v) /\ b <= n /\ n <= top}
      <4>1. Last(u.data) = top
        BY <3>2 DEF data
      <4> HIDE DEF begin
      <4> QED
        BY <4>1, <3>11, <3>17
    <3>20. \A n \in starts(v) : n <= Last(u.data) => n <= begin(v, u)
      <4>1. Last(u.data) = top
        BY <3>2 DEF data
      <4> HIDE DEF begin
      <4>2. SUFFICES ASSUME NEW n \in starts(v), n <= Last(u.data) PROVE n <= begin(v, u)
        OBVIOUS
      <4>3. n \in 1..z /\ StartsVideo(packets, n, v) /\ n <= top
        BY <4>1, <4>2, <3>11
      <4>4. n \in 1..top
        BY <4>3, <3>5
      <4> QED
        BY <4>3, <4>4, <3>8, <3>17
    <3>21. opening(v, u) # {} /\ u.pts = IF packets[begin(v, u)].pts THEN begin(v, u) ELSE NoPts
      <4>1. opening(v, u) # {}
        BY <3>14 DEF F
      <4> HIDE DEF begin, opening
      <4> QED
        BY <4>1, <3>8, <3>17 DEF pts, NoPts
    <3> HIDE DEF starts, begin, opening, between
    <3> QED
      BY <3>3, <3>18, <3>19, <3>20, <3>21 DEF u, data
  <2> QED
    BY <2>1 DEF UnitsAreFrames
<1> QED
  BY <1>4, <1>5, <1>6

\* What lasts from mark to mark at least adds up to what is between the first and the last.
LEMMA TotalReaches ==
    ASSUME NEW n \in Nat, NEW lengths \in [1 .. n -> Nat], NEW mark \in [0 .. n -> Int],
           \A i \in 1 .. n : lengths[i] >= mark[i] - mark[i - 1]
    PROVE  /\ Total(lengths) \in Nat /\ Total(lengths) >= mark[n] - mark[0]
           /\ (\A i \in 1 .. n : lengths[i] = mark[i] - mark[i - 1]) => Total(lengths) = mark[n] - mark[0]
<1>1. Len(lengths) = n
  OBVIOUS
<1> DEFINE sum == CHOOSE f : SumsUp(f, lengths)
<1>2. SumsUp(sum, lengths)
  BY <1>1, SomeTotal
<1>3. Total(lengths) = sum[n]
  BY <1>1 DEF Total, SumsUp
<1> HIDE DEF sum
<1>4. \A i \in 0 .. n : sum[i] = IF i = 0 THEN 0 ELSE sum[i - 1] + lengths[i]
  BY <1>1, <1>2 DEF SumsUp
<1> DEFINE exact == \A i \in 1 .. n : lengths[i] = mark[i] - mark[i - 1]
           T == {m \in Nat : m <= n => /\ sum[m] \in Nat /\ sum[m] >= mark[m] - mark[0]
                                       /\ exact => sum[m] = mark[m] - mark[0]}
<1>5. 0 \in T
  BY <1>4
<1>6. ASSUME NEW m \in Nat, m \in T PROVE m + 1 \in T
  <2> SUFFICES ASSUME m + 1 <= n
               PROVE  /\ sum[m + 1] \in Nat /\ sum[m + 1] >= mark[m + 1] - mark[0]
                      /\ exact => sum[m + 1] = mark[m + 1] - mark[0]
    OBVIOUS
  <2>0. m + 1 \in 0 .. n /\ m + 1 \in 1 .. n /\ m \in 0 .. n /\ m + 1 # 0 /\ (m + 1) - 1 = m /\ 0 \in 0 .. n
    OBVIOUS
  <2>1. sum[m + 1] = sum[m] + lengths[m + 1]
    BY <1>4, <2>0
  <2>2. sum[m] \in Nat /\ sum[m] >= mark[m] - mark[0] /\ (exact => sum[m] = mark[m] - mark[0])
    BY <1>6
  <2>3. lengths[m + 1] \in Nat /\ lengths[m + 1] >= mark[m + 1] - mark[m]
        /\ (exact => lengths[m + 1] = mark[m + 1] - mark[m])
    BY <2>0
  <2>4. mark[m + 1] \in Int /\ mark[m] \in Int /\ mark[0] \in Int
    BY <2>0
  <2> DEFINE s0 == sum[m]
             sum1 == sum[m + 1]
             l == lengths[m + 1]
             a == mark[0]
             b == mark[m]
             c == mark[m + 1]
  <2>5. sum1 = s0 + l /\ s0 \in Nat /\ s0 >= b - a /\ l \in Nat /\ l >= c - b /\ a \in Int /\ b \in Int /\ c \in Int
    BY <2>1, <2>2, <2>3, <2>4
  <2>6. exact => s0 = b - a /\ l = c - b
    BY <2>2, <2>3
  <2> HIDE DEF exact, s0, sum1, l, a, b, c
  <2>7. sum1 \in Nat /\ sum1 >= c - a /\ (exact => sum1 = c - a)
    BY <2>5, <2>6
  <2> QED
    BY <2>7 DEF sum1, a, c
<1>7. Nat \subseteq T
  <2> HIDE DEF T
  <2> QED
    BY <1>5, <1>6, NumbersFollow
<1>8. n \in T
  BY <1>7
<1> QED
  BY <1>3, <1>8

-----------------------------------------------------------------------------
(* Recordings on command.                                                  *)

RecFrames == [ts : Nat, rate : {1}, key : BOOLEAN, cfg : Formats, fresh : BOOLEAN]

Cutters ==
    [entry : Formats \cup {None}, rate : {None, 1}, fallback : {None}, pending : Seq(RecFrames),
     sequence : Nat]

RecSegments == [sequence : Nat, start : Nat, duration : Nat, frames : Seq(RecFrames)]

\* Frames in the order of their times, the clock advancing if it always does.
InTime(fs) ==
    \A i \in 1 .. Len(fs) - 1 : fs[i + 1].ts >= fs[i].ts /\ (0 \notin Gaps => fs[i + 1].ts > fs[i].ts)

\* The time a frame that closes a segment has, or that of the last one.
Until(fs, next) == IF next = None THEN fs[Len(fs)].ts ELSE next

ComesAfter(fs, next) ==
    next # None => next >= fs[Len(fs)].ts /\ (0 \notin Gaps => next > fs[Len(fs)].ts)

\* A segment lasts at least until the frame that closes it, and exactly so if the clock
\* always advances.
LEMMA CutIs ==
    ASSUME NEW s \in Cutters, s.rate = 1, s.pending # <<>>, NEW next \in Nat \cup {None},
           InTime(s.pending), ComesAfter(s.pending, next)
    PROVE  /\ Close(s, next) \in RecSegments
           /\ Close(s, next).sequence = s.sequence /\ Close(s, next).frames = s.pending
           /\ Close(s, next).start = s.pending[1].ts
           /\ Close(s, next).start + Close(s, next).duration >= Until(s.pending, next)
           /\ 0 \notin Gaps /\ next # None =>
                 Close(s, next).start + Close(s, next).duration = Until(s.pending, next)
<1> DEFINE n == Len(s.pending)
           ts(i) == s.pending[i].ts
<1>1. s.pending \in Seq(RecFrames) /\ s.fallback = None /\ s.sequence \in Nat
  BY DEF Cutters
<1>2. n \in Nat /\ n >= 1 /\ \A i \in 1 .. n : s.pending[i].ts \in Nat
  <2>1. \A i \in 1 .. n : s.pending[i] \in RecFrames
    BY <1>1, ElementOfSeq
  <2> QED
    BY <1>1, <2>1, LenProperties, EmptySeq DEF RecFrames
<1>0. None \notin Nat
  BY OnDemandAssumption
<1> DEFINE mark == [i \in 0 .. n |-> IF i < n THEN ts(i + 1) ELSE Until(s.pending, next)]
<1>3. mark \in [0 .. n -> Int] /\ mark[0] = ts(1) /\ mark[n] = Until(s.pending, next)
  <2>1. Until(s.pending, next) \in Int
    BY <1>2 DEF Until
  <2>2. \A i \in 0 .. n : i < n => ts(i + 1) \in Int
    BY <1>2
  <2> QED
    BY <1>2, <2>1, <2>2
<1>4. \A i \in 1 .. n : /\ Gap(s, next, i) \in Int /\ Gap(s, next, i) = mark[i] - mark[i - 1]
                        /\ Gap(s, next, i) >= 0
                        /\ 0 \notin Gaps /\ next # None => Gap(s, next, i) > 0
  <2> SUFFICES ASSUME NEW i \in 1 .. n
               PROVE  /\ Gap(s, next, i) \in Int /\ Gap(s, next, i) = mark[i] - mark[i - 1]
                      /\ Gap(s, next, i) >= 0
                      /\ 0 \notin Gaps /\ next # None => Gap(s, next, i) > 0
    OBVIOUS
  <2>0. i - 1 \in 0 .. n /\ i - 1 < n /\ (i - 1) + 1 = i /\ i \in 0 .. n
    BY <1>2
  <2>1. mark[i - 1] = ts(i)
    BY <2>0
  <2>2. CASE i < n
    <3>1. i + 1 \in 1 .. n /\ i \in 1 .. n - 1 /\ mark[i] = ts(i + 1)
      BY <2>0, <2>2, <1>2
    <3>2. ts(i + 1) >= ts(i) /\ (0 \notin Gaps => ts(i + 1) > ts(i))
      BY <3>1 DEF InTime
    <3>3. Gap(s, next, i) = ts(i + 1) - ts(i)
      BY <2>2 DEF Gap
    <3> DEFINE a == ts(i)
               b == ts(i + 1)
               g == Gap(s, next, i)
    <3>4. a \in Int /\ b \in Int /\ g = b - a /\ b >= a /\ (0 \notin Gaps => b > a)
      BY <1>2, <3>1, <3>2, <3>3
    <3>5. mark[i] = b /\ mark[i - 1] = a
      BY <2>1, <3>1
    <3> HIDE DEF a, b, g, mark
    <3>6. g \in Int /\ g = b - a /\ g >= 0 /\ (0 \notin Gaps => g > 0)
      BY <3>4
    <3> QED
      BY <3>5, <3>6 DEF g
  <2>3. CASE i = n
    <3>1. mark[i] = Until(s.pending, next)
      BY <2>3, <1>3
    <3>2. CASE next = None
      BY <1>2, <2>1, <2>3, <3>1, <3>2 DEF Gap, Until
    <3>3. CASE next # None
      <4>1. Gap(s, next, i) = next - ts(i) /\ Until(s.pending, next) = next /\ next \in Nat
        BY <2>3, <3>3 DEF Gap, Until
      <4>2. next >= ts(i) /\ (0 \notin Gaps => next > ts(i))
        BY <2>3, <3>3 DEF ComesAfter
      <4> QED
        BY <1>2, <2>1, <3>1, <4>1, <4>2
    <3> QED
      BY <3>2, <3>3
  <2> QED
    BY <2>2, <2>3, <1>2
<1> HIDE DEF mark
<1> DEFINE lasts == CHOOSE last : LastsAsSent(last, s, next, n)
<1>5. LastsAsSent(lasts, s, next, n)
  BY <1>2, SomeLasting
<1>6. Durations(s, next) = [i \in 1 .. n |-> lasts[i]]
  BY Zenon DEF Durations, LastsAsSent, Gap, LastsFirst
<1> HIDE DEF lasts
<1>7. LastsFirst(s) = 1
  BY <1>1 DEF LastsFirst, Max2
<1>8. \A i \in 0 .. n : lasts[i] = IF i = 0 THEN 1 ELSE IF Gap(s, next, i) > 0 THEN Gap(s, next, i) ELSE lasts[i - 1]
  BY <1>5, <1>7 DEF LastsAsSent
<1> DEFINE T == {m \in Nat : m <= n => lasts[m] \in Nat}
<1>9. 0 \in T
  BY <1>2, <1>8
<1>10. ASSUME NEW m \in Nat, m \in T PROVE m + 1 \in T
  <2> SUFFICES ASSUME m + 1 <= n PROVE lasts[m + 1] \in Nat
    OBVIOUS
  <2>1. m + 1 \in 1 .. n /\ m + 1 \in 0 .. n /\ m + 1 # 0 /\ (m + 1) - 1 = m
    BY <1>2
  <2>2. lasts[m + 1] = IF Gap(s, next, m + 1) > 0 THEN Gap(s, next, m + 1) ELSE lasts[m]
    BY <1>8, <2>1
  <2>3. lasts[m] \in Nat
    BY <1>10, <1>2
  <2>4. Gap(s, next, m + 1) \in Int
    BY <1>4, <2>1
  <2> QED
    BY <2>2, <2>3, <2>4
<1>11. Nat \subseteq T
  <2> HIDE DEF T
  <2> QED
    BY <1>9, <1>10, NumbersFollow
<1>12. \A i \in 1 .. n : lasts[i] \in Nat
  BY <1>2, <1>11
<1>13. \A i \in 1 .. n : /\ lasts[i] >= mark[i] - mark[i - 1]
                         /\ 0 \notin Gaps /\ next # None => lasts[i] = mark[i] - mark[i - 1]
  <2> SUFFICES ASSUME NEW i \in 1 .. n
               PROVE  /\ lasts[i] >= mark[i] - mark[i - 1]
                      /\ 0 \notin Gaps /\ next # None => lasts[i] = mark[i] - mark[i - 1]
    OBVIOUS
  <2>1. i \in 0 .. n /\ i # 0
    BY <1>2
  <2>2. lasts[i] = IF Gap(s, next, i) > 0 THEN Gap(s, next, i) ELSE lasts[i - 1]
    BY <1>8, <2>1
  <2>3. lasts[i] \in Nat
    BY <1>12
  <2>4. /\ Gap(s, next, i) \in Int /\ Gap(s, next, i) = mark[i] - mark[i - 1]
        /\ Gap(s, next, i) >= 0
        /\ 0 \notin Gaps /\ next # None => Gap(s, next, i) > 0
    BY <1>4
  <2> DEFINE g == Gap(s, next, i)
             a == mark[i]
             b == mark[i - 1]
             l == lasts[i]
  <2>5. l >= g /\ (0 \notin Gaps /\ next # None => l = g)
    BY <2>2, <2>3, <2>4
  <2>6. g = a - b
    BY <2>4
  <2> QED
    BY <2>5, <2>6
<1> DEFINE d == Durations(s, next)
<1>14. d \in [1 .. n -> Nat] /\ \A i \in 1 .. n : d[i] = lasts[i]
  BY <1>6, <1>12
<1> HIDE DEF d, n
<1>15. /\ Total(d) \in Nat /\ Total(d) >= mark[n] - mark[0]
       /\ (\A i \in 1 .. n : d[i] = mark[i] - mark[i - 1]) => Total(d) = mark[n] - mark[0]
  <2>1. \A i \in 1 .. n : d[i] >= mark[i] - mark[i - 1]
    BY <1>13, <1>14
  <2> QED
    BY <1>2, <1>3, <1>14, <2>1, TotalReaches
<1>16. 0 \notin Gaps /\ next # None => Total(d) = mark[n] - mark[0]
  BY <1>13, <1>14, <1>15
<1>17. Close(s, next) = [sequence |-> s.sequence, start |-> s.pending[1].ts, duration |-> Total(d), frames |-> s.pending]
  BY DEF Close, d
<1>18. s.pending[1].ts \in Nat /\ Until(s.pending, next) \in Int
  BY <1>2 DEF Until, n
<1>19. /\ Close(s, next).start = s.pending[1].ts /\ Close(s, next).duration = Total(d)
       /\ Close(s, next) \in RecSegments
       /\ Close(s, next).sequence = s.sequence /\ Close(s, next).frames = s.pending
  BY <1>1, <1>15, <1>17, <1>18 DEF RecSegments
<1> DEFINE a == s.pending[1].ts
           u == Until(s.pending, next)
           t == Total(d)
<1>20. t \in Nat /\ t >= u - a /\ (0 \notin Gaps /\ next # None => t = u - a) /\ a \in Nat /\ u \in Int
  BY <1>3, <1>15, <1>16, <1>18
<1> HIDE DEF a, u, t
<1>21. a + t >= u /\ (0 \notin Gaps /\ next # None => a + t = u)
  BY <1>20
<1> QED
  BY <1>19, <1>21 DEF a, u, t

\* A segmenter with nothing pending has seen nothing.
IsFresh(s) == s.pending = <<>> => s = NewSegmenter

\* The segmenter with its parameters and its clock set, before it takes a frame.
ReadyFor(s, c) ==
    c \in Cutters /\ c.rate = 1 /\ c.pending = s.pending /\ c.sequence = s.sequence

\* What push does with a frame of the source: it refuses it, drops what cannot be decoded,
\* or takes it, with or without closing the segment before it.
LEMMA CutterPush ==
    ASSUME NEW s \in Cutters, NEW f \in RecFrames, NEW p,
           IsFresh(s), p = [cfg |-> f.cfg, frame |-> None, sound |-> TRUE]
    PROVE  \/ Push(s, f, p).kind \in {"changed", "error"}
           \/ s.pending = <<>> /\ ~f.key /\ Push(s, f, p) = Pushed("nothing", s, None)
           \/ \E c : /\ ReadyFor(s, c) /\ (s.pending # <<>> \/ f.key)
                     /\ \/ Push(s, f, p) = Pushed("nothing", Take(c, f), None)
                        \/ /\ f.key /\ s.pending # <<>>
                           /\ Push(s, f, p) = Pushed("segment", Take(Closed(c), f), Close(c, f.ts))
<1>1. f.rate = 1 /\ p.cfg = f.cfg /\ p.frame = None /\ p.sound /\ f.cfg \in Formats
  BY DEF RecFrames
<1>2. s.pending = <<>> => s.entry = None
  BY DEF IsFresh, NewSegmenter
<1>3. CASE Undecodable(s, f)
  BY <1>3 DEF Undecodable, Push
<1>4. CASE ~Undecodable(s, f) /\ Describes(s, f) /\ p = None
  BY <1>4 DEF Push, Pushed
<1>5. CASE ~Undecodable(s, f) /\ ~(Describes(s, f) /\ p = None) /\ Describes(s, f) /\ Reshaped(s, p)
  BY <1>1, <1>5 DEF Push, Pushed
<1>6. CASE ~Undecodable(s, f) /\ ~(Describes(s, f) /\ p = None) /\ ~(Describes(s, f) /\ Reshaped(s, p))
  <2> DEFINE d == Described(s, f, p)
             c == Clocked(d, f)
  <2>1. d \in Cutters /\ d.rate = s.rate /\ d.pending = s.pending /\ d.sequence = s.sequence
    <3>1. CASE Describes(s, f)
      <4>1. d = [s EXCEPT !.entry = f.cfg, !.fallback = None]
        BY <1>1, <3>1 DEF Described
      <4> HIDE DEF d
      <4> DEFINE e == f.cfg
      <4>2. e \in Formats /\ d = [s EXCEPT !.entry = e, !.fallback = None]
        BY <1>1, <4>1
      <4> HIDE DEF e
      <4> QED
        BY <4>2 DEF Cutters
    <3>2. CASE ~Describes(s, f)
      BY <3>2 DEF Described
    <3> QED
      BY <3>1, <3>2
  <2> HIDE DEF d
  <2>2. c \in Cutters /\ c.rate = 1 /\ c.pending = d.pending /\ c.sequence = d.sequence
    <3>1. CASE d.rate = None
      <4>1. c = [d EXCEPT !.rate = 1]
        BY <1>1, <3>1 DEF Clocked
      <4> HIDE DEF c
      <4> QED
        BY <2>1, <4>1 DEF Cutters
    <3>2. CASE d.rate # None
      BY <2>1, <3>2 DEF Clocked, Cutters
    <3> QED
      BY <3>1, <3>2
  <2>3. ReadyFor(s, c)
    BY <2>1, <2>2 DEF ReadyFor
  <2>4. s.pending # <<>> \/ f.key
    BY <1>2, <1>6 DEF Undecodable
  <2> HIDE DEF c
  <2>5. d.rate \in {None, f.rate}
    BY <1>1, <2>1 DEF Cutters
  <2>6. Push(s, f, p) = IF Closes(c, f) THEN Pushed("segment", Take(Closed(c), f), Close(c, f.ts))
                        ELSE Pushed("nothing", Take(c, f), None)
    BY <1>1, <1>6, <2>5 DEF Push, d, c
  <2>7. Closes(c, f) => f.key /\ s.pending # <<>>
    BY <2>3 DEF Closes, ReadyFor
  <2> QED
    BY <2>3, <2>4, <2>6, <2>7
<1> QED
  BY <1>3, <1>4, <1>5, <1>6

\* A segmenter that takes a frame, or closes a segment, is one.
LEMMA CutterStays ==
    ASSUME NEW s \in Cutters, NEW f \in RecFrames
    PROVE  /\ Take(s, f) \in Cutters /\ Take(s, f).pending = Append(s.pending, f)
           /\ Take(s, f).rate = s.rate /\ Take(s, f).sequence = s.sequence
           /\ Closed(s) \in Cutters /\ Closed(s).pending = <<>>
           /\ Closed(s).rate = s.rate /\ Closed(s).sequence = s.sequence + 1
<1> DEFINE q == Append(s.pending, f)
           n == s.sequence + 1
<1>1. q \in Seq(RecFrames) /\ n \in Nat /\ <<>> \in Seq(RecFrames)
  BY DEF Cutters
<1>2. Take(s, f) = [s EXCEPT !.pending = q] /\ Closed(s) = [s EXCEPT !.pending = <<>>, !.sequence = n]
  BY DEF Take, Closed
<1> HIDE DEF q, n
<1>3. /\ Take(s, f) \in Cutters /\ Take(s, f).pending = q
      /\ Take(s, f).rate = s.rate /\ Take(s, f).sequence = s.sequence
  BY <1>1, <1>2 DEF Cutters
<1>4. /\ Closed(s) \in Cutters /\ Closed(s).pending = <<>>
      /\ Closed(s).rate = s.rate /\ Closed(s).sequence = n
  BY <1>1, <1>2 DEF Cutters
<1> QED
  BY <1>3, <1>4 DEF q, n

-----------------------------------------------------------------------------
\* The frames of segments, one segment after another.
JoinsTo(upTo, m) ==
    upTo = [i \in 0 .. Len(m) |-> IF i = 0 THEN <<>> ELSE upTo[i - 1] \o m[i].frames]

JoinedFrames(m) ==
    LET upTo[i \in 0 .. Len(m)] == IF i = 0 THEN <<>> ELSE upTo[i - 1] \o m[i].frames
    IN  upTo[Len(m)]

\* There are frames of the first segments, for every number of them.
LEMMA SomeJoin ==
    ASSUME NEW m, Len(m) \in Nat
    PROVE  \E upTo : JoinsTo(upTo, m)
<1> DEFINE To(f, n) == f = [i \in 0 .. n |-> IF i = 0 THEN <<>> ELSE f[i - 1] \o m[i].frames]
           N == {n \in Nat : \E f : To(f, n)}
<1>1. 0 \in N
  <2> DEFINE zero == [i \in 0 .. 0 |-> <<>>]
  <2>1. To(zero, 0)
    OBVIOUS
  <2> QED
    BY <2>1
<1>2. ASSUME NEW n \in Nat, n \in N PROVE n + 1 \in N
  <2>1. PICK f : To(f, n)
    BY <1>2
  <2> DEFINE more == [i \in 0 .. n + 1 |-> IF i = n + 1 THEN f[n] \o m[n + 1].frames ELSE f[i]]
  <2>2. \A i \in 0 .. n + 1 : more[i] = IF i = 0 THEN <<>> ELSE more[i - 1] \o m[i].frames
    <3> SUFFICES ASSUME NEW i \in 0 .. n + 1 PROVE more[i] = IF i = 0 THEN <<>> ELSE more[i - 1] \o m[i].frames
      OBVIOUS
    <3>1. CASE i = n + 1
      <4>1. more[n] = f[n] /\ i - 1 = n /\ i # 0
        BY <3>1
      <4> QED
        BY <3>1, <4>1
    <3>2. CASE i # n + 1
      <4>1. i \in 0 .. n /\ more[i] = f[i]
        BY <3>2
      <4>2. f[i] = IF i = 0 THEN <<>> ELSE f[i - 1] \o m[i].frames
        BY <2>1, <4>1
      <4>3. i # 0 => i - 1 \in 0 .. n + 1 /\ i - 1 # n + 1
        BY <4>1
      <4>4. i # 0 => more[i - 1] = f[i - 1]
        BY <4>3
      <4> HIDE DEF more
      <4> QED
        BY <4>1, <4>2, <4>4
    <3> QED
      BY <3>1, <3>2
  <2>3. more = [i \in 0 .. n + 1 |-> more[i]]
    OBVIOUS
  <2>4. To(more, n + 1)
    <3> HIDE DEF more
    <3> QED
      BY <2>2, <2>3
  <2>5. \E g : To(g, n + 1)
    <3> HIDE DEF more, To
    <3> QED
      BY <2>4
  <2> QED
    BY <2>5
<1>3. Nat \subseteq N
  <2> HIDE DEF N
  <2> QED
    BY <1>1, <1>2, NumbersFollow
<1>4. PICK f : To(f, Len(m))
  BY <1>3
<1> QED
  BY <1>4 DEF JoinsTo

\* Segments with the same frames have the same joined.
LEMMA SameFrames ==
    ASSUME NEW m, NEW w, Len(m) \in Nat, Len(w) = Len(m),
           \A i \in 1 .. Len(m) : w[i].frames = m[i].frames
    PROVE  JoinedFrames(w) = JoinedFrames(m)
<1> DEFINE f == CHOOSE g : JoinsTo(g, m)
           h == CHOOSE g : JoinsTo(g, w)
<1>1. JoinsTo(f, m) /\ JoinsTo(h, w)
  BY SomeJoin
<1>2. JoinedFrames(m) = f[Len(m)] /\ JoinedFrames(w) = h[Len(m)]
  BY DEF JoinedFrames, JoinsTo
<1> HIDE DEF f, h
<1> DEFINE n == Len(m)
<1>3. \A i \in 0 .. n : /\ f[i] = IF i = 0 THEN <<>> ELSE f[i - 1] \o m[i].frames
                        /\ h[i] = IF i = 0 THEN <<>> ELSE h[i - 1] \o w[i].frames
  BY <1>1 DEF JoinsTo
<1> DEFINE T == {k \in Nat : k <= n => f[k] = h[k]}
<1>4. 0 \in T
  BY <1>3
<1>5. ASSUME NEW k \in Nat, k \in T PROVE k + 1 \in T
  <2> SUFFICES ASSUME k + 1 <= n PROVE f[k + 1] = h[k + 1]
    OBVIOUS
  <2>1. k + 1 \in 0 .. n /\ k + 1 \in 1 .. n /\ k + 1 # 0 /\ (k + 1) - 1 = k /\ f[k] = h[k]
    BY <1>5
  <2>2. f[k + 1] = f[k] \o m[k + 1].frames /\ h[k + 1] = h[k] \o w[k + 1].frames
    BY <1>3, <2>1
  <2> QED
    BY <2>1, <2>2
<1>6. Nat \subseteq T
  <2> HIDE DEF T
  <2> QED
    BY <1>4, <1>5, NumbersFollow
<1>7. n \in T
  BY <1>6
<1> QED
  BY <1>2, <1>7

\* One more segment.
LEMMA JoinGrows ==
    ASSUME NEW m \in Seq(RecSegments), NEW s \in RecSegments
    PROVE  /\ JoinedFrames(Append(m, s)) = JoinedFrames(m) \o s.frames
           /\ JoinedFrames(m) \in Seq(RecFrames) /\ JoinedFrames(<<>>) = <<>>
<1> DEFINE n == Len(m)
           w == Append(m, s)
<1>0. n \in Nat /\ Len(w) = n + 1 /\ w[n + 1] = s /\ \A i \in 1 .. n : w[i] = m[i] /\ m[i] \in RecSegments
  BY ElementOfSeq
<1> DEFINE f == CHOOSE g : JoinsTo(g, m)
           h == CHOOSE g : JoinsTo(g, w)
<1>1. JoinsTo(f, m) /\ JoinsTo(h, w)
  <2> HIDE DEF w
  <2> QED
    BY <1>0, SomeJoin
<1>2. JoinedFrames(m) = f[n] /\ JoinedFrames(w) = h[n + 1]
  <2>1. JoinedFrames(m) = f[Len(m)] /\ JoinedFrames(w) = h[Len(w)]
    BY DEF JoinedFrames, JoinsTo
  <2> QED
    BY <1>0, <2>1
<1> HIDE DEF f, h, w
<1>3. /\ \A i \in 0 .. n : f[i] = IF i = 0 THEN <<>> ELSE f[i - 1] \o m[i].frames
      /\ \A i \in 0 .. n + 1 : h[i] = IF i = 0 THEN <<>> ELSE h[i - 1] \o w[i].frames
  BY <1>0, <1>1 DEF JoinsTo
<1> DEFINE T == {k \in Nat : k <= n => f[k] = h[k] /\ f[k] \in Seq(RecFrames)}
<1>4. 0 \in T
  <2>0. 0 \in 0 .. n /\ 0 \in 0 .. n + 1
    BY <1>0
  <2>1. f[0] = <<>> /\ h[0] = <<>>
    BY <1>3, <2>0
  <2>2. <<>> \in Seq(RecFrames)
    OBVIOUS
  <2>3. f[0] = h[0] /\ f[0] \in Seq(RecFrames)
    BY <2>1, <2>2
  <2> QED
    BY <2>3
<1>5. ASSUME NEW k \in Nat, k \in T PROVE k + 1 \in T
  <2> SUFFICES ASSUME k + 1 <= n PROVE f[k + 1] = h[k + 1] /\ f[k + 1] \in Seq(RecFrames)
    OBVIOUS
  <2>1. /\ k + 1 \in 0 .. n /\ k + 1 \in 0 .. n + 1 /\ k + 1 \in 1 .. n /\ k + 1 # 0 /\ (k + 1) - 1 = k
        /\ f[k] = h[k] /\ f[k] \in Seq(RecFrames)
    BY <1>0, <1>5
  <2>2. f[k + 1] = f[k] \o m[k + 1].frames /\ h[k + 1] = h[k] \o w[k + 1].frames
    BY <1>3, <2>1
  <2>3. w[k + 1] = m[k + 1] /\ m[k + 1].frames \in Seq(RecFrames)
    BY <1>0, <2>1 DEF RecSegments
  <2>4. f[k] \o m[k + 1].frames \in Seq(RecFrames)
    BY <2>1, <2>3, ConcatProperties
  <2> QED
    BY <2>1, <2>2, <2>3, <2>4
<1>6. Nat \subseteq T
  <2> HIDE DEF T
  <2> QED
    BY <1>4, <1>5, NumbersFollow
<1>7. n \in T
  BY <1>0, <1>6
<1>8. h[n + 1] = h[n] \o s.frames
  <2>1. n + 1 \in 0 .. n + 1 /\ n + 1 # 0 /\ (n + 1) - 1 = n
    BY <1>0
  <2> QED
    BY <1>0, <1>3, <2>1
<1>9. JoinedFrames(<<>>) = <<>>
  <2>1. PICK g : JoinsTo(g, <<>>)
    BY SomeJoin
  <2> DEFINE z == CHOOSE y : JoinsTo(y, <<>>)
  <2>2. JoinsTo(z, <<>>) /\ JoinedFrames(<<>>) = z[Len(<<>>)]
    BY <2>1 DEF JoinedFrames, JoinsTo
  <2> HIDE DEF z
  <2>3. z[0] = <<>>
    BY <2>2 DEF JoinsTo
  <2> QED
    BY <2>2, <2>3
<1>10. JoinedFrames(w) = JoinedFrames(m) \o s.frames /\ JoinedFrames(m) \in Seq(RecFrames)
  <2>1. n <= n /\ f[n] = h[n] /\ f[n] \in Seq(RecFrames)
    BY <1>0, <1>7
  <2> QED
    BY <1>2, <1>8, <2>1
<1> QED
  BY <1>9, <1>10 DEF w

\* The frames of segments are frames.
LEMMA JoinIsFrames ==
    JoinedFrames(<<>>) = <<>> /\ \A m \in Seq(RecSegments) : JoinedFrames(m) \in Seq(RecFrames)
<1> DEFINE s == [sequence |-> 0, start |-> 0, duration |-> 0, frames |-> <<>>]
<1>1. <<>> \in Seq(RecFrames)
  OBVIOUS
<1>2. s \in RecSegments
  BY <1>1 DEF RecSegments
<1> HIDE DEF s
<1>3. \A m \in Seq(RecSegments) : JoinedFrames(m) \in Seq(RecFrames) /\ JoinedFrames(<<>>) = <<>>
  BY <1>2, JoinGrows
<1>4. <<>> \in Seq(RecSegments)
  OBVIOUS
<1> QED
  BY <1>3, <1>4

-----------------------------------------------------------------------------
(* What a recording keeps.                                                 *)

\* A frame after others, in the order of time.
Later(fs, f) == fs # <<>> => f.ts >= fs[Len(fs)].ts /\ (0 \notin Gaps => f.ts > fs[Len(fs)].ts)

\* Frames in time stay so when a later one is kept.
LEMMA TimeGoesOn ==
    ASSUME NEW fs \in Seq(RecFrames), NEW f \in RecFrames, InTime(fs), Later(fs, f)
    PROVE  /\ InTime(Append(fs, f)) /\ Append(fs, f) \in Seq(RecFrames)
           /\ Append(fs, f)[Len(Append(fs, f))] = f /\ Append(fs, f) # <<>>
           /\ fs # <<>> => Append(fs, f)[1] = fs[1]
           /\ Append(fs, f)[1] \in {fs[1], f} /\ (fs = <<>> => Append(fs, f)[1] = f)
<1> DEFINE g == Append(fs, f)
           n == Len(fs)
<1>1. /\ g \in Seq(RecFrames) /\ g # <<>> /\ Len(g) = n + 1 /\ g[n + 1] = f
      /\ \A i \in 1 .. n : g[i] = fs[i]
  BY AppendProperties
<1>2. n \in Nat /\ (fs # <<>> => n >= 1) /\ (fs = <<>> => n = 0)
  BY EmptySeq
<1> HIDE DEF g, n
<1>3. ASSUME NEW i \in 1 .. n PROVE g[i + 1].ts >= g[i].ts /\ (0 \notin Gaps => g[i + 1].ts > g[i].ts)
  <2>1. CASE i = n
    BY <1>1, <1>2, <2>1 DEF Later, n
  <2>2. CASE i # n
    <3>1. i \in 1 .. n - 1 /\ i + 1 \in 1 .. n /\ i \in 1 .. n
      BY <1>2, <2>2
    <3>2. g[i + 1] = fs[i + 1] /\ g[i] = fs[i]
      BY <1>1, <3>1
    <3> QED
      BY <3>1, <3>2 DEF InTime, n
  <2> QED
    BY <2>1, <2>2
<1>4. InTime(g)
  <2>1. Len(g) - 1 = n
    BY <1>1, <1>2
  <2> QED
    BY <1>3, <2>1 DEF InTime
<1>5. fs # <<>> => g[1] = fs[1]
  BY <1>1, <1>2
<1>6. fs = <<>> => g[1] = f
  BY <1>1, <1>2
<1> QED
  BY <1>1, <1>4, <1>5, <1>6 DEF g

\* fs are the frames of rc from the first key frame on.
KeptOnwards(rc, fs) ==
    \E b \in 1 .. Len(rc) :
        /\ rc[b].key /\ \A j \in 1 .. b - 1 : ~rc[j].key
        /\ fs = SubSeq(rc, b, Len(rc))

\* A frame that arrives and is kept goes to the end of what is.
LEMMA KeepingGrows ==
    ASSUME NEW rc \in Seq(RecFrames), NEW fs, NEW f \in RecFrames, KeptOnwards(rc, fs)
    PROVE  KeptOnwards(Append(rc, f), Append(fs, f))
<1> DEFINE g == Append(rc, f)
           n == Len(rc)
<1>1. /\ g \in Seq(RecFrames) /\ Len(g) = n + 1 /\ g[n + 1] = f /\ n \in Nat
      /\ \A i \in 1 .. n : g[i] = rc[i]
  BY AppendProperties
<1>2. PICK b \in 1 .. n : /\ rc[b].key /\ \A j \in 1 .. b - 1 : ~rc[j].key
                          /\ fs = SubSeq(rc, b, n)
  BY DEF KeptOnwards
<1>3. Append(fs, f) = SubSeq(g, b, n + 1)
  <2>1. \A i \in b .. n : rc[i] \in RecFrames
    BY <1>1, ElementOfSeq
  <2>2. fs \in Seq(RecFrames) /\ Len(fs) = n - b + 1 /\ \A i \in 1 .. n - b + 1 : fs[i] = rc[b + i - 1]
    BY <1>1, <1>2, <2>1, SubSeqProperties
  <2>3. \A i \in b .. n + 1 : g[i] \in RecFrames
    BY <1>1, ElementOfSeq
  <2> DEFINE u == SubSeq(g, b, n + 1)
             v == Append(fs, f)
  <2>4. u \in Seq(RecFrames) /\ Len(u) = (n + 1) - b + 1 /\ \A i \in 1 .. (n + 1) - b + 1 : u[i] = g[b + i - 1]
    <3> HIDE DEF g, n
    <3>0. n + 1 \in Int /\ b \in Int /\ b <= n + 1
      BY <1>1, <1>2
    <3> DEFINE m == n + 1
    <3>1. m \in Int /\ b <= m /\ \A i \in b .. m : g[i] \in RecFrames
      BY <2>3, <3>0
    <3> HIDE DEF m
    <3>2. SubSeq(g, b, m) \in Seq(RecFrames) /\ Len(SubSeq(g, b, m)) = m - b + 1
          /\ \A i \in 1 .. m - b + 1 : SubSeq(g, b, m)[i] = g[b + i - 1]
      BY <3>0, <3>1, SubSeqProperties
    <3> QED
      BY <3>2 DEF m
  <2>5. /\ v \in Seq(RecFrames) /\ Len(v) = Len(fs) + 1 /\ v[Len(fs) + 1] = f
        /\ \A i \in 1 .. Len(fs) : v[i] = fs[i]
    BY <2>2, AppendProperties
  <2> HIDE DEF u, v, g, n
  <2>6. Len(u) = Len(v)
    BY <1>1, <1>2, <2>2, <2>4, <2>5
  <2>7. ASSUME NEW i \in 1 .. Len(v) PROVE v[i] = u[i]
    <3>0. Len(v) = (n - b) + 2 /\ n \in Nat /\ b \in 1 .. n
      BY <1>1, <1>2, <2>2, <2>5
    <3>1. CASE i = Len(v)
      <4>1. i = Len(fs) + 1 /\ b + i - 1 = n + 1 /\ i \in 1 .. (n + 1) - b + 1
        BY <2>2, <3>0, <3>1
      <4> QED
        BY <1>1, <2>4, <2>5, <4>1
    <3>2. CASE i # Len(v)
      <4>1. i \in 1 .. n - b + 1 /\ i \in 1 .. (n + 1) - b + 1 /\ b + i - 1 \in 1 .. n
        BY <3>0, <3>2
      <4>2. v[i] = rc[b + i - 1]
        BY <2>2, <2>5, <4>1
      <4>3. u[i] = rc[b + i - 1]
        BY <1>1, <2>4, <4>1
      <4> QED
        BY <4>2, <4>3
    <3> QED
      BY <3>1, <3>2
  <2>8. v = u
    BY <2>4, <2>5, <2>6, <2>7, SeqEqual
  <2> QED
    BY <2>8 DEF u, v
<1>4. b \in 1 .. Len(g) /\ g[b].key /\ \A j \in 1 .. b - 1 : ~g[j].key
  <2>1. \A j \in 1 .. b - 1 : j \in 1 .. n
    BY <1>1
  <2> HIDE DEF g
  <2> QED
    BY <1>1, <1>2, <2>1
<1> HIDE DEF g
<1> QED
  BY <1>1, <1>3, <1>4 DEF KeptOnwards, g

\* The first keyframe is the first frame kept.
LEMMA KeepingBegins ==
    ASSUME NEW rc \in Seq(RecFrames), NEW f \in RecFrames, f.key, \A i \in 1 .. Len(rc) : ~rc[i].key
    PROVE  KeptOnwards(Append(rc, f), <<f>>)
<1> DEFINE g == Append(rc, f)
           n == Len(rc)
           one == <<f>>
<1>1. /\ g \in Seq(RecFrames) /\ Len(g) = n + 1 /\ g[n + 1] = f /\ n \in Nat
      /\ \A i \in 1 .. n : g[i] = rc[i]
  BY AppendProperties
<1>2. one \in Seq(RecFrames) /\ Len(one) = 1 /\ one[1] = f
  OBVIOUS
<1> HIDE DEF g, n, one
<1>3. one = SubSeq(g, n + 1, n + 1)
  <2> DEFINE m == n + 1
             u == SubSeq(g, m, m)
  <2>1. m \in Int /\ g[m] = f
    BY <1>1
  <2> HIDE DEF m
  <2>2. u \in Seq(RecFrames) /\ Len(u) = 1 /\ u[1] = g[m]
    <3>1. \A i \in m .. m : g[i] \in RecFrames
      BY <2>1
    <3>2. /\ u \in Seq(RecFrames) /\ Len(u) = IF m <= m THEN m - m + 1 ELSE 0
          /\ \A i \in 1 .. m - m + 1 : u[i] = g[m + i - 1]
      BY ONLY <2>1, <3>1, SubSeqProperties
    <3> HIDE DEF u
    <3>3. Len(u) = 1 /\ m - m + 1 = 1 /\ m + 1 - 1 = m
      BY <2>1, <3>2
    <3> QED
      BY <3>2, <3>3
  <2> HIDE DEF u
  <2>3. u = one
    <3>1. \A i \in 1 .. Len(u) : u[i] = one[i]
      BY <1>2, <2>1, <2>2
    <3> QED
      BY <1>2, <2>2, <3>1, SeqEqual
  <2> QED
    BY <2>3 DEF u, m
<1>4. n + 1 \in 1 .. Len(g) /\ g[n + 1].key /\ \A j \in 1 .. (n + 1) - 1 : ~g[j].key
  BY <1>1 DEF n
<1>5. KeptOnwards(g, one)
  BY <1>1, <1>3, <1>4 DEF KeptOnwards
<1> QED
  BY <1>5 DEF g, one

\* What is kept begins with the first key frame there is.
LEMMA KeptFromFirst ==
    ASSUME NEW rc \in Seq(RecFrames), NEW fs, KeptOnwards(rc, fs)
    PROVE  LET keys == {i \in DOMAIN rc : rc[i].key}
               begin == CHOOSE i \in keys : \A j \in keys : i <= j
           IN  keys # {} /\ fs = SubSeq(rc, begin, Len(rc))
<1> DEFINE keys == {i \in DOMAIN rc : rc[i].key}
<1>1. DOMAIN rc = 1 .. Len(rc) /\ Len(rc) \in Nat
  BY LenProperties
<1>2. PICK b \in 1 .. Len(rc) : /\ rc[b].key /\ \A j \in 1 .. b - 1 : ~rc[j].key
                                /\ fs = SubSeq(rc, b, Len(rc))
  BY DEF KeptOnwards
<1>3. b \in keys /\ \A j \in keys : b <= j
  <2>1. b \in keys
    BY <1>1, <1>2
  <2>2. ASSUME NEW j \in keys PROVE b <= j
    <3>1. j \in 1 .. Len(rc) /\ rc[j].key
      BY <1>1
    <3>2. ~(j \in 1 .. b - 1)
      BY <1>2, <3>1
    <3> QED
      BY <1>1, <1>2, <3>1, <3>2
  <2> QED
    BY <2>1, <2>2
<1>4. keys \subseteq Nat
  BY <1>1
<1> DEFINE begin == CHOOSE i \in keys : \A j \in keys : i <= j
<1> HIDE DEF keys
<1>5. begin \in keys /\ \A j \in keys : begin <= j
  BY <1>3
<1> HIDE DEF begin
<1>6. begin = b
  <2>1. begin <= b /\ b <= begin /\ begin \in Nat /\ b \in Nat
    BY <1>3, <1>4, <1>5
  <2> QED
    BY <2>1
<1>7. keys # {} /\ fs = SubSeq(rc, begin, Len(rc))
  BY <1>2, <1>3, <1>6
<1> QED
  BY <1>7 DEF begin, keys

-----------------------------------------------------------------------------
\* A segment lasts until t.
Meets(s, t) ==
    s.start + s.duration >= t /\ (0 \notin Gaps => s.start + s.duration = t)

\* Segments that follow one another from a first time on.
InSequence(segs, from) ==
    /\ \A i \in 1 .. Len(segs) : /\ segs[i].sequence = i - 1 /\ segs[i].frames # <<>>
                                 /\ segs[i].frames[1].key /\ segs[i].start >= from
    /\ \A i \in 1 .. Len(segs) - 1 : Meets(segs[i], segs[i + 1].start)

\* Segments that follow one another go on with one that begins where the last ended.
LEMMA FollowingGrows ==
    ASSUME NEW segs \in Seq(RecSegments), NEW s \in RecSegments, NEW from \in Nat,
           InSequence(segs, from), s.sequence = Len(segs), s.frames # <<>>, s.frames[1].key, s.start >= from,
           segs # <<>> => Meets(segs[Len(segs)], s.start)
    PROVE  InSequence(Append(segs, s), from)
<1> DEFINE g == Append(segs, s)
           n == Len(segs)
<1>1. /\ g \in Seq(RecSegments) /\ Len(g) = n + 1 /\ g[n + 1] = s /\ n \in Nat
      /\ \A i \in 1 .. n : g[i] = segs[i]
  BY AppendProperties
<1>2. n > 0 => segs # <<>>
  OBVIOUS
<1> HIDE DEF g, n
<1>3. ASSUME NEW i \in 1 .. n + 1
      PROVE  g[i].sequence = i - 1 /\ g[i].frames # <<>> /\ g[i].frames[1].key /\ g[i].start >= from
  <2>1. CASE i = n + 1
    BY <1>1, <2>1 DEF n
  <2>2. CASE i # n + 1
    <3>1. i \in 1 .. n
      BY <1>1, <2>2
    <3> QED
      BY <1>1, <3>1 DEF InSequence, n
  <2> QED
    BY <2>1, <2>2
<1>4. ASSUME NEW i \in 1 .. n PROVE Meets(g[i], g[i + 1].start)
  <2>1. CASE i = n
    <3>1. g[i] = segs[n] /\ g[i + 1] = s /\ segs # <<>>
      BY <1>1, <1>2, <2>1
    <3> QED
      BY <3>1 DEF n
  <2>2. CASE i # n
    <3>1. i \in 1 .. n - 1 /\ i + 1 \in 1 .. n
      BY <1>1, <2>2
    <3>2. g[i] = segs[i] /\ g[i + 1] = segs[i + 1]
      BY <1>1, <3>1
    <3> QED
      BY <3>1, <3>2 DEF InSequence, n
  <2> QED
    BY <2>1, <2>2
<1>5. InSequence(g, from)
  <2>1. Len(g) = n + 1 /\ Len(g) - 1 = n
    BY <1>1
  <2> QED
    BY <1>3, <1>4, <2>1 DEF InSequence
<1> QED
  BY <1>5 DEF g

\* Where a recording that has kept a frame is.
HasBegun(rc, c, cl, from, enough) ==
    /\ c.rate = 1 /\ InTime(c.pending) /\ c.pending[1].key
    /\ c.pending[Len(c.pending)] = rc[Len(rc)]
    /\ from \in Nat /\ c.pending[1].ts >= from /\ InSequence(cl, from)
    /\ cl # <<>> => Meets(cl[Len(cl)], c.pending[1].ts)
    /\ KeptOnwards(rc, JoinedFrames(cl) \o c.pending)
    /\ enough => rc[Len(rc)].ts - from >= Length

Goes(rc, c, cl, from, enough) ==
    /\ rc \in Seq(RecFrames) /\ InTime(rc) /\ c \in Cutters /\ cl \in Seq(RecSegments)
    /\ IsFresh(c) /\ c.sequence = Len(cl) /\ enough \in BOOLEAN
    /\ c.pending = <<>> => cl = <<>> /\ from = None /\ ~enough /\ \A i \in 1 .. Len(rc) : ~rc[i].key
    /\ c.pending # <<>> => rc # <<>> /\ HasBegun(rc, c, cl, from, enough)

\* A frame that cannot be decoded alone is not kept.
LEMMA DroppingGoesOn ==
    ASSUME NEW rc, NEW c, NEW cl, NEW from, NEW f \in RecFrames, Goes(rc, c, cl, from, FALSE),
           Later(rc, f), c.pending = <<>>, ~f.key
    PROVE  Goes(Append(rc, f), c, cl, from, FALSE)
<1>1. rc \in Seq(RecFrames) /\ InTime(rc)
  BY DEF Goes
<1>2. InTime(Append(rc, f)) /\ Append(rc, f) \in Seq(RecFrames)
  BY <1>1, TimeGoesOn
<1>3. \A i \in 1 .. Len(Append(rc, f)) : ~Append(rc, f)[i].key
  <2>1. Len(Append(rc, f)) = Len(rc) + 1 /\ Append(rc, f)[Len(rc) + 1] = f /\ Len(rc) \in Nat
        /\ \A i \in 1 .. Len(rc) : Append(rc, f)[i] = rc[i]
    BY <1>1, AppendProperties
  <2>2. \A i \in 1 .. Len(rc) : ~rc[i].key
    BY DEF Goes
  <2> QED
    BY <2>1, <2>2
<1> QED
  BY <1>2, <1>3 DEF Goes

\* The last frame kept is the last that came.
LEMMA LastIsLast ==
    ASSUME NEW rc, NEW c, NEW cl, NEW from, NEW enough, NEW f \in RecFrames, Goes(rc, c, cl, from, enough),
           Later(rc, f), c.pending # <<>>
    PROVE  Later(c.pending, f)
  BY DEF Later, Goes, HasBegun

\* A frame that is taken.
LEMMA TakingGoesOn ==
    ASSUME NEW rc, NEW c, NEW cl, NEW from, NEW f \in RecFrames, NEW k, NEW since, NEW enough \in BOOLEAN,
           Goes(rc, c, cl, from, FALSE), Later(rc, f), ReadyFor(c, k), c.pending # <<>> \/ f.key,
           since = IF from = None THEN f.ts ELSE from, enough => f.ts - since >= Length
    PROVE  /\ Goes(Append(rc, f), Take(k, f), cl, since, enough)
           /\ Take(k, f).pending # <<>>
<1> DEFINE t == Take(k, f)
           g == Append(rc, f)
<1>1. /\ rc \in Seq(RecFrames) /\ InTime(rc) /\ c \in Cutters /\ cl \in Seq(RecSegments)
      /\ c.sequence = Len(cl) /\ c.pending \in Seq(RecFrames)
  BY DEF Goes, Cutters
<1>2. InTime(g) /\ g \in Seq(RecFrames) /\ g # <<>> /\ g[Len(g)] = f
  BY <1>1, TimeGoesOn
<1>3. t \in Cutters /\ t.pending = Append(c.pending, f) /\ t.rate = 1 /\ t.sequence = Len(cl)
  BY <1>1, CutterStays, SMTT(30) DEF ReadyFor
<1>4. InTime(c.pending) /\ Later(c.pending, f)
  <2>1. CASE c.pending = <<>>
    BY <2>1 DEF InTime, Later
  <2>2. CASE c.pending # <<>>
    BY <2>2, LastIsLast DEF Goes, HasBegun
  <2> QED
    BY <2>1, <2>2
<1>5. /\ InTime(t.pending) /\ t.pending[Len(t.pending)] = f /\ t.pending # <<>>
      /\ c.pending # <<>> => t.pending[1] = c.pending[1]
      /\ c.pending = <<>> => t.pending[1] = f
  BY <1>1, <1>3, <1>4, TimeGoesOn, SMTT(30)
<1>6. IsFresh(t)
  BY <1>5 DEF IsFresh
<1>7. f.ts \in Nat /\ None \notin Nat
  BY OnDemandAssumption DEF RecFrames
<1>8. HasBegun(g, t, cl, since, enough)
  <2>1. enough => g[Len(g)].ts - since >= Length
    BY <1>2
  <2>2. CASE c.pending = <<>>
    <3>1. cl = <<>> /\ from = None /\ f.key /\ \A i \in 1 .. Len(rc) : ~rc[i].key
      BY <2>2 DEF Goes
    <3>2. since = f.ts /\ t.pending[1] = f /\ t.pending = <<f>>
      <4>1. Append(<<>>, f) = <<f>>
        OBVIOUS
      <4> QED
        BY <1>3, <1>5, <2>2, <3>1, <4>1
    <3>3. KeptOnwards(g, <<f>>)
      BY <1>1, <3>1, KeepingBegins
    <3>4. JoinedFrames(cl) \o t.pending = <<f>>
      <4>1. JoinedFrames(<<>>) = <<>>
        BY JoinIsFrames
      <4>2. <<>> \o <<f>> = <<f>>
        OBVIOUS
      <4> QED
        BY <3>1, <3>2, <4>1, <4>2
    <3>5. InSequence(cl, since)
      BY <3>1 DEF InSequence
    <3> HIDE DEF t, g
    <3>6. t.pending[Len(t.pending)] = g[Len(g)] /\ t.pending[1].key /\ t.pending[1].ts >= since /\ since \in Nat
      BY <1>2, <1>5, <1>7, <3>1, <3>2
    <3>7. KeptOnwards(g, JoinedFrames(cl) \o t.pending)
      BY <3>3, <3>4
    <3> QED
      BY <1>3, <1>5, <2>1, <3>1, <3>5, <3>6, <3>7 DEF HasBegun
  <2>3. CASE c.pending # <<>>
    <3>1. HasBegun(rc, c, cl, from, FALSE)
      BY <2>3 DEF Goes
    <3>2. from \in Nat /\ since = from
      BY <1>7, <3>1 DEF HasBegun
    <3>3. KeptOnwards(g, JoinedFrames(cl) \o t.pending)
      <4>1. KeptOnwards(g, Append(JoinedFrames(cl) \o c.pending, f))
        BY <1>1, <3>1, KeepingGrows DEF HasBegun
      <4>2. JoinedFrames(cl) \in Seq(RecFrames)
        BY <1>1, JoinIsFrames
      <4> DEFINE x == JoinedFrames(cl)
                 y == c.pending
      <4>3. x \in Seq(RecFrames) /\ y \in Seq(RecFrames) /\ <<f>> \in Seq(RecFrames)
        BY <1>1, <4>2
      <4> HIDE DEF x, y
      <4>4. Append(x \o y, f) = (x \o y) \o <<f>> /\ Append(y, f) = y \o <<f>> /\ x \o y \in Seq(RecFrames)
        BY <4>3, AppendIsConcat, ConcatProperties
      <4>5. (x \o y) \o <<f>> = x \o (y \o <<f>>)
        BY <4>3, ConcatAssociative
      <4>6. Append(x \o y, f) = x \o Append(y, f)
        BY <4>4, <4>5
      <4> QED
        BY <1>3, <4>1, <4>6 DEF x, y
    <3> HIDE DEF t, g
    <3> QED
      BY <1>2, <1>3, <1>5, <2>1, <2>3, <3>1, <3>2, <3>3 DEF HasBegun
  <2> QED
    BY <2>2, <2>3
<1> HIDE DEF t, g
<1>9. Goes(g, t, cl, since, enough)
  BY <1>1, <1>2, <1>3, <1>5, <1>6, <1>8 DEF Goes
<1> QED
  BY <1>5, <1>9 DEF t, g

\* A frame that closes the segment before it.
LEMMA CuttingGoesOn ==
    ASSUME NEW rc, NEW c, NEW cl, NEW from, NEW f \in RecFrames, NEW k, NEW since, NEW enough \in BOOLEAN,
           Goes(rc, c, cl, from, FALSE), Later(rc, f), ReadyFor(c, k), c.pending # <<>>, f.key,
           since = IF from = None THEN f.ts ELSE from, enough => f.ts - since >= Length
    PROVE  /\ Goes(Append(rc, f), Take(Closed(k), f), Append(cl, Close(k, f.ts)), since, enough)
           /\ Take(Closed(k), f).pending # <<>>
<1> DEFINE t == Take(Closed(k), f)
           g == Append(rc, f)
           s == Close(k, f.ts)
           all == Append(cl, s)
<1>1. /\ rc \in Seq(RecFrames) /\ InTime(rc) /\ c \in Cutters /\ cl \in Seq(RecSegments)
      /\ c.sequence = Len(cl) /\ c.pending \in Seq(RecFrames) /\ HasBegun(rc, c, cl, from, FALSE)
  BY DEF Goes, Cutters
<1>2. InTime(g) /\ g \in Seq(RecFrames) /\ g # <<>> /\ g[Len(g)] = f
  BY <1>1, TimeGoesOn
<1>3. /\ t \in Cutters /\ t.pending = <<f>> /\ t.rate = 1 /\ t.sequence = Len(cl) + 1
  <2>1. k \in Cutters /\ k.rate = 1 /\ k.sequence = Len(cl)
    BY <1>1 DEF ReadyFor
  <2>2. Closed(k) \in Cutters /\ Closed(k).pending = <<>> /\ Closed(k).rate = 1 /\ Closed(k).sequence = Len(cl) + 1
    BY <2>1, CutterStays
  <2>3. Append(<<>>, f) = <<f>>
    OBVIOUS
  <2> QED
    BY <2>2, <2>3, CutterStays
<1>4. f.ts \in Nat /\ None \notin Nat
  BY OnDemandAssumption DEF RecFrames
<1>5. Later(c.pending, f) /\ InTime(c.pending)
  BY <1>1, LastIsLast DEF HasBegun
<1>6. /\ s \in RecSegments /\ s.sequence = Len(cl) /\ s.frames = c.pending
      /\ s.start = c.pending[1].ts /\ Meets(s, f.ts)
  <2>1. k \in Cutters /\ k.rate = 1 /\ k.pending = c.pending /\ k.sequence = Len(cl)
    BY <1>1 DEF ReadyFor
  <2>2. ComesAfter(k.pending, f.ts) /\ InTime(k.pending) /\ k.pending # <<>>
    BY <1>5, <2>1 DEF ComesAfter, Later
  <2>3. f.ts \in Nat \cup {None} /\ f.ts # None
    BY <1>4
  <2>4. /\ s \in RecSegments /\ s.sequence = k.sequence /\ s.frames = k.pending
        /\ s.start = k.pending[1].ts
        /\ s.start + s.duration >= Until(k.pending, f.ts)
        /\ 0 \notin Gaps /\ f.ts # None => s.start + s.duration = Until(k.pending, f.ts)
    BY <2>1, <2>2, <2>3, CutIs
  <2> HIDE DEF s
  <2> QED
    BY <2>1, <2>3, <2>4 DEF Meets, Until
<1>7. from \in Nat /\ since = from
  BY <1>1, <1>4 DEF HasBegun
<1> HIDE DEF s
<1>8. InSequence(all, since) /\ all \in Seq(RecSegments) /\ Len(all) = Len(cl) + 1 /\ all[Len(all)] = s /\ all # <<>>
  <2>1. InSequence(all, from)
    <3>1. InSequence(cl, from) /\ s.start >= from /\ s.frames[1].key /\ (cl # <<>> => Meets(cl[Len(cl)], s.start))
      BY <1>1, <1>6 DEF HasBegun
    <3> QED
      BY <1>1, <1>6, <1>7, <3>1, FollowingGrows
  <2>2. all \in Seq(RecSegments) /\ Len(all) = Len(cl) + 1 /\ all[Len(cl) + 1] = s /\ all # <<>>
    BY <1>1, <1>6, AppendProperties
  <2> HIDE DEF all
  <2> QED
    BY <1>7, <2>1, <2>2
<1>9. KeptOnwards(g, JoinedFrames(all) \o t.pending)
  <2>1. JoinedFrames(all) = JoinedFrames(cl) \o c.pending /\ JoinedFrames(cl) \in Seq(RecFrames)
    BY <1>1, <1>6, JoinGrows
  <2> DEFINE x == JoinedFrames(all)
  <2>2. KeptOnwards(g, Append(x, f))
    BY <1>1, <2>1, KeepingGrows DEF HasBegun
  <2>3. x \in Seq(RecFrames)
    BY <1>1, <2>1, ConcatProperties
  <2> HIDE DEF x
  <2>4. Append(x, f) = x \o <<f>>
    BY <2>3, AppendIsConcat
  <2> QED
    BY <1>3, <2>2, <2>4 DEF x
<1> HIDE DEF all
<1>10. f.ts >= since
  <2>1. s.start + s.duration >= f.ts
    BY <1>6 DEF Meets
  <2>2. \A i \in 1 .. Len(c.pending) - 1 : c.pending[i + 1].ts >= c.pending[i].ts
    BY <1>5 DEF InTime
  <2> DEFINE n == Len(c.pending)
             T == {i \in Nat : i + 1 <= n => c.pending[i + 1].ts >= from}
  <2>3. n \in Nat /\ n >= 1 /\ \A i \in 1 .. n : c.pending[i].ts \in Nat
    <3>1. \A i \in 1 .. n : c.pending[i] \in RecFrames
      BY <1>1, ElementOfSeq
    <3> QED
      BY <1>1, <3>1, EmptySeq DEF RecFrames
  <2>4. 0 \in T
    BY <1>1 DEF HasBegun
  <2>5. ASSUME NEW i \in Nat, i \in T PROVE i + 1 \in T
    <3> SUFFICES ASSUME (i + 1) + 1 <= n PROVE c.pending[(i + 1) + 1].ts >= from
      OBVIOUS
    <3>1. i + 1 \in 1 .. n - 1 /\ i + 1 \in 1 .. n /\ (i + 1) + 1 \in 1 .. n /\ i + 1 <= n
      BY <2>3
    <3>2. c.pending[(i + 1) + 1].ts >= c.pending[i + 1].ts /\ c.pending[i + 1].ts >= from
      BY <2>2, <2>5, <3>1
    <3>3. c.pending[(i + 1) + 1].ts \in Nat /\ c.pending[i + 1].ts \in Nat
      BY <2>3, <3>1
    <3> DEFINE a == c.pending[(i + 1) + 1].ts
               b == c.pending[i + 1].ts
    <3>4. a \in Nat /\ b \in Nat /\ a >= b /\ b >= from /\ from \in Nat
      BY <1>7, <3>2, <3>3
    <3> HIDE DEF a, b
    <3>5. a >= from
      BY <3>4
    <3> QED
      BY <3>5 DEF a
  <2>6. Nat \subseteq T
    <3> HIDE DEF T
    <3> QED
      BY <2>4, <2>5, NumbersFollow
  <2>7. n - 1 \in T /\ (n - 1) + 1 = n
    <3> HIDE DEF T
    <3> QED
      BY <2>3, <2>6
  <2>8. c.pending[n].ts >= from /\ c.pending[n].ts \in Nat
    BY <2>3, <2>7
  <2>9. f.ts >= c.pending[n].ts
    BY <1>5 DEF Later
  <2> DEFINE a == c.pending[n].ts
             b == f.ts
  <2>10. a >= from /\ b >= a /\ a \in Nat /\ b \in Nat /\ from \in Nat
    BY <1>4, <1>7, <2>8, <2>9
  <2> HIDE DEF a, b
  <2>11. b >= from
    BY <2>10
  <2> QED
    BY <1>7, <2>11 DEF b
<1>11. /\ t.pending # <<>> /\ t.pending[1] = f /\ Len(t.pending) = 1
       /\ InTime(t.pending)
  <2>1. <<f>> # <<>> /\ <<f>>[1] = f /\ Len(<<f>>) = 1
    OBVIOUS
  <2>2. \A i \in 1 .. 1 - 1 : FALSE
    OBVIOUS
  <2> HIDE DEF t
  <2> QED
    BY <1>3, <2>1, <2>2 DEF InTime
<1>12. HasBegun(g, t, all, since, enough)
  <2>1. enough => g[Len(g)].ts - since >= Length
    BY <1>2
  <2> HIDE DEF t, g
  <2>2. t.pending[Len(t.pending)] = g[Len(g)] /\ t.pending[1].key /\ t.pending[1].ts >= since
    BY <1>2, <1>10, <1>11
  <2>3. all # <<>> => Meets(all[Len(all)], t.pending[1].ts)
    BY <1>6, <1>8, <1>11
  <2> QED
    BY <1>3, <1>7, <1>8, <1>9, <1>11, <2>1, <2>2, <2>3 DEF HasBegun
<1> HIDE DEF t, g
<1>13. Goes(g, t, all, since, enough)
  <2>1. IsFresh(t)
    BY <1>11 DEF IsFresh
  <2> QED
    BY <1>2, <1>3, <1>8, <1>11, <1>12, <2>1 DEF Goes
<1> QED
  BY <1>11, <1>13 DEF t, g, all, s

RecordInv ==
    /\ recording \in {"receiving", "stopped", "done", "failed"}
    /\ recording \in {"receiving", "stopped"} => Goes(received, cut, closed, first, full)
    /\ recording = "receiving" => ~full
    /\ recording # "done" => manifest = <<>>
    /\ RecordTypeOK /\ RecordingIsWhole

\* A recording begins so.
LEMMA RecordBegins == RecordInit => RecordInv
<1> SUFFICES ASSUME RecordInit PROVE RecordInv
  OBVIOUS
<1>1. /\ recording = "receiving" /\ received = <<>> /\ cut = NewSegmenter /\ closed = <<>> /\ first = None
      /\ full = FALSE /\ manifest = <<>>
  BY DEF RecordInit
<1>2. <<>> \in Seq(RecFrames) /\ <<>> \in Seq(RecSegments) /\ Len(<<>>) = 0
  OBVIOUS
<1>3. NewSegmenter \in Cutters /\ NewSegmenter.pending = <<>> /\ NewSegmenter.sequence = 0 /\ IsFresh(NewSegmenter)
  BY <1>2 DEF NewSegmenter, Cutters, IsFresh
<1>4. InTime(<<>>)
  BY DEF InTime
<1>5. Goes(<<>>, NewSegmenter, <<>>, None, FALSE)
  <2>1. \A i \in 1 .. Len(<<>>) : ~<<>>[i].key
    BY <1>2
  <2> QED
    BY <1>2, <1>3, <1>4, <2>1 DEF Goes
<1>6. RecordTypeOK /\ RecordingIsWhole
  BY <1>1 DEF RecordTypeOK, RecordingIsWhole
<1> QED
  BY <1>1, <1>5, <1>6 DEF RecordInv

\* A frame arrives.
LEMMA ArrivingKeeps ==
    ASSUME RecordInv, NEW gap \in Gaps, NEW key \in BOOLEAN, NEW cfg \in Formats, FrameArrives(gap, key, cfg)
    PROVE  RecordInv'
<1> DEFINE f == [ts |-> Clock + gap, rate |-> 1, key |-> key, cfg |-> cfg,
                 fresh |-> cut.entry \notin {None, cfg}]
           p == [cfg |-> cfg, frame |-> None, sound |-> TRUE]
           r == Push(cut, f, p)
           since == IF first = None THEN f.ts ELSE first
           all == IF r.kind = "segment" THEN Append(closed, r.segment) ELSE closed
           enough == f.ts - since >= Length /\ key /\ all # <<>>
<1>1. /\ recording = "receiving" /\ received' = Append(received, f) /\ manifest' = manifest
      /\ \/ /\ r.kind \in {"changed", "error"} /\ recording' = "failed"
         \/ /\ r.kind \notin {"changed", "error"}
            /\ cut' = r.s /\ closed' = all
            /\ first' = IF r.s.pending = <<>> THEN first ELSE since
            /\ full' = (r.s.pending # <<>> /\ enough)
            /\ recording' = IF full' THEN "stopped" ELSE "receiving"
  BY DEF FrameArrives
<1>2. manifest = <<>> /\ Goes(received, cut, closed, first, FALSE) /\ manifest' = <<>>
  <2>1. full = FALSE
    BY <1>1 DEF RecordInv, Goes
  <2> QED
    BY <1>1, <2>1 DEF RecordInv
<1>3. CASE r.kind \in {"changed", "error"}
  <2>1. recording' = "failed"
    BY <1>1, <1>3
  <2>2. (RecordTypeOK /\ RecordingIsWhole)'
    <3>1. DOMAIN (manifest') = {}
      BY <1>2
    <3> QED
      BY <2>1, <3>1 DEF RecordTypeOK, RecordingIsWhole
  <2> QED
    BY <1>2, <2>1, <2>2 DEF RecordInv
<1>4. CASE r.kind \notin {"changed", "error"}
  <2>1. /\ cut' = r.s /\ closed' = all
        /\ first' = IF r.s.pending = <<>> THEN first ELSE since
        /\ full' = (r.s.pending # <<>> /\ enough)
        /\ recording' = IF full' THEN "stopped" ELSE "receiving"
    BY <1>1, <1>4
  <2>2. received \in Seq(RecFrames) /\ cut \in Cutters /\ IsFresh(cut)
    BY <1>2 DEF Goes
  <2>3. Clock \in Nat /\ gap \in Nat /\ (0 \notin Gaps => gap > 0) /\ None \notin Nat
        /\ (received # <<>> => Clock = received[Len(received)].ts)
    <3>1. gap \in Nat /\ (0 \notin Gaps => gap > 0)
      BY OnDemandAssumption
    <3>2. CASE received = <<>>
      BY <3>1, <3>2, OnDemandAssumption DEF Clock
    <3>3. CASE received # <<>>
      <4>1. Len(received) \in 1 .. Len(received)
        BY <2>2, <3>3, EmptySeq
      <4>2. received[Len(received)] \in RecFrames
        BY <2>2, <4>1, ElementOfSeq
      <4> QED
        BY <3>1, <3>3, <4>2, OnDemandAssumption DEF Clock, RecFrames
    <3> QED
      BY <3>2, <3>3
  <2>4. f \in RecFrames /\ f.ts = Clock + gap /\ f.key = key /\ f.cfg = cfg
    <3> DEFINE t == Clock + gap
               e == cut.entry \notin {None, cfg}
    <3>1. t \in Nat /\ e \in BOOLEAN
      BY <2>3
    <3> HIDE DEF t, e
    <3>2. f = [ts |-> t, rate |-> 1, key |-> key, cfg |-> cfg, fresh |-> e]
      BY DEF t, e
    <3>3. f.ts = t
      BY <3>2
    <3> QED
      BY <3>1, <3>2, <3>3 DEF RecFrames, t
  <2>5. p = [cfg |-> f.cfg, frame |-> None, sound |-> TRUE]
    BY <2>4
  <2>6. Later(received, f)
    <3> SUFFICES ASSUME received # <<>>
                 PROVE  f.ts >= received[Len(received)].ts
                        /\ (0 \notin Gaps => f.ts > received[Len(received)].ts)
      BY DEF Later
    <3>1. f.ts >= Clock /\ (0 \notin Gaps => f.ts > Clock)
      BY <2>3, <2>4
    <3> QED
      BY <2>3, <3>1
  <2> HIDE DEF f, p
  <2>7. \/ cut.pending = <<>> /\ ~f.key /\ r = Pushed("nothing", cut, None)
        \/ \E c : /\ ReadyFor(cut, c) /\ (cut.pending # <<>> \/ f.key)
                  /\ \/ r = Pushed("nothing", Take(c, f), None)
                     \/ /\ f.key /\ cut.pending # <<>>
                        /\ r = Pushed("segment", Take(Closed(c), f), Close(c, f.ts))
    BY <1>4, <2>2, <2>4, <2>5, CutterPush
  <2> HIDE DEF r
  <2>8. Goes(received', cut', closed', first', full')
    <3>1. CASE cut.pending = <<>> /\ ~f.key /\ r = Pushed("nothing", cut, None)
      <4>1. r.kind = "nothing" /\ r.s = cut
        BY <3>1 DEF Pushed
      <4>2. cut' = cut /\ closed' = closed /\ first' = first /\ full' = FALSE
        BY <2>1, <3>1, <4>1
      <4>3. Goes(Append(received, f), cut, closed, first, FALSE)
        BY <1>2, <2>4, <2>6, <3>1, DroppingGoesOn
      <4> QED
        BY <1>1, <4>2, <4>3
    <3>2. ASSUME NEW c, ReadyFor(cut, c), cut.pending # <<>> \/ f.key, r = Pushed("nothing", Take(c, f), None)
          PROVE  Goes(received', cut', closed', first', full')
      <4>1. r.kind = "nothing" /\ r.s = Take(c, f)
        BY <3>2 DEF Pushed
      <4> DEFINE e == enough
      <4>2. e \in BOOLEAN /\ (e => f.ts - since >= Length)
        OBVIOUS
      <4> HIDE DEF e
      <4>3. Goes(Append(received, f), Take(c, f), closed, since, e) /\ Take(c, f).pending # <<>>
        BY <1>2, <2>4, <2>6, <3>2, <4>2, TakingGoesOn
      <4>4. cut' = Take(c, f) /\ closed' = closed /\ first' = since /\ full' = e
        BY <2>1, <4>1, <4>3 DEF e
      <4> QED
        BY <1>1, <4>3, <4>4
    <3>3. ASSUME NEW c, ReadyFor(cut, c), f.key, cut.pending # <<>>,
                 r = Pushed("segment", Take(Closed(c), f), Close(c, f.ts))
          PROVE  Goes(received', cut', closed', first', full')
      <4>1. r.kind = "segment" /\ r.s = Take(Closed(c), f) /\ r.segment = Close(c, f.ts)
        BY <3>3 DEF Pushed
      <4> DEFINE e == enough
      <4>2. e \in BOOLEAN /\ (e => f.ts - since >= Length)
        OBVIOUS
      <4> HIDE DEF e
      <4>3. /\ Goes(Append(received, f), Take(Closed(c), f), Append(closed, Close(c, f.ts)), since, e)
            /\ Take(Closed(c), f).pending # <<>>
        BY <1>2, <2>4, <2>6, <3>3, <4>2, CuttingGoesOn
      <4>4. cut' = Take(Closed(c), f) /\ closed' = Append(closed, Close(c, f.ts)) /\ first' = since /\ full' = e
        BY <2>1, <4>1, <4>3 DEF e
      <4> QED
        BY <1>1, <4>3, <4>4
    <3> QED
      BY <2>7, <3>1, <3>2, <3>3
  <2>9. recording' \in {"receiving", "stopped"} /\ (recording' = "receiving" => ~full')
    BY <2>1
  <2>10. (RecordTypeOK /\ RecordingIsWhole)'
    <3>1. DOMAIN (manifest') = {}
      BY <1>2
    <3> QED
      BY <2>9, <3>1 DEF RecordTypeOK, RecordingIsWhole
  <2> QED
    BY <1>2, <2>8, <2>9, <2>10 DEF RecordInv
<1> QED
  BY <1>3, <1>4

\* Every segment's place in milliseconds.
InManifest(s, from, rate) ==
    [sequence |-> s.sequence, offset |-> TicksToMs(Max2(s.start - from, 0), rate),
     duration |-> TicksToMs(s.duration, rate), frames |-> s.frames]

DescribesAll(m, all, from) == m = [i \in DOMAIN all |-> InManifest(all[i], from, 1)]

\* A description of segments that follow one another.
LEMMA DescribedIs ==
    ASSUME NEW from \in Nat, NEW all \in Seq(RecSegments), NEW m, all # <<>>, InSequence(all, from),
           DescribesAll(m, all, from)
    PROVE  /\ Len(m) = Len(all) /\ Len(m) \in Nat \ {0} /\ DOMAIN m = 1 .. Len(m)
           /\ JoinedFrames(m) = JoinedFrames(all)
           /\ \A i \in 1 .. Len(m) : /\ m[i].offset \in Nat /\ m[i].duration \in Nat
                                     /\ m[i].offset + m[i].duration = ((all[i].start + all[i].duration) - from) * Second
           /\ \A i \in 1 .. Len(m) - 1 :
                  /\ m[i + 1].frames[1].key /\ m[i].sequence + 1 = m[i + 1].sequence
                  /\ m[i].offset + m[i].duration >= m[i + 1].offset
                  /\ 0 \notin Gaps => m[i].offset + m[i].duration = m[i + 1].offset
<1> DEFINE n == Len(all)
<1>1. n \in Nat \ {0} /\ DOMAIN all = 1 .. n /\ \A i \in 1 .. n : all[i] \in RecSegments
  BY EmptySeq, LenProperties, ElementOfSeq
<1> HIDE DEF n
<1>2. Len(m) = n /\ DOMAIN m = 1 .. n /\ \A i \in 1 .. n : m[i] = InManifest(all[i], from, 1)
  BY <1>1 DEF DescribesAll
<1>3. ASSUME NEW i \in 1 .. n
      PROVE  /\ m[i].offset = (all[i].start - from) * Second /\ m[i].duration = all[i].duration * Second
             /\ m[i].offset \in Nat /\ m[i].duration \in Nat
             /\ m[i].offset + m[i].duration = ((all[i].start + all[i].duration) - from) * Second
             /\ m[i].frames = all[i].frames /\ m[i].sequence = all[i].sequence
             /\ all[i].start \in Nat /\ all[i].duration \in Nat
  <2> DEFINE a == all[i].start
             d == all[i].duration
  <2>1. a \in Nat /\ d \in Nat
    BY <1>1 DEF RecSegments
  <2>2. a >= from
    BY DEF InSequence, n
  <2>3. m[i].offset = TicksToMs(Max2(a - from, 0), 1) /\ m[i].duration = TicksToMs(d, 1)
        /\ m[i].frames = all[i].frames /\ m[i].sequence = all[i].sequence
    BY <1>2 DEF InManifest
  <2> HIDE DEF a, d
  <2> DEFINE o == a - from
  <2>4. o \in Nat /\ Max2(a - from, 0) = o
    BY <2>1, <2>2 DEF Max2
  <2>5. (a + d) - from = o + d
    BY <2>1
  <2> HIDE DEF o
  <2>6. TicksToMs(o, 1) = o * Second /\ TicksToMs(d, 1) = d * Second /\ o * Second \in Nat /\ d * Second \in Nat
        /\ (o + d) * Second = o * Second + d * Second
    BY <2>1, <2>4, Milliseconds
  <2>7. m[i].offset = o * Second /\ m[i].duration = d * Second
    BY <2>3, <2>4, <2>6
  <2> QED
    BY <2>1, <2>3, <2>5, <2>6, <2>7 DEF a, d, o
<1>4. JoinedFrames(m) = JoinedFrames(all)
  <2>1. Len(all) \in Nat /\ Len(m) = Len(all) /\ \A i \in 1 .. Len(all) : m[i].frames = all[i].frames
    BY <1>1, <1>2, <1>3 DEF n
  <2> QED
    BY <2>1, SameFrames
<1>5. ASSUME NEW i \in 1 .. n - 1
      PROVE  /\ m[i + 1].frames[1].key /\ m[i].sequence + 1 = m[i + 1].sequence
             /\ m[i].offset + m[i].duration >= m[i + 1].offset
             /\ 0 \notin Gaps => m[i].offset + m[i].duration = m[i + 1].offset
  <2>1. i \in 1 .. n /\ i + 1 \in 1 .. n
    BY <1>1
  <2>2. /\ all[i].sequence = i - 1 /\ all[i + 1].sequence = (i + 1) - 1 /\ all[i + 1].frames[1].key
        /\ Meets(all[i], all[i + 1].start) /\ all[i + 1].start >= from
    BY <2>1 DEF InSequence, n
  <2> DEFINE b == all[i].start + all[i].duration
             c == all[i + 1].start
             x == b - from
             y == c - from
  <2>3. x \in Int /\ y \in Int /\ x >= y /\ (0 \notin Gaps => x = y)
    <3>1. all[i].start \in Nat /\ all[i].duration \in Nat /\ all[i + 1].start \in Nat
      BY <1>3, <2>1
    <3>2. b >= c /\ (0 \notin Gaps => b = c)
      BY <2>2 DEF Meets
    <3>3. b \in Int /\ c \in Int
      BY <3>1
    <3> HIDE DEF b, c
    <3> QED
      BY <3>2, <3>3
  <2>4. m[i].offset + m[i].duration = x * Second /\ m[i + 1].offset = y * Second
    <3>1. m[i].offset + m[i].duration = ((all[i].start + all[i].duration) - from) * Second
      BY <1>3, <2>1
    <3>2. m[i + 1].offset = (all[i + 1].start - from) * Second
      BY <1>3, <2>1
    <3>3. (all[i].start + all[i].duration) - from = x /\ all[i + 1].start - from = y
      OBVIOUS
    <3> HIDE DEF b, c, x, y
    <3> QED
      BY ONLY <3>1, <3>2, <3>3
  <2> HIDE DEF x, y
  <2>5. y * Second <= x * Second /\ x * Second \in Int /\ y * Second \in Int /\ (0 \notin Gaps => x * Second = y * Second)
    BY <2>3, Milliseconds
  <2>6. m[i + 1].frames = all[i + 1].frames /\ m[i].sequence = i - 1 /\ m[i + 1].sequence = (i + 1) - 1
    BY <1>3, <2>1, <2>2
  <2>7. m[i].offset + m[i].duration >= m[i + 1].offset
        /\ (0 \notin Gaps => m[i].offset + m[i].duration = m[i + 1].offset)
    BY <2>4, <2>5
  <2>8. m[i].sequence + 1 = m[i + 1].sequence
    BY <2>6
  <2> QED
    BY <2>2, <2>6, <2>7, <2>8
<1> QED
  BY <1>1, <1>2, <1>3, <1>4, <1>5 DEF n

\* The recording is described.
LEMMA DescribingKeeps ==
    ASSUME RecordInv, Describe
    PROVE  RecordInv'
<1> DEFINE rest == Flush(cut)
           all == IF rest.kind = "segment" THEN Append(closed, rest.segment) ELSE closed
<1>1. /\ recording = "stopped" /\ closed' = all /\ received' = received /\ cut' = cut /\ first' = first /\ full' = full
      /\ \/ all = <<>> /\ recording' = "failed" /\ manifest' = manifest
         \/ /\ all # <<>> /\ recording' = "done"
            /\ manifest' = [i \in DOMAIN all |-> InManifest(all[i], first, cut.rate)]
  BY DEF Describe, InManifest
<1>2. manifest = <<>> /\ Goes(received, cut, closed, first, full)
  BY <1>1 DEF RecordInv
<1>3. CASE all = <<>>
  <2>1. recording' = "failed" /\ manifest' = <<>>
    BY <1>1, <1>2, <1>3
  <2>2. (RecordTypeOK /\ RecordingIsWhole)'
    <3>1. DOMAIN (manifest') = {}
      BY <2>1
    <3> QED
      BY <2>1, <3>1 DEF RecordTypeOK, RecordingIsWhole
  <2> QED
    BY <2>1, <2>2 DEF RecordInv
<1>4. CASE all # <<>>
  <2>1. recording' = "done" /\ manifest' = [i \in DOMAIN all |-> InManifest(all[i], first, cut.rate)]
    BY <1>1, <1>4
  <2>2. cut.pending # <<>>
    <3> SUFFICES ASSUME cut.pending = <<>> PROVE FALSE
      OBVIOUS
    <3>1. closed = <<>> /\ rest.kind = "nothing"
      BY <1>2 DEF Goes, Flush, Pushed
    <3> QED
      BY <1>4, <3>1
  <2>3. /\ received \in Seq(RecFrames) /\ received # <<>> /\ cut \in Cutters /\ cut.sequence = Len(closed)
        /\ closed \in Seq(RecSegments) /\ cut.pending \in Seq(RecFrames)
        /\ cut.rate = 1 /\ InTime(cut.pending) /\ cut.pending[1].key
        /\ cut.pending[Len(cut.pending)] = received[Len(received)]
        /\ first \in Nat /\ cut.pending[1].ts >= first /\ InSequence(closed, first)
        /\ (closed # <<>> => Meets(closed[Len(closed)], cut.pending[1].ts))
        /\ KeptOnwards(received, JoinedFrames(closed) \o cut.pending)
        /\ (full => received[Len(received)].ts - first >= Length)
    BY <1>2, <2>2 DEF Goes, HasBegun, Cutters
  <2> DEFINE s == Close(cut, None)
  <2>4. all = Append(closed, s)
    BY <2>2 DEF Flush, Pushed
  <2>5. /\ s \in RecSegments /\ s.sequence = Len(closed) /\ s.frames = cut.pending /\ s.start = cut.pending[1].ts
        /\ s.start + s.duration >= received[Len(received)].ts
    <3>1. None \in Nat \cup {None} /\ ComesAfter(cut.pending, None)
      BY DEF ComesAfter
    <3>2. /\ s \in RecSegments /\ s.sequence = cut.sequence /\ s.frames = cut.pending
          /\ s.start = cut.pending[1].ts /\ s.start + s.duration >= Until(cut.pending, None)
      BY <2>2, <2>3, <3>1, CutIs
    <3> HIDE DEF s
    <3> QED
      BY <2>3, <3>2 DEF Until
  <2> HIDE DEF s, all
  <2>6. InSequence(all, first)
    <3>1. s.start >= first /\ s.frames # <<>> /\ s.frames[1].key /\ (closed # <<>> => Meets(closed[Len(closed)], s.start))
      BY <2>2, <2>3, <2>5
    <3> QED
      BY <2>3, <2>4, <2>5, <3>1, FollowingGrows
  <2>7. /\ all \in Seq(RecSegments) /\ all # <<>> /\ Len(all) = Len(closed) + 1 /\ all[Len(closed) + 1] = s
        /\ Len(closed) \in Nat
    BY <2>3, <2>4, <2>5, AppendProperties
  <2>8. JoinedFrames(all) = JoinedFrames(closed) \o cut.pending
    BY <2>3, <2>4, <2>5, JoinGrows
  <2> DEFINE m == manifest'
  <2>9. DescribesAll(m, all, first)
    BY <2>1, <2>3 DEF DescribesAll
  <2>10. /\ Len(m) = Len(all) /\ Len(m) \in Nat \ {0} /\ DOMAIN m = 1 .. Len(m)
         /\ JoinedFrames(m) = JoinedFrames(all)
         /\ \A i \in 1 .. Len(m) : /\ m[i].offset \in Nat /\ m[i].duration \in Nat
                                   /\ m[i].offset + m[i].duration = ((all[i].start + all[i].duration) - first) * Second
         /\ \A i \in 1 .. Len(m) - 1 :
                /\ m[i + 1].frames[1].key /\ m[i].sequence + 1 = m[i + 1].sequence
                /\ m[i].offset + m[i].duration >= m[i + 1].offset
                /\ 0 \notin Gaps => m[i].offset + m[i].duration = m[i + 1].offset
    <3> HIDE DEF m
    <3>1. first \in Nat /\ all \in Seq(RecSegments) /\ all # <<>> /\ InSequence(all, first)
          /\ DescribesAll(m, all, first)
      BY <2>3, <2>6, <2>7, <2>9
    <3> QED
      BY ONLY <3>1, DescribedIs
  <2> DEFINE keys == {i \in DOMAIN received : received[i].key}
             begin == CHOOSE i \in keys : \A j \in keys : i <= j
  <2>11. keys # {} /\ JoinedFrames(m) = SubSeq(received, begin, Len(received))
    <3>1. KeptOnwards(received, JoinedFrames(m))
      BY <2>3, <2>8, <2>10
    <3> HIDE DEF m
    <3> QED
      BY <2>3, <3>1, KeptFromFirst
  <2>12. full => m[Len(m)].offset + m[Len(m)].duration >= TicksToMs(Length, 1)
    <3> SUFFICES ASSUME full PROVE m[Len(m)].offset + m[Len(m)].duration >= TicksToMs(Length, 1)
      OBVIOUS
    <3>1. Len(m) \in 1 .. Len(m) /\ all[Len(m)] = s
      BY <2>7, <2>10
    <3> HIDE DEF m
    <3>2. m[Len(m)].offset + m[Len(m)].duration = ((s.start + s.duration) - first) * Second
      BY <2>10, <3>1
    <3> DEFINE b == s.start + s.duration
               x == b - first
               l == received[Len(received)].ts
    <3>3. l \in Nat
      <4>0. received \in Seq(RecFrames) /\ received # <<>>
        BY <2>3
      <4>1. Len(received) \in 1 .. Len(received)
        BY <4>0, EmptySeq
      <4>2. received[Len(received)] \in RecFrames
        BY <4>0, <4>1, ElementOfSeq
      <4> QED
        BY <4>2 DEF RecFrames
    <3>4. x \in Int /\ Length <= x /\ Length \in Int
      <4>1. b \in Int /\ b >= l /\ l - first >= Length /\ Length \in Int /\ first \in Nat
        BY <2>3, <2>5, OnDemandAssumption DEF RecSegments
      <4> HIDE DEF b, l
      <4> QED
        BY <3>3, <4>1
    <3> HIDE DEF x
    <3>5. Length * Second <= x * Second /\ TicksToMs(Length, 1) = Length * Second /\ x * Second \in Int
          /\ Length * Second \in Int
      BY <3>4, Milliseconds
    <3>6. m[Len(m)].offset + m[Len(m)].duration = x * Second
      <4>1. (s.start + s.duration) - first = x
        BY DEF x
      <4> HIDE DEF b
      <4> QED
        BY ONLY <3>2, <4>1
    <3> QED
      BY <3>5, <3>6
  <2>13. RecordingIsWhole'
    <3>1. Frames' = JoinedFrames(m)
      BY DEF Frames, JoinedFrames
    <3>2. LET last == m[Len(m)]
          IN  /\ keys # {} /\ Frames' = SubSeq(received, begin, Len(received))
              /\ \A i \in 1 .. Len(m) - 1 :
                    /\ m[i + 1].frames[1].key /\ m[i].sequence + 1 = m[i + 1].sequence
                    /\ m[i].offset + m[i].duration >= m[i + 1].offset
                    /\ 0 \notin Gaps => m[i].offset + m[i].duration = m[i + 1].offset
              /\ full => last.offset + last.duration >= TicksToMs(Length, 1)
      BY <2>10, <2>11, <2>12, <3>1
    <3>3. received' = received /\ full' = full
      BY <1>1
    <3> QED
      BY <2>1, <3>2, <3>3 DEF RecordingIsWhole
  <2>14. RecordTypeOK'
    BY <2>1, <2>10 DEF RecordTypeOK
  <2> QED
    BY <2>1, <2>13, <2>14 DEF RecordInv
<1> QED
  BY <1>3, <1>4

\* Every step of a recording keeps it.
LEMMA RecordStep == RecordInv /\ [RecordNext]_recordVars => RecordInv'
<1> SUFFICES ASSUME RecordInv, [RecordNext]_recordVars PROVE RecordInv'
  OBVIOUS
<1>1. CASE UNCHANGED recordVars
  <2>1. /\ recording' = recording /\ received' = received /\ cut' = cut /\ closed' = closed
        /\ first' = first /\ full' = full /\ manifest' = manifest
    BY <1>1 DEF recordVars
  <2>2. RecordTypeOK'
    BY <2>1 DEF RecordInv, RecordTypeOK
  <2>3. Frames' = Frames
    BY <2>1 DEF Frames
  <2>4. RecordingIsWhole'
    <3>1. RecordingIsWhole
      BY DEF RecordInv
    <3> QED
      BY <2>1, <2>3, <3>1 DEF RecordingIsWhole
  <2> QED
    BY <2>1, <2>2, <2>4 DEF RecordInv
<1>2. ASSUME NEW gap \in Gaps, NEW key \in BOOLEAN, NEW cfg \in Formats, FrameArrives(gap, key, cfg)
      PROVE  RecordInv'
  BY <1>2, ArrivingKeeps
<1>3. CASE SourceStops
  <2>1. recording' = "stopped" /\ recording = "receiving" /\ manifest = <<>> /\ manifest' = <<>>
    BY <1>3 DEF SourceStops, RecordInv
  <2>2. Goes(received', cut', closed', first', full')
    BY <1>3 DEF SourceStops, RecordInv
  <2>3. (RecordTypeOK /\ RecordingIsWhole)'
    <3>1. DOMAIN (manifest') = {}
      BY <2>1
    <3> QED
      BY <2>1, <3>1 DEF RecordTypeOK, RecordingIsWhole
  <2> QED
    BY <2>1, <2>2, <2>3 DEF RecordInv
<1>4. CASE FrameTimeout
  <2>1. recording' = "failed" /\ recording = "receiving" /\ manifest = <<>> /\ manifest' = <<>>
    BY <1>4 DEF FrameTimeout, RecordInv
  <2>2. (RecordTypeOK /\ RecordingIsWhole)'
    <3>1. DOMAIN (manifest') = {}
      BY <2>1
    <3> QED
      BY <2>1, <3>1 DEF RecordTypeOK, RecordingIsWhole
  <2> QED
    BY <2>1, <2>2 DEF RecordInv
<1>5. CASE Describe
  BY <1>5, DescribingKeeps
<1> QED
  BY <1>1, <1>2, <1>3, <1>4, <1>5 DEF RecordNext

\* What it says of the recording that is handed on (record_from).
LEMMA RecordIsRight == RecordInv => RecordTypeOK /\ RecordingIsWhole
  BY DEF RecordInv

-----------------------------------------------------------------------------
(* The gateway.                                                            *)

\* A step of the gateway that is one of these three parts.
LEMMA FramesMove ==
    ASSUME [GatewayNext]_gatewayVars
    PROVE  /\ part' = part
           /\ part = "transport" => [TransportNext]_transportVars
           /\ part = "recording" => [RecordNext]_recordVars
           /\ part = "h264" => [H264Next]_h264Vars
  BY DEF GatewayNext, gatewayVars, besides_ring, besides_pushed, besides_transport, besides_recording,
     besides_h264, besides_onvif, besides_turn, besides_probe, besides_watching

TransportPart == part = "transport" => TransportInv
RecordPart == part = "recording" => RecordInv
H264Part == part = "h264" => H264Inv

\* The part that moves keeps its invariant, and the others do not move.
LEMMA TransportPartHolds == GatewaySpec => []TransportPart
<1>1. GatewayInit => TransportPart
  BY TransportBegins DEF GatewayInit, TransportPart
<1>2. TransportPart /\ [GatewayNext]_gatewayVars => TransportPart'
  <2> SUFFICES ASSUME TransportPart, [GatewayNext]_gatewayVars, part' = "transport" PROVE TransportInv'
    BY DEF TransportPart
  <2>1. TransportInv /\ [TransportNext]_transportVars
    BY FramesMove DEF TransportPart
  <2> QED
    BY <2>1, TransportStep
<1> QED
  BY <1>1, <1>2, PTL DEF GatewaySpec

\* The recording keeps its invariant while it is the part that moves,
LEMMA RecordPartHolds == GatewaySpec => []RecordPart
<1>1. GatewayInit => RecordPart
  BY RecordBegins DEF GatewayInit, RecordPart
<1>2. RecordPart /\ [GatewayNext]_gatewayVars => RecordPart'
  <2> SUFFICES ASSUME RecordPart, [GatewayNext]_gatewayVars, part' = "recording" PROVE RecordInv'
    BY DEF RecordPart
  <2>1. RecordInv /\ [RecordNext]_recordVars
    BY FramesMove DEF RecordPart
  <2> QED
    BY <2>1, RecordStep
<1> QED
  BY <1>1, <1>2, PTL DEF GatewaySpec

\* and so does the framing.
LEMMA H264PartHolds == GatewaySpec => []H264Part
<1>1. GatewayInit => H264Part
  BY H264Starts DEF GatewayInit, H264Part
<1>2. H264Part /\ [GatewayNext]_gatewayVars => H264Part'
  <2> SUFFICES ASSUME H264Part, [GatewayNext]_gatewayVars, part' = "h264" PROVE H264Inv'
    BY DEF H264Part
  <2>1. H264Inv /\ [H264Next]_h264Vars
    BY FramesMove DEF H264Part
  <2> QED
    BY <2>1, H264Steps
<1> QED
  BY <1>1, <1>2, PTL DEF GatewaySpec

\* The bounds hold of the part that moves, because its invariant does.
RingBoundsPart == part = "ring" => RingBounds
PushBoundsPart == part = "pushed" => PushBounds
BridgeBoundsPart == part = "turn" => BridgeBounds

\* The bounds hold of the part that moves in everything the gateway does.
LEMMA BoundsHold == GatewaySpec => [](RingBoundsPart /\ PushBoundsPart /\ BridgeBoundsPart)
<1> DEFINE Bounds == RingBoundsPart /\ PushBoundsPart /\ BridgeBoundsPart
           Parts == RingPart /\ PushPart /\ BridgePart
<1>1. GatewayInit => Bounds
  <2> SUFFICES ASSUME GatewayInit PROVE Bounds
    OBVIOUS
  <2>1. RingBounds
    BY RingBoundsBegin DEF GatewayInit
  <2>2. PushBounds
    BY NothingWaits DEF GatewayInit, PushInit, PushBounds
  <2>3. BridgeBounds
    BY BridgeAssumption DEF GatewayInit, BridgeInit, BridgeBounds
  <2> QED
    BY <2>1, <2>2, <2>3 DEF RingBoundsPart, PushBoundsPart, BridgeBoundsPart
<1>2. Parts /\ Bounds /\ [GatewayNext]_gatewayVars => Bounds'
  <2> SUFFICES ASSUME Parts, Bounds, [GatewayNext]_gatewayVars PROVE Bounds'
    OBVIOUS
  <2>1. RingBoundsPart'
    <3> SUFFICES ASSUME part' = "ring" PROVE RingBounds'
      BY DEF RingBoundsPart
    <3>1. RingInv /\ RingBounds /\ [RingNext]_ringVars
      BY OnePartMoves DEF RingPart, RingBoundsPart
    <3> QED
      BY <3>1, RingBoundsStep DEF RingInv
  <2>2. PushBoundsPart'
    <3> SUFFICES ASSUME part' = "pushed" PROVE PushBounds'
      BY DEF PushBoundsPart
    <3>1. PushInv /\ PushBounds /\ [PushNext]_pushVars
      BY OnePartMoves DEF PushPart, PushBoundsPart
    <3> QED
      BY <3>1, PushBoundsStep DEF PushInv
  <2>3. BridgeBoundsPart'
    <3> SUFFICES ASSUME part' = "turn" PROVE BridgeBounds'
      BY DEF BridgeBoundsPart
    <3>1. BridgeInv /\ BridgeBounds /\ [BridgeNext]_bridgeVars
      BY OnePartMoves DEF BridgePart, BridgeBoundsPart
    <3> QED
      BY <3>1, BridgeBoundsStep
  <2> QED
    BY <2>1, <2>2, <2>3
<1>3. GatewaySpec => []Parts
  BY RingPartHolds, PushPartHolds, BridgePartHolds, PTL
<1> QED
  BY <1>1, <1>2, <1>3, PTL DEF GatewaySpec

\* Whatever packets, cuts, lost packets, units, pictures, frames and lengths there are: an
\* access unit the demuxer hands over is what was sent of one frame and when, however the
\* bytes are cut into reads; units, escapes, configuration records and the picture's size come
\* out as the encoder put them in; and a recording is its frames from the first keyframe on,
\* each once, in segments that begin with one and are described as they lie (ts.rs, h264.rs,
\* segmenter.rs, archive.rs).
THEOREM FramesAreAlwaysWhole == GatewaySpec => []FramesAreWhole
<1>1. TransportPart /\ RecordPart /\ H264Part => FramesAreWhole
  BY TransportIsRight, RecordIsRight, H264Holds DEF TransportPart, RecordPart, H264Part, FramesAreWhole
<1> QED
  BY <1>1, TransportPartHolds, RecordPartHolds, H264PartHolds, PTL

\* Whatever part a behaviour is of, each of its variables stays what it is declared to be: one
\* recording task at most is not being stopped, queues are inside their capacities, what is
\* on disk is of the camera's configurations, and every state is one of its machine's.
THEOREM GatewayIsTyped == GatewaySpec => []GatewayTypeOK
<1> DEFINE Bounds == RingBoundsPart /\ PushBoundsPart /\ BridgeBoundsPart
           Parts == RingPart /\ PushPart /\ BridgePart /\ OnvifPart /\ ProbePart /\ WatchPart
           Framings == TransportPart /\ RecordPart /\ H264Part
<1>1. Bounds /\ Parts /\ Framings => GatewayTypeOK
  <2> SUFFICES ASSUME Bounds, Parts, Framings PROVE GatewayTypeOK
    OBVIOUS
  <2>1. part = "ring" => RingTypeOK
    BY RingIsTyped DEF RingPart, RingBoundsPart, RingInv
  <2>2. part = "pushed" => PushTypeOK
    BY PushIsTyped DEF PushPart, PushBoundsPart
  <2>3. part = "transport" => TransportTypeOK
    BY TransportIsRight DEF TransportPart
  <2>4. part = "recording" => RecordTypeOK
    BY RecordIsRight DEF RecordPart
  <2>5. part = "h264" => H264TypeOK
    BY H264Holds DEF H264Part
  <2>6. part = "onvif" => OnvifTypeOK
    BY DEF OnvifPart, OnvifInv, OnvifKinds, OnvifTypeOK
  <2>7. part = "turn" => BridgeTypeOK
    BY DEF BridgePart, BridgeBoundsPart, BridgeInv, PlanInv, UpInv, UpKinds, BridgeBounds, BridgeTypeOK
  <2>8. part = "probe" => ProbeTypeOK
    <3> SUFFICES ASSUME ProbeInv PROVE ProbeTypeOK
      BY DEF ProbePart
    <3>1. verdict.at \in -1 .. probeClock
      <4>1. CASE verdict = NoVerdict
        BY <4>1 DEF NoVerdict, ProbeInv, ProbeKinds
      <4>2. CASE Fresh(verdict, 1)
        BY <4>2 DEF Fresh, ProbeInv, ProbeKinds
      <4> QED
        BY <4>1, <4>2 DEF ProbeInv, VerdictIsFresh
    <3> QED
      BY <3>1 DEF ProbeInv, ProbeKinds, ProbeTypeOK
  <2>9. part = "watching" => WatchTypeOK
    <3> SUFFICES ASSUME WatchInv PROVE WatchTypeOK
      BY DEF WatchPart
    <3>1. paced \in Never .. passes
      BY DEF WatchInv, WatchKinds, Never
    <3> QED
      BY <3>1 DEF WatchInv, WatchKinds, WatchTypeOK
  <2> QED
    BY <2>1, <2>2, <2>3, <2>4, <2>5, <2>6, <2>7, <2>8, <2>9 DEF GatewayTypeOK
<1>2. GatewaySpec => []Parts
  BY RingPartHolds, PushPartHolds, BridgePartHolds, OnvifPartHolds, ProbePartHolds, WatchPartHolds, PTL
<1>3. GatewaySpec => []Framings
  BY TransportPartHolds, RecordPartHolds, H264PartHolds, PTL
<1> QED
  BY <1>1, <1>2, <1>3, BoundsHold, PTL
=============================================================================
