--------------------------- MODULE Gateway_proofs ---------------------------
(***************************************************************************)
(* Parts of the gateway that MCGateway puts side by side, for any cameras, *)
(* connections, rules, streams, bounds and clocks: for each an invariant   *)
(* its steps keep, and at the end what follows for the whole.              *)
(***************************************************************************)
EXTENDS MCGateway, FiniteSetTheorems, SequenceTheorems, WellFoundedInduction, TLAPS

\* A set of numbers has a least one.
LEMMA LeastNumber ==
    ASSUME NEW T \in SUBSET Nat, T # {}
    PROVE  \E n \in T : \A m \in T : n <= m
<1>1. PICK n \in T : \A m \in T : ~(<<m, n>> \in OpToRel(<, Nat))
  BY NatLessThanWellFounded, WFMin
<1>2. \A m \in T : ~(m < n)
  BY <1>1 DEF OpToRel
<1> QED
  BY <1>2

-----------------------------------------------------------------------------
(* Watching: the cameras of a gateway, and what plugins are asked about them. *)

\* Of a pass: the first rule that is due is looked at, and marks the camera for the others.
FirstDue(rules, i, j) ==
    j \in 1 .. i /\ Due(paced, rules[j].every) /\ \A k \in 1 .. j - 1 : ~Due(paced, rules[k].every)

NoneDue(rules, i) == \A j \in 1 .. i : ~Due(paced, rules[j].every)

WatchKinds ==
    /\ keep \in Policies /\ fetched \in Policies \cup {<<>>}
    /\ picture \in Pictures /\ passes \in Nat /\ waiting \in 0 .. passes /\ upsets \in 0 .. MaxUpsets
    /\ paced = Never \/ paced \in 1 .. passes
    /\ asked \in [{r.plugin : r \in Rules} -> SUBSET (1 .. passes)]

\* Since the rules were all new nobody was asked after the camera was looked at last, and
\* not at all of a camera that is marked as never looked at, or gone.
AskedByPacing ==
    \A p \in DOMAIN asked : \A n \in asked[p] : n > passes - waiting =>
        paced # Never /\ n <= paced /\ there

\* Whoever can be asked was asked in the pass that marked the camera.
MarkedIsAsked == PluginIsAsked(picture) /\ paced # Never => \E p \in DOMAIN asked : paced \in asked[p]

\* After a pass no rule is due.
NothingIsDue ==
    there /\ waiting > 0 => \A i \in DOMAIN fetched : paced # Never /\ passes - paced < fetched[i].every

KeepsApart ==
    \A p \in DOMAIN asked : \A n, m \in asked[p] :
        passes - waiting < n /\ n < m =>
            \E i \in DOMAIN fetched : fetched[i].plugin = p /\ m - n >= fetched[i].every

WatchInv == WatchKinds /\ AskedByPacing /\ MarkedIsAsked /\ NothingIsDue /\ KeepsApart

\* What a rule of a policy is.
LEMMA RulesOfPolicy ==
    ASSUME NEW p \in Policies \cup {<<>>}
    PROVE  Len(p) \in Nat /\ DOMAIN p = 1 .. Len(p) /\ \A i \in DOMAIN p : p[i] \in Rules /\ p[i].every \in Nat \ {0}
<1>1. CASE p = <<>>
  BY <1>1
<1>2. CASE p \in Policies
  <2>1. PICK n \in 0 .. MaxRules : p \in [1 .. n -> Rules]
    BY <1>2 DEF Policies
  <2>2. n \in Nat
    BY <2>1, WatchingAssumption
  <2>3. p \in Seq(Rules) /\ Len(p) = n
    BY <2>1, <2>2
  <2>4. \A i \in DOMAIN p : p[i] \in Rules /\ p[i].every > 0
    BY <1>2, <2>1 DEF Policies
  <2> QED
    BY <2>1, <2>2, <2>3, <2>4, WatchingAssumption
<1> QED
  BY <1>1, <1>2

\* The closed form of LooksOf: of a pass at most one rule is looked at.
LooksUpTo(rules) ==
    [i \in 0 .. Len(rules) |->
        IF NoneDue(rules, i) THEN [last |-> paced, looked |-> {}]
        ELSE [last |-> passes + 1, looked |-> {j \in 1 .. i : FirstDue(rules, i, j)}]]

LooksStep(rules, f, i) ==
    IF i = 0 THEN [last |-> paced, looked |-> {}]
    ELSE IF Due(f[i - 1].last, rules[i].every)
         THEN [last |-> passes + 1, looked |-> f[i - 1].looked \cup {i}]
         ELSE f[i - 1]

LEMMA LooksUpToStep ==
    ASSUME NEW rules \in Policies \cup {<<>>}, passes \in Nat, paced = Never \/ paced \in 1 .. passes,
           NEW i \in 0 .. Len(rules)
    PROVE  LooksUpTo(rules)[i] = LooksStep(rules, LooksUpTo(rules), i)
<1>0. Len(rules) \in Nat /\ \A j \in 1 .. Len(rules) : rules[j].every \in Nat \ {0}
  BY RulesOfPolicy
<1> DEFINE g == LooksUpTo(rules)
<1>1. CASE i = 0
  BY <1>1 DEF LooksUpTo, LooksStep, NoneDue
<1>2. CASE i # 0
  <2>1. i \in 1 .. Len(rules) /\ i - 1 \in 0 .. Len(rules) /\ i - 1 \in Nat
    BY <1>0, <1>2
  <2>2. g[i - 1] = IF NoneDue(rules, i - 1) THEN [last |-> paced, looked |-> {}]
                   ELSE [last |-> passes + 1, looked |-> {j \in 1 .. i - 1 : FirstDue(rules, i - 1, j)}]
    BY <2>1 DEF LooksUpTo
  <2>3. g[i] = IF NoneDue(rules, i) THEN [last |-> paced, looked |-> {}]
               ELSE [last |-> passes + 1, looked |-> {j \in 1 .. i : FirstDue(rules, i, j)}]
    BY <2>1 DEF LooksUpTo
  <2>4. LooksStep(rules, g, i) =
          IF Due(g[i - 1].last, rules[i].every)
          THEN [last |-> passes + 1, looked |-> g[i - 1].looked \cup {i}]
          ELSE g[i - 1]
    BY <1>2 DEF LooksStep
  <2>5. NoneDue(rules, i) <=> NoneDue(rules, i - 1) /\ ~Due(paced, rules[i].every)
    BY <2>1, <1>0 DEF NoneDue
  <2>6. CASE NoneDue(rules, i - 1)
    <3>1. g[i - 1] = [last |-> paced, looked |-> {}]
      BY <2>2, <2>6
    <3>2. CASE Due(paced, rules[i].every)
      <4>1. {j \in 1 .. i : FirstDue(rules, i, j)} = {i}
        <5>1. FirstDue(rules, i, i)
          BY <3>2, <2>6, <2>1 DEF FirstDue, NoneDue
        <5>2. ASSUME NEW j \in 1 .. i, FirstDue(rules, i, j) PROVE j = i
          BY <5>2, <2>6, <2>1 DEF FirstDue, NoneDue
        <5> QED
          BY <5>1, <5>2, <2>1
      <4>2. LooksStep(rules, g, i) = [last |-> passes + 1, looked |-> {i}]
        BY <3>1, <3>2, <2>4
      <4> QED
        BY <4>1, <4>2, <2>3, <2>5, <3>2
    <3>3. CASE ~Due(paced, rules[i].every)
      BY <3>1, <3>3, <2>3, <2>4, <2>5, <2>6
    <3> QED
      BY <3>2, <3>3
  <2>7. CASE ~NoneDue(rules, i - 1)
    <3>1. g[i - 1] = [last |-> passes + 1, looked |-> {j \in 1 .. i - 1 : FirstDue(rules, i - 1, j)}]
      BY <2>2, <2>7
    <3>2. ~Due(g[i - 1].last, rules[i].every)
      BY <3>1, <1>0, <2>1 DEF Due, Never
    <3>3. {j \in 1 .. i : FirstDue(rules, i, j)} = {j \in 1 .. i - 1 : FirstDue(rules, i - 1, j)}
      <4>1. PICK k \in 1 .. i - 1 : Due(paced, rules[k].every)
        BY <2>7 DEF NoneDue
      <4>2. ASSUME NEW j \in 1 .. i
            PROVE  FirstDue(rules, i, j) <=> (j \in 1 .. i - 1 /\ FirstDue(rules, i - 1, j))
        BY <4>1, <2>1 DEF FirstDue
      <4> QED
        BY <4>2, <2>1
    <3> QED
      BY <3>1, <3>2, <3>3, <2>3, <2>4, <2>5, <2>7
  <2> QED
    BY <2>6, <2>7
<1> QED
  BY <1>1, <1>2

\* There is only one such function: a first place in which two would differ is none.
LEMMA LooksOfIs ==
    ASSUME NEW rules \in Policies \cup {<<>>}, passes \in Nat, paced = Never \/ paced \in 1 .. passes
    PROVE  LooksOf(rules) = LooksUpTo(rules)[Len(rules)]
<1>0. Len(rules) \in Nat
  BY RulesOfPolicy
<1> DEFINE g == LooksUpTo(rules)
           Computes(f) == f = [i \in 0 .. Len(rules) |-> LooksStep(rules, f, i)]
           f == CHOOSE h : Computes(h)
<1>1. Computes(g)
  <2>1. g = [i \in 0 .. Len(rules) |-> g[i]]
    BY DEF LooksUpTo
  <2> HIDE DEF g
  <2>2. \A i \in 0 .. Len(rules) : g[i] = LooksStep(rules, g, i)
    BY LooksUpToStep DEF g
  <2> QED
    BY <2>1, <2>2
<1>2. Computes(f)
  BY <1>1
<1>3. LooksOf(rules) = f[Len(rules)]
  BY DEF LooksOf, LooksStep
<1> HIDE DEF f, g
<1>4. \A i \in 0 .. Len(rules) : f[i] = g[i]
  <2> DEFINE T == {i \in 0 .. Len(rules) : f[i] # g[i]}
  <2> SUFFICES ASSUME T # {} PROVE FALSE
    OBVIOUS
  <2>0. T \in SUBSET Nat
    BY <1>0
  <2> HIDE DEF T
  <2>1. PICK n \in T : \A m \in T : n <= m
    BY LeastNumber, <2>0
  <2> USE DEF T
  <2>2. f[n] = LooksStep(rules, f, n) /\ g[n] = LooksStep(rules, g, n)
    BY <1>1, <1>2, <2>1
  <2>3. n # 0 => n - 1 \in 0 .. Len(rules) /\ n - 1 \notin T
    BY <2>1, <1>0
  <2>4. n # 0 => f[n - 1] = g[n - 1]
    BY <2>3
  <2>5. CASE n = 0
    BY <2>1, <2>2, <2>5 DEF LooksStep
  <2>6. CASE n # 0
    <3>1. LooksStep(rules, f, n) = LooksStep(rules, g, n)
      BY <2>4, <2>6 DEF LooksStep
    <3> QED
      BY <2>1, <2>2, <3>1
  <2> QED
    BY <2>5, <2>6
<1> QED
  BY <1>3, <1>4, <1>0 DEF g

\* A pass in which no rule is due looks at none, and one in which some is looks at the first.
LooksAtNone(rules) == NoneDue(rules, Len(rules)) /\ LooksOf(rules) = [last |-> paced, looked |-> {}]

LooksAt(rules, j) ==
    /\ j \in DOMAIN rules /\ Due(paced, rules[j].every)
    /\ LooksOf(rules) = [last |-> passes + 1, looked |-> {j}]

LEMMA LooksAtOne ==
    ASSUME NEW rules \in Policies \cup {<<>>}, passes \in Nat, paced = Never \/ paced \in 1 .. passes
    PROVE  LooksAtNone(rules) \/ \E j \in DOMAIN rules : LooksAt(rules, j)
<1> DEFINE n == Len(rules)
<1>0. n \in Nat /\ DOMAIN rules = 1 .. n
  BY RulesOfPolicy
<1>1. LooksOf(rules) = IF NoneDue(rules, n) THEN [last |-> paced, looked |-> {}]
                       ELSE [last |-> passes + 1, looked |-> {j \in 1 .. n : FirstDue(rules, n, j)}]
  <2>1. LooksOf(rules) = LooksUpTo(rules)[Len(rules)]
    BY LooksOfIs
  <2>2. Len(rules) \in 0 .. Len(rules)
    BY <1>0
  <2> QED
    BY <2>1, <2>2 DEF LooksUpTo
<1>2. CASE NoneDue(rules, n)
  BY <1>1, <1>2 DEF LooksAtNone
<1>3. CASE ~NoneDue(rules, n)
  <2> DEFINE T == {j \in 1 .. n : Due(paced, rules[j].every)}
  <2>1. T # {} /\ T \in SUBSET Nat
    BY <1>0, <1>3 DEF NoneDue
  <2> HIDE DEF T
  <2>2. PICK j \in T : \A k \in T : j <= k
    BY <2>1, LeastNumber
  <2> USE DEF T
  <2>3. j \in 1 .. n /\ Due(paced, rules[j].every) /\ FirstDue(rules, n, j)
    <3>1. \A k \in 1 .. j - 1 : ~Due(paced, rules[k].every)
      <4> SUFFICES ASSUME NEW k \in 1 .. j - 1, Due(paced, rules[k].every) PROVE FALSE
        OBVIOUS
      <4>1. k \in 1 .. n /\ ~(j <= k)
        BY <2>2, <1>0
      <4> QED
        BY <4>1, <2>2
    <3> QED
      BY <2>2, <3>1 DEF FirstDue
  <2>4. ASSUME NEW k \in 1 .. n, FirstDue(rules, n, k) PROVE k = j
    <3>1. k \in 1 .. n /\ j \in 1 .. n
      BY <2>3
    <3>2. ~(k < j) /\ ~(j < k)
      BY <2>3, <2>4, <3>1, <1>0 DEF FirstDue
    <3> QED
      BY <3>1, <3>2, <1>0
  <2>5. {k \in 1 .. n : FirstDue(rules, n, k)} = {j}
    BY <2>3, <2>4
  <2>6. LooksAt(rules, j)
    BY <2>3, <2>5, <1>0, <1>1, <1>3 DEF LooksAt
  <2> QED
    BY <2>6, <2>3, <1>0
<1> QED
  BY <1>2, <1>3

LEMMA WatchBegins == WatchInit => WatchInv
<1> SUFFICES ASSUME WatchInit PROVE WatchInv
  OBVIOUS
<1>1. WatchKinds
  BY WatchingAssumption DEF WatchInit, WatchKinds
<1>2. AskedByPacing /\ KeepsApart
  BY DEF WatchInit, AskedByPacing, KeepsApart
<1>3. MarkedIsAsked /\ NothingIsDue
  BY DEF WatchInit, MarkedIsAsked, NothingIsDue
<1> QED
  BY <1>1, <1>2, <1>3 DEF WatchInv

LEMMA WatchStep == WatchInv /\ [WatchNext]_watchVars => WatchInv'
<1> SUFFICES ASSUME WatchInv, [WatchNext]_watchVars PROVE WatchInv'
  OBVIOUS
<1> USE DEF WatchInv
<1>0. waiting \in Int /\ passes \in Nat /\ upsets \in Nat
  BY WatchingAssumption DEF WatchKinds
<1>1. ASSUME waiting' = 0, UNCHANGED <<passes, picture, asked>>, keep' \in Policies,
             fetched' \in Policies \cup {<<>>}, upsets' \in 0 .. MaxUpsets,
             paced' \in {paced, Never}
      PROVE  WatchInv'
  <2>1. WatchKinds'
    BY <1>1 DEF WatchKinds
  <2>2. AskedByPacing' /\ KeepsApart'
    <3>1. \A p \in DOMAIN asked' : asked'[p] \subseteq 1 .. passes
      BY <1>1 DEF WatchKinds
    <3>2. \A p \in DOMAIN asked' : \A n \in asked'[p] : ~(n > passes' - waiting')
      BY <3>1, <1>0, <1>1
    <3>3. \A p \in DOMAIN asked' : \A n \in asked'[p] : ~(passes' - waiting' < n)
      BY <3>1, <1>0, <1>1
    <3> QED
      BY <3>2, <3>3 DEF AskedByPacing, KeepsApart
  <2>3. MarkedIsAsked' /\ NothingIsDue'
    BY <1>1 DEF MarkedIsAsked, NothingIsDue, PluginIsAsked, SnapshotComes, Accepts, Login
  <2> QED
    BY <2>1, <2>2, <2>3
<1>2. ASSUME NEW policy \in Policies, PolicySet(policy) PROVE WatchInv'
  <2>1. waiting' = 0 /\ UNCHANGED <<passes, picture, asked, paced>> /\ keep' \in Policies
        /\ fetched' = fetched /\ upsets' \in 0 .. MaxUpsets
    BY <1>2, <1>0, WatchingAssumption DEF PolicySet, Upset
  <2> QED
    BY <2>1, <1>1 DEF WatchKinds
<1>3. CASE CameraLeaves
  <2>1. waiting' = 0 /\ UNCHANGED <<passes, picture, asked, paced, keep, fetched>>
        /\ upsets' \in 0 .. MaxUpsets
    BY <1>3, <1>0, WatchingAssumption DEF CameraLeaves, Upset
  <2> QED
    BY <2>1, <1>1 DEF WatchKinds
<1>4. CASE CameraReturns
  <2>1. waiting' = 0 /\ UNCHANGED <<passes, picture, asked, paced, keep, fetched, upsets>>
    BY <1>4 DEF CameraReturns
  <2> QED
    BY <2>1, <1>1 DEF WatchKinds
<1>5. CASE GatewayRestarts
  <2>1. waiting' = 0 /\ UNCHANGED <<passes, picture, asked, keep>> /\ paced' = Never /\ fetched' = <<>>
        /\ upsets' \in 0 .. MaxUpsets
    BY <1>5, <1>0, WatchingAssumption DEF GatewayRestarts, Upset
  <2> QED
    BY <2>1, <1>1 DEF WatchKinds
<1>6. CASE PolicyFetched
  <2>1. waiting' = 0 /\ UNCHANGED <<passes, picture, asked, paced, keep, upsets>> /\ fetched' = keep
    BY <1>6 DEF PolicyFetched
  <2> QED
    BY <2>1, <1>1 DEF WatchKinds
<1>7. CASE Pass
  <2> DEFINE looks == LooksOf(fetched)
             since == passes - waiting
  <2>1. /\ passes' = passes + 1 /\ waiting' = waiting + 1
        /\ UNCHANGED <<keep, fetched, there, picture, upsets>>
    BY <1>7 DEF Pass
  <2>2. passes' - waiting' = since /\ since \in Nat
    BY <2>1, <1>0 DEF WatchKinds
  <2>3. \A p \in DOMAIN asked : asked[p] \subseteq 1 .. passes
    BY DEF WatchKinds
  <2>4. PluginIsAsked(picture') = PluginIsAsked(picture)
    BY <2>1
  <2>5. ASSUME asked' = asked, paced' = Never \/ (paced' = paced /\ NoneDue(fetched, Len(fetched))),
               ~there \/ (paced' = paced /\ NoneDue(fetched, Len(fetched)))
        PROVE  WatchInv'
    <3>1. WatchKinds'
      <4>1. asked' \in [{r.plugin : r \in Rules} -> SUBSET (1 .. passes')]
        <5>1. 1 .. passes \subseteq 1 .. passes'
          BY <2>1, <1>0
        <5> QED
          BY <5>1, <2>5 DEF WatchKinds
      <4> QED
        BY <2>1, <2>5, <1>0, <4>1 DEF WatchKinds
    <3>2. AskedByPacing'
      BY <2>1, <2>2, <2>5 DEF AskedByPacing
    <3>3. KeepsApart'
      BY <2>1, <2>2, <2>5 DEF KeepsApart
    <3>4. MarkedIsAsked'
      BY <2>4, <2>5 DEF MarkedIsAsked
    <3>5. NothingIsDue'
      <4> SUFFICES ASSUME there', NEW i \in DOMAIN fetched
                   PROVE  paced' # Never /\ passes' - paced' < fetched[i].every
        BY <2>1 DEF NothingIsDue
      <4>1. there /\ paced' = paced /\ NoneDue(fetched, Len(fetched))
        BY <2>1, <2>5
      <4>2. i \in 1 .. Len(fetched) /\ fetched[i].every \in Nat
        BY RulesOfPolicy DEF WatchKinds
      <4>3. ~Due(paced, fetched[i].every)
        BY <4>1, <4>2 DEF NoneDue
      <4>4. paced \in 1 .. passes
        BY <4>3 DEF Due, WatchKinds
      <4> QED
        BY <4>1, <4>2, <4>3, <4>4, <2>1, <1>0 DEF Due
    <3> QED
      BY <3>1, <3>2, <3>3, <3>4, <3>5
  <2>6. CASE ~there
    <3>1. asked' = asked /\ paced' = Never
      BY <1>7, <2>6 DEF Pass
    <3>2. paced' = Never \/ (paced' = paced /\ NoneDue(fetched, Len(fetched)))
      BY <3>1
    <3>3. ~there \/ (paced' = paced /\ NoneDue(fetched, Len(fetched)))
      BY <2>6
    <3> QED
      BY <3>1, <3>2, <3>3, <2>5
  <2>7. CASE there
    <3>1. /\ paced' = looks.last
          /\ asked' = [p \in DOMAIN asked |->
                IF PluginIsAsked(picture) /\ \E i \in looks.looked : fetched[i].plugin = p
                THEN asked[p] \cup {passes + 1} ELSE asked[p]]
      BY <1>7, <2>7 DEF Pass
    <3>2. CASE LooksAtNone(fetched)
      <4>1. looks.last = paced /\ looks.looked = {}
        BY <3>2 DEF LooksAtNone
      <4>2. asked' = asked
        <5>1. asked = [p \in DOMAIN asked |-> asked[p]]
          BY DEF WatchKinds
        <5> QED
          BY <5>1, <4>1, <3>1
      <4> QED
        BY <4>1, <4>2, <3>1, <3>2, <2>5 DEF LooksAtNone
    <3>3. ASSUME NEW j \in DOMAIN fetched, LooksAt(fetched, j) PROVE WatchInv'
      <4>1. looks.last = passes + 1 /\ looks.looked = {j} /\ Due(paced, fetched[j].every)
        BY <3>3 DEF LooksAt
      <4>2. paced' = passes + 1
        BY <4>1, <3>1
      <4> DEFINE mine == fetched[j].plugin
      <4>3. DOMAIN asked' = DOMAIN asked /\ \A p \in DOMAIN asked :
              asked'[p] = IF PluginIsAsked(picture) /\ mine = p THEN asked[p] \cup {passes + 1} ELSE asked[p]
        BY <4>1, <3>1
      <4>4. fetched[j] \in Rules /\ mine \in DOMAIN asked
        BY RulesOfPolicy DEF WatchKinds
      <4>5. WatchKinds'
        <5>1. asked' \in [{r.plugin : r \in Rules} -> SUBSET (1 .. passes')]
          <6>1. 1 .. passes \subseteq 1 .. passes' /\ passes + 1 \in 1 .. passes'
            BY <2>1, <1>0
          <6>2. asked' = [p \in DOMAIN asked |-> asked'[p]]
            BY <3>1
          <6>3. DOMAIN asked = {r.plugin : r \in Rules}
            BY DEF WatchKinds
          <6>4. \A p \in DOMAIN asked : asked'[p] \subseteq 1 .. passes'
            BY <6>1, <4>3, <2>3
          <6> QED
            BY <6>2, <6>3, <6>4
        <5> QED
          BY <2>1, <4>2, <1>0, <5>1 DEF WatchKinds
      <4>6. AskedByPacing'
        <5> SUFFICES ASSUME NEW p \in DOMAIN asked', NEW n \in asked'[p]
                     PROVE  paced' # Never /\ n <= paced' /\ there'
          BY DEF AskedByPacing
        <5>1. n \in 1 .. passes + 1
          BY <4>3, <2>3, <1>0
        <5> QED
          BY <5>1, <4>2, <2>1, <2>7, <1>0 DEF Never
      <4>7. MarkedIsAsked'
        BY <2>4, <4>2, <4>3, <4>4 DEF MarkedIsAsked
      <4>8. NothingIsDue'
        <5>1. \A i \in DOMAIN fetched : fetched[i].every \in Nat \ {0}
          BY RulesOfPolicy DEF WatchKinds
        <5> QED
          BY <5>1, <2>1, <4>2, <1>0 DEF NothingIsDue, Never
      <4>9. KeepsApart'
        <5> SUFFICES ASSUME NEW p \in DOMAIN asked, NEW n \in asked'[p], NEW m \in asked'[p],
                            since < n, n < m
                     PROVE  \E i \in DOMAIN fetched : fetched[i].plugin = p /\ m - n >= fetched[i].every
          BY <2>1, <2>2, <4>3 DEF KeepsApart
        <5>1. \A l \in asked'[p] : l \in asked[p] \/ (l = passes + 1 /\ mine = p)
          BY <4>3
        <5>2. \A l \in asked[p] : l \in 1 .. passes
          BY <2>3
        <5>3. n \in asked[p]
          BY <5>1, <5>2, <1>0
        <5>4. CASE m \in asked[p]
          BY <5>3, <5>4 DEF KeepsApart
        <5>5. CASE m = passes + 1 /\ mine = p
          <6>1. paced # Never /\ n <= paced
            BY <5>3, <1>0 DEF AskedByPacing
          <6>2. paced \in 1 .. passes /\ fetched[j].every \in Nat
            BY <6>1, RulesOfPolicy DEF WatchKinds
          <6>3. passes + 1 - paced >= fetched[j].every
            BY <4>1, <6>1 DEF Due
          <6>4. m - n >= fetched[j].every
            BY <6>1, <6>2, <6>3, <5>2, <5>3, <5>5, <1>0
          <6> QED
            BY <6>4, <5>5
        <5> QED
          BY <5>1, <5>4, <5>5
      <4> QED
        BY <4>5, <4>6, <4>7, <4>8, <4>9
    <3> QED
      BY <3>2, <3>3, LooksAtOne DEF WatchKinds
  <2> QED
    BY <2>6, <2>7
<1>8. CASE UNCHANGED watchVars
  <2>1. UNCHANGED <<keep, fetched, there, picture, paced, passes, asked, waiting, upsets>>
    BY <1>8 DEF watchVars
  <2>2. WatchKinds'
    BY <2>1 DEF WatchKinds
  <2>3. AskedByPacing' /\ KeepsApart'
    BY <2>1 DEF AskedByPacing, KeepsApart
  <2>4. MarkedIsAsked' /\ NothingIsDue'
    BY <2>1 DEF MarkedIsAsked, NothingIsDue, PluginIsAsked, SnapshotComes, Accepts, Login
  <2> QED
    BY <2>2, <2>3, <2>4
<1> QED
  BY <1>2, <1>3, <1>4, <1>5, <1>6, <1>7, <1>8 DEF WatchNext

\* A camera that offers its picture to whoever has its login is shown with the login it is
\* asked for, in whichever scheme.
LEMMA SeenIsShown == ASSUME picture \in Pictures, Seen PROVE PluginIsAsked(picture)
<1>1. picture.asks \in {"nothing", "basic", "digest"}
  BY WatchingAssumption
<1> QED
  BY <1>1 DEF Seen, PluginIsAsked, SnapshotComes, Accepts

LEMMA AskedAtThePace == WatchInv => AskedAsAgreed
<1> SUFFICES ASSUME WatchInv PROVE AskedAsAgreed
  OBVIOUS
<1> DEFINE rules == {fetched[i] : i \in DOMAIN fetched}
           since == passes - waiting
           lately(p) == {n \in asked[p] : n > since}
<1>0. waiting \in Nat /\ passes \in Nat /\ since \in Nat
  BY DEF WatchInv, WatchKinds
<1>1. ASSUME NEW p \in DOMAIN asked, NEW n \in lately(p), NEW m \in lately(p), n < m
      PROVE  \E r \in rules : r.plugin = p /\ m - n >= r.every
  <2>1. asked[p] \subseteq 1 .. passes
    BY DEF WatchInv, WatchKinds
  <2>2. since < n /\ n \in asked[p] /\ m \in asked[p]
    BY <2>1, <1>0
  <2>3. PICK i \in DOMAIN fetched : fetched[i].plugin = p /\ m - n >= fetched[i].every
    BY <2>2, <1>1 DEF WatchInv, KeepsApart
  <2> QED
    BY <2>3
<1>2. ASSUME there, Seen, NEW r \in rules, waiting >= r.every
      PROVE  \E p \in DOMAIN asked : \E n \in asked[p] : n > passes - r.every
  <2>1. PICK i \in DOMAIN fetched : r = fetched[i]
    OBVIOUS
  <2>2. r.every \in Nat \ {0}
    BY <2>1, RulesOfPolicy DEF WatchInv, WatchKinds
  <2>3. paced # Never /\ passes - paced < r.every
    BY <1>2, <2>1, <2>2, <1>0 DEF WatchInv, NothingIsDue
  <2>4. PluginIsAsked(picture)
    BY <1>2, SeenIsShown DEF WatchInv, WatchKinds
  <2>5. PICK p \in DOMAIN asked : paced \in asked[p]
    BY <2>3, <2>4 DEF WatchInv, MarkedIsAsked
  <2>6. paced \in 1 .. passes
    BY <2>3 DEF WatchInv, WatchKinds
  <2> QED
    BY <2>2, <2>3, <2>5, <2>6, <1>0
<1> QED
  BY <1>1, <1>2 DEF AskedAsAgreed

-----------------------------------------------------------------------------
(* Onvif: how a camera is found and dialled.                              *)

\* Of some places in a sequence, ordered by a total order, one comes first.
LEMMA OneComesFirst ==
    ASSUME NEW n \in Nat, NEW some \in SUBSET (1 .. n), some # {}, NEW before,
           \A i, j \in some : <<i, j>> \in before \/ <<j, i>> \in before,
           \A i \in some : <<i, i>> \in before,
           \A i, j, k \in some : <<i, j>> \in before /\ <<j, k>> \in before => <<i, k>> \in before
    PROVE  \E i \in some : \A j \in some : <<i, j>> \in before
<1> DEFINE Leads(i, k) == i \in some /\ i <= k /\ \A j \in some : j <= k => <<i, j>> \in before
           T == {k \in 0 .. n : (\E j \in some : j <= k) /\ ~\E i \in some : Leads(i, k)}
<1>1. ASSUME T # {} PROVE FALSE
  <2>0. T \in SUBSET Nat
    OBVIOUS
  <2> HIDE DEF T
  <2>1. PICK k \in T : \A m \in T : k <= m
    BY <1>1, <2>0, LeastNumber
  <2> USE DEF T
  <2>2. k \in 1 .. n /\ k - 1 \in 0 .. n /\ k - 1 \notin T
    <3>1. k \in 0 .. n /\ \E j \in some : j <= k
      BY <2>1
    <3>2. k \in 1 .. n
      BY <3>1
    <3>3. k - 1 \in 0 .. n /\ ~(k <= k - 1)
      BY <3>2
    <3> HIDE DEF T
    <3> QED
      BY <3>2, <3>3, <2>1
  <2>3. CASE ~\E j \in some : j <= k - 1
    <3>1. PICK j \in some : j <= k
      BY <2>1
    <3>2. j = k /\ \A m \in some : m <= k => m = k
      BY <3>1, <2>2, <2>3
    <3>3. Leads(j, k)
      BY <3>1, <3>2, <2>2
    <3> QED
      BY <3>3, <2>1
  <2>4. CASE \E j \in some : j <= k - 1
    <3>1. PICK i \in some : Leads(i, k - 1)
      BY <2>2, <2>4
    <3>2. CASE k \notin some
      <4>1. ASSUME NEW j \in some, j <= k PROVE j <= k - 1
        <5>1. j # k /\ j \in 1 .. n
          BY <3>2
        <5> QED
          BY <5>1, <4>1, <2>2
      <4>2. Leads(i, k)
        <5>1. i <= k
          BY <3>1, <2>2
        <5>2. \A j \in some : j <= k => <<i, j>> \in before
          BY <4>1, <3>1
        <5> QED
          BY <5>1, <5>2
      <4> QED
        BY <4>2, <2>1
    <3>3. CASE k \in some /\ <<i, k>> \in before
      <4>1. \A j \in some : j <= k => j <= k - 1 \/ j = k
        BY <2>2
      <4>2. Leads(i, k)
        <5>1. i <= k
          BY <3>1, <2>2
        <5>2. \A j \in some : j <= k => <<i, j>> \in before
          BY <4>1, <3>1, <3>3
        <5> QED
          BY <5>1, <5>2
      <4> QED
        BY <4>2, <2>1
    <3>4. CASE k \in some /\ <<k, i>> \in before
      <4>1. \A j \in some : j <= k => j <= k - 1 \/ j = k
        BY <2>2
      <4>2. \A j \in some : j <= k => <<k, j>> \in before
        BY <4>1, <3>1, <3>4
      <4>3. Leads(k, k)
        BY <4>2, <3>4, <2>2
      <4> QED
        BY <4>3, <2>1, <3>4
    <3> QED
      BY <3>1, <3>2, <3>3, <3>4
  <2> QED
    BY <2>3, <2>4
<1>2. n \in 0 .. n /\ \A j \in some : j <= n
  OBVIOUS
<1>3. PICK i \in some : Leads(i, n)
  BY <1>1, <1>2
<1> QED
  BY <1>2, <1>3

\* The foremost of some profiles is one of them and none is larger.
IsForemost(q, some, i) == i \in some /\ Foremost(q, some) = q[i] /\ \A j \in some : q[j].pixels <= q[i].pixels
IsHindmost(q, some, i) == i \in some /\ Hindmost(q, some) = q[i] /\ \A j \in some : q[i].pixels <= q[j].pixels

LEMMA ForemostIs ==
    ASSUME NEW q \in Seq(CameraProfiles), NEW some \in SUBSET DOMAIN q, some # {}
    PROVE  \E i \in some : IsForemost(q, some, i)
<1> DEFINE before == {r \in some \X some : Ahead(q, r[1], r[2])}
<1>0. Len(q) \in Nat /\ DOMAIN q = 1 .. Len(q) /\ \A i \in some : i \in Int /\ q[i].pixels \in Nat
  <2>1. Len(q) \in Nat /\ DOMAIN q = 1 .. Len(q)
    OBVIOUS
  <2>2. \A i \in DOMAIN q : q[i] \in CameraProfiles
    BY <2>1
  <2> QED
    BY <2>1, <2>2 DEF CameraProfiles
<1>1. \A i, j \in some : <<i, j>> \in before <=> Ahead(q, i, j)
  OBVIOUS
<1>2. \A i, j \in some : Ahead(q, i, j) \/ Ahead(q, j, i)
  BY <1>0 DEF Ahead
<1>3. \A i, j, k \in some : Ahead(q, i, j) /\ Ahead(q, j, k) => Ahead(q, i, k)
  BY <1>0 DEF Ahead
<1> HIDE DEF before
<1>4. PICK i \in some : \A j \in some : <<i, j>> \in before
  <2>1. \A i, j \in some : <<i, j>> \in before \/ <<j, i>> \in before
    BY <1>1, <1>2
  <2>2. \A i \in some : <<i, i>> \in before
    BY <1>1, <1>2
  <2>3. \A i, j, k \in some : <<i, j>> \in before /\ <<j, k>> \in before => <<i, k>> \in before
    BY <1>1, <1>3
  <2> QED
    BY <2>1, <2>2, <2>3, <1>0, OneComesFirst
<1>5. \A j \in some : Ahead(q, i, j)
  BY <1>1, <1>4
<1> DEFINE m == CHOOSE k \in some : \A j \in some : Ahead(q, k, j)
<1>6. m \in some /\ \A j \in some : Ahead(q, m, j)
  BY <1>5
<1>7. Foremost(q, some) = q[m]
  BY DEF Foremost
<1> HIDE DEF m
<1>8. \A j \in some : q[j].pixels <= q[m].pixels
  BY <1>0, <1>6 DEF Ahead
<1> QED
  BY <1>6, <1>7, <1>8 DEF IsForemost

LEMMA HindmostIs ==
    ASSUME NEW q \in Seq(CameraProfiles), NEW some \in SUBSET DOMAIN q, some # {}
    PROVE  \E i \in some : IsHindmost(q, some, i)
<1> DEFINE before == {r \in some \X some : Ahead(q, r[2], r[1])}
<1>0. Len(q) \in Nat /\ DOMAIN q = 1 .. Len(q) /\ \A i \in some : i \in Int /\ q[i].pixels \in Nat
  <2>1. Len(q) \in Nat /\ DOMAIN q = 1 .. Len(q)
    OBVIOUS
  <2>2. \A i \in DOMAIN q : q[i] \in CameraProfiles
    BY <2>1
  <2> QED
    BY <2>1, <2>2 DEF CameraProfiles
<1>1. \A i, j \in some : <<i, j>> \in before <=> Ahead(q, j, i)
  OBVIOUS
<1>2. \A i, j \in some : Ahead(q, i, j) \/ Ahead(q, j, i)
  BY <1>0 DEF Ahead
<1>3. \A i, j, k \in some : Ahead(q, i, j) /\ Ahead(q, j, k) => Ahead(q, i, k)
  BY <1>0 DEF Ahead
<1> HIDE DEF before
<1>4. PICK i \in some : \A j \in some : <<i, j>> \in before
  <2>1. \A i, j \in some : <<i, j>> \in before \/ <<j, i>> \in before
    BY <1>1, <1>2
  <2>2. \A i \in some : <<i, i>> \in before
    BY <1>1, <1>2
  <2>3. \A i, j, k \in some : <<i, j>> \in before /\ <<j, k>> \in before => <<i, k>> \in before
    BY <1>1, <1>3
  <2> QED
    BY <2>1, <2>2, <2>3, <1>0, OneComesFirst
<1>5. \A j \in some : Ahead(q, j, i)
  BY <1>1, <1>4
<1> DEFINE m == CHOOSE k \in some : \A j \in some : Ahead(q, j, k)
<1>6. m \in some /\ \A j \in some : Ahead(q, j, m)
  BY <1>5
<1>7. Hindmost(q, some) = q[m]
  BY DEF Hindmost
<1> HIDE DEF m
<1>8. \A j \in some : q[m].pixels <= q[j].pixels
  BY <1>0, <1>6 DEF Ahead
<1> QED
  BY <1>6, <1>7, <1>8 DEF IsHindmost

\* What ProfilesAreChosen says of the two that are chosen from what is offered.
WellChosen(offer, best, second) ==
    LET fit == {p \in {offer[i] : i \in Parsed(offer)} : CarriesH264(p)}
        others == {p \in fit : p.token # best.token}
        small == {p \in others : p.pixels <= Ceiling}
    IN  /\ fit # {} => best \in fit /\ \A p \in fit : p.pixels <= best.pixels
        /\ others = {} => second = best
        /\ others # {} => second \in others /\ second.pixels <= best.pixels
        /\ small # {} => second \in small /\ \A p \in small : p.pixels <= second.pixels
        /\ others # {} /\ small = {} => \A p \in others : second.pixels <= p.pixels

LEMMA ChoiceIsGood ==
    ASSUME NEW q \in Seq(CameraProfiles), Parsed(q) # {}
    PROVE  WellChosen(q, SelectMain(q), SelectLive(q))
<1> DEFINE best == SelectMain(q)
           second == SelectLive(q)
           fitting == {i \in Parsed(q) : CarriesH264(q[i])}
           small == {i \in Candidates(q) : q[i].pixels <= Ceiling}
<1>0. Parsed(q) \in SUBSET DOMAIN q /\ fitting \in SUBSET DOMAIN q /\ small \in SUBSET DOMAIN q
      /\ Candidates(q) \in SUBSET fitting /\ Candidates(q) \in SUBSET DOMAIN q
  BY DEF Parsed, Candidates
<1>1. Candidates(q) = {i \in fitting : q[i].token # best.token}
  BY DEF Candidates
<1>2. fitting # {} => \E i \in fitting : best = q[i] /\ \A j \in fitting : q[j].pixels <= q[i].pixels
  <2> SUFFICES ASSUME fitting # {}
               PROVE  \E i \in fitting : best = q[i] /\ \A j \in fitting : q[j].pixels <= q[i].pixels
    OBVIOUS
  <2>1. best = Foremost(q, fitting)
    BY DEF SelectMain
  <2> HIDE DEF fitting, best
  <2>2. PICK i \in fitting : IsForemost(q, fitting, i)
    BY <1>0, ForemostIs
  <2> QED
    BY <2>1, <2>2 DEF IsForemost
<1>3. Candidates(q) = {} => second = best
  BY DEF SelectLive
<1>4. small # {} => \E i \in small : second = q[i] /\ \A j \in small : q[j].pixels <= q[i].pixels
  <2> SUFFICES ASSUME small # {}
               PROVE  \E i \in small : second = q[i] /\ \A j \in small : q[j].pixels <= q[i].pixels
    OBVIOUS
  <2>1. second = Foremost(q, small)
    BY DEF SelectLive
  <2> HIDE DEF small, second
  <2>2. PICK i \in small : IsForemost(q, small, i)
    BY <1>0, ForemostIs
  <2> QED
    BY <2>1, <2>2 DEF IsForemost
<1>5. Candidates(q) # {} /\ small = {} =>
        \E i \in Candidates(q) : second = q[i] /\ \A j \in Candidates(q) : q[i].pixels <= q[j].pixels
  <2> SUFFICES ASSUME Candidates(q) # {}, small = {}
               PROVE  \E i \in Candidates(q) : second = q[i] /\ \A j \in Candidates(q) : q[i].pixels <= q[j].pixels
    OBVIOUS
  <2>1. second = Hindmost(q, Candidates(q))
    BY DEF SelectLive
  <2> HIDE DEF second
  <2>2. PICK i \in Candidates(q) : IsHindmost(q, Candidates(q), i)
    BY <1>0, HindmostIs
  <2> QED
    BY <2>1, <2>2 DEF IsHindmost
<1> HIDE DEF best, second
<1> DEFINE fitP == {p \in {q[i] : i \in Parsed(q)} : CarriesH264(p)}
           othersP == {p \in fitP : p.token # best.token}
           smallP == {p \in othersP : p.pixels <= Ceiling}
<1>6. fitP = {q[i] : i \in fitting}
  OBVIOUS
<1>7. othersP = {q[i] : i \in Candidates(q)}
  <2> HIDE DEF fitP, fitting
  <2> QED
    BY <1>1, <1>6
<1>8. smallP = {q[i] : i \in small}
  <2> HIDE DEF othersP
  <2> QED
    BY <1>7
<1> HIDE DEF fitP, othersP, smallP, fitting, small
<1>9. fitP # {} => best \in fitP /\ \A p \in fitP : p.pixels <= best.pixels
  BY <1>2, <1>6
<1>10. othersP = {} => second = best
  BY <1>3, <1>7
<1>11. othersP # {} => second \in othersP /\ second.pixels <= best.pixels
  <2> SUFFICES ASSUME othersP # {} PROVE second \in othersP /\ second.pixels <= best.pixels
    OBVIOUS
  <2>1. small \subseteq Candidates(q)
    BY DEF small
  <2>2. PICK i \in Candidates(q) : second = q[i]
    BY <1>4, <1>5, <1>7, <2>1
  <2>3. i \in fitting
    BY <1>0
  <2> QED
    BY <2>2, <2>3, <1>2, <1>7
<1>12. smallP # {} => second \in smallP /\ \A p \in smallP : p.pixels <= second.pixels
  BY <1>4, <1>8
<1>13. othersP # {} /\ smallP = {} => \A p \in othersP : second.pixels <= p.pixels
  BY <1>5, <1>7, <1>8
<1>14. WellChosen(q, best, second)
  BY <1>9, <1>10, <1>11, <1>12, <1>13 DEF WellChosen, fitP, othersP, smallP
<1> QED
  BY <1>14 DEF best, second

\* A camera's login is its own: of the entries of its host, and that of its port if there is
\* one.
OwnLogin(a, login) ==
    LET own == {b \in DOMAIN store : b.host = a.host}
    IN  /\ login # Shared => login \in {store[b] : b \in own}
        /\ a \in own => login = store[a]
        /\ Cardinality(own) = 1 => login = store[CHOOSE b \in own : TRUE]
        /\ [a EXCEPT !.port = 0] \in own => login # Shared

LEMMA LoginsAreOwn ==
    ASSUME store \in Stores, NEW a, a = [host |-> a.host, port |-> a.port]
    PROVE  OwnLogin(a, CameraLogin(a))
<1> DEFINE own == {b \in DOMAIN store : b.host = a.host}
           bare == [a EXCEPT !.port = 0]
           ported == {b \in DOMAIN store : b.host = a.host /\ b.port # 0}
           login == CameraLogin(a)
<1>0. /\ DOMAIN store \subseteq Authorities /\ IsFiniteSet(DOMAIN store)
      /\ \A b \in DOMAIN store : store[b] # Shared
  BY OnvifAssumption
<1>1. bare = [host |-> a.host, port |-> 0]
  OBVIOUS
<1>2. bare.host = a.host
  BY <1>1
<1>3. Entry(a) = IF a \in DOMAIN store THEN {a} ELSE IF bare \in DOMAIN store THEN {bare}
                 ELSE IF Cardinality(ported) = 1 THEN ported ELSE {}
  BY DEF Entry
<1>4. IsFiniteSet(own) /\ IsFiniteSet(ported)
  <2>1. own \subseteq DOMAIN store /\ ported \subseteq DOMAIN store
    OBVIOUS
  <2> QED
    BY <2>1, <1>0, FS_Subset
<1> HIDE DEF bare
<1>5. Entry(a) \subseteq own
  BY <1>2, <1>3
<1>6. login = IF Entry(a) = {} THEN Shared ELSE store[CHOOSE b \in Entry(a) : TRUE]
  BY DEF CameraLogin
<1>7. ASSUME login # Shared PROVE login \in {store[b] : b \in own}
  <2>1. Entry(a) # {}
    BY <1>6, <1>7
  <2>2. (CHOOSE b \in Entry(a) : TRUE) \in own
    BY <2>1, <1>5
  <2> QED
    BY <2>1, <2>2, <1>6
<1>8. ASSUME a \in own PROVE login = store[a]
  <2>1. Entry(a) = {a}
    BY <1>3, <1>8
  <2> QED
    BY <2>1, <1>6
<1>9. ASSUME Cardinality(own) = 1 PROVE login = store[CHOOSE b \in own : TRUE]
  <2>1. PICK b : own = {b}
    BY <1>4, <1>9, FS_Singleton
  <2>2. Entry(a) # {}
    <3>1. CASE a \in DOMAIN store \/ bare \in DOMAIN store
      BY <3>1, <1>3
    <3>2. CASE a \notin DOMAIN store /\ bare \notin DOMAIN store
      <4>1. b \in DOMAIN store /\ b.host = a.host /\ b \in Authorities
        BY <2>1, <1>0
      <4>2. b.port # 0
        <5> SUFFICES ASSUME b.port = 0 PROVE FALSE
          OBVIOUS
        <5>1. b = [host |-> a.host, port |-> 0]
          BY <4>1 DEF Authorities
        <5> QED
          BY <5>1, <4>1, <1>1, <3>2 DEF bare
      <4>3. ported = {b}
        BY <4>1, <4>2, <2>1
      <4>4. Cardinality(ported) = 1
        BY <4>3, <1>4, FS_Singleton
      <4> QED
        BY <4>3, <4>4, <3>2, <1>3
    <3> QED
      BY <3>1, <3>2
  <2>3. (CHOOSE e \in Entry(a) : TRUE) \in own
    BY <2>2, <1>5
  <2>4. (CHOOSE e \in Entry(a) : TRUE) = b /\ (CHOOSE e \in own : TRUE) = b
    BY <2>1, <2>3
  <2> QED
    BY <2>2, <2>4, <1>6
<1>10. ASSUME bare \in own PROVE login # Shared
  <2>1. Entry(a) # {}
    BY <1>3, <1>10
  <2>2. (CHOOSE b \in Entry(a) : TRUE) \in DOMAIN store
    BY <2>1, <1>5
  <2> QED
    BY <2>1, <2>2, <1>6, <1>0
<1> QED
  BY <1>7, <1>8, <1>9, <1>10 DEF OwnLogin, bare

-----------------------------------------------------------------------------
OnvifKinds ==
    /\ store \in Stores /\ heard \in 0 .. MaxReplies
    /\ devices \in Seq(Replies) /\ Len(devices) <= heard
    /\ offered \in Offers \cup {<<>>}
    /\ DOMAIN uris = {"main", "live", "snapshot"}

\* Nothing is chosen before a camera has begun, ...
NothingChosen == asking = "discovering" => main = NoProfile /\ \A u \in DOMAIN uris : uris[u] = NoUri

\* ... what is chosen was chosen from what it offered, ...
ChosenOfOffered ==
    main # NoProfile =>
        Parsed(offered) # {} /\ main = SelectMain(offered) /\ live = SelectLive(offered)

\* ... every address is that at which it was reached, ...
ReachedByAddress == \A u \in DOMAIN uris : uris[u] \in {Unparsed, NoUri} \/ uris[u].host = ReachedAt

LiveUriOfLive ==
    asking \in {"GetSnapshotUri", "resolved"} =>
        uris["live"] = uris["main"] \/ uris["live"] = Unparsed \/ uris["live"].token = live.token

\* ... and every login that was presented was looked up.
LoginsLookedUp ==
    \A a \in DOMAIN logins : a = [host |-> a.host, port |-> a.port] /\ logins[a] = CameraLogin(a)

OnvifInv ==
    /\ OnvifKinds /\ DiscoveredOnce /\ NothingChosen /\ ChosenOfOffered /\ ReachedByAddress
    /\ LiveUriOfLive /\ LoginsLookedUp

LEMMA OnvifBegins == OnvifInit => OnvifInv
<1> SUFFICES ASSUME OnvifInit PROVE OnvifInv
  OBVIOUS
<1>1. OnvifKinds /\ DiscoveredOnce
  BY OnvifAssumption DEF OnvifInit, OnvifKinds, DiscoveredOnce
<1>2. NothingChosen /\ ChosenOfOffered /\ ReachedByAddress /\ LiveUriOfLive
  BY DEF OnvifInit, NothingChosen, ChosenOfOffered, ReachedByAddress, LiveUriOfLive
<1>3. LoginsLookedUp
  BY DEF OnvifInit, LoginsLookedUp
<1> QED
  BY <1>1, <1>2, <1>3 DEF OnvifInv

\* Looking up one more address leaves the others as they were looked up.
LEMMA PresentedIsLookedUp ==
    ASSUME LoginsLookedUp, NEW a, a = [host |-> a.host, port |-> a.port], logins' = Presented(a),
           store' = store
    PROVE  LoginsLookedUp'
<1>1. DOMAIN logins' = DOMAIN logins \cup {a}
  BY DEF Presented
<1>2. \A b \in DOMAIN logins' : logins'[b] = CameraLogin(b)
  BY DEF Presented, LoginsLookedUp
<1>3. \A b : CameraLogin(b)' = CameraLogin(b)
  BY DEF CameraLogin, Entry
<1> QED
  BY <1>1, <1>2, <1>3 DEF LoginsLookedUp

LEMMA OnvifStep == OnvifInv /\ [OnvifNext]_onvifVars => OnvifInv'
<1> SUFFICES ASSUME OnvifInv, [OnvifNext]_onvifVars PROVE OnvifInv'
  OBVIOUS
<1> USE DEF OnvifInv
<1>0. ASSUME UNCHANGED <<store, logins>> PROVE LoginsLookedUp'
  <2>1. \A b : CameraLogin(b)' = CameraLogin(b)
    BY <1>0 DEF CameraLogin, Entry
  <2> QED
    BY <2>1, <1>0 DEF LoginsLookedUp
<1>1. ASSUME UNCHANGED <<devices, heard>>, store' = store, offered' \in Offers \cup {<<>>},
             DOMAIN uris' = DOMAIN uris
      PROVE  OnvifKinds' /\ DiscoveredOnce'
  BY <1>1 DEF OnvifKinds, DiscoveredOnce
<1>2. UNCHANGED <<offered, main, live>> => ChosenOfOffered'
  BY DEF ChosenOfOffered
<1>3. UNCHANGED <<camera, uris>> => ReachedByAddress'
  BY DEF ReachedByAddress, ReachedAt
<1>4. ASSUME NEW reply \in Replies, ReplyComes(reply) PROVE OnvifInv'
  <2>1. UNCHANGED <<asking, camera, offered, main, live, uris, store, logins>>
    BY <1>4 DEF ReplyComes
  <2>2. heard' = heard + 1 /\ heard < MaxReplies
    BY <1>4 DEF ReplyComes
  <2>3. devices' = devices \/ (devices' = Append(devices, reply)
                               /\ \A i \in DOMAIN devices : Key(devices[i]) # Key(reply))
    BY <1>4 DEF ReplyComes
  <2>4. OnvifKinds'
    <3>1. devices' \in Seq(Replies) /\ Len(devices') <= heard'
      <4>1. devices \in Seq(Replies) /\ Len(devices) <= heard /\ heard \in Nat
        BY OnvifAssumption DEF OnvifKinds
      <4>2. Append(devices, reply) \in Seq(Replies) /\ Len(Append(devices, reply)) = Len(devices) + 1
        BY <4>1
      <4> QED
        BY <4>1, <4>2, <2>2, <2>3
    <3> QED
      BY <3>1, <2>1, <2>2, OnvifAssumption DEF OnvifKinds
  <2>5. DiscoveredOnce'
    <3>1. CASE devices' = devices
      BY <3>1 DEF DiscoveredOnce
    <3>2. CASE devices' = Append(devices, reply) /\ \A i \in DOMAIN devices : Key(devices[i]) # Key(reply)
      <4>1. devices \in Seq(Replies)
        BY DEF OnvifKinds
      <4>2. DOMAIN devices' = DOMAIN devices \cup {Len(devices) + 1}
            /\ devices'[Len(devices) + 1] = reply
            /\ \A i \in DOMAIN devices : devices'[i] = devices[i]
        BY <4>1, <3>2
      <4>3. ASSUME NEW i \in DOMAIN devices', NEW j \in DOMAIN devices', i # j
            PROVE  Key(devices'[i]) # Key(devices'[j])
        BY <4>2, <4>3, <3>2 DEF DiscoveredOnce
      <4> QED
        BY <4>3 DEF DiscoveredOnce
    <3> QED
      BY <2>3, <3>1, <3>2
  <2> QED
    BY <2>1, <2>4, <2>5, <1>0, <1>2, <1>3 DEF NothingChosen, LiveUriOfLive
<1>5. ASSUME NEW device, device.xaddrs \in Seq(Authorities), Begin(device) PROVE OnvifInv'
  <2>1. /\ UNCHANGED <<heard, devices, main, live, uris, store>>
        /\ offered' \in Offers /\ asking = "discovering"
    BY <1>5 DEF Begin
  <2>2. asking' \in {"failed", "GetDeviceInformation"}
    BY <1>5 DEF Begin
  <2>3. OnvifKinds' /\ DiscoveredOnce'
    BY <2>1, <1>1
  <2>4. main' = NoProfile /\ \A u \in DOMAIN uris' : uris'[u] = NoUri
    BY <2>1 DEF NothingChosen
  <2>5. NothingChosen' /\ ChosenOfOffered' /\ ReachedByAddress' /\ LiveUriOfLive'
    BY <2>2, <2>4 DEF NothingChosen, ChosenOfOffered, ReachedByAddress, LiveUriOfLive
  <2>6. LoginsLookedUp'
    <3>1. CASE device.xaddrs = <<>>
      BY <3>1, <1>5, <2>1, <1>0 DEF Begin
    <3>2. CASE device.xaddrs # <<>>
      <4> DEFINE a == device.xaddrs[1]
      <4>1. logins' = Presented(a)
        BY <3>2, <1>5 DEF Begin
      <4>2. a \in Authorities
        BY <3>2, <1>5
      <4>3. a = [host |-> a.host, port |-> a.port]
        BY <4>2 DEF Authorities
      <4> HIDE DEF a
      <4> QED
        BY <4>1, <4>3, <2>1, PresentedIsLookedUp
    <3> QED
      BY <3>1, <3>2
  <2> QED
    BY <2>3, <2>5, <2>6
<1>6. ASSUME UNCHANGED <<heard, devices, camera, offered, main, live, uris, store, logins>>,
             asking' \in {"failed", "GetCapabilities", "GetProfiles"}
      PROVE  OnvifInv'
  <2>1. OnvifKinds' /\ DiscoveredOnce'
    BY <1>6, <1>1 DEF OnvifKinds
  <2> QED
    BY <2>1, <1>6, <1>0, <1>2, <1>3 DEF NothingChosen, LiveUriOfLive
<1>7. CASE Refused
  BY <1>7, <1>6 DEF Refused
<1>8. CASE Informed
  BY <1>8, <1>6 DEF Informed
<1>9. CASE MediaFound
  BY <1>9, <1>6 DEF MediaFound
<1>10. CASE ProfilesCome
  <2>1. UNCHANGED <<heard, devices, camera, offered, uris, store, logins>>
    BY <1>10 DEF ProfilesCome
  <2>2. OnvifKinds' /\ DiscoveredOnce' /\ LoginsLookedUp' /\ ReachedByAddress'
    BY <2>1, <1>0, <1>1, <1>3 DEF OnvifKinds
  <2>3. asking' \in {"failed", "GetStreamUri"}
    BY <1>10 DEF ProfilesCome
  <2>4. NothingChosen' /\ LiveUriOfLive'
    BY <2>3 DEF NothingChosen, LiveUriOfLive
  <2>5. ChosenOfOffered'
    <3>1. CASE Parsed(offered) = {}
      BY <3>1, <1>10, <2>1, <1>2 DEF ProfilesCome
    <3>2. CASE Parsed(offered) # {}
      <4>1. main' = SelectMain(offered) /\ live' = SelectLive(offered)
        BY <3>2, <1>10 DEF ProfilesCome
      <4> QED
        BY <4>1, <3>2, <2>1 DEF ChosenOfOffered
    <3> QED
      BY <3>1, <3>2
  <2> QED
    BY <2>2, <2>4, <2>5
<1>11. ASSUME NEW uri, NEW p, uri \in UriOf(p)
       PROVE  /\ PointAt(uri) = Unparsed \/ PointAt(uri).host = ReachedAt
              /\ PointAt(uri) = Unparsed \/ PointAt(uri).token = p.token
  <2>1. CASE uri = Unparsed
    BY <2>1 DEF PointAt
  <2>2. CASE uri # Unparsed
    <3>1. PICK h : uri = [host |-> h, token |-> p.token]
      BY <2>2, <1>11 DEF UriOf
    <3>2. PointAt(uri) = [host |-> ReachedAt, token |-> p.token]
      BY <2>2, <3>1 DEF PointAt
    <3> QED
      BY <3>2
  <2> QED
    BY <2>1, <2>2
<1>12. ASSUME NEW uri \in UriOf(main), MainUriComes(uri) PROVE OnvifInv'
  <2>1. UNCHANGED <<heard, devices, camera, offered, main, live, store, logins>>
    BY <1>12 DEF MainUriComes
  <2> DEFINE to == PointAt(uri)
  <2>2. /\ DOMAIN uris' = DOMAIN uris
        /\ uris'["main"] = to
        /\ uris'["live"] = IF live.token = main.token THEN to ELSE uris["live"]
        /\ uris'["snapshot"] = uris["snapshot"]
    BY <1>12 DEF MainUriComes, OnvifKinds
  <2>3. to = Unparsed \/ to.host = ReachedAt
    BY <1>11
  <2> HIDE DEF to
  <2>4. OnvifKinds' /\ DiscoveredOnce' /\ LoginsLookedUp' /\ ChosenOfOffered'
    BY <2>1, <2>2, <1>0, <1>1, <1>2 DEF OnvifKinds
  <2>5. ReachedAt' = ReachedAt
    BY <2>1 DEF ReachedAt
  <2>6. ReachedByAddress'
    <3> HIDE DEF OnvifInv
    <3>1. DOMAIN uris = {"main", "live", "snapshot"} /\ ReachedByAddress
      BY DEF OnvifInv, OnvifKinds
    <3> QED
      BY <3>1, <2>2, <2>3, <2>5 DEF ReachedByAddress
  <2>7. asking' = IF live.token = main.token THEN "GetSnapshotUri" ELSE "GetStreamUri of live"
    BY <1>12 DEF MainUriComes
  <2>8. NothingChosen' /\ LiveUriOfLive'
    BY <2>2, <2>7 DEF NothingChosen, LiveUriOfLive
  <2> QED
    BY <2>4, <2>6, <2>8
<1>13. ASSUME NEW uri \in UriOf(live), LiveUriComes(uri) PROVE OnvifInv'
  <2>1. UNCHANGED <<heard, devices, camera, offered, main, live, store, logins>>
    BY <1>13 DEF LiveUriComes
  <2> DEFINE to == PointAt(uri)
  <2>2. DOMAIN uris' = DOMAIN uris /\ uris'["live"] = to /\ uris'["main"] = uris["main"]
        /\ uris'["snapshot"] = uris["snapshot"]
    BY <1>13 DEF LiveUriComes, OnvifKinds
  <2>3. to = Unparsed \/ to.host = ReachedAt
    BY <1>11
  <2>4. to = Unparsed \/ to.token = live.token
    BY <1>11
  <2> HIDE DEF to
  <2>5. OnvifKinds' /\ DiscoveredOnce' /\ LoginsLookedUp' /\ ChosenOfOffered'
    BY <2>1, <2>2, <1>0, <1>1, <1>2 DEF OnvifKinds
  <2>6. ReachedAt' = ReachedAt
    BY <2>1 DEF ReachedAt
  <2>7. ReachedByAddress'
    <3> HIDE DEF OnvifInv
    <3>1. DOMAIN uris = {"main", "live", "snapshot"} /\ ReachedByAddress
      BY DEF OnvifInv, OnvifKinds
    <3> QED
      BY <3>1, <2>2, <2>3, <2>6 DEF ReachedByAddress
  <2>8. asking' = "GetSnapshotUri"
    BY <1>13 DEF LiveUriComes
  <2>9. NothingChosen' /\ LiveUriOfLive'
    BY <2>1, <2>2, <2>4, <2>8 DEF NothingChosen, LiveUriOfLive
  <2> QED
    BY <2>5, <2>7, <2>9
<1>14. CASE LiveUriRefused
  <2>1. UNCHANGED <<heard, devices, camera, offered, main, live, store, logins>>
    BY <1>14 DEF LiveUriRefused
  <2>2. DOMAIN uris' = DOMAIN uris /\ uris'["live"] = uris["main"] /\ uris'["main"] = uris["main"]
        /\ uris'["snapshot"] = uris["snapshot"]
    BY <1>14 DEF LiveUriRefused, OnvifKinds
  <2>3. OnvifKinds' /\ DiscoveredOnce' /\ LoginsLookedUp' /\ ChosenOfOffered'
    BY <2>1, <2>2, <1>0, <1>1, <1>2 DEF OnvifKinds
  <2>4. ReachedAt' = ReachedAt
    BY <2>1 DEF ReachedAt
  <2>5. ReachedByAddress'
    <3> HIDE DEF OnvifInv
    <3>1. DOMAIN uris = {"main", "live", "snapshot"} /\ ReachedByAddress
      BY DEF OnvifInv, OnvifKinds
    <3> QED
      BY <3>1, <2>2, <2>4 DEF ReachedByAddress
  <2>6. asking' = "GetSnapshotUri"
    BY <1>14 DEF LiveUriRefused
  <2>7. NothingChosen' /\ LiveUriOfLive'
    BY <2>2, <2>6 DEF NothingChosen, LiveUriOfLive
  <2> QED
    BY <2>3, <2>5, <2>7
<1>15. ASSUME NEW uri \in UriOf(main) \cup {NoUri}, SnapshotUriComes(uri) PROVE OnvifInv'
  <2>1. UNCHANGED <<heard, devices, camera, offered, main, live, store>>
        /\ asking = "GetSnapshotUri" /\ asking' = "resolved"
    BY <1>15 DEF SnapshotUriComes
  <2> DEFINE to == IF uri = NoUri THEN uri ELSE PointAt(uri)
  <2>2. DOMAIN uris' = DOMAIN uris /\ uris'["live"] = uris["live"] /\ uris'["main"] = uris["main"]
        /\ uris'["snapshot"] = to
    BY <1>15 DEF SnapshotUriComes, OnvifKinds
  <2>3. to \in {Unparsed, NoUri} \/ to.host = ReachedAt
    <3>1. CASE uri = NoUri
      BY <3>1
    <3>2. CASE uri # NoUri
      BY <3>2, <1>11
    <3> QED
      BY <3>1, <3>2
  <2> HIDE DEF to
  <2>4. OnvifKinds' /\ DiscoveredOnce' /\ ChosenOfOffered'
    BY <2>1, <2>2, <1>1, <1>2 DEF OnvifKinds
  <2>5. ReachedAt' = ReachedAt
    BY <2>1 DEF ReachedAt
  <2>6. ReachedByAddress'
    <3> HIDE DEF OnvifInv
    <3>1. DOMAIN uris = {"main", "live", "snapshot"} /\ ReachedByAddress
      BY DEF OnvifInv, OnvifKinds
    <3> QED
      BY <3>1, <2>2, <2>3, <2>5 DEF ReachedByAddress
  <2>7. NothingChosen' /\ LiveUriOfLive'
    BY <2>1, <2>2 DEF NothingChosen, LiveUriOfLive
  <2>8. LoginsLookedUp'
    <3>1. CASE uris["main"] = Unparsed
      BY <3>1, <1>15, <2>1, <1>0 DEF SnapshotUriComes
    <3>2. CASE uris["main"] # Unparsed
      <4> DEFINE a == [host |-> uris["main"].host, port |-> 0]
      <4>1. logins' = Presented(a)
        BY <3>2, <1>15 DEF SnapshotUriComes
      <4>2. a = [host |-> a.host, port |-> a.port]
        OBVIOUS
      <4> HIDE DEF a
      <4> QED
        BY <4>1, <4>2, <2>1, PresentedIsLookedUp
    <3> QED
      BY <3>1, <3>2
  <2> QED
    BY <2>4, <2>6, <2>7, <2>8
<1>16. CASE UNCHANGED onvifVars
  <2>1. UNCHANGED <<asking, heard, devices, camera, offered, main, live, uris, store, logins>>
    BY <1>16 DEF onvifVars
  <2>2. OnvifKinds' /\ DiscoveredOnce'
    BY <2>1, <1>1 DEF OnvifKinds
  <2> QED
    BY <2>1, <2>2, <1>0, <1>2, <1>3 DEF NothingChosen, LiveUriOfLive
<1>17. ASSUME NEW i \in DOMAIN devices, Begin(devices[i]) PROVE OnvifInv'
  <2>1. devices[i] \in Replies
    BY DEF OnvifKinds
  <2>2. devices[i].xaddrs \in Seq(Authorities)
    BY <2>1, OnvifAssumption
  <2> QED
    BY <2>2, <1>5, <1>17
<1>18. ASSUME NEW address \in Addresses, Begin(FromAddress(address)) PROVE OnvifInv'
  <2>1. FromAddress(address).xaddrs \in Seq(Authorities)
    BY OnvifAssumption DEF FromAddress
  <2> QED
    BY <2>1, <1>5, <1>18
<1> QED
  BY <1>4, <1>7, <1>8, <1>9, <1>10, <1>12, <1>13, <1>14, <1>15, <1>16, <1>17, <1>18 DEF OnvifNext

LEMMA OnvifIsRight ==
    OnvifInv => DiscoveredOnce /\ DialledWhereItAnswered /\ ProfilesAreChosen /\ LoginIsItsOwn
<1> SUFFICES ASSUME OnvifInv
             PROVE  DiscoveredOnce /\ DialledWhereItAnswered /\ ProfilesAreChosen /\ LoginIsItsOwn
  OBVIOUS
<1>1. DiscoveredOnce
  BY DEF OnvifInv
<1>2. DialledWhereItAnswered
  BY DEF OnvifInv, ReachedByAddress, LiveUriOfLive, DialledWhereItAnswered
<1>3. ProfilesAreChosen
  <2>1. CASE main = NoProfile
    BY <2>1 DEF ProfilesAreChosen
  <2>2. CASE main # NoProfile
    <3>1. Parsed(offered) # {} /\ main = SelectMain(offered) /\ live = SelectLive(offered)
      BY <2>2 DEF OnvifInv, ChosenOfOffered
    <3>2. offered \in Seq(CameraProfiles)
      <4>1. offered \in Offers \/ offered = <<>>
        BY DEF OnvifInv, OnvifKinds
      <4>2. <<>> \in Seq(CameraProfiles)
        OBVIOUS
      <4> QED
        BY <4>1, <4>2, OnvifAssumption
    <3>3. WellChosen(offered, main, live)
      BY <3>1, <3>2, ChoiceIsGood
    <3> QED
      BY <3>3 DEF WellChosen, ProfilesAreChosen
  <2> QED
    BY <2>1, <2>2
<1>4. LoginIsItsOwn
  <2>1. ASSUME NEW a \in DOMAIN logins PROVE OwnLogin(a, logins[a])
    BY LoginsAreOwn DEF OnvifInv, OnvifKinds, LoginsLookedUp
  <2> QED
    BY <2>1 DEF OwnLogin, LoginIsItsOwn
<1> QED
  BY <1>1, <1>2, <1>3, <1>4

-----------------------------------------------------------------------------
(* PushedStream: streams that cameras push.                               *)

\* A segmenter that has seen frames of one configuration only.
SegmenterOf(s, x) ==
    /\ DOMAIN s = {"entry", "rate", "fallback", "pending", "sequence"}
    /\ s.pending \in Seq([ts : Int, rate : {1, 2}, key : BOOLEAN, fresh : BOOLEAN, cfg : {x}])
    /\ s.entry \in {None, x}
    /\ s.pending # <<>> => s.entry = x

FramesOf(x) == [ts : Int, rate : {1, 2}, key : BOOLEAN, fresh : BOOLEAN, cfg : {x}]

LEMMA NewSegmenterOf == ASSUME NEW x PROVE SegmenterOf(NewSegmenter, x)
BY DEF SegmenterOf, NewSegmenter

\* What a push of a frame of x does to a segmenter of x, whatever it describes it with.
PushedOf(s, r, x) ==
    /\ SegmenterOf(r.s, x)
    /\ r.kind = "segment" => s.pending # <<>> /\ r.segment.frames = s.pending /\ r.s.entry = x

LEMMA PushOfOne ==
    ASSUME NEW x, NEW s, SegmenterOf(s, x), NEW f \in FramesOf(x), NEW p, p = None \/ p.cfg = x
    PROVE  PushedOf(s, Push(s, f, p), x)
<1> DEFINE r == Push(s, f, p)
           d == Described(s, f, p)
           c == Clocked(d, f)
<1>1. CASE Undecodable(s, f)
  BY <1>1 DEF Push, Pushed, PushedOf
<1>2. CASE ~Undecodable(s, f) /\ Describes(s, f) /\ (p = None \/ ~p.sound)
  BY <1>2 DEF Push, Pushed, PushedOf
<1>3. CASE ~Undecodable(s, f) /\ Describes(s, f) /\ ~(p = None \/ ~p.sound) /\ Reshaped(s, p)
  BY <1>3 DEF Push, Pushed, PushedOf
<1>4. CASE ~Undecodable(s, f) /\ ~(Describes(s, f) /\ (p = None \/ ~p.sound))
           /\ ~(Describes(s, f) /\ Reshaped(s, p))
  <2>1. /\ DOMAIN d = DOMAIN s /\ d.pending = s.pending /\ d.entry = x
    <3>1. CASE Describes(s, f)
      BY <3>1, <1>4 DEF Described, SegmenterOf
    <3>2. CASE ~Describes(s, f)
      BY <3>2, <1>4 DEF Described, SegmenterOf, Describes
    <3> QED
      BY <3>1, <3>2
  <2> HIDE DEF d
  <2>2. DOMAIN c = DOMAIN s /\ c.pending = s.pending /\ c.entry = x
    BY <2>1 DEF Clocked, SegmenterOf
  <2>3. r = IF d.rate \notin {None, f.rate} THEN Pushed("changed", d, None)
            ELSE IF Closes(c, f) THEN Pushed("segment", Take(Closed(c), f), Close(c, f.ts))
            ELSE Pushed("nothing", Take(c, f), None)
    BY <1>4 DEF Push, d
  <2> HIDE DEF c, r
  <2>4. SegmenterOf(d, x)
    BY <2>1 DEF SegmenterOf
  <2>5. SegmenterOf(Take(c, f), x)
    <3>1. Append(c.pending, f) \in Seq(FramesOf(x))
      BY <2>2 DEF SegmenterOf, FramesOf
    <3> QED
      BY <2>2, <3>1 DEF SegmenterOf, FramesOf, Take
  <2>6. SegmenterOf(Take(Closed(c), f), x) /\ Take(Closed(c), f).entry = x
    <3> DEFINE e == Closed(c)
    <3>1. DOMAIN e = DOMAIN s /\ e.pending = <<>> /\ e.entry = x
      BY <2>2 DEF Closed, SegmenterOf
    <3>2. Append(<<>>, f) \in Seq(FramesOf(x))
      OBVIOUS
    <3> HIDE DEF e
    <3>3. SegmenterOf(Take(e, f), x) /\ Take(e, f).entry = x
      BY <3>1, <3>2 DEF SegmenterOf, FramesOf, Take
    <3> QED
      BY <3>3 DEF e
  <2>7. CASE d.rate \notin {None, f.rate}
    BY <2>3, <2>4, <2>7 DEF Pushed, PushedOf, r
  <2>8. CASE ~(d.rate \notin {None, f.rate}) /\ Closes(c, f)
    <3>1. r.kind = "segment" /\ r.s = Take(Closed(c), f) /\ r.segment.frames = c.pending
      BY <2>3, <2>8 DEF Pushed, Close
    <3>2. c.pending # <<>>
      BY <2>8 DEF Closes
    <3> QED
      BY <3>1, <3>2, <2>2, <2>6 DEF PushedOf, r
  <2>9. CASE ~(d.rate \notin {None, f.rate}) /\ ~Closes(c, f)
    BY <2>3, <2>5, <2>9 DEF Pushed, PushedOf, r
  <2> QED
    BY <2>7, <2>8, <2>9 DEF r
<1> QED
  BY <1>1, <1>2, <1>3, <1>4

\* A consumer that was given frames of one configuration only.
KeptOf(kept, x) == kept # None => kept.init = x /\ kept.cfgs = {x}

ReaderOf(r, x) ==
    /\ SegmenterOf(r.seg, x)
    /\ r.queue \in Seq(FramesOf(x))
    /\ r.init \in {None, x}
    /\ KeptOf(r.kept, x)

IsReader(r) == DOMAIN r = {"at", "key", "stream", "queue", "lagged", "seg", "init", "kept"}

\* A closed segment of x is kept with x.
LEMMA KeptOfOne ==
    ASSUME NEW x, NEW r, IsReader(r), ReaderOf(r, x), NEW ended,
           ended.frames \in Seq(FramesOf(x)), ended.frames # <<>>
    PROVE  LET k == Kept(r, ended, x)
           IN  /\ IsReader(k) /\ ReaderOf(k, x)
               /\ k.at = r.at /\ k.key = r.key /\ k.stream = r.stream
<1> DEFINE k == Kept(r, ended, x)
           init == IF r.init = None THEN x ELSE r.init
           kept == [init |-> init, cfgs |-> {ended.frames[i].cfg : i \in DOMAIN ended.frames}]
<1>1. /\ DOMAIN k = DOMAIN r /\ k.init = init /\ k.kept = kept /\ k.at = r.at /\ k.key = r.key
      /\ k.stream = r.stream /\ k.queue = r.queue /\ k.seg = r.seg
  BY DEF Kept, IsReader
<1>2. init = x
  BY DEF ReaderOf
<1>3. {ended.frames[i].cfg : i \in DOMAIN ended.frames} = {x}
  <2>1. \A i \in DOMAIN ended.frames : ended.frames[i].cfg = x
    <3>1. \A i \in DOMAIN ended.frames : ended.frames[i] \in FramesOf(x)
      OBVIOUS
    <3> QED
      BY <3>1 DEF FramesOf
  <2>2. 1 \in DOMAIN ended.frames
    OBVIOUS
  <2> QED
    BY <2>1, <2>2
<1>4. kept.init = x /\ kept.cfgs = {x}
  BY <1>2, <1>3
<1> HIDE DEF k, kept, init
<1>5. IsReader(k) /\ ReaderOf(k, x)
  BY <1>1, <1>2, <1>4 DEF ReaderOf, IsReader, KeptOf
<1> QED
  BY <1>1, <1>5 DEF k

\* A consumer stays one of x when it takes a frame of x, described with x or not at all.
TookOf(r, k, x) == IsReader(k) /\ (k = NoReader \/ (ReaderOf(k, x) /\ k.key = r.key /\ k.stream = r.stream /\ k.at = r.at))

LEMMA TookOfOne ==
    ASSUME NEW x, NEW r, IsReader(r), ReaderOf(r, x), NEW f \in FramesOf(x),
           Parameters(r.stream) = None \/ Parameters(r.stream).cfg = x
    PROVE  TookOf(r, Took(r, f), x)
<1> DEFINE p == Parameters(r.stream)
           one == Push(r.seg, f, p)
           again == Push(NewSegmenter, f, p)
           before == Flush(r.seg)
<1>1. PushedOf(r.seg, one, x)
  BY PushOfOne DEF ReaderOf
<1>2. PushedOf(NewSegmenter, again, x)
  BY PushOfOne, NewSegmenterOf
<1>3. one.kind \in {"nothing", "segment", "error", "changed"}
  BY DEF Push, Pushed
<1>4. Took(r, f) =
        CASE one.kind = "nothing" -> [r EXCEPT !.seg = one.s]
          [] one.kind = "segment" -> [Kept(r, one.segment, one.s.entry) EXCEPT !.seg = one.s]
          [] one.kind = "error" -> NoReader
          [] one.kind = "changed" ->
               IF again.kind = "error" THEN NoReader
               ELSE [(IF before.kind = "segment" THEN Kept(r, before.segment, r.seg.entry) ELSE r)
                        EXCEPT !.seg = again.s, !.init = None]
  BY DEF Took
<1> HIDE DEF p, one, again
<1>5. CASE one.kind = "nothing"
  <2>1. Took(r, f) = [r EXCEPT !.seg = one.s]
    BY <1>4, <1>5
  <2>2. SegmenterOf(one.s, x)
    BY <1>1 DEF PushedOf
  <2> QED
    BY <2>1, <2>2 DEF TookOf, IsReader, ReaderOf
<1>6. CASE one.kind = "segment"
  <2> DEFINE k == Kept(r, one.segment, x)
  <2>1. /\ SegmenterOf(one.s, x) /\ r.seg.pending # <<>> /\ one.segment.frames = r.seg.pending
        /\ one.s.entry = x
    BY <1>1, <1>6 DEF PushedOf
  <2>2. one.segment.frames \in Seq(FramesOf(x)) /\ one.segment.frames # <<>>
    BY <2>1 DEF ReaderOf, SegmenterOf, FramesOf
  <2>3. IsReader(k) /\ ReaderOf(k, x) /\ k.at = r.at /\ k.key = r.key /\ k.stream = r.stream
    BY <2>2, KeptOfOne
  <2>4. Took(r, f) = [k EXCEPT !.seg = one.s]
    BY <1>4, <1>6, <2>1
  <2> HIDE DEF k
  <2> QED
    BY <2>1, <2>3, <2>4 DEF TookOf, IsReader, ReaderOf
<1>7. CASE one.kind = "error"
  BY <1>4, <1>7 DEF TookOf, IsReader, NoReader
<1>8. CASE one.kind = "changed"
  <2>1. CASE again.kind = "error"
    BY <1>4, <1>8, <2>1 DEF TookOf, IsReader, NoReader
  <2>2. CASE again.kind # "error"
    <3> DEFINE k == IF before.kind = "segment" THEN Kept(r, before.segment, r.seg.entry) ELSE r
    <3>1. Took(r, f) = [k EXCEPT !.seg = again.s, !.init = None]
      BY <1>4, <1>8, <2>2
    <3>2. IsReader(k) /\ ReaderOf(k, x) /\ k.at = r.at /\ k.key = r.key /\ k.stream = r.stream
      <4>1. CASE r.seg.pending = <<>>
        BY <4>1 DEF Flush, Pushed
      <4>2. CASE r.seg.pending # <<>>
        <5>1. before.kind = "segment" /\ before.segment.frames = r.seg.pending
          BY <4>2 DEF Flush, Pushed, Close
        <5>2. r.seg.entry = x /\ before.segment.frames \in Seq(FramesOf(x))
          BY <4>2, <5>1 DEF ReaderOf, SegmenterOf, FramesOf
        <5> HIDE DEF before
        <5>3. k = Kept(r, before.segment, x)
          BY <5>1, <5>2
        <5> HIDE DEF k
        <5> QED
          BY <5>1, <5>2, <5>3, <4>2, KeptOfOne
      <4> QED
        BY <4>1, <4>2
    <3>3. SegmenterOf(again.s, x)
      BY <1>2 DEF PushedOf
    <3> HIDE DEF k
    <3> QED
      BY <3>1, <3>2, <3>3 DEF TookOf, IsReader, ReaderOf
  <2> QED
    BY <2>1, <2>2
<1> QED
  BY <1>3, <1>5, <1>6, <1>7, <1>8

-----------------------------------------------------------------------------
\* What a pushed stream's state is made of.
StreamStates ==
    [key : Keys, avcc : {None} \cup {c.avcc : c \in PushedConfigs},
     codec : {None} \cup {c.codec : c \in PushedConfigs},
     size : {None} \cup {c.size : c \in PushedConfigs}, begun : BOOLEAN]

Connections ==
    [at : {"none", "accepting", "publishing"}, key : Keys \cup {None}, stream : Nat \cup {None},
     cfg : PushedConfigs \cup {None}, untold : BOOLEAN]

PushKinds ==
    /\ streams \in [Keys -> Nat \cup {None}] /\ state \in Seq(StreamStates)
    /\ conn \in [Conns -> Connections] /\ IsReader(reader)
    /\ sent \in Nat /\ changes \in Nat

\* Whatever names a stream names one that was opened on that key.
StreamsLinked ==
    /\ \A k \in Keys : streams[k] # None => streams[k] \in DOMAIN state /\ state[streams[k]].key = k
    /\ \A c \in Conns : conn[c].at # "none" => conn[c].key \in Keys /\ conn[c].cfg \in PushedConfigs
    /\ \A c \in Conns : conn[c].at = "publishing" =>
          conn[c].stream \in DOMAIN state /\ state[conn[c].stream].key = conn[c].key
    /\ reader.stream # None => reader.stream \in DOMAIN state /\ state[reader.stream].key = reader.key
    /\ reader.at = "reading" => reader.stream # None

OnePublisher ==
    \A c, d \in Conns :
        /\ conn[c].at = "publishing" /\ conn[d].at = "publishing"
        /\ conn[c].key = conn[d].key /\ conn[c].key \notin crowded
        => c = d

\* A stream of a key that is nobody else's is of one configuration: what it says of itself,
\* who publishes it, and the consumer that was given its frames.
Told(s, cfg) ==
    /\ state[s].avcc \in {None, cfg.avcc} /\ state[s].codec \in {None, cfg.codec}
    /\ state[s].size \in {None, cfg.size}
SetAlike(s, cfg) == \A c \in Conns : conn[c].at = "publishing" /\ conn[c].stream = s => conn[c].cfg = cfg
HeardAlike(s, cfg) == reader.stream = s => ReaderOf(reader, Cfg(cfg))
OfOne(s, cfg) == Told(s, cfg) /\ SetAlike(s, cfg) /\ HeardAlike(s, cfg)

Steady(s) == state[s].key \notin crowded /\ changes = 0 => \E cfg \in PushedConfigs : OfOne(s, cfg)
AllSteady == \A s \in DOMAIN state : Steady(s)

PushInv ==
    /\ PushKinds /\ StreamsLinked /\ StreamsHavePublishers /\ AloneIsHeard /\ OnePublisher
    /\ AllSteady /\ SteadyDecodes

LEMMA PushBegins == PushInit => PushInv
<1> SUFFICES ASSUME PushInit PROVE PushInv
  OBVIOUS
<1>1. \A c \in Conns : conn[c] = NoConn
  BY DEF PushInit
<1>2. PushKinds
  <2>1. streams \in [Keys -> Nat \cup {None}] /\ state \in Seq(StreamStates)
    BY DEF PushInit
  <2>2. NoConn \in Connections
    BY Zenon DEF NoConn, Connections
  <2>3. conn \in [Conns -> Connections]
    BY <2>2 DEF PushInit
  <2>4. IsReader(reader)
    BY DEF PushInit, NoReader, IsReader
  <2> QED
    BY <2>1, <2>3, <2>4 DEF PushInit, PushKinds
<1>3. StreamsLinked /\ OnePublisher
  BY <1>1 DEF PushInit, NoConn, NoReader, StreamsLinked, OnePublisher
<1>4. StreamsHavePublishers /\ AloneIsHeard
  BY <1>1 DEF PushInit, NoConn, StreamsHavePublishers, AloneIsHeard
<1>5. AllSteady /\ SteadyDecodes
  BY DEF PushInit, NoReader, AllSteady, SteadyDecodes, Decodes
<1> QED
  BY <1>2, <1>3, <1>4, <1>5 DEF PushInv

\* The consumer is given a frame by whoever publishes on the key of its stream.
IsGiven(r, q, k, f) ==
    /\ IsReader(r)
    /\ r.at = reader.at /\ r.key = reader.key /\ r.stream = reader.stream
    /\ r.seg = reader.seg /\ r.init = reader.init /\ r.kept = reader.kept
    /\ \/ r.queue = q
       \/ streams[k] # None /\ reader.stream = streams[k] /\ r.queue = Append(q, f)
       \/ streams[k] # None /\ reader.stream = streams[k] /\ q # <<>> /\ r.queue = Append(Tail(q), f)

LEMMA PublishGives ==
    ASSUME IsReader(reader), NEW k, NEW f, Publish(k, f)
    PROVE  IsGiven(reader', reader.queue, k, f)
<1>1. CASE streams[k] = None \/ reader.stream # streams[k]
  BY <1>1 DEF Publish, IsGiven
<1>2. CASE ~(streams[k] = None \/ reader.stream # streams[k]) /\ Len(reader.queue) < Capacity
  <2>1. reader' = [reader EXCEPT !.queue = Append(@, f)]
    BY <1>2 DEF Publish
  <2> QED
    BY <2>1, <1>2 DEF IsGiven, IsReader
<1>3. CASE ~(streams[k] = None \/ reader.stream # streams[k]) /\ ~(Len(reader.queue) < Capacity)
  <2>1. reader' = [reader EXCEPT !.queue = Append(Tail(@), f), !.lagged = TRUE]
    BY <1>3 DEF Publish
  <2>2. reader.queue # <<>>
    BY <1>3, PushAssumption
  <2> QED
    BY <2>1, <2>2, <1>3 DEF IsGiven, IsReader
<1> QED
  BY <1>1, <1>2, <1>3

LEMMA GivenOfOne ==
    ASSUME NEW r, NEW k, NEW x, NEW f \in FramesOf(x), IsGiven(r, reader.queue, k, f), ReaderOf(reader, x)
    PROVE  ReaderOf(r, x)
<1> DEFINE q == reader.queue
<1>1. q \in Seq(FramesOf(x))
  BY DEF ReaderOf
<1>2. Append(q, f) \in Seq(FramesOf(x)) /\ (q # <<>> => Append(Tail(q), f) \in Seq(FramesOf(x)))
  <2> HIDE DEF q
  <2> QED
    BY <1>1
<1>3. r.queue \in Seq(FramesOf(x))
  BY <1>1, <1>2 DEF IsGiven
<1> QED
  BY <1>3 DEF IsGiven, ReaderOf

\* A publisher says something of its stream, with a frame or without: the keys and who
\* publishes on them stay.
ConnsStay ==
    /\ conn' \in [Conns -> Connections]
    /\ \A d \in Conns : /\ conn'[d].at = conn[d].at /\ conn'[d].key = conn[d].key
                        /\ conn'[d].stream = conn[d].stream /\ conn'[d].cfg = conn[d].cfg

StatesStay(s, cfg) ==
    /\ state' \in Seq(StreamStates) /\ DOMAIN state' = DOMAIN state
    /\ \A t \in DOMAIN state : t # s => state'[t] = state[t]
    /\ state'[s].key = state[s].key /\ state'[s].avcc \in {state[s].avcc, cfg.avcc}
    /\ state'[s].codec \in {state[s].codec, cfg.codec} /\ state'[s].size \in {state[s].size, cfg.size}

LEMMA PublisherTells ==
    ASSUME PushInv, NEW c \in Conns, conn[c].at = "publishing", ConnsStay,
           StatesStay(conn[c].stream, conn[c].cfg), UNCHANGED <<streams, changes, crowded>>,
           sent' \in Nat,
           reader' = reader \/ \E f \in FramesOf(Cfg(conn[c].cfg)) : Publish(conn[c].key, f)
    PROVE  PushInv'
<1> DEFINE k == conn[c].key
           s == conn[c].stream
           mine == conn[c].cfg
<1>1. s \in DOMAIN state /\ state[s].key = k /\ k \in Keys /\ mine \in PushedConfigs
  BY DEF PushInv, StreamsLinked
<1>2. IsReader(reader')
      /\ reader'.key = reader.key /\ reader'.stream = reader.stream /\ reader'.kept = reader.kept
      /\ reader'.at = reader.at
  <2>1. CASE reader' = reader
    BY <2>1 DEF PushInv, PushKinds
  <2>2. ASSUME NEW f \in FramesOf(Cfg(mine)), Publish(k, f)
        PROVE  IsReader(reader') /\ reader'.key = reader.key /\ reader'.stream = reader.stream
               /\ reader'.kept = reader.kept /\ reader'.at = reader.at
    BY <2>2, PublishGives DEF PushInv, PushKinds, IsGiven
  <2> QED
    BY <2>1, <2>2
<1>3. \A t \in DOMAIN state : state'[t].key = state[t].key
  BY DEF StatesStay
<1>4. PushKinds'
  BY <1>2 DEF PushInv, PushKinds, ConnsStay, StatesStay
<1>5. StreamsLinked'
  <2>1. DOMAIN state' = DOMAIN state
    BY DEF StatesStay
  <2> QED
    BY <2>1, <1>2, <1>3 DEF PushInv, StreamsLinked, ConnsStay
<1>6. StreamsHavePublishers'
  BY DEF PushInv, StreamsHavePublishers, Publishing, ConnsStay
<1>7. AloneIsHeard' /\ OnePublisher'
  BY DEF PushInv, AloneIsHeard, OnePublisher, ConnsStay
<1>8. AllSteady'
  <2> SUFFICES ASSUME NEW t \in DOMAIN state, state[t].key \notin crowded, changes = 0
               PROVE  \E cfg \in PushedConfigs : OfOne(t, cfg)'
    BY <1>3 DEF AllSteady, Steady, StatesStay
  <2>1. PICK cfg \in PushedConfigs : OfOne(t, cfg)
    BY DEF PushInv, AllSteady, Steady
  <2>2. t = s => cfg = mine
    BY <2>1 DEF OfOne, SetAlike
  <2>3. Told(t, cfg)'
    BY <2>1, <2>2 DEF StatesStay, OfOne, Told
  <2>4. SetAlike(t, cfg)'
    BY <2>1 DEF ConnsStay, OfOne, SetAlike
  <2>5. HeardAlike(t, cfg)'
    <3> SUFFICES ASSUME reader.stream = t PROVE ReaderOf(reader', Cfg(cfg))
      BY <1>2 DEF HeardAlike
    <3>1. ReaderOf(reader, Cfg(cfg))
      BY <2>1 DEF OfOne, HeardAlike
    <3>2. CASE reader' = reader
      BY <3>1, <3>2
    <3>3. ASSUME NEW f \in FramesOf(Cfg(mine)), Publish(k, f) PROVE ReaderOf(reader', Cfg(cfg))
      <4>1. IsGiven(reader', reader.queue, k, f)
        BY <3>3, PublishGives DEF PushInv, PushKinds
      <4>2. CASE reader'.queue = reader.queue
        BY <3>1, <4>1, <4>2 DEF IsGiven, ReaderOf
      <4>3. CASE streams[k] # None /\ reader.stream = streams[k]
        <5>1. state[t].key = k
          BY <4>3, <1>1 DEF PushInv, StreamsLinked
        <5>2. t = s
          BY <5>1, <4>3 DEF PushInv, AloneIsHeard
        <5>3. f \in FramesOf(Cfg(cfg))
          BY <5>2, <2>2
        <5> QED
          BY <5>3, <3>1, <4>1, GivenOfOne
      <4> QED
        BY <4>1, <4>2, <4>3 DEF IsGiven
    <3> QED
      BY <3>2, <3>3
  <2> QED
    BY <2>3, <2>4, <2>5 DEF OfOne
<1>9. SteadyDecodes'
  BY <1>2 DEF PushInv, SteadyDecodes, Decodes
<1> QED
  BY <1>4, <1>5, <1>6, <1>7, <1>8, <1>9 DEF PushInv

LEMMA PutInto ==
    ASSUME NEW S, NEW q \in Seq(S), NEW i \in DOMAIN q, NEW x \in S
    PROVE  /\ [q EXCEPT ![i] = x] \in Seq(S) /\ DOMAIN [q EXCEPT ![i] = x] = DOMAIN q
           /\ [q EXCEPT ![i] = x][i] = x /\ \A j \in DOMAIN q : j # i => [q EXCEPT ![i] = x][j] = q[j]
  OBVIOUS

\* A stream that says more of itself than it did.
Says(s, cfg, new) ==
    /\ new \in StreamStates
    /\ new.key = state[s].key /\ new.avcc \in {state[s].avcc, cfg.avcc}
    /\ new.codec \in {state[s].codec, cfg.codec} /\ new.size \in {state[s].size, cfg.size}

LEMMA SaysStays ==
    ASSUME PushKinds, NEW s \in DOMAIN state, NEW cfg, NEW new, Says(s, cfg, new),
           state' = [state EXCEPT ![s] = new]
    PROVE  StatesStay(s, cfg)
<1>1. state \in Seq(StreamStates) /\ new \in StreamStates
  BY DEF PushKinds, Says
<1>2. /\ state' \in Seq(StreamStates) /\ DOMAIN state' = DOMAIN state
      /\ state'[s] = new /\ \A t \in DOMAIN state : t # s => state'[t] = state[t]
  BY <1>1, PutInto
<1> QED
  BY <1>2 DEF Says, StatesStay

\* What a publisher has of its stream.
LEMMA PublisherHas ==
    ASSUME PushInv, NEW c \in Conns, conn[c].at = "publishing"
    PROVE  /\ conn[c].stream \in DOMAIN state /\ state[conn[c].stream] \in StreamStates
           /\ conn[c].key \in Keys /\ conn[c].cfg \in PushedConfigs /\ conn[c] \in Connections
           /\ streams[conn[c].key] # None => streams[conn[c].key] \in DOMAIN state
  BY DEF PushInv, PushKinds, StreamsLinked

LEMMA UntoldStays ==
    ASSUME PushKinds, NEW c \in Conns, conn' = [conn EXCEPT ![c].untold = FALSE]
    PROVE  ConnsStay
<1>1. conn \in [Conns -> Connections] /\ conn[c] \in Connections
  BY DEF PushKinds
<1>2. [conn[c] EXCEPT !.untold = FALSE] \in Connections
  BY <1>1, Zenon DEF Connections
<1>3. conn' = [conn EXCEPT ![c] = [conn[c] EXCEPT !.untold = FALSE]]
  BY <1>1
<1>4. conn' \in [Conns -> Connections]
  BY <1>1, <1>2, <1>3
<1>5. \A d \in Conns : /\ conn'[d].at = conn[d].at /\ conn'[d].key = conn[d].key
                       /\ conn'[d].stream = conn[d].stream /\ conn'[d].cfg = conn[d].cfg
  BY <1>1, <1>3 DEF Connections
<1> QED
  BY <1>4, <1>5 DEF ConnsStay

LEMMA RtmpMetadataTells == ASSUME PushInv, NEW c \in Conns, RtmpMetadata(c) PROVE PushInv'
<1> DEFINE s == conn[c].stream
           cfg == conn[c].cfg
           new == [state[s] EXCEPT !.size = cfg.size]
<1>1. UNCHANGED <<allowed, streams, conn, reader, sent, changes, crowded>>
      /\ conn[c].at = "publishing" /\ state' = [state EXCEPT ![s].size = cfg.size]
  BY DEF RtmpMetadata
<1>2. s \in DOMAIN state /\ cfg \in PushedConfigs /\ state[s] \in StreamStates
  BY <1>1, PublisherHas
<1>3. state' = [state EXCEPT ![s] = new]
  BY <1>1
<1>4. Says(s, cfg, new)
  <2> HIDE DEF s, cfg
  <2> QED
    BY <1>2 DEF Says, StreamStates
<1>5. StatesStay(s, cfg)
  <2> HIDE DEF new, s, cfg
  <2> QED
    BY <1>2, <1>3, <1>4, SaysStays DEF PushInv
<1>6. ConnsStay
  BY <1>1 DEF ConnsStay, PushInv, PushKinds
<1>7. sent' \in Nat
  BY <1>1 DEF PushInv, PushKinds
<1> QED
  BY <1>1, <1>5, <1>6, <1>7, PublisherTells

LEMMA RtmpParametersTells == ASSUME PushInv, NEW c \in Conns, RtmpParameters(c) PROVE PushInv'
<1> DEFINE s == conn[c].stream
           cfg == conn[c].cfg
           new == [state[s] EXCEPT !.avcc = cfg.avcc, !.codec = cfg.codec]
<1>1. UNCHANGED <<allowed, streams, reader, sent, changes, crowded>>
      /\ conn[c].at = "publishing" /\ conn' = [conn EXCEPT ![c].untold = FALSE]
      /\ state' = [state EXCEPT ![s].avcc = cfg.avcc, ![s].codec = cfg.codec]
  BY DEF RtmpParameters
<1>2. s \in DOMAIN state /\ cfg \in PushedConfigs /\ state[s] \in StreamStates
  BY <1>1, PublisherHas
<1>3. state' = [state EXCEPT ![s] = new]
  BY <1>1, <1>2 DEF StreamStates
<1>4. Says(s, cfg, new)
  <2> HIDE DEF s, cfg
  <2> QED
    BY <1>2 DEF Says, StreamStates
<1>5. StatesStay(s, cfg)
  <2> HIDE DEF new, s, cfg
  <2> QED
    BY <1>2, <1>3, <1>4, SaysStays DEF PushInv
<1>6. ConnsStay
  BY <1>1, UntoldStays DEF PushInv
<1>7. sent' \in Nat
  BY <1>1 DEF PushInv, PushKinds
<1> QED
  BY <1>1, <1>5, <1>6, <1>7, PublisherTells

LEMMA AFrameIs ==
    ASSUME sent \in Nat, NEW cfg, NEW rate \in {1, 2}, NEW key \in BOOLEAN, NEW fresh \in BOOLEAN
    PROVE  AFrame(cfg, rate, key, fresh) \in FramesOf(Cfg(cfg))
<1>1. (sent + 1) * rate \in Int
  OBVIOUS
<1> QED
  BY <1>1 DEF AFrame, FramesOf

LEMMA RtmpFrameTells ==
    ASSUME PushInv, NEW c \in Conns, NEW key \in BOOLEAN, RtmpFrame(c, key) PROVE PushInv'
<1> DEFINE s == conn[c].stream
           cfg == conn[c].cfg
           new == [state[s] EXCEPT !.begun = TRUE]
           f == AFrame(cfg, 1, key, ~state[s].begun)
<1>1. UNCHANGED <<allowed, streams, conn, changes, crowded>> /\ sent' = sent + 1
      /\ conn[c].at = "publishing" /\ state' = [state EXCEPT ![s].begun = TRUE]
      /\ Publish(conn[c].key, f)
  BY DEF RtmpFrame, Sends
<1>2. s \in DOMAIN state /\ cfg \in PushedConfigs /\ state[s] \in StreamStates
  BY <1>1, PublisherHas
<1>3. state' = [state EXCEPT ![s] = new]
  BY <1>1
<1>4. Says(s, cfg, new)
  <2> HIDE DEF s, cfg
  <2>1. new \in StreamStates
    BY <1>2, Zenon DEF StreamStates
  <2> QED
    BY <1>2, <2>1 DEF Says, StreamStates
<1>5. StatesStay(s, cfg)
  <2> HIDE DEF new, s, cfg
  <2> QED
    BY <1>2, <1>3, <1>4, SaysStays DEF PushInv
<1>6. ConnsStay
  BY <1>1 DEF ConnsStay, PushInv, PushKinds
<1>7. sent \in Nat /\ sent' \in Nat
  BY <1>1 DEF PushInv, PushKinds
<1>8. f \in FramesOf(Cfg(cfg))
  <2>1. (~state[s].begun) \in BOOLEAN
    OBVIOUS
  <2> QED
    BY <2>1, <1>7, AFrameIs
<1> HIDE DEF f
<1> QED
  BY <1>1, <1>5, <1>6, <1>7, <1>8, PublisherTells

LEMMA SrtFrameTells ==
    ASSUME PushInv, NEW c \in Conns, NEW key \in BOOLEAN, SrtFrame(c, key) PROVE PushInv'
<1> DEFINE s == conn[c].stream
           cfg == conn[c].cfg
           fresh == key /\ state[s].avcc # cfg.avcc
           new == [state[s] EXCEPT !.begun = TRUE, !.avcc = IF fresh THEN cfg.avcc ELSE @,
                      !.codec = IF fresh THEN cfg.codec ELSE @, !.size = IF fresh THEN cfg.size ELSE @]
           f == AFrame(cfg, 2, key, fresh)
<1>1. UNCHANGED <<allowed, streams, changes, crowded>> /\ sent' = sent + 1
      /\ conn[c].at = "publishing" /\ conn' = [conn EXCEPT ![c].untold = FALSE]
      /\ Publish(conn[c].key, f)
      /\ state' = [state EXCEPT ![s].begun = TRUE, ![s].avcc = IF fresh THEN cfg.avcc ELSE @,
                      ![s].codec = IF fresh THEN cfg.codec ELSE @, ![s].size = IF fresh THEN cfg.size ELSE @]
  BY ZenonT(40) DEF SrtFrame, Sends
<1>2. s \in DOMAIN state /\ cfg \in PushedConfigs /\ state[s] \in StreamStates
  BY <1>1, PublisherHas
<1>3. state' = [state EXCEPT ![s] = new]
  <2> HIDE DEF fresh
  <2> QED
    BY <1>1, <1>2 DEF StreamStates
<1>4. Says(s, cfg, new)
  <2>1. new = [key |-> state[s].key, avcc |-> IF fresh THEN cfg.avcc ELSE state[s].avcc,
               codec |-> IF fresh THEN cfg.codec ELSE state[s].codec,
               size |-> IF fresh THEN cfg.size ELSE state[s].size, begun |-> TRUE]
    <3> DEFINE was == state[s]
               avcc == IF fresh THEN cfg.avcc ELSE was.avcc
               codec == IF fresh THEN cfg.codec ELSE was.codec
               size == IF fresh THEN cfg.size ELSE was.size
    <3>1. was \in StreamStates
      BY <1>2
    <3>2. new = [was EXCEPT !.begun = TRUE, !.avcc = avcc, !.codec = codec, !.size = size]
      BY <1>2
    <3> HIDE DEF was, avcc, codec, size, new
    <3>3. new = [key |-> was.key, avcc |-> avcc, codec |-> codec, size |-> size, begun |-> TRUE]
      BY <3>1, <3>2 DEF StreamStates
    <3> QED
      BY <3>3 DEF was, avcc, codec, size
  <2> HIDE DEF s, cfg, fresh, new
  <2>2. new \in StreamStates
    BY <1>2, <2>1 DEF StreamStates
  <2> QED
    BY <2>1, <2>2 DEF Says
<1>5. StatesStay(s, cfg)
  <2> HIDE DEF new, s, cfg
  <2> QED
    BY <1>2, <1>3, <1>4, SaysStays DEF PushInv
<1>6. ConnsStay
  BY <1>1, UntoldStays DEF PushInv
<1>7. sent \in Nat /\ sent' \in Nat
  BY <1>1 DEF PushInv, PushKinds
<1>8. f \in FramesOf(Cfg(cfg))
  <2>1. fresh \in BOOLEAN
    OBVIOUS
  <2> HIDE DEF fresh
  <2> QED
    BY <2>1, <1>7, AFrameIs
<1> HIDE DEF f
<1> QED
  BY <1>1, <1>5, <1>6, <1>7, <1>8, PublisherTells

\* A connection that publishes nothing changes.
IdleChanges(c) ==
    /\ conn' \in [Conns -> Connections] /\ \A d \in Conns : d # c => conn'[d] = conn[d]
    /\ conn[c].at # "publishing" /\ conn'[c].at # "publishing"
    /\ conn'[c].at # "none" => conn'[c].key \in Keys /\ conn'[c].cfg \in PushedConfigs

LEMMA IdleHolds ==
    ASSUME PushInv, NEW c \in Conns, IdleChanges(c),
           UNCHANGED <<allowed, streams, state, reader, sent, changes, crowded>>
    PROVE  PushInv'
<1>1. \A d \in Conns : conn'[d].at = "publishing" => conn'[d] = conn[d]
  BY DEF IdleChanges
<1>2. \A d \in Conns : conn[d].at = "publishing" => conn'[d] = conn[d]
  BY DEF IdleChanges
<1>3. PushKinds'
  BY DEF IdleChanges, PushInv, PushKinds
<1>4. StreamsLinked'
  BY DEF IdleChanges, PushInv, StreamsLinked
<1>5. StreamsHavePublishers'
  <2> SUFFICES ASSUME NEW k \in Keys, streams[k] # None
               PROVE  \E d \in Publishing(k)' : conn'[d].stream = streams[k]
    BY DEF StreamsHavePublishers
  <2>1. PICK d \in Publishing(k) : conn[d].stream = streams[k]
    BY DEF PushInv, StreamsHavePublishers
  <2> QED
    BY <2>1, <1>2 DEF Publishing
<1>6. AloneIsHeard' /\ OnePublisher'
  BY <1>1 DEF PushInv, AloneIsHeard, OnePublisher
<1>7. AllSteady'
  <2> SUFFICES ASSUME NEW t \in DOMAIN state, state[t].key \notin crowded, changes = 0
               PROVE  \E cfg \in PushedConfigs : OfOne(t, cfg)'
    BY DEF AllSteady, Steady
  <2>1. PICK cfg \in PushedConfigs : OfOne(t, cfg)
    BY DEF PushInv, AllSteady, Steady
  <2>2. OfOne(t, cfg)'
    BY <2>1, <1>1 DEF OfOne, Told, SetAlike, HeardAlike
  <2> QED
    BY <2>2
<1>8. SteadyDecodes'
  BY DEF PushInv, SteadyDecodes, Decodes
<1> QED
  BY <1>3, <1>4, <1>5, <1>6, <1>7, <1>8 DEF PushInv

LEMMA SrtAdmitHolds == ASSUME PushInv, NEW c \in Conns, NEW k \in Keys, SrtAdmit(c, k) PROVE PushInv'
<1> DEFINE new == [NoConn EXCEPT !.at = "accepting", !.key = k, !.cfg = SetAs[c]]
<1>1. UNCHANGED <<allowed, streams, state, reader, sent, changes, crowded>>
      /\ conn[c].at = "none" /\ conn' = [conn EXCEPT ![c] = new]
  BY DEF SrtAdmit
<1>2. SetAs[c] \in PushedConfigs
  BY PushAssumption DEF Conns
<1>3. NoConn \in Connections
  BY Zenon DEF NoConn, Connections
<1>4. new \in Connections /\ new.at = "accepting" /\ new.key = k /\ new.cfg = SetAs[c]
  <2> DEFINE was == NoConn
             cfg == SetAs[c]
  <2>1. new = [was EXCEPT !.at = "accepting", !.key = k, !.cfg = cfg] /\ was \in Connections
    BY <1>3
  <2> HIDE DEF new, was, cfg
  <2>2. new = [at |-> "accepting", key |-> k, stream |-> was.stream, cfg |-> cfg, untold |-> was.untold]
    BY <2>1 DEF Connections
  <2>3. new \in Connections
    BY <1>2, <2>1, <2>2 DEF Connections, cfg
  <2> QED
    BY <2>2, <2>3 DEF cfg
<1>5. IdleChanges(c)
  <2> HIDE DEF new
  <2>1. new.at = "accepting" /\ new.key = k /\ new.cfg = SetAs[c]
    BY <1>4
  <2> QED
    BY <1>1, <1>2, <1>4, <2>1 DEF IdleChanges, PushInv, PushKinds
<1> QED
  BY <1>1, <1>5, IdleHolds

LEMMA SrtNeverConnectsHolds == ASSUME PushInv, NEW c \in Conns, SrtNeverConnects(c) PROVE PushInv'
<1>1. UNCHANGED <<allowed, streams, state, reader, sent, changes, crowded>>
      /\ conn[c].at = "accepting" /\ conn' = [conn EXCEPT ![c] = NoConn]
  BY DEF SrtNeverConnects
<1>2. NoConn \in Connections
  BY Zenon DEF NoConn, Connections
<1>3. NoConn.at = "none"
  BY DEF NoConn
<1>4. IdleChanges(c)
  BY <1>1, <1>2, <1>3 DEF IdleChanges, PushInv, PushKinds
<1> QED
  BY <1>1, <1>4, IdleHolds

\* A publisher's key is closed when it leaves, and nobody else was on it.
LEMMA LeavesHolds == ASSUME PushInv, NEW c \in Conns, Leaves(c) PROVE PushInv'
<1> DEFINE k == conn[c].key
<1>1. UNCHANGED <<allowed, state, reader, sent, changes, crowded>> /\ conn[c].at = "publishing"
      /\ conn' = [conn EXCEPT ![c] = NoConn] /\ streams' = [streams EXCEPT ![k] = None]
  BY DEF Leaves, CloseStream
<1>2. NoConn \in Connections
  BY Zenon DEF NoConn, Connections
<1>3. conn' \in [Conns -> Connections] /\ conn'[c].at = "none"
      /\ \A d \in Conns : d # c => conn'[d] = conn[d]
  BY <1>1, <1>2 DEF PushInv, PushKinds, NoConn
<1>4. k \in Keys /\ streams' \in [Keys -> Nat \cup {None}] /\ streams'[k] = None
      /\ \A j \in Keys : j # k => streams'[j] = streams[j]
  BY <1>1, PublisherHas DEF PushInv, PushKinds
<1>5. \A d \in Conns : conn'[d].at = "publishing" => d # c /\ conn'[d] = conn[d]
  BY <1>3
<1> HIDE DEF k
<1>6. PushKinds'
  BY <1>1, <1>3, <1>4 DEF PushInv, PushKinds
<1>7. StreamsLinked'
  <2>1. \A j \in Keys : streams'[j] # None => streams'[j] = streams[j]
    BY <1>4
  <2>2. \A d \in Conns : conn'[d].at # "none" => conn'[d] = conn[d]
    BY <1>3
  <2> QED
    BY <1>1, <2>1, <2>2 DEF PushInv, StreamsLinked
<1>8. StreamsHavePublishers'
  <2> SUFFICES ASSUME NEW j \in Keys, streams'[j] # None
               PROVE  \E d \in Publishing(j)' : conn'[d].stream = streams'[j]
    BY DEF StreamsHavePublishers
  <2>1. j # k /\ streams'[j] = streams[j]
    BY <1>4
  <2>2. PICK d \in Publishing(j) : conn[d].stream = streams[j]
    BY <2>1 DEF PushInv, StreamsHavePublishers
  <2>3. d # c
    BY <2>1, <2>2 DEF Publishing, k
  <2> QED
    BY <2>1, <2>2, <2>3, <1>3 DEF Publishing
<1>9. AloneIsHeard'
  <2> SUFFICES ASSUME NEW d \in Conns, conn'[d].at = "publishing", conn'[d].key \notin crowded
               PROVE  streams'[conn'[d].key] = conn'[d].stream
    BY <1>1 DEF AloneIsHeard
  <2>1. d # c /\ conn'[d] = conn[d]
    BY <1>5
  <2>2. conn[d].key # k
    BY <2>1, <1>1 DEF PushInv, OnePublisher, k
  <2>3. conn[d].key \in Keys
    BY <2>1, PublisherHas
  <2> QED
    BY <2>1, <2>2, <2>3, <1>4 DEF PushInv, AloneIsHeard
<1>10. OnePublisher'
  BY <1>1, <1>5 DEF PushInv, OnePublisher
<1>11. AllSteady'
  <2> SUFFICES ASSUME NEW t \in DOMAIN state, state[t].key \notin crowded, changes = 0
               PROVE  \E cfg \in PushedConfigs : OfOne(t, cfg)'
    BY <1>1 DEF AllSteady, Steady
  <2>1. PICK cfg \in PushedConfigs : OfOne(t, cfg)
    BY DEF PushInv, AllSteady, Steady
  <2>2. OfOne(t, cfg)'
    BY <2>1, <1>1, <1>5 DEF OfOne, Told, SetAlike, HeardAlike
  <2> QED
    BY <2>2
<1>12. SteadyDecodes'
  BY <1>1 DEF PushInv, SteadyDecodes, Decodes
<1> QED
  BY <1>6, <1>7, <1>8, <1>9, <1>10, <1>11, <1>12 DEF PushInv

\* Two publishers on a key are noted, so that a stream that is opened anew is one's alone.
LEMMA OpenHolds ==
    ASSUME PushInv, NEW c \in Conns, NEW k \in Keys, NEW cfg \in PushedConfigs,
           conn[c].at # "publishing", OpenStream(c, k, cfg), UNCHANGED <<allowed, reader, sent, changes>>
    PROVE  PushInv'
<1> DEFINE s == Opened(k)
           new == [at |-> "publishing", key |-> k, stream |-> s, cfg |-> cfg, untold |-> TRUE]
<1>1. /\ streams' = [streams EXCEPT ![k] = s]
      /\ state' = IF streams[k] = None THEN Append(state, NewState(k)) ELSE state
      /\ conn' = [conn EXCEPT ![c] = new]
      /\ crowded' = IF Publishing(k) = {} THEN crowded ELSE crowded \cup {k}
  BY DEF OpenStream
<1>2. state \in Seq(StreamStates) /\ Len(state) \in Nat /\ DOMAIN state = 1 .. Len(state)
  BY DEF PushInv, PushKinds
<1>3. NewState(k) \in StreamStates
  BY Zenon DEF NewState, StreamStates
<1>4. /\ state' \in Seq(StreamStates) /\ DOMAIN state \subseteq DOMAIN state'
      /\ \A t \in DOMAIN state : state'[t] = state[t]
      /\ streams[k] = None => DOMAIN state' = DOMAIN state \cup {s} /\ s = Len(state) + 1 /\ state'[s] = NewState(k)
      /\ streams[k] # None => state' = state /\ s = streams[k]
  <2>1. CASE streams[k] = None
    BY <2>1, <1>1, <1>2, <1>3 DEF Opened
  <2>2. CASE streams[k] # None
    BY <2>2, <1>1, <1>2 DEF Opened
  <2> QED
    BY <2>1, <2>2
<1>5. s \in DOMAIN state' /\ s \in Nat /\ s # None /\ state'[s].key = k
  <2>1. CASE streams[k] = None
    BY <2>1, <1>2, <1>4, PushAssumption DEF NewState
  <2>2. CASE streams[k] # None
    BY <2>2, <1>2, <1>4, PushAssumption DEF PushInv, StreamsLinked
  <2> QED
    BY <2>1, <2>2
<1>6. new \in Connections
  <2> HIDE DEF s
  <2> QED
    BY <1>5, Zenon DEF Connections
<1>7. new.at = "publishing" /\ new.key = k /\ new.stream = s /\ new.cfg = cfg
  OBVIOUS
<1> HIDE DEF s, new
<1>8. conn' \in [Conns -> Connections] /\ conn'[c] = new /\ \A d \in Conns : d # c => conn'[d] = conn[d]
  BY <1>1, <1>6 DEF PushInv, PushKinds
<1>9. streams' \in [Keys -> Nat \cup {None}] /\ streams'[k] = s /\ \A j \in Keys : j # k => streams'[j] = streams[j]
  BY <1>1, <1>5 DEF PushInv, PushKinds
<1>10. crowded \subseteq crowded' /\ (Publishing(k) # {} => k \in crowded')
  BY <1>1
<1>11. PushKinds'
  BY <1>4, <1>8, <1>9 DEF PushInv, PushKinds
<1>12. StreamsLinked'
  <2>1. \A j \in Keys : streams'[j] # None => streams'[j] \in DOMAIN state' /\ state'[streams'[j]].key = j
    <3> SUFFICES ASSUME NEW j \in Keys, streams'[j] # None
                 PROVE  streams'[j] \in DOMAIN state' /\ state'[streams'[j]].key = j
      OBVIOUS
    <3>1. CASE j = k
      BY <3>1, <1>5, <1>9
    <3>2. CASE j # k
      BY <3>2, <1>4, <1>9 DEF PushInv, StreamsLinked
    <3> QED
      BY <3>1, <3>2
  <2>2. \A d \in Conns : conn'[d].at # "none" => conn'[d].key \in Keys /\ conn'[d].cfg \in PushedConfigs
    BY <1>7, <1>8 DEF PushInv, StreamsLinked
  <2>3. \A d \in Conns : conn'[d].at = "publishing" =>
          conn'[d].stream \in DOMAIN state' /\ state'[conn'[d].stream].key = conn'[d].key
    <3> SUFFICES ASSUME NEW d \in Conns, conn'[d].at = "publishing"
                 PROVE  conn'[d].stream \in DOMAIN state' /\ state'[conn'[d].stream].key = conn'[d].key
      OBVIOUS
    <3>1. CASE d = c
      BY <3>1, <1>5, <1>7, <1>8
    <3>2. CASE d # c
      BY <3>2, <1>4, <1>8 DEF PushInv, StreamsLinked
    <3> QED
      BY <3>1, <3>2
  <2>4. (reader.stream # None => reader.stream \in DOMAIN state' /\ state'[reader.stream].key = reader.key)
        /\ (reader.at = "reading" => reader.stream # None)
    BY <1>4 DEF PushInv, StreamsLinked
  <2> QED
    BY <2>1, <2>2, <2>3, <2>4 DEF StreamsLinked
<1>13. StreamsHavePublishers'
  <2> SUFFICES ASSUME NEW j \in Keys, streams'[j] # None
               PROVE  \E d \in Publishing(j)' : conn'[d].stream = streams'[j]
    BY DEF StreamsHavePublishers
  <2>1. CASE j = k
    BY <2>1, <1>7, <1>8, <1>9 DEF Publishing
  <2>2. CASE j # k
    <3>1. PICK d \in Publishing(j) : conn[d].stream = streams[j]
      BY <2>2, <1>9 DEF PushInv, StreamsHavePublishers
    <3>2. d # c
      BY <3>1 DEF Publishing
    <3> QED
      BY <2>2, <3>1, <3>2, <1>8, <1>9 DEF Publishing
  <2> QED
    BY <2>1, <2>2
<1>14. \A d \in Conns : d # c /\ conn'[d].at = "publishing" /\ conn'[d].key \notin crowded' =>
          conn[d].key # k /\ conn[d].key \notin crowded /\ conn'[d] = conn[d]
  <2> SUFFICES ASSUME NEW d \in Conns, d # c, conn'[d].at = "publishing", conn'[d].key \notin crowded'
               PROVE  conn[d].key # k /\ conn[d].key \notin crowded /\ conn'[d] = conn[d]
    OBVIOUS
  <2>1. conn'[d] = conn[d]
    BY <1>8
  <2>2. conn[d].key = k => d \in Publishing(k)
    BY <2>1 DEF Publishing
  <2> QED
    BY <2>1, <2>2, <1>10
<1>15. AloneIsHeard'
  <2> SUFFICES ASSUME NEW d \in Conns, conn'[d].at = "publishing", conn'[d].key \notin crowded'
               PROVE  streams'[conn'[d].key] = conn'[d].stream
    BY DEF AloneIsHeard
  <2>1. CASE d = c
    BY <2>1, <1>7, <1>8, <1>9
  <2>2. CASE d # c
    <3>1. conn[d].key # k /\ conn[d].key \notin crowded /\ conn'[d] = conn[d]
      BY <2>2, <1>14
    <3>2. conn[d].key \in Keys
      BY <3>1, PublisherHas
    <3> QED
      BY <3>1, <3>2, <1>9 DEF PushInv, AloneIsHeard
  <2> QED
    BY <2>1, <2>2
<1>16. OnePublisher'
  <2> SUFFICES ASSUME NEW d \in Conns, NEW e \in Conns, conn'[d].at = "publishing", conn'[e].at = "publishing",
                      conn'[d].key = conn'[e].key, conn'[d].key \notin crowded', d # e
               PROVE  FALSE
    BY DEF OnePublisher
  <2>1. CASE d = c
    BY <2>1, <1>7, <1>8, <1>14
  <2>2. CASE e = c
    BY <2>2, <1>7, <1>8, <1>14
  <2>3. CASE d # c /\ e # c
    BY <2>3, <1>14 DEF PushInv, OnePublisher
  <2> QED
    BY <2>1, <2>2, <2>3
<1>17. AllSteady'
  <2> SUFFICES ASSUME NEW t \in DOMAIN state', state'[t].key \notin crowded', changes = 0
               PROVE  \E own \in PushedConfigs : OfOne(t, own)'
    BY DEF AllSteady, Steady
  <2>1. CASE t \in DOMAIN state
    <3>1. state'[t] = state[t] /\ state[t].key \notin crowded
      BY <2>1, <1>4, <1>10
    <3>2. t # s
      <4> SUFFICES ASSUME t = s PROVE FALSE
        OBVIOUS
      <4>1. streams[k] # None
        BY <1>2, <1>4, <2>1
      <4>2. PICK d \in Publishing(k) : conn[d].stream = streams[k]
        BY <4>1 DEF PushInv, StreamsHavePublishers
      <4> QED
        BY <4>2, <1>5, <1>10
    <3>3. PICK own \in PushedConfigs : OfOne(t, own)
      BY <2>1, <3>1 DEF PushInv, AllSteady, Steady
    <3>4. Told(t, own)' /\ HeardAlike(t, own)'
      BY <3>1, <3>3 DEF OfOne, Told, HeardAlike
    <3>5. SetAlike(t, own)'
      BY <3>2, <3>3, <1>7, <1>8 DEF OfOne, SetAlike
    <3> QED
      BY <3>4, <3>5 DEF OfOne
  <2>2. CASE t \notin DOMAIN state
    <3>1. streams[k] = None /\ t = s /\ state'[t] = NewState(k)
      BY <2>2, <1>4
    <3>2. Told(t, cfg)'
      BY <3>1 DEF Told, NewState
    <3>3. HeardAlike(t, cfg)'
      BY <2>2, <1>5, <3>1 DEF HeardAlike, PushInv, StreamsLinked
    <3>4. SetAlike(t, cfg)'
      <4> SUFFICES ASSUME NEW d \in Conns, conn'[d].at = "publishing", conn'[d].stream = t PROVE conn'[d].cfg = cfg
        BY DEF SetAlike
      <4>1. d = c
        BY <2>2, <1>8 DEF PushInv, StreamsLinked
      <4> QED
        BY <4>1, <1>7, <1>8
    <3> QED
      BY <3>2, <3>3, <3>4 DEF OfOne
  <2> QED
    BY <2>1, <2>2
<1>18. SteadyDecodes'
  BY <1>10 DEF PushInv, SteadyDecodes, Decodes
<1> QED
  BY <1>11, <1>12, <1>13, <1>15, <1>16, <1>17, <1>18 DEF PushInv

\* An encoder that is set differently is not spoken of any more.
LEMMA ReconfigureHolds ==
    ASSUME PushInv, NEW c \in Conns, NEW cfg \in PushedConfigs, Reconfigure(c, cfg) PROVE PushInv'
<1> DEFINE new == [conn[c] EXCEPT !.cfg = cfg, !.untold = TRUE]
<1>1. UNCHANGED <<allowed, streams, state, reader, sent, crowded>> /\ changes' = changes + 1
      /\ conn[c].at = "publishing" /\ conn' = [conn EXCEPT ![c].cfg = cfg, ![c].untold = TRUE]
  BY DEF Reconfigure
<1>2. conn \in [Conns -> Connections] /\ conn[c] \in Connections
  BY DEF PushInv, PushKinds
<1>3. conn' = [conn EXCEPT ![c] = new]
  BY <1>1, <1>2 DEF Connections
<1>4. new \in Connections /\ new.at = conn[c].at /\ new.key = conn[c].key /\ new.stream = conn[c].stream
      /\ new.cfg = cfg
  <2> DEFINE was == conn[c]
  <2>1. new = [was EXCEPT !.cfg = cfg, !.untold = TRUE] /\ was \in Connections
    BY <1>2
  <2> HIDE DEF new, was
  <2>2. new = [at |-> was.at, key |-> was.key, stream |-> was.stream, cfg |-> cfg, untold |-> TRUE]
    BY <2>1 DEF Connections
  <2>3. new \in Connections
    BY <2>1, <2>2 DEF Connections
  <2> QED
    BY <2>2, <2>3 DEF was
<1> HIDE DEF new
<1>5. conn' \in [Conns -> Connections]
      /\ \A d \in Conns : /\ conn'[d].at = conn[d].at /\ conn'[d].key = conn[d].key
                          /\ conn'[d].stream = conn[d].stream /\ conn'[d].cfg \in {conn[d].cfg, cfg}
  BY <1>2, <1>3, <1>4
<1>6. changes' \in Nat /\ changes' # 0
  BY <1>1 DEF PushInv, PushKinds
<1>7. PushKinds'
  BY <1>1, <1>5, <1>6 DEF PushInv, PushKinds
<1>8. StreamsLinked'
  BY <1>1, <1>5 DEF PushInv, StreamsLinked
<1>9. StreamsHavePublishers'
  BY <1>1, <1>5 DEF PushInv, StreamsHavePublishers, Publishing
<1>10. AloneIsHeard' /\ OnePublisher'
  BY <1>1, <1>5 DEF PushInv, AloneIsHeard, OnePublisher
<1>11. AllSteady' /\ SteadyDecodes'
  BY <1>6 DEF AllSteady, Steady, SteadyDecodes
<1> QED
  BY <1>7, <1>8, <1>9, <1>10, <1>11 DEF PushInv

LEMMA AllowHolds == ASSUME PushInv, NEW keys \in SUBSET Keys, Allow(keys) PROVE PushInv'
<1>1. UNCHANGED <<streams, state, conn, reader, sent, crowded>> /\ changes' = changes + 1
  BY DEF Allow
<1>2. changes' \in Nat /\ changes' # 0
  BY <1>1 DEF PushInv, PushKinds
<1>3. PushKinds' /\ StreamsLinked'
  BY <1>1, <1>2 DEF PushInv, PushKinds, StreamsLinked
<1>4. StreamsHavePublishers' /\ AloneIsHeard' /\ OnePublisher'
  BY <1>1 DEF PushInv, StreamsHavePublishers, Publishing, AloneIsHeard, OnePublisher
<1>5. AllSteady' /\ SteadyDecodes'
  BY <1>2 DEF AllSteady, Steady, SteadyDecodes
<1> QED
  BY <1>3, <1>4, <1>5 DEF PushInv

\* The consumer: what it holds after a step of its own is of the stream it held before.
ReaderMoves ==
    /\ IsReader(reader')
    /\ reader'.stream # None => reader'.stream \in DOMAIN state /\ state[reader'.stream].key = reader'.key
    /\ reader'.at = "reading" => reader'.stream # None
    /\ \A s \in DOMAIN state, cfg \in PushedConfigs :
          state[s].key \notin crowded /\ changes = 0 /\ OfOne(s, cfg) /\ reader'.stream = s =>
              ReaderOf(reader', Cfg(cfg))

LEMMA ReaderHolds ==
    ASSUME PushInv, UNCHANGED <<allowed, streams, state, conn, sent, changes, crowded>>, ReaderMoves,
           SteadyDecodes'
    PROVE  PushInv'
<1>1. PushKinds' /\ StreamsLinked'
  BY DEF PushInv, PushKinds, StreamsLinked, ReaderMoves
<1>2. StreamsHavePublishers' /\ AloneIsHeard' /\ OnePublisher'
  BY DEF PushInv, StreamsHavePublishers, Publishing, AloneIsHeard, OnePublisher
<1>3. AllSteady'
  <2> SUFFICES ASSUME NEW t \in DOMAIN state, state[t].key \notin crowded, changes = 0
               PROVE  \E cfg \in PushedConfigs : OfOne(t, cfg)'
    BY DEF AllSteady, Steady
  <2>1. PICK cfg \in PushedConfigs : OfOne(t, cfg)
    BY DEF PushInv, AllSteady, Steady
  <2>2. HeardAlike(t, cfg)'
    BY <2>1 DEF ReaderMoves, HeardAlike
  <2>3. Told(t, cfg)' /\ SetAlike(t, cfg)'
    BY <2>1 DEF OfOne, Told, SetAlike
  <2> QED
    BY <2>2, <2>3 DEF OfOne
<1> QED
  BY <1>1, <1>2, <1>3 DEF PushInv

LEMMA NoReaderIs ==
    IsReader(NoReader) /\ NoReader.at = "none" /\ NoReader.stream = None /\ NoReader.kept = None
  BY DEF IsReader, NoReader

LEMMA SubscribeHolds == ASSUME PushInv, NEW k \in Keys, Subscribe(k) PROVE PushInv'
<1>1. UNCHANGED <<allowed, streams, state, conn, sent, changes, crowded>> /\ streams[k] # None
      /\ reader' = [NoReader EXCEPT !.at = "reading", !.key = k, !.stream = streams[k]]
  BY DEF Subscribe
<1>2. /\ IsReader(reader') /\ reader'.at = "reading" /\ reader'.key = k /\ reader'.stream = streams[k]
      /\ reader'.queue = <<>> /\ reader'.seg = NewSegmenter /\ reader'.init = None /\ reader'.kept = None
  BY <1>1 DEF NoReader, IsReader
<1>3. ASSUME NEW x PROVE ReaderOf(reader', x)
  <2>1. <<>> \in Seq(FramesOf(x))
    OBVIOUS
  <2> QED
    BY <2>1, <1>2, NewSegmenterOf DEF ReaderOf, KeptOf
<1>4. ReaderMoves
  BY <1>1, <1>2, <1>3 DEF PushInv, StreamsLinked, ReaderMoves
<1>5. SteadyDecodes'
  BY <1>2 DEF SteadyDecodes, Decodes
<1> QED
  BY <1>1, <1>4, <1>5, ReaderHolds

\* Whatever it takes, a consumer stays with its stream or begins anew.
LEMMA TookStays ==
    ASSUME NEW r, IsReader(r), NEW f
    PROVE  LET k == Took(r, f)
           IN  IsReader(k) /\ (k = NoReader \/ (k.at = r.at /\ k.key = r.key /\ k.stream = r.stream))
<1> DEFINE Stays(k) == IsReader(k) /\ (k = NoReader \/ (k.at = r.at /\ k.key = r.key /\ k.stream = r.stream))
           p == Parameters(r.stream)
           one == Push(r.seg, f, p)
           again == Push(NewSegmenter, f, p)
           before == Flush(r.seg)
<1> DEFINE Same(k) == IsReader(k) /\ k.at = r.at /\ k.key = r.key /\ k.stream = r.stream
<1>1. ASSUME NEW ended, NEW x PROVE Same(Kept(r, ended, x))
  BY DEF Kept, IsReader
<1>2. ASSUME NEW k, Same(k), NEW seg, NEW init
      PROVE  Stays([k EXCEPT !.seg = seg]) /\ Stays([k EXCEPT !.seg = seg, !.init = init])
  BY <1>2 DEF IsReader
<1>3. one.kind \in {"nothing", "segment", "error", "changed"}
  BY DEF Push, Pushed
<1>4. Took(r, f) =
        CASE one.kind = "nothing" -> [r EXCEPT !.seg = one.s]
          [] one.kind = "segment" -> [Kept(r, one.segment, one.s.entry) EXCEPT !.seg = one.s]
          [] one.kind = "error" -> NoReader
          [] one.kind = "changed" ->
               IF again.kind = "error" THEN NoReader
               ELSE [(IF before.kind = "segment" THEN Kept(r, before.segment, r.seg.entry) ELSE r)
                        EXCEPT !.seg = again.s, !.init = None]
  BY DEF Took
<1> HIDE DEF p, one, again, before
<1>5. Stays(NoReader)
  BY NoReaderIs
<1> HIDE DEF Stays
<1>6. Stays(Took(r, f))
  <2>1. CASE one.kind = "nothing"
    <3>1. Took(r, f) = [r EXCEPT !.seg = one.s]
      BY <2>1, <1>4
    <3>2. Stays([r EXCEPT !.seg = one.s])
      BY <1>2
    <3> QED
      BY <3>1, <3>2
  <2>2. CASE one.kind = "segment"
    <3>1. Took(r, f) = [Kept(r, one.segment, one.s.entry) EXCEPT !.seg = one.s]
      BY <2>2, <1>4
    <3> DEFINE k == Kept(r, one.segment, one.s.entry)
    <3>2. Same(k)
      BY <1>1
    <3> HIDE DEF Same
    <3>3. Stays([k EXCEPT !.seg = one.s])
      BY <3>2, <1>2
    <3> QED
      BY <3>1, <3>3
  <2>3. CASE one.kind = "error"
    BY <2>3, <1>4, <1>5
  <2>4. CASE one.kind = "changed"
    <3>1. CASE again.kind = "error"
      BY <3>1, <2>4, <1>4, <1>5
    <3>2. CASE again.kind # "error" /\ before.kind = "segment"
      <4>1. Took(r, f) = [Kept(r, before.segment, r.seg.entry) EXCEPT !.seg = again.s, !.init = None]
        BY <3>2, <2>4, <1>4
      <4> DEFINE k == Kept(r, before.segment, r.seg.entry)
      <4>2. Same(k)
        BY <1>1
      <4> HIDE DEF Same
      <4>3. Stays([k EXCEPT !.seg = again.s, !.init = None])
        BY <4>2, <1>2
      <4> QED
        BY <4>1, <4>3
    <3>3. CASE again.kind # "error" /\ before.kind # "segment"
      <4>1. Took(r, f) = [r EXCEPT !.seg = again.s, !.init = None]
        BY <3>3, <2>4, <1>4
      <4>2. Stays([r EXCEPT !.seg = again.s, !.init = None])
        BY <1>2
      <4> QED
        BY <4>1, <4>2
    <3> QED
      BY <3>1, <3>2, <3>3
  <2> QED
    BY <1>3, <2>1, <2>2, <2>3, <2>4
<1> QED
  BY <1>6 DEF Stays

\* A stream describes itself as what it is, or not at all.
LEMMA ParametersOfOne ==
    ASSUME NEW s, NEW cfg, Told(s, cfg)
    PROVE  Parameters(s) = None \/ Parameters(s).cfg = Cfg(cfg)
<1>1. CASE None \in {state[s].avcc, state[s].codec, state[s].size}
  BY <1>1 DEF Parameters
<1>2. CASE None \notin {state[s].avcc, state[s].codec, state[s].size}
  <2>1. Parameters(s) = [cfg |-> Cfg(state[s]), frame |-> None, sound |-> TRUE]
    BY <1>2 DEF Parameters
  <2>2. state[s].avcc = cfg.avcc /\ state[s].codec = cfg.codec /\ state[s].size = cfg.size
    BY <1>2 DEF Told
  <2> QED
    BY <2>1, <2>2 DEF Cfg
<1> QED
  BY <1>1, <1>2

LEMMA NextFrameHolds == ASSUME PushInv, NextFrame PROVE PushInv'
<1> DEFINE r == [reader EXCEPT !.queue = Tail(@), !.lagged = FALSE]
           f == Head(reader.queue)
<1>1. UNCHANGED <<allowed, streams, state, conn, sent, changes, crowded>>
      /\ reader.at = "reading" /\ reader.queue # <<>> /\ reader' = Took(r, f)
  BY DEF NextFrame
<1>2. /\ IsReader(r) /\ r.at = reader.at /\ r.key = reader.key /\ r.stream = reader.stream
      /\ r.queue = Tail(reader.queue) /\ r.seg = reader.seg /\ r.init = reader.init /\ r.kept = reader.kept
  BY DEF PushInv, PushKinds, IsReader
<1> HIDE DEF r
<1>3. IsReader(reader')
      /\ (reader' = NoReader
          \/ (reader'.at = reader.at /\ reader'.key = reader.key /\ reader'.stream = reader.stream))
  BY <1>1, <1>2, TookStays
<1>4. ASSUME NEW s \in DOMAIN state, NEW cfg \in PushedConfigs, OfOne(s, cfg), reader.stream = s
      PROVE  reader' = NoReader \/ ReaderOf(reader', Cfg(cfg))
  <2> DEFINE x == Cfg(cfg)
  <2>1. ReaderOf(reader, x)
    BY <1>4 DEF OfOne, HeardAlike
  <2>2. f \in FramesOf(x) /\ Tail(reader.queue) \in Seq(FramesOf(x))
    <3>1. reader.queue \in Seq(FramesOf(x))
      BY <2>1 DEF ReaderOf
    <3> QED
      BY <3>1, <1>1
  <2>3. ReaderOf(r, x)
    BY <2>1, <2>2, <1>2 DEF ReaderOf
  <2>4. Parameters(r.stream) = None \/ Parameters(r.stream).cfg = x
    BY <1>2, <1>4, ParametersOfOne DEF OfOne
  <2> HIDE DEF x, f
  <2>5. TookOf(r, Took(r, f), x)
    BY <1>2, <2>2, <2>3, <2>4, TookOfOne
  <2> QED
    BY <2>5, <1>1 DEF TookOf, x
<1>5. ReaderMoves
  <2>1. ASSUME NEW s \in DOMAIN state, NEW cfg \in PushedConfigs, OfOne(s, cfg), reader'.stream = s
        PROVE  ReaderOf(reader', Cfg(cfg))
    <3>1. s # None
      BY PushAssumption DEF PushInv, PushKinds
    <3>2. reader' # NoReader
      BY <3>1, <2>1, NoReaderIs
    <3>3. reader.stream = s
      BY <3>2, <2>1, <1>3
    <3> QED
      BY <3>2, <3>3, <2>1, <1>4
  <2> QED
    BY <2>1, <1>3, NoReaderIs DEF PushInv, StreamsLinked, ReaderMoves
<1>6. SteadyDecodes'
  <2> SUFFICES ASSUME reader'.key \notin crowded, changes = 0, reader'.kept # None
               PROVE  reader'.kept.cfgs = {reader'.kept.init}
    BY <1>1 DEF SteadyDecodes, Decodes
  <2>1. reader' # NoReader
    BY NoReaderIs
  <2>2. reader.stream \in DOMAIN state /\ state[reader.stream].key = reader.key /\ reader'.key = reader.key
    BY <2>1, <1>1, <1>3 DEF PushInv, StreamsLinked
  <2>3. PICK cfg \in PushedConfigs : OfOne(reader.stream, cfg)
    BY <2>2 DEF PushInv, AllSteady, Steady
  <2>4. ReaderOf(reader', Cfg(cfg))
    BY <2>1, <2>2, <2>3, <1>4
  <2> QED
    BY <2>4 DEF ReaderOf, KeptOf
<1> QED
  BY <1>1, <1>5, <1>6, ReaderHolds

LEMMA SourceEndsHolds == ASSUME PushInv, SourceEnds PROVE PushInv'
<1> DEFINE ended == Flush(reader.seg).segment
           k == Kept(reader, ended, reader.seg.entry)
<1>1. UNCHANGED <<allowed, streams, state, conn, sent, changes, crowded>> /\ reader.at = "reading"
      /\ reader' = IF reader.seg.pending = <<>> THEN NoReader
                   ELSE [NoReader EXCEPT !.key = reader.key, !.kept = k.kept]
  BY DEF SourceEnds
<1>2. CASE reader.seg.pending = <<>>
  <2>1. reader' = NoReader
    BY <1>1, <1>2
  <2>2. ReaderMoves
    BY <2>1, NoReaderIs, PushAssumption DEF ReaderMoves, PushInv, PushKinds
  <2>3. SteadyDecodes'
    BY <2>1, NoReaderIs DEF SteadyDecodes, Decodes
  <2> QED
    BY <1>1, <2>2, <2>3, ReaderHolds
<1>3. CASE reader.seg.pending # <<>>
  <2>1. reader' = [NoReader EXCEPT !.key = reader.key, !.kept = k.kept]
    BY <1>1, <1>3
  <2>2. IsReader(reader') /\ reader'.at = "none" /\ reader'.key = reader.key /\ reader'.stream = None
        /\ reader'.kept = k.kept
    <3> HIDE DEF k
    <3> QED
      BY <2>1 DEF NoReader, IsReader
  <2>3. ReaderMoves
    BY <2>2, PushAssumption DEF ReaderMoves, PushInv, PushKinds
  <2>4. SteadyDecodes'
    <3> SUFFICES ASSUME reader.key \notin crowded, changes = 0, k.kept # None
                 PROVE  k.kept.cfgs = {k.kept.init}
      BY <1>1, <2>2 DEF SteadyDecodes, Decodes
    <3>1. reader.stream \in DOMAIN state /\ state[reader.stream].key = reader.key
      BY <1>1 DEF PushInv, StreamsLinked
    <3>2. PICK cfg \in PushedConfigs : OfOne(reader.stream, cfg)
      BY <3>1 DEF PushInv, AllSteady, Steady
    <3> DEFINE x == Cfg(cfg)
    <3>3. ReaderOf(reader, x) /\ IsReader(reader)
      BY <3>2 DEF OfOne, HeardAlike, PushInv, PushKinds
    <3>4. ended.frames = reader.seg.pending
      BY <1>3 DEF Flush, Pushed, Close
    <3>5. reader.seg.entry = x /\ ended.frames \in Seq(FramesOf(x)) /\ ended.frames # <<>>
      BY <1>3, <3>3, <3>4 DEF ReaderOf, SegmenterOf, FramesOf
    <3>6. k = Kept(reader, ended, x)
      BY <3>5
    <3> HIDE DEF x, ended, k
    <3>7. ReaderOf(k, x)
      BY <3>3, <3>5, <3>6, KeptOfOne
    <3> QED
      BY <3>7 DEF ReaderOf, KeptOf
  <2> QED
    BY <1>1, <2>3, <2>4, ReaderHolds
<1> QED
  BY <1>2, <1>3

LEMMA PushStep == PushInv /\ [PushNext]_pushVars => PushInv'
<1> SUFFICES ASSUME PushInv, [PushNext]_pushVars PROVE PushInv'
  OBVIOUS
<1>1. ASSUME NEW c \in Conns, NEW k \in Keys, RtmpPublish(c, k) PROVE PushInv'
  <2>1. OpenStream(c, k, SetAs[c]) /\ UNCHANGED <<allowed, reader, sent, changes>> /\ conn[c].at # "publishing"
    BY <1>1 DEF RtmpPublish
  <2>2. SetAs[c] \in PushedConfigs
    BY PushAssumption DEF Conns
  <2> QED
    BY <2>1, <2>2, OpenHolds
<1>2. ASSUME NEW c \in Conns, SrtOpen(c) PROVE PushInv'
  <2>1. OpenStream(c, conn[c].key, conn[c].cfg) /\ UNCHANGED <<allowed, reader, sent, changes>>
        /\ conn[c].at = "accepting"
    BY <1>2 DEF SrtOpen
  <2>2. conn[c].key \in Keys /\ conn[c].cfg \in PushedConfigs
    BY <2>1 DEF PushInv, StreamsLinked
  <2> QED
    BY <2>1, <2>2, OpenHolds
<1>3. ASSUME NEW c \in Conns, Publisher(c) PROVE PushInv'
  BY <1>1, <1>2, <1>3, SrtAdmitHolds, RtmpMetadataTells, RtmpParametersTells, SrtNeverConnectsHolds,
     RtmpFrameTells, SrtFrameTells, ReconfigureHolds, LeavesHolds DEF Publisher
<1>4. CASE Consumer
  BY <1>4, SubscribeHolds, NextFrameHolds, SourceEndsHolds DEF Consumer
<1>5. CASE UNCHANGED pushVars
  <2>1. UNCHANGED <<allowed, streams, state, conn, reader, sent, changes, crowded>>
    BY <1>5 DEF pushVars
  <2>2. ReaderMoves
    BY <2>1 DEF ReaderMoves, PushInv, PushKinds, StreamsLinked, OfOne, HeardAlike
  <2>3. SteadyDecodes'
    BY <2>1 DEF PushInv, SteadyDecodes, Decodes
  <2> QED
    BY <2>1, <2>2, <2>3, ReaderHolds
<1> QED
  BY <1>3, <1>4, <1>5, AllowHolds DEF PushNext

-----------------------------------------------------------------------------
(* RelayProbe: whether a relay answers over UDP.                          *)

ProbeKinds ==
    /\ udpOut \in BOOLEAN /\ probeClock \in Nat
    /\ probing \in [Asking -> {"idle", "resolving", "probing", "told"}]
    /\ sends \in [Asking -> 0 .. MaxSends] /\ lost \in [Asking -> 0 .. MaxSends]
    /\ coming \in [Asking -> BOOLEAN] /\ began \in [Asking -> 0 .. probeClock]
    /\ DOMAIN told = Asking
    /\ openAt \subseteq 0 .. probeClock /\ shutAt \subseteq 0 .. probeClock

\* What the site is like now is on record.
NowIsNoted == (udpOut => probeClock \in openAt) /\ (~udpOut => probeClock \in shutAt)

\* A lookup or a probe is over before its second tick.
ProbesAreShort == \A s \in Asking : probing[s] \in {"resolving", "probing"} => probeClock <= began[s] + 1

NothingSentYet ==
    \A s \in Asking : probing[s] \in {"idle", "resolving"} => sends[s] = 0 /\ ~coming[s] /\ lost[s] = 0

\* An answer on its way is of a request that got out during the probe; a request that is
\* neither lost nor to be answered did not get out.
Borne(s, times) == \E t \in times : t >= began[s]
AnswersAreBorne == \A s \in Asking : probing[s] = "probing" /\ coming[s] => Borne(s, openAt)
SilenceIsBorne ==
    \A s \in Asking : probing[s] = "probing" =>
        lost[s] <= sends[s] /\ (~coming[s] /\ lost[s] < sends[s] => Borne(s, shutAt))

\* A verdict is no older than a probe when it is made.
Evidence(reachable) == IF reachable THEN openAt ELSE shutAt
Fresh(v, age) == v.at \in 0 .. probeClock /\ \E t \in Evidence(v.reachable) : v.at - t \in 0 .. age
VerdictIsFresh == verdict = NoVerdict \/ Fresh(verdict, 1)
ToldIsFair == \A s \in Asking : probing[s] = "told" => Fresh(told[s], VerdictTtl)

ProbeInv ==
    /\ ProbeKinds /\ NowIsNoted /\ ProbesAreShort /\ NothingSentYet /\ AnswersAreBorne
    /\ SilenceIsBorne /\ VerdictIsFresh /\ ToldIsFair

LEMMA ProbeBegins == ProbeInit => ProbeInv
<1> SUFFICES ASSUME ProbeInit PROVE ProbeInv
  OBVIOUS
<1>1. ProbeKinds
  <2>1. coming \in [Asking -> BOOLEAN]
    BY Zenon DEF ProbeInit
  <2> QED
    BY <2>1 DEF ProbeInit, ProbeKinds, MaxSends
<1>2. NowIsNoted
  BY DEF ProbeInit, NowIsNoted
<1>3. ProbesAreShort /\ AnswersAreBorne /\ SilenceIsBorne /\ ToldIsFair /\ VerdictIsFresh
  BY DEF ProbeInit, ProbesAreShort, AnswersAreBorne, SilenceIsBorne, ToldIsFair, VerdictIsFresh
<1>4. NothingSentYet
  BY DEF ProbeInit, NothingSentYet
<1> QED
  BY <1>1, <1>2, <1>3, <1>4 DEF ProbeInv

\* Time goes on and what is on record stays there.
Onward ==
    /\ probeClock' \in Nat /\ probeClock <= probeClock'
    /\ openAt \subseteq openAt' /\ shutAt \subseteq shutAt'
    /\ openAt' \subseteq 0 .. probeClock' /\ shutAt' \subseteq 0 .. probeClock'

LEMMA FreshStays ==
    ASSUME ProbeKinds, Onward, NEW v, NEW age, Fresh(v, age) PROVE Fresh(v, age)'
  BY DEF Onward, ProbeKinds, Fresh, Evidence

LEMMA BorneStays ==
    ASSUME Onward, NEW s \in Asking, began'[s] = began[s]
    PROVE  (Borne(s, openAt) => Borne(s, openAt)') /\ (Borne(s, shutAt) => Borne(s, shutAt)')
  BY DEF Onward, Borne

\* The site changes, or time goes by.
LEMMA SiteHolds ==
    ASSUME ProbeInv, udpOut' \in BOOLEAN, UNCHANGED <<verdict, asks>>, probeClock' \in {probeClock, probeClock + 1},
           Noted(udpOut', probeClock'),
           probeClock' # probeClock =>
              \A s \in Asking : probing[s] \in {"resolving", "probing"} => began[s] = probeClock
    PROVE  ProbeInv'
<1>0. UNCHANGED <<verdict, probing, sends, coming, lost, began, told>>
  BY DEF asks
<1>1. Onward /\ NowIsNoted'
  BY DEF ProbeInv, ProbeKinds, Noted, Onward, NowIsNoted
<1>2. ProbeKinds'
  <2>1. probeClock \in Nat /\ probeClock' \in Nat /\ probeClock <= probeClock'
    BY DEF ProbeInv, ProbeKinds
  <2>2. 0 .. probeClock \subseteq 0 .. probeClock'
    BY <2>1
  <2> QED
    BY <1>0, <1>1, <2>1, <2>2 DEF ProbeInv, ProbeKinds, Onward
<1>3. ProbesAreShort'
  BY <1>0 DEF ProbeInv, ProbeKinds, ProbesAreShort
<1>4. NothingSentYet'
  BY <1>0 DEF ProbeInv, NothingSentYet
<1>5. AnswersAreBorne' /\ SilenceIsBorne'
  BY <1>0, <1>1, BorneStays DEF ProbeInv, AnswersAreBorne, SilenceIsBorne
<1>6. VerdictIsFresh' /\ ToldIsFair'
  BY <1>0, <1>1, FreshStays DEF ProbeInv, VerdictIsFresh, ToldIsFair
<1> QED
  BY <1>1, <1>2, <1>3, <1>4, <1>5, <1>6 DEF ProbeInv

\* One session takes a step, and the others stay where they are.
OneSteps(s) ==
    /\ \A r \in Asking : r # s => /\ probing'[r] = probing[r] /\ sends'[r] = sends[r] /\ coming'[r] = coming[r]
                                  /\ lost'[r] = lost[r] /\ began'[r] = began[r] /\ told'[r] = told[r]
    /\ UNCHANGED <<udpOut, probeClock>> /\ openAt' = openAt /\ shutAt \subseteq shutAt'
    /\ ProbeKinds'

ItsOwn(s) ==
    /\ probing[s] \in {"resolving", "probing"} => probeClock <= began[s] + 1
    /\ probing[s] \in {"idle", "resolving"} => sends[s] = 0 /\ ~coming[s] /\ lost[s] = 0
    /\ probing[s] = "probing" /\ coming[s] => Borne(s, openAt)
    /\ probing[s] = "probing" => lost[s] <= sends[s] /\ (~coming[s] /\ lost[s] < sends[s] => Borne(s, shutAt))
    /\ probing[s] = "told" => Fresh(told[s], VerdictTtl)

LEMMA InvIsOwn == ProbeInv => \A s \in Asking : ItsOwn(s)
  BY DEF ProbeInv, ItsOwn, ProbesAreShort, NothingSentYet, AnswersAreBorne, SilenceIsBorne, ToldIsFair

LEMMA OneStepHolds ==
    ASSUME ProbeInv, NEW s \in Asking, OneSteps(s), VerdictIsFresh', ItsOwn(s)'
    PROVE  ProbeInv'
<1>1. Onward
  BY DEF ProbeInv, ProbeKinds, OneSteps, Onward
<1>2. ProbeKinds' /\ NowIsNoted'
  BY DEF ProbeInv, OneSteps, NowIsNoted
<1>3. ASSUME NEW r \in Asking, r # s PROVE ItsOwn(r)'
  <2>1. /\ probing'[r] = probing[r] /\ sends'[r] = sends[r] /\ coming'[r] = coming[r]
        /\ lost'[r] = lost[r] /\ began'[r] = began[r] /\ told'[r] = told[r] /\ probeClock' = probeClock
    BY <1>3 DEF OneSteps
  <2>2. ItsOwn(r)
    BY InvIsOwn
  <2>3. (Borne(r, openAt) => Borne(r, openAt)') /\ (Borne(r, shutAt) => Borne(r, shutAt)')
    BY <1>1, <2>1, BorneStays
  <2>4. Fresh(told[r], VerdictTtl) => Fresh(told[r], VerdictTtl)'
    <3> SUFFICES ASSUME Fresh(told[r], VerdictTtl) PROVE Fresh(told[r], VerdictTtl)'
      OBVIOUS
    <3> DEFINE v == told[r]
    <3>1. v' = v
      BY <2>1
    <3>2. PICK t \in Evidence(v.reachable) : v.at - t \in 0 .. VerdictTtl
      BY DEF Fresh
    <3>3. v.at \in 0 .. probeClock
      BY DEF Fresh
    <3> HIDE DEF v
    <3>4. Evidence(v.reachable) \subseteq Evidence(v.reachable)'
      BY <1>1, <3>1 DEF Evidence, Onward
    <3>5. Fresh(v, VerdictTtl)'
      BY <2>1, <3>1, <3>2, <3>3, <3>4 DEF Fresh
    <3> QED
      BY <3>5 DEF v
  <2> QED
    BY <2>1, <2>2, <2>3, <2>4 DEF ItsOwn
<1>4. ProbesAreShort' /\ NothingSentYet' /\ AnswersAreBorne' /\ SilenceIsBorne' /\ ToldIsFair'
  <2>1. \A r \in Asking : ItsOwn(r)'
    BY <1>3
  <2> QED
    BY <2>1 DEF ItsOwn, ProbesAreShort, NothingSentYet, AnswersAreBorne, SilenceIsBorne, ToldIsFair
<1> QED
  BY <1>2, <1>4 DEF ProbeInv

-----------------------------------------------------------------------------
LEMMA FirewallHolds == ProbeInv /\ FirewallChanges => ProbeInv'
<1> SUFFICES ASSUME ProbeInv, FirewallChanges PROVE ProbeInv'
  OBVIOUS
<1>1. udpOut' \in BOOLEAN
  BY DEF FirewallChanges, ProbeInv, ProbeKinds
<1>2. /\ UNCHANGED <<verdict, asks>> /\ probeClock' \in {probeClock, probeClock + 1}
      /\ Noted(udpOut', probeClock') /\ probeClock' = probeClock
  BY DEF FirewallChanges
<1> QED
  BY <1>1, <1>2, SiteHolds

LEMMA TickHolds == ProbeInv /\ ProbeTicks => ProbeInv'
<1> SUFFICES ASSUME ProbeInv, ProbeTicks PROVE ProbeInv'
  OBVIOUS
<1>1. udpOut' \in BOOLEAN /\ udpOut' = udpOut
  BY DEF ProbeTicks, site, ProbeInv, ProbeKinds
<1>2. /\ UNCHANGED <<verdict, asks>> /\ probeClock' \in {probeClock, probeClock + 1}
      /\ Noted(udpOut', probeClock')
      /\ \A s \in Asking : probing[s] \in {"resolving", "probing"} => began[s] = probeClock
  BY <1>1 DEF ProbeTicks
<1> QED
  BY <1>1, <1>2, SiteHolds

LEMMA CacheHolds ==
    ASSUME ProbeInv, NEW s \in Asking, ToldFromCache(s) PROVE ProbeInv'
<1>1. /\ OneSteps(s) /\ probing'[s] = "told" /\ openAt' = openAt /\ shutAt' = shutAt
      /\ told'[s] = [reachable |-> verdict.reachable, at |-> probeClock]
  BY DEF ToldFromCache, ProbeInv, ProbeKinds, OneSteps, site, seenOfSite
<1>2. Fresh(verdict, 1) /\ probeClock - verdict.at < VerdictTtl /\ probeClock \in Nat /\ verdict' = verdict
      /\ probeClock' = probeClock
  BY DEF ToldFromCache, ProbeInv, ProbeKinds, Standing, VerdictIsFresh
<1>3. VerdictIsFresh'
  BY <1>1, <1>2 DEF VerdictIsFresh, Fresh, Evidence
<1>4. PICK t \in Evidence(verdict.reachable) : verdict.at - t \in 0 .. 1
  BY <1>2 DEF Fresh
<1>5. t \in 0 .. probeClock /\ verdict.at \in 0 .. probeClock
  BY <1>2, <1>4 DEF Fresh, Evidence, ProbeInv, ProbeKinds
<1>6. probeClock - t \in 0 .. VerdictTtl
  BY <1>2, <1>4, <1>5, ProbeAssumption
<1>7. Fresh(told[s], VerdictTtl)'
  BY <1>1, <1>2, <1>4, <1>6 DEF Fresh, Evidence
<1>8. ItsOwn(s)'
  BY <1>1, <1>7 DEF ItsOwn
<1> QED
  BY <1>1, <1>3, <1>8, OneStepHolds

\* A lookup, or a probe after it, begins with nothing sent.
LEMMA EntersHolds ==
    ASSUME ProbeInv, NEW s \in Asking, NEW step \in {"resolving", "probing"}, Enters(s, step),
           probing[s] \in {"idle", "resolving"}
    PROVE  ProbeInv'
<1>1. /\ OneSteps(s) /\ probing'[s] = step /\ began'[s] = probeClock /\ probeClock' = probeClock
      /\ openAt' = openAt /\ shutAt' = shutAt /\ verdict' = verdict
      /\ sends' = sends /\ coming' = coming /\ lost' = lost
  BY DEF Enters, ProbeInv, ProbeKinds, OneSteps, site, seenOfSite
<1>2. VerdictIsFresh'
  BY <1>1 DEF VerdictIsFresh, Fresh, Evidence, ProbeInv
<1>3. ItsOwn(s)'
  BY <1>1 DEF ItsOwn, ProbeInv, ProbeKinds, NothingSentYet
<1> QED
  BY <1>1, <1>2, <1>3, OneStepHolds

\* A request that gets out is answered or lost; one that does not is on the site's record.
LEMMA SendHolds ==
    ASSUME ProbeInv, NEW s \in Asking, SendsRequest(s) PROVE ProbeInv'
<1>0. /\ probing[s] = "probing" /\ sends[s] \in 0 .. MaxSends - 1 /\ lost[s] \in 0 .. sends[s]
      /\ coming[s] \in BOOLEAN
      /\ probeClock \in Nat /\ probeClock <= began[s] + 1 /\ began[s] \in 0 .. probeClock
  BY DEF SendsRequest, ProbeInv, ProbeKinds, SilenceIsBorne, ProbesAreShort, MaxSends
<1>1. /\ probing' = probing /\ began' = began /\ told' = told /\ verdict' = verdict /\ udpOut' = udpOut
      /\ openAt' = openAt /\ shutAt' = shutAt /\ probeClock' = probeClock
      /\ sends' = [sends EXCEPT ![s] = @ + 1]
  BY DEF SendsRequest, site, seenOfSite
<1>2. \/ coming' = [coming EXCEPT ![s] = @ \/ udpOut] /\ lost' = lost
      \/ udpOut /\ lost' = [lost EXCEPT ![s] = @ + 1] /\ coming' = coming
  BY DEF SendsRequest
<1>3. coming' \in [Asking -> BOOLEAN]
  BY <1>2, Zenon DEF ProbeInv, ProbeKinds
<1>4. lost' \in [Asking -> 0 .. MaxSends] /\ sends' \in [Asking -> 0 .. MaxSends]
  BY <1>0, <1>1, <1>2 DEF ProbeInv, ProbeKinds, MaxSends
<1>5. ProbeKinds'
  BY <1>1, <1>3, <1>4 DEF ProbeInv, ProbeKinds
<1>6. \A r \in Asking : r # s => sends'[r] = sends[r] /\ coming'[r] = coming[r] /\ lost'[r] = lost[r]
  BY <1>1, <1>2 DEF ProbeInv, ProbeKinds
<1>7. OneSteps(s)
  BY <1>1, <1>5, <1>6 DEF OneSteps
<1>8. VerdictIsFresh'
  BY <1>1 DEF VerdictIsFresh, Fresh, Evidence, ProbeInv
<1>9. /\ sends'[s] = sends[s] + 1
      /\ \/ coming'[s] = (coming[s] \/ udpOut) /\ lost'[s] = lost[s]
         \/ udpOut /\ lost'[s] = lost[s] + 1 /\ coming'[s] = coming[s]
  BY <1>1, <1>2 DEF ProbeInv, ProbeKinds
<1>10. /\ (udpOut => Borne(s, openAt)) /\ (~udpOut => Borne(s, shutAt))
       /\ (coming[s] => Borne(s, openAt))
       /\ (~coming[s] /\ lost[s] < sends[s] => Borne(s, shutAt))
  BY <1>0 DEF Borne, ProbeInv, NowIsNoted, AnswersAreBorne, SilenceIsBorne
<1>11. Borne(s, openAt)' = Borne(s, openAt) /\ Borne(s, shutAt)' = Borne(s, shutAt)
  BY <1>1 DEF Borne
<1>12. coming'[s] => Borne(s, openAt)'
  BY <1>9, <1>10, <1>11
<1>13. lost'[s] <= sends'[s] /\ (~coming'[s] /\ lost'[s] < sends'[s] => Borne(s, shutAt)')
  <2>1. CASE coming'[s] = (coming[s] \/ udpOut) /\ lost'[s] = lost[s]
    <3>1. lost'[s] <= sends'[s]
      BY <1>0, <1>9, <2>1
    <3>2. ~coming'[s] => ~udpOut
      BY <2>1
    <3> QED
      BY <1>10, <1>11, <3>1, <3>2
  <2>2. CASE udpOut /\ lost'[s] = lost[s] + 1 /\ coming'[s] = coming[s]
    BY <1>0, <1>9, <1>10, <1>11, <2>2
  <2> QED
    BY <1>9, <2>1, <2>2
<1>14. ItsOwn(s)'
  BY <1>0, <1>1, <1>12, <1>13 DEF ItsOwn
<1> QED
  BY <1>7, <1>8, <1>14, OneStepHolds

\* The requests that were never sent count as lost.
LEMMA StopHolds ==
    ASSUME ProbeInv, NEW s \in Asking, ResendsStop(s) PROVE ProbeInv'
<1>0. /\ probing[s] = "probing" /\ sends[s] \in 1 .. MaxSends - 1 /\ lost[s] \in 0 .. sends[s]
      /\ probeClock \in Nat /\ probeClock <= began[s] + 1
      /\ (coming[s] => Borne(s, openAt))
      /\ (~coming[s] /\ lost[s] < sends[s] => Borne(s, shutAt))
  BY DEF ResendsStop, ProbeInv, ProbeKinds, SilenceIsBorne, ProbesAreShort, AnswersAreBorne, MaxSends
<1>1. /\ probing' = probing /\ began' = began /\ told' = told /\ verdict' = verdict /\ udpOut' = udpOut
      /\ openAt' = openAt /\ shutAt' = shutAt /\ probeClock' = probeClock /\ coming' = coming
      /\ sends' = [sends EXCEPT ![s] = MaxSends] /\ lost' = [lost EXCEPT ![s] = @ + MaxSends - sends[s]]
  BY DEF ResendsStop, site, seenOfSite
<1>2. lost' \in [Asking -> 0 .. MaxSends] /\ sends' \in [Asking -> 0 .. MaxSends]
  BY <1>0, <1>1 DEF ProbeInv, ProbeKinds, MaxSends
<1>3. OneSteps(s)
  BY <1>1, <1>2 DEF OneSteps, ProbeInv, ProbeKinds
<1>4. VerdictIsFresh'
  BY <1>1 DEF VerdictIsFresh, Fresh, Evidence, ProbeInv
<1>5. sends'[s] = MaxSends /\ lost'[s] = lost[s] + MaxSends - sends[s] /\ coming'[s] = coming[s]
  BY <1>1 DEF ProbeInv, ProbeKinds
<1>6. Borne(s, openAt)' = Borne(s, openAt) /\ Borne(s, shutAt)' = Borne(s, shutAt)
  BY <1>1 DEF Borne
<1>7. ItsOwn(s)'
  BY <1>0, <1>1, <1>5, <1>6 DEF ItsOwn, MaxSends
<1> QED
  BY <1>3, <1>4, <1>7, OneStepHolds

\* A verdict with evidence since the lookup or the probe began is good for its whole time.
LEMMA JudgesHolds ==
    ASSUME ProbeInv, NEW s \in Asking, NEW answers \in BOOLEAN, Judges(s, answers),
           probing[s] \in {"resolving", "probing"},
           shutAt \subseteq shutAt', shutAt' \subseteq shutAt \cup {probeClock},
           Borne(s, IF answers THEN openAt ELSE shutAt')
    PROVE  ProbeInv'
<1>0. /\ probeClock \in Nat /\ probeClock <= began[s] + 1 /\ began[s] \in 0 .. probeClock
      /\ openAt \subseteq 0 .. probeClock /\ shutAt \subseteq 0 .. probeClock
  BY DEF ProbeInv, ProbeKinds, ProbesAreShort
<1>1. /\ udpOut' = udpOut /\ sends' = sends /\ coming' = coming /\ lost' = lost /\ began' = began
      /\ probeClock' = probeClock /\ openAt' = openAt
      /\ verdict' = [reachable |-> answers, at |-> probeClock]
      /\ told' = [told EXCEPT ![s] = verdict'] /\ probing' = [probing EXCEPT ![s] = "told"]
  BY DEF Judges, site
<1>2. shutAt' \subseteq 0 .. probeClock
  BY <1>0
<1>3. ProbeKinds'
  BY <1>1, <1>2 DEF ProbeInv, ProbeKinds
<1>4. OneSteps(s) /\ probing'[s] = "told" /\ told'[s] = verdict'
  BY <1>1, <1>3 DEF OneSteps, ProbeInv, ProbeKinds
<1>5. PICK t \in (IF answers THEN openAt ELSE shutAt') : t >= began[s]
  BY DEF Borne
<1>6. t \in 0 .. probeClock /\ probeClock - t \in 0 .. 1 /\ probeClock - t \in 0 .. VerdictTtl
  BY <1>0, <1>2, <1>5, ProbeAssumption
<1>7. Fresh(verdict, 1)' /\ Fresh(verdict, VerdictTtl)'
  BY <1>0, <1>1, <1>5, <1>6 DEF Fresh, Evidence
<1>8. Fresh(told[s], VerdictTtl)'
  BY <1>4, <1>7 DEF Fresh, Evidence
<1>9. ItsOwn(s)'
  BY <1>4, <1>8 DEF ItsOwn
<1>10. VerdictIsFresh'
  BY <1>7 DEF VerdictIsFresh
<1> QED
  BY <1>4, <1>9, <1>10, OneStepHolds

LEMMA AnswersHolds ==
    ASSUME ProbeInv, NEW s \in Asking, Answers(s) PROVE ProbeInv'
<1>1. Judges(s, TRUE) /\ shutAt' = shutAt /\ probing[s] = "probing" /\ Borne(s, openAt)
  BY DEF Answers, ProbeInv, AnswersAreBorne
<1> QED
  BY <1>1, JudgesHolds

LEMMA NoAnswerHolds ==
    ASSUME ProbeInv, NEW s \in Asking, NoAnswer(s) PROVE ProbeInv'
<1>1. /\ Judges(s, FALSE) /\ probing[s] = "probing" /\ sends[s] = MaxSends /\ ~coming[s]
      /\ shutAt' = IF lost[s] = MaxSends THEN shutAt \cup {probeClock} ELSE shutAt
  BY DEF NoAnswer
<1>2. began[s] \in 0 .. probeClock /\ lost[s] \in 0 .. MaxSends /\ lost[s] <= sends[s] /\ probeClock \in Nat
      /\ (lost[s] < sends[s] => Borne(s, shutAt))
  BY <1>1 DEF ProbeInv, ProbeKinds, SilenceIsBorne
<1>3. Borne(s, shutAt')
  BY <1>1, <1>2 DEF Borne, MaxSends
<1> QED
  BY <1>1, <1>3, JudgesHolds

LEMMA NotSentHolds ==
    ASSUME ProbeInv, NEW s \in Asking, NotEvenSent(s) PROVE ProbeInv'
<1>1. /\ Judges(s, FALSE) /\ probing[s] \in {"resolving", "probing"}
      /\ shutAt' = shutAt \cup {probeClock}
  BY DEF NotEvenSent
<1>2. began[s] \in 0 .. probeClock /\ probeClock \in Nat
  BY DEF ProbeInv, ProbeKinds
<1>3. Borne(s, shutAt')
  BY <1>1, <1>2 DEF Borne
<1> QED
  BY <1>1, <1>3, JudgesHolds

LEMMA AgainHolds ==
    ASSUME ProbeInv, NEW s \in Asking, AsksAgain(s) PROVE ProbeInv'
<1>1. /\ udpOut' = udpOut /\ verdict' = verdict /\ probeClock' = probeClock
      /\ openAt' = openAt /\ shutAt' = shutAt
      /\ probing' = [probing EXCEPT ![s] = "idle"]
      /\ sends' = [sends EXCEPT ![s] = 0] /\ coming' = [coming EXCEPT ![s] = FALSE]
      /\ lost' = [lost EXCEPT ![s] = 0] /\ began' = [began EXCEPT ![s] = 0]
      /\ told' = [told EXCEPT ![s] = NoVerdict]
  BY DEF AsksAgain, site, seenOfSite
<1>2. coming' \in [Asking -> BOOLEAN] /\ coming'[s] = FALSE
  BY <1>1, Zenon DEF ProbeInv, ProbeKinds
<1>3. ProbeKinds'
  BY <1>1, <1>2 DEF ProbeInv, ProbeKinds, MaxSends
<1>4. OneSteps(s) /\ probing'[s] = "idle" /\ sends'[s] = 0 /\ lost'[s] = 0
  BY <1>1, <1>3 DEF OneSteps, ProbeInv, ProbeKinds
<1>5. VerdictIsFresh'
  BY <1>1 DEF VerdictIsFresh, Fresh, Evidence, ProbeInv
<1>6. ItsOwn(s)'
  BY <1>2, <1>4 DEF ItsOwn
<1> QED
  BY <1>4, <1>5, <1>6, OneStepHolds

LEMMA ProbeStands == ProbeInv /\ UNCHANGED probeVars => ProbeInv'
  BY DEF probeVars, asks, ProbeInv, ProbeKinds, NowIsNoted, ProbesAreShort, NothingSentYet,
     AnswersAreBorne, SilenceIsBorne, Borne, VerdictIsFresh, ToldIsFair, Fresh, Evidence

LEMMA ProbeStep == ProbeInv /\ [RelayProbeNext]_probeVars => ProbeInv'
<1> SUFFICES ASSUME ProbeInv, [RelayProbeNext]_probeVars PROVE ProbeInv'
  OBVIOUS
<1>1. CASE FirewallChanges
  BY <1>1, FirewallHolds
<1>2. CASE ProbeTicks
  BY <1>2, TickHolds
<1>3. ASSUME NEW s \in Asking, AskingNext(s) PROVE ProbeInv'
  <2>1. CASE ToldFromCache(s)
    BY <2>1, CacheHolds
  <2>2. CASE LooksUp(s) \/ Resolved(s)
    BY <2>2, EntersHolds DEF LooksUp, Resolved
  <2>3. CASE SendsRequest(s)
    BY <2>3, SendHolds
  <2>4. CASE ResendsStop(s)
    BY <2>4, StopHolds
  <2>5. CASE Answers(s)
    BY <2>5, AnswersHolds
  <2>6. CASE NoAnswer(s)
    BY <2>6, NoAnswerHolds
  <2>7. CASE NotEvenSent(s)
    BY <2>7, NotSentHolds
  <2>8. CASE AsksAgain(s)
    BY <2>8, AgainHolds
  <2> QED
    BY <1>3, <2>1, <2>2, <2>3, <2>4, <2>5, <2>6, <2>7, <2>8 DEF AskingNext
<1>4. CASE UNCHANGED probeVars
  BY <1>4, ProbeStands
<1> QED
  BY <1>1, <1>2, <1>3, <1>4 DEF RelayProbeNext

LEMMA ProbeIsFair == ProbeInv => VerdictIsFair
  BY DEF ProbeInv, ToldIsFair, VerdictIsFair, Fresh, Evidence

-----------------------------------------------------------------------------
(* TurnBridge: the plan, and one bridge.                                  *)

-----------------------------------------------------------------------------
(* framing.rs: what the recursive Split computes.                          *)

Runs == Seq(Units)

\* The first message of a sequence that has it whole, and what comes after it.
First(seq) == SubSeq(seq, 1, UnitLength(seq[1]))
Remains(seq) == SubSeq(seq, UnitLength(seq[1]) + 1, Len(seq))

LEMMA WholeIsSplit ==
    ASSUME NEW seq \in Runs, Whole(seq)
    PROVE  /\ UnitLength(seq[1]) \in 1 .. Len(seq)
           /\ First(seq) \in Runs
           /\ Remains(seq) \in Runs /\ Len(Remains(seq)) < Len(seq) /\ Len(Remains(seq)) \in Nat
<1>1. Len(seq) \in Nat \ {0} /\ \A i \in 1 .. Len(seq) : seq[i] \in Units
  BY EmptySeq, ElementOfSeq DEF Whole, Runs
<1>2. UnitLength(seq[1]) \in 1 .. Len(seq)
  BY <1>1 DEF Whole, Units, UnitLength
<1> DEFINE n == UnitLength(seq[1])
<1> HIDE DEF n
<1>3. n \in 1 .. Len(seq)
  BY <1>2 DEF n
<1>4. SubSeq(seq, 1, n) \in Seq(Units)
  BY <1>1, <1>3, SubSeqProperties
<1>5. SubSeq(seq, n + 1, Len(seq)) \in Seq(Units)
      /\ Len(SubSeq(seq, n + 1, Len(seq))) = IF n + 1 <= Len(seq) THEN Len(seq) - (n + 1) + 1 ELSE 0
  BY <1>1, <1>3, SubSeqProperties
<1>6. Len(SubSeq(seq, n + 1, Len(seq))) < Len(seq) /\ Len(SubSeq(seq, n + 1, Len(seq))) \in Nat
  BY <1>1, <1>3, <1>5
<1> QED
  BY <1>2, <1>4, <1>5, <1>6 DEF n, First, Remains, Runs

\* One step of the recursion, by what it gives for the rest.
OneMore(split, seq) ==
    IF ~Whole(seq) THEN [rest |-> seq, found |-> <<>>, ok |-> ~Broken(seq)]
    ELSE [split[Remains(seq)] EXCEPT !.found = <<First(seq)>> \o split[Remains(seq)].found]

Short(n) == {seq \in Runs : Len(seq) <= n}
Solves(split, n) == split = [seq \in Short(n) |-> OneMore(split, seq)]

LEMMA SolutionsAgree ==
    ASSUME NEW f, NEW m \in Nat, Solves(f, m), NEW g, NEW n \in Nat, Solves(g, n)
    PROVE  \A seq \in Short(m) \cap Short(n) : f[seq] = g[seq]
<1> DEFINE Differ == {k \in Nat : \E seq \in Short(m) \cap Short(n) : Len(seq) = k /\ f[seq] # g[seq]}
<1>1. Differ = {}
  <2> SUFFICES ASSUME Differ # {} PROVE FALSE
    OBVIOUS
  <2>1. PICK k \in Differ : \A l \in Differ : k <= l
    BY LeastNumber
  <2>2. PICK seq \in Short(m) \cap Short(n) : Len(seq) = k /\ f[seq] # g[seq]
    BY <2>1
  <2>3. f[seq] = OneMore(f, seq) /\ g[seq] = OneMore(g, seq)
    BY <2>2 DEF Solves
  <2>4. CASE ~Whole(seq)
    BY <2>2, <2>3, <2>4 DEF OneMore
  <2>5. CASE Whole(seq)
    <3>1. Remains(seq) \in Runs /\ Len(Remains(seq)) < Len(seq) /\ Len(Remains(seq)) \in Nat
      BY <2>2, <2>5, WholeIsSplit DEF Short
    <3>2. Remains(seq) \in Short(m) \cap Short(n)
      BY <2>2, <3>1 DEF Short
    <3>3. f[Remains(seq)] = g[Remains(seq)]
      BY <2>1, <2>2, <3>1, <3>2
    <3> QED
      BY <2>2, <2>3, <3>3 DEF OneMore
  <2> QED
    BY <2>4, <2>5
<1> QED
  <2> SUFFICES ASSUME NEW seq \in Short(m) \cap Short(n) PROVE f[seq] = g[seq]
    OBVIOUS
  <2>1. Len(seq) \in Nat
    BY LenProperties DEF Short, Runs
  <2> QED
    BY <1>1, <2>1

LEMMA SolutionsExist == \A n \in Nat : \E f : Solves(f, n)
<1> DEFINE Without == {n \in Nat : ~\E f : Solves(f, n)}
<1>1. Without = {}
  <2> SUFFICES ASSUME Without # {} PROVE FALSE
    OBVIOUS
  <2>1. PICK n \in Without : \A m \in Without : n <= m
    BY LeastNumber
  <2>2. CASE n = 0
    <3> DEFINE f == [seq \in Short(0) |-> OneMore(<<>>, seq)]
    <3>1. \A seq \in Short(0) : ~Whole(seq)
      <4> SUFFICES ASSUME NEW seq \in Short(0), Whole(seq) PROVE FALSE
        OBVIOUS
      <4>1. UnitLength(seq[1]) \in 1 .. Len(seq) /\ Len(seq) <= 0 /\ Len(seq) \in Nat
        BY WholeIsSplit, LenProperties DEF Short, Runs
      <4> QED
        BY <4>1
    <3>2. f = [seq \in Short(0) |-> OneMore(f, seq)]
      BY <3>1 DEF OneMore
    <3> QED
      BY <2>1, <2>2, <3>2 DEF Solves
  <2>3. CASE n # 0
    <3>1. n - 1 \in Nat /\ n - 1 \notin Without
      BY <2>1, <2>3
    <3>2. PICK g : Solves(g, n - 1)
      BY <3>1
    <3> DEFINE f == [seq \in Short(n) |-> OneMore(g, seq)]
    <3>3. \A seq \in Short(n) : OneMore(f, seq) = OneMore(g, seq)
      <4> HIDE DEF f
      <4> SUFFICES ASSUME NEW seq \in Short(n), Whole(seq) PROVE f[Remains(seq)] = g[Remains(seq)]
        BY DEF OneMore
      <4>1. Remains(seq) \in Runs /\ Len(Remains(seq)) < Len(seq) /\ Len(Remains(seq)) \in Nat
            /\ Len(seq) \in Nat /\ Len(seq) <= n
        BY WholeIsSplit, LenProperties DEF Short, Runs
      <4>2. Remains(seq) \in Short(n) /\ Remains(seq) \in Short(n - 1)
        BY <3>1, <4>1 DEF Short
      <4>3. g[Remains(seq)] = OneMore(g, Remains(seq))
        BY <3>2, <4>2 DEF Solves
      <4> QED
        BY <4>2, <4>3 DEF f
    <3>4. f = [seq \in Short(n) |-> OneMore(f, seq)]
      BY <3>3
    <3> QED
      BY <2>1, <3>4 DEF Solves
  <2> QED
    BY <2>2, <2>3
<1> QED
  BY <1>1

\* The recursion of Split has a solution, and Split is one.
LEMMA SplitRecurs == \A seq \in Runs : Split[seq] = OneMore(Split, seq)
<1> DEFINE Of(n) == CHOOSE f : Solves(f, n)
           whole == [seq \in Runs |-> Of(Len(seq))[seq]]
<1>1. \A n \in Nat : Solves(Of(n), n)
  BY SolutionsExist
<1> HIDE DEF Of
<1>2. \A seq \in Runs : Len(seq) \in Nat
  BY LenProperties DEF Runs
<1>3. \A seq \in Runs : whole[seq] = OneMore(whole, seq)
  <2> SUFFICES ASSUME NEW seq \in Runs PROVE Of(Len(seq))[seq] = OneMore(whole, seq)
    OBVIOUS
  <2>1. Of(Len(seq))[seq] = OneMore(Of(Len(seq)), seq)
    <3>1. seq \in Short(Len(seq)) /\ Len(seq) \in Nat
      BY <1>2 DEF Short
    <3>2. Solves(Of(Len(seq)), Len(seq))
      BY <1>1, <3>1
    <3> DEFINE f == Of(Len(seq))
    <3>3. f = [u \in Short(Len(seq)) |-> OneMore(f, u)]
      BY <3>2 DEF Solves
    <3> HIDE DEF f
    <3>4. f[seq] = OneMore(f, seq)
      BY <3>1, <3>3
    <3> QED
      BY <3>4 DEF f
  <2>2. ASSUME Whole(seq) PROVE whole[Remains(seq)] = Of(Len(seq))[Remains(seq)]
    <3>1. Remains(seq) \in Runs /\ Len(Remains(seq)) < Len(seq) /\ Len(Remains(seq)) \in Nat
      BY <2>2, WholeIsSplit
    <3>2. Remains(seq) \in Short(Len(seq)) \cap Short(Len(Remains(seq)))
      BY <1>2, <3>1 DEF Short
    <3> QED
      BY <1>1, <1>2, <3>1, <3>2, SolutionsAgree
  <2> QED
    BY <2>1, <2>2 DEF OneMore
<1>4. whole = [seq \in Runs |-> OneMore(whole, seq)]
  BY <1>3
<1> HIDE DEF whole
<1>5. \E f : f = [seq \in Runs |-> OneMore(f, seq)]
  BY <1>4
<1>6. Split = CHOOSE f : f = [seq \in Runs |-> OneMore(f, seq)]
  BY Zenon DEF Split, OneMore, First, Remains, Runs
<1>7. Split = [seq \in Runs |-> OneMore(Split, seq)]
  BY <1>5, <1>6
<1> QED
  BY <1>7

Findings == [rest : Runs, found : Seq(Runs), ok : BOOLEAN]

\* What a sequence is split into: whole messages, and the rest.
LEMMA SplitTyped == \A seq \in Runs : Split[seq] \in Findings
<1> DEFINE Wrong == {k \in Nat : \E seq \in Runs : Len(seq) = k /\ Split[seq] \notin Findings}
<1>1. Wrong = {}
  <2> SUFFICES ASSUME Wrong # {} PROVE FALSE
    OBVIOUS
  <2>1. PICK k \in Wrong : \A l \in Wrong : k <= l
    BY LeastNumber
  <2>2. PICK seq \in Runs : Len(seq) = k /\ Split[seq] \notin Findings
    BY <2>1
  <2>3. Split[seq] = OneMore(Split, seq)
    BY SplitRecurs
  <2>4. CASE ~Whole(seq)
    <3>1. [rest |-> seq, found |-> <<>>, ok |-> ~Broken(seq)] \in Findings
      <4>1. <<>> \in Seq(Runs)
        BY EmptySeq
      <4>2. (~Broken(seq)) \in BOOLEAN
        BY DEF Broken
      <4> QED
        BY <2>2, <4>1, <4>2, Zenon DEF Findings
    <3> QED
      BY <2>2, <2>3, <2>4, <3>1 DEF OneMore
  <2>5. CASE Whole(seq)
    <3>1. Remains(seq) \in Runs /\ Len(Remains(seq)) < Len(seq) /\ Len(Remains(seq)) \in Nat
          /\ First(seq) \in Runs
      BY <2>2, <2>5, WholeIsSplit
    <3> DEFINE after == Split[Remains(seq)]
    <3>2. after \in Findings
      BY <2>1, <2>2, <3>1
    <3> HIDE DEF after
    <3>3. <<First(seq)>> \o after.found \in Seq(Runs)
      <4>1. <<First(seq)>> \in Seq(Runs)
        BY <3>1
      <4> QED
        BY <3>2, <4>1, ConcatProperties DEF Findings
    <3>4. [after EXCEPT !.found = <<First(seq)>> \o after.found] \in Findings
      BY <3>2, <3>3 DEF Findings
    <3> QED
      BY <2>2, <2>3, <2>5, <3>4 DEF OneMore, after
  <2> QED
    BY <2>4, <2>5
<1> QED
  <2> SUFFICES ASSUME NEW seq \in Runs PROVE Split[seq] \in Findings
    OBVIOUS
  <2>1. Len(seq) \in Nat
    BY LenProperties DEF Runs
  <2> QED
    BY <1>1, <2>1

\* More units after a whole message leave it the first one.
LEMMA MoreComes ==
    ASSUME NEW a \in Runs, NEW b \in Runs
    PROVE  /\ a \o b \in Runs
           /\ Broken(a) => Broken(a \o b)
           /\ Whole(a) => /\ Whole(a \o b) /\ First(a \o b) = First(a)
                          /\ Remains(a \o b) = Remains(a) \o b
<1> DEFINE c == a \o b
<1>1. c \in Runs /\ Len(c) = Len(a) + Len(b) /\ Len(a) \in Nat /\ Len(b) \in Nat
      /\ \A i \in 1 .. Len(a) + Len(b) : c[i] = IF i <= Len(a) THEN a[i] ELSE b[i - Len(a)]
  BY ConcatProperties, LenProperties DEF Runs
<1> HIDE DEF c
<1>2. a # <<>> => Len(a) \in Nat \ {0}
  BY EmptySeq DEF Runs
<1>3. a # <<>> => c # <<>> /\ c[1] = a[1]
  BY <1>1, <1>2, EmptySeq
<1>4. Broken(a) => Broken(c)
  BY <1>3 DEF Broken
<1>5. ASSUME Whole(a) PROVE Whole(c) /\ First(c) = First(a) /\ Remains(c) = Remains(a) \o b
  <2> DEFINE n == UnitLength(a[1])
  <2>1. n \in 1 .. Len(a)
    BY <1>5, WholeIsSplit
  <2>2. UnitLength(c[1]) = n
    BY <1>3, <1>5 DEF Whole
  <2> HIDE DEF n
  <2>3. Whole(c)
    BY <1>1, <1>3, <1>5, <2>1, <2>2 DEF Whole, Broken
  <2>4. SubSeq(c, 1, n) = SubSeq(a, 1, n)
    <3>1. 1 \in 1 .. Len(a)
      BY <2>1
    <3> QED
      BY <2>1, <3>1, SubSeqOfConcat1 DEF c, Runs
  <2>5. SubSeq(c, n + 1, Len(c)) = SubSeq(a, n + 1, Len(a)) \o b
    <3> DEFINE x == SubSeq(c, n + 1, Len(c))
               y == SubSeq(a, n + 1, Len(a))
    <3>0. (\A i \in 1 .. Len(c) : c[i] \in Units) /\ (\A i \in 1 .. Len(a) : a[i] \in Units)
      BY <1>1, ElementOfSeq DEF Runs
    <3>1. /\ x \in Runs /\ Len(x) = Len(c) - n
          /\ \A i \in 1 .. Len(c) - n : x[i] = c[n + i]
      <4>1. \A i \in n + 1 .. Len(c) : c[i] \in Units
        BY <1>1, <2>1, <3>0
      <4>2. /\ x \in Seq(Units) /\ Len(x) = IF n + 1 <= Len(c) THEN Len(c) - (n + 1) + 1 ELSE 0
            /\ \A i \in 1 .. Len(c) - (n + 1) + 1 : x[i] = c[(n + 1) + i - 1]
        BY <1>1, <2>1, <4>1, SubSeqProperties
      <4> HIDE DEF x
      <4> QED
        BY <1>1, <2>1, <4>2 DEF Runs
    <3>2. /\ y \in Runs /\ Len(y) = Len(a) - n
          /\ \A i \in 1 .. Len(a) - n : y[i] = a[n + i]
      <4>1. \A i \in n + 1 .. Len(a) : a[i] \in Units
        BY <1>1, <2>1, <3>0
      <4>2. /\ y \in Seq(Units) /\ Len(y) = IF n + 1 <= Len(a) THEN Len(a) - (n + 1) + 1 ELSE 0
            /\ \A i \in 1 .. Len(a) - (n + 1) + 1 : y[i] = a[(n + 1) + i - 1]
        BY <1>1, <2>1, <4>1, SubSeqProperties
      <4> HIDE DEF y
      <4> QED
        BY <1>1, <2>1, <4>2 DEF Runs
    <3> HIDE DEF x, y
    <3>3. /\ y \o b \in Runs /\ Len(y \o b) = Len(y) + Len(b)
          /\ \A i \in 1 .. Len(y) + Len(b) : (y \o b)[i] = IF i <= Len(y) THEN y[i] ELSE b[i - Len(y)]
      BY <3>2, ConcatProperties DEF Runs
    <3>4. Len(x) = Len(y \o b)
      BY <1>1, <2>1, <3>1, <3>2, <3>3
    <3>5. ASSUME NEW i \in 1 .. Len(x) PROVE x[i] = (y \o b)[i]
      BY <1>1, <2>1, <3>1, <3>2, <3>3, SMTT(30)
    <3>6. x = y \o b
      BY <3>1, <3>3, <3>4, <3>5, SeqEqual DEF Runs
    <3> QED
      BY <3>6 DEF x, y
  <2> QED
    BY <2>2, <2>3, <2>4, <2>5 DEF First, Remains, n
<1> QED
  BY <1>1, <1>4, <1>5 DEF c

\* Split of what comes later goes on from the rest of what came before, and a break stays.
Joins(a, b) ==
    LET later == Split[Split[a].rest \o b]
    IN  IF Split[a].ok
        THEN /\ Split[a \o b].found = Split[a].found \o later.found
             /\ Split[a \o b].rest = later.rest /\ Split[a \o b].ok = later.ok
        ELSE Split[a \o b].found = Split[a].found /\ ~Split[a \o b].ok

THEOREM SplitJoins == \A a, b \in Runs : Joins(a, b)
<1> DEFINE Wrong == {k \in Nat : \E a, b \in Runs : Len(a) = k /\ ~Joins(a, b)}
<1>1. Wrong = {}
  <2> SUFFICES ASSUME Wrong # {} PROVE FALSE
    OBVIOUS
  <2>1. PICK k \in Wrong : \A l \in Wrong : k <= l
    BY LeastNumber
  <2>2. PICK a \in Runs, b \in Runs : Len(a) = k /\ ~Joins(a, b)
    BY <2>1
  <2> DEFINE piece == Split[a]
             both == Split[a \o b]
  <2>3. piece = OneMore(Split, a) /\ both = OneMore(Split, a \o b) /\ a \o b \in Runs /\ both \in Findings
    BY MoreComes, SplitRecurs, SplitTyped
  <2>4. CASE Broken(a)
    <3>1. piece = [rest |-> a, found |-> <<>>, ok |-> FALSE]
      BY <2>3, <2>4 DEF OneMore, Whole
    <3>2. both = [rest |-> a \o b, found |-> <<>>, ok |-> FALSE]
      BY <2>2, <2>3, <2>4, MoreComes DEF OneMore, Whole
    <3>3. Joins(a, b)
      BY <3>1, <3>2 DEF Joins
    <3> QED
      BY <2>2, <3>3
  <2>5. CASE ~Broken(a) /\ ~Whole(a)
    <3>1. piece = [rest |-> a, found |-> <<>>, ok |-> TRUE]
      BY <2>3, <2>5 DEF OneMore
    <3>2. <<>> \o both.found = both.found
      BY <2>3, ConcatEmptySeq DEF Findings
    <3> DEFINE later == Split[piece.rest \o b]
    <3> HIDE DEF piece, both
    <3>3. piece.ok /\ piece.rest = a /\ piece.found = <<>>
      BY <3>1
    <3>4. later = both
      BY <3>3 DEF both
    <3> HIDE DEF later
    <3>5. Joins(a, b)
      BY <3>2, <3>3, <3>4 DEF Joins, piece, both, later
    <3> QED
      BY <2>2, <3>5
  <2>6. CASE Whole(a)
    <3> DEFINE c == Remains(a)
               then == Split[c]
               thenBoth == Split[c \o b]
               later == Split[then.rest \o b]
    <3>1. c \in Runs /\ Len(c) < Len(a) /\ Len(c) \in Nat /\ First(a) \in Runs
      BY <2>2, <2>6, WholeIsSplit
    <3>2. Joins(c, b)
      BY <2>1, <2>2, <3>1
    <3>3. then \in Findings /\ thenBoth \in Findings /\ c \o b \in Runs
      BY <2>2, <3>1, SplitTyped, MoreComes
    <3>4. piece = [then EXCEPT !.found = <<First(a)>> \o then.found]
      BY <2>3, <2>6 DEF OneMore
    <3>5. both = [thenBoth EXCEPT !.found = <<First(a)>> \o thenBoth.found]
      BY <2>2, <2>3, <2>6, MoreComes DEF OneMore
    <3>6. later \in Findings
      BY <2>2, <3>3, SplitTyped, MoreComes DEF Findings
    <3>7. /\ then.ok => /\ thenBoth.found = then.found \o later.found
                        /\ thenBoth.rest = later.rest /\ thenBoth.ok = later.ok
          /\ ~then.ok => thenBoth.found = then.found /\ ~thenBoth.ok
      BY <3>2 DEF Joins
    <3> HIDE DEF c, then, thenBoth, piece, both
    <3>8. /\ piece.rest = then.rest /\ piece.found = <<First(a)>> \o then.found /\ piece.ok = then.ok
          /\ both.rest = thenBoth.rest /\ both.found = <<First(a)>> \o thenBoth.found
          /\ both.ok = thenBoth.ok
      BY <3>3, <3>4, <3>5 DEF Findings
    <3> HIDE DEF later
    <3>9. <<First(a)>> \o (then.found \o later.found) = (<<First(a)>> \o then.found) \o later.found
      <4>1. <<First(a)>> \in Seq(Runs)
        BY <3>1
      <4>2. then.found \in Seq(Runs) /\ later.found \in Seq(Runs)
        BY <3>3, <3>6 DEF Findings
      <4> DEFINE x == <<First(a)>>
                 y == then.found
                 z == later.found
      <4> HIDE DEF x, y, z
      <4>3. x \in Seq(Runs) /\ y \in Seq(Runs) /\ z \in Seq(Runs)
        BY <4>1, <4>2 DEF x, y, z
      <4>4. (x \o y) \o z = x \o (y \o z)
        BY <4>3, ConcatAssociative, SMTT(30)
      <4> QED
        BY <4>4 DEF x, y, z
    <3>10. later = Split[piece.rest \o b]
      BY <3>8 DEF later
    <3>11. IF piece.ok
           THEN both.found = piece.found \o later.found /\ both.rest = later.rest /\ both.ok = later.ok
           ELSE both.found = piece.found /\ ~both.ok
      BY <3>7, <3>8, <3>9
    <3>12. Joins(a, b)
      BY <3>10, <3>11 DEF Joins, piece, both
    <3> QED
      BY <2>2, <3>12
  <2> QED
    BY <2>4, <2>5, <2>6
<1> QED
  <2> SUFFICES ASSUME NEW a \in Runs, NEW b \in Runs PROVE Joins(a, b)
    OBVIOUS
  <2>1. Len(a) \in Nat
    BY LenProperties DEF Runs
  <2> QED
    BY <1>1, <2>1

-----------------------------------------------------------------------------
(* bridge.rs: one bridge, up and down.                                     *)

Spoken == [from : {"webrtc", "stranger"}, request : BOOLEAN]

\* What the peer sent, and what has become of some of it.
Mine == {i \in DOMAIN spoken : spoken[i].from = peer}
Gone == ToSet(carried) \cup replies \cup dropped

UpKinds ==
    /\ spoken \in Seq(Spoken) /\ queue \in Seq(Nat) /\ carried \in Seq(Nat)
    /\ taken \in 0 .. Len(spoken) /\ (peer = "nobody" => spoken = <<>>)

\* What waits is the peer's, in order, later than all that was taken, and nowhere else.
QueueIsInOrder ==
    /\ \A i \in 1 .. Len(queue) : queue[i] \in Mine /\ queue[i] > taken /\ queue[i] \notin Gone
    /\ \A i, j \in 1 .. Len(queue) : i < j => queue[i] < queue[j]

\* What was carried was taken from there, in order, and neither answered nor dropped.
CarriedInOrder ==
    /\ \A i \in 1 .. Len(carried) :
          carried[i] \in Mine /\ carried[i] <= taken /\ carried[i] \notin replies \cup dropped
    /\ \A i \in 1 .. Len(carried) - 1 : carried[i] < carried[i + 1]

\* Of the peer's, what waits no longer and has come to nothing was no request.
OnlyThePeers == replies \cup dropped \subseteq Mine
NoRequestIsLost == \A i \in Mine : i \in Gone \/ i \in ToSet(queue) \/ ~spoken[i].request

UpInv == UpKinds /\ QueueIsInOrder /\ CarriedInOrder /\ OnlyThePeers /\ NoRequestIsLost

\* What was read is what the relay wrote up to here; the splitter has found its messages
\* and keeps its rest, until something breaks.
Heard == SubSeq(Stream, 1, Len(Stream) - Len(ahead))
DownInv ==
    /\ ahead \in Runs /\ Len(ahead) <= Len(Stream) /\ Stream = Heard \o ahead /\ Heard \in Runs
    /\ delivered = Split[Heard].found
    /\ session # "failing" => Split[Heard].ok /\ Split[Heard].rest = buffer

\* The bridge's session begins with its peer.
SessionInv == peer = "nobody" => session = "none"

PlanInv == entry \in Entries /\ answered \in BOOLEAN

BridgeInv == PlanInv /\ SessionInv /\ UpInv /\ DownInv

LEMMA PlanIsRight == PlanInv => PlanKeepsAWay
<1> SUFFICES ASSUME PlanInv PROVE PlanKeepsAWay
  OBVIOUS
<1> DEFINE left == Decide(entry, answered)
           named == HasStream(entry)
           byUdp == \E j \in DOMAIN entry : entry[j] = "udp"
           kept == {i \in DOMAIN entry : IF ~named THEN TRUE
                                         ELSE IF byUdp /\ answered THEN ~IsStream(entry[i])
                                         ELSE entry[i] # "udp"}
           Way(url) == IF ~(named /\ byUdp /\ answered) /\ IsStream(url) THEN "bridge" ELSE "keep"
<1>1. left = [i \in kept |-> [url |-> entry[i], way |-> Way(entry[i])]]
  BY DEF Decide, Probed
<1>2. /\ DOMAIN left = kept
      /\ \A i \in kept : left[i].url = entry[i] /\ left[i].way = Way(entry[i])
  BY <1>1
<1> HIDE DEF left
<1>3. PlanKeepsAWay <=>
        LET relays == {i \in DOMAIN entry : entry[i] \in {"udp", "tcp", "tls"}}
            ways == {i \in DOMAIN left : left[i].url \in {"udp", "tcp", "tls"}}
        IN  /\ relays # {} => ways # {}
            /\ named => \A i \in ways : (left[i].way = "bridge") = ~(answered /\ byUdp)
            /\ \A i \in DOMAIN left : left[i].way = "keep" => ~named \/ ~IsStream(left[i].url)
  BY DEF PlanKeepsAWay, left
<1>4. named <=> \E i \in DOMAIN entry : IsStream(entry[i])
  BY DEF HasStream
<1> HIDE DEF named
<1>5. CASE ~named
  BY <1>2, <1>3, <1>4, <1>5 DEF IsStream
<1>6. CASE named /\ byUdp /\ answered
  BY <1>2, <1>3, <1>4, <1>6 DEF IsStream
<1>7. CASE named /\ ~(byUdp /\ answered)
  BY <1>2, <1>3, <1>4, <1>7 DEF IsStream
<1> QED
  BY <1>5, <1>6, <1>7

\* What is put in front of a sequence is a prefix of the whole.
LEMMA FrontIsPrefix ==
    ASSUME NEW S, NEW s \in Seq(S), NEW t \in Seq(S) PROVE IsPrefix(s, s \o t)
<1>1. Len(s) \in Nat /\ Len(t) \in Nat /\ Len(s \o t) = Len(s) + Len(t)
  BY LenProperties, ConcatProperties
<1>2. CASE Len(s) = 0
  <2>1. SubSeq(s, 1, Len(s)) = <<>> /\ SubSeq(s \o t, 1, Len(s)) = <<>>
    BY <1>2, SubSeqEmpty
  <2> QED
    BY <1>1, <1>2, <2>1 DEF IsPrefix
<1>3. CASE Len(s) # 0
  <2>1. 1 \in 1 .. Len(s) /\ Len(s) \in 1 .. Len(s)
    BY <1>1, <1>3
  <2>2. SubSeq(s \o t, 1, Len(s)) = SubSeq(s, 1, Len(s))
    BY <2>1, SubSeqOfConcat1
  <2> QED
    BY <1>1, <2>2 DEF IsPrefix
<1> QED
  BY <1>2, <1>3

LEMMA DownIsRight == DownInv => CutIsInvisible
<1> SUFFICES ASSUME DownInv PROVE CutIsInvisible
  OBVIOUS
<1> DEFINE later == Split[Split[Heard].rest \o ahead]
<1>1. Joins(Heard, ahead) /\ Heard \o ahead = Stream
  BY SplitJoins DEF DownInv
<1>2. Split[Heard] \in Findings
  BY SplitTyped DEF DownInv
<1>3. later \in Findings
  BY <1>2, SplitTyped, MoreComes DEF DownInv, Findings
<1>4. \/ Split[Stream].found = delivered \o later.found
      \/ Split[Stream].found = delivered
  BY <1>1 DEF Joins, DownInv
<1> HIDE DEF later
<1>5. delivered \in Seq(Runs) /\ later.found \in Seq(Runs)
  BY <1>2, <1>3 DEF Findings, DownInv
<1>6. delivered \o <<>> = delivered /\ <<>> \in Seq(Runs)
  BY <1>5, ConcatEmptySeq, EmptySeq
<1>7. IsPrefix(delivered, Split[Stream].found)
  <2>1. IsPrefix(delivered, delivered \o later.found) /\ IsPrefix(delivered, delivered \o <<>>)
    BY <1>5, <1>6, FrontIsPrefix
  <2> QED
    BY <1>4, <1>6, <2>1
<1> QED
  BY <1>7 DEF CutIsInvisible, DownInv, Heard

LEMMA UpIsRight == UpInv => NothingIsMixedUp
<1> SUFFICES ASSUME UpInv PROVE NothingIsMixedUp
  OBVIOUS
<1>0. DOMAIN queue = 1 .. Len(queue) /\ DOMAIN carried = 1 .. Len(carried)
  BY LenProperties DEF UpInv, UpKinds
<1>1. \A i \in ToSet(queue) : i \in Mine /\ i > taken
  BY <1>0 DEF UpInv, QueueIsInOrder, ToSet
<1>2. \A i \in ToSet(carried) : i \in Mine /\ i \notin replies \cup dropped
  BY <1>0 DEF UpInv, CarriedInOrder, ToSet
<1>3. Gone \cup ToSet(queue) \subseteq Mine
  BY <1>1, <1>2 DEF Gone, UpInv, OnlyThePeers
<1>4. ToSet(carried) \cap (replies \cup dropped) = {}
  BY <1>2
<1>5. \A i \in Mine : i <= taken /\ i \notin Gone => ~spoken[i].request
  <2> SUFFICES ASSUME NEW i \in Mine, i <= taken, i \notin Gone PROVE i \notin ToSet(queue)
    BY DEF UpInv, NoRequestIsLost
  <2>1. i \in Nat /\ taken \in Nat
    BY DEF Mine, UpInv, UpKinds
  <2> QED
    BY <1>1, <2>1
<1>6. \A i \in 1 .. Len(carried) - 1 : carried[i] < carried[i + 1]
  BY DEF UpInv, CarriedInOrder
<1> QED
  BY <1>3, <1>4, <1>5, <1>6 DEF NothingIsMixedUp, Mine, Gone

-----------------------------------------------------------------------------
LEMMA BridgeBegins == BridgeInit => BridgeInv
<1> SUFFICES ASSUME BridgeInit PROVE BridgeInv
  OBVIOUS
<1>1. PlanInv /\ SessionInv
  BY DEF BridgeInit, PlanInv, SessionInv
<1>2. UpInv
  <2>1. spoken = <<>> /\ queue = <<>> /\ carried = <<>> /\ taken = 0 /\ Len(<<>>) = 0
        /\ replies = {} /\ dropped = {}
    BY DEF BridgeInit
  <2>2. UpKinds
    BY <2>1, EmptySeq DEF UpKinds
  <2>3. QueueIsInOrder /\ CarriedInOrder /\ OnlyThePeers
    BY <2>1 DEF QueueIsInOrder, CarriedInOrder, OnlyThePeers
  <2>4. NoRequestIsLost
    BY <2>1 DEF NoRequestIsLost, Mine
  <2> QED
    BY <2>2, <2>3, <2>4 DEF UpInv
<1>3. DownInv
  <2>1. ahead = Stream /\ buffer = <<>> /\ delivered = <<>> /\ Stream \in Runs
    BY BridgeAssumption DEF BridgeInit, Runs
  <2>2. Len(Stream) \in Nat
    BY <2>1, LenProperties DEF Runs
  <2>3. Heard = <<>> /\ <<>> \in Runs
    BY <2>1, <2>2, SubSeqEmpty, EmptySeq DEF Heard, Runs
  <2>4. <<>> \o Stream = Stream
    BY <2>1, ConcatEmptySeq DEF Runs
  <2>5. Split[<<>>] = [rest |-> <<>>, found |-> <<>>, ok |-> TRUE]
    BY <2>3, SplitRecurs DEF OneMore, Whole, Broken
  <2> QED
    BY <2>1, <2>2, <2>3, <2>4, <2>5 DEF DownInv
<1> QED
  BY <1>1, <1>2, <1>3 DEF BridgeInv

LEMMA DownStands ==
    ASSUME DownInv, UNCHANGED downVars, session' # "failing" => session # "failing" PROVE DownInv'
  BY DEF DownInv, downVars, Heard

LEMMA ReadHolds ==
    ASSUME DownInv, NEW n \in 1 .. Len(ahead), Reads(n) PROVE DownInv'
<1> DEFINE piece == SubSeq(ahead, 1, n)
           next == SubSeq(ahead, n + 1, Len(ahead))
           split == Split[buffer \o piece]
           so == Heard \o piece
<1>1. /\ session = "carrying" /\ ahead' = next /\ buffer' = split.rest
      /\ delivered' = delivered \o split.found /\ session' = IF split.ok THEN session ELSE "failing"
  BY DEF Reads
<1>2. Len(ahead) \in Nat /\ ahead \in Seq(Units) /\ \A i \in 1 .. Len(ahead) : ahead[i] \in Units
  BY LenProperties, ElementOfSeq DEF DownInv, Runs
<1>3. piece \in Runs /\ Len(piece) = n
  <2>1. \A i \in 1 .. n : ahead[i] \in Units
    BY <1>2
  <2>2. piece \in Seq(Units) /\ Len(piece) = IF 1 <= n THEN n - 1 + 1 ELSE 0
    BY <1>2, <2>1, SubSeqProperties
  <2> QED
    BY <1>2, <2>2 DEF Runs
<1>4. next \in Runs /\ Len(next) = Len(ahead) - n
  <2>1. \A i \in n + 1 .. Len(ahead) : ahead[i] \in Units
    BY <1>2
  <2>2. next \in Seq(Units) /\ Len(next) = IF n + 1 <= Len(ahead) THEN Len(ahead) - (n + 1) + 1 ELSE 0
    BY <1>2, <2>1, SubSeqProperties, SMTT(30)
  <2> QED
    BY <1>2, <2>2 DEF Runs
<1>5. piece \o next = ahead
  <2>1. 1 \in 1 .. Len(ahead) + 1 /\ n \in 1 - 1 .. Len(ahead) /\ Len(ahead) \in n .. Len(ahead)
    BY <1>2
  <2>2. SubSeq(ahead, 1, n) \o SubSeq(ahead, n + 1, Len(ahead)) = SubSeq(ahead, 1, Len(ahead))
    BY <1>2, <2>1, ConcatAdjacentSubSeq
  <2>3. SubSeq(ahead, 1, Len(ahead)) = ahead
    BY <1>2, SubSeqFull
  <2> QED
    BY <2>2, <2>3
<1> HIDE DEF piece, next
<1>6. so \in Runs /\ so \o next = Stream
  <2>1. Heard \in Runs /\ Heard \o ahead = Stream
    BY DEF DownInv
  <2>2. (Heard \o piece) \o next = Heard \o (piece \o next)
    <3> DEFINE x == Heard
    <3> HIDE DEF x
    <3>1. x \in Seq(Units) /\ piece \in Seq(Units) /\ next \in Seq(Units)
      BY <1>3, <1>4, <2>1 DEF x, Runs
    <3>2. (x \o piece) \o next = x \o (piece \o next)
      BY <3>1, ConcatAssociative, SMTT(30)
    <3> QED
      BY <3>2 DEF x
  <2> QED
    BY <1>3, <1>5, <2>1, <2>2, MoreComes
<1>7. /\ Len(so) \in Nat /\ Len(so) # 0 /\ Len(next) \in Nat
      /\ Len(Stream) = Len(so) + Len(next)
  <2>1. Len(so) = Len(Heard) + Len(piece) /\ Len(Heard) \in Nat
    BY <1>3, ConcatProperties, LenProperties DEF DownInv, Runs
  <2>2. Len(so \o next) = Len(so) + Len(next)
    BY <1>4, <1>6, ConcatProperties DEF Runs
  <2> QED
    BY <1>2, <1>3, <1>4, <1>6, <2>1, <2>2
<1>8. Heard' = so
  <2>1. Heard' = SubSeq(Stream, 1, Len(so))
    BY <1>1, <1>7 DEF Heard
  <2>2. 1 \in 1 .. Len(so) /\ Len(so) \in 1 .. Len(so)
    BY <1>7
  <2>3. SubSeq(so \o next, 1, Len(so)) = SubSeq(so, 1, Len(so))
    BY <1>4, <1>6, <2>2, SubSeqOfConcat1 DEF Runs
  <2>4. SubSeq(so, 1, Len(so)) = so
    BY <1>6, SubSeqFull DEF Runs
  <2> QED
    BY <1>6, <2>1, <2>3, <2>4
<1>9. /\ Split[so].found = delivered \o split.found /\ Split[so].rest = split.rest
      /\ Split[so].ok = split.ok
  <2>1. Joins(Heard, piece)
    BY <1>3, SplitJoins DEF DownInv
  <2>2. Split[Heard].ok /\ Split[Heard].rest = buffer /\ Split[Heard].found = delivered
    BY <1>1 DEF DownInv
  <2> QED
    BY <2>1, <2>2 DEF Joins
<1> HIDE DEF so, split
<1>10. Split[Heard'] = Split[so]
  BY <1>8
<1>11. ahead' \in Runs /\ Len(ahead') <= Len(Stream) /\ Stream = Heard' \o ahead' /\ Heard' \in Runs
  BY <1>1, <1>4, <1>6, <1>7, <1>8
<1>12. delivered' = Split[Heard'].found
  BY <1>1, <1>9, <1>10
<1>13. session' # "failing" => Split[Heard'].ok /\ Split[Heard'].rest = buffer'
  BY <1>1, <1>9, <1>10
<1> QED
  BY <1>11, <1>12, <1>13 DEF DownInv

\* A datagram of the peer waits or is dropped; a stranger's changes nothing.
LEMMA DatagramHolds ==
    ASSUME UpInv, NEW from \in {"webrtc", "stranger"}, NEW request \in BOOLEAN, Datagram(from, request)
    PROVE  UpInv'
<1> DEFINE word == [from |-> from, request |-> request]
           last == Len(spoken) + 1
<1>1. /\ spoken' = Append(spoken, word) /\ peer' = IF peer = "nobody" THEN from ELSE peer
      /\ taken' = taken /\ carried' = carried /\ replies' = replies
  BY DEF Datagram
<1>2. /\ spoken \in Seq(Spoken) /\ word \in Spoken /\ Len(spoken) \in Nat /\ DOMAIN spoken = 1 .. Len(spoken)
      /\ queue \in Seq(Nat) /\ carried \in Seq(Nat) /\ taken \in 0 .. Len(spoken)
      /\ peer = "nobody" => spoken = <<>>
  BY LenProperties DEF UpInv, UpKinds, Spoken
<1> HIDE DEF word
<1>3. /\ spoken' \in Seq(Spoken) /\ Len(spoken') = last
      /\ \A i \in 1 .. Len(spoken) : spoken'[i] = spoken[i]
      /\ spoken'[last] = word /\ DOMAIN spoken' = 1 .. last
  BY <1>1, <1>2, AppendProperties, LenProperties
<1>4. /\ \A i \in Mine : i \in Mine' /\ spoken'[i] = spoken[i] /\ i \in 1 .. Len(spoken)
      /\ \A i \in Mine' : i \in Mine \/ i = last
      /\ (from = peer' => last \in Mine') /\ (from # peer' => last \notin Mine')
  <2>1. peer = "nobody" => Len(spoken) = 0
    BY <1>2, EmptySeq
  <2>2. word.from = from
    BY DEF word
  <2> QED
    BY <1>1, <1>2, <1>3, <2>1, <2>2 DEF Mine
<1>5. \/ from # peer' /\ queue' = queue /\ dropped' = dropped
      \/ from = peer' /\ queue' = Append(queue, last) /\ dropped' = dropped
      \/ from = peer' /\ queue' = queue /\ dropped' = dropped \cup {last}
  BY <1>3 DEF Datagram
<1>6. /\ \A i \in ToSet(carried) : i \in Mine /\ i <= taken
      /\ \A i \in replies \cup dropped : i \in Mine
      /\ \A i \in Gone : i \in 1 .. Len(spoken)
  <2>1. \A i \in ToSet(carried) : i \in Mine /\ i <= taken
    BY <1>2 DEF UpInv, CarriedInOrder, ToSet
  <2>2. \A i \in replies \cup dropped : i \in Mine
    BY DEF UpInv, OnlyThePeers
  <2> QED
    BY <1>4, <2>1, <2>2 DEF Gone
<1>7. peer' # "nobody"
  BY <1>1
<1>8. Gone \subseteq Gone' /\ Gone' \subseteq Gone \cup (dropped' \ dropped)
  BY <1>1, <1>5 DEF Gone
<1>9. CarriedInOrder'
  <2>1. \A i \in 1 .. Len(carried) : carried[i] \in Mine /\ carried[i] <= taken /\ carried[i] \in 1 .. Len(spoken)
                                     /\ carried[i] \notin replies \cup dropped
    BY <1>4 DEF UpInv, CarriedInOrder
  <2>2. \A i \in 1 .. Len(carried) : carried[i] # last
    BY <1>2, <2>1
  <2>3. \A i \in 1 .. Len(carried) : carried[i] \in Mine' /\ carried[i] \notin replies' \cup dropped'
    BY <1>1, <1>4, <1>5, <2>1, <2>2
  <2> QED
    BY <1>1, <2>1, <2>3 DEF UpInv, CarriedInOrder
<1>10. OnlyThePeers'
  BY <1>1, <1>4, <1>5, <1>6 DEF OnlyThePeers
<1>11. UpKinds' /\ QueueIsInOrder' /\ NoRequestIsLost'
  <2>1. CASE queue' = queue
    <3>1. UpKinds'
      BY <1>1, <1>2, <1>3, <1>7, <2>1 DEF UpKinds
    <3>2. QueueIsInOrder'
      <4>1. \A i \in 1 .. Len(queue) : queue[i] \in Mine /\ queue[i] > taken /\ queue[i] \notin Gone
        BY DEF UpInv, QueueIsInOrder
      <4>2. \A i \in 1 .. Len(queue) : queue[i] \in Mine' /\ queue[i] # last
        BY <1>2, <1>4, <4>1
      <4>3. \A i \in 1 .. Len(queue) : queue[i] \notin Gone'
        BY <1>5, <1>8, <4>1, <4>2
      <4> QED
        BY <1>1, <2>1, <4>1, <4>2, <4>3 DEF UpInv, QueueIsInOrder
    <3>3. NoRequestIsLost'
      <4> SUFFICES ASSUME NEW i \in Mine' PROVE (i \in Gone \/ i \in ToSet(queue))' \/ ~spoken'[i].request
        BY DEF NoRequestIsLost
      <4>1. CASE i \in Mine
        BY <1>4, <1>8, <2>1, <4>1 DEF UpInv, NoRequestIsLost
      <4>2. CASE i = last
        <5>1. dropped' = dropped \cup {last} \/ from # peer' \/ queue' = Append(queue, last)
          BY <1>5
        <5>2. queue' # Append(queue, last)
          BY <1>2, <2>1, AppendProperties, LenProperties
        <5>3. from = peer'
          BY <1>4, <4>2
        <5> QED
          BY <4>2, <5>1, <5>2, <5>3 DEF Gone
      <4> QED
        BY <1>4, <4>1, <4>2
    <3> QED
      BY <3>1, <3>2, <3>3
  <2>2. CASE from = peer' /\ queue' = Append(queue, last) /\ dropped' = dropped
    <3>0. last \in Nat
      BY <1>2
    <3>1. /\ queue' \in Seq(Nat) /\ Len(queue') = Len(queue) + 1 /\ Len(queue) \in Nat
          /\ \A i \in 1 .. Len(queue) : queue'[i] = queue[i]
          /\ queue'[Len(queue) + 1] = last
      BY <1>2, <2>2, <3>0, AppendProperties, LenProperties
    <3>2. UpKinds'
      BY <1>1, <1>2, <1>3, <1>7, <3>1 DEF UpKinds
    <3>3. Gone' = Gone /\ last \notin Gone /\ last > taken
      BY <1>1, <1>2, <1>6, <2>2 DEF Gone
    <3>4. \A i \in 1 .. Len(queue) : queue[i] \in Mine /\ queue[i] > taken /\ queue[i] \notin Gone /\ queue[i] < last
      BY <1>2, <1>4 DEF UpInv, QueueIsInOrder
    <3>5. ASSUME NEW i \in 1 .. Len(queue') PROVE queue'[i] \in Mine' /\ queue'[i] > taken' /\ queue'[i] \notin Gone'
      <4>1. CASE i = Len(queue) + 1
        BY <1>1, <1>4, <2>2, <3>1, <3>3, <4>1
      <4>2. CASE i # Len(queue) + 1
        <5>1. i \in 1 .. Len(queue)
          BY <3>1, <4>2
        <5> QED
          BY <1>1, <1>4, <3>1, <3>3, <3>4, <5>1
      <4> QED
        BY <4>1, <4>2
    <3>6. ASSUME NEW i \in 1 .. Len(queue'), NEW j \in 1 .. Len(queue'), i < j PROVE queue'[i] < queue'[j]
      <4>1. i \in 1 .. Len(queue)
        BY <3>1, <3>6
      <4>2. CASE j = Len(queue) + 1
        BY <3>1, <3>4, <4>1, <4>2
      <4>3. CASE j # Len(queue) + 1
        <5>1. j \in 1 .. Len(queue)
          BY <3>1, <4>3
        <5> QED
          BY <3>1, <3>6, <4>1, <5>1 DEF UpInv, QueueIsInOrder
      <4> QED
        BY <4>2, <4>3
    <3>7. QueueIsInOrder'
      BY <3>5, <3>6 DEF QueueIsInOrder
    <3>8. \A i \in ToSet(queue) : i \in ToSet(queue') 
      <4>1. DOMAIN queue = 1 .. Len(queue) /\ DOMAIN queue' = 1 .. Len(queue')
        BY <1>2, <3>1, LenProperties
      <4> QED
        BY <3>1, <4>1 DEF ToSet
    <3>9. last \in ToSet(queue')
      <4>1. DOMAIN queue' = 1 .. Len(queue')
        BY <3>1, LenProperties
      <4> QED
        BY <3>1, <4>1 DEF ToSet
    <3>10. NoRequestIsLost'
      BY <1>4, <3>3, <3>8, <3>9 DEF UpInv, NoRequestIsLost
    <3> QED
      BY <3>2, <3>7, <3>10
  <2> QED
    BY <1>5, <2>1, <2>2
<1> QED
  BY <1>9, <1>10, <1>11 DEF UpInv

\* The first of the queue is taken: it is carried, or dropped or answered, or no request.
LEMMA TakeHolds ==
    ASSUME UpInv, queue # <<>>, queue' = Tail(queue), taken' = Head(queue), UNCHANGED <<spoken, peer>>,
           \/ carried' = Append(carried, Head(queue)) /\ UNCHANGED <<replies, dropped>>
           \/ /\ carried' = carried
              /\ replies \subseteq replies' /\ replies' \subseteq replies \cup {Head(queue)}
              /\ dropped \subseteq dropped' /\ dropped' \subseteq dropped \cup {Head(queue)}
              /\ Head(queue) \in replies' \cup dropped' \/ ~spoken[Head(queue)].request
    PROVE  UpInv'
<1> DEFINE oldest == Head(queue)
<1>0. /\ spoken \in Seq(Spoken) /\ queue \in Seq(Nat) /\ carried \in Seq(Nat) /\ taken \in 0 .. Len(spoken)
      /\ Len(spoken) \in Nat /\ DOMAIN spoken = 1 .. Len(spoken)
      /\ DOMAIN queue = 1 .. Len(queue) /\ Len(queue) \in Nat \ {0}
      /\ DOMAIN carried = 1 .. Len(carried) /\ Len(carried) \in Nat
  BY LenProperties, EmptySeq DEF UpInv, UpKinds
<1>1. /\ oldest = queue[1] /\ oldest \in Nat /\ queue' \in Seq(Nat) /\ Len(queue') = Len(queue) - 1
      /\ \A i \in 1 .. Len(queue') : queue'[i] = queue[i + 1]
      /\ DOMAIN queue' = 1 .. Len(queue')
  <2>1. Len(queue') = Len(queue) - 1 /\ queue' \in Seq(Nat) /\ oldest \in Nat
        /\ \A i \in 1 .. Len(queue') : queue'[i] = queue[i + 1]
    BY <1>0, HeadTailProperties
  <2>2. DOMAIN queue' = 1 .. Len(queue')
    BY <2>1, LenProperties
  <2> QED
    BY <1>0, <2>1, <2>2
<1> HIDE DEF oldest
<1>2. /\ oldest \in Mine /\ oldest > taken /\ oldest \notin Gone
      /\ \A i \in 1 .. Len(queue') : queue'[i] \in Mine /\ queue'[i] > oldest /\ queue'[i] \notin Gone
      /\ \A i, j \in 1 .. Len(queue') : i < j => queue'[i] < queue'[j]
  BY <1>0, <1>1 DEF UpInv, QueueIsInOrder
<1>3. Mine' = Mine /\ Mine \subseteq 1 .. Len(spoken) /\ spoken' = spoken /\ taken' = oldest
  BY <1>0 DEF Mine, oldest
<1>4. \/ carried' = Append(carried, oldest) /\ replies' = replies /\ dropped' = dropped
      \/ /\ carried' = carried
         /\ replies \subseteq replies' /\ replies' \subseteq replies \cup {oldest}
         /\ dropped \subseteq dropped' /\ dropped' \subseteq dropped \cup {oldest}
         /\ oldest \in replies' \cup dropped' \/ ~spoken[oldest].request
  BY DEF oldest
<1>5. /\ carried' \in Seq(Nat) /\ Gone \subseteq Gone' /\ Gone' \subseteq Gone \cup {oldest}
      /\ oldest \in Gone' \/ ~spoken[oldest].request
      /\ CarriedInOrder'
  <2>0. /\ \A i \in 1 .. Len(carried) : /\ carried[i] \in Mine /\ carried[i] <= taken /\ carried[i] \in Nat
                                        /\ carried[i] \notin replies \cup dropped
        /\ \A i \in 1 .. Len(carried) - 1 : carried[i] < carried[i + 1]
    BY <1>0, ElementOfSeq DEF UpInv, CarriedInOrder
  <2>1. CASE carried' = Append(carried, oldest) /\ replies' = replies /\ dropped' = dropped
    <3>1. /\ carried' \in Seq(Nat) /\ Len(carried') = Len(carried) + 1
          /\ \A i \in 1 .. Len(carried) : carried'[i] = carried[i]
          /\ carried'[Len(carried) + 1] = oldest
      <4>1. carried \in Seq(Nat) /\ oldest \in Nat
        BY <1>0, <1>1
      <4>2. /\ Append(carried, oldest) \in Seq(Nat) /\ Len(Append(carried, oldest)) = Len(carried) + 1
            /\ \A i \in 1 .. Len(carried) : Append(carried, oldest)[i] = carried[i]
            /\ Append(carried, oldest)[Len(carried) + 1] = oldest
        BY <4>1, AppendProperties
      <4> QED
        BY <2>1, <4>2
    <3>2. DOMAIN carried' = 1 .. Len(carried')
      BY <3>1, LenProperties
    <3>3. ToSet(carried') = ToSet(carried) \cup {oldest}
      <4>1. ToSet(carried') = {carried'[i] : i \in 1 .. Len(carried) + 1}
            /\ ToSet(carried) = {carried[i] : i \in 1 .. Len(carried)}
        BY <1>0, <3>1, <3>2 DEF ToSet
      <4>2. 1 .. Len(carried) + 1 = (1 .. Len(carried)) \cup {Len(carried) + 1}
        BY <1>0
      <4> QED
        BY <3>1, <4>1, <4>2
    <3>4. Gone' = Gone \cup {oldest}
      BY <2>1, <3>3 DEF Gone
    <3>5. ASSUME NEW i \in 1 .. Len(carried')
          PROVE  carried'[i] \in Mine /\ carried'[i] <= oldest /\ carried'[i] \notin replies \cup dropped
      <4>1. CASE i = Len(carried) + 1
        BY <1>1, <1>2, <3>1, <4>1 DEF Gone
      <4>2. CASE i # Len(carried) + 1
        <5>1. i \in 1 .. Len(carried)
          BY <1>0, <3>1, <4>2
        <5> QED
          BY <1>0, <1>1, <1>2, <2>0, <3>1, <5>1
      <4> QED
        BY <4>1, <4>2
    <3>6. ASSUME NEW i \in 1 .. Len(carried') - 1 PROVE carried'[i] < carried'[i + 1]
      <4>1. i \in 1 .. Len(carried)
        BY <1>0, <3>1
      <4>2. CASE i = Len(carried)
        <5>1. carried'[i] = carried[i] /\ carried[i] <= taken /\ carried[i] \in Nat /\ carried'[i + 1] = oldest
          BY <2>0, <3>1, <4>1, <4>2
        <5> QED
          BY <1>0, <1>1, <1>2, <5>1, SMTT(30)
      <4>3. CASE i # Len(carried)
        <5>1. i \in 1 .. Len(carried) - 1 /\ i + 1 \in 1 .. Len(carried)
          <6>1. Len(carried) \in Nat
            BY <1>0
          <6> QED
            BY <4>1, <4>3, <6>1
        <5> QED
          BY <2>0, <3>1, <4>1, <5>1
      <4> QED
        BY <4>2, <4>3
    <3>7. CarriedInOrder'
      BY <1>3, <2>1, <3>5, <3>6, SMTT(30) DEF CarriedInOrder
    <3> QED
      BY <3>1, <3>4, <3>7
  <2>2. CASE /\ carried' = carried
             /\ replies \subseteq replies' /\ replies' \subseteq replies \cup {oldest}
             /\ dropped \subseteq dropped' /\ dropped' \subseteq dropped \cup {oldest}
             /\ oldest \in replies' \cup dropped' \/ ~spoken[oldest].request
    <3>1. Gone \subseteq Gone' /\ Gone' \subseteq Gone \cup {oldest} /\ (oldest \in Gone' \/ ~spoken[oldest].request)
      BY <2>2 DEF Gone
    <3>2. \A i \in 1 .. Len(carried) : carried[i] # oldest /\ carried[i] <= oldest
      BY <1>0, <1>1, <1>2, <2>0, SMTT(30)
    <3>3. \A i \in 1 .. Len(carried) : carried[i] \notin replies' \cup dropped'
      BY <2>0, <2>2, <3>2
    <3>4. CarriedInOrder'
      BY <1>3, <2>0, <2>2, <3>2, <3>3 DEF CarriedInOrder
    <3> QED
      BY <1>0, <2>2, <3>1, <3>4
  <2> QED
    BY <1>4, <2>1, <2>2
<1>6. OnlyThePeers'
  BY <1>2, <1>3, <1>4 DEF UpInv, OnlyThePeers
<1>7. QueueIsInOrder'
  <2>1. \A i \in 1 .. Len(queue') : queue'[i] # oldest
    BY <1>1, <1>2
  <2> QED
    BY <1>2, <1>3, <1>5, <2>1 DEF QueueIsInOrder
<1>8. UpKinds'
  BY <1>0, <1>1, <1>2, <1>3, <1>5 DEF UpInv, UpKinds
<1>9. NoRequestIsLost'
  <2>1. \A i \in ToSet(queue) : i = oldest \/ i \in ToSet(queue')
    <3> SUFFICES ASSUME NEW k \in 1 .. Len(queue), queue[k] # oldest PROVE queue[k] \in ToSet(queue')
      BY <1>0 DEF ToSet
    <3>1. k - 1 \in 1 .. Len(queue') /\ queue'[k - 1] = queue[(k - 1) + 1] /\ (k - 1) + 1 = k
      BY <1>0, <1>1
    <3> QED
      BY <1>1, <3>1 DEF ToSet
  <2> QED
    BY <1>3, <1>5, <2>1 DEF UpInv, NoRequestIsLost
<1> QED
  BY <1>5, <1>6, <1>7, <1>8, <1>9 DEF UpInv

LEMMA UpStands == UpInv /\ UNCHANGED upVars => UpInv'
  BY DEF UpInv, upVars, UpKinds, QueueIsInOrder, CarriedInOrder, OnlyThePeers, NoRequestIsLost, Mine, Gone

LEMMA BridgeStep == BridgeInv /\ [BridgeNext]_bridgeVars => BridgeInv'
<1> SUFFICES ASSUME PlanInv, SessionInv, UpInv, DownInv, [BridgeNext]_bridgeVars PROVE BridgeInv'
  BY DEF BridgeInv
<1>1. PlanInv'
  BY DEF PlanInv, bridgeVars, planVars, BridgeNext, Datagram, RelayConnects, RelayLost, Carries, CarryBreaks,
     Refuses, Reads
<1>2. ASSUME NEW from \in {"webrtc", "stranger"}, NEW request \in BOOLEAN, Datagram(from, request)
      PROVE  SessionInv' /\ UpInv' /\ DownInv'
  <2>1. /\ UNCHANGED downVars /\ peer' = IF peer = "nobody" THEN from ELSE peer
        /\ session' = IF peer = "nobody" THEN "connecting" ELSE session
    BY <1>2 DEF Datagram
  <2>2. SessionInv' /\ (session' # "failing" => session # "failing")
    BY <2>1 DEF SessionInv
  <2>3. UpInv'
    BY <1>2, DatagramHolds
  <2>4. DownInv'
    BY <2>1, <2>2, DownStands
  <2> QED
    BY <2>2, <2>3, <2>4
<1>3. CASE RelayConnects \/ RelayLost
  <2>1. UNCHANGED upVars /\ UNCHANGED downVars /\ peer' = peer /\ session \in {"connecting", "carrying"}
    BY <1>3 DEF RelayConnects, RelayLost, upVars
  <2>2. UpInv'
    BY <2>1, UpStands
  <2>3. DownInv'
    BY <2>1, DownStands
  <2> QED
    BY <1>1, <2>1, <2>2, <2>3 DEF SessionInv, BridgeInv
<1>4. CASE Carries
  <2>1. /\ queue # <<>> /\ queue' = Tail(queue) /\ taken' = Head(queue) /\ UNCHANGED <<spoken, peer>>
        /\ carried' = Append(carried, Head(queue)) /\ UNCHANGED <<replies, dropped>>
        /\ UNCHANGED downVars /\ session' = session
    BY <1>4 DEF Carries
  <2>2. UpInv'
    BY <2>1, TakeHolds
  <2>3. DownInv'
    BY <2>1, DownStands
  <2> QED
    BY <1>1, <2>1, <2>2, <2>3 DEF SessionInv, BridgeInv
<1>5. CASE CarryBreaks
  <2>1. /\ queue # <<>> /\ queue' = Tail(queue) /\ taken' = Head(queue) /\ UNCHANGED <<spoken, peer>>
        /\ carried' = carried /\ replies' = replies /\ dropped' = dropped \cup {Head(queue)}
        /\ UNCHANGED downVars /\ session = "carrying" /\ session' = "failing"
    BY <1>5 DEF CarryBreaks
  <2>2. UpInv'
    BY <2>1, TakeHolds
  <2>3. DownInv'
    BY <2>1, DownStands
  <2> QED
    BY <1>1, <2>1, <2>2, <2>3 DEF SessionInv, BridgeInv
<1>6. CASE Refuses
  <2>1. /\ queue # <<>> /\ queue' = Tail(queue) /\ taken' = Head(queue) /\ UNCHANGED <<spoken, peer>>
        /\ carried' = carried /\ dropped' = dropped
        /\ replies' = IF spoken[Head(queue)].request THEN replies \cup {Head(queue)} ELSE replies
        /\ UNCHANGED downVars /\ session' = session
    BY <1>6 DEF Refuses
  <2>2. UpInv'
    BY <2>1, TakeHolds
  <2>3. DownInv'
    BY <2>1, DownStands
  <2> QED
    BY <1>1, <2>1, <2>2, <2>3 DEF SessionInv, BridgeInv
<1>7. ASSUME NEW n \in 1 .. Len(ahead), Reads(n) PROVE SessionInv' /\ UpInv' /\ DownInv'
  <2>1. UNCHANGED upVars /\ peer' = peer /\ session = "carrying"
    BY <1>7 DEF Reads, upVars
  <2>2. UpInv' /\ DownInv'
    BY <1>7, <2>1, UpStands, ReadHolds
  <2> QED
    BY <2>1, <2>2 DEF SessionInv
<1>8. CASE UNCHANGED bridgeVars
  <2>1. UNCHANGED upVars /\ UNCHANGED downVars /\ session' = session /\ peer' = peer
    BY <1>8 DEF bridgeVars, upVars, downVars
  <2>2. UpInv'
    BY <2>1, UpStands
  <2>3. DownInv'
    BY <2>1, DownStands
  <2> QED
    BY <1>1, <2>1, <2>2, <2>3 DEF SessionInv, BridgeInv
<1> QED
  BY <1>1, <1>2, <1>3, <1>4, <1>5, <1>6, <1>7, <1>8 DEF BridgeNext, BridgeInv

LEMMA BridgeIsRight == BridgeInv => PlanKeepsAWay /\ NothingIsMixedUp /\ CutIsInvisible
  BY PlanIsRight, UpIsRight, DownIsRight DEF BridgeInv

-----------------------------------------------------------------------------
(* Finite sets taken apart, and the sum of what segments take.             *)

\* Induction over the numbers, and over a finite set that loses an element.
LEMMA NumbersFollow ==
    ASSUME NEW T, 0 \in T, \A n \in Nat : n \in T => n + 1 \in T
    PROVE  Nat \subseteq T
<1> DEFINE R == Nat \ T
<1> SUFFICES ASSUME R # {} PROVE FALSE
  OBVIOUS
<1>1. R \in SUBSET Nat
  OBVIOUS
<1> HIDE DEF R
<1>2. PICK n \in R : \A m \in R : n <= m
  BY <1>1, LeastNumber
<1> USE DEF R
<1>3. n # 0 /\ n \in Nat
  BY <1>2
<1>4. n - 1 \in Nat /\ n - 1 \notin R
  BY <1>2, <1>3
<1> QED
  BY <1>2, <1>3, <1>4

LEMMA SubsetsFollow ==
    ASSUME NEW S, IsFiniteSet(S), NEW T,
           \A s \in SUBSET S : (\A x \in s : s \ {x} \in T) => s \in T
    PROVE  SUBSET S \subseteq T
<1> DEFINE N == {n \in Nat : \A s \in SUBSET S : Cardinality(s) = n => s \in T}
<1>1. 0 \in N
  <2> SUFFICES ASSUME NEW s \in SUBSET S, Cardinality(s) = 0 PROVE s \in T
    OBVIOUS
  <2>1. s = {}
    BY FS_Subset, FS_EmptySet
  <2> QED
    BY <2>1
<1>2. ASSUME NEW n \in Nat, n \in N PROVE n + 1 \in N
  <2> SUFFICES ASSUME NEW s \in SUBSET S, Cardinality(s) = n + 1 PROVE s \in T
    OBVIOUS
  <2>1. IsFiniteSet(s)
    BY FS_Subset
  <2>2. ASSUME NEW x \in s PROVE s \ {x} \in T
    <3>1. Cardinality(s \ {x}) = Cardinality(s) - 1
      BY <2>1, FS_RemoveElement
    <3>2. Cardinality(s) = n + 1
      OBVIOUS
    <3>3. Cardinality(s \ {x}) = n
      BY <3>1, <3>2
    <3>4. s \ {x} \in SUBSET S
      OBVIOUS
    <3> QED
      BY <1>2, <3>3, <3>4
  <2> QED
    BY <2>2
<1>3. Nat \subseteq N
  <2> HIDE DEF N
  <2> QED
    BY <1>1, <1>2, NumbersFollow
<1> QED
  <2> SUFFICES ASSUME NEW s \in SUBSET S PROVE s \in T
    OBVIOUS
  <2>1. Cardinality(s) \in Nat
    BY FS_Subset, FS_CardinalityType
  <2> QED
    BY <1>3, <2>1

Some(S) == CHOOSE x \in S : TRUE

\* What Size computes: the frames of one segment and of the rest.
AddsUp(sum, S) ==
    sum = [s \in SUBSET S |->
              IF s = {} THEN 0 ELSE Len(Some(s).frames) + sum[s \ {Some(s)}]]

LEMMA SizeIs == ASSUME NEW S PROVE Size(S) = (CHOOSE sum : AddsUp(sum, S))[S]
  BY DEF Size, MapThenSumSet, MapThenFoldSet, AddsUp, Some

\* The same, of the sets of n elements at most.
Small(S, n) == {s \in SUBSET S : Cardinality(s) <= n}
AddsUpTo(sum, S, n) ==
    sum = [s \in Small(S, n) |->
              IF s = {} THEN 0 ELSE Len(Some(s).frames) + sum[s \ {Some(s)}]]

LEMMA SomeSum ==
    ASSUME NEW S, IsFiniteSet(S)
    PROVE  \E sum : AddsUp(sum, S)
<1> DEFINE N == {n \in Nat : \E sum : AddsUpTo(sum, S, n)}
<1>0. ASSUME NEW n \in Nat, NEW s \in Small(S, n + 1), s # {}
      PROVE  s \ {Some(s)} \in Small(S, n)
  <2>1. IsFiniteSet(s) /\ Some(s) \in s
    BY <1>0, FS_Subset DEF Small, Some
  <2>2. Cardinality(s \ {Some(s)}) = Cardinality(s) - 1 /\ Cardinality(s) \in Nat
    BY <2>1, FS_RemoveElement, FS_CardinalityType
  <2> QED
    BY <2>2 DEF Small
<1>1. 0 \in N
  <2> DEFINE zero == [s \in Small(S, 0) |-> 0]
  <2>1. \A s \in Small(S, 0) : s = {}
    <3> SUFFICES ASSUME NEW s \in Small(S, 0) PROVE s = {}
      OBVIOUS
    <3>1. IsFiniteSet(s) /\ Cardinality(s) <= 0
      BY FS_Subset DEF Small
    <3>2. Cardinality(s) \in Nat
      BY <3>1, FS_CardinalityType
    <3>3. Cardinality(s) = 0
      BY <3>1, <3>2
    <3> QED
      BY <3>1, <3>3, FS_EmptySet
  <2>2. AddsUpTo(zero, S, 0)
    BY <2>1 DEF AddsUpTo
  <2> QED
    BY <2>2
<1>2. ASSUME NEW n \in Nat, n \in N PROVE n + 1 \in N
  <2>1. PICK sum : AddsUpTo(sum, S, n)
    BY <1>2
  <2> DEFINE more == [s \in Small(S, n + 1) |->
                         IF s = {} THEN 0 ELSE Len(Some(s).frames) + sum[s \ {Some(s)}]]
  <2>2. ASSUME NEW t \in Small(S, n) PROVE more[t] = sum[t]
    <3>1. t \in Small(S, n + 1)
      <4>1. IsFiniteSet(t) /\ Cardinality(t) <= n
        BY FS_Subset DEF Small
      <4>2. Cardinality(t) \in Nat
        BY <4>1, FS_CardinalityType
      <4> QED
        BY <4>1, <4>2 DEF Small
    <3>2. more[t] = IF t = {} THEN 0 ELSE Len(Some(t).frames) + sum[t \ {Some(t)}]
      BY <3>1
    <3>3. sum[t] = IF t = {} THEN 0 ELSE Len(Some(t).frames) + sum[t \ {Some(t)}]
      BY <2>1 DEF AddsUpTo
    <3> QED
      BY <3>2, <3>3
  <2>3. \A s \in Small(S, n + 1) : s # {} => more[s \ {Some(s)}] = sum[s \ {Some(s)}]
    <3> HIDE DEF more
    <3> QED
      BY <1>0, <2>2
  <2>4. more = [s \in Small(S, n + 1) |->
                   IF s = {} THEN 0 ELSE Len(Some(s).frames) + more[s \ {Some(s)}]]
    BY <2>3
  <2>5. AddsUpTo(more, S, n + 1)
    <3> HIDE DEF more
    <3> QED
      BY <2>4 DEF AddsUpTo
  <2> QED
    BY <2>5
<1>3. Nat \subseteq N
  <2> HIDE DEF N
  <2> QED
    BY <1>1, <1>2, NumbersFollow
<1>4. Cardinality(S) \in Nat
  BY FS_CardinalityType
<1>5. PICK sum : AddsUpTo(sum, S, Cardinality(S))
  BY <1>3, <1>4
<1>6. Small(S, Cardinality(S)) = SUBSET S
  BY FS_Subset DEF Small
<1> QED
  BY <1>5, <1>6 DEF AddsUpTo, AddsUp

\* The size is that of a function over the parts of the set, whatever is taken first.
AnyFirst(sum, S) ==
    /\ sum[{}] = 0
    /\ \A s \in SUBSET S :
          sum[s] \in Int /\ \A x \in s : sum[s] = Len(x.frames) + sum[s \ {x}]

LEMMA SizeOfParts ==
    ASSUME NEW S, IsFiniteSet(S), \A x \in S : Len(x.frames) \in Nat
    PROVE  \E sum : Size(S) = sum[S] /\ AnyFirst(sum, S)
<1> DEFINE sum == CHOOSE sum : AddsUp(sum, S)
<1>1. AddsUp(sum, S)
  BY SomeSum
<1>2. Size(S) = sum[S]
  BY SizeIs
<1> HIDE DEF sum
<1>3. sum[{}] = 0
  BY <1>1 DEF AddsUp
<1>4. \A s \in SUBSET S : s # {} => sum[s] = Len(Some(s).frames) + sum[s \ {Some(s)}]
  BY <1>1 DEF AddsUp
<1>a. \A s \in SUBSET S : sum[s] \in Nat
  <2> DEFINE T == {s \in SUBSET S : sum[s] \in Nat}
  <2>1. ASSUME NEW s \in SUBSET S, \A x \in s : s \ {x} \in T PROVE s \in T
    <3>1. CASE s = {}
      BY <1>3, <3>1
    <3>2. CASE s # {}
      <4> DEFINE y == Some(s)
      <4>1. y \in s /\ sum[s] = Len(y.frames) + sum[s \ {y}]
        BY <1>4, <3>2 DEF Some
      <4> HIDE DEF y
      <4>2. sum[s \ {y}] \in Nat /\ Len(y.frames) \in Nat
        BY <2>1, <4>1
      <4> QED
        BY <4>1, <4>2
    <3> QED
      BY <3>1, <3>2
  <2>2. SUBSET S \subseteq T
    <3> HIDE DEF T
    <3> QED
      BY <2>1, SubsetsFollow
  <2> QED
    BY <2>2
<1> DEFINE T == {s \in SUBSET S : \A x \in s : sum[s] = Len(x.frames) + sum[s \ {x}]}
<1>5. ASSUME NEW s \in SUBSET S, \A x \in s : s \ {x} \in T PROVE s \in T
  <2>1. CASE s = {}
    BY <2>1
  <2>2. CASE s # {}
    <3> DEFINE y == Some(s)
    <3>1. y \in s
      BY <2>2 DEF Some
    <3>2. sum[s] = Len(y.frames) + sum[s \ {y}]
      BY <1>4, <2>2
    <3> HIDE DEF y
    <3>4. ASSUME NEW x \in s, x # y PROVE sum[s] = Len(x.frames) + sum[s \ {x}]
      <4>1. sum[s \ {y}] = Len(x.frames) + sum[(s \ {y}) \ {x}]
        BY <1>5, <3>1, <3>4
      <4>2. sum[s \ {x}] = Len(y.frames) + sum[(s \ {x}) \ {y}]
        BY <1>5, <3>1, <3>4
      <4>3. (s \ {x}) \ {y} = (s \ {y}) \ {x} /\ (s \ {x}) \ {y} \in SUBSET S
        OBVIOUS
      <4>4. Len(x.frames) \in Nat /\ Len(y.frames) \in Nat
        BY <3>1
      <4>5. sum[(s \ {x}) \ {y}] \in Nat
        BY <1>a, <4>3
      <4> DEFINE a == sum[(s \ {x}) \ {y}]
                 lx == Len(x.frames)
                 ly == Len(y.frames)
      <4>6. sum[s \ {y}] = lx + a /\ sum[s \ {x}] = ly + a /\ sum[s] = ly + sum[s \ {y}]
        BY <3>2, <4>1, <4>2, <4>3
      <4> HIDE DEF a, lx, ly
      <4>7. lx \in Nat /\ ly \in Nat /\ a \in Nat
        BY <4>4, <4>5 DEF a, lx, ly
      <4>8. sum[s] = lx + sum[s \ {x}]
        BY <4>6, <4>7
      <4> QED
        BY <4>8 DEF lx
    <3> QED
      BY <3>2, <3>4
  <2> QED
    BY <2>1, <2>2
<1>6. SUBSET S \subseteq T
  <2> HIDE DEF T
  <2> QED
    BY <1>5, SubsetsFollow
<1>7. \A s \in SUBSET S : \A x \in s : sum[s] = Len(x.frames) + sum[s \ {x}]
  BY <1>6
<1>8. \A s \in SUBSET S : sum[s] \in Int
  BY <1>a
<1>9. AnyFirst(sum, S)
  BY <1>3, <1>7, <1>8 DEF AnyFirst
<1> QED
  BY <1>2, <1>9

\* A segment more is its frames more.
LEMMA SizeWithout ==
    ASSUME NEW S, IsFiniteSet(S), \A x \in S : Len(x.frames) \in Nat, NEW y \in S
    PROVE  Size(S) \in Int /\ Size(S \ {y}) = Size(S) - Len(y.frames)
<1>1. PICK sum : Size(S) = sum[S] /\ AnyFirst(sum, S)
  BY SizeOfParts
<1> DEFINE R == S \ {y}
<1>2. IsFiniteSet(R) /\ \A x \in R : Len(x.frames) \in Nat
  BY FS_Subset
<1> HIDE DEF R
<1>3. PICK tot : Size(R) = tot[R] /\ AnyFirst(tot, R)
  BY <1>2, SizeOfParts
<1> DEFINE T == {s \in SUBSET R : tot[s] = sum[s]}
<1>4. ASSUME NEW s \in SUBSET R, \A x \in s : s \ {x} \in T PROVE s \in T
  <2>1. CASE s = {}
    BY <2>1, <1>1, <1>3 DEF AnyFirst
  <2>2. CASE s # {}
    <3>1. PICK x \in s : TRUE
      BY <2>2
    <3>2. s \in SUBSET S
      BY DEF R
    <3>3. sum[s] = Len(x.frames) + sum[s \ {x}] /\ tot[s] = Len(x.frames) + tot[s \ {x}]
      BY <1>1, <1>3, <3>2 DEF AnyFirst
    <3> QED
      BY <1>4, <3>3
  <2> QED
    BY <2>1, <2>2
<1>5. SUBSET R \subseteq T
  <2> HIDE DEF T
  <2> QED
    BY <1>2, <1>4, SubsetsFollow
<1>6. tot[R] = sum[R]
  BY <1>5
<1>7. sum[S] \in Int /\ sum[S] = Len(y.frames) + sum[R] /\ sum[R] \in Int /\ Len(y.frames) \in Nat
  <2>1. S \in SUBSET S /\ R \in SUBSET S
    BY DEF R
  <2>2. sum[S] = Len(y.frames) + sum[S \ {y}]
    BY <1>1, <2>1 DEF AnyFirst
  <2> QED
    BY <1>1, <2>1, <2>2 DEF AnyFirst, R
<1> QED
  BY <1>1, <1>3, <1>6, <1>7 DEF R

-----------------------------------------------------------------------------
(* The ring buffer: one task at a time, until something overlaps.          *)

Segmenters ==
    [entry : Configs \cup {None}, rate : {None, 1}, fallback : {None}, pending : Seq(Framed),
     sequence : Nat]
ClosedSegments == [sequence : Nat, start : Nat, duration : Nat, frames : Seq(Framed)]
StoredSegments == [start : Int, duration : Nat, init : Configs, frames : Seq(Configs), at : Nat]
TaskKinds ==
    [at : {"none", "opening", "waiting", "recording", "mp4", "json", "segment",
           "list", "evict", "inits", "doomed"},
     then : {"none", "recording", "waiting"},
     source : Sources \cup {None}, aborted : BOOLEAN, opened : Nat, seg : Segmenters,
     retry : [f : Framed, p : Reported] \cup {None},
     origin : Origins \cup {None}, init : Configs \cup {None},
     closed : ClosedSegments \cup {None}, listed : Seq(StoredSegments), total : Int,
     live : SUBSET Configs, doomed : SUBSET Configs]
ClipKinds ==
    [at : {"none", "nothing", "reshaped", "reading", "gone", "init", "done"},
     from : {r[1] : r \in Ranges} \cup {0}, to : {r[2] : r \in Ranges} \cup {0},
     listed : Seq(StoredSegments), got : Seq(StoredSegments), held : SUBSET StoredSegments]

\* A segmenter that has been told what it gets has something, and knows its clock.
Started(s) ==
    /\ s.pending = <<>> <=> s.entry = None
    /\ s.entry # None => s.rate = 1

AtFiles(k) == k.at \in {"mp4", "json", "segment"}
Prunes(k) == k.at \in {"list", "evict", "inits", "doomed"}

TaskIsSound(k) ==
    /\ k \in TaskKinds
    /\ k.at \in {"none", "opening", "waiting"} => k.seg = NewSegmenter
    /\ k.at = "recording" => Started(k.seg)
    /\ (AtFiles(k) \/ Prunes(k)) /\ k.then # "waiting" /\ k.retry = None => Started(k.seg)
    /\ k.at \notin {"mp4", "json", "segment"} => k.retry = None
    /\ AtFiles(k) => k.closed \in ClosedSegments /\ k.origin # None /\ k.seg.entry # None
    /\ k.at = "segment" => k.init # None

RingKinds ==
    /\ disk.segs \in SUBSET StoredSegments /\ IsFiniteSet(disk.segs)
    /\ disk \in [segs : SUBSET StoredSegments, mp4 : SUBSET Configs, json : SUBSET Configs]
    /\ DOMAIN task = Tasks /\ \A t \in Tasks : TaskIsSound(task[t]) /\ task[t].opened <= now
    /\ encoder \in Configs /\ now \in Nat /\ skew \in Nat
    /\ clip \in ClipKinds

\* The segments that are on disk, and those a clip was asked for.
Known == disk.segs \cup clip.held

\* None was begun after `last`, no two together, and later ones are named for later.
Timeline(S, last) ==
    /\ \A x \in S : x.at <= last /\ x.start <= x.at * Second
    /\ \A x, y \in S : x.at = y.at => x = y
    /\ \A x, y \in S : x.at < y.at => x.start < y.start

\* A run's segments are placed by the clock of its first, which was put where it began or
\* a frame before; whatever else there is was begun before the run.
RunIsPlaced(k, S, clock) ==
    /\ k.opened \in 1 .. clock
    /\ k.origin # None =>
          /\ k.origin.ts \in 1 .. clock - k.opened
          /\ \/ k.origin.wall = (k.opened + k.origin.ts) * Second
             \/ k.origin.wall = (k.opened + k.origin.ts) * Second - Second
    /\ \A x \in S :
          \/ x.at < k.opened
          \/ /\ k.origin # None
             /\ x.start = k.origin.wall + (x.at - k.opened - k.origin.ts) * Second

\* The next segment of a run begins at `ts`, after all there is.
Follows(k, S, ts) ==
    /\ \A x \in S : x.at < k.opened + ts
    /\ k.origin # None => k.origin.ts <= ts

\* What waits for its segment is of the camera's configuration, and after all there is.
Holds(k, S, cfg, clock) ==
    /\ k.seg.entry \in {None, cfg}
    /\ \A i \in DOMAIN k.seg.pending :
          /\ k.seg.pending[i].cfg = k.seg.entry
          /\ k.seg.pending[i].ts \in 1 .. clock - k.opened
    /\ k.seg.pending # <<>> => Follows(k, S, k.seg.pending[1].ts)
    /\ k.init # None => k.init = k.seg.entry

\* Until a first segment is stored no frame of the camera goes unseen.
Consecutive(k, clock) ==
    k.origin = None =>
        \A i \in DOMAIN k.seg.pending :
            k.seg.pending[i].ts = clock - k.opened - Len(k.seg.pending) + i

InsideBudget(segs) == Size(segs) <= Budget \/ Cardinality(segs) = 1

RecordingInv(k, d, S, cfg, clock) ==
    k.at = "recording" =>
        /\ Holds(k, S, cfg, clock) /\ Consecutive(k, clock)
        /\ k.init # None => \E x \in d.segs : x.init = k.init
        /\ k.origin # None => InsideBudget(d.segs)

\* The frame that changed the parameters waits for a new segmenter.
RetryInv(k, cfg, clock) ==
    k.retry # None =>
        /\ k.retry.f.cfg = cfg /\ k.retry.p.cfg = cfg /\ k.retry.f.key
        /\ k.retry.f.ts \in k.closed.start + 1 .. clock - k.opened
        /\ k.then = "recording"

StoringInv(k, d, S, cfg, clock) ==
    AtFiles(k) =>
        /\ \A i \in DOMAIN k.closed.frames : k.closed.frames[i].cfg = k.seg.entry
        /\ Follows(k, S, k.closed.start) /\ k.closed.start \in 1 .. clock - k.opened
        /\ k.at = "json" => k.seg.entry \in d.mp4
        /\ k.at \in {"mp4", "json"} => k.init = None
        /\ k.at = "segment" => k.init = k.seg.entry /\ k.init \in d.mp4 \cap d.json
        /\ k.then \in {"recording", "waiting"}
        /\ k.retry = None /\ k.then = "recording" =>
              Holds(k, S, cfg, clock) /\ k.seg.pending[1].ts > k.closed.start
        /\ RetryInv(k, cfg, clock)

EvictingInv(k, segs) ==
    k.at = "evict" =>
        /\ {k.listed[i] : i \in DOMAIN k.listed} = segs
        /\ \A i, j \in DOMAIN k.listed : i < j => k.listed[i].at < k.listed[j].at
        /\ k.total = Size(segs)

HasNewest(k, segs) ==
    \E x \in segs :
        /\ \A y \in segs : y.at <= x.at
        /\ k.init # None => x.init = k.init

PruningInv(k, d, S, cfg, clock) ==
    Prunes(k) =>
        /\ k.origin # None
        /\ k.then \in {"recording", "waiting"}
        /\ k.then = "recording" => Holds(k, S, cfg, clock)
        /\ HasNewest(k, d.segs)
        /\ EvictingInv(k, d.segs)
        /\ k.at \in {"inits", "doomed"} => InsideBudget(d.segs)
        /\ k.at = "inits" => k.live = {x.init : x \in d.segs}
        /\ k.at = "doomed" => \A x \in d.segs : x.init \notin k.doomed

ClipInv(c, segs) ==
    /\ c.at = "none" => c = NoClip
    /\ c.at \in {"reading", "init", "done"} =>
          /\ c.listed # <<>>
          /\ {c.listed[i] : i \in DOMAIN c.listed} = c.held
          /\ \A i \in DOMAIN c.listed : c.listed[i].init = c.listed[1].init
          /\ Len(c.got) <= Len(c.listed)
          /\ \A i \in 1 .. Len(c.got) : c.got[i] = c.listed[i]
    /\ c.at \in {"init", "done"} => Len(c.got) = Len(c.listed)
    /\ c.at = "gone" => ~(c.held \subseteq segs)

DecodeInv(d) ==
    \A x \in d.segs :
        /\ x.init \in d.mp4 /\ x.init \in d.json
        /\ \A i \in DOMAIN x.frames : x.frames[i] = x.init

OneAtMost(tasks) == \A t, u \in Tasks : tasks[t].at # "none" /\ tasks[u].at # "none" => t = u

TaskInv(k, d, S, cfg, clock) ==
    /\ k.at \in {"recording", "mp4", "json", "segment", "list", "evict", "inits", "doomed"} =>
          RunIsPlaced(k, S, clock)
    /\ k.at \in {"none", "opening", "waiting"} => k.origin = None /\ k.init = None
    /\ RecordingInv(k, d, S, cfg, clock) /\ StoringInv(k, d, S, cfg, clock)
    /\ PruningInv(k, d, S, cfg, clock)

QuietInv ==
    /\ skew = 0 /\ OneAtMost(task) /\ DecodeInv(disk) /\ ClipInv(clip, disk.segs)
    /\ Timeline(Known, now)
    /\ \A t \in Tasks : TaskInv(task[t], disk, Known, encoder, now)

RingInv == RingKinds /\ (Quiet => QuietInv)

\* The frames of the segments that are stored are counted.
LEMMA FramesAreCounted ==
    ASSUME NEW S \in SUBSET StoredSegments
    PROVE  \A x \in S : Len(x.frames) \in Nat
<1> SUFFICES ASSUME NEW x \in S PROVE Len(x.frames) \in Nat
  OBVIOUS
<1>1. x.frames \in Seq(Configs)
  BY DEF StoredSegments
<1> QED
  BY <1>1, LenProperties

\* Of finitely many segments one is the last.
LEMMA SomeLast ==
    ASSUME NEW S \in SUBSET StoredSegments, IsFiniteSet(S)
    PROVE  \A s \in SUBSET S : s # {} => \E x \in s : \A y \in s : Before(y, x)
<1> DEFINE T == {s \in SUBSET S : s # {} => \E x \in s : \A y \in s : Before(y, x)}
<1>0. /\ \A x, y \in S : Before(x, y) \/ Before(y, x)
      /\ \A x, y, z \in S : Before(x, y) /\ Before(y, z) => Before(x, z)
  <2>1. \A x \in S : x.start \in Int /\ x.duration \in Int
    BY DEF StoredSegments
  <2>2. \A x, y \in S : Before(x, y) \/ Before(y, x)
    BY <2>1 DEF Before
  <2>3. \A x, y, z \in S : Before(x, y) /\ Before(y, z) => Before(x, z)
    BY <2>1 DEF Before
  <2> QED
    BY <2>2, <2>3
<1>1. ASSUME NEW s \in SUBSET S, \A x \in s : s \ {x} \in T PROVE s \in T
  <2> SUFFICES ASSUME NEW x \in s PROVE \E z \in s : \A y \in s : Before(y, z)
    OBVIOUS
  <2>1. Before(x, x)
    BY <1>0
  <2>2. CASE s \ {x} = {}
    BY <2>1, <2>2
  <2>3. CASE s \ {x} # {}
    <3>1. PICK z \in s \ {x} : \A y \in s \ {x} : Before(y, z)
      BY <1>1, <2>3
    <3>2. CASE Before(x, z)
      BY <3>1, <3>2
    <3>3. CASE ~Before(x, z)
      BY <1>0, <2>1, <3>1, <3>3
    <3> QED
      BY <3>2, <3>3
  <2> QED
    BY <2>2, <2>3
<1>2. SUBSET S \subseteq T
  <2> HIDE DEF T
  <2> QED
    BY <1>1, SubsetsFollow
<1> QED
  BY <1>2

\* What a listing is.
InOrder(q, S) ==
    /\ q \in [1 .. Cardinality(S) -> S]
    /\ \A x \in S : \E i \in DOMAIN q : q[i] = x
    /\ \A i, j \in DOMAIN q : i < j => Before(q[i], q[j])

LEMMA SomeOrder ==
    ASSUME NEW S \in SUBSET StoredSegments, IsFiniteSet(S)
    PROVE  \E q : InOrder(q, S)
<1> DEFINE T == {s \in SUBSET S : \E q : InOrder(q, s)}
<1>1. ASSUME NEW s \in SUBSET S, \A x \in s : s \ {x} \in T PROVE s \in T
  <2>0. IsFiniteSet(s) /\ Cardinality(s) \in Nat
    BY FS_Subset, FS_CardinalityType
  <2>1. CASE s = {}
    <3>1. Cardinality(s) = 0
      BY <2>1, FS_EmptySet
    <3> DEFINE q == [i \in 1 .. 0 |-> i]
    <3>2. InOrder(q, s)
      BY <2>1, <3>1 DEF InOrder
    <3> QED
      BY <3>2
  <2>2. CASE s # {}
    <3>5. PICK x \in s : \A y \in s : Before(y, x)
      BY <2>2, SomeLast
    <3>6. \A y \in s \ {x} : Before(y, x)
      BY <3>5
    <3> DEFINE c == Cardinality(s \ {x})
    <3>7. c \in Nat /\ Cardinality(s) = c + 1
      <4>1. c = Cardinality(s) - 1 /\ IsFiniteSet(s \ {x})
        BY <2>0, FS_RemoveElement
      <4> QED
        BY <2>0, <4>1, FS_CardinalityType
    <3>8. PICK q : InOrder(q, s \ {x})
      BY <1>1
    <3>9. q \in [1 .. c -> s \ {x}] /\ DOMAIN q = 1 .. c
      BY <3>8 DEF InOrder
    <3> HIDE DEF c
    <3> DEFINE r == [i \in 1 .. c + 1 |-> IF i = c + 1 THEN x ELSE q[i]]
    <3>10. \A i \in 1 .. c + 1 : i # c + 1 => i \in 1 .. c /\ q[i] \in s \ {x}
      BY <3>7, <3>9
    <3>11. r \in [1 .. Cardinality(s) -> s]
      BY <3>7, <3>10
    <3>12. \A y \in s : \E i \in DOMAIN r : r[i] = y
      <4> SUFFICES ASSUME NEW y \in s PROVE \E i \in 1 .. c + 1 : r[i] = y
        OBVIOUS
      <4>1. CASE y = x
        <5>1. c + 1 \in 1 .. c + 1 /\ r[c + 1] = x
          BY <3>7
        <5> QED
          BY <5>1, <4>1
      <4>2. CASE y # x
        <5>1. PICK i \in 1 .. c : q[i] = y
          BY <3>8, <3>9, <4>2 DEF InOrder
        <5>2. i \in 1 .. c + 1 /\ i # c + 1
          BY <3>7
        <5>3. r[i] = y
          BY <5>1, <5>2
        <5> QED
          BY <5>2, <5>3
      <4> QED
        BY <4>1, <4>2
    <3>13. \A i, j \in DOMAIN r : i < j => Before(r[i], r[j])
      <4> SUFFICES ASSUME NEW i \in 1 .. c + 1, NEW j \in 1 .. c + 1, i < j PROVE Before(r[i], r[j])
        OBVIOUS
      <4>1. i # c + 1 /\ i \in 1 .. c /\ r[i] = q[i] /\ q[i] \in s \ {x}
        BY <3>7, <3>10
      <4>2. CASE j = c + 1
        BY <3>6, <4>1, <4>2
      <4>3. CASE j # c + 1
        <5>1. j \in 1 .. c /\ r[j] = q[j]
          BY <3>7, <4>3
        <5>2. Before(q[i], q[j])
          BY <3>8, <3>9, <4>1, <5>1 DEF InOrder
        <5> QED
          BY <4>1, <5>1, <5>2
      <4> QED
        BY <4>2, <4>3
    <3>14. InOrder(r, s)
      <4> HIDE DEF r
      <4> QED
        BY <3>11, <3>12, <3>13 DEF InOrder
    <3> QED
      BY <3>14
  <2> QED
    BY <2>1, <2>2
<1>2. SUBSET S \subseteq T
  <2> HIDE DEF T
  <2> QED
    BY <1>1, SubsetsFollow
<1> QED
  BY <1>2

\* So segments lists all there is, each once, in the order of their names ...
LEMMA SortedIs ==
    ASSUME NEW S \in SUBSET StoredSegments, IsFiniteSet(S)
    PROVE  /\ Sorted(S) \in Seq(S) /\ Len(Sorted(S)) = Cardinality(S)
           /\ {Sorted(S)[i] : i \in DOMAIN Sorted(S)} = S
           /\ \A i, j \in DOMAIN Sorted(S) : i < j => Before(Sorted(S)[i], Sorted(S)[j]) /\ Sorted(S)[i] # Sorted(S)[j]
<1> DEFINE n == Cardinality(S)
           Lists(q) == /\ \A x \in S : \E i \in DOMAIN q : q[i] = x
                       /\ \A i, j \in DOMAIN q : i < j => Before(q[i], q[j])
           q == CHOOSE q \in [1 .. n -> S] : Lists(q)
<1>0. n \in Nat
  BY FS_CardinalityType
<1>1. \E r \in [1 .. n -> S] : Lists(r)
  <2>1. PICK r : InOrder(r, S)
    BY SomeOrder
  <2> QED
    BY <2>1 DEF InOrder
<1>2. q \in [1 .. n -> S] /\ Lists(q)
  BY <1>1
<1>3. Sorted(S) = q
  BY DEF Sorted
<1> HIDE DEF q
<1>4. q \in Seq(S) /\ Len(q) = n /\ DOMAIN q = 1 .. n
  BY <1>0, <1>2
<1>5. {q[i] : i \in DOMAIN q} = S
  BY <1>2
<1>6. ASSUME NEW i \in 1 .. n, NEW j \in 1 .. n, q[i] = q[j] PROVE i = j
  <2>1. q \in Surjection(1 .. n, S)
    BY <1>2, <1>5 DEF Surjection, Range
  <2>2. IsFiniteSet(1 .. n) /\ Cardinality(1 .. n) = n
    BY <1>0, FS_Interval
  <2>3. q \in Injection(1 .. n, S)
    BY <2>1, <2>2, FS_SurjSameCardinalityImpliesInj
  <2> QED
    BY <1>6, <2>3 DEF Injection, IsInjective
<1>7. \A i, j \in 1 .. n : i < j => Before(q[i], q[j]) /\ q[i] # q[j]
  BY <1>0, <1>2, <1>4, <1>6
<1> QED
  BY <1>3, <1>4, <1>5, <1>7

\* ... which is the order in which they were recorded.
LEMMA SortedIsInOrder ==
    ASSUME NEW S \in SUBSET StoredSegments, IsFiniteSet(S), NEW last \in Nat, Timeline(S, last)
    PROVE  \A i, j \in DOMAIN Sorted(S) : i < j => Sorted(S)[i].at < Sorted(S)[j].at
<1> DEFINE q == Sorted(S)
<1>0. q \in Seq(S)
  BY SortedIs
<1>1. DOMAIN q = 1 .. Len(q) /\ Len(q) \in Nat
  BY <1>0, LenProperties
<1>2. \A i, j \in DOMAIN q : i < j => Before(q[i], q[j]) /\ q[i] # q[j]
  BY SortedIs
<1> HIDE DEF q
<1>7. ASSUME NEW i \in 1 .. Len(q), NEW j \in 1 .. Len(q), i < j PROVE q[i].at < q[j].at
  <2>1. q[i] \in S /\ q[j] \in S
    BY <1>0, ElementOfSeq
  <2>0. q[i] # q[j] /\ Before(q[i], q[j])
    BY <1>1, <1>2, <1>7
  <2>2. q[i].at # q[j].at /\ q[i].at \in Nat /\ q[j].at \in Nat
    BY <2>0, <2>1 DEF Timeline, StoredSegments
  <2>4. q[i].start <= q[j].start /\ q[i].start \in Int /\ q[j].start \in Int
    BY <2>0, <2>1 DEF Before, StoredSegments
  <2>5. ~(q[j].at < q[i].at)
    BY <2>1, <2>4 DEF Timeline
  <2> QED
    BY <2>2, <2>5
<1> QED
  BY <1>1, <1>7 DEF q

-----------------------------------------------------------------------------
(* What the segmenter makes of frames.                                     *)

\* Milliseconds grow with the frames.
LEMMA Milliseconds ==
    /\ Second \in Nat \ {0}
    /\ \A a \in Int : a * Second \in Int /\ TicksToMs(a, 1) = a * Second
    /\ \A a, b \in Int : (a + b) * Second = a * Second + b * Second /\ (a - b) * Second = a * Second - b * Second
    /\ \A a, b \in Int : a < b => a * Second + Second <= b * Second
    /\ \A a, b \in Int : a <= b => a * Second <= b * Second
    /\ \A a \in Nat : a * Second \in Nat
<1>1. Second \in Nat \ {0}
  BY RingAssumption
<1>2. \A a \in Int : a * Second \in Int /\ TicksToMs(a, 1) = a * Second
  BY <1>1 DEF TicksToMs
<1>3. \A a, b \in Int : (a + b) * Second = a * Second + b * Second /\ (a - b) * Second = a * Second - b * Second
  BY <1>1
<1>4. \A a, b \in Int : a < b => a * Second + Second <= b * Second
  <2> SUFFICES ASSUME NEW a \in Int, NEW b \in Int, a < b PROVE a * Second + Second <= b * Second
    OBVIOUS
  <2>1. PICK d \in Nat : b = a + 1 + d
    <3>1. b - a - 1 \in Nat /\ b = a + 1 + (b - a - 1)
      OBVIOUS
    <3> QED
      BY <3>1
  <2>2. b * Second = a * Second + Second + d * Second /\ d * Second >= 0
    BY <1>1, <2>1
  <2> QED
    BY <1>1, <2>2
<1>5. \A a, b \in Int : a <= b => a * Second <= b * Second
  BY <1>1, <1>4
<1>6. \A a \in Nat : a * Second \in Nat
  BY <1>1
<1> QED
  BY <1>1, <1>2, <1>3, <1>4, <1>5, <1>6

\* Total goes through what it adds up, from the first on.
SumsUp(sum, lengths) ==
    sum = [i \in 0 .. Len(lengths) |-> IF i = 0 THEN 0 ELSE sum[i - 1] + lengths[i]]

LEMMA SomeTotal ==
    ASSUME NEW lengths, Len(lengths) \in Nat
    PROVE  \E sum : SumsUp(sum, lengths)
<1> DEFINE To(sum, n) == sum = [i \in 0 .. n |-> IF i = 0 THEN 0 ELSE sum[i - 1] + lengths[i]]
           N == {n \in Nat : \E sum : To(sum, n)}
<1>1. 0 \in N
  <2> DEFINE zero == [i \in 0 .. 0 |-> 0]
  <2>1. To(zero, 0)
    OBVIOUS
  <2> QED
    BY <2>1
<1>2. ASSUME NEW n \in Nat, n \in N PROVE n + 1 \in N
  <2>1. PICK sum : To(sum, n)
    BY <1>2
  <2> DEFINE more == [i \in 0 .. n + 1 |-> IF i = n + 1 THEN sum[n] + lengths[n + 1] ELSE sum[i]]
  <2>2. \A i \in 0 .. n + 1 : more[i] = IF i = 0 THEN 0 ELSE more[i - 1] + lengths[i]
    <3> SUFFICES ASSUME NEW i \in 0 .. n + 1 PROVE more[i] = IF i = 0 THEN 0 ELSE more[i - 1] + lengths[i]
      OBVIOUS
    <3>1. CASE i = n + 1
      <4>1. more[n] = sum[n] /\ i - 1 = n /\ i # 0
        BY <3>1
      <4> QED
        BY <3>1, <4>1
    <3>2. CASE i # n + 1
      <4>1. i \in 0 .. n /\ more[i] = sum[i]
        BY <3>2
      <4>2. sum[i] = IF i = 0 THEN 0 ELSE sum[i - 1] + lengths[i]
        BY <2>1, <4>1
      <4>3. i # 0 => i - 1 \in 0 .. n + 1 /\ i - 1 # n + 1
        BY <4>1
      <4>4. i # 0 => more[i - 1] = sum[i - 1]
        BY <4>3
      <4> HIDE DEF more
      <4> QED
        BY <4>1, <4>2, <4>4
    <3> QED
      BY <3>1, <3>2
  <2>3. more = [i \in 0 .. n + 1 |-> more[i]]
    OBVIOUS
  <2>4. To(more, n + 1)
    <3> HIDE DEF more
    <3> QED
      BY <2>2, <2>3
  <2>5. \E f : To(f, n + 1)
    <3> HIDE DEF more, To
    <3> QED
      BY <2>4
  <2> QED
    BY <2>5
<1>3. Nat \subseteq N
  <2> HIDE DEF N
  <2> QED
    BY <1>1, <1>2, NumbersFollow
<1>4. PICK sum : To(sum, Len(lengths))
  BY <1>3
<1> QED
  BY <1>4 DEF SumsUp

\* A total of numbers is one, and of n ones it is n.
LEMMA TotalIs ==
    ASSUME NEW n \in Nat, NEW lengths \in [1 .. n -> Nat]
    PROVE  Total(lengths) \in Nat /\ ((\A i \in 1 .. n : lengths[i] = 1) => Total(lengths) = n)
<1>1. Len(lengths) = n
  OBVIOUS
<1> DEFINE sum == CHOOSE f : SumsUp(f, lengths)
<1>2. SumsUp(sum, lengths)
  BY <1>1, SomeTotal
<1>3. Total(lengths) = sum[n]
  BY <1>1 DEF Total, SumsUp
<1> HIDE DEF sum
<1>4. \A i \in 0 .. n : sum[i] = IF i = 0 THEN 0 ELSE sum[i - 1] + lengths[i]
  BY <1>1, <1>2 DEF SumsUp
<1> DEFINE ones == \A i \in 1 .. n : lengths[i] = 1
           T == {m \in Nat : m <= n => sum[m] \in Nat /\ (ones => sum[m] = m)}
<1>5. 0 \in T
  BY <1>4
<1>6. ASSUME NEW m \in Nat, m \in T PROVE m + 1 \in T
  <2> SUFFICES ASSUME m + 1 <= n PROVE sum[m + 1] \in Nat /\ (ones => sum[m + 1] = m + 1)
    OBVIOUS
  <2>1. sum[m + 1] = sum[m] + lengths[m + 1]
    <3>1. m + 1 \in 0 .. n /\ m + 1 # 0 /\ (m + 1) - 1 = m
      OBVIOUS
    <3> QED
      BY <1>4, <3>1
  <2>2. sum[m] \in Nat /\ (ones => sum[m] = m) /\ lengths[m + 1] \in Nat /\ (ones => lengths[m + 1] = 1)
    BY <1>6
  <2> QED
    BY <2>1, <2>2
<1>7. Nat \subseteq T
  <2> HIDE DEF T
  <2> QED
    BY <1>5, <1>6, NumbersFollow
<1>8. n \in T
  BY <1>7
<1> QED
  BY <1>3, <1>8

\* How long a frame lasts is found from those before it.
Gap(s, next, i) ==
    IF i < Len(s.pending) THEN s.pending[i + 1].ts - s.pending[i].ts
    ELSE IF next = None THEN 0 ELSE next - s.pending[i].ts

LastsFirst(s) == IF s.fallback = None THEN Max2(s.rate \div 25, 1) ELSE s.fallback

LastsAsSent(last, s, next, m) ==
    last = [i \in 0 .. m |->
               IF i = 0 THEN LastsFirst(s)
               ELSE IF Gap(s, next, i) > 0 THEN Gap(s, next, i) ELSE last[i - 1]]

LEMMA SomeLasting ==
    ASSUME NEW s, NEW next, NEW m \in Nat
    PROVE  \E last : LastsAsSent(last, s, next, m)
<1> DEFINE N == {n \in Nat : \E last : LastsAsSent(last, s, next, n)}
<1>1. 0 \in N
  <2> DEFINE one == [i \in 0 .. 0 |-> LastsFirst(s)]
  <2>1. LastsAsSent(one, s, next, 0)
    BY DEF LastsAsSent
  <2> QED
    BY <2>1
<1>2. ASSUME NEW n \in Nat, n \in N PROVE n + 1 \in N
  <2>1. PICK last : LastsAsSent(last, s, next, n)
    BY <1>2
  <2> DEFINE step(i, before) == IF Gap(s, next, i) > 0 THEN Gap(s, next, i) ELSE before
             more == [i \in 0 .. n + 1 |-> IF i = n + 1 THEN step(n + 1, last[n]) ELSE last[i]]
  <2>a. \A i \in 0 .. n : last[i] = IF i = 0 THEN LastsFirst(s) ELSE step(i, last[i - 1])
    BY <2>1 DEF LastsAsSent
  <2> HIDE DEF step
  <2>2. \A i \in 0 .. n + 1 : more[i] = IF i = 0 THEN LastsFirst(s) ELSE step(i, more[i - 1])
    <3> SUFFICES ASSUME NEW i \in 0 .. n + 1
                 PROVE  more[i] = IF i = 0 THEN LastsFirst(s) ELSE step(i, more[i - 1])
      OBVIOUS
    <3>1. CASE i = n + 1
      <4>1. more[n] = last[n] /\ i - 1 = n /\ i # 0
        BY <3>1
      <4> QED
        BY <3>1, <4>1
    <3>2. CASE i # n + 1
      <4>1. i \in 0 .. n /\ more[i] = last[i]
        BY <3>2
      <4>2. last[i] = IF i = 0 THEN LastsFirst(s) ELSE step(i, last[i - 1])
        BY <2>a, <4>1
      <4>3. i # 0 => i - 1 \in 0 .. n + 1 /\ i - 1 # n + 1
        BY <4>1
      <4>4. i # 0 => more[i - 1] = last[i - 1]
        BY <4>3
      <4> HIDE DEF more
      <4> QED
        BY <4>1, <4>2, <4>4
    <3> QED
      BY <3>1, <3>2
  <2>3. more = [i \in 0 .. n + 1 |-> more[i]]
    OBVIOUS
  <2>4. LastsAsSent(more, s, next, n + 1)
    <3> HIDE DEF more
    <3>1. more = [i \in 0 .. n + 1 |-> IF i = 0 THEN LastsFirst(s) ELSE step(i, more[i - 1])]
      BY <2>2, <2>3
    <3> QED
      BY <3>1 DEF LastsAsSent, step
  <2>5. \E f : LastsAsSent(f, s, next, n + 1)
    <3> HIDE DEF more
    <3> QED
      BY <2>4
  <2> QED
    BY <2>5
<1>3. Nat \subseteq N
  <2> HIDE DEF N
  <2> QED
    BY <1>1, <1>2, NumbersFollow
<1> QED
  BY <1>3

\* Frames that came one after another.
InStep(s, next) ==
    /\ \A i \in 1 .. Len(s.pending) - 1 : s.pending[i + 1].ts - s.pending[i].ts = 1
    /\ next = None \/ next - s.pending[Len(s.pending)].ts = 1

LEMMA DurationsAre ==
    ASSUME NEW s \in Segmenters, s.rate = 1, NEW next \in Nat \cup {None}
    PROVE  /\ Durations(s, next) \in [1 .. Len(s.pending) -> Nat]
           /\ InStep(s, next) => \A i \in 1 .. Len(s.pending) : Durations(s, next)[i] = 1
<1> DEFINE n == Len(s.pending)
<1>1. s.pending \in Seq(Framed) /\ s.fallback = None
  BY DEF Segmenters
<1>2. n \in Nat /\ \A i \in 1 .. n : s.pending[i].ts \in Nat
  <2>1. \A i \in 1 .. n : s.pending[i] \in Framed
    BY <1>1, ElementOfSeq
  <2> QED
    BY <1>1, <2>1, LenProperties DEF Framed
<1>3. \A i \in 1 .. n : Gap(s, next, i) \in Int /\ (InStep(s, next) => Gap(s, next, i) \in {0, 1})
  <2> SUFFICES ASSUME NEW i \in 1 .. n
               PROVE  Gap(s, next, i) \in Int /\ (InStep(s, next) => Gap(s, next, i) \in {0, 1})
    OBVIOUS
  <2>1. CASE i < n
    <3>1. i + 1 \in 1 .. n /\ i \in 1 .. n - 1
      BY <2>1, <1>2
    <3> QED
      BY <2>1, <3>1, <1>2 DEF Gap, InStep
  <2>2. CASE i = n
    <3>1. CASE next = None
      BY <2>2, <3>1, <1>2 DEF Gap
    <3>2. CASE next # None
      BY <2>2, <3>2, <1>2 DEF Gap, InStep
    <3> QED
      BY <3>1, <3>2
  <2> QED
    BY <2>1, <2>2, <1>2
<1> DEFINE lasts == CHOOSE last : LastsAsSent(last, s, next, n)
<1>4. LastsAsSent(lasts, s, next, n)
  BY <1>2, SomeLasting
<1>5. Durations(s, next) = [i \in 1 .. n |-> lasts[i]]
  BY Zenon DEF Durations, LastsAsSent, Gap, LastsFirst
<1> HIDE DEF lasts
<1>6. LastsFirst(s) = 1
  BY <1>1 DEF LastsFirst, Max2
<1>7. \A i \in 0 .. n : lasts[i] = IF i = 0 THEN 1 ELSE IF Gap(s, next, i) > 0 THEN Gap(s, next, i) ELSE lasts[i - 1]
  BY <1>4, <1>6 DEF LastsAsSent
<1> DEFINE T == {m \in Nat : m <= n => lasts[m] \in Nat /\ (InStep(s, next) => lasts[m] = 1)}
<1>8. 0 \in T
  BY <1>2, <1>7
<1>9. ASSUME NEW m \in Nat, m \in T PROVE m + 1 \in T
  <2> SUFFICES ASSUME m + 1 <= n PROVE lasts[m + 1] \in Nat /\ (InStep(s, next) => lasts[m + 1] = 1)
    OBVIOUS
  <2>1. m + 1 \in 1 .. n /\ m + 1 \in 0 .. n /\ m + 1 # 0 /\ (m + 1) - 1 = m
    BY <1>2
  <2>2. lasts[m + 1] = IF Gap(s, next, m + 1) > 0 THEN Gap(s, next, m + 1) ELSE lasts[m]
    BY <1>7, <2>1
  <2>3. lasts[m] \in Nat /\ (InStep(s, next) => lasts[m] = 1)
    BY <1>9, <1>2
  <2>4. Gap(s, next, m + 1) \in Int /\ (InStep(s, next) => Gap(s, next, m + 1) \in {0, 1})
    BY <1>3, <2>1
  <2> QED
    BY <2>2, <2>3, <2>4
<1>10. Nat \subseteq T
  <2> HIDE DEF T
  <2> QED
    BY <1>8, <1>9, NumbersFollow
<1>11. \A i \in 1 .. n : lasts[i] \in Nat /\ (InStep(s, next) => lasts[i] = 1)
  BY <1>2, <1>10
<1> QED
  BY <1>5, <1>11

\* A segment is the frames that were pending, from the first one's time.
LEMMA CloseIs ==
    ASSUME NEW s \in Segmenters, s.rate = 1, s.pending # <<>>, NEW next \in Nat \cup {None}
    PROVE  /\ Close(s, next) \in ClosedSegments
           /\ Close(s, next).start = s.pending[1].ts /\ Close(s, next).frames = s.pending
           /\ InStep(s, next) => Close(s, next).duration = Len(s.pending)
<1>1. s.pending \in Seq(Framed) /\ s.sequence \in Nat
  BY DEF Segmenters
<1>2. Len(s.pending) \in Nat /\ 1 \in 1 .. Len(s.pending)
  BY <1>1, EmptySeq
<1>3. s.pending[1].ts \in Nat
  <2>1. s.pending[1] \in Framed
    BY <1>1, <1>2, ElementOfSeq
  <2> QED
    BY <2>1 DEF Framed
<1> DEFINE n == Len(s.pending)
           d == Durations(s, next)
<1>4. d \in [1 .. n -> Nat] /\ (InStep(s, next) => \A i \in 1 .. n : d[i] = 1)
  BY DurationsAre
<1> HIDE DEF d
<1>5. Total(d) \in Nat /\ (InStep(s, next) => Total(d) = n)
  BY <1>2, <1>4, TotalIs
<1>6. Close(s, next) = [sequence |-> s.sequence, start |-> s.pending[1].ts, duration |-> Total(d), frames |-> s.pending]
  BY DEF Close, d
<1> QED
  BY <1>1, <1>3, <1>5, <1>6 DEF ClosedSegments

\* What push does with a frame of the camera, case by case.
Comes(s, f, p) ==
    /\ s \in Segmenters /\ Started(s) /\ f \in Framed
    /\ p = [cfg |-> f.cfg, frame |-> None, sound |-> TRUE]
    /\ f.fresh = (f.key /\ s.entry \notin {None, f.cfg})

Opens(s, f) == [s EXCEPT !.entry = f.cfg, !.rate = 1, !.fallback = None, !.pending = <<f>>]
With(s, f) == [s EXCEPT !.entry = IF f.fresh THEN f.cfg ELSE @]

LEMMA PushIs ==
    ASSUME NEW s, NEW f, NEW p, Comes(s, f, p)
    PROVE  \/ s.entry = None /\ ~f.key /\ Push(s, f, p) = Pushed("nothing", s, None)
           \/ s.entry = None /\ f.key /\ Push(s, f, p) = Pushed("nothing", Opens(s, f), None)
           \/ /\ s.entry # None /\ f.key /\ f.fresh /\ s.entry # f.cfg /\ s.entry.form # f.cfg.form
              /\ Push(s, f, p) = Pushed("changed", s, None)
           \/ /\ s.entry # None /\ (f.fresh => s.entry.form = f.cfg.form)
              /\ \/ Push(s, f, p) = Pushed("nothing", Take(With(s, f), f), None)
                 \/ Push(s, f, p) = Pushed("segment", Take(Closed(With(s, f)), f), Close(With(s, f), f.ts))
<1> USE DEF Comes
<1>0. f.rate = 1 /\ p # None /\ p.sound /\ p.cfg = f.cfg /\ p.frame = None /\ f.cfg \in Configs /\ f.cfg # None
  <2>1. p \in Reported
    BY DEF Framed, Reported
  <2> QED
    BY <2>1, RingAssumption DEF Framed
<1>1. s = [entry |-> s.entry, rate |-> s.rate, fallback |-> s.fallback, pending |-> s.pending, sequence |-> s.sequence]
      /\ s.fallback = None /\ s.rate \in {None, 1} /\ s.entry \in Configs \cup {None}
  BY DEF Segmenters
<1>2. CASE s.entry = None
  <2>1. s.pending = <<>> /\ ~f.fresh
    BY <1>2 DEF Started
  <2>2. CASE ~f.key
    BY <1>2, <2>1, <2>2 DEF Push, Undecodable
  <2>3. CASE f.key
    <3>1. ~Undecodable(s, f) /\ Describes(s, f) /\ ~Reshaped(s, p)
      BY <1>2, <2>3 DEF Undecodable, Describes, Reshaped
    <3>2. Described(s, f, p) = [s EXCEPT !.entry = f.cfg, !.fallback = None]
      BY <1>0, <3>1 DEF Described
    <3> DEFINE d == [s EXCEPT !.entry = f.cfg, !.fallback = None]
               c == [s EXCEPT !.entry = f.cfg, !.fallback = None, !.rate = 1]
    <3>3. d.rate = s.rate /\ Clocked(d, f) = c
      BY <1>0, <1>1 DEF Clocked
    <3>4. ~Closes(c, f)
      BY <1>1, <2>1 DEF Closes
    <3>5. Take(c, f) = Opens(s, f)
      <4>1. Append(<<>>, f) = <<f>>
        OBVIOUS
      <4> QED
        BY <1>1, <2>1, <4>1 DEF Take, Opens
    <3> HIDE DEF c
    <3>6. Push(s, f, p) = Pushed("nothing", Take(c, f), None)
      BY <1>0, <1>1, <3>1, <3>2, <3>3, <3>4 DEF Push
    <3> QED
      BY <1>2, <2>3, <3>5, <3>6
  <2> QED
    BY <2>2, <2>3
<1>3. CASE s.entry # None
  <2>1. s.rate = 1 /\ s.pending # <<>> /\ ~Undecodable(s, f) /\ (Describes(s, f) <=> f.fresh)
    BY <1>3 DEF Started, Undecodable, Describes
  <2>2. CASE f.fresh /\ s.entry.form # f.cfg.form
    BY <1>0, <1>3, <2>1, <2>2 DEF Push, Reshaped
  <2>3. CASE f.fresh => s.entry.form = f.cfg.form
    <3> DEFINE d == With(s, f)
    <3>1. Described(s, f, p) = d
      <4>1. CASE f.fresh
        <5>1. Described(s, f, p) = [s EXCEPT !.entry = f.cfg, !.fallback = None]
          BY <1>0, <2>1, <4>1 DEF Described
        <5> QED
          BY <1>1, <4>1, <5>1 DEF With
      <4>2. CASE ~f.fresh
        BY <1>1, <2>1, <4>2 DEF Described, With
      <4> QED
        BY <4>1, <4>2
    <3>2. ~(Describes(s, f) /\ Reshaped(s, p))
      BY <1>0, <2>1, <2>3 DEF Reshaped
    <3>3. d.rate = 1
      BY <1>1, <2>1 DEF With
    <3>4. Clocked(d, f) = d
      <4>1. d = [d EXCEPT !.rate = 1]
        BY <1>1, <2>1 DEF With
      <4> HIDE DEF d
      <4> QED
        BY <3>3, <4>1, <1>0 DEF Clocked
    <3> HIDE DEF d
    <3>5. Push(s, f, p) = IF Closes(d, f) THEN Pushed("segment", Take(Closed(d), f), Close(d, f.ts))
                          ELSE Pushed("nothing", Take(d, f), None)
      BY <1>0, <2>1, <3>1, <3>2, <3>3, <3>4 DEF Push
    <3> QED
      BY <1>3, <2>3, <3>5 DEF d
  <2> QED
    BY <2>2, <2>3
<1> QED
  BY <1>2, <1>3

\* A segmenter remains one.
LEMMA SegmentersStay ==
    ASSUME NEW s \in Segmenters, NEW f \in Framed
    PROVE  /\ With(s, f) \in Segmenters /\ With(s, f).pending = s.pending /\ With(s, f).rate = s.rate
           /\ With(s, f).entry = IF f.fresh THEN f.cfg ELSE s.entry
           /\ Opens(s, f) \in Segmenters /\ Opens(s, f).entry = f.cfg /\ Opens(s, f).rate = 1
           /\ Opens(s, f).pending = <<f>>
           /\ Closed(s) \in Segmenters /\ Closed(s).pending = <<>> /\ Closed(s).entry = s.entry
           /\ Closed(s).rate = s.rate
           /\ Take(s, f) \in Segmenters /\ Take(s, f).pending = Append(s.pending, f)
           /\ Take(s, f).entry = s.entry /\ Take(s, f).rate = s.rate
<1>1. s.pending \in Seq(Framed) /\ s.entry \in Configs \cup {None}
  BY DEF Segmenters
<1>2. f.cfg \in Configs
  BY DEF Framed
<1>3. Append(s.pending, f) \in Seq(Framed) /\ <<f>> \in Seq(Framed) /\ <<>> \in Seq(Framed)
  BY <1>1
<1> DEFINE e == IF f.fresh THEN f.cfg ELSE s.entry
           q == Append(s.pending, f)
           one == <<f>>
           c == f.cfg
<1>4. e \in Configs \cup {None} /\ With(s, f) = [s EXCEPT !.entry = e]
  BY <1>1, <1>2 DEF With
<1> HIDE DEF e, q, one, c
<1>5. With(s, f) \in Segmenters /\ With(s, f).pending = s.pending /\ With(s, f).rate = s.rate /\ With(s, f).entry = e
  BY <1>4 DEF Segmenters
<1>6. Opens(s, f) = [s EXCEPT !.entry = c, !.rate = 1, !.fallback = None, !.pending = one]
  BY DEF Opens, c, one
<1>7. c \in Configs /\ one \in Seq(Framed) /\ q \in Seq(Framed)
  BY <1>2, <1>3 DEF c, one, q
<1>8. /\ Opens(s, f) \in Segmenters /\ Opens(s, f).entry = c /\ Opens(s, f).rate = 1
      /\ Opens(s, f).pending = one
  BY <1>6, <1>7 DEF Segmenters
<1>9. Closed(s) \in Segmenters /\ Closed(s).pending = <<>> /\ Closed(s).entry = s.entry /\ Closed(s).rate = s.rate
  <2> DEFINE m == s.sequence + 1
  <2>1. m \in Nat /\ Closed(s) = [s EXCEPT !.pending = <<>>, !.sequence = m]
    BY DEF Segmenters, Closed
  <2> HIDE DEF m
  <2> QED
    BY <1>3, <2>1 DEF Segmenters
<1>10. Take(s, f) = [s EXCEPT !.pending = q]
  BY DEF Take, q
<1>11. Take(s, f) \in Segmenters /\ Take(s, f).pending = q /\ Take(s, f).entry = s.entry /\ Take(s, f).rate = s.rate
  BY <1>7, <1>10 DEF Segmenters
<1> QED
  BY <1>5, <1>8, <1>9, <1>11 DEF e, q, one, c

LEMMA NewIsSegmenter ==
    NewSegmenter \in Segmenters /\ NewSegmenter.entry = None /\ NewSegmenter.pending = <<>> /\ Started(NewSegmenter)
  BY DEF NewSegmenter, Segmenters, Started

LEMMA NoTaskIsSound == TaskIsSound(NoTask) /\ NoTask.opened = 0 /\ NoTask.at = "none" /\ NoTask.origin = None /\ NoTask.init = None
<1>1. NoTask \in TaskKinds
  <2>1. <<>> \in Seq(StoredSegments)
    OBVIOUS
  <2> QED
    BY <2>1, NewIsSegmenter DEF NoTask, TaskKinds
<1>2. NoTask.at = "none" /\ NoTask.seg = NewSegmenter /\ NoTask.retry = None /\ NoTask.opened = 0 /\ NoTask.origin = None
      /\ NoTask.init = None
  BY DEF NoTask
<1> QED
  BY <1>1, <1>2 DEF TaskIsSound, AtFiles, Prunes

LEMMA IdleIsSound ==
    ASSUME NEW k, TaskIsSound(k)
    PROVE  /\ TaskIsSound(Idle(k)) /\ Idle(k).opened = 0 /\ Idle(k).at = "waiting"
           /\ Idle(k).origin = None /\ Idle(k).init = None
<1>1. k.source \in Sources \cup {None}
  BY DEF TaskIsSound, TaskKinds
<1> DEFINE i == Idle(k)
<1>2. i = [at |-> "waiting", then |-> "none", source |-> k.source, aborted |-> FALSE,
           opened |-> 0, seg |-> NewSegmenter, retry |-> None,
           origin |-> None, init |-> None, closed |-> None, listed |-> <<>>,
           total |-> 0, live |-> {}, doomed |-> {}]
  <2> DEFINE src == k.source
  <2>1. i = [NoTask EXCEPT !.at = "waiting", !.source = src]
    BY DEF Idle
  <2> HIDE DEF src, i
  <2>2. i = [at |-> "waiting", then |-> "none", source |-> src, aborted |-> FALSE,
           opened |-> 0, seg |-> NewSegmenter, retry |-> None,
           origin |-> None, init |-> None, closed |-> None, listed |-> <<>>,
           total |-> 0, live |-> {}, doomed |-> {}]
    BY <2>1 DEF NoTask
  <2> QED
    BY <2>2 DEF src
<1>3. i \in TaskKinds /\ i.at = "waiting" /\ i.seg = NewSegmenter /\ i.retry = None /\ i.opened = 0 /\ i.origin = None
      /\ i.init = None
  <2>1. <<>> \in Seq(StoredSegments)
    OBVIOUS
  <2> HIDE DEF i
  <2> QED
    BY <1>1, <1>2, <2>1, NewIsSegmenter DEF TaskKinds
<1> HIDE DEF i
<1>4. TaskIsSound(i)
  BY <1>3 DEF TaskIsSound, AtFiles, Prunes
<1> QED
  BY <1>3, <1>4 DEF i

\* A task that goes to its files with a segment that was closed.
ClosedInto(k, k2, s, retry, segment, then, clock) ==
    /\ k2 \in TaskKinds
    /\ k2.at = IF k.init = None THEN "mp4" ELSE "segment"
    /\ k2.then = then /\ k2.opened = k.opened /\ k2.seg = s /\ k2.retry = retry
    /\ k2.origin = Origin(k, segment, clock) /\ k2.init = k.init /\ k2.closed = segment

LEMMA OriginIs ==
    ASSUME NEW k \in TaskKinds, NEW segment \in ClosedSegments, NEW clock \in Int
    PROVE  Origin(k, segment, clock) \in Origins /\ Origin(k, segment, clock) # None
<1>1. CASE k.origin # None
  BY <1>1, RingAssumption DEF Origin, TaskKinds
<1>2. CASE k.origin = None
  <2> DEFINE w == clock * Second - TicksToMs(segment.duration, 1)
  <2>1. segment.start \in Nat /\ segment.duration \in Int
    BY DEF ClosedSegments
  <2>2. w \in Int
    BY <2>1, Milliseconds
  <2> HIDE DEF w
  <2>3. Origin(k, segment, clock) = [ts |-> segment.start, wall |-> w]
    BY <1>2 DEF Origin, w
  <2> QED
    BY <2>1, <2>2, <2>3, RingAssumption DEF Origins
<1> QED
  BY <1>1, <1>2

LEMMA StoringIs ==
    ASSUME NEW k \in TaskKinds, NEW segment \in ClosedSegments, NEW clock \in Int,
           NEW s \in Segmenters, NEW then \in {"recording", "waiting"},
           NEW retry \in [f : Framed, p : Reported] \cup {None}, NEW aborted \in BOOLEAN
    PROVE  /\ ClosedInto(k, [Storing(k, segment, then, clock) EXCEPT !.seg = s], s, k.retry, segment, then, clock)
           /\ ClosedInto(k, [Storing(k, segment, then, clock) EXCEPT !.seg = s, !.retry = retry], s, retry, segment, then, clock)
           /\ ClosedInto(k, [Storing(k, segment, then, clock) EXCEPT !.seg = s, !.aborted = aborted], s, k.retry, segment, then, clock)
<1> DEFINE o == Origin(k, segment, clock)
           at == IF k.init = None THEN "mp4" ELSE "segment"
           x == Storing(k, segment, then, clock)
<1>1. o \in Origins /\ at \in {"mp4", "segment"}
  BY OriginIs
<1>2. x = [k EXCEPT !.at = at, !.closed = segment, !.then = then, !.origin = o]
  BY DEF Storing
<1> HIDE DEF o, at, x
<1>3. /\ x \in TaskKinds /\ x.at = at /\ x.then = then /\ x.opened = k.opened /\ x.retry = k.retry
      /\ x.origin = o /\ x.init = k.init /\ x.closed = segment
  BY <1>1, <1>2 DEF TaskKinds
<1> DEFINE y == [x EXCEPT !.seg = s]
           z == [x EXCEPT !.seg = s, !.retry = retry]
           w == [x EXCEPT !.seg = s, !.aborted = aborted]
<1>4. /\ y \in TaskKinds /\ y.at = x.at /\ y.then = x.then /\ y.opened = x.opened /\ y.retry = x.retry
      /\ y.origin = x.origin /\ y.init = x.init /\ y.closed = x.closed /\ y.seg = s
  BY <1>3 DEF TaskKinds
<1>5. /\ z \in TaskKinds /\ z.at = x.at /\ z.then = x.then /\ z.opened = x.opened /\ z.retry = retry
      /\ z.origin = x.origin /\ z.init = x.init /\ z.closed = x.closed /\ z.seg = s
  BY <1>3, ZenonT(40) DEF TaskKinds
<1>6. /\ w \in TaskKinds /\ w.at = x.at /\ w.then = x.then /\ w.opened = x.opened /\ w.retry = x.retry
      /\ w.origin = x.origin /\ w.init = x.init /\ w.closed = x.closed /\ w.seg = s
  BY <1>3, ZenonT(40) DEF TaskKinds
<1> HIDE DEF y, z, w
<1>7. /\ ClosedInto(k, y, s, k.retry, segment, then, clock)
      /\ ClosedInto(k, z, s, retry, segment, then, clock)
      /\ ClosedInto(k, w, s, k.retry, segment, then, clock)
  BY <1>3, <1>4, <1>5, <1>6 DEF ClosedInto, at, o
<1> QED
  BY <1>7 DEF x, y, z, w

LEMMA ClosedIntoIsSound ==
    ASSUME NEW k, TaskIsSound(k), NEW k2, NEW s, NEW retry, NEW segment \in ClosedSegments, NEW then, NEW clock \in Int,
           ClosedInto(k, k2, s, retry, segment, then, clock),
           s.entry # None, then # "waiting" /\ retry = None => Started(s)
    PROVE  TaskIsSound(k2)
<1>1. Origin(k, segment, clock) # None
  BY OriginIs DEF TaskIsSound
<1> QED
  BY <1>1 DEF ClosedInto, TaskIsSound, AtFiles, Prunes

\* What the task that records makes of a frame.
FrameKeeps(k, k2, f) ==
    /\ k2 \in TaskKinds
    /\ k2.at = "recording" /\ k2.opened = k.opened /\ k2.retry = k.retry
    /\ k2.origin = k.origin /\ k2.init = k.init
    /\ \/ k.seg.entry = None /\ ~f.key /\ k2.seg = k.seg
       \/ k.seg.entry = None /\ f.key /\ k2.seg = Opens(k.seg, f)
       \/ /\ k.seg.entry # None /\ (f.fresh => k.seg.entry.form = f.cfg.form)
          /\ k2.seg = Take(With(k.seg, f), f)

FrameCloses(k, k2, f, clock) ==
    /\ k.seg.entry # None /\ (f.fresh => k.seg.entry.form = f.cfg.form)
    /\ ClosedInto(k, k2, Take(Closed(With(k.seg, f)), f), None, Close(With(k.seg, f), f.ts), "recording", clock)

FrameChanges(k, k2, f, p, clock) ==
    /\ k.seg.entry # None /\ f.key /\ f.fresh /\ k.seg.entry # f.cfg /\ k.seg.entry.form # f.cfg.form
    /\ ClosedInto(k, k2, Closed(k.seg), [f |-> f, p |-> p], Close(k.seg, None), "recording", clock)

FrameIs(t, f, p) ==
    /\ task[t].at = "recording" /\ Comes(task[t].seg, f, p)
    /\ f.ts = now + 1 - task[t].opened
    /\ f.cfg # encoder => f.key
    /\ f.cfg \in Configs /\ encoder' = f.cfg /\ now' = now + 1
    /\ f.cfg # encoder /\ f.cfg.form = encoder.form => excuse' = excuse \cup {"retuned"}
    /\ excuse \subseteq excuse' /\ UNCHANGED <<disk, skew, clip>>
    /\ task' = [task EXCEPT ![t] = task'[t]]
    /\ \/ FrameKeeps(task[t], task'[t], f)
       \/ FrameCloses(task[t], task'[t], f, now + 1 - skew)
       \/ FrameChanges(task[t], task'[t], f, p, now + 1 - skew)

LEMMA FrameMeans ==
    ASSUME RingKinds, NEW t \in Tasks, NEW key \in BOOLEAN, NEW cfg \in Configs, Frame(t, key, cfg)
    PROVE  \E f, p : FrameIs(t, f, p)
<1> DEFINE k == task[t]
           fresh == key /\ k.seg.entry \notin {None, cfg}
           f == [ts |-> now + 1 - k.opened, rate |-> 1, key |-> key, fresh |-> fresh, cfg |-> cfg]
           p == [cfg |-> cfg, frame |-> None, sound |-> TRUE]
           r == Push(k.seg, f, p)
           k2 == task'[t]
           clock == now + 1 - skew
<1>1. TaskIsSound(k) /\ k.opened <= now /\ now \in Nat /\ skew \in Nat /\ DOMAIN task = Tasks
  BY DEF RingKinds
<1>2. k.at = "recording" /\ k.seg \in Segmenters /\ Started(k.seg) /\ k.opened \in Nat /\ k \in TaskKinds /\ k.retry = None
  BY <1>1 DEF Frame, TaskIsSound, TaskKinds, AtFiles
<1>3. /\ cfg # encoder => key
      /\ encoder' = cfg /\ now' = now + 1
      /\ cfg # encoder /\ cfg.form = encoder.form => excuse' = excuse \cup {"retuned"}
      /\ excuse \subseteq excuse' /\ UNCHANGED <<disk, skew, clip>>
  BY DEF Frame
<1>4. task' = [task EXCEPT ![t] =
             CASE r.kind = "nothing" -> [k EXCEPT !.seg = r.s]
               [] r.kind = "segment" -> [Storing(k, r.segment, "recording", now' - skew) EXCEPT !.seg = r.s]
               [] r.kind = "changed" ->
                    [Storing(k, Flush(k.seg).segment, "recording", now' - skew) EXCEPT
                        !.seg = Flush(k.seg).s, !.retry = [f |-> f, p |-> p]]
               [] OTHER -> Idle(k)]
  BY Zenon DEF Frame
<1> DEFINE v(c) == CASE r.kind = "nothing" -> [k EXCEPT !.seg = r.s]
               [] r.kind = "segment" -> [Storing(k, r.segment, "recording", c) EXCEPT !.seg = r.s]
               [] r.kind = "changed" ->
                    [Storing(k, Flush(k.seg).segment, "recording", c) EXCEPT
                        !.seg = Flush(k.seg).s, !.retry = [f |-> f, p |-> p]]
               [] OTHER -> Idle(k)
<1>a. task' = [task EXCEPT ![t] = v(now' - skew)] /\ now' - skew = clock
  <2>1. task' = [task EXCEPT ![t] = v(now' - skew)]
    BY <1>4
  <2>2. now' - skew = clock
    <3>1. now' = now + 1
      BY <1>3
    <3>2. now \in Int /\ skew \in Int
      BY <1>1
    <3> QED
      BY <3>1, <3>2
  <2> QED
    BY <2>1, <2>2
<1>b. k2 = v(clock) /\ task' = [task EXCEPT ![t] = k2]
  <2> HIDE DEF v, clock
  <2> QED
    BY <1>1, <1>a, SMTT(30)
<1>5. k2 = CASE r.kind = "nothing" -> [k EXCEPT !.seg = r.s]
               [] r.kind = "segment" -> [Storing(k, r.segment, "recording", clock) EXCEPT !.seg = r.s]
               [] r.kind = "changed" ->
                    [Storing(k, Flush(k.seg).segment, "recording", clock) EXCEPT
                        !.seg = Flush(k.seg).s, !.retry = [f |-> f, p |-> p]]
               [] OTHER -> Idle(k)
  BY <1>b
<1>6. task' = [task EXCEPT ![t] = k2]
  BY <1>b
<1>7. f \in Framed /\ p \in Reported /\ f.fresh = fresh /\ f.key = key /\ f.cfg = cfg /\ f.ts = now + 1 - k.opened
      /\ f.ts \in Nat /\ clock \in Int
  BY <1>1, <1>2 DEF Framed, Reported
<1>8. Comes(k.seg, f, p)
  BY <1>2, <1>7 DEF Comes
<1> HIDE DEF f, r, clock, k2
<1>9. /\ \A kind, s, segment : LET x == Pushed(kind, s, segment) IN x.kind = kind /\ x.s = s /\ x.segment = segment
  BY DEF Pushed
<1>10. \/ k.seg.entry = None /\ ~f.key /\ r = Pushed("nothing", k.seg, None)
       \/ k.seg.entry = None /\ f.key /\ r = Pushed("nothing", Opens(k.seg, f), None)
       \/ /\ k.seg.entry # None /\ f.key /\ f.fresh /\ k.seg.entry # f.cfg /\ k.seg.entry.form # f.cfg.form
          /\ r = Pushed("changed", k.seg, None)
       \/ /\ k.seg.entry # None /\ (f.fresh => k.seg.entry.form = f.cfg.form)
          /\ \/ r = Pushed("nothing", Take(With(k.seg, f), f), None)
             \/ r = Pushed("segment", Take(Closed(With(k.seg, f)), f), Close(With(k.seg, f), f.ts))
  BY <1>8, PushIs DEF r
<1>11. /\ k.seg \in Segmenters /\ Opens(k.seg, f) \in Segmenters /\ With(k.seg, f) \in Segmenters
       /\ Take(With(k.seg, f), f) \in Segmenters /\ Closed(k.seg) \in Segmenters
       /\ Closed(With(k.seg, f)) \in Segmenters /\ Take(Closed(With(k.seg, f)), f) \in Segmenters
       /\ With(k.seg, f).pending = k.seg.pending /\ With(k.seg, f).rate = k.seg.rate
  BY <1>2, <1>7, SegmentersStay
<1>12. ASSUME NEW s \in Segmenters, r = Pushed("nothing", s, None)
       PROVE  k2 \in TaskKinds /\ k2.at = "recording" /\ k2.opened = k.opened /\ k2.retry = k.retry
              /\ k2.origin = k.origin /\ k2.init = k.init /\ k2.seg = s
  <2>1. k2 = [k EXCEPT !.seg = s]
    BY <1>5, <1>9, <1>12
  <2> QED
    BY <1>2, <2>1 DEF TaskKinds
<1>13. FrameKeeps(k, k2, f) \/ FrameCloses(k, k2, f, clock) \/ FrameChanges(k, k2, f, p, clock)
  <2>1. CASE k.seg.entry = None /\ ~f.key /\ r = Pushed("nothing", k.seg, None)
    BY <2>1, <1>11, <1>12 DEF FrameKeeps
  <2>2. CASE k.seg.entry = None /\ f.key /\ r = Pushed("nothing", Opens(k.seg, f), None)
    BY <2>2, <1>11, <1>12 DEF FrameKeeps
  <2>3. CASE /\ k.seg.entry # None /\ (f.fresh => k.seg.entry.form = f.cfg.form)
             /\ r = Pushed("nothing", Take(With(k.seg, f), f), None)
    BY <2>3, <1>11, <1>12 DEF FrameKeeps
  <2>4. CASE /\ k.seg.entry # None /\ f.key /\ f.fresh /\ k.seg.entry # f.cfg /\ k.seg.entry.form # f.cfg.form
             /\ r = Pushed("changed", k.seg, None)
    <3>1. k.seg.pending # <<>> /\ k.seg.rate = 1
      BY <1>2, <2>4 DEF Started
    <3>2. Flush(k.seg) = Pushed("segment", Closed(k.seg), Close(k.seg, None))
      BY <3>1 DEF Flush
    <3>3. Close(k.seg, None) \in ClosedSegments
      BY <1>2, <3>1, CloseIs
    <3> DEFINE fp == [f |-> f, p |-> p]
    <3>4. k2 = [Storing(k, Close(k.seg, None), "recording", clock) EXCEPT !.seg = Closed(k.seg), !.retry = fp]
      <4>1. r.kind = "changed"
        BY <1>9, <2>4
      <4>2. Flush(k.seg).segment = Close(k.seg, None) /\ Flush(k.seg).s = Closed(k.seg)
        BY <1>9, <3>2
      <4> QED
        BY Zenon, <1>5, <4>1, <4>2
    <3>5. fp \in [f : Framed, p : Reported]
      BY <1>7
    <3> HIDE DEF fp, p
    <3>6. ClosedInto(k, k2, Closed(k.seg), fp, Close(k.seg, None), "recording", clock)
      BY <1>2, <1>7, <1>11, <3>3, <3>4, <3>5, StoringIs
    <3> QED
      BY <2>4, <3>6 DEF FrameChanges, fp
  <2>5. CASE /\ k.seg.entry # None /\ (f.fresh => k.seg.entry.form = f.cfg.form)
             /\ r = Pushed("segment", Take(Closed(With(k.seg, f)), f), Close(With(k.seg, f), f.ts))
    <3>1. With(k.seg, f).pending # <<>> /\ With(k.seg, f).rate = 1
      BY <1>2, <1>11, <2>5 DEF Started
    <3>3. Close(With(k.seg, f), f.ts) \in ClosedSegments
      BY <1>7, <1>11, <3>1, CloseIs
    <3>4. k2 = [Storing(k, Close(With(k.seg, f), f.ts), "recording", clock) EXCEPT !.seg = Take(Closed(With(k.seg, f)), f)]
      BY <1>5, <1>9, <2>5
    <3>6. ClosedInto(k, k2, Take(Closed(With(k.seg, f)), f), k.retry, Close(With(k.seg, f), f.ts), "recording", clock)
      BY <1>2, <1>7, <1>11, <3>3, <3>4, StoringIs
    <3> QED
      BY <1>2, <2>5, <3>6 DEF FrameCloses
  <2> QED
    BY <1>10, <2>1, <2>2, <2>3, <2>4, <2>5
<1>14. FrameIs(t, f, p)
  BY <1>2, <1>3, <1>6, <1>7, <1>8, <1>13 DEF FrameIs, k2, clock
<1> QED
  BY <1>14

\* What a task holds besides where it has come to.
Keeps(k, k2) ==
    /\ k2 \in TaskKinds
    /\ k2.then = k.then /\ k2.opened = k.opened /\ k2.seg = k.seg /\ k2.retry = k.retry
    /\ k2.origin = k.origin /\ k2.init = k.init /\ k2.closed = k.closed

Only(t) == DOMAIN task' = Tasks /\ \A u \in Tasks \ {t} : task'[u] = task[u]

LEMMA OpensMean ==
    ASSUME RingKinds, NEW t \in Tasks
    PROVE  LET k == task[t]  k2 == task'[t] IN
           /\ Open(t) => Only(t) /\ k2 \in TaskKinds /\ k2.at = "recording" /\ k2.opened = now' /\ k2.seg = k.seg
                         /\ k2.retry = k.retry /\ k2.origin = k.origin /\ k2.init = k.init
           /\ OpenFails(t) => Only(t) /\ Keeps(k, k2) /\ k2.at = "waiting"
           /\ Reopen(t) => Only(t) /\ Keeps(k, k2) /\ k2.at = "opening"
           /\ ReadFails(t) => Only(t) /\ k2 = Idle(k)
<1> DEFINE k == task[t]
           k2 == task'[t]
<1>0. DOMAIN task = Tasks /\ k \in TaskKinds /\ now \in Nat
  BY DEF RingKinds, TaskIsSound
<1>1. ASSUME Open(t) PROVE Only(t) /\ k2 \in TaskKinds /\ k2.at = "recording" /\ k2.opened = now' /\ k2.seg = k.seg
                           /\ k2.retry = k.retry /\ k2.origin = k.origin /\ k2.init = k.init
  <2>1. now' \in Nat /\ task' = [task EXCEPT ![t].at = "recording", ![t].opened = now']
    BY <1>0, <1>1 DEF Open
  <2>2. Only(t) /\ k2 = [k EXCEPT !.at = "recording", !.opened = now']
    BY <1>0, <2>1 DEF Only
  <2> HIDE DEF k, k2
  <2> QED
    BY <1>0, <2>1, <2>2 DEF TaskKinds
<1>2. ASSUME OpenFails(t) PROVE Only(t) /\ Keeps(k, k2) /\ k2.at = "waiting"
  <2>1. Only(t) /\ k2 = [k EXCEPT !.at = "waiting"]
    BY <1>0, <1>2 DEF OpenFails, Only
  <2> HIDE DEF k, k2
  <2> QED
    BY <1>0, <2>1 DEF TaskKinds, Keeps
<1>3. ASSUME Reopen(t) PROVE Only(t) /\ Keeps(k, k2) /\ k2.at = "opening"
  <2>1. Only(t) /\ k2 = [k EXCEPT !.at = "opening"]
    BY <1>0, <1>3 DEF Reopen, Only
  <2> HIDE DEF k, k2
  <2> QED
    BY <1>0, <2>1 DEF TaskKinds, Keeps
<1>4. ASSUME ReadFails(t) PROVE Only(t) /\ k2 = Idle(k)
  BY <1>0, <1>4 DEF ReadFails, Only
<1> QED
  BY <1>1, <1>2, <1>3, <1>4

\* The end of a stream, and of a task.
EndsAt(k, k2) ==
    /\ k.at = "recording" /\ k.seg.pending # <<>>
    /\ ClosedInto(k, k2, Closed(k.seg), k.retry, Close(k.seg, None), "waiting", now - skew)

LEMMA FlushIs ==
    ASSUME RingKinds, NEW t \in Tasks, task[t].at = "recording"
    PROVE  LET k == task[t] IN
           /\ k.seg.pending # <<>> =>
                /\ Flush(k.seg).kind = "segment" /\ Flush(k.seg).s = Closed(k.seg)
                /\ Flush(k.seg).segment = Close(k.seg, None) /\ Close(k.seg, None) \in ClosedSegments
                /\ \A a \in BOOLEAN :
                     /\ EndsAt(k, [Storing(k, Close(k.seg, None), "waiting", now - skew) EXCEPT !.seg = Closed(k.seg)])
                     /\ EndsAt(k, [Storing(k, Close(k.seg, None), "waiting", now - skew) EXCEPT
                                      !.seg = Closed(k.seg), !.aborted = a])
           /\ k.seg.pending = <<>> => Flush(k.seg).kind = "nothing"
<1> DEFINE k == task[t]
<1>0. k \in TaskKinds /\ k.seg \in Segmenters /\ Started(k.seg) /\ now - skew \in Int
  BY DEF RingKinds, TaskIsSound, TaskKinds
<1>1. CASE k.seg.pending = <<>>
  BY <1>1 DEF Flush, Pushed
<1>2. CASE k.seg.pending # <<>>
  <2>1. k.seg.rate = 1
    BY <1>0, <1>2 DEF Started
  <2>2. /\ Flush(k.seg).kind = "segment" /\ Flush(k.seg).s = Closed(k.seg)
        /\ Flush(k.seg).segment = Close(k.seg, None)
    BY <1>2 DEF Flush, Pushed
  <2>3. Close(k.seg, None) \in ClosedSegments
    BY <1>0, <1>2, <2>1, CloseIs
  <2>4. Closed(k.seg) \in Segmenters
    <3>1. k.seg.pending \in Seq(Framed)
      BY <1>0 DEF Segmenters
    <3>2. PICK f \in Framed : TRUE
      BY <1>2, <3>1
    <3> QED
      BY <1>0, <3>2, SegmentersStay
  <2> DEFINE c == Close(k.seg, None)
             s == Closed(k.seg)
  <2> HIDE DEF c, s
  <2>5. ASSUME NEW a \in BOOLEAN
        PROVE  /\ ClosedInto(k, [Storing(k, c, "waiting", now - skew) EXCEPT !.seg = s], s, k.retry, c, "waiting", now - skew)
               /\ ClosedInto(k, [Storing(k, c, "waiting", now - skew) EXCEPT !.seg = s, !.aborted = a], s, k.retry, c, "waiting", now - skew)
    <3>1. c \in ClosedSegments /\ s \in Segmenters /\ None \in [f : Framed, p : Reported] \cup {None}
      BY <2>3, <2>4 DEF c, s
    <3> HIDE DEF k
    <3> QED
      BY <1>0, <3>1, StoringIs
  <2> QED
    BY <1>2, <2>2, <2>3, <2>5 DEF EndsAt, c, s
<1> QED
  BY <1>1, <1>2

LEMMA EndMeans ==
    ASSUME RingKinds, NEW t \in Tasks, EndOfStream(t)
    PROVE  Only(t) /\ (task'[t] = Idle(task[t]) \/ EndsAt(task[t], task'[t]))
<1> DEFINE k == task[t]
<1>0. DOMAIN task = Tasks /\ k.at = "recording"
  BY DEF RingKinds, EndOfStream
<1>1. Only(t) /\ task'[t] = IF Flush(k.seg).kind = "segment"
             THEN [Storing(k, Flush(k.seg).segment, "waiting", now - skew) EXCEPT !.seg = Flush(k.seg).s]
             ELSE Idle(k)
  BY <1>0 DEF EndOfStream, Only
<1>2. CASE k.seg.pending = <<>>
  BY <1>0, <1>1, <1>2, FlushIs
<1>3. CASE k.seg.pending # <<>>
  <2>1. task'[t] = [Storing(k, Close(k.seg, None), "waiting", now - skew) EXCEPT !.seg = Closed(k.seg)]
    BY <1>0, <1>1, <1>3, FlushIs
  <2> QED
    BY <1>0, <1>1, <1>3, <2>1, FlushIs
<1> QED
  BY <1>2, <1>3

LEMMA StoppedMeans ==
    ASSUME RingKinds, NEW t \in Tasks, NEW k2 \in Stopped(task[t])
    PROVE  \/ k2 = NoTask
           \/ EndsAt(task[t], k2)
           \/ /\ InSync(task[t]) /\ Keeps(task[t], k2) /\ k2.at = task[t].at /\ k2.listed = task[t].listed
              /\ k2.total = task[t].total /\ k2.live = task[t].live /\ k2.doomed = task[t].doomed
<1> DEFINE k == task[t]
<1>0. k \in TaskKinds
  BY DEF RingKinds, TaskIsSound
<1>1. CASE InSync(k)
  <2>1. k2 = [k EXCEPT !.aborted = TRUE]
    BY <1>1 DEF Stopped
  <2> HIDE DEF k
  <2>2. k2 \in TaskKinds
    BY <1>0, <2>1 DEF TaskKinds
  <2>3. /\ Keeps(k, k2) /\ k2.at = k.at /\ k2.listed = k.listed
        /\ k2.total = k.total /\ k2.live = k.live /\ k2.doomed = k.doomed
    BY <1>0, <2>1, <2>2 DEF TaskKinds, Keeps
  <2> QED
    BY <1>1, <2>3 DEF k
<1>2. CASE ~InSync(k) /\ k2 # NoTask
  <2>1. /\ k.at = "recording" /\ k.seg.pending # <<>>
        /\ k2 = [Storing(k, Flush(k.seg).segment, "waiting", now - skew) EXCEPT
                    !.seg = Flush(k.seg).s, !.aborted = TRUE]
    BY <1>2 DEF Stopped
  <2>2. k2 = [Storing(k, Close(k.seg, None), "waiting", now - skew) EXCEPT
                    !.seg = Closed(k.seg), !.aborted = TRUE]
    BY <2>1, FlushIs
  <2> QED
    BY <2>1, <2>2, FlushIs
<1> QED
  BY <1>1, <1>2

\* The files a task writes.
LEMMA RetryIs ==
    ASSUME NEW f \in Framed, NEW p \in Reported
    PROVE  LET s == Push(NewSegmenter, f, p).s IN
           /\ s \in Segmenters /\ Started(s)
           /\ f.key => s.entry = p.cfg /\ s.pending = <<f>>
<1> DEFINE n == NewSegmenter
           s == Push(n, f, p).s
<1>0. f.rate = 1 /\ p # None /\ p.sound /\ p.cfg \in Configs /\ p.cfg # None /\ p.frame = None
  BY RingAssumption DEF Framed, Reported
<1>1. n \in Segmenters /\ n.entry = None /\ n.pending = <<>> /\ Started(n) /\ n.rate = None
  BY NewIsSegmenter DEF NewSegmenter
<1>2. CASE ~f.key
  <2>1. s = n
    BY <1>1, <1>2 DEF Push, Undecodable, Pushed
  <2> QED
    BY <1>1, <1>2, <2>1
<1>3. CASE f.key
  <2> DEFINE c == p.cfg
             d == [n EXCEPT !.entry = c, !.fallback = None]
             e == [d EXCEPT !.rate = 1]
             g == [e EXCEPT !.pending = Append(@, f)]
  <2>1. ~Undecodable(n, f) /\ Describes(n, f) /\ ~Reshaped(n, p)
    BY <1>1, <1>3 DEF Undecodable, Describes, Reshaped
  <2>2. Described(n, f, p) = d
    BY <1>0, <2>1 DEF Described
  <2> HIDE DEF n
  <2>3. d \in Segmenters /\ d.rate = None /\ d.pending = <<>> /\ d.entry = c
    <3>1. c \in Configs
      BY <1>0
    <3> HIDE DEF c
    <3> QED
      BY <1>1, <3>1 DEF Segmenters
  <2>4. Clocked(d, f) = e
    BY <1>0, <2>3 DEF Clocked
  <2>5. e \in Segmenters /\ e.rate = 1 /\ e.pending = <<>> /\ e.entry = c
    <3> HIDE DEF d
    <3> QED
      BY <2>3 DEF Segmenters
  <2>6. ~Closes(e, f)
    BY <2>5 DEF Closes
  <2>7. Push(n, f, p) = Pushed("nothing", Take(e, f), None)
    <3> HIDE DEF d, e
    <3> QED
      BY <1>0, <2>1, <2>2, <2>3, <2>4, <2>6 DEF Push
  <2>8. s = Take(e, f)
    BY <2>7 DEF Pushed
  <2> HIDE DEF e
  <2>9. Take(e, f) \in Segmenters /\ Take(e, f).pending = Append(e.pending, f) /\ Take(e, f).entry = e.entry /\ Take(e, f).rate = e.rate
    BY <2>5, SegmentersStay
  <2>10. Append(<<>>, f) = <<f>> /\ <<f>> # <<>>
    OBVIOUS
  <2> HIDE DEF c, s
  <2>11. s \in Segmenters /\ s.entry = c /\ s.rate = 1
    BY <2>5, <2>8, <2>9
  <2>12. s.pending = <<f>>
    BY <2>5, <2>8, <2>9, <2>10
  <2>13. s \in Segmenters /\ Started(s) /\ s.entry = c /\ s.pending = <<f>>
    <3>1. c # None
      BY <1>0 DEF c
    <3> QED
      BY <2>10, <2>11, <2>12, <3>1 DEF Started
  <2>14. s.entry = p.cfg
    BY <2>13 DEF c
  <2>15. s \in Segmenters /\ Started(s) /\ (f.key => s.entry = p.cfg /\ s.pending = <<f>>)
    BY <2>13, <2>14
  <2> QED
    BY <2>15 DEF s, n
<1> QED
  BY <1>2, <1>3

LEMMA WritesMean ==
    ASSUME RingKinds, NEW t \in Tasks
    PROVE  LET k == task[t]  k2 == task'[t] IN
           /\ WriteMp4(t) => Only(t) /\ Keeps(k, k2) /\ k2.at = "json"
           /\ WriteJson(t) => /\ Only(t) /\ k2 \in TaskKinds /\ k2.at = "segment" /\ k2.init = k.seg.entry
                              /\ k2.then = k.then /\ k2.opened = k.opened /\ k2.seg = k.seg /\ k2.retry = k.retry
                              /\ k2.origin = k.origin /\ k2.closed = k.closed
           /\ WriteFails(t) => Only(t) /\ (k2 = NoTask \/ k2 = Idle(k))
<1> DEFINE k == task[t]
           k2 == task'[t]
<1>0. DOMAIN task = Tasks /\ k \in TaskKinds
  BY DEF RingKinds, TaskIsSound
<1>1. ASSUME WriteMp4(t) PROVE Only(t) /\ Keeps(k, k2) /\ k2.at = "json"
  <2>1. Only(t) /\ k2 = [k EXCEPT !.at = "json"]
    BY <1>0, <1>1 DEF WriteMp4, Only
  <2> HIDE DEF k, k2
  <2> QED
    BY <1>0, <2>1 DEF TaskKinds, Keeps
<1>2. ASSUME WriteJson(t)
      PROVE  /\ Only(t) /\ k2 \in TaskKinds /\ k2.at = "segment" /\ k2.init = k.seg.entry
             /\ k2.then = k.then /\ k2.opened = k.opened /\ k2.seg = k.seg /\ k2.retry = k.retry
             /\ k2.origin = k.origin /\ k2.closed = k.closed
  <2> DEFINE e == k.seg.entry
  <2>1. Only(t) /\ k2 = [k EXCEPT !.at = "segment", !.init = e]
    BY <1>0, <1>2 DEF WriteJson, Only
  <2>2. e \in Configs \cup {None}
    BY <1>0 DEF TaskKinds, Segmenters
  <2> HIDE DEF k, k2, e
  <2>3. /\ Only(t) /\ k2 \in TaskKinds /\ k2.at = "segment" /\ k2.init = e
        /\ k2.then = k.then /\ k2.opened = k.opened /\ k2.seg = k.seg /\ k2.retry = k.retry
        /\ k2.origin = k.origin /\ k2.closed = k.closed
    BY <1>0, <2>1, <2>2 DEF TaskKinds
  <2> QED
    BY <2>3 DEF e
<1>3. ASSUME WriteFails(t) PROVE Only(t) /\ (k2 = NoTask \/ k2 = Idle(k))
  BY <1>0, <1>3 DEF WriteFails, Only
<1> QED
  BY <1>1, <1>2, <1>3

\* The segment that is written, and what the task goes on with.
SegmentWritten(t) ==
    LET k == task[t]  k2 == task'[t]  new == Stored(k)
    IN  /\ Only(t)
        /\ new \in StoredSegments /\ new.init = k.init /\ new.at = k.opened + k.closed.start
        /\ DOMAIN new.frames = DOMAIN k.closed.frames
        /\ \A i \in DOMAIN new.frames : new.frames[i] = k.closed.frames[i].cfg
        /\ new.start = k.origin.wall + Max2(k.closed.start - k.origin.ts, 0) * Second
        /\ disk'.segs = {x \in disk.segs : Name(x) # Name(new)} \cup {new}
        /\ disk'.mp4 = disk.mp4 /\ disk'.json = disk.json
        /\ disk' \in [segs : SUBSET StoredSegments, mp4 : SUBSET Configs, json : SUBSET Configs]
        /\ IsFiniteSet(disk'.segs)
        /\ k2 \in TaskKinds /\ k2.at = "list" /\ k2.then = k.then /\ k2.opened = k.opened
        /\ k2.origin = k.origin /\ k2.retry = None
        /\ k2.init = IF k.retry = None THEN k.init ELSE None
        /\ k2.seg \in Segmenters
        /\ k.retry = None => k2.seg = k.seg
        /\ k.retry # None =>
              /\ Started(k2.seg)
              /\ k.retry.f.key => k2.seg.entry = k.retry.p.cfg /\ k2.seg.pending = <<k.retry.f>>

LEMMA WriteSegmentMeans ==
    ASSUME RingKinds, NEW t \in Tasks, WriteSegment(t)
    PROVE  SegmentWritten(t)
<1> DEFINE k == task[t]
           k2 == task'[t]
           new == Stored(k)
           s == IF k.retry = None THEN k.seg ELSE Push(NewSegmenter, k.retry.f, k.retry.p).s
           i == IF k.retry = None THEN k.init ELSE None
<1>0. DOMAIN task = Tasks /\ k \in TaskKinds /\ k.at = "segment" /\ TaskIsSound(k)
  BY DEF RingKinds, TaskIsSound, WriteSegment
<1>1. k.closed \in ClosedSegments /\ k.origin \in Origins /\ k.init \in Configs /\ k.opened \in Nat
      /\ k.seg \in Segmenters
  BY <1>0 DEF TaskIsSound, AtFiles, TaskKinds
<1>2. Only(t) /\ k2 = [k EXCEPT !.at = "list", !.closed = None, !.seg = s, !.init = i, !.retry = None]
  <2> DEFINE v == [k EXCEPT !.at = "list", !.closed = None, !.seg = s, !.init = IF k.retry = None THEN @ ELSE None, !.retry = None]
  <2>1. task' = [task EXCEPT ![t] = v]
    BY DEF WriteSegment
  <2>2. v = [k EXCEPT !.at = "list", !.closed = None, !.seg = s, !.init = i, !.retry = None]
    OBVIOUS
  <2> HIDE DEF v
  <2>3. Only(t) /\ k2 = v
    BY <1>0, <2>1 DEF Only
  <2> QED
    BY <2>2, <2>3
<1>3. s \in Segmenters /\ i \in Configs \cup {None}
  <2>1. CASE k.retry = None
    BY <1>1, <2>1
  <2>2. CASE k.retry # None
    <3>1. k.retry \in [f : Framed, p : Reported]
      BY <1>0, <2>2 DEF TaskKinds
    <3> QED
      BY <2>2, <3>1, RetryIs
  <2> QED
    BY <2>1, <2>2
<1>4. k.retry # None => Started(s) /\ (k.retry.f.key => s.entry = k.retry.p.cfg /\ s.pending = <<k.retry.f>>)
  <2> SUFFICES ASSUME k.retry # None
               PROVE Started(s) /\ (k.retry.f.key => s.entry = k.retry.p.cfg /\ s.pending = <<k.retry.f>>)
    OBVIOUS
  <2>1. k.retry \in [f : Framed, p : Reported]
    BY <1>0 DEF TaskKinds
  <2> QED
    BY <2>1, RetryIs
<1>5. k.retry = None => s = k.seg
  OBVIOUS
<1> HIDE DEF s
<1>6. /\ k2 \in TaskKinds /\ k2.at = "list" /\ k2.then = k.then /\ k2.opened = k.opened
      /\ k2.origin = k.origin /\ k2.retry = None /\ k2.init = i /\ k2.seg = s
  <2> HIDE DEF k, k2, i
  <2> QED
    BY <1>0, <1>2, <1>3 DEF TaskKinds
<1>7. /\ new \in StoredSegments /\ new.init = k.init /\ new.at = k.opened + k.closed.start
      /\ DOMAIN new.frames = DOMAIN k.closed.frames
      /\ \A j \in DOMAIN new.frames : new.frames[j] = k.closed.frames[j].cfg
      /\ new.start = k.origin.wall + Max2(k.closed.start - k.origin.ts, 0) * Second
  <2> HIDE DEF k
  <2>1. k.closed.start \in Nat /\ k.closed.duration \in Nat /\ k.closed.frames \in Seq(Framed)
        /\ k.origin.ts \in Nat /\ k.origin.wall \in Int
    BY <1>1 DEF ClosedSegments, Origins
  <2> DEFINE m == Max2(k.closed.start - k.origin.ts, 0)
             fr == [j \in DOMAIN k.closed.frames |-> k.closed.frames[j].cfg]
             st == k.origin.wall + m * Second
             du == k.closed.duration * Second
             at == k.opened + k.closed.start
  <2>2. m \in Int
    BY <2>1 DEF Max2
  <2>3. fr \in Seq(Configs) /\ DOMAIN fr = DOMAIN k.closed.frames
    <3>1. Len(k.closed.frames) \in Nat /\ DOMAIN k.closed.frames = 1 .. Len(k.closed.frames)
      BY <2>1, LenProperties
    <3>2. \A j \in 1 .. Len(k.closed.frames) : k.closed.frames[j].cfg \in Configs
      <4> SUFFICES ASSUME NEW j \in 1 .. Len(k.closed.frames) PROVE k.closed.frames[j].cfg \in Configs
        OBVIOUS
      <4>1. k.closed.frames[j] \in Framed
        BY <2>1, ElementOfSeq
      <4> QED
        BY <4>1 DEF Framed
    <3> QED
      BY <3>1, <3>2
  <2>4. \A j \in DOMAIN fr : fr[j] = k.closed.frames[j].cfg
    OBVIOUS
  <2>5. st \in Int /\ du \in Nat /\ at \in Nat /\ TicksToMs(m, 1) = m * Second /\ TicksToMs(k.closed.duration, 1) = du
    <3>1. m * Second \in Int
      BY <2>2, Milliseconds
    <3> HIDE DEF m, du
    <3>2. st \in Int
      BY <2>1, <3>1
    <3>3. du \in Nat
      BY <2>1, Milliseconds DEF du
    <3>4. at \in Nat
      BY <1>1, <2>1
    <3>5. TicksToMs(m, 1) = m * Second
      BY <2>2, Milliseconds
    <3>6. TicksToMs(k.closed.duration, 1) = du
      <4>1. k.closed.duration \in Int
        BY <2>1
      <4> QED
        BY <4>1, Milliseconds DEF du
    <3> QED
      BY <3>2, <3>3, <3>4, <3>5, <3>6
  <2>6. new = [start |-> st, duration |-> du, init |-> k.init, frames |-> fr, at |-> at]
    <3> HIDE DEF m
    <3> QED
      BY <2>5 DEF Stored, m
  <2> HIDE DEF st, du, at, fr, new
  <2>7. new \in StoredSegments
    BY <1>1, <2>3, <2>5, <2>6 DEF StoredSegments
  <2>8. new.init = k.init /\ new.at = at /\ new.frames = fr /\ new.start = st
    BY <2>6
  <2> QED
    BY <2>3, <2>4, <2>7, <2>8 DEF st, at
<1>8. /\ disk'.segs = {x \in disk.segs : Name(x) # Name(new)} \cup {new}
      /\ disk'.mp4 = disk.mp4 /\ disk'.json = disk.json
      /\ disk' \in [segs : SUBSET StoredSegments, mp4 : SUBSET Configs, json : SUBSET Configs]
      /\ IsFiniteSet(disk'.segs)
  <2> DEFINE left == {x \in disk.segs : Name(x) # Name(new)}
  <2>1. disk' = [disk EXCEPT !.segs = left \cup {new}]
    BY DEF WriteSegment
  <2>2. left \subseteq disk.segs
    OBVIOUS
  <2> HIDE DEF left, new
  <2>3. disk \in [segs : SUBSET StoredSegments, mp4 : SUBSET Configs, json : SUBSET Configs] /\ IsFiniteSet(disk.segs)
    BY DEF RingKinds
  <2>4. IsFiniteSet(left \cup {new})
    BY <2>2, <2>3, FS_Subset, FS_AddElement
  <2>5. disk'.segs = left \cup {new} /\ disk'.mp4 = disk.mp4 /\ disk'.json = disk.json
        /\ disk' \in [segs : SUBSET StoredSegments, mp4 : SUBSET Configs, json : SUBSET Configs]
    BY <1>7, <2>1, <2>2, <2>3
  <2> QED
    BY <2>4, <2>5 DEF left
<1> QED
  <2> HIDE DEF new
  <2>1. k2.init = IF k.retry = None THEN k.init ELSE None
    BY <1>6
  <2>2. k2.seg \in Segmenters /\ (k.retry = None => k2.seg = k.seg)
        /\ (k.retry # None =>
              /\ Started(k2.seg)
              /\ k.retry.f.key => k2.seg.entry = k.retry.p.cfg /\ k2.seg.pending = <<k.retry.f>>)
    BY <1>3, <1>4, <1>5, <1>6
  <2> QED
    BY <1>2, <1>6, <1>7, <1>8, <2>1, <2>2 DEF SegmentWritten, new

\* What prune does to the list, the ring and itself.
LEMMA SizeIsNumber ==
    ASSUME RingKinds
    PROVE  Size(disk.segs) \in Int
<1>1. disk.segs \in SUBSET StoredSegments /\ IsFiniteSet(disk.segs)
  BY DEF RingKinds
<1>2. \A x \in disk.segs : Len(x.frames) \in Nat
  BY <1>1, FramesAreCounted
<1>3. CASE disk.segs = {}
  <2>1. PICK sum : Size(disk.segs) = sum[disk.segs] /\ AnyFirst(sum, disk.segs)
    BY <1>1, <1>2, SizeOfParts
  <2> QED
    BY <1>3, <2>1 DEF AnyFirst
<1>4. CASE disk.segs # {}
  BY <1>1, <1>2, <1>4, SizeWithout
<1> QED
  BY <1>3, <1>4

LEMMA ListMeans ==
    ASSUME RingKinds, NEW t \in Tasks, List(t)
    PROVE  LET k == task[t]  k2 == task'[t] IN
           /\ Only(t) /\ Keeps(k, k2) /\ k.at = "list" /\ k2.at = "evict"
           /\ k2.listed = Sorted(disk.segs) /\ k2.total = Size(disk.segs)
<1> DEFINE k == task[t]
           k2 == task'[t]
           q == Sorted(disk.segs)
           n == Size(disk.segs)
<1>0. DOMAIN task = Tasks /\ k \in TaskKinds /\ k.at = "list"
  BY DEF RingKinds, TaskIsSound, List
<1>1. Only(t) /\ k2 = [k EXCEPT !.at = "evict", !.listed = q, !.total = n]
  BY <1>0 DEF List, Only
<1>2. q \in Seq(StoredSegments)
  <2>1. disk.segs \in SUBSET StoredSegments /\ IsFiniteSet(disk.segs)
    BY DEF RingKinds
  <2>2. q \in Seq(disk.segs)
    BY <2>1, SortedIs
  <2> HIDE DEF q
  <2> QED
    BY <2>1, <2>2
<1>3. n \in Int
  BY SizeIsNumber
<1> HIDE DEF k, k2, q, n
<1>4. Only(t) /\ Keeps(k, k2) /\ k.at = "list" /\ k2.at = "evict" /\ k2.listed = q /\ k2.total = n
  BY <1>0, <1>1, <1>2, <1>3 DEF TaskKinds, Keeps
<1> QED
  BY <1>4 DEF k, k2, q, n

LEMMA EvictMeans ==
    ASSUME RingKinds, NEW t \in Tasks, Evict(t)
    PROVE  LET k == task[t]  k2 == task'[t]  oldest == k.listed[1] IN
           /\ Only(t) /\ Keeps(k, k2) /\ k.at = "evict" /\ k2.at = "evict"
           /\ k.total > Budget /\ Len(k.listed) > 1 /\ k.listed \in Seq(StoredSegments)
           /\ k2.listed = Tail(k.listed)
           /\ (\E x \in disk.segs : Name(x) = Name(oldest)) => k2.total = k.total - Len(oldest.frames)
           /\ disk'.segs = {x \in disk.segs : Name(x) # Name(oldest)}
           /\ disk'.mp4 = disk.mp4 /\ disk'.json = disk.json
<1> DEFINE k == task[t]
           k2 == task'[t]
           oldest == Head(k.listed)
           q == Tail(k.listed)
           found == \E x \in disk.segs : Name(x) = Name(oldest)
           n == IF found THEN k.total - Len(oldest.frames) ELSE k.total
<1>0. DOMAIN task = Tasks /\ k \in TaskKinds /\ k.at = "evict" /\ k.total > Budget /\ Len(k.listed) > 1
  BY DEF RingKinds, TaskIsSound, Evict
<1>1. k.listed \in Seq(StoredSegments) /\ k.total \in Int
  BY <1>0 DEF TaskKinds
<1>2. Only(t) /\ k2 = [k EXCEPT !.listed = q, !.total = n]
  <2> DEFINE v == [k EXCEPT !.listed = Tail(@), !.total = IF found THEN @ - Len(oldest.frames) ELSE @]
  <2>1. task' = [task EXCEPT ![t] = v]
    BY DEF Evict
  <2>2. v = [k EXCEPT !.listed = q, !.total = n]
    OBVIOUS
  <2> HIDE DEF v
  <2>3. Only(t) /\ k2 = v
    BY <1>0, <2>1 DEF Only
  <2> QED
    BY <2>2, <2>3
<1>3. k.listed # <<>> /\ oldest = k.listed[1]
  BY <1>0, <1>1
<1>4. q \in Seq(StoredSegments)
  BY <1>1, <1>3
<1>5. n \in Int
  <2>1. oldest \in StoredSegments
    BY <1>1, <1>3
  <2>2. Len(oldest.frames) \in Nat
    BY <2>1, FramesAreCounted
  <2>3. CASE found
    BY <1>1, <2>2, <2>3
  <2>4. CASE ~found
    BY <1>1, <2>4
  <2> HIDE DEF found, n, oldest
  <2> QED
    BY <2>3, <2>4
<1>6. disk' = [disk EXCEPT !.segs = {x \in disk.segs : Name(x) # Name(oldest)}]
  BY DEF Evict
<1>7. /\ disk'.segs = {x \in disk.segs : Name(x) # Name(oldest)}
      /\ disk'.mp4 = disk.mp4 /\ disk'.json = disk.json
  BY <1>6 DEF RingKinds
<1>8. found => n = k.total - Len(oldest.frames)
  OBVIOUS
<1> HIDE DEF k, k2, q, n
<1>9. Only(t) /\ Keeps(k, k2) /\ k.at = "evict" /\ k2.at = "evict" /\ k2.listed = q /\ k2.total = n
  BY <1>0, <1>2, <1>4, <1>5 DEF TaskKinds, Keeps
<1> QED
  BY <1>0, <1>1, <1>3, <1>7, <1>8, <1>9 DEF k, k2, q

LEMMA ListsMean ==
    ASSUME RingKinds, NEW t \in Tasks
    PROVE  LET k == task[t]  k2 == task'[t] IN
           /\ ListLive(t) => /\ Only(t) /\ Keeps(k, k2) /\ k.at = "evict" /\ k2.at = "inits"
                             /\ k.total <= Budget \/ Len(k.listed) <= 1
                             /\ k2.live = {x.init : x \in disk.segs}
           /\ ListInits(t) => /\ Only(t) /\ Keeps(k, k2) /\ k.at = "inits" /\ k2.at = "doomed"
                              /\ k2.doomed = disk.mp4 \ k.live
<1> DEFINE k == task[t]
           k2 == task'[t]
           named == {x.init : x \in disk.segs}
           doomed == disk.mp4 \ k.live
<1>0. DOMAIN task = Tasks /\ k \in TaskKinds
  BY DEF RingKinds, TaskIsSound
<1>1. named \in SUBSET Configs /\ doomed \in SUBSET Configs
  <2>1. disk.segs \in SUBSET StoredSegments /\ disk.mp4 \in SUBSET Configs
    BY DEF RingKinds
  <2> QED
    BY <2>1 DEF StoredSegments
<1>2. ASSUME ListLive(t)
      PROVE  /\ Only(t) /\ Keeps(k, k2) /\ k.at = "evict" /\ k2.at = "inits"
             /\ k.total <= Budget \/ Len(k.listed) <= 1
             /\ k2.live = named
  <2>1. k.at = "evict" /\ (k.total <= Budget \/ Len(k.listed) <= 1)
    BY <1>2 DEF ListLive
  <2> DEFINE e == <<>>
             z == 0
  <2>2. Only(t) /\ k2 = [k EXCEPT !.at = "inits", !.listed = e, !.total = z, !.live = named]
    BY <1>0, <1>2 DEF ListLive, Only
  <2>3. e \in Seq(StoredSegments) /\ z \in Int
    OBVIOUS
  <2> HIDE DEF k, k2, named, e, z
  <2>4. Keeps(k, k2) /\ k2.at = "inits" /\ k2.live = named
    BY <1>0, <1>1, <2>2, <2>3 DEF TaskKinds, Keeps
  <2> QED
    BY <2>1, <2>2, <2>4
<1>3. ASSUME ListInits(t)
      PROVE  /\ Only(t) /\ Keeps(k, k2) /\ k.at = "inits" /\ k2.at = "doomed"
             /\ k2.doomed = doomed
  <2>1. k.at = "inits"
    BY <1>3 DEF ListInits
  <2>2. Only(t) /\ k2 = [k EXCEPT !.at = "doomed", !.doomed = doomed]
    BY <1>0, <1>3 DEF ListInits, Only
  <2> HIDE DEF k, k2, doomed
  <2> QED
    BY <1>0, <1>1, <2>1, <2>2 DEF TaskKinds, Keeps
<1> QED
  BY <1>2, <1>3

LEMMA RemoveMeans ==
    ASSUME RingKinds, NEW t \in Tasks, RemoveInit(t)
    PROVE  LET k == task[t]  k2 == task'[t] IN
           /\ Only(t) /\ Keeps(k, k2) /\ k.at = "doomed" /\ k2.at = "doomed"
           /\ disk' \in [segs : SUBSET StoredSegments, mp4 : SUBSET Configs, json : SUBSET Configs]
           /\ disk'.segs = disk.segs
           /\ \E i \in k.doomed : k2.doomed = k.doomed \ {i} /\ disk'.mp4 = disk.mp4 \ {i} /\ disk'.json = disk.json \ {i}
<1> DEFINE k == task[t]
           k2 == task'[t]
<1>0. DOMAIN task = Tasks /\ k \in TaskKinds
      /\ disk \in [segs : SUBSET StoredSegments, mp4 : SUBSET Configs, json : SUBSET Configs]
  BY DEF RingKinds, TaskIsSound
<1>1. PICK i \in k.doomed :
        /\ k.at = "doomed"
        /\ disk' = [disk EXCEPT !.mp4 = disk.mp4 \ {i}, !.json = disk.json \ {i}]
        /\ task' = [task EXCEPT ![t].doomed = @ \ {i}]
  BY DEF RemoveInit
<1> DEFINE d == k.doomed \ {i}
<1>2. Only(t) /\ k2 = [k EXCEPT !.doomed = d]
  BY <1>0, <1>1 DEF Only
<1>3. d \in SUBSET Configs
  BY <1>0 DEF TaskKinds
<1>4. /\ disk' \in [segs : SUBSET StoredSegments, mp4 : SUBSET Configs, json : SUBSET Configs]
      /\ disk'.segs = disk.segs /\ disk'.mp4 = disk.mp4 \ {i} /\ disk'.json = disk.json \ {i}
  BY <1>0, <1>1
<1> HIDE DEF k, k2, d
<1>5. Only(t) /\ Keeps(k, k2) /\ k2.at = "doomed" /\ k2.doomed = d
  BY <1>0, <1>1, <1>2, <1>3 DEF TaskKinds, Keeps
<1> QED
  BY <1>1, <1>4, <1>5 DEF k, k2, d

LEMMA SettleMeans ==
    ASSUME RingKinds, NEW t \in Tasks, Settle(t)
    PROVE  LET k == task[t]  k2 == task'[t] IN
           /\ Only(t) /\ k.at = "doomed" /\ k.retry = None
           /\ \/ k2 = NoTask \/ k2 = Idle(k)
              \/ /\ k.then # "waiting" /\ k2 \in TaskKinds /\ k2.at = "recording"
                 /\ k2.opened = k.opened /\ k2.seg = k.seg /\ k2.retry = k.retry
                 /\ k2.origin = k.origin /\ k2.init = k.init
<1> DEFINE k == task[t]
           k2 == task'[t]
           w == [k EXCEPT !.at = "recording", !.then = "none", !.live = {}]
<1>0. DOMAIN task = Tasks /\ k \in TaskKinds /\ k.at = "doomed" /\ k.retry = None
  BY DEF RingKinds, TaskIsSound, Settle
<1>1. Only(t) /\ k2 = IF k.aborted THEN NoTask ELSE IF k.then = "waiting" THEN Idle(k) ELSE w
  BY <1>0 DEF Settle, Only
<1>2. /\ w \in TaskKinds /\ w.at = "recording"
      /\ w.opened = k.opened /\ w.seg = k.seg /\ w.retry = k.retry
      /\ w.origin = k.origin /\ w.init = k.init
  <2> HIDE DEF k
  <2> QED
    BY <1>0, ZenonT(40) DEF TaskKinds
<1> HIDE DEF w
<1> QED
  BY <1>0, <1>1, <1>2

\* What reconcile leaves of a task, and what it begins.
Opening(src) == [NoTask EXCEPT !.at = "opening", !.source = src]

LEMMA OpeningIsSound ==
    ASSUME NEW src \in Sources \cup {None}
    PROVE  /\ TaskIsSound(Opening(src)) /\ Opening(src).opened = 0 /\ Opening(src).at = "opening"
           /\ Opening(src).origin = None /\ Opening(src).init = None
<1> DEFINE i == Opening(src)
<1>1. i = [at |-> "opening", then |-> "none", source |-> src, aborted |-> FALSE,
           opened |-> 0, seg |-> NewSegmenter, retry |-> None,
           origin |-> None, init |-> None, closed |-> None, listed |-> <<>>,
           total |-> 0, live |-> {}, doomed |-> {}]
  <2>1. i = [NoTask EXCEPT !.at = "opening", !.source = src]
    BY DEF Opening
  <2> HIDE DEF i
  <2> QED
    BY <2>1 DEF NoTask
<1>2. <<>> \in Seq(StoredSegments)
  OBVIOUS
<1> HIDE DEF i
<1>3. i \in TaskKinds
  BY <1>1, <1>2, NewIsSegmenter DEF TaskKinds
<1>4. i.at = "opening" /\ i.seg = NewSegmenter /\ i.retry = None /\ i.opened = 0 /\ i.origin = None /\ i.init = None
  BY <1>1
<1>5. TaskIsSound(i)
  BY <1>3, <1>4 DEF TaskIsSound, AtFiles, Prunes
<1> QED
  BY <1>4, <1>5 DEF i

Left(u) == task'[u] = task[u] \/ (Alive(u) /\ task'[u] \in Stopped(task[u]))

LEMMA ReconcileMeans ==
    ASSUME RingKinds, NEW src \in Sources \cup {None}, Reconcile(src)
    PROVE  /\ DOMAIN task' = Tasks
           /\ UNCHANGED <<disk, encoder, now, skew, clip>> /\ excuse \subseteq excuse'
           /\ \/ \A u \in Tasks : Left(u)
              \/ \E t \in Tasks :
                    /\ task'[t] = Opening(src)
                    /\ \A u \in Tasks \ {t} : Left(u)
                    /\ "overlapped" \in excuse' \/ \A u \in Tasks \ {t} : task'[u].at = "none"
<1> DEFINE kept == {t \in Running : task[t].source = src}
<1>1. PICK stopped \in [Running \ kept -> UNION {Stopped(task[t]) : t \in Running}] :
              LET left == [t \in Tasks |->
                              IF t \in DOMAIN stopped THEN stopped[t] ELSE task[t]]
                  free == {t \in Tasks : left[t].at = "none"}
              IN  /\ \A t \in DOMAIN stopped : stopped[t] \in Stopped(task[t])
                  /\ IF kept # {} \/ src = None
                     THEN /\ DOMAIN stopped # {}
                          /\ task' = left
                          /\ UNCHANGED <<excuse, faults>>
                     ELSE \E t \in free :
                          /\ \A u \in free : t = u \/ task[t].at = "none"
                          /\ task' = [left EXCEPT ![t] = [NoTask EXCEPT
                                          !.at = "opening", !.source = src]]
                          /\ IF free = Tasks THEN UNCHANGED <<excuse, faults>>
                             ELSE Fault /\ excuse' = excuse \cup {"overlapped"}
  BY DEF Reconcile
<1> DEFINE left == [t \in Tasks |-> IF t \in DOMAIN stopped THEN stopped[t] ELSE task[t]]
           free == {t \in Tasks : left[t].at = "none"}
<1>2. UNCHANGED <<disk, encoder, now, skew, clip>>
  BY DEF Reconcile
<1>3. \A u \in Tasks : left[u] = task[u] \/ (Alive(u) /\ left[u] \in Stopped(task[u]))
  <2> SUFFICES ASSUME NEW u \in Tasks PROVE left[u] = task[u] \/ (Alive(u) /\ left[u] \in Stopped(task[u]))
    OBVIOUS
  <2>1. CASE u \in DOMAIN stopped
    BY <1>1, <2>1 DEF Running
  <2>2. CASE u \notin DOMAIN stopped
    BY <2>2
  <2> QED
    BY <2>1, <2>2
<1>4. DOMAIN left = Tasks
  OBVIOUS
<1>5. \/ task' = left /\ excuse' = excuse
      \/ \E t \in free : /\ task' = [left EXCEPT ![t] = Opening(src)]
                         /\ IF free = Tasks THEN excuse' = excuse ELSE excuse' = excuse \cup {"overlapped"}
  BY <1>1 DEF Opening
<1> HIDE DEF left
<1>6. CASE task' = left /\ excuse' = excuse
  BY <1>2, <1>3, <1>4, <1>6 DEF Left
<1>7. CASE \E t \in free : /\ task' = [left EXCEPT ![t] = Opening(src)]
                           /\ IF free = Tasks THEN excuse' = excuse ELSE excuse' = excuse \cup {"overlapped"}
  <2>1. PICK t \in free : /\ task' = [left EXCEPT ![t] = Opening(src)]
                          /\ IF free = Tasks THEN excuse' = excuse ELSE excuse' = excuse \cup {"overlapped"}
    BY <1>7
  <2>2. t \in Tasks /\ DOMAIN task' = Tasks /\ task'[t] = Opening(src) /\ \A u \in Tasks \ {t} : task'[u] = left[u]
    BY <1>4, <2>1
  <2>3. \A u \in Tasks \ {t} : Left(u)
    BY <1>3, <2>2 DEF Left
  <2>4. "overlapped" \in excuse' \/ \A u \in Tasks \ {t} : task'[u].at = "none"
    BY <2>1, <2>2
  <2>5. excuse \subseteq excuse'
    BY <2>1
  <2> QED
    BY <1>2, <2>2, <2>3, <2>4, <2>5
<1> QED
  BY <1>5, <1>6, <1>7

\* A task that is stopped is as sound as it was.
LEMMA EndIsSound ==
    ASSUME RingKinds, NEW t \in Tasks, NEW k2, EndsAt(task[t], k2)
    PROVE  TaskIsSound(k2) /\ k2.opened = task[t].opened
<1> DEFINE k == task[t]
<1>1. TaskIsSound(k) /\ k.at = "recording" /\ k.seg.pending # <<>> /\ now - skew \in Int
  BY DEF RingKinds, EndsAt
<1>2. Started(k.seg) /\ k.seg.entry # None /\ k.seg \in Segmenters
  BY <1>1 DEF TaskIsSound, Started, TaskKinds
<1>3. Close(k.seg, None) \in ClosedSegments
  BY <1>1, FlushIs
<1>4. Closed(k.seg).entry # None
  <2>1. k.seg.pending \in Seq(Framed)
    BY <1>2 DEF Segmenters
  <2>2. PICK f \in Framed : TRUE
    BY <1>1, <2>1
  <2> QED
    BY <1>2, <2>2, SegmentersStay
<1>5. ClosedInto(k, k2, Closed(k.seg), k.retry, Close(k.seg, None), "waiting", now - skew)
  BY DEF EndsAt
<1> HIDE DEF k
<1>6. TaskIsSound(k2)
  BY <1>1, <1>3, <1>4, <1>5, ClosedIntoIsSound
<1> QED
  BY <1>5, <1>6 DEF ClosedInto, k

LEMMA StoppedIsSound ==
    ASSUME RingKinds, NEW t \in Tasks, NEW k2 \in Stopped(task[t])
    PROVE  TaskIsSound(k2) /\ k2.opened <= now
<1> DEFINE k == task[t]
<1>1. TaskIsSound(k) /\ k.opened <= now /\ now \in Nat
  BY DEF RingKinds
<1>2. CASE k2 = NoTask
  BY <1>1, <1>2, NoTaskIsSound
<1>3. CASE EndsAt(k, k2)
  BY <1>1, <1>3, EndIsSound
<1>4. CASE Keeps(k, k2) /\ k2.at = k.at
  <2> HIDE DEF k
  <2> QED
    BY <1>1, <1>4 DEF Keeps, TaskIsSound, AtFiles, Prunes
<1> QED
  BY <1>2, <1>3, <1>4, StoppedMeans

\* What one task does leaves the others as they are.
LEMMA OneMoves ==
    ASSUME RingKinds, NEW t \in Tasks, Only(t), TaskIsSound(task'[t]), task'[t].opened <= now',
           now' \in Nat, now <= now'
    PROVE  DOMAIN task' = Tasks /\ \A u \in Tasks : TaskIsSound(task'[u]) /\ task'[u].opened <= now'
<1> SUFFICES ASSUME NEW u \in Tasks, u # t PROVE TaskIsSound(task'[u]) /\ task'[u].opened <= now'
  BY DEF Only
<1>1. task'[u] = task[u] /\ TaskIsSound(task[u]) /\ task[u].opened <= now /\ now \in Nat
  BY DEF Only, RingKinds
<1>2. task[u].opened \in Nat
  BY <1>1 DEF TaskIsSound, TaskKinds
<1> QED
  BY <1>1, <1>2

LEMMA FrameIsSound ==
    ASSUME RingKinds, NEW t \in Tasks, NEW f, NEW p, FrameIs(t, f, p)
    PROVE  Only(t) /\ TaskIsSound(task'[t]) /\ task'[t].opened = task[t].opened
<1> DEFINE k == task[t]
           k2 == task'[t]
<1>1. /\ TaskIsSound(k) /\ k.at = "recording" /\ now + 1 - skew \in Int /\ k \in TaskKinds
      /\ DOMAIN task = Tasks
  BY DEF RingKinds, FrameIs, TaskIsSound
<1>2. k.seg \in Segmenters /\ Started(k.seg) /\ f \in Framed /\ f.cfg # None /\ f.ts \in Nat
  <2>1. f \in Framed /\ k.seg \in Segmenters /\ Started(k.seg)
    BY DEF FrameIs, Comes
  <2> QED
    BY <2>1, RingAssumption DEF Framed
<1>3. Only(t)
  <2>1. task' = [task EXCEPT ![t] = k2]
    BY DEF FrameIs
  <2> HIDE DEF k2
  <2> QED
    BY <1>1, <2>1 DEF Only
<1>4. k.seg.entry # None => With(k.seg, f) \in Segmenters /\ With(k.seg, f).entry # None /\ With(k.seg, f).rate = 1
                             /\ With(k.seg, f).pending = k.seg.pending /\ k.seg.pending # <<>>
  BY <1>2, SegmentersStay DEF Started
<1>5. ASSUME NEW s \in Segmenters, s.entry # None, s.rate = 1 PROVE Started(Take(s, f)) /\ Take(s, f).entry # None
  <2>1. Take(s, f).pending = Append(s.pending, f) /\ Take(s, f).entry = s.entry /\ Take(s, f).rate = s.rate
    BY <1>2, SegmentersStay
  <2>2. s.pending \in Seq(Framed)
    BY DEF Segmenters
  <2>3. Append(s.pending, f) # <<>>
    BY <1>2, <2>2
  <2> QED
    BY <1>5, <2>1, <2>3 DEF Started
<1>6. CASE FrameKeeps(k, k2, f)
  <2>1. Started(k2.seg)
    <3>1. CASE k2.seg = k.seg
      BY <1>2, <3>1
    <3>2. CASE k2.seg = Opens(k.seg, f)
      <4>1. Opens(k.seg, f).entry = f.cfg /\ Opens(k.seg, f).rate = 1 /\ Opens(k.seg, f).pending = <<f>>
        BY <1>2, SegmentersStay
      <4> QED
        BY <1>2, <3>2, <4>1 DEF Started
    <3>3. CASE k.seg.entry # None /\ k2.seg = Take(With(k.seg, f), f)
      BY <1>4, <1>5, <3>3
    <3> QED
      BY <1>6, <3>1, <3>2, <3>3 DEF FrameKeeps
  <2>2. /\ k2 \in TaskKinds /\ k2.at = "recording" /\ k2.opened = k.opened /\ k2.retry = k.retry
    BY <1>6 DEF FrameKeeps
  <2> HIDE DEF k, k2
  <2>3. TaskIsSound(k2)
    BY <1>1, <2>1, <2>2 DEF TaskIsSound, AtFiles, Prunes
  <2> QED
    BY <1>3, <2>2, <2>3 DEF k, k2
<1>7. CASE FrameCloses(k, k2, f, now + 1 - skew)
  <2> DEFINE w == With(k.seg, f)
             s == Take(Closed(w), f)
             c == Close(w, f.ts)
  <2>1. k.seg.entry # None /\ ClosedInto(k, k2, s, None, c, "recording", now + 1 - skew)
    BY <1>7 DEF FrameCloses
  <2>2. w \in Segmenters /\ w.entry # None /\ w.rate = 1 /\ w.pending # <<>>
    BY <1>4, <2>1
  <2> HIDE DEF w
  <2>3. c \in ClosedSegments
    BY <1>2, <2>2, CloseIs
  <2>4. Closed(w) \in Segmenters /\ Closed(w).entry # None /\ Closed(w).rate = 1
    BY <1>2, <2>2, SegmentersStay
  <2>5. Started(s) /\ s.entry # None
    BY <1>5, <2>4
  <2> HIDE DEF s, c, k, k2
  <2>6. TaskIsSound(k2)
    BY <1>1, <2>1, <2>3, <2>5, ClosedIntoIsSound
  <2> QED
    BY <1>3, <2>1, <2>6 DEF ClosedInto, k, k2
<1>8. CASE FrameChanges(k, k2, f, p, now + 1 - skew)
  <2> DEFINE s == Closed(k.seg)
             c == Close(k.seg, None)
             r == [f |-> f, p |-> p]
  <2>1. k.seg.entry # None /\ ClosedInto(k, k2, s, r, c, "recording", now + 1 - skew)
    BY <1>8 DEF FrameChanges
  <2>2. c \in ClosedSegments
    BY <1>2, <1>4, <2>1, CloseIs DEF Started
  <2>3. s.entry # None
    BY <1>2, <2>1, SegmentersStay
  <2>4. r # None
    <3>1. f \in Framed /\ p \in Reported
      <4>1. p = [cfg |-> f.cfg, frame |-> None, sound |-> TRUE] /\ f.cfg \in Configs
        BY DEF FrameIs, Comes
      <4> QED
        BY <1>2, <4>1 DEF Reported
    <3>2. r \in [f : Framed, p : Reported]
      BY <3>1
    <3> QED
      BY <3>2, RingAssumption
  <2> HIDE DEF s, c, r, k, k2
  <2>5. TaskIsSound(k2)
    BY <1>1, <2>1, <2>2, <2>3, <2>4, ClosedIntoIsSound
  <2> QED
    BY <1>3, <2>1, <2>5 DEF ClosedInto, k, k2
<1> QED
  BY <1>6, <1>7, <1>8 DEF FrameIs

DiskIsSound(d) ==
    /\ d \in [segs : SUBSET StoredSegments, mp4 : SUBSET Configs, json : SUBSET Configs]
    /\ IsFiniteSet(d.segs)

LEMMA TaskStepIsSound ==
    ASSUME RingKinds, NEW t \in Tasks, TaskStep(t)
    PROVE  /\ Only(t) /\ TaskIsSound(task'[t]) /\ task'[t].opened <= now'
           /\ now' \in Nat /\ now <= now' /\ encoder' \in Configs
           /\ skew' = skew /\ clip' = clip /\ DiskIsSound(disk')
<1> DEFINE k == task[t]
           k2 == task'[t]
           Rest == now' = now /\ encoder' = encoder /\ skew' = skew /\ clip' = clip
<1>0. /\ TaskIsSound(k) /\ k \in TaskKinds /\ k.opened <= now /\ now \in Nat /\ DiskIsSound(disk)
      /\ encoder \in Configs /\ k.opened \in Nat
  BY DEF RingKinds, TaskIsSound, TaskKinds, DiskIsSound
<1>1. ASSUME NEW at \in {"opening", "waiting", "json", "evict", "inits", "doomed"}, Keeps(k, k2), k2.at = at,
             at \in {"opening", "waiting"} => k.at \in {"opening", "waiting"},
             at = "json" => k.at = "mp4",
             at \in {"evict", "inits", "doomed"} => k.at \in {"list", "evict", "inits", "doomed"}
      PROVE  TaskIsSound(k2) /\ k2.opened <= now
  <2> HIDE DEF k, k2
  <2> QED
    BY <1>0, <1>1 DEF Keeps, TaskIsSound, AtFiles, Prunes
<1>2. k2 = NoTask \/ k2 = Idle(k) => TaskIsSound(k2) /\ k2.opened <= now
  <2>1. TaskIsSound(NoTask) /\ NoTask.opened <= now
    BY <1>0, NoTaskIsSound
  <2>2. TaskIsSound(Idle(k)) /\ Idle(k).opened <= now
    BY <1>0, IdleIsSound
  <2> HIDE DEF k, k2
  <2> QED
    BY <2>1, <2>2
<1>3. CASE Open(t)
  <2>1. /\ Only(t) /\ k2 \in TaskKinds /\ k2.at = "recording" /\ k2.opened = now' /\ k2.seg = k.seg
        /\ k2.retry = k.retry
    BY <1>3, OpensMean
  <2>2. k.at = "opening" /\ now' = now + 1 /\ UNCHANGED <<disk, encoder, skew, clip>>
    BY <1>3 DEF Open
  <2>3. k.seg = NewSegmenter /\ k.retry = None
    BY <1>0, <2>2 DEF TaskIsSound
  <2> HIDE DEF k, k2
  <2>4. TaskIsSound(k2)
    BY <2>1, <2>3, NewIsSegmenter DEF TaskIsSound, AtFiles, Prunes
  <2>5. now' \in Nat /\ now <= now' /\ k2.opened <= now'
    BY <1>0, <2>1, <2>2
  <2> QED
    BY <1>0, <2>1, <2>2, <2>4, <2>5 DEF k2
<1>4. CASE OpenFails(t) \/ Reopen(t)
  <2>1. Only(t) /\ Keeps(k, k2) /\ k2.at \in {"opening", "waiting"} /\ k.at \in {"opening", "waiting"}
    BY <1>4, OpensMean DEF OpenFails, Reopen
  <2>2. TaskIsSound(k2) /\ k2.opened <= now
    BY <1>1, <2>1
  <2>3. Rest /\ disk' = disk
    BY <1>4 DEF OpenFails, Reopen
  <2> QED
    BY <1>0, <2>1, <2>2, <2>3
<1>5. ASSUME NEW key \in BOOLEAN, NEW cfg \in Configs, Frame(t, key, cfg)
      PROVE  /\ Only(t) /\ TaskIsSound(k2) /\ k2.opened <= now'
             /\ now' \in Nat /\ now <= now' /\ encoder' \in Configs
             /\ skew' = skew /\ clip' = clip /\ DiskIsSound(disk')
  <2>1. PICK f, p : FrameIs(t, f, p)
    BY <1>5, FrameMeans
  <2>2. Only(t) /\ TaskIsSound(k2) /\ k2.opened = k.opened
    BY <2>1, FrameIsSound
  <2>3. f.cfg \in Configs /\ encoder' = f.cfg /\ now' = now + 1 /\ UNCHANGED <<disk, skew, clip>>
    BY <2>1 DEF FrameIs
  <2>4. now' \in Nat /\ now <= now' /\ k2.opened <= now'
    BY <1>0, <2>2, <2>3
  <2> QED
    BY <1>0, <2>2, <2>3, <2>4
<1>6. CASE StreamEnds(t)
  <2>1. Only(t) /\ (k2 = Idle(k) \/ EndsAt(k, k2))
    BY <1>6, EndMeans DEF StreamEnds
  <2>2. Rest /\ disk' = disk
    BY <1>6 DEF StreamEnds
  <2>3. TaskIsSound(k2) /\ k2.opened <= now
    <3>1. CASE k2 = Idle(k)
      BY <1>2, <3>1
    <3>2. CASE EndsAt(k, k2)
      BY <1>0, <3>2, EndIsSound
    <3> QED
      BY <2>1, <3>1, <3>2
  <2> QED
    BY <1>0, <2>1, <2>2, <2>3
<1>7. CASE ReadFails(t) \/ WriteFails(t)
  <2>1. Only(t) /\ (k2 = NoTask \/ k2 = Idle(k))
    BY <1>7, OpensMean, WritesMean
  <2>2. Rest /\ disk' = disk
    BY <1>7 DEF ReadFails, WriteFails
  <2> QED
    BY <1>0, <1>2, <2>1, <2>2
<1>8. CASE WriteMp4(t)
  <2> DEFINE e == k.seg.entry
  <2>1. Only(t) /\ Keeps(k, k2) /\ k2.at = "json" /\ k.at = "mp4"
    BY <1>8, WritesMean DEF WriteMp4
  <2>2. Rest /\ disk' = [disk EXCEPT !.mp4 = @ \cup {e}]
    BY <1>8 DEF WriteMp4
  <2>3. e \in Configs
    BY <1>0, <2>1 DEF TaskIsSound, AtFiles, TaskKinds, Segmenters
  <2> HIDE DEF e
  <2>4. DiskIsSound(disk')
    BY <1>0, <2>2, <2>3 DEF DiskIsSound
  <2>5. TaskIsSound(k2) /\ k2.opened <= now
    BY <1>1, <2>1
  <2> QED
    BY <1>0, <2>1, <2>2, <2>4, <2>5
<1>9. CASE WriteJson(t)
  <2> DEFINE e == k.seg.entry
  <2>1. /\ Only(t) /\ k2 \in TaskKinds /\ k2.at = "segment" /\ k2.init = k.seg.entry
        /\ k2.then = k.then /\ k2.opened = k.opened /\ k2.seg = k.seg /\ k2.retry = k.retry
        /\ k2.origin = k.origin /\ k2.closed = k.closed /\ k.at = "json"
    BY <1>9, WritesMean DEF WriteJson
  <2>2. Rest /\ disk' = [disk EXCEPT !.json = @ \cup {e}]
    BY <1>9 DEF WriteJson
  <2>3. e \in Configs /\ e # None
    BY <1>0, <2>1 DEF TaskIsSound, AtFiles, TaskKinds, Segmenters
  <2>4. TaskIsSound(k2) /\ k2.opened <= now
    <3> HIDE DEF k, k2
    <3> QED
      BY <1>0, <2>1, <2>3 DEF TaskIsSound, AtFiles, Prunes, e
  <2> HIDE DEF e
  <2>5. DiskIsSound(disk')
    BY <1>0, <2>2, <2>3 DEF DiskIsSound
  <2> QED
    BY <1>0, <2>1, <2>2, <2>4, <2>5
<1>10. CASE WriteSegment(t)
  <2>1. SegmentWritten(t)
    BY <1>10, WriteSegmentMeans
  <2>2. Rest
    BY <1>10 DEF WriteSegment
  <2>3. k2 \in TaskKinds /\ k2.at = "list" /\ k2.opened = k.opened /\ k2.then = k.then /\ k2.retry = None
    BY <2>1 DEF SegmentWritten
  <2>4. k.at = "segment" /\ (k.retry = None => k2.seg = k.seg) /\ (k.retry # None => Started(k2.seg))
    BY <1>10, <2>1 DEF SegmentWritten, WriteSegment
  <2>5. TaskIsSound(k2) /\ k2.opened <= now
    <3> HIDE DEF k, k2
    <3> QED
      BY <1>0, <2>3, <2>4 DEF TaskIsSound, AtFiles, Prunes
  <2>6. Only(t) /\ DiskIsSound(disk')
    BY <2>1 DEF SegmentWritten, DiskIsSound
  <2> QED
    BY <1>0, <2>2, <2>5, <2>6
<1>11. CASE List(t) \/ ListLive(t) \/ ListInits(t)
  <2>1. /\ Only(t) /\ Keeps(k, k2) /\ k.at \in {"list", "evict", "inits"}
        /\ k2.at \in {"evict", "inits", "doomed"}
    BY <1>11, ListMeans, ListsMean
  <2>2. Rest /\ disk' = disk
    BY <1>11 DEF List, ListLive, ListInits
  <2>3. TaskIsSound(k2) /\ k2.opened <= now
    BY <1>1, <2>1
  <2> QED
    BY <1>0, <2>1, <2>2, <2>3
<1>12. CASE Evict(t)
  <2>1. Only(t) /\ Keeps(k, k2) /\ k.at = "evict" /\ k2.at = "evict"
    BY <1>12, EvictMeans
  <2>2. Rest
    BY <1>12 DEF Evict
  <2> DEFINE left == {x \in disk.segs : Name(x) # Name(Head(k.listed))}
  <2>3. disk' = [disk EXCEPT !.segs = left] /\ left \subseteq disk.segs
    BY <1>12 DEF Evict
  <2> HIDE DEF left
  <2>4. DiskIsSound(disk')
    <3>1. IsFiniteSet(left)
      BY <1>0, <2>3, FS_Subset DEF DiskIsSound
    <3> QED
      BY <1>0, <2>3, <3>1 DEF DiskIsSound
  <2>5. TaskIsSound(k2) /\ k2.opened <= now
    BY <1>1, <2>1
  <2> QED
    BY <1>0, <2>1, <2>2, <2>4, <2>5
<1>13. CASE RemoveInit(t)
  <2>1. Only(t) /\ Keeps(k, k2) /\ k.at = "doomed" /\ k2.at = "doomed"
    BY <1>13, RemoveMeans
  <2>2. Rest
    BY <1>13 DEF RemoveInit
  <2>3. DiskIsSound(disk')
    BY <1>0, <1>13, RemoveMeans DEF DiskIsSound
  <2>4. TaskIsSound(k2) /\ k2.opened <= now
    BY <1>1, <2>1
  <2> QED
    BY <1>0, <2>1, <2>2, <2>3, <2>4
<1>14. CASE Settle(t)
  <2>1. /\ Only(t) /\ k.at = "doomed" /\ k.retry = None
        /\ \/ k2 = NoTask \/ k2 = Idle(k)
           \/ /\ k.then # "waiting" /\ k2 \in TaskKinds /\ k2.at = "recording"
              /\ k2.opened = k.opened /\ k2.seg = k.seg /\ k2.retry = k.retry
              /\ k2.origin = k.origin /\ k2.init = k.init
    BY <1>14, SettleMeans
  <2>2. Rest /\ disk' = disk
    BY <1>14 DEF Settle
  <2>3. ASSUME k.then # "waiting", k2 \in TaskKinds, k2.at = "recording", k2.opened = k.opened, k2.seg = k.seg,
               k2.retry = k.retry
        PROVE  TaskIsSound(k2) /\ k2.opened <= now
    <3> HIDE DEF k, k2
    <3> QED
      BY <1>0, <2>1, <2>3 DEF TaskIsSound, AtFiles, Prunes, TaskKinds
  <2>4. TaskIsSound(k2) /\ k2.opened <= now
    BY <1>2, <2>1, <2>3
  <2> QED
    BY <1>0, <2>1, <2>2, <2>4
<1> QED
  BY <1>3, <1>4, <1>5, <1>6, <1>7, <1>8, <1>9, <1>10, <1>11, <1>12, <1>13, <1>14 DEF TaskStep

LEMMA ClipIsSound ==
    ASSUME RingKinds, ClipStep
    PROVE  clip' \in ClipKinds /\ UNCHANGED <<disk, task, encoder, now, skew, excuse, faults>>
<1>0. /\ clip \in ClipKinds /\ disk.segs \in SUBSET StoredSegments /\ IsFiniteSet(disk.segs)
  BY DEF RingKinds
<1>1. ASSUME NEW range \in Ranges, Ask(range[1], range[2])
      PROVE  clip' \in ClipKinds
  <2> DEFINE from == range[1]
             to == range[2]
             held == Overlapping(from, to)
             q == Sorted(held)
             at == IF q = <<>> THEN "nothing"
                   ELSE IF \E i \in DOMAIN q : q[i].init # q[1].init THEN "reshaped"
                   ELSE "reading"
             e == <<>>
  <2>1. clip' = [at |-> at, from |-> from, to |-> to, listed |-> q, got |-> e, held |-> held]
    BY <1>1 DEF Ask
  <2>2. held \in SUBSET StoredSegments /\ IsFiniteSet(held)
    BY <1>0, FS_Subset DEF Overlapping
  <2>3. q \in Seq(StoredSegments)
    <3>1. q \in Seq(held)
      BY <2>2, SortedIs
    <3> HIDE DEF q
    <3> QED
      BY <2>2, <3>1
  <2>4. at \in {"nothing", "reshaped", "reading"} /\ e \in Seq(StoredSegments)
    OBVIOUS
  <2>5. from \in {r[1] : r \in Ranges} /\ to \in {r[2] : r \in Ranges}
    OBVIOUS
  <2> HIDE DEF from, to, held, q, at, e
  <2> QED
    BY <2>1, <2>2, <2>3, <2>4, <2>5 DEF ClipKinds
<1>2. ASSUME ReadSegment PROVE clip' \in ClipKinds
  <2> DEFINE next == clip.listed[Len(clip.got) + 1]
             found == {x \in disk.segs : Name(x) = Name(next)}
             x == CHOOSE x \in found : TRUE
             q == Append(clip.got, x)
  <2>1. clip' = IF found = {} THEN [clip EXCEPT !.at = "gone"] ELSE [clip EXCEPT !.got = q]
    BY <1>2 DEF ReadSegment
  <2>2. CASE found = {}
    <3> HIDE DEF found
    <3> QED
      BY <1>0, <2>1, <2>2 DEF ClipKinds
  <2>3. CASE found # {}
    <3>1. x \in StoredSegments
      BY <1>0, <2>3
    <3> HIDE DEF x, found
    <3>2. q \in Seq(StoredSegments)
      BY <1>0, <3>1 DEF ClipKinds
    <3> HIDE DEF q
    <3> QED
      BY <1>0, <2>1, <2>3, <3>2 DEF ClipKinds
  <2> QED
    BY <2>2, <2>3
<1>3. ASSUME ReadDescription \/ ReadInit PROVE clip' \in ClipKinds
  <2>1. PICK at \in {"init", "gone", "done"} : clip' = [clip EXCEPT !.at = at]
    BY <1>3 DEF ReadDescription, ReadInit
  <2> QED
    BY <1>0, <2>1 DEF ClipKinds
<1>4. UNCHANGED <<disk, task, encoder, now, skew, excuse, faults>>
  BY DEF ClipStep, Ask, ReadSegment, ReadDescription, ReadInit
<1> QED
  BY <1>1, <1>2, <1>3, <1>4 DEF ClipStep

LEMMA NoClipIsSound == NoClip \in ClipKinds
<1>1. <<>> \in Seq(StoredSegments)
  OBVIOUS
<1> QED
  BY <1>1 DEF NoClip, ClipKinds

LEMMA KindsBegin ==
    ASSUME RingInit
    PROVE  RingKinds
<1>1. disk.segs = {} /\ disk.mp4 = {} /\ disk.json = {}
  BY DEF RingInit
<1>2. disk \in [segs : SUBSET StoredSegments, mp4 : SUBSET Configs, json : SUBSET Configs]
  BY DEF RingInit
<1>3. IsFiniteSet(disk.segs)
  BY <1>1, FS_EmptySet
<1>4. clip \in ClipKinds
  BY NoClipIsSound DEF RingInit
<1>5. DOMAIN task = Tasks /\ \A t \in Tasks : TaskIsSound(task[t]) /\ task[t].opened <= now
  BY NoTaskIsSound DEF RingInit
<1> QED
  BY <1>1, <1>2, <1>3, <1>4, <1>5 DEF RingInit, RingKinds

LEMMA KindsStay ==
    ASSUME RingKinds, RingNext
    PROVE  RingKinds'
<1>0. /\ disk \in [segs : SUBSET StoredSegments, mp4 : SUBSET Configs, json : SUBSET Configs]
      /\ IsFiniteSet(disk.segs) /\ DOMAIN task = Tasks
      /\ \A t \in Tasks : TaskIsSound(task[t]) /\ task[t].opened <= now
      /\ encoder \in Configs /\ now \in Nat /\ skew \in Nat /\ clip \in ClipKinds
  BY DEF RingKinds
<1>1. ASSUME DiskIsSound(disk'), DOMAIN task' = Tasks,
             \A t \in Tasks : TaskIsSound(task'[t]) /\ task'[t].opened <= now',
             encoder' \in Configs, now' \in Nat, skew' \in Nat, clip' \in ClipKinds
      PROVE  RingKinds'
  <2>1. /\ disk'.segs \in SUBSET StoredSegments /\ IsFiniteSet(disk'.segs)
        /\ disk' \in [segs : SUBSET StoredSegments, mp4 : SUBSET Configs, json : SUBSET Configs]
    BY <1>1 DEF DiskIsSound
  <2> QED
    BY <1>1, <2>1 DEF RingKinds, TaskIsSound, TaskKinds, AtFiles, Prunes, Started
<1>2. ASSUME NEW t \in Tasks, TaskStep(t) PROVE RingKinds'
  <2>1. /\ Only(t) /\ TaskIsSound(task'[t]) /\ task'[t].opened <= now'
        /\ now' \in Nat /\ now <= now' /\ encoder' \in Configs
        /\ skew' = skew /\ clip' = clip /\ DiskIsSound(disk')
    BY <1>2, TaskStepIsSound
  <2>2. DOMAIN task' = Tasks /\ \A u \in Tasks : TaskIsSound(task'[u]) /\ task'[u].opened <= now'
    BY <2>1, OneMoves
  <2> QED
    BY <1>0, <1>1, <2>1, <2>2
<1>3. ASSUME NEW src \in Sources \cup {None}, Reconcile(src) PROVE RingKinds'
  <2>1. DOMAIN task' = Tasks /\ UNCHANGED <<disk, encoder, now, skew, clip>>
    BY <1>3, ReconcileMeans
  <2>2. ASSUME NEW u \in Tasks, Left(u) PROVE TaskIsSound(task'[u]) /\ task'[u].opened <= now'
    BY <1>0, <2>1, <2>2, StoppedIsSound DEF Left
  <2>3. TaskIsSound(Opening(src)) /\ Opening(src).opened <= now'
    BY <1>0, <2>1, OpeningIsSound
  <2>4. \A u \in Tasks : TaskIsSound(task'[u]) /\ task'[u].opened <= now'
    <3>1. CASE \A u \in Tasks : Left(u)
      BY <2>2, <3>1
    <3>2. CASE \E t \in Tasks : task'[t] = Opening(src) /\ \A u \in Tasks \ {t} : Left(u)
      <4> HIDE DEF Opening
      <4> QED
        BY <2>2, <2>3, <3>2
    <3> QED
      BY <1>3, <3>1, <3>2, ReconcileMeans
  <2> QED
    BY <1>0, <1>1, <2>1, <2>4 DEF DiskIsSound
<1>4. CASE Crash
  <2>1. \A t \in Tasks : TaskIsSound(NoTask) /\ NoTask.opened <= now
    BY <1>0, NoTaskIsSound
  <2>2. task' = [t \in Tasks |-> NoTask] /\ clip' \in ClipKinds /\ UNCHANGED <<disk, encoder, now, skew>>
    BY <1>4, NoClipIsSound DEF Crash
  <2> QED
    BY <1>0, <1>1, <2>1, <2>2 DEF DiskIsSound
<1>5. CASE Unseen
  <2>1. now' = now + 1 /\ UNCHANGED <<disk, task, encoder, skew, clip>>
    BY <1>5 DEF Unseen
  <2>2. \A t \in Tasks : task[t].opened \in Nat
    BY <1>0 DEF TaskIsSound, TaskKinds
  <2>3. now' \in Nat /\ \A t \in Tasks : TaskIsSound(task'[t]) /\ task'[t].opened <= now'
    BY <1>0, <2>1, <2>2
  <2> QED
    BY <1>0, <1>1, <2>1, <2>3 DEF DiskIsSound
<1>6. CASE ClockSetBack
  <2>1. skew' \in Nat /\ UNCHANGED <<disk, task, encoder, now, clip>>
    BY <1>6 DEF ClockSetBack
  <2> QED
    BY <1>0, <1>1, <2>1 DEF DiskIsSound
<1>7. CASE ClipStep
  <2>1. clip' \in ClipKinds /\ UNCHANGED <<disk, task, encoder, now, skew, excuse, faults>>
    BY <1>7, ClipIsSound
  <2> QED
    BY <1>0, <1>1, <2>1 DEF DiskIsSound
<1> QED
  BY <1>2, <1>3, <1>4, <1>5, <1>6, <1>7 DEF RingNext

-----------------------------------------------------------------------------
(* What holds of a task as time goes by and segments go.                   *)

LEMMA TimelineStays ==
    ASSUME NEW S \in SUBSET StoredSegments, NEW S2 \in SUBSET S, NEW n \in Nat, NEW n2 \in Nat, n <= n2,
           Timeline(S, n)
    PROVE  Timeline(S2, n2)
<1>1. \A x \in S2 : x \in S /\ x.at \in Nat
  BY DEF StoredSegments
<1> QED
  BY <1>1 DEF Timeline

LEMMA StaysPlaced ==
    ASSUME NEW k \in TaskKinds, NEW k2, k2.opened = k.opened, k2.origin = k.origin,
           NEW S, NEW S2 \in SUBSET S, NEW n \in Nat, NEW n2 \in Nat, n <= n2,
           RunIsPlaced(k, S, n)
    PROVE  RunIsPlaced(k2, S2, n2)
<1>1. k.opened \in Nat /\ k.opened \in 1 .. n2
  BY DEF TaskKinds, RunIsPlaced
<1>2. k.origin # None => k.origin.ts \in 1 .. n2 - k.opened
  <2> SUFFICES ASSUME k.origin # None PROVE k.origin.ts \in 1 .. n2 - k.opened
    OBVIOUS
  <2>1. k.origin.ts \in 1 .. n - k.opened
    BY DEF RunIsPlaced
  <2> QED
    BY <1>1, <2>1
<1> QED
  BY <1>1, <1>2 DEF RunIsPlaced

LEMMA StaysAhead ==
    ASSUME NEW k, NEW k2, k2.opened = k.opened, k2.origin = k.origin,
           NEW S, NEW S2 \in SUBSET S, NEW ts, Follows(k, S, ts)
    PROVE  Follows(k2, S2, ts)
BY DEF Follows

LEMMA StaysHolding ==
    ASSUME NEW k \in TaskKinds, NEW k2, k2.opened = k.opened, k2.origin = k.origin, k2.seg = k.seg, k2.init = k.init,
           NEW S, NEW S2 \in SUBSET S, NEW cfg, NEW n \in Nat, NEW n2 \in Nat, n <= n2,
           Holds(k, S, cfg, n)
    PROVE  Holds(k2, S2, cfg, n2)
<1>1. k.opened \in Nat
  BY DEF TaskKinds
<1>2. \A i \in DOMAIN k.seg.pending : k.seg.pending[i].cfg = k.seg.entry /\ k.seg.pending[i].ts \in 1 .. n2 - k.opened
  BY <1>1 DEF Holds
<1>3. k.seg.pending # <<>> => Follows(k2, S2, k.seg.pending[1].ts)
  <2> SUFFICES ASSUME k.seg.pending # <<>> PROVE Follows(k2, S2, k.seg.pending[1].ts)
    OBVIOUS
  <2>1. Follows(k, S, k.seg.pending[1].ts)
    BY DEF Holds
  <2> QED
    BY <2>1, StaysAhead
<1> QED
  BY <1>2, <1>3 DEF Holds

\* A task that has not begun, or begins again, owes nothing.
LEMMA RestIsQuiet ==
    ASSUME NEW k, k.at \in {"none", "opening", "waiting"}, k.origin = None, k.init = None,
           NEW d, NEW S, NEW cfg, NEW n
    PROVE  TaskInv(k, d, S, cfg, n)
BY DEF TaskInv, RecordingInv, StoringInv, PruningInv, AtFiles, Prunes

\* A task that goes on where it was does, whatever goes by.
LEMMA StaysQuiet ==
    ASSUME NEW k \in TaskKinds, NEW k2, Keeps(k, k2), k2.at = k.at, k2.listed = k.listed,
           k2.total = k.total, k2.live = k.live, k2.doomed = k.doomed,
           NEW d, NEW S, NEW S2 \in SUBSET S, NEW cfg, NEW n \in Nat, NEW n2 \in Nat, n <= n2,
           k.at = "recording" => n2 = n,
           TaskInv(k, d, S, cfg, n)
    PROVE  TaskInv(k2, d, S2, cfg, n2)
<1>1. /\ k2.then = k.then /\ k2.opened = k.opened /\ k2.seg = k.seg /\ k2.retry = k.retry
      /\ k2.origin = k.origin /\ k2.init = k.init /\ k2.closed = k.closed /\ k.opened \in Nat
  BY DEF Keeps, TaskKinds
<1>2. RunIsPlaced(k, S, n) => RunIsPlaced(k2, S2, n2)
  BY <1>1, StaysPlaced
<1>3. Holds(k, S, cfg, n) => Holds(k2, S2, cfg, n2)
  BY <1>1, StaysHolding
<1>4. RecordingInv(k2, d, S2, cfg, n2)
  <2> SUFFICES ASSUME k.at = "recording" PROVE RecordingInv(k2, d, S2, cfg, n)
    BY DEF RecordingInv
  <2>1. RecordingInv(k, d, S, cfg, n) /\ n2 = n
    BY DEF TaskInv
  <2>2. Consecutive(k2, n)
    BY <1>1, <2>1 DEF Consecutive, RecordingInv
  <2> QED
    BY <1>1, <1>3, <2>1, <2>2 DEF RecordingInv
<1>5. StoringInv(k2, d, S2, cfg, n2)
  <2> SUFFICES ASSUME AtFiles(k) PROVE StoringInv(k2, d, S2, cfg, n2)
    BY DEF StoringInv, AtFiles
  <2>1. StoringInv(k, d, S, cfg, n)
    BY DEF TaskInv
  <2>2. Follows(k, S, k.closed.start) /\ k.closed.start \in 1 .. n - k.opened /\ RetryInv(k, cfg, n)
    BY <2>1 DEF StoringInv
  <2>3. Follows(k2, S2, k.closed.start)
    BY <1>1, <2>2, StaysAhead
  <2>4. k.closed.start \in 1 .. n2 - k.opened
    BY <1>1, <2>2
  <2>5. RetryInv(k2, cfg, n2)
    BY <1>1, <2>2 DEF RetryInv
  <2> QED
    BY <1>1, <1>3, <2>1, <2>3, <2>4, <2>5 DEF StoringInv, AtFiles
<1>6. PruningInv(k2, d, S2, cfg, n2)
  <2>1. PruningInv(k, d, S, cfg, n)
    BY DEF TaskInv
  <2>2. HasNewest(k, d.segs) => HasNewest(k2, d.segs)
    BY <1>1 DEF HasNewest
  <2>3. EvictingInv(k, d.segs) => EvictingInv(k2, d.segs)
    BY <1>1 DEF EvictingInv
  <2> QED
    BY <1>1, <1>3, <2>1, <2>2, <2>3 DEF PruningInv, Prunes
<1> QED
  BY <1>1, <1>2, <1>4, <1>5, <1>6 DEF TaskInv

-----------------------------------------------------------------------------
(* A task begins to store.                                                 *)

\* How many frames make a first segment of a run, and where that puts it.
LEMMA FirstIsPlaced ==
    ASSUME NEW s \in Segmenters, s.rate = 1, s.pending # <<>>, NEW n \in Nat, NEW opened \in Nat,
           \A i \in DOMAIN s.pending : s.pending[i].ts = n - opened - Len(s.pending) + i,
           NEW next \in Nat \cup {None}, next = None \/ next = n + 1 - opened
    PROVE  /\ Close(s, next).duration = Len(s.pending)
           /\ Len(s.pending) = n - opened + 1 - s.pending[1].ts
<1>1. s.pending \in Seq(Framed)
  BY DEF Segmenters
<1>2. /\ Len(s.pending) \in Nat /\ DOMAIN s.pending = 1 .. Len(s.pending) /\ Len(s.pending) # 0
  BY <1>1, LenProperties, EmptySeq
<1> DEFINE m == Len(s.pending)
<1>3. \A i \in 1 .. m : s.pending[i].ts = n - opened - m + i
  BY <1>2
<1>4. m \in Nat /\ m >= 1
  BY <1>2
<1> HIDE DEF m
<1>5. s.pending[1].ts = n - opened - m + 1 /\ s.pending[m].ts = n - opened
  BY <1>3, <1>4
<1>6. \A i \in 1 .. m - 1 : s.pending[i + 1].ts - s.pending[i].ts = 1
  <2> SUFFICES ASSUME NEW i \in 1 .. m - 1 PROVE s.pending[i + 1].ts - s.pending[i].ts = 1
    OBVIOUS
  <2>1. i \in 1 .. m /\ i + 1 \in 1 .. m
    BY <1>4
  <2>2. s.pending[i].ts = n - opened - m + i /\ s.pending[i + 1].ts = n - opened - m + (i + 1)
    BY <1>3, <2>1
  <2> QED
    BY <1>4, <2>1, <2>2
<1>7. next = None \/ next - s.pending[m].ts = 1
  BY <1>5
<1>8. InStep(s, next)
  BY <1>6, <1>7 DEF InStep, m
<1>9. m = n - opened + 1 - s.pending[1].ts
  BY <1>4, <1>5
<1> QED
  BY <1>8, <1>9, CloseIs DEF m

BegunToStore(k, k2, d, S, n, n2) ==
    /\ RunIsPlaced(k2, S, n2) /\ AtFiles(k2)
    /\ \A i \in DOMAIN k2.closed.frames : k2.closed.frames[i].cfg = k2.seg.entry
    /\ Follows(k2, S, k2.closed.start) /\ k2.closed.start \in 1 .. n - k.opened
    /\ k2.at # "json" /\ (k2.at = "mp4" => k2.init = None)
    /\ k2.at = "segment" => k2.init = k2.seg.entry /\ k2.init \in d.mp4 \cap d.json
    /\ k2.opened = k.opened /\ k.opened \in 1 .. n /\ (k.origin # None => k2.origin = k.origin)
    /\ k2.origin # None /\ k2.origin.ts <= k2.closed.start

LEMMA BeginsToStore ==
    ASSUME NEW k, TaskIsSound(k), NEW k2, NEW d, NEW S, NEW cfg, NEW n \in Nat, NEW n2 \in Nat, n <= n2,
           k.at = "recording", k.seg.pending # <<>>, TaskInv(k, d, S, cfg, n), DecodeInv(d),
           NEW s3, NEW retry, NEW c, NEW then, NEW clock \in {n, n + 1},
           ClosedInto(k, k2, s3, retry, c, then, clock),
           c \in ClosedSegments, c.start = k.seg.pending[1].ts, c.frames = k.seg.pending,
           k.origin = None => c.duration = Len(k.seg.pending),
           s3.entry = k.seg.entry
    PROVE  BegunToStore(k, k2, d, S, n, n2)
<1> USE DEF BegunToStore
<1>1. /\ k \in TaskKinds /\ k.seg \in Segmenters /\ k.opened \in Nat /\ Started(k.seg)
      /\ k.seg.entry # None /\ k.seg.rate = 1
  BY DEF TaskIsSound, TaskKinds, Started
<1>2. RunIsPlaced(k, S, n) /\ Holds(k, S, cfg, n) /\ Consecutive(k, n)
      /\ (k.init # None => \E x \in d.segs : x.init = k.init)
  BY DEF TaskInv, RecordingInv
<1>3. /\ k2.at = IF k.init = None THEN "mp4" ELSE "segment"
      /\ k2.opened = k.opened /\ k2.seg = s3
      /\ k2.origin = Origin(k, c, clock) /\ k2.init = k.init /\ k2.closed = c
  BY DEF ClosedInto
<1>4. /\ k.seg.pending \in Seq(Framed) /\ Len(k.seg.pending) \in Nat /\ 1 \in DOMAIN k.seg.pending
  <2>1. k.seg.pending \in Seq(Framed)
    BY <1>1 DEF Segmenters
  <2> QED
    BY <2>1, EmptySeq, LenProperties
<1> DEFINE p == k.seg.pending[1].ts
<1>5. p \in 1 .. n - k.opened /\ Follows(k, S, p)
  BY <1>2, <1>4 DEF Holds
<1>6. \A i \in DOMAIN c.frames : c.frames[i].cfg = s3.entry
  BY <1>2 DEF Holds
<1>7. k.opened \in 1 .. n
  BY <1>2 DEF RunIsPlaced
<1>8. k2.at = "segment" => k2.init = k2.seg.entry /\ k2.init \in d.mp4 \cap d.json
  BY <1>2, <1>3 DEF Holds, DecodeInv
<1> HIDE DEF p
<1>9. CASE k.origin # None
  <2>1. k2.origin = k.origin
    BY <1>3, <1>9 DEF Origin
  <2>2. RunIsPlaced(k2, S, n2)
    BY <1>1, <1>2, <1>3, <2>1, StaysPlaced
  <2>3. Follows(k2, S, p) /\ k2.origin.ts <= p
    BY <1>3, <1>5, <1>9, <2>1 DEF Follows
  <2> QED
    BY <1>3, <1>5, <1>6, <1>7, <1>8, <1>9, <2>1, <2>2, <2>3 DEF AtFiles, p
<1>10. CASE k.origin = None
  <2> DEFINE m == c.duration
  <2>1. m = n - k.opened + 1 - p /\ m \in Int /\ p \in Int
    <3>1. Len(k.seg.pending) = n - k.opened + 1 - k.seg.pending[1].ts
      <4>1. \A i \in DOMAIN k.seg.pending : k.seg.pending[i].ts = n - k.opened - Len(k.seg.pending) + i
        BY <1>2, <1>10 DEF Consecutive
      <4> DEFINE sg == k.seg
                 op == k.opened
      <4>2. sg \in Segmenters /\ op \in Nat /\ sg.rate = 1 /\ sg.pending # <<>>
        BY <1>1
      <4>3. \A i \in DOMAIN sg.pending : sg.pending[i].ts = n - op - Len(sg.pending) + i
        BY <4>1
      <4> HIDE DEF sg, op
      <4>4. Len(sg.pending) = n - op + 1 - sg.pending[1].ts
        BY <4>2, <4>3, FirstIsPlaced
      <4> QED
        BY <4>4 DEF sg, op
    <3> QED
      BY <1>4, <1>5, <1>10, <3>1 DEF p
  <2>2. TicksToMs(m, 1) = m * Second
    BY <2>1, Milliseconds
  <2> DEFINE w == clock * Second - m * Second
  <2>3. k2.origin = [ts |-> p, wall |-> w]
    BY <1>3, <1>10, <2>2 DEF Origin, p
  <2>4. k2.origin # None
    BY <1>1, <1>3, OriginIs
  <2>0. \A a \in Int : (a - 1) * Second = a * Second - Second
    <3>1. \A a \in Int : (a - 1) * Second = a * Second - 1 * Second
      BY Milliseconds
    <3>2. 1 * Second = Second
      BY Milliseconds
    <3> QED
      BY <3>1, <3>2
  <2>5. w = (clock - m) * Second
    <3>1. m \in Int /\ clock \in Int
      BY <2>1
    <3> HIDE DEF m
    <3> QED
      BY <3>1, Milliseconds
  <2> HIDE DEF m, w
  <2>6. w = (k.opened + p) * Second \/ w = (k.opened + p) * Second - Second
    <3>1. CASE clock = n + 1
      <4>1. clock - m = k.opened + p
        BY <1>1, <2>1, <3>1
      <4> QED
        BY <2>5, <4>1
    <3>2. CASE clock = n
      <4>1. clock - m = k.opened + p - 1
        BY <1>1, <2>1, <3>2
      <4> DEFINE a == k.opened + p
      <4>2. a \in Int /\ clock - m = a - 1
        BY <1>1, <2>1, <4>1, SMTT(30)
      <4> HIDE DEF a
      <4>3. w = (a - 1) * Second
        BY <2>5, <4>2
      <4>4. w = a * Second - Second
        BY <2>0, <4>2, <4>3
      <4> QED
        BY <4>4 DEF a
    <3> QED
      BY <3>1, <3>2
  <2> HIDE DEF w, m
  <2>7. k2.origin.ts = p /\ k2.origin.wall = w
    BY <2>3
  <2>8. p \in 1 .. n2 - k.opened /\ k.opened \in 1 .. n2 /\ p <= p
    BY <1>1, <1>5, <1>7
  <2>9. \A x \in S : x.at < k.opened
    BY <1>2, <1>10 DEF RunIsPlaced
  <2>10. RunIsPlaced(k2, S, n2)
    BY <1>3, <2>6, <2>7, <2>8, <2>9 DEF RunIsPlaced
  <2>11. Follows(k2, S, p)
    BY <1>3, <1>5, <2>7, <2>8 DEF Follows
  <2> QED
    BY <1>3, <1>5, <1>6, <1>7, <1>8, <1>10, <2>4, <2>7, <2>8, <2>10, <2>11 DEF AtFiles, p
<1> QED
  BY <1>9, <1>10

-----------------------------------------------------------------------------
(* A frame arrives.                                                        *)

\* Nobody was retuned, so what arrives is what the segmenter knows, or of another form.
LEMMA SameForm ==
    ASSUME NEW s, NEW f, NEW p, Comes(s, f, p), NEW cfg, s.entry = cfg, s.entry # None,
           f.cfg # cfg => f.key, f.cfg # cfg => f.cfg.form # cfg.form,
           f.fresh => s.entry.form = f.cfg.form
    PROVE  f.cfg = cfg /\ ~f.fresh /\ With(s, f).entry = s.entry
<1>1. f.fresh = (f.key /\ s.entry \notin {None, f.cfg}) /\ s \in Segmenters /\ f \in Framed
  BY DEF Comes
<1>2. f.cfg = cfg
  BY <1>1
<1>3. ~f.fresh
  BY <1>1, <1>2
<1> QED
  BY <1>1, <1>2, <1>3, SegmentersStay

LEMMA TakesAFrame ==
    ASSUME NEW k, TaskIsSound(k), k.at = "recording", NEW d, NEW S \in SUBSET StoredSegments, NEW cfg, NEW n \in Nat,
           TaskInv(k, d, S, cfg, n), Timeline(S, n),
           NEW k2 \in TaskKinds, k2.at = "recording", k2.opened = k.opened, k2.origin = k.origin, k2.init = k.init,
           NEW f \in Framed, f.ts = n + 1 - k.opened,
           \/ f.cfg = cfg /\ k.seg.entry = None /\ k2.seg = k.seg
           \/ k.seg.entry = None /\ k2.seg.entry = f.cfg /\ k2.seg.pending = <<f>>
           \/ f.cfg = cfg /\ k2.seg.entry = k.seg.entry /\ k.seg.entry # None /\ k2.seg.pending = Append(k.seg.pending, f)
    PROVE  TaskInv(k2, d, S, f.cfg, n + 1)
<1>1. /\ k \in TaskKinds /\ k.seg \in Segmenters /\ k.opened \in Nat /\ Started(k.seg)
      /\ k.seg.pending \in Seq(Framed)
  BY DEF TaskIsSound, TaskKinds, Segmenters
<1>2. /\ RunIsPlaced(k, S, n) /\ Holds(k, S, cfg, n) /\ Consecutive(k, n)
      /\ (k.init # None => \E x \in d.segs : x.init = k.init)
      /\ (k.origin # None => InsideBudget(d.segs))
  BY DEF TaskInv, RecordingInv
<1>3. n + 1 \in Nat /\ n <= n + 1 /\ S \in SUBSET S
  OBVIOUS
<1>4. RunIsPlaced(k2, S, n + 1)
  BY <1>1, <1>2, <1>3, StaysPlaced
<1>5. k.opened \in 1 .. n /\ f.ts \in 1 .. (n + 1) - k.opened
  BY <1>1, <1>2 DEF RunIsPlaced
<1>6. Follows(k2, S, f.ts)
  <2>1. \A x \in S : x.at < k.opened + f.ts
    <3>1. \A x \in S : x.at \in Nat /\ x.at <= n
      BY DEF Timeline, StoredSegments
    <3> QED
      BY <1>1, <3>1
  <2>2. k.origin # None => k.origin.ts <= f.ts
    <3> SUFFICES ASSUME k.origin # None PROVE k.origin.ts <= f.ts
      OBVIOUS
    <3>1. k.origin.ts \in 1 .. n - k.opened
      BY <1>2 DEF RunIsPlaced
    <3> QED
      BY <1>1, <3>1
  <2> QED
    BY <2>1, <2>2 DEF Follows
<1>7. k.seg.entry = None => k.init = None /\ k.seg.pending = <<>>
  BY <1>1, <1>2 DEF Holds, Started
<1>8. Holds(k2, S, f.cfg, n + 1) /\ Consecutive(k2, n + 1)
  <2>1. CASE f.cfg = cfg /\ k.seg.entry = None /\ k2.seg = k.seg
    <3>1. k2.seg.pending = <<>> /\ k2.seg.entry = None /\ k2.init = None
      BY <1>7, <2>1
    <3> QED
      BY <3>1 DEF Holds, Consecutive
  <2>2. CASE k.seg.entry = None /\ k2.seg.entry = f.cfg /\ k2.seg.pending = <<f>>
    <3> DEFINE q == k2.seg.pending
    <3>1. DOMAIN q = {1} /\ q[1] = f /\ Len(q) = 1
      BY <2>2
    <3> HIDE DEF q
    <3>2. k2.init = None
      BY <1>7, <2>2
    <3>3. Holds(k2, S, f.cfg, n + 1)
      BY <1>5, <1>6, <2>2, <3>1, <3>2 DEF Holds, q
    <3>4. Consecutive(k2, n + 1)
      <4>1. f.ts = (n + 1) - k2.opened - 1 + 1
        BY <1>1
      <4>2. \A i \in DOMAIN q : q[i].ts = (n + 1) - k2.opened - Len(q) + i
        BY <3>1, <4>1
      <4>3. Consecutive(k2, n + 1) <=> (k2.origin = None =>
              \A i \in DOMAIN q : q[i].ts = (n + 1) - k2.opened - Len(q) + i)
        BY DEF Consecutive, q
      <4> QED
        BY <4>2, <4>3
    <3> QED
      BY <3>3, <3>4
  <2>3. CASE f.cfg = cfg /\ k2.seg.entry = k.seg.entry /\ k.seg.entry # None /\ k2.seg.pending = Append(k.seg.pending, f)
    <3> DEFINE q == k.seg.pending
               r == k2.seg.pending
               m == Len(q)
    <3>1. m \in Nat /\ m # 0 /\ DOMAIN q = 1 .. m
      BY <1>1, <2>3, LenProperties, EmptySeq DEF Started
    <3>2. /\ DOMAIN r = 1 .. m + 1 /\ Len(r) = m + 1 /\ r[m + 1] = f
          /\ \A i \in 1 .. m : r[i] = q[i]
      BY <1>1, <2>3
    <3>3. \A i \in 1 .. m : q[i].cfg = k.seg.entry /\ q[i].ts \in 1 .. n - k.opened
      BY <1>2, <3>1 DEF Holds
    <3>4. k.seg.entry = cfg
      BY <1>2, <2>3 DEF Holds
    <3>5. Follows(k, S, q[1].ts)
      BY <1>1, <1>2, <2>3 DEF Holds, Started
    <3>6. k.init # None => k.init = k.seg.entry
      BY <1>2 DEF Holds
    <3>7. k.origin = None => \A i \in 1 .. m : q[i].ts = n - k.opened - m + i
      BY <1>2, <3>1 DEF Consecutive
    <3>8. r # <<>> /\ r[1] = q[1]
      BY <3>1, <3>2
    <3> HIDE DEF q, m, r
    <3>9. \A i \in 1 .. m + 1 : r[i].cfg = k.seg.entry /\ r[i].ts \in 1 .. (n + 1) - k.opened
      <4> SUFFICES ASSUME NEW i \in 1 .. m + 1 PROVE r[i].cfg = k.seg.entry /\ r[i].ts \in 1 .. (n + 1) - k.opened
        OBVIOUS
      <4>1. CASE i = m + 1
        BY <1>5, <2>3, <3>2, <3>4, <4>1
      <4>2. CASE i # m + 1
        <5>1. i \in 1 .. m
          BY <3>1, <4>2
        <5>2. r[i] = q[i] /\ q[i].cfg = k.seg.entry /\ q[i].ts \in 1 .. n - k.opened
          BY <3>2, <3>3, <5>1
        <5> QED
          BY <1>1, <5>2
      <4> QED
        BY <4>1, <4>2
    <3>10. Follows(k2, S, r[1].ts)
      BY <3>5, <3>8 DEF Follows
    <3>11. Holds(k2, S, f.cfg, n + 1)
      <4>1. k2.seg.entry \in {None, f.cfg} /\ (k2.init # None => k2.init = k2.seg.entry)
        BY <2>3, <3>4, <3>6
      <4>2. \A i \in DOMAIN r : r[i].cfg = k2.seg.entry /\ r[i].ts \in 1 .. (n + 1) - k2.opened
        BY <2>3, <3>2, <3>9
      <4> QED
        BY <1>1, <3>1, <3>10, <4>1, <4>2 DEF Holds, r
    <3>12. Consecutive(k2, n + 1)
      <4>0. Consecutive(k2, n + 1) <=> (k2.origin = None =>
              \A i \in DOMAIN r : r[i].ts = (n + 1) - k2.opened - Len(r) + i)
        BY DEF Consecutive, r
      <4> SUFFICES ASSUME k.origin = None, NEW i \in 1 .. m + 1
                   PROVE  r[i].ts = (n + 1) - k.opened - (m + 1) + i
        BY <3>2, <4>0
      <4>1. CASE i = m + 1
        <5>1. r[i].ts = (n + 1) - k.opened
          BY <1>1, <3>2, <4>1
        <5>2. (n + 1) - k.opened - (m + 1) + (m + 1) = (n + 1) - k.opened
          BY <1>1, <3>1
        <5> QED
          BY <4>1, <5>1, <5>2
      <4>2. CASE i # m + 1
        <5>1. i \in 1 .. m
          BY <3>1, <4>2
        <5>2. r[i] = q[i] /\ q[i].ts = n - k.opened - m + i
          BY <3>2, <3>7, <5>1
        <5>3. (n + 1) - k.opened - (m + 1) + i = n - k.opened - m + i
          <6> DEFINE o == k.opened
          <6>1. n \in Int /\ o \in Int /\ m \in Int /\ i \in Int
            BY <1>1, <3>1
          <6> HIDE DEF o
          <6>2. (n + 1) - o - (m + 1) + i = n - o - m + i
            BY <6>1
          <6> QED
            BY <6>2 DEF o
        <5> QED
          BY <5>2, <5>3
      <4> QED
        BY <4>1, <4>2
    <3> QED
      BY <3>11, <3>12
  <2> QED
    BY <2>1, <2>2, <2>3
<1>9. RecordingInv(k2, d, S, f.cfg, n + 1)
  BY <1>2, <1>8 DEF RecordingInv
<1> QED
  BY <1>4, <1>9 DEF TaskInv, StoringInv, PruningInv, AtFiles, Prunes

\* The segmenter of a task that records, and the frame that comes to it.
LEMMA FrameIsQuiet ==
    ASSUME RingKinds, QuietInv, NEW t \in Tasks, NEW f, NEW p, FrameIs(t, f, p), "retuned" \notin excuse'
    PROVE  TaskInv(task'[t], disk, Known, encoder', now')
<1> DEFINE k == task[t]
           k2 == task'[t]
           S == Known
           n == now
           cfg == encoder
<1>1. /\ TaskIsSound(k) /\ n \in Nat /\ S \in SUBSET StoredSegments /\ skew = 0
      /\ TaskInv(k, disk, S, cfg, n) /\ Timeline(S, n) /\ DecodeInv(disk)
  <2>1. S \in SUBSET StoredSegments
    BY DEF RingKinds, Known, ClipKinds
  <2> QED
    BY <2>1 DEF RingKinds, QuietInv
<1>2. /\ k.at = "recording" /\ Comes(k.seg, f, p) /\ f.ts = n + 1 - k.opened /\ (f.cfg # cfg => f.key)
      /\ encoder' = f.cfg /\ now' = n + 1 /\ (f.cfg # cfg => f.cfg.form # cfg.form)
  BY DEF FrameIs
<1>3. \/ FrameKeeps(k, k2, f)
      \/ FrameCloses(k, k2, f, n + 1)
      \/ FrameChanges(k, k2, f, p, n + 1)
  <2>1. n + 1 - skew = n + 1
    BY <1>1
  <2> QED
    BY <2>1 DEF FrameIs
<1> HIDE DEF k, k2, S, n, cfg
<1>4. /\ k \in TaskKinds /\ k.seg \in Segmenters /\ k.opened \in Nat /\ Started(k.seg) /\ f \in Framed
      /\ k.seg.pending \in Seq(Framed) /\ k.retry = None
  BY <1>1, <1>2 DEF TaskIsSound, TaskKinds, Segmenters, Comes, AtFiles
<1>5. Holds(k, S, cfg, n) /\ RunIsPlaced(k, S, n) /\ Consecutive(k, n)
  BY <1>1, <1>2 DEF TaskInv, RecordingInv
<1>6. k.seg.entry # None => k.seg.entry = cfg /\ k.seg.pending # <<>> /\ k.seg.rate = 1
  BY <1>4, <1>5 DEF Holds, Started
<1>7. CASE FrameKeeps(k, k2, f)
  <2>1. /\ k2 \in TaskKinds
        /\ k2.at = "recording" /\ k2.opened = k.opened
        /\ k2.origin = k.origin /\ k2.init = k.init
    BY <1>7 DEF FrameKeeps
  <2>2. \/ f.cfg = cfg /\ k.seg.entry = None /\ k2.seg = k.seg
        \/ k.seg.entry = None /\ k2.seg.entry = f.cfg /\ k2.seg.pending = <<f>>
        \/ f.cfg = cfg /\ k2.seg.entry = k.seg.entry /\ k.seg.entry # None /\ k2.seg.pending = Append(k.seg.pending, f)
    <3>1. CASE k.seg.entry = None /\ ~f.key /\ k2.seg = k.seg
      BY <1>2, <3>1
    <3>2. CASE k.seg.entry = None /\ f.key /\ k2.seg = Opens(k.seg, f)
      BY <1>4, <3>2, SegmentersStay
    <3>3. CASE k.seg.entry # None /\ (f.fresh => k.seg.entry.form = f.cfg.form) /\ k2.seg = Take(With(k.seg, f), f)
      <4>1. f.cfg = cfg /\ With(k.seg, f).entry = k.seg.entry
        BY <1>2, <1>6, <3>3, SameForm
      <4>2. With(k.seg, f) \in Segmenters /\ With(k.seg, f).pending = k.seg.pending
        BY <1>4, SegmentersStay
      <4>3. Take(With(k.seg, f), f).pending = Append(k.seg.pending, f) /\ Take(With(k.seg, f), f).entry = k.seg.entry
        BY <1>4, <4>1, <4>2, SegmentersStay
      <4> QED
        BY <3>3, <4>1, <4>3
    <3> QED
      BY <1>7, <3>1, <3>2, <3>3 DEF FrameKeeps
  <2>3. TaskInv(k2, disk, S, f.cfg, n + 1)
    BY <1>1, <1>2, <1>4, <2>1, <2>2, TakesAFrame
  <2> QED
    BY <1>2, <2>3 DEF k, k2, S, n
<1>8. CASE FrameCloses(k, k2, f, n + 1)
  <2> DEFINE w == With(k.seg, f)
             s == Take(Closed(w), f)
             c == Close(w, f.ts)
  <2>1. /\ k.seg.entry # None /\ (f.fresh => k.seg.entry.form = f.cfg.form)
        /\ ClosedInto(k, k2, s, None, c, "recording", n + 1)
    BY <1>8 DEF FrameCloses
  <2>2. f.cfg = cfg /\ w.entry = k.seg.entry
    BY <1>2, <1>6, <2>1, SameForm
  <2>3. w \in Segmenters /\ w.pending = k.seg.pending /\ w.rate = 1
    BY <1>4, <1>6, <2>1, SegmentersStay
  <2> HIDE DEF w
  <2>4. Closed(w) \in Segmenters /\ Closed(w).pending = <<>> /\ Closed(w).entry = k.seg.entry
    BY <1>4, <2>2, <2>3, SegmentersStay
  <2>5. s.pending = <<f>> /\ s.entry = k.seg.entry
    <3>1. s.pending = Append(<<>>, f) /\ s.entry = k.seg.entry
      BY <1>4, <2>4, SegmentersStay
    <3> QED
      BY <3>1
  <2>6. f.ts \in Nat
    BY <1>4 DEF Framed
  <2>7. c \in ClosedSegments /\ c.start = k.seg.pending[1].ts /\ c.frames = k.seg.pending
    BY <1>6, <2>1, <2>3, <2>6, CloseIs
  <2>8. k.origin = None => c.duration = Len(k.seg.pending)
    <3> SUFFICES ASSUME k.origin = None PROVE c.duration = Len(k.seg.pending)
      OBVIOUS
    <3> DEFINE o == k.opened
    <3>1. \A i \in DOMAIN w.pending : w.pending[i].ts = n - o - Len(w.pending) + i
      BY <1>5, <2>3 DEF Consecutive
    <3>2. f.ts = n + 1 - o /\ o \in Nat /\ f.ts \in Nat \cup {None} /\ w.pending # <<>>
      BY <1>2, <1>4, <1>6, <2>1, <2>3, <2>6
    <3> HIDE DEF o, c
    <3>3. Close(w, f.ts).duration = Len(w.pending)
      BY <1>1, <2>3, <3>1, <3>2, FirstIsPlaced
    <3> QED
      BY <2>3, <3>3 DEF c
  <2> HIDE DEF s, c
  <2>9. BegunToStore(k, k2, disk, S, n, n + 1)
    <3> DEFINE late == n + 1
    <3>1. late \in Nat /\ n <= late /\ late \in {n, n + 1}
      BY <1>1
    <3>2. ClosedInto(k, k2, s, None, c, "recording", late)
      BY <2>1
    <3>3. k.seg.pending # <<>> /\ s.entry = k.seg.entry /\ k.at = "recording"
      BY <1>2, <1>6, <2>1, <2>5
    <3> HIDE DEF late
    <3>4. BegunToStore(k, k2, disk, S, n, late)
      BY <1>1, <2>7, <2>8, <3>1, <3>2, <3>3, BeginsToStore
    <3> QED
      BY <3>4 DEF late
  <2> USE DEF BegunToStore
  <2>10. /\ k2.seg = s /\ k2.retry = None /\ k2.then = "recording" /\ k2.init = k.init
         /\ k2 \in TaskKinds
    BY <2>1 DEF ClosedInto
  <2>11. f.ts \in 1 .. (n + 1) - k.opened /\ f.ts > k2.closed.start
    BY <1>1, <1>2, <1>4, <2>9
  <2>12. Follows(k2, S, f.ts)
    <3>1. \A x \in S : x.at < k2.opened + f.ts
      <4>1. \A x \in S : x.at \in Nat /\ x.at <= n
        BY <1>1 DEF Timeline, StoredSegments
      <4> QED
        BY <1>1, <1>2, <1>4, <2>9, <4>1
    <3>2. k2.origin.ts <= f.ts
      <4>1. k2.origin.ts \in Int
        BY <2>9, <2>10 DEF TaskKinds, Origins
      <4> QED
        BY <1>4, <2>6, <2>9, <2>11, <4>1
    <3> QED
      BY <3>1, <3>2 DEF Follows
  <2>13. Holds(k2, S, cfg, n + 1) /\ k2.seg.pending[1].ts > k2.closed.start
    <3>1. DOMAIN <<f>> = {1} /\ <<f>>[1] = f
      OBVIOUS
    <3>2. k.init # None => k.init = k.seg.entry
      BY <1>5 DEF Holds
    <3>3. k2.seg.entry = cfg /\ k2.seg.pending = <<f>> /\ k2.opened = k.opened /\ k2.init = k.init
      BY <1>6, <2>1, <2>5, <2>9, <2>10
    <3> QED
      BY <1>1, <1>4, <1>6, <2>1, <2>2, <2>11, <2>12, <3>1, <3>2, <3>3 DEF Holds
  <2>14. k2.closed.start \in 1 .. (n + 1) - k.opened
    BY <1>1, <1>4, <2>9
  <2>15. StoringInv(k2, disk, S, cfg, n + 1)
    BY <1>1, <1>4, <2>9, <2>10, <2>13, <2>14 DEF StoringInv, AtFiles, RetryInv
  <2>16. TaskInv(k2, disk, S, f.cfg, n + 1)
    BY <2>2, <2>9, <2>15 DEF TaskInv, RecordingInv, PruningInv, AtFiles, Prunes
  <2> QED
    BY <1>2, <2>16 DEF k, k2, S, n
<1>9. CASE FrameChanges(k, k2, f, p, n + 1)
  <2> DEFINE s == Closed(k.seg)
             c == Close(k.seg, None)
             r == [f |-> f, p |-> p]
  <2>1. /\ k.seg.entry # None /\ f.key
        /\ ClosedInto(k, k2, s, r, c, "recording", n + 1)
    BY <1>9 DEF FrameChanges
  <2>2. s.entry = k.seg.entry
    BY <1>4, SegmentersStay
  <2>3. c \in ClosedSegments /\ c.start = k.seg.pending[1].ts /\ c.frames = k.seg.pending
    BY <1>4, <1>6, <2>1, CloseIs
  <2>4. k.origin = None => c.duration = Len(k.seg.pending)
    <3> SUFFICES ASSUME k.origin = None PROVE c.duration = Len(k.seg.pending)
      OBVIOUS
    <3> DEFINE o == k.opened
               g == k.seg
    <3>1. \A i \in DOMAIN g.pending : g.pending[i].ts = n - o - Len(g.pending) + i
      BY <1>5 DEF Consecutive
    <3>2. o \in Nat /\ g \in Segmenters /\ g.rate = 1 /\ g.pending # <<>>
      BY <1>4, <1>6, <2>1
    <3> HIDE DEF o, g
    <3>3. Close(g, None).duration = Len(g.pending)
      BY <1>1, <3>1, <3>2, FirstIsPlaced
    <3> QED
      BY <3>3 DEF g
  <2>5. r.f = f /\ r.p = p /\ p.cfg = f.cfg
    BY <1>2 DEF Comes
  <2> HIDE DEF s, c, r
  <2>6. BegunToStore(k, k2, disk, S, n, n + 1)
    <3>1. n + 1 \in Nat /\ n <= n + 1 /\ n + 1 \in {n, n + 1}
      BY <1>1
    <3> QED
      BY <1>1, <1>2, <1>6, <2>1, <2>2, <2>3, <2>4, <3>1, BeginsToStore
  <2> USE DEF BegunToStore
  <2>7. k2.retry = r /\ k2.then = "recording"
    BY <2>1 DEF ClosedInto
  <2>8. f.ts \in k2.closed.start + 1 .. (n + 1) - k2.opened
    BY <1>1, <1>2, <1>4, <2>6
  <2>9. RetryInv(k2, f.cfg, n + 1)
    BY <1>1, <1>4, <2>1, <2>5, <2>6, <2>7, <2>8 DEF RetryInv
  <2>10. k2.closed.start \in 1 .. (n + 1) - k.opened
    BY <1>1, <1>4, <2>6
  <2>11. k2.retry # None
    <3>1. RingKinds /\ FrameIs(t, f, p) /\ t \in Tasks
      OBVIOUS
    <3>2. f \in Framed /\ p \in Reported
      <4>1. p = [cfg |-> f.cfg, frame |-> None, sound |-> TRUE] /\ f.cfg \in Configs
        BY <1>2, <1>4 DEF Comes, Framed
      <4> QED
        BY <1>4, <4>1 DEF Reported
    <3>3. r \in [f : Framed, p : Reported]
      BY <3>2 DEF r
    <3> QED
      BY <2>7, <3>3, RingAssumption
  <2>12. StoringInv(k2, disk, S, f.cfg, n + 1)
    BY <1>1, <1>4, <2>6, <2>7, <2>9, <2>10, <2>11 DEF StoringInv, AtFiles
  <2>13. TaskInv(k2, disk, S, f.cfg, n + 1)
    BY <2>6, <2>12 DEF TaskInv, RecordingInv, PruningInv, AtFiles, Prunes
  <2> QED
    BY <1>2, <2>13 DEF k, k2, S, n
<1> QED
  BY <1>3, <1>7, <1>8, <1>9

-----------------------------------------------------------------------------
(* A stream ends; files are written.                                       *)

LEMMA EndIsQuiet ==
    ASSUME RingKinds, QuietInv, NEW t \in Tasks, NEW k2, EndsAt(task[t], k2)
    PROVE  TaskInv(k2, disk, Known, encoder, now)
<1> DEFINE k == task[t]
           S == Known
           n == now
           cfg == encoder
           s == Closed(k.seg)
           c == Close(k.seg, None)
<1>1. /\ TaskIsSound(k) /\ n \in Nat /\ TaskInv(k, disk, S, cfg, n) /\ DecodeInv(disk)
  BY DEF RingKinds, QuietInv
<1>2. k.at = "recording" /\ k.seg.pending # <<>> /\ ClosedInto(k, k2, s, k.retry, c, "waiting", n)
  <2>1. now - skew = now
    BY DEF QuietInv, RingKinds
  <2> QED
    BY <2>1 DEF EndsAt
<1> HIDE DEF k, S, n, cfg
<1>3. /\ k \in TaskKinds /\ k.seg \in Segmenters /\ k.opened \in Nat /\ Started(k.seg)
      /\ k.seg.pending \in Seq(Framed) /\ k.retry = None
  BY <1>1, <1>2 DEF TaskIsSound, TaskKinds, Segmenters, AtFiles
<1>4. k.seg.entry # None /\ k.seg.rate = 1
  BY <1>2, <1>3 DEF Started
<1>5. s.entry = k.seg.entry
  <2>1. PICK f \in Framed : TRUE
    BY <1>2, <1>3
  <2> QED
    BY <1>3, <2>1, SegmentersStay
<1>6. c \in ClosedSegments /\ c.start = k.seg.pending[1].ts /\ c.frames = k.seg.pending
  BY <1>2, <1>3, <1>4, CloseIs
<1>7. k.origin = None => c.duration = Len(k.seg.pending)
  <2> SUFFICES ASSUME k.origin = None PROVE c.duration = Len(k.seg.pending)
    OBVIOUS
  <2> DEFINE o == k.opened
             g == k.seg
  <2>1. \A i \in DOMAIN g.pending : g.pending[i].ts = n - o - Len(g.pending) + i
    BY <1>1, <1>2 DEF TaskInv, RecordingInv, Consecutive
  <2>2. o \in Nat /\ g \in Segmenters /\ g.rate = 1 /\ g.pending # <<>>
    BY <1>2, <1>3, <1>4
  <2> HIDE DEF o, g
  <2>3. Close(g, None).duration = Len(g.pending)
    BY <1>1, <2>1, <2>2, FirstIsPlaced
  <2> QED
    BY <2>3 DEF g
<1> HIDE DEF s, c
<1>8. BegunToStore(k, k2, disk, S, n, n)
  <2>1. n <= n /\ n \in {n, n + 1}
    BY <1>1
  <2> QED
    BY <1>1, <1>2, <1>5, <1>6, <1>7, <2>1, BeginsToStore
<1>9. k2.retry = None /\ k2.then = "waiting"
  BY <1>2, <1>3 DEF ClosedInto
<1>10. StoringInv(k2, disk, S, cfg, n)
  BY <1>8, <1>9 DEF BegunToStore, StoringInv, AtFiles, RetryInv
<1>11. TaskInv(k2, disk, S, cfg, n)
  BY <1>8, <1>10 DEF BegunToStore, TaskInv, RecordingInv, PruningInv, AtFiles, Prunes
<1> QED
  BY <1>11 DEF S, n, cfg

\* The files that describe the segment.
LEMMA Mp4IsQuiet ==
    ASSUME NEW k \in TaskKinds, NEW k2, Keeps(k, k2), k.at = "mp4", k2.at = "json",
           NEW d, NEW d2, d2.mp4 = d.mp4 \cup {k.seg.entry},
           NEW S, NEW cfg, NEW n \in Nat, TaskInv(k, d, S, cfg, n)
    PROVE  TaskInv(k2, d2, S, cfg, n)
<1>1. /\ k2.then = k.then /\ k2.opened = k.opened /\ k2.seg = k.seg /\ k2.retry = k.retry
      /\ k2.origin = k.origin /\ k2.init = k.init /\ k2.closed = k.closed
  BY DEF Keeps
<1>2. S \in SUBSET S /\ n <= n
  OBVIOUS
<1>3. RunIsPlaced(k, S, n) /\ StoringInv(k, d, S, cfg, n)
  BY DEF TaskInv
<1>4. RunIsPlaced(k2, S, n)
  BY <1>1, <1>2, <1>3, StaysPlaced
<1>5. /\ \A i \in DOMAIN k.closed.frames : k.closed.frames[i].cfg = k.seg.entry
      /\ Follows(k, S, k.closed.start) /\ k.closed.start \in 1 .. n - k.opened
      /\ k.init = None /\ k.then \in {"recording", "waiting"}
      /\ k.retry = None /\ k.then = "recording" => Holds(k, S, cfg, n) /\ k.seg.pending[1].ts > k.closed.start
      /\ RetryInv(k, cfg, n)
  BY <1>3 DEF StoringInv, AtFiles
<1>6. Follows(k2, S, k.closed.start) /\ (Holds(k, S, cfg, n) => Holds(k2, S, cfg, n))
  BY <1>1, <1>2, <1>5, StaysAhead, StaysHolding
<1>7. RetryInv(k2, cfg, n)
  BY <1>1, <1>5 DEF RetryInv
<1>8. StoringInv(k2, d2, S, cfg, n)
  BY <1>1, <1>5, <1>6, <1>7 DEF StoringInv, AtFiles
<1> QED
  BY <1>4, <1>8 DEF TaskInv, RecordingInv, PruningInv, Prunes

LEMMA JsonIsQuiet ==
    ASSUME NEW k \in TaskKinds, NEW k2, k.at = "json", k2.at = "segment",
           k2.then = k.then, k2.opened = k.opened, k2.seg = k.seg, k2.retry = k.retry,
           k2.origin = k.origin, k2.init = k.seg.entry, k2.closed = k.closed,
           NEW d, NEW d2, d2.mp4 = d.mp4, d2.json = d.json \cup {k.seg.entry},
           NEW S, NEW cfg, NEW n \in Nat, TaskInv(k, d, S, cfg, n)
    PROVE  TaskInv(k2, d2, S, cfg, n)
<1>2. S \in SUBSET S /\ n <= n
  OBVIOUS
<1>3. RunIsPlaced(k, S, n) /\ StoringInv(k, d, S, cfg, n)
  BY DEF TaskInv
<1>4. RunIsPlaced(k2, S, n)
  BY <1>2, <1>3, StaysPlaced
<1>5. /\ \A i \in DOMAIN k.closed.frames : k.closed.frames[i].cfg = k.seg.entry
      /\ Follows(k, S, k.closed.start) /\ k.closed.start \in 1 .. n - k.opened
      /\ k.seg.entry \in d.mp4 /\ k.then \in {"recording", "waiting"}
      /\ k.retry = None /\ k.then = "recording" => Holds(k, S, cfg, n) /\ k.seg.pending[1].ts > k.closed.start
      /\ RetryInv(k, cfg, n)
  BY <1>3 DEF StoringInv, AtFiles
<1>6. Follows(k2, S, k.closed.start)
  BY <1>2, <1>5, StaysAhead
<1>7. Holds(k, S, cfg, n) => Holds(k2, S, cfg, n)
  <2> SUFFICES ASSUME Holds(k, S, cfg, n) PROVE Holds(k2, S, cfg, n)
    OBVIOUS
  <2>1. k.seg.pending # <<>> => Follows(k2, S, k.seg.pending[1].ts)
    BY <1>2, StaysAhead DEF Holds
  <2> QED
    BY <2>1 DEF Holds
<1>8. RetryInv(k2, cfg, n)
  BY <1>5 DEF RetryInv
<1>9. StoringInv(k2, d2, S, cfg, n)
  BY <1>5, <1>6, <1>7, <1>8 DEF StoringInv, AtFiles
<1> QED
  BY <1>4, <1>9 DEF TaskInv, RecordingInv, PruningInv, Prunes

\* The segment is called later than all there is, and so is none of them.
LEMMA NewIsLater ==
    ASSUME NEW k, TaskIsSound(k), k.at = "segment", NEW d, NEW S \in SUBSET StoredSegments, NEW cfg, NEW n \in Nat,
           TaskInv(k, d, S, cfg, n), Timeline(S, n),
           NEW new \in StoredSegments, new.at = k.opened + k.closed.start,
           new.start = k.origin.wall + Max2(k.closed.start - k.origin.ts, 0) * Second
    PROVE  /\ Timeline(S \cup {new}, n)
           /\ \A x \in S : x.at < new.at /\ Name(x) # Name(new)
           /\ new.start = k.origin.wall + (new.at - k.opened - k.origin.ts) * Second
<1>1. /\ k.opened \in Nat /\ k.origin \in Origins /\ k.origin # None
      /\ k.closed.start \in 1 .. n - k.opened /\ Follows(k, S, k.closed.start)
      /\ RunIsPlaced(k, S, n)
  BY DEF TaskIsSound, AtFiles, TaskKinds, TaskInv, StoringInv
<1> DEFINE o == k.opened
           g == k.origin.ts
           w == k.origin.wall
           b == k.closed.start
<1>2. o \in Nat /\ g \in Nat /\ w \in Int /\ b \in 1 .. n - o /\ b \in Int /\ o \in 1 .. n
  BY <1>1 DEF Origins, RunIsPlaced
<1>3. g >= 1 /\ g <= b /\ (w = (o + g) * Second \/ w = (o + g) * Second - Second)
  BY <1>1 DEF RunIsPlaced, Follows
<1>4. \A x \in S : /\ x.at < o + b
                   /\ x.at < o \/ x.start = w + (x.at - o - g) * Second
  BY <1>1 DEF RunIsPlaced, Follows
<1>5. \A x \in S : x.at \in Nat /\ x.start \in Int
  BY DEF StoredSegments
<1>6. new.at = o + b /\ new.start = w + Max2(b - g, 0) * Second /\ new.start \in Int
  BY DEF StoredSegments
<1> HIDE DEF o, g, w, b
<1>7. new.start = w + (b - g) * Second
  BY <1>2, <1>3, <1>6 DEF Max2
<1>8. /\ \A i, j \in Int : i < j => i * Second + Second <= j * Second
      /\ \A i, j \in Int : (i + j) * Second = i * Second + j * Second
      /\ \A i \in Int : i * Second \in Int
      /\ Second \in Nat \ {0}
  BY Milliseconds
<1>9. (o + g) * Second + (b - g) * Second = (o + b) * Second
  <2>1. o + g \in Int /\ b - g \in Int /\ (o + g) + (b - g) = o + b
    BY <1>2
  <2> DEFINE i == o + g
             j == b - g
  <2> HIDE DEF i, j
  <2>2. (i + j) * Second = i * Second + j * Second
    BY <1>8, <2>1 DEF i, j
  <2>3. i + j = o + b
    BY <2>1 DEF i, j
  <2>4. (o + b) * Second = i * Second + j * Second
    BY <2>2, <2>3
  <2> QED
    BY <2>4 DEF i, j
<1>10. new.start = (o + b) * Second \/ new.start = (o + b) * Second - Second
  <2> DEFINE x == (o + g) * Second
             y == (b - g) * Second
             z == (o + b) * Second
  <2>1. x \in Int /\ y \in Int /\ z \in Int /\ Second \in Int
    <3>1. o + g \in Int /\ b - g \in Int /\ o + b \in Int
      BY <1>2
    <3> QED
      BY <1>8, <3>1
  <2>2. x + y = z /\ new.start = w + y /\ (w = x \/ w = x - Second)
    BY <1>3, <1>7, <1>9
  <2> HIDE DEF x, y, z
  <2>3. new.start = z \/ new.start = z - Second
    BY <1>2, <2>1, <2>2
  <2> QED
    BY <2>3 DEF z
<1>11. ASSUME NEW x \in S PROVE x.start < new.start
  <2>1. CASE x.at < o
    <3>1. x.start <= x.at * Second
      BY DEF Timeline
    <3> DEFINE p == x.at * Second
               q == o * Second
               r == (o + b) * Second
    <3>2. p + Second <= q
      BY <1>2, <1>5, <1>8, <2>1
    <3>3. q + Second <= r
      <4>1. o < o + b /\ o + b \in Int /\ o \in Int
        BY <1>2
      <4> DEFINE e == o + b
      <4>2. e \in Int /\ o < e
        BY <4>1
      <4> HIDE DEF e
      <4>3. o * Second + Second <= e * Second
        BY <1>8, <4>1, <4>2
      <4> QED
        BY <4>3 DEF e
    <3>4. p \in Int /\ q \in Int /\ r \in Int /\ Second \in Nat \ {0}
      <4>1. x.at \in Int /\ o \in Int /\ o + b \in Int
        BY <1>2, <1>5
      <4> QED
        BY <1>8, <4>1
    <3>5. x.start <= p /\ (new.start = r \/ new.start = r - Second)
      BY <1>10, <3>1
    <3> HIDE DEF p, q, r
    <3> QED
      BY <1>5, <1>6, <3>2, <3>3, <3>4, <3>5
  <2>2. CASE x.start = w + (x.at - o - g) * Second
    <3> DEFINE i == x.at - o - g
               j == b - g
    <3>1. i \in Int /\ j \in Int /\ i < j
      BY <1>2, <1>4, <1>5
    <3> HIDE DEF i, j
    <3>2. i * Second + Second <= j * Second /\ i * Second \in Int /\ j * Second \in Int
      BY <1>8, <3>1
    <3>3. x.start = w + i * Second /\ new.start = w + j * Second
      BY <1>7, <2>2 DEF i, j
    <3> QED
      BY <1>2, <1>5, <1>6, <1>8, <3>2, <3>3
  <2> QED
    BY <1>4, <2>1, <2>2
<1>12. \A x \in S : x.at < new.at /\ Name(x) # Name(new)
  <2> SUFFICES ASSUME NEW x \in S PROVE x.at < new.at /\ Name(x) # Name(new)
    OBVIOUS
  <2>1. x.start < new.start /\ x.at < new.at /\ x.start \in Int
    BY <1>4, <1>5, <1>6, <1>11
  <2>2. x.start # new.start
    BY <1>6, <2>1
  <2> QED
    BY <2>1, <2>2 DEF Name
<1>13. new.at <= n /\ new.start <= new.at * Second
  <2>1. o + b <= n /\ o + b \in Int
    BY <1>2
  <2> DEFINE z == (o + b) * Second
  <2>2. z \in Int
    BY <1>8, <2>1
  <2>3. new.start = z \/ new.start = z - Second
    BY <1>10
  <2> HIDE DEF z
  <2>4. new.start <= z
    BY <1>8, <2>2, <2>3
  <2> QED
    BY <1>6, <2>1, <2>4 DEF z
<1>14. new.at \in Nat
  BY DEF StoredSegments
<1>15. Timeline(S \cup {new}, n)
  <2>1. \A x \in S \cup {new} : x.at <= n /\ x.start <= x.at * Second
    BY <1>13 DEF Timeline
  <2>2. \A x, y \in S \cup {new} : x.at = y.at => x = y
    BY <1>5, <1>12, <1>14 DEF Timeline
  <2>3. \A x, y \in S \cup {new} : x.at < y.at => x.start < y.start
    BY <1>5, <1>11, <1>12, <1>14 DEF Timeline
  <2> QED
    BY <2>1, <2>2, <2>3 DEF Timeline
<1>16. new.start = w + (new.at - o - g) * Second
  <2>1. new.at - o - g = b - g
    BY <1>2, <1>6
  <2> QED
    BY <1>7, <2>1
<1> QED
  BY <1>12, <1>15, <1>16 DEF o, g, w

\* A segment is written.
LEMMA SegmentIsQuiet ==
    ASSUME RingKinds, QuietInv, NEW t \in Tasks, WriteSegment(t)
    PROVE  /\ Timeline(Known', now') /\ DecodeInv(disk') /\ ClipInv(clip', disk'.segs)
           /\ TaskInv(task'[t], disk', Known', encoder', now')
<1> DEFINE k == task[t]
           k2 == task'[t]
           S == Known
           n == now
           cfg == encoder
           new == Stored(k)
           S2 == S \cup {new}
           d == disk
           d2 == disk'
<1>1. /\ TaskIsSound(k) /\ n \in Nat /\ TaskInv(k, d, S, cfg, n) /\ DecodeInv(d) /\ Timeline(S, n)
      /\ S \in SUBSET StoredSegments /\ ClipInv(clip, d.segs) /\ k \in TaskKinds /\ k.at = "segment"
      /\ d.segs \subseteq S /\ clip.held \subseteq S /\ k.opened \in Nat
  <2>1. S \in SUBSET StoredSegments
    BY DEF RingKinds, Known, ClipKinds
  <2>2. k.at = "segment"
    BY DEF WriteSegment
  <2> QED
    BY <2>1, <2>2 DEF RingKinds, QuietInv, TaskIsSound, TaskKinds, Known
<1>2. SegmentWritten(t)
  BY WriteSegmentMeans
<1>3. /\ new \in StoredSegments /\ new.init = k.init /\ new.at = k.opened + k.closed.start
      /\ DOMAIN new.frames = DOMAIN k.closed.frames
      /\ \A i \in DOMAIN new.frames : new.frames[i] = k.closed.frames[i].cfg
      /\ new.start = k.origin.wall + Max2(k.closed.start - k.origin.ts, 0) * Second
      /\ d2.segs = {x \in d.segs : Name(x) # Name(new)} \cup {new}
      /\ d2.mp4 = d.mp4 /\ d2.json = d.json
      /\ k2 \in TaskKinds /\ k2.at = "list" /\ k2.then = k.then /\ k2.opened = k.opened
      /\ k2.origin = k.origin /\ k2.retry = None
      /\ k2.init = IF k.retry = None THEN k.init ELSE None
      /\ k.retry = None => k2.seg = k.seg
      /\ k.retry # None => (k.retry.f.key => k2.seg.entry = k.retry.p.cfg /\ k2.seg.pending = <<k.retry.f>>)
  BY <1>2 DEF SegmentWritten
<1>4. now' = n /\ encoder' = cfg /\ clip' = clip
  BY DEF WriteSegment
<1>5. Known' = d2.segs \cup clip.held
  BY <1>4 DEF Known
<1>6. S = d.segs \cup clip.held
  BY DEF Known
<1> HIDE DEF k, k2, S, n, cfg, new, d, d2
<1>7. /\ Timeline(S2, n)
      /\ \A x \in S : x.at < new.at /\ Name(x) # Name(new)
      /\ new.start = k.origin.wall + (new.at - k.opened - k.origin.ts) * Second
  <2>1. /\ TaskIsSound(k) /\ k.at = "segment" /\ S \in SUBSET StoredSegments /\ n \in Nat
        /\ TaskInv(k, d, S, cfg, n) /\ Timeline(S, n)
        /\ new \in StoredSegments /\ new.at = k.opened + k.closed.start
        /\ new.start = k.origin.wall + Max2(k.closed.start - k.origin.ts, 0) * Second
    BY <1>1, <1>3
  <2> QED
    BY ONLY <2>1, NewIsLater
<1>8. d2.segs = d.segs \cup {new} /\ Known' = S2 /\ new \notin S
  <2>1. {x \in d.segs : Name(x) # Name(new)} = d.segs
    BY <1>1, <1>7
  <2>2. d2.segs = d.segs \cup {new} /\ new \notin S
    BY <1>3, <1>7, <2>1
  <2> QED
    BY <1>5, <1>6, <2>2
<1>9. /\ RunIsPlaced(k, S, n)
      /\ \A i \in DOMAIN k.closed.frames : k.closed.frames[i].cfg = k.seg.entry
      /\ Follows(k, S, k.closed.start) /\ k.closed.start \in 1 .. n - k.opened
      /\ k.init = k.seg.entry /\ k.init \in d.mp4 \cap d.json /\ k.then \in {"recording", "waiting"}
      /\ (k.retry = None /\ k.then = "recording" => Holds(k, S, cfg, n) /\ k.seg.pending[1].ts > k.closed.start)
      /\ RetryInv(k, cfg, n) /\ k.origin # None
  BY <1>1 DEF TaskInv, StoringInv, AtFiles, TaskIsSound
<1>10. DecodeInv(d2)
  BY <1>1, <1>3, <1>8, <1>9 DEF DecodeInv
<1>11. ClipInv(clip, d2.segs)
  <2>1. clip.at = "gone" => ~(clip.held \subseteq d2.segs)
    BY <1>1, <1>8 DEF ClipInv
  <2> QED
    BY <1>1, <2>1 DEF ClipInv
<1>12. RunIsPlaced(k2, S2, n)
  <2>1. S \in SUBSET S /\ n <= n
    BY <1>1
  <2>2. RunIsPlaced(k2, S, n)
    BY <1>1, <1>3, <1>9, <2>1, StaysPlaced
  <2>3. new.start = k2.origin.wall + (new.at - k2.opened - k2.origin.ts) * Second /\ k2.origin # None
    BY <1>3, <1>7, <1>9
  <2>4. \A x \in S2 : x.at < k2.opened \/ (k2.origin # None /\ x.start = k2.origin.wall + (x.at - k2.opened - k2.origin.ts) * Second)
    BY <2>2, <2>3 DEF RunIsPlaced
  <2> QED
    BY <2>2, <2>4 DEF RunIsPlaced
<1>13. HasNewest(k2, d2.segs)
  <2>1. \A x \in d.segs : x.at \in Nat /\ x.at <= new.at
    BY <1>1, <1>3, <1>7 DEF StoredSegments
  <2>2. new.at \in Nat /\ (k2.init # None => new.init = k2.init)
    BY <1>3 DEF StoredSegments
  <2> QED
    BY <1>8, <2>1, <2>2 DEF HasNewest
<1>14. ASSUME k.then = "recording" PROVE Holds(k2, S2, cfg, n)
  <2>1. \A ts \in Int : (\A x \in S : x.at < k.opened + ts) /\ k.closed.start < ts => \A x \in S2 : x.at < k2.opened + ts
    BY <1>1, <1>3, <1>9
  <2>2. CASE k.retry = None
    <3> DEFINE q == k.seg.pending
    <3>1. Holds(k, S, cfg, n) /\ q[1].ts > k.closed.start
      BY <1>9, <1>14, <2>2
    <3>2. k2.seg = k.seg /\ k2.init = k.init
      BY <1>3, <2>2
    <3>3. q # <<>> => Follows(k2, S2, q[1].ts)
      <4> SUFFICES ASSUME q # <<>> PROVE Follows(k2, S2, q[1].ts)
        OBVIOUS
      <4>1. Follows(k, S, q[1].ts)
        BY <3>1 DEF Holds
      <4>2. q[1].ts \in Int
        <5>1. q \in Seq(Framed)
          BY <1>1 DEF TaskIsSound, TaskKinds, Segmenters
        <5>2. q[1] \in Framed
          BY <5>1
        <5> QED
          BY <5>2 DEF Framed
      <4> QED
        BY <1>3, <1>9, <2>1, <3>1, <4>1, <4>2 DEF Follows
    <3> QED
      BY <1>3, <3>1, <3>2, <3>3 DEF Holds
  <2>3. CASE k.retry # None
    <3> DEFINE f == k.retry.f
    <3>1. /\ f.cfg = cfg /\ k2.seg.entry = cfg /\ k2.seg.pending = <<f>> /\ k2.init = None
          /\ f.ts \in k.closed.start + 1 .. n - k.opened
      BY <1>3, <1>9, <2>3 DEF RetryInv
    <3>2. DOMAIN <<f>> = {1} /\ <<f>>[1] = f
      OBVIOUS
    <3>3. f.ts \in Int /\ k.closed.start < f.ts /\ f.ts \in 1 .. n - k2.opened
      BY <1>1, <1>3, <1>9, <3>1
    <3>4. Follows(k2, S2, f.ts)
      <4>1. \A x \in S : x.at < k.opened + f.ts
        <5>1. \A x \in S : x.at < k.opened + k.closed.start /\ x.at \in Nat
          BY <1>1, <1>9 DEF Follows, StoredSegments
        <5> QED
          BY <1>1, <1>9, <3>3, <5>1
      <4>2. k.origin.ts <= f.ts
        <5>1. k.origin.ts \in Int /\ k.origin.ts <= k.closed.start
          BY <1>1, <1>9 DEF TaskKinds, Origins, Follows
        <5> QED
          BY <1>9, <3>3, <5>1
      <4> QED
        BY <1>3, <2>1, <3>3, <4>1, <4>2 DEF Follows
    <3> HIDE DEF f
    <3> QED
      BY <3>1, <3>2, <3>3, <3>4 DEF Holds
  <2> QED
    BY <2>2, <2>3
<1>15. TaskInv(k2, d2, S2, cfg, n)
  BY <1>3, <1>9, <1>12, <1>13, <1>14 DEF TaskInv, RecordingInv, StoringInv, PruningInv, AtFiles, Prunes, EvictingInv
<1> QED
  BY <1>4, <1>7, <1>8, <1>10, <1>11, <1>15 DEF k2, d2

-----------------------------------------------------------------------------
(* The ring is pruned.                                                     *)

LEMMA GoesOnPruning ==
    ASSUME NEW k \in TaskKinds, NEW k2, Keeps(k, k2), Prunes(k), Prunes(k2),
           NEW d, NEW d2, NEW S, NEW S2 \in SUBSET S, NEW cfg, NEW n \in Nat, TaskInv(k, d, S, cfg, n),
           HasNewest(k, d2.segs), EvictingInv(k2, d2.segs),
           k2.at \in {"inits", "doomed"} => InsideBudget(d2.segs),
           k2.at = "inits" => k2.live = {x.init : x \in d2.segs},
           k2.at = "doomed" => \A x \in d2.segs : x.init \notin k2.doomed
    PROVE  TaskInv(k2, d2, S2, cfg, n)
<1>1. /\ k2.then = k.then /\ k2.opened = k.opened /\ k2.seg = k.seg
      /\ k2.origin = k.origin /\ k2.init = k.init /\ n <= n
  BY DEF Keeps
<1>2. /\ RunIsPlaced(k, S, n) /\ k.origin # None /\ k.then \in {"recording", "waiting"}
      /\ k.then = "recording" => Holds(k, S, cfg, n)
  BY DEF TaskInv, PruningInv, Prunes
<1>3. RunIsPlaced(k2, S2, n)
  BY <1>1, <1>2, StaysPlaced
<1>4. k.then = "recording" => Holds(k2, S2, cfg, n)
  BY <1>1, <1>2, StaysHolding
<1>5. HasNewest(k2, d2.segs)
  BY <1>1 DEF HasNewest
<1>6. PruningInv(k2, d2, S2, cfg, n)
  BY <1>1, <1>2, <1>4, <1>5 DEF PruningInv
<1> QED
  BY <1>3, <1>6 DEF TaskInv, RecordingInv, StoringInv, AtFiles, Prunes

LEMMA ListIsQuiet ==
    ASSUME RingKinds, QuietInv, NEW t \in Tasks, List(t) \/ ListLive(t) \/ ListInits(t)
    PROVE  TaskInv(task'[t], disk, Known, encoder, now)
<1> DEFINE k == task[t]
           k2 == task'[t]
           S == Known
           n == now
           cfg == encoder
           segs == disk.segs
<1>1. /\ k \in TaskKinds /\ n \in Nat /\ TaskInv(k, disk, S, cfg, n) /\ Timeline(segs, n)
      /\ segs \in SUBSET StoredSegments /\ IsFiniteSet(segs) /\ S \in SUBSET S
  <2>1. Timeline(segs, n)
    BY DEF QuietInv, Timeline, Known
  <2> QED
    BY <2>1 DEF RingKinds, QuietInv, TaskIsSound
<1>2. ASSUME Prunes(k) PROVE HasNewest(k, segs)
  BY <1>1, <1>2 DEF TaskInv, PruningInv
<1>3. CASE List(t)
  <2>1. /\ Keeps(k, k2) /\ k.at = "list" /\ k2.at = "evict"
        /\ k2.listed = Sorted(segs) /\ k2.total = Size(segs)
    BY <1>3, ListMeans
  <2> DEFINE q == Sorted(segs)
  <2>2. {q[i] : i \in DOMAIN q} = segs
    BY <1>1, SortedIs
  <2>3. \A i, j \in DOMAIN q : i < j => q[i].at < q[j].at
    BY <1>1, SortedIsInOrder
  <2> HIDE DEF k, k2, S, n, cfg, q
  <2>4. EvictingInv(k2, segs)
    <3>1. k2.listed = q
      BY <2>1 DEF q
    <3> QED
      BY <2>1, <2>2, <2>3, <3>1 DEF EvictingInv
  <2>5. TaskInv(k2, disk, S, cfg, n)
    BY <1>1, <1>2, <2>1, <2>4, GoesOnPruning DEF Prunes
  <2> QED
    BY <2>5 DEF k2, S, n, cfg
<1>4. CASE ListLive(t)
  <2>1. /\ Keeps(k, k2) /\ k.at = "evict" /\ k2.at = "inits"
        /\ k.total <= Budget \/ Len(k.listed) <= 1
        /\ k2.live = {x.init : x \in segs}
    BY <1>4, ListsMean
  <2> HIDE DEF k, k2, S, n, cfg
  <2>2. HasNewest(k, segs) /\ EvictingInv(k, segs)
    BY <1>1, <2>1 DEF TaskInv, PruningInv, Prunes
  <2>3. InsideBudget(segs)
    <3>1. CASE k.total <= Budget
      BY <2>1, <2>2, <3>1 DEF EvictingInv, InsideBudget
    <3>2. CASE Len(k.listed) <= 1
      <4> DEFINE q == k.listed
      <4>1. q \in Seq(StoredSegments) /\ {q[i] : i \in DOMAIN q} = segs
        BY <1>1, <2>1, <2>2 DEF EvictingInv, TaskKinds
      <4>2. PICK x \in segs : TRUE
        BY <2>2 DEF HasNewest
      <4>3. DOMAIN q = 1 .. Len(q) /\ Len(q) \in Nat /\ Len(q) <= 1
        BY <3>2, <4>1, LenProperties
      <4> HIDE DEF q
      <4>4. PICK i \in DOMAIN q : q[i] = x
        BY <4>1, <4>2
      <4>5. \A j \in DOMAIN q : j = i
        BY <4>3
      <4>6. segs = {x}
        BY <4>1, <4>4, <4>5
      <4>7. Cardinality(segs) = 1
        BY <4>6, FS_Singleton
      <4> QED
        BY <4>7 DEF InsideBudget
    <3> QED
      BY <2>1, <3>1, <3>2
  <2>4. EvictingInv(k2, segs)
    BY <2>1 DEF EvictingInv
  <2>5. TaskInv(k2, disk, S, cfg, n)
    BY <1>1, <2>1, <2>2, <2>3, <2>4, GoesOnPruning DEF Prunes
  <2> QED
    BY <2>5 DEF k2, S, n, cfg
<1>5. CASE ListInits(t)
  <2>1. /\ Keeps(k, k2) /\ k.at = "inits" /\ k2.at = "doomed"
        /\ k2.doomed = disk.mp4 \ k.live
    BY <1>5, ListsMean
  <2> HIDE DEF k, k2, S, n, cfg
  <2>2. HasNewest(k, segs) /\ InsideBudget(segs) /\ k.live = {x.init : x \in segs}
    BY <1>1, <2>1 DEF TaskInv, PruningInv, Prunes
  <2>3. EvictingInv(k2, segs) /\ \A x \in segs : x.init \notin k2.doomed
    BY <2>1, <2>2 DEF EvictingInv
  <2>4. TaskInv(k2, disk, S, cfg, n)
    BY <1>1, <2>1, <2>2, <2>3, GoesOnPruning DEF Prunes
  <2> QED
    BY <2>4 DEF k2, S, n, cfg
<1> QED
  BY <1>3, <1>4, <1>5

LEMMA EvictIsQuiet ==
    ASSUME RingKinds, QuietInv, NEW t \in Tasks, Evict(t)
    PROVE  /\ Timeline(Known', now') /\ DecodeInv(disk') /\ ClipInv(clip', disk'.segs)
           /\ TaskInv(task'[t], disk', Known', encoder', now')
<1> DEFINE k == task[t]
           k2 == task'[t]
           S == Known
           n == now
           cfg == encoder
           segs == disk.segs
           left == disk'.segs
           q == k.listed
           oldest == q[1]
           S2 == Known'
<1>1. /\ k \in TaskKinds /\ n \in Nat /\ TaskInv(k, disk, S, cfg, n) /\ Timeline(S, n) /\ DecodeInv(disk)
      /\ segs \in SUBSET StoredSegments /\ IsFiniteSet(segs) /\ ClipInv(clip, segs) /\ segs \subseteq S
      /\ S \in SUBSET StoredSegments
  <2>1. S \in SUBSET StoredSegments
    BY DEF RingKinds, Known, ClipKinds
  <2> QED
    BY <2>1 DEF RingKinds, QuietInv, TaskIsSound, Known
<1>2. /\ Keeps(k, k2) /\ k.at = "evict" /\ k2.at = "evict"
      /\ k.total > Budget /\ Len(q) > 1 /\ q \in Seq(StoredSegments)
      /\ k2.listed = Tail(q)
      /\ (\E x \in segs : Name(x) = Name(oldest)) => k2.total = k.total - Len(oldest.frames)
      /\ left = {x \in segs : Name(x) # Name(oldest)}
      /\ disk'.mp4 = disk.mp4 /\ disk'.json = disk.json
  BY EvictMeans
<1>3. now' = n /\ encoder' = cfg /\ clip' = clip
  BY DEF Evict
<1>4. S2 = left \cup clip.held /\ S = segs \cup clip.held
  BY <1>3 DEF Known
<1> HIDE DEF k, k2, S, n, cfg, segs, left, q, S2
<1>5. HasNewest(k, segs) /\ EvictingInv(k, segs)
  BY <1>1, <1>2 DEF TaskInv, PruningInv, Prunes, segs
<1>6. /\ {q[i] : i \in DOMAIN q} = segs /\ k.total = Size(segs)
      /\ \A i, j \in DOMAIN q : i < j => q[i].at < q[j].at
      /\ DOMAIN q = 1 .. Len(q) /\ Len(q) \in Nat
  BY <1>2, <1>5, LenProperties DEF EvictingInv, q
<1>7. 1 \in DOMAIN q /\ 2 \in DOMAIN q /\ oldest \in segs
  BY <1>2, <1>6
<1>8. \A x \in segs : Name(x) = Name(oldest) => x = oldest
  <2> SUFFICES ASSUME NEW x \in segs, x # oldest PROVE Name(x) # Name(oldest)
    OBVIOUS
  <2>1. x \in S /\ oldest \in S /\ x.at \in Nat /\ oldest.at \in Nat /\ x.start \in Int /\ oldest.start \in Int
    BY <1>1, <1>7 DEF StoredSegments
  <2>2. x.at < oldest.at \/ oldest.at < x.at
    BY <1>1, <2>1 DEF Timeline
  <2>3. x.start # oldest.start
    BY <1>1, <2>1, <2>2 DEF Timeline
  <2> QED
    BY <2>3 DEF Name
<1>9. left = segs \ {oldest} /\ left \subseteq segs
  BY <1>2, <1>8
<1>10. Size(segs) \in Int /\ Size(left) = Size(segs) - Len(oldest.frames)
  <2>1. \A x \in segs : Len(x.frames) \in Nat
    BY <1>1, FramesAreCounted
  <2> QED
    BY <1>1, <1>7, <1>9, <2>1, SizeWithout
<1>11. k2.total = Size(left)
  BY <1>2, <1>6, <1>7, <1>10
<1>12. HasNewest(k, left)
  <2>1. PICK x \in segs : (\A y \in segs : y.at <= x.at) /\ (k.init # None => x.init = k.init)
    BY <1>5 DEF HasNewest
  <2>2. oldest.at < q[2].at /\ q[2] \in segs
    BY <1>6, <1>7
  <2>3. x # oldest
    <3>1. oldest.at \in Nat /\ q[2].at \in Nat
      BY <1>1, <1>7, <2>2 DEF StoredSegments
    <3>2. q[2].at <= x.at
      BY <2>1, <2>2
    <3> QED
      BY <2>2, <3>1, <3>2
  <2> QED
    BY <1>9, <2>1, <2>3 DEF HasNewest
<1>13. EvictingInv(k2, left)
  <2> DEFINE r == Tail(q)
             m == Len(q) - 1
  <2>1. DOMAIN r = 1 .. m /\ m \in Nat /\ \A i \in 1 .. m : r[i] = q[i + 1]
    BY <1>2, <1>6
  <2>2. \A i \in 1 .. m : i + 1 \in DOMAIN q
    BY <1>6
  <2> HIDE DEF r
  <2>3. \A i \in 1 .. m : r[i] \in left
    <3> SUFFICES ASSUME NEW i \in 1 .. m PROVE q[i + 1] \in segs /\ q[i + 1] # oldest
      BY <1>9, <2>1
    <3>1. i + 1 \in DOMAIN q /\ 1 < i + 1
      BY <2>1, <2>2
    <3>2. q[i + 1] \in segs /\ oldest.at < q[i + 1].at
      BY <1>6, <1>7, <3>1
    <3>3. oldest.at \in Nat
      BY <1>1, <1>7 DEF StoredSegments
    <3> QED
      BY <3>2, <3>3
  <2>4. \A x \in left : \E i \in 1 .. m : r[i] = x
    <3> SUFFICES ASSUME NEW x \in left PROVE \E i \in 1 .. m : r[i] = x
      OBVIOUS
    <3>1. PICK j \in DOMAIN q : q[j] = x
      BY <1>6, <1>9
    <3>2. j # 1
      BY <1>9, <3>1
    <3>3. j - 1 \in 1 .. m /\ (j - 1) + 1 = j
      BY <1>6, <3>1, <3>2
    <3>4. r[j - 1] = x
      BY <2>1, <3>1, <3>3
    <3> QED
      BY <3>3, <3>4
  <2>5. {r[i] : i \in DOMAIN r} = left
    BY <2>1, <2>3, <2>4
  <2>6. \A i, j \in DOMAIN r : i < j => r[i].at < r[j].at
    <3> SUFFICES ASSUME NEW i \in 1 .. m, NEW j \in 1 .. m, i < j PROVE r[i].at < r[j].at
      BY <2>1
    <3>1. i + 1 \in DOMAIN q /\ j + 1 \in DOMAIN q /\ i + 1 < j + 1
      BY <2>1, <2>2
    <3>2. q[i + 1].at < q[j + 1].at
      BY <1>6, <3>1
    <3> QED
      BY <2>1, <3>2
  <2>7. k2.listed = r
    BY <1>2 DEF r
  <2> QED
    BY <1>11, <2>5, <2>6, <2>7 DEF EvictingInv
<1>14. S2 \in SUBSET S
  BY <1>4, <1>9
<1>15. Timeline(S2, n)
  <2>1. n <= n
    BY <1>1
  <2> QED
    BY <1>1, <1>14, <2>1, TimelineStays
<1>16. DecodeInv(disk')
  <2>1. \A x \in disk'.segs : x \in disk.segs
    BY <1>9 DEF left, segs
  <2> QED
    BY <1>1, <1>2, <2>1 DEF DecodeInv
<1>17. ClipInv(clip, left)
  BY <1>1, <1>9 DEF ClipInv
<1>18. TaskInv(k2, disk', S2, cfg, n)
  <2>1. HasNewest(k, disk'.segs) /\ EvictingInv(k2, disk'.segs)
    BY <1>12, <1>13 DEF left
  <2> QED
    BY <1>1, <1>2, <1>14, <2>1, GoesOnPruning DEF Prunes
<1> QED
  BY <1>3, <1>15, <1>16, <1>17, <1>18 DEF k2, left, S2

LEMMA RemoveIsQuiet ==
    ASSUME RingKinds, QuietInv, NEW t \in Tasks, RemoveInit(t)
    PROVE  /\ disk'.segs = disk.segs /\ DecodeInv(disk')
           /\ TaskInv(task'[t], disk', Known, encoder, now)
<1> DEFINE k == task[t]
           k2 == task'[t]
           S == Known
           n == now
           cfg == encoder
           d == disk
           d2 == disk'
<1>1. /\ k \in TaskKinds /\ n \in Nat /\ TaskInv(k, d, S, cfg, n) /\ DecodeInv(d) /\ S \in SUBSET S
  BY DEF RingKinds, QuietInv, TaskIsSound
<1>2. Keeps(k, k2) /\ k.at = "doomed" /\ k2.at = "doomed" /\ d2.segs = d.segs
  BY RemoveMeans
<1>3. PICK i \in k.doomed : k2.doomed = k.doomed \ {i} /\ d2.mp4 = d.mp4 \ {i} /\ d2.json = d.json \ {i}
  BY RemoveMeans
<1> HIDE DEF k, k2, S, n, cfg, d, d2
<1>4. HasNewest(k, d.segs) /\ InsideBudget(d.segs) /\ \A x \in d.segs : x.init \notin k.doomed
  BY <1>1, <1>2 DEF TaskInv, PruningInv, Prunes
<1>5. DecodeInv(d2)
  BY <1>1, <1>2, <1>3, <1>4 DEF DecodeInv
<1>6. EvictingInv(k2, d2.segs) /\ \A x \in d2.segs : x.init \notin k2.doomed
  BY <1>2, <1>3, <1>4 DEF EvictingInv
<1>7. TaskInv(k2, d2, S, cfg, n)
  BY <1>1, <1>2, <1>4, <1>6, GoesOnPruning DEF Prunes
<1> QED
  BY <1>2, <1>5, <1>7 DEF k2, d, d2, S, n, cfg

LEMMA SettleIsQuiet ==
    ASSUME RingKinds, QuietInv, NEW t \in Tasks, Settle(t)
    PROVE  TaskInv(task'[t], disk, Known, encoder, now)
<1> DEFINE k == task[t]
           k2 == task'[t]
           S == Known
           n == now
           cfg == encoder
<1>1. /\ TaskIsSound(k) /\ k \in TaskKinds /\ n \in Nat /\ TaskInv(k, disk, S, cfg, n) /\ S \in SUBSET S /\ n <= n
  BY DEF RingKinds, QuietInv, TaskIsSound
<1>2. /\ k.at = "doomed"
      /\ \/ k2 = NoTask \/ k2 = Idle(k)
         \/ /\ k.then # "waiting" /\ k2 \in TaskKinds /\ k2.at = "recording"
            /\ k2.opened = k.opened /\ k2.seg = k.seg
            /\ k2.origin = k.origin /\ k2.init = k.init
  BY SettleMeans
<1> HIDE DEF k, k2, S, n, cfg
<1>3. CASE k2 = NoTask \/ k2 = Idle(k)
  <2>1. k2.at \in {"none", "waiting"} /\ k2.origin = None /\ k2.init = None
    BY <1>1, <1>3, NoTaskIsSound, IdleIsSound
  <2>2. TaskInv(k2, disk, S, cfg, n)
    BY <2>1, RestIsQuiet
  <2> QED
    BY <2>2 DEF k2, S, n, cfg
<1>4. CASE /\ k.then # "waiting" /\ k2 \in TaskKinds /\ k2.at = "recording"
           /\ k2.opened = k.opened /\ k2.seg = k.seg
           /\ k2.origin = k.origin /\ k2.init = k.init
  <2>1. /\ RunIsPlaced(k, S, n) /\ k.origin # None /\ Holds(k, S, cfg, n) /\ HasNewest(k, disk.segs)
        /\ InsideBudget(disk.segs)
    BY <1>1, <1>2, <1>4 DEF TaskInv, PruningInv, Prunes
  <2>2. RunIsPlaced(k2, S, n) /\ Holds(k2, S, cfg, n)
    BY <1>1, <1>4, <2>1, StaysPlaced, StaysHolding
  <2>3. TaskInv(k2, disk, S, cfg, n)
    BY <1>4, <2>1, <2>2 DEF TaskInv, RecordingInv, StoringInv, PruningInv, AtFiles, Prunes, HasNewest, Consecutive
  <2> QED
    BY <2>3 DEF k2, S, n, cfg
<1> QED
  BY <1>2, <1>3, <1>4

-----------------------------------------------------------------------------
(* Every step of the ring.                                                 *)

\* The others are not there.
LEMMA Alone ==
    ASSUME RingKinds, QuietInv, NEW t \in Tasks, Alive(t), Only(t), skew' = skew,
           DecodeInv(disk'), ClipInv(clip', disk'.segs), Timeline(Known', now'),
           TaskInv(task'[t], disk', Known', encoder', now')
    PROVE  QuietInv'
<1>1. \A u \in Tasks \ {t} : task'[u] = task[u] /\ task[u].at = "none" /\ task[u].origin = None /\ task[u].init = None
  <2> SUFFICES ASSUME NEW u \in Tasks \ {t}
               PROVE  task'[u] = task[u] /\ task[u].at = "none" /\ task[u].origin = None /\ task[u].init = None
    OBVIOUS
  <2>1. task'[u] = task[u]
    BY DEF Only
  <2>2. task[u].at = "none"
    BY DEF QuietInv, OneAtMost, Alive
  <2>3. TaskInv(task[u], disk, Known, encoder, now)
    BY DEF QuietInv
  <2> QED
    BY <2>1, <2>2, <2>3 DEF TaskInv
<1>2. \A u \in Tasks : TaskInv(task'[u], disk', Known', encoder', now')
  <2> SUFFICES ASSUME NEW u \in Tasks, u # t PROVE TaskInv(task'[u], disk', Known', encoder', now')
    OBVIOUS
  <2>1. task'[u].at = "none" /\ task'[u].origin = None /\ task'[u].init = None
    BY <1>1
  <2> DEFINE k2 == task'[u]
             d2 == disk'
             S2 == Known'
             cfg == encoder'
             n2 == now'
  <2> HIDE DEF k2, d2, S2, cfg, n2
  <2>2. TaskInv(k2, d2, S2, cfg, n2)
    BY <2>1, RestIsQuiet DEF k2
  <2> QED
    BY <2>2 DEF k2, d2, S2, cfg, n2
<1>3. OneAtMost(task')
  BY <1>1 DEF OneAtMost
<1>4. skew' = 0
  BY DEF QuietInv
<1> QED
  BY <1>2, <1>3, <1>4 DEF QuietInv

LEMMA SomeSegments ==
    ASSUME RingKinds
    PROVE  Known \in SUBSET StoredSegments
BY DEF RingKinds, Known, ClipKinds

LEMMA TaskStepIsQuiet ==
    ASSUME RingKinds, QuietInv, NEW t \in Tasks, TaskStep(t), Quiet'
    PROVE  QuietInv'
<1> DEFINE k == task[t]
           k2 == task'[t]
           Same == UNCHANGED <<disk, encoder, now, skew, clip>>
<1>0. /\ TaskIsSound(k) /\ k \in TaskKinds /\ now \in Nat /\ TaskInv(k, disk, Known, encoder, now)
      /\ DecodeInv(disk) /\ ClipInv(clip, disk.segs) /\ Timeline(Known, now) /\ skew = 0
      /\ Known \in SUBSET StoredSegments
  BY SomeSegments DEF RingKinds, QuietInv, TaskIsSound
<1>1. Only(t)
  BY TaskStepIsSound
<1>2. ASSUME Alive(t), Same, TaskInv(k2, disk, Known, encoder, now) PROVE QuietInv'
  <2>1. /\ DecodeInv(disk') /\ ClipInv(clip', disk'.segs) /\ Timeline(Known', now')
        /\ TaskInv(k2, disk', Known', encoder', now') /\ skew' = skew
    BY <1>0, <1>2 DEF Known
  <2> HIDE DEF Same
  <2> QED
    BY <1>1, <1>2, <2>1, Alone
<1>3. ASSUME Alive(t), k2.at \in {"none", "opening", "waiting"}, k2.origin = None, k2.init = None, Same PROVE QuietInv'
  <2>1. TaskInv(k2, disk, Known, encoder, now)
    <3> HIDE DEF k2
    <3> QED
      BY <1>3, RestIsQuiet
  <2> QED
    BY <1>2, <1>3, <2>1
<1>4. CASE Open(t)
  <2>1. /\ k2 \in TaskKinds /\ k2.at = "recording" /\ k2.opened = now' /\ k2.seg = k.seg
        /\ k2.retry = k.retry /\ k2.origin = k.origin /\ k2.init = k.init
    BY <1>4, OpensMean
  <2>2. k.at = "opening" /\ now' = now + 1 /\ UNCHANGED <<disk, encoder, skew, clip>>
    BY <1>4 DEF Open
  <2>3. k2.seg.entry = None /\ k2.seg.pending = <<>> /\ k2.origin = None /\ k2.init = None
    BY <1>0, <2>1, <2>2, NewIsSegmenter DEF TaskIsSound, TaskInv
  <2>4. Known' = Known
    BY <2>2 DEF Known
  <2>5. \A x \in Known : x.at < now'
    BY <1>0, <2>2 DEF Timeline, StoredSegments
  <2>6. RunIsPlaced(k2, Known, now')
    BY <1>0, <2>1, <2>2, <2>3, <2>5 DEF RunIsPlaced
  <2>7. RecordingInv(k2, disk, Known, encoder, now')
    <3> DEFINE n2 == now'
    <3> HIDE DEF k2, n2
    <3>1. RecordingInv(k2, disk, Known, encoder, n2)
      BY <2>3 DEF RecordingInv, Holds, Consecutive
    <3> QED
      BY <3>1 DEF n2
  <2>8. TaskInv(k2, disk, Known, encoder, now')
    BY <2>1, <2>6, <2>7 DEF TaskInv, StoringInv, PruningInv, AtFiles, Prunes
  <2>9. Timeline(Known, now')
    BY <1>0, <2>2, <2>5 DEF Timeline, StoredSegments
  <2>10. /\ DecodeInv(disk') /\ ClipInv(clip', disk'.segs) /\ Timeline(Known', now')
         /\ TaskInv(k2, disk', Known', encoder', now') /\ skew' = skew /\ Alive(t)
    BY <1>0, <2>2, <2>4, <2>8, <2>9 DEF Alive
  <2> QED
    BY <1>1, <2>10, Alone
<1>5. CASE OpenFails(t) \/ Reopen(t)
  <2>1. Keeps(k, k2) /\ k2.at \in {"opening", "waiting"} /\ k.at \in {"opening", "waiting"} /\ Same
    BY <1>5, OpensMean DEF OpenFails, Reopen
  <2>2. k2.origin = None /\ k2.init = None
    BY <1>0, <2>1 DEF Keeps, TaskInv
  <2> QED
    BY <1>3, <2>1, <2>2 DEF Alive
<1>6. ASSUME NEW key \in BOOLEAN, NEW cfg \in Configs, Frame(t, key, cfg) PROVE QuietInv'
  <2>1. PICK f, p : FrameIs(t, f, p)
    BY <1>6, FrameMeans
  <2>2. TaskInv(k2, disk, Known, encoder', now')
    BY <2>1, FrameIsQuiet DEF Quiet
  <2>3. k.at = "recording" /\ now' = now + 1 /\ UNCHANGED <<disk, skew, clip>>
    BY <2>1 DEF FrameIs
  <2>4. Known' = Known
    BY <2>3 DEF Known
  <2>5. Timeline(Known, now')
    BY <1>0, <2>3, TimelineStays
  <2>6. /\ DecodeInv(disk') /\ ClipInv(clip', disk'.segs) /\ Timeline(Known', now')
        /\ TaskInv(k2, disk', Known', encoder', now') /\ skew' = skew /\ Alive(t)
    BY <1>0, <2>2, <2>3, <2>4, <2>5 DEF Alive
  <2> QED
    BY <1>1, <2>6, Alone
<1>7. CASE StreamEnds(t)
  <2>1. k2 = Idle(k) \/ EndsAt(k, k2)
    BY <1>7, EndMeans DEF StreamEnds
  <2>2. Same /\ Alive(t)
    BY <1>7 DEF StreamEnds, EndOfStream, Alive
  <2>3. CASE k2 = Idle(k)
    BY <1>0, <1>3, <2>2, <2>3, IdleIsSound
  <2>4. CASE EndsAt(k, k2)
    BY <1>2, <2>2, <2>4, EndIsQuiet
  <2> QED
    BY <2>1, <2>3, <2>4
<1>8. CASE ReadFails(t) \/ WriteFails(t)
  <2>1. k2 = NoTask \/ k2 = Idle(k)
    BY <1>8, OpensMean, WritesMean
  <2>2. Same /\ Alive(t)
    BY <1>8 DEF ReadFails, WriteFails, Alive
  <2> QED
    BY <1>0, <1>3, <2>1, <2>2, IdleIsSound, NoTaskIsSound
<1>9. CASE WriteMp4(t)
  <2>1. Keeps(k, k2) /\ k2.at = "json" /\ k.at = "mp4"
    BY <1>9, WritesMean DEF WriteMp4
  <2>2. disk' = [disk EXCEPT !.mp4 = @ \cup {k.seg.entry}] /\ UNCHANGED <<encoder, now, skew, clip>>
    BY <1>9 DEF WriteMp4
  <2>3. disk'.segs = disk.segs /\ disk'.mp4 = disk.mp4 \cup {k.seg.entry} /\ disk'.json = disk.json
    BY <2>2 DEF RingKinds
  <2>4. TaskInv(k2, disk', Known, encoder, now)
    <3> DEFINE d2 == disk'
    <3> HIDE DEF k, k2, d2
    <3>1. TaskInv(k2, d2, Known, encoder, now)
      BY <1>0, <2>1, <2>3, Mp4IsQuiet DEF d2
    <3> QED
      BY <3>1 DEF d2
  <2>5. DecodeInv(disk') /\ Known' = Known /\ Alive(t)
    BY <1>0, <2>1, <2>2, <2>3 DEF DecodeInv, Known, Alive
  <2>6. /\ ClipInv(clip', disk'.segs) /\ Timeline(Known', now')
        /\ TaskInv(k2, disk', Known', encoder', now') /\ skew' = skew
    BY <1>0, <2>2, <2>3, <2>4, <2>5
  <2> QED
    BY <1>1, <2>5, <2>6, Alone
<1>10. CASE WriteJson(t)
  <2>1. /\ k2.at = "segment" /\ k2.init = k.seg.entry
        /\ k2.then = k.then /\ k2.opened = k.opened /\ k2.seg = k.seg /\ k2.retry = k.retry
        /\ k2.origin = k.origin /\ k2.closed = k.closed /\ k.at = "json"
    BY <1>10, WritesMean DEF WriteJson
  <2>2. disk' = [disk EXCEPT !.json = @ \cup {k.seg.entry}] /\ UNCHANGED <<encoder, now, skew, clip>>
    BY <1>10 DEF WriteJson
  <2>3. disk'.segs = disk.segs /\ disk'.mp4 = disk.mp4 /\ disk'.json = disk.json \cup {k.seg.entry}
    BY <2>2 DEF RingKinds
  <2>4. TaskInv(k2, disk', Known, encoder, now)
    <3> DEFINE d2 == disk'
    <3> HIDE DEF k, k2, d2
    <3>1. TaskInv(k2, d2, Known, encoder, now)
      BY <1>0, <2>1, <2>3, JsonIsQuiet DEF d2
    <3> QED
      BY <3>1 DEF d2
  <2>5. DecodeInv(disk') /\ Known' = Known /\ Alive(t)
    BY <1>0, <2>1, <2>2, <2>3 DEF DecodeInv, Known, Alive
  <2>6. /\ ClipInv(clip', disk'.segs) /\ Timeline(Known', now')
        /\ TaskInv(k2, disk', Known', encoder', now') /\ skew' = skew
    BY <1>0, <2>2, <2>3, <2>4, <2>5
  <2> QED
    BY <1>1, <2>5, <2>6, Alone
<1>11. CASE WriteSegment(t)
  <2>1. skew' = skew /\ Alive(t)
    BY <1>11 DEF WriteSegment, Alive
  <2> QED
    BY <1>1, <1>11, <2>1, SegmentIsQuiet, Alone
<1>12. CASE List(t) \/ ListLive(t) \/ ListInits(t)
  <2>1. Same /\ Alive(t)
    BY <1>12 DEF List, ListLive, ListInits, Alive
  <2> QED
    BY <1>2, <1>12, <2>1, ListIsQuiet
<1>13. CASE Evict(t)
  <2>1. skew' = skew /\ Alive(t)
    BY <1>13 DEF Evict, Alive
  <2> QED
    BY <1>1, <1>13, <2>1, EvictIsQuiet, Alone
<1>14. CASE RemoveInit(t)
  <2>1. UNCHANGED <<encoder, now, skew, clip>> /\ Alive(t)
    BY <1>14 DEF RemoveInit, Alive
  <2>2. /\ disk'.segs = disk.segs /\ DecodeInv(disk')
        /\ TaskInv(k2, disk', Known, encoder, now)
    BY <1>14, RemoveIsQuiet
  <2>3. Known' = Known
    BY <2>1, <2>2 DEF Known
  <2>4. /\ ClipInv(clip', disk'.segs) /\ Timeline(Known', now')
        /\ TaskInv(k2, disk', Known', encoder', now') /\ skew' = skew
    BY <1>0, <2>1, <2>2, <2>3
  <2> QED
    BY <1>1, <2>1, <2>2, <2>4, Alone
<1>15. CASE Settle(t)
  <2>1. Same /\ Alive(t)
    BY <1>15 DEF Settle, Alive
  <2> QED
    BY <1>2, <1>15, <2>1, SettleIsQuiet
<1> QED
  BY <1>4, <1>5, <1>6, <1>7, <1>8, <1>9, <1>10, <1>11, <1>12, <1>13, <1>14, <1>15 DEF TaskStep

-----------------------------------------------------------------------------
(* What else happens to the ring: reconcile, a crash, time, a clip.        *)

\* Less of what is known, no earlier: the disk and the clip are all that is left to say.
LEMMA LessIsKnown ==
    ASSUME RingKinds, QuietInv, DOMAIN task' = Tasks, disk' = disk, encoder' = encoder, skew' = skew,
           clip'.held \subseteq Known, now' \in Nat, now <= now', ClipInv(clip', disk.segs), OneAtMost(task'),
           \A u \in Tasks : TaskInv(task'[u], disk, Known', encoder, now')
    PROVE  QuietInv'
<1>1. Known' \in SUBSET Known /\ Known \in SUBSET StoredSegments
  BY SomeSegments DEF Known
<1>2. now \in Nat /\ Timeline(Known, now) /\ skew = 0 /\ DecodeInv(disk)
  BY DEF RingKinds, QuietInv
<1> DEFINE S == Known
           S2 == Known'
           n == now
           n2 == now'
<1>3. Timeline(S2, n2)
  <2>1. S \in SUBSET StoredSegments /\ S2 \in SUBSET S /\ n \in Nat /\ n2 \in Nat /\ n <= n2 /\ Timeline(S, n)
    BY <1>1, <1>2
  <2> HIDE DEF S, S2, n, n2
  <2> QED
    BY <2>1, TimelineStays
<1> QED
  BY <1>2, <1>3 DEF QuietInv

\* A task that nothing happens to, as time goes by with nobody recording.
LEMMA StandsStill ==
    ASSUME RingKinds, QuietInv, NEW u \in Tasks, clip'.held \subseteq Known, disk' = disk,
           now' \in Nat, now <= now', task[u].at = "recording" => now' = now
    PROVE  TaskInv(task[u], disk, Known', encoder, now')
<1> DEFINE k == task[u]
           S == Known
           S2 == Known'
           n == now
           n2 == now'
           d == disk
           cfg == encoder
<1>1. /\ k \in TaskKinds /\ S2 \in SUBSET S /\ n \in Nat /\ n2 \in Nat /\ n <= n2
      /\ (k.at = "recording" => n2 = n) /\ TaskInv(k, d, S, cfg, n)
  BY DEF RingKinds, QuietInv, TaskIsSound, Known
<1> HIDE DEF k, S, S2, n, n2, d, cfg
<1>2. Keeps(k, k)
  BY <1>1 DEF Keeps
<1>3. TaskInv(k, d, S2, cfg, n2)
  BY <1>1, <1>2, StaysQuiet
<1> QED
  BY <1>3 DEF k, S2, n2, d, cfg

\* A task that has not begun, or is over, is quiet whatever there is.
LEMMA LeftIsQuiet ==
    ASSUME RingKinds, QuietInv, NEW u \in Tasks, Left(u)
    PROVE  TaskInv(task'[u], disk, Known, encoder, now) /\ (task'[u].at # "none" => task[u].at # "none")
<1> DEFINE k == task[u]
           k2 == task'[u]
           S == Known
           n == now
           d == disk
           cfg == encoder
<1>1. k \in TaskKinds /\ n \in Nat /\ TaskInv(k, d, S, cfg, n)
  BY DEF RingKinds, QuietInv, TaskIsSound
<1>2. CASE k2 = k
  BY <1>1, <1>2
<1>3. CASE k2 # k
  <2>1. Alive(u) /\ k2 \in Stopped(task[u])
    BY <1>3 DEF Left
  <2>2. k.at # "none"
    BY <2>1 DEF Alive
  <2>3. CASE k2 = NoTask
    <3>1. k2.at = "none" /\ k2.origin = None /\ k2.init = None
      BY <2>3 DEF NoTask
    <3> HIDE DEF k2
    <3>2. TaskInv(k2, d, S, cfg, n)
      BY <3>1, RestIsQuiet
    <3> QED
      BY <2>2, <3>2 DEF k2
  <2>4. CASE EndsAt(task[u], k2)
    <3> HIDE DEF k2
    <3>1. TaskInv(k2, disk, Known, encoder, now)
      BY <2>4, EndIsQuiet
    <3> QED
      BY <2>2, <3>1 DEF k2
  <2>5. CASE /\ InSync(task[u]) /\ Keeps(task[u], k2) /\ k2.at = task[u].at /\ k2.listed = task[u].listed
             /\ k2.total = task[u].total /\ k2.live = task[u].live /\ k2.doomed = task[u].doomed
    <3>1. /\ Keeps(k, k2) /\ k2.at = k.at /\ k2.listed = k.listed
          /\ k2.total = k.total /\ k2.live = k.live /\ k2.doomed = k.doomed
      BY <2>5
    <3> HIDE DEF k, k2, S, n, d, cfg
    <3>2. S \in SUBSET S /\ n <= n
      BY <1>1
    <3>3. TaskInv(k2, d, S, cfg, n)
      BY <1>1, <3>1, <3>2, StaysQuiet
    <3> QED
      BY <2>2, <3>3 DEF k, k2, S, n, d, cfg
  <2> HIDE DEF k2
  <2> QED
    BY <2>1, <2>3, <2>4, <2>5, StoppedMeans
<1> QED
  BY <1>2, <1>3

LEMMA ReconcileIsQuiet ==
    ASSUME RingKinds, QuietInv, NEW src \in Sources \cup {None}, Reconcile(src), Quiet'
    PROVE  QuietInv'
<1>1. DOMAIN task' = Tasks /\ UNCHANGED <<disk, encoder, now, skew, clip>>
  BY ReconcileMeans
<1>2. Known' = Known /\ clip'.held \subseteq Known /\ now' \in Nat /\ now <= now' /\ ClipInv(clip', disk.segs)
  BY <1>1 DEF Known, RingKinds, QuietInv
<1>3. ASSUME OneAtMost(task'), \A u \in Tasks : TaskInv(task'[u], disk, Known, encoder, now)
      PROVE  QuietInv'
  <2>1. \A u \in Tasks : TaskInv(task'[u], disk, Known', encoder, now')
    BY <1>1, <1>2, <1>3
  <2> QED
    BY <1>1, <1>2, <1>3, <2>1, LessIsKnown
<1>4. OneAtMost(task)
  BY DEF QuietInv
<1>5. CASE \A u \in Tasks : Left(u)
  <2>1. \A u \in Tasks : TaskInv(task'[u], disk, Known, encoder, now) /\ (task'[u].at # "none" => task[u].at # "none")
    BY <1>5, LeftIsQuiet
  <2>2. OneAtMost(task')
    BY <1>4, <2>1 DEF OneAtMost
  <2> QED
    BY <1>3, <2>1, <2>2
<1>6. CASE \E t \in Tasks :
              /\ task'[t] = Opening(src)
              /\ \A u \in Tasks \ {t} : Left(u)
              /\ "overlapped" \in excuse' \/ \A u \in Tasks \ {t} : task'[u].at = "none"
  <2>1. PICK t \in Tasks :
              /\ task'[t] = Opening(src)
              /\ \A u \in Tasks \ {t} : Left(u)
              /\ "overlapped" \in excuse' \/ \A u \in Tasks \ {t} : task'[u].at = "none"
    BY <1>6
  <2>2. \A u \in Tasks \ {t} : task'[u].at = "none"
    BY <2>1 DEF Quiet
  <2>3. OneAtMost(task')
    BY <2>2 DEF OneAtMost
  <2>4. TaskInv(task'[t], disk, Known, encoder, now)
    <3> DEFINE k2 == task'[t]
    <3>1. k2.at = "opening" /\ k2.origin = None /\ k2.init = None
      BY <2>1, OpeningIsSound
    <3> HIDE DEF k2
    <3>2. TaskInv(k2, disk, Known, encoder, now)
      BY <3>1, RestIsQuiet
    <3> QED
      BY <3>2 DEF k2
  <2>5. \A u \in Tasks \ {t} : TaskInv(task'[u], disk, Known, encoder, now)
    BY <2>1, LeftIsQuiet
  <2> QED
    BY <1>3, <2>3, <2>4, <2>5
<1> QED
  BY <1>5, <1>6, ReconcileMeans

\* Nobody is left, and there is nothing a clip was asked for.
LEMMA CrashIsQuiet ==
    ASSUME RingKinds, QuietInv, Crash
    PROVE  QuietInv'
<1>1. task' = [t \in Tasks |-> NoTask] /\ clip' = NoClip /\ UNCHANGED <<disk, encoder, now, skew>>
  BY DEF Crash
<1>2. NoTask.at = "none" /\ NoTask.origin = None /\ NoTask.init = None
  BY DEF NoTask
<1>3. clip'.held \subseteq Known /\ ClipInv(clip', disk.segs)
  BY <1>1 DEF NoClip, ClipInv
<1>4. DOMAIN task' = Tasks /\ OneAtMost(task') /\ \A u \in Tasks : task'[u] = NoTask
  BY <1>1, <1>2 DEF OneAtMost
<1>5. \A u \in Tasks : TaskInv(task'[u], disk, Known', encoder, now')
  <2> DEFINE S2 == Known'
             n2 == now'
             i == NoTask
  <2>1. i.at = "none" /\ i.origin = None /\ i.init = None
    BY <1>2
  <2> HIDE DEF S2, n2, i
  <2>2. TaskInv(i, disk, S2, encoder, n2)
    BY <2>1, RestIsQuiet
  <2> QED
    BY <1>4, <2>2 DEF S2, n2, i
<1>6. now' \in Nat /\ now <= now' /\ UNCHANGED <<disk, encoder, skew>>
  BY <1>1 DEF RingKinds
<1> QED
  BY <1>3, <1>4, <1>5, <1>6, LessIsKnown

LEMMA UnseenIsQuiet ==
    ASSUME RingKinds, QuietInv, Unseen
    PROVE  QuietInv'
<1>1. UNCHANGED <<disk, task, encoder, skew, clip>> /\ now' = now + 1 /\ \A u \in Tasks : task[u].at # "recording"
  BY DEF Unseen
<1>2. now' \in Nat /\ now <= now' /\ clip'.held \subseteq Known /\ ClipInv(clip', disk.segs) /\ DOMAIN task' = Tasks
  BY <1>1 DEF RingKinds, QuietInv, Known
<1>3. \A u \in Tasks : TaskInv(task'[u], disk, Known', encoder, now')
  BY <1>1, <1>2, StandsStill
<1>4. OneAtMost(task')
  BY <1>1 DEF QuietInv
<1> QED
  BY <1>1, <1>2, <1>3, <1>4, LessIsKnown

-----------------------------------------------------------------------------
(* A clip.                                                                 *)

\* What the clip was asked for is there when it has been read, or is missing when it is
\* given up.
LEMMA AskIsQuiet ==
    ASSUME RingKinds, QuietInv, NEW from, NEW to, Ask(from, to)
    PROVE  clip'.held \subseteq Known /\ ClipInv(clip', disk.segs)
<1> DEFINE held == Overlapping(from, to)
           q == Sorted(held)
           at == IF q = <<>> THEN "nothing"
                 ELSE IF \E i \in DOMAIN q : q[i].init # q[1].init THEN "reshaped"
                 ELSE "reading"
           e == <<>>
<1>1. clip' = [at |-> at, from |-> from, to |-> to, listed |-> q, got |-> e, held |-> held]
  BY DEF Ask
<1>2. held \in SUBSET StoredSegments /\ IsFiniteSet(held) /\ held \subseteq disk.segs
  BY FS_Subset DEF Overlapping, RingKinds
<1>3. q \in Seq(held) /\ {q[i] : i \in DOMAIN q} = held
  BY <1>2, SortedIs
<1>4. at \in {"nothing", "reshaped", "reading"} /\ Len(e) = 0
  OBVIOUS
<1>5. at = "reading" => q # <<>> /\ \A i \in DOMAIN q : q[i].init = q[1].init
  OBVIOUS
<1>6. Len(q) \in Nat
  BY <1>3, LenProperties
<1> HIDE DEF held, q, at, e
<1>7. clip'.at = at /\ clip'.listed = q /\ clip'.got = e /\ clip'.held = held
  BY <1>1
<1>8. ClipInv(clip', disk.segs)
  BY <1>3, <1>4, <1>5, <1>6, <1>7 DEF ClipInv
<1> QED
  BY <1>2, <1>7, <1>8 DEF Known

LEMMA ReadSegmentIsQuiet ==
    ASSUME RingKinds, QuietInv, ReadSegment
    PROVE  clip'.held \subseteq Known /\ ClipInv(clip', disk.segs)
<1> DEFINE m == Len(clip.got) + 1
           next == clip.listed[m]
           found == {x \in disk.segs : Name(x) = Name(next)}
           y == CHOOSE x \in found : TRUE
<1>0. /\ clip \in ClipKinds /\ disk.segs \in SUBSET StoredSegments
      /\ ClipInv(clip, disk.segs) /\ Timeline(Known, now)
  BY DEF RingKinds, QuietInv
<1>1. /\ clip.at = "reading" /\ Len(clip.got) < Len(clip.listed)
      /\ clip' = IF found = {} THEN [clip EXCEPT !.at = "gone"] ELSE [clip EXCEPT !.got = Append(@, y)]
  BY DEF ReadSegment
<1>2. clip.listed \in Seq(StoredSegments) /\ clip.got \in Seq(StoredSegments)
  BY <1>0 DEF ClipKinds
<1>3. /\ Len(clip.got) \in Nat /\ Len(clip.listed) \in Nat /\ DOMAIN clip.listed = 1 .. Len(clip.listed)
      /\ DOMAIN clip.got = 1 .. Len(clip.got)
  BY <1>2, LenProperties
<1>4. m \in DOMAIN clip.listed
  BY <1>1, <1>3
<1>5. /\ {clip.listed[i] : i \in DOMAIN clip.listed} = clip.held /\ clip.listed # <<>>
      /\ \A i \in DOMAIN clip.listed : clip.listed[i].init = clip.listed[1].init
      /\ \A i \in 1 .. Len(clip.got) : clip.got[i] = clip.listed[i]
  BY <1>0, <1>1 DEF ClipInv
<1>6. next \in clip.held
  BY <1>4, <1>5
<1> HIDE DEF m
<1>7. CASE found = {}
  <2>1. clip'.at = "gone" /\ clip'.held = clip.held
    <3> HIDE DEF found, y
    <3> QED
      BY <1>0, <1>1, <1>7 DEF ClipKinds
  <2>2. next \notin disk.segs
    BY <1>7
  <2> QED
    BY <1>6, <2>1, <2>2 DEF ClipInv, Known
<1>8. CASE found # {}
  <2>1. y \in disk.segs /\ Name(y) = Name(next)
    BY <1>8
  <2> HIDE DEF y
  <2>2. y \in Known /\ next \in Known /\ y.start = next.start
    BY <1>6, <2>1 DEF Known, Name
  <2>3. y.at \in Nat /\ next.at \in Nat /\ y.start \in Int /\ next.start \in Int
    BY <2>2, SomeSegments DEF StoredSegments
  <2> HIDE DEF next
  <2>4. y.at = next.at
    BY <1>0, <2>2, <2>3 DEF Timeline
  <2>5. y = next
    BY <1>0, <2>2, <2>4 DEF Timeline
  <2> DEFINE g == Append(clip.got, y)
  <2>6. y \in StoredSegments
    BY <1>0, <2>1
  <2>7. /\ Len(g) = m /\ m \in Nat /\ m <= Len(clip.listed) /\ \A i \in 1 .. m : g[i] = clip.listed[i]
    <3>1. Len(g) = Len(clip.got) + 1 /\ g[Len(clip.got) + 1] = y
          /\ \A i \in 1 .. Len(clip.got) : g[i] = clip.got[i]
      BY <1>2, <2>6, AppendProperties
    <3> HIDE DEF g
    <3> QED
      BY <1>1, <1>3, <1>5, <2>5, <3>1 DEF m, next
  <2>8. clip' = [clip EXCEPT !.got = g]
    <3> HIDE DEF found
    <3> QED
      BY <1>1, <1>8
  <2> HIDE DEF g
  <2>9. clip'.at = "reading" /\ clip'.listed = clip.listed /\ clip'.held = clip.held /\ clip'.got = g
    BY <1>0, <1>1, <2>8 DEF ClipKinds
  <2>10. ClipInv(clip', disk.segs)
    BY <1>5, <2>7, <2>9 DEF ClipInv
  <2> QED
    BY <2>9, <2>10 DEF Known
<1> QED
  BY <1>7, <1>8

LEMMA ReadInitIsQuiet ==
    ASSUME RingKinds, QuietInv, ReadDescription \/ ReadInit
    PROVE  clip'.held \subseteq Known /\ ClipInv(clip', disk.segs)
<1> DEFINE i == clip.listed[1].init
<1>0. clip \in ClipKinds /\ ClipInv(clip, disk.segs) /\ DecodeInv(disk)
  BY DEF RingKinds, QuietInv
<1>1. /\ clip.at \in {"reading", "init"} /\ (clip.at = "init" \/ Len(clip.got) = Len(clip.listed))
      /\ \/ clip' = [clip EXCEPT !.at = "init"]
         \/ clip' = [clip EXCEPT !.at = "done"]
         \/ clip' = [clip EXCEPT !.at = "gone"] /\ (i \notin disk.json \/ i \notin disk.mp4)
  BY DEF ReadDescription, ReadInit
<1>2. /\ clip.listed # <<>> /\ {clip.listed[j] : j \in DOMAIN clip.listed} = clip.held
      /\ Len(clip.got) = Len(clip.listed)
  BY <1>0, <1>1 DEF ClipInv
<1>3. clip.listed[1] \in clip.held
  <2>1. clip.listed \in Seq(StoredSegments)
    BY <1>0 DEF ClipKinds
  <2>2. 1 \in DOMAIN clip.listed
    BY <1>2, <2>1
  <2> QED
    BY <1>2, <2>2
<1>4. /\ clip'.held = clip.held /\ clip'.listed = clip.listed /\ clip'.got = clip.got
      /\ \/ clip'.at \in {"init", "done"}
         \/ clip'.at = "gone" /\ (i \notin disk.json \/ i \notin disk.mp4)
  <2> HIDE DEF i
  <2> QED
    BY <1>0, <1>1 DEF ClipKinds
<1>5. clip'.at = "gone" => ~(clip.held \subseteq disk.segs)
  BY <1>0, <1>3, <1>4 DEF DecodeInv
<1> HIDE DEF i
<1>6. ClipInv(clip', disk.segs)
  BY <1>0, <1>1, <1>2, <1>4, <1>5 DEF ClipInv
<1> QED
  BY <1>4, <1>6 DEF Known

LEMMA ClipIsQuiet ==
    ASSUME RingKinds, QuietInv, ClipStep
    PROVE  QuietInv'
<1>1. UNCHANGED <<disk, task, encoder, now, skew>>
  BY ClipIsSound
<1>2. clip'.held \subseteq Known /\ ClipInv(clip', disk.segs)
  BY AskIsQuiet, ReadSegmentIsQuiet, ReadInitIsQuiet DEF ClipStep
<1>3. now' \in Nat /\ now <= now' /\ now' = now /\ DOMAIN task' = Tasks /\ OneAtMost(task')
  BY <1>1 DEF RingKinds, QuietInv
<1>4. \A u \in Tasks : TaskInv(task'[u], disk, Known', encoder, now')
  BY <1>1, <1>2, <1>3, StandsStill
<1> QED
  BY <1>1, <1>2, <1>3, <1>4, LessIsKnown

-----------------------------------------------------------------------------
(* The ring, from its beginning.                                           *)

\* Before anything is recorded there is nothing to be wrong.
LEMMA RingBegins == ASSUME RingInit PROVE RingInv
<1>1. RingKinds
  BY KindsBegin
<1>2. /\ disk = [segs |-> {}, mp4 |-> {}, json |-> {}] /\ clip = NoClip /\ skew = 0
      /\ \A t \in Tasks : task[t] = NoTask
  BY DEF RingInit
<1>3. NoTask.at = "none" /\ NoTask.origin = None /\ NoTask.init = None /\ NoClip.at = "none" /\ NoClip.held = {}
  BY DEF NoTask, NoClip
<1>4. OneAtMost(task) /\ DecodeInv(disk) /\ ClipInv(clip, disk.segs) /\ Known = {}
  BY <1>2, <1>3 DEF OneAtMost, DecodeInv, ClipInv, Known
<1>5. Timeline(Known, now)
  BY <1>4 DEF Timeline
<1>6. \A t \in Tasks : TaskInv(task[t], disk, Known, encoder, now)
  BY <1>2, <1>3, RestIsQuiet
<1> QED
  BY <1>1, <1>2, <1>4, <1>5, <1>6 DEF RingInv, QuietInv

\* What has happened that the code does not survive has happened for good.
LEMMA ExcusesStay ==
    ASSUME RingKinds, RingNext
    PROVE  excuse \subseteq excuse'
<1>1. ASSUME NEW t \in Tasks, TaskStep(t) PROVE excuse \subseteq excuse'
  BY <1>1 DEF TaskStep, Open, OpenFails, Reopen, Frame, StreamEnds, ReadFails, WriteMp4, WriteJson,
              WriteSegment, WriteFails, List, Evict, ListLive, ListInits, RemoveInit, Settle
<1>2. ASSUME NEW src \in Sources \cup {None}, Reconcile(src) PROVE excuse \subseteq excuse'
  BY <1>2, ReconcileMeans
<1>3. CASE Crash \/ Unseen \/ ClockSetBack
  BY <1>3 DEF Crash, Unseen, ClockSetBack
<1>4. CASE ClipStep
  BY <1>4, ClipIsSound
<1> QED
  BY <1>1, <1>2, <1>3, <1>4 DEF RingNext

LEMMA RingStep ==
    ASSUME RingInv, [RingNext]_ringVars
    PROVE  RingInv'
<1>1. RingKinds
  BY DEF RingInv
<1>2. CASE RingNext
  <2>1. RingKinds'
    BY <1>1, <1>2, KindsStay
  <2> SUFFICES ASSUME Quiet' PROVE QuietInv'
    BY <2>1 DEF RingInv
  <2>2. QuietInv
    <3>1. excuse = {}
      BY <1>1, <1>2, ExcusesStay DEF Quiet
    <3> QED
      BY <3>1 DEF RingInv, Quiet
  <2>3. ASSUME NEW t \in Tasks, TaskStep(t) PROVE QuietInv'
    BY <1>1, <2>2, <2>3, TaskStepIsQuiet
  <2>4. ASSUME NEW src \in Sources \cup {None}, Reconcile(src) PROVE QuietInv'
    BY <1>1, <2>2, <2>4, ReconcileIsQuiet
  <2>5. CASE Crash
    BY <1>1, <2>2, <2>5, CrashIsQuiet
  <2>6. CASE Unseen
    BY <1>1, <2>2, <2>6, UnseenIsQuiet
  <2>7. CASE ClockSetBack
    BY <2>7 DEF ClockSetBack, Quiet
  <2>8. CASE ClipStep
    BY <1>1, <2>2, <2>8, ClipIsQuiet
  <2> QED
    BY <1>2, <2>3, <2>4, <2>5, <2>6, <2>7, <2>8 DEF RingNext
<1>3. CASE UNCHANGED ringVars
  <2>1. UNCHANGED <<disk, task, encoder, now, skew, clip, excuse>>
    BY <1>3 DEF ringVars
  <2>2. RingKinds'
    BY <1>1, <2>1 DEF RingKinds, TaskIsSound, TaskKinds, AtFiles, Prunes, Started
  <2>3. QuietInv => QuietInv'
    <3> SUFFICES ASSUME QuietInv PROVE QuietInv'
      OBVIOUS
    <3>1. now' \in Nat /\ now <= now' /\ now' = now /\ DOMAIN task' = Tasks /\ OneAtMost(task')
          /\ clip'.held \subseteq Known /\ ClipInv(clip', disk.segs)
      BY <1>1, <2>1 DEF RingKinds, QuietInv, Known
    <3>2. \A u \in Tasks : TaskInv(task'[u], disk, Known', encoder, now')
      BY <1>1, <2>1, <3>1, StandsStill
    <3> QED
      BY <1>1, <2>1, <3>1, <3>2, LessIsKnown
  <2>4. Quiet' = Quiet
    BY <2>1 DEF Quiet
  <2> QED
    BY <2>2, <2>3, <2>4 DEF RingInv
<1> QED
  BY <1>2, <1>3

\* The invariant is what was to be shown.
LEMMA RingIsRight ==
    ASSUME RingInv
    PROVE  SegmentsDecode /\ ClipIsHonest /\ NewestStays /\ InBudget
<1> SUFFICES ASSUME Quiet PROVE SegmentsDecode /\ ClipIsHonest /\ NewestStays /\ InBudget
  BY DEF SegmentsDecode, ClipIsHonest, NewestStays, InBudget
<1>1. RingKinds /\ QuietInv
  BY DEF RingInv
<1>2. SegmentsDecode
  BY <1>1 DEF QuietInv, DecodeInv, SegmentsDecode
<1>3. ClipIsHonest
  <2>1. ClipInv(clip, disk.segs) /\ clip \in ClipKinds
    BY <1>1 DEF QuietInv, RingKinds
  <2> SUFFICES ASSUME clip.at = "done"
               PROVE  /\ {clip.got[i] : i \in DOMAIN clip.got} = clip.held
                      /\ \A i \in DOMAIN clip.got : clip.got[i].init = clip.got[1].init
    BY <2>1 DEF ClipIsHonest, ClipInv
  <2>2. clip.listed \in Seq(StoredSegments) /\ clip.got \in Seq(StoredSegments)
    BY <2>1 DEF ClipKinds
  <2>3. /\ Len(clip.got) = Len(clip.listed) /\ clip.listed # <<>>
        /\ {clip.listed[i] : i \in DOMAIN clip.listed} = clip.held
        /\ \A i \in DOMAIN clip.listed : clip.listed[i].init = clip.listed[1].init
        /\ \A i \in 1 .. Len(clip.got) : clip.got[i] = clip.listed[i]
    BY <2>1 DEF ClipInv
  <2>4. DOMAIN clip.got = 1 .. Len(clip.got) /\ DOMAIN clip.listed = 1 .. Len(clip.got) /\ 1 \in DOMAIN clip.listed
    BY <2>2, <2>3, LenProperties
  <2> QED
    BY <2>3, <2>4
<1>4. NewestStays
  <2> SUFFICES ASSUME NEW x \in disk.segs, NEW y \in disk.segs, x.at < y.at PROVE Before(x, y)
    BY DEF NewestStays
  <2>1. x \in Known /\ y \in Known /\ Timeline(Known, now)
    BY <1>1 DEF Known, QuietInv
  <2> QED
    BY <2>1 DEF Timeline, Before
<1>5. InBudget
  <2> SUFFICES ASSUME NEW t \in Tasks, task[t].at = "recording", task[t].origin # None
               PROVE  InsideBudget(disk.segs)
    BY DEF InBudget, InsideBudget
  <2>1. TaskInv(task[t], disk, Known, encoder, now)
    BY <1>1 DEF QuietInv
  <2> QED
    BY <2>1 DEF TaskInv, RecordingInv
<1> QED
  BY <1>2, <1>3, <1>4, <1>5

-----------------------------------------------------------------------------
(* The whole: one part moves at a time.                                   *)

\* A step of the gateway is one of the part that moves.
LEMMA OnePartMoves ==
    ASSUME [GatewayNext]_gatewayVars
    PROVE  /\ part' = part
           /\ part = "watching" => [WatchNext]_watchVars
           /\ part = "onvif" => [OnvifNext]_onvifVars
           /\ part = "pushed" => [PushNext]_pushVars
           /\ part = "probe" => [RelayProbeNext]_probeVars
           /\ part = "turn" => [BridgeNext]_bridgeVars
           /\ part = "ring" => [RingNext]_ringVars
  BY DEF GatewayNext, gatewayVars, besides_ring, besides_pushed, besides_transport, besides_recording,
     besides_h264, besides_onvif, besides_turn, besides_probe, besides_watching

WatchPart == part = "watching" => WatchInv
OnvifPart == part = "onvif" => OnvifInv
PushPart == part = "pushed" => PushInv
ProbePart == part = "probe" => ProbeInv
BridgePart == part = "turn" => BridgeInv
RingPart == part = "ring" => RingInv

\* The part that moves keeps its invariant, and the others do not move.
LEMMA WatchPartHolds == GatewaySpec => []WatchPart
<1>1. GatewayInit => WatchPart
  BY WatchBegins DEF GatewayInit, WatchPart
<1>2. WatchPart /\ [GatewayNext]_gatewayVars => WatchPart'
  <2> SUFFICES ASSUME WatchPart, [GatewayNext]_gatewayVars, part' = "watching" PROVE WatchInv'
    BY DEF WatchPart
  <2>1. WatchInv /\ [WatchNext]_watchVars
    BY OnePartMoves DEF WatchPart
  <2> QED
    BY <2>1, WatchStep
<1> QED
  BY <1>1, <1>2, PTL DEF GatewaySpec

LEMMA OnvifPartHolds == GatewaySpec => []OnvifPart
<1>1. GatewayInit => OnvifPart
  BY OnvifBegins DEF GatewayInit, OnvifPart
<1>2. OnvifPart /\ [GatewayNext]_gatewayVars => OnvifPart'
  <2> SUFFICES ASSUME OnvifPart, [GatewayNext]_gatewayVars, part' = "onvif" PROVE OnvifInv'
    BY DEF OnvifPart
  <2>1. OnvifInv /\ [OnvifNext]_onvifVars
    BY OnePartMoves DEF OnvifPart
  <2> QED
    BY <2>1, OnvifStep
<1> QED
  BY <1>1, <1>2, PTL DEF GatewaySpec

LEMMA PushPartHolds == GatewaySpec => []PushPart
<1>1. GatewayInit => PushPart
  BY PushBegins DEF GatewayInit, PushPart
<1>2. PushPart /\ [GatewayNext]_gatewayVars => PushPart'
  <2> SUFFICES ASSUME PushPart, [GatewayNext]_gatewayVars, part' = "pushed" PROVE PushInv'
    BY DEF PushPart
  <2>1. PushInv /\ [PushNext]_pushVars
    BY OnePartMoves DEF PushPart
  <2> QED
    BY <2>1, PushStep
<1> QED
  BY <1>1, <1>2, PTL DEF GatewaySpec

LEMMA ProbePartHolds == GatewaySpec => []ProbePart
<1>1. GatewayInit => ProbePart
  BY ProbeBegins DEF GatewayInit, ProbePart
<1>2. ProbePart /\ [GatewayNext]_gatewayVars => ProbePart'
  <2> SUFFICES ASSUME ProbePart, [GatewayNext]_gatewayVars, part' = "probe" PROVE ProbeInv'
    BY DEF ProbePart
  <2>1. ProbeInv /\ [RelayProbeNext]_probeVars
    BY OnePartMoves DEF ProbePart
  <2> QED
    BY <2>1, ProbeStep
<1> QED
  BY <1>1, <1>2, PTL DEF GatewaySpec

LEMMA BridgePartHolds == GatewaySpec => []BridgePart
<1>1. GatewayInit => BridgePart
  BY BridgeBegins DEF GatewayInit, BridgePart
<1>2. BridgePart /\ [GatewayNext]_gatewayVars => BridgePart'
  <2> SUFFICES ASSUME BridgePart, [GatewayNext]_gatewayVars, part' = "turn" PROVE BridgeInv'
    BY DEF BridgePart
  <2>1. BridgeInv /\ [BridgeNext]_bridgeVars
    BY OnePartMoves DEF BridgePart
  <2> QED
    BY <2>1, BridgeStep
<1> QED
  BY <1>1, <1>2, PTL DEF GatewaySpec

LEMMA RingPartHolds == GatewaySpec => []RingPart
<1>1. GatewayInit => RingPart
  BY RingBegins DEF GatewayInit, RingPart
<1>2. RingPart /\ [GatewayNext]_gatewayVars => RingPart'
  <2> SUFFICES ASSUME RingPart, [GatewayNext]_gatewayVars, part' = "ring" PROVE RingInv'
    BY DEF RingPart
  <2>1. RingInv /\ [RingNext]_ringVars
    BY OnePartMoves DEF RingPart
  <2> QED
    BY <2>1, RingStep
<1> QED
  BY <1>1, <1>2, PTL DEF GatewaySpec

-----------------------------------------------------------------------------
(* The theorems.                                                           *)

\* Whoever pushes, in whatever order connections come, break and are let in again: a stream
\* that is open has its publisher, one that publishes alone is heard, and a reader whose codec
\* has not changed can decode what it is sent (ingest.rs).
THEOREM StreamsAreAlwaysHeard == GatewaySpec => []StreamsAreHeard
<1>1. PushPart => StreamsAreHeard
  BY DEF PushPart, PushInv, StreamsAreHeard
<1> QED
  BY <1>1, PushPartHolds, PTL

\* Whatever answers a probe of the network, and whatever profiles, addresses and logins there
\* are: a camera is found once, dialled where it answered, with its own login, for the profiles
\* it has; and however passes, rule changes and reconnects interleave, plugins are asked about
\* it at the pace of its rules (onvif.rs, watch_with_plugins).
THEOREM CamerasAreAlwaysServed == GatewaySpec => []CamerasAreServed
<1>1. OnvifPart /\ WatchPart => CamerasAreServed
  BY OnvifIsRight, AskedAtThePace DEF OnvifPart, WatchPart, CamerasAreServed
<1> QED
  BY <1>1, OnvifPartHolds, WatchPartHolds, PTL

\* For every list of URLs, every stream of the relay, every way to cut it into reads, every
\* order of datagrams, failures and probes: the plan keeps a way to the relay, what the peer
\* sends arrives once and in order or is accounted for, the relay's messages come out as if
\* nothing had cut them, and a verdict on UDP is no older than it may be (turn_bridge).
THEOREM BridgeIsAlwaysTransparent == GatewaySpec => []BridgeIsTransparent
<1>1. BridgePart /\ ProbePart => BridgeIsTransparent
  BY BridgeIsRight, ProbeIsFair DEF BridgePart, ProbePart, BridgeIsTransparent
<1> QED
  BY <1>1, BridgePartHolds, ProbePartHolds, PTL

\* However recording tasks, aborted ones at their files, retries, crashes, time and a clip being
\* read interleave, and unless tasks overlapped, the clock was set back or the parameters
\* changed behind an unchanged form: each segment on disk has its init and its description
\* and was encoded with them, a clip is all the ring held of its range or says what is
\* missing, what was written last is last, and the ring is inside its budget or down to one
\* segment when a task records again (ringbuffer.rs, recorder.rs).
THEOREM RingIsAlwaysWhole == GatewaySpec => []RingIsWhole
<1>1. RingPart => RingIsWhole
  BY RingIsRight DEF RingPart, RingIsWhole
<1> QED
  BY <1>1, RingPartHolds, PTL

-----------------------------------------------------------------------------
(* Types, where the invariants above do not say them.                      *)

\* At most one task records for itself, an aborted one is at its files, and the bounds hold.
AbortedAtFiles == \A t \in Tasks : task[t].aborted => AtFiles(task[t]) \/ Prunes(task[t])
OneRuns == \A t, u \in Running : t = u
RingBounds ==
    /\ now \in 0 .. MaxNow /\ skew \in 0 .. MaxSkew /\ faults \in 0 .. MaxFaults
    /\ AbortedAtFiles /\ OneRuns

\* A ring begins inside its bounds.
LEMMA RingBoundsBegin == RingInit => RingBounds
<1> SUFFICES ASSUME RingInit PROVE RingBounds
  OBVIOUS
<1>1. \A t \in Tasks : task[t] = NoTask
  BY DEF RingInit
<1>2. NoTask.at = "none" /\ ~NoTask.aborted
  BY DEF NoTask
<1>3. Running = {}
  BY <1>1, <1>2 DEF Running, Alive
<1> QED
  BY <1>1, <1>2, <1>3, RingAssumption DEF RingInit, RingBounds, AbortedAtFiles, OneRuns

\* A task that goes on alone keeps its abort, unless it ends with it.
LEMMA OneTaskOn ==
    ASSUME RingKinds, RingBounds, NEW t \in Tasks, NEW k,
           task' = [task EXCEPT ![t] = k], task[t].at # "none",
           \/ k.at = "none" /\ ~k.aborted
           \/ (k.aborted <=> task[t].aborted) /\ (k.aborted => AtFiles(k) \/ Prunes(k))
    PROVE  AbortedAtFiles' /\ OneRuns'
<1>1. /\ \A u \in Tasks : u # t => task'[u] = task[u]
      /\ task'[t] = k
  BY DEF RingKinds
<1>2. \A u \in Tasks : task'[u].aborted => AtFiles(task'[u]) \/ Prunes(task'[u])
  <2> SUFFICES ASSUME NEW u \in Tasks, task'[u].aborted PROVE AtFiles(task'[u]) \/ Prunes(task'[u])
    OBVIOUS
  <2>1. CASE u = t
    BY <1>1, <2>1
  <2>2. CASE u # t
    BY <1>1, <2>2 DEF RingBounds, AbortedAtFiles
  <2> QED
    BY <2>1, <2>2
<1>3. Running' \subseteq Running
  BY <1>1 DEF Running, Alive
<1> QED
  BY <1>2, <1>3 DEF RingBounds, AbortedAtFiles, OneRuns

\* A task that stores is as aborted as it was.
StoresAs(m, k, ended, then, clock, seg, retry) ==
    \/ m = [Storing(k, ended, then, clock) EXCEPT !.seg = seg]
    \/ m = [Storing(k, ended, then, clock) EXCEPT !.seg = seg, !.retry = retry]
LEMMA StoringIsAtFiles ==
    ASSUME NEW k \in TaskKinds, NEW ended, NEW then, NEW clock, NEW seg, NEW retry, NEW m,
           StoresAs(m, k, ended, then, clock, seg, retry)
    PROVE  m.aborted = k.aborted
  BY DEF StoresAs, Storing, TaskKinds

\* One that stores because it was stopped is at its files.
StoresStopped(m, k, ended, then, clock, seg) ==
    m = [Storing(k, ended, then, clock) EXCEPT !.seg = seg, !.aborted = TRUE]
LEMMA StoppedIsAtFiles ==
    ASSUME NEW k \in TaskKinds, NEW ended, NEW then, NEW clock, NEW seg, NEW m,
           StoresStopped(m, k, ended, then, clock, seg)
    PROVE  m.aborted /\ AtFiles(m)
  BY DEF StoresStopped, Storing, TaskKinds, AtFiles

\* A task that waits is not aborted.
LEMMA IdleIsNotAborted ==
    ASSUME NEW k
    PROVE  ~Idle(k).aborted /\ ~NoTask.aborted /\ NoTask.at = "none"
  BY DEF Idle, NoTask

\* What becomes of the task that makes a step.
LEMMA TaskGoesOn ==
    ASSUME RingKinds, RingBounds, NEW t \in Tasks, TaskStep(t)
    PROVE  \E k : /\ task' = [task EXCEPT ![t] = k] /\ task[t].at # "none"
                  /\ \/ k.at = "none" /\ ~k.aborted
                     \/ (k.aborted <=> task[t].aborted) /\ (k.aborted => AtFiles(k) \/ Prunes(k))
<1> DEFINE j == task[t]
           Moves(k) == /\ task' = [task EXCEPT ![t] = k] /\ j.at # "none"
                      /\ \/ k.at = "none" /\ ~k.aborted
                         \/ (k.aborted <=> j.aborted) /\ (k.aborted => AtFiles(k) \/ Prunes(k))
<1>0. j \in TaskKinds /\ (j.aborted => AtFiles(j) \/ Prunes(j)) /\ j.aborted \in BOOLEAN
  BY DEF RingKinds, TaskIsSound, TaskKinds, RingBounds, AbortedAtFiles
<1>1. SUFFICES \E k : Moves(k)
  OBVIOUS
<1>2. CASE Open(t) \/ OpenFails(t) \/ Reopen(t)
  <2>1. j.at \in {"opening", "waiting"} /\ ~j.aborted
    BY <1>0, <1>2 DEF Open, OpenFails, Reopen, AtFiles, Prunes
  <2>2. CASE Open(t)
    <3> DEFINE m == [j EXCEPT !.at = "recording", !.opened = now']
    <3>1. task' = [task EXCEPT ![t] = m] /\ m.aborted = j.aborted
      BY <1>0, <2>2 DEF Open, TaskKinds
    <3> QED
      BY <2>1, <3>1
  <2>3. CASE OpenFails(t)
    <3> DEFINE m == [j EXCEPT !.at = "waiting"]
    <3>1. task' = [task EXCEPT ![t] = m] /\ m.aborted = j.aborted
      BY <1>0, <2>3 DEF OpenFails, TaskKinds
    <3> QED
      BY <2>1, <3>1
  <2>4. CASE Reopen(t)
    <3> DEFINE m == [j EXCEPT !.at = "opening"]
    <3>1. task' = [task EXCEPT ![t] = m] /\ m.aborted = j.aborted
      BY <1>0, <2>4 DEF Reopen, TaskKinds
    <3> QED
      BY <2>1, <3>1
  <2> QED
    BY <1>2, <2>2, <2>3, <2>4
<1>3. CASE \E key \in BOOLEAN, cfg \in Configs : Frame(t, key, cfg)
  <2>1. PICK key \in BOOLEAN, cfg \in Configs : Frame(t, key, cfg)
    BY <1>3
  <2>2. j.at = "recording" /\ ~j.aborted
    BY <2>1 DEF Frame
  <2> DEFINE f == [ts |-> now + 1 - j.opened, rate |-> 1, key |-> key,
                   fresh |-> key /\ j.seg.entry \notin {None, cfg}, cfg |-> cfg]
             p == [cfg |-> cfg, frame |-> None, sound |-> TRUE]
             r == Push(j.seg, f, p)
             one == [j EXCEPT !.seg = r.s]
             two == [Storing(j, r.segment, "recording", now' - skew) EXCEPT !.seg = r.s]
             three == [Storing(j, Flush(j.seg).segment, "recording", now' - skew) EXCEPT
                          !.seg = Flush(j.seg).s, !.retry = [f |-> f, p |-> p]]
             m == CASE r.kind = "nothing" -> one [] r.kind = "segment" -> two
                    [] r.kind = "changed" -> three [] OTHER -> Idle(j)
  <2>3. task' = [task EXCEPT ![t] = m]
    BY <2>1 DEF Frame
  <2>4. ~one.aborted /\ ~two.aborted /\ ~three.aborted /\ ~Idle(j).aborted
    <3>1. ~one.aborted
      BY <1>0, <2>2 DEF TaskKinds
    <3>2. two.aborted = j.aborted
      <4>1. PICK x : x = two
        OBVIOUS
      <4>2. StoresAs(x, j, r.segment, "recording", now' - skew, r.s, None)
        BY <4>1 DEF StoresAs
      <4> HIDE DEF two, r, f, p
      <4>3. x.aborted = j.aborted
        BY ONLY <1>0, <4>2, StoringIsAtFiles
      <4> QED
        BY <4>1, <4>3
    <3>3. three.aborted = j.aborted
      <4>1. PICK x : x = three
        OBVIOUS
      <4> DEFINE fp == [f |-> f, p |-> p]
      <4>2. StoresAs(x, j, Flush(j.seg).segment, "recording", now' - skew, Flush(j.seg).s, fp)
        BY <4>1 DEF StoresAs
      <4> HIDE DEF three, r, f, p, fp
      <4>3. x.aborted = j.aborted
        BY ONLY <1>0, <4>2, StoringIsAtFiles
      <4> QED
        BY <4>1, <4>3
    <3> HIDE DEF one, two, three
    <3> QED
      BY <2>2, <3>1, <3>2, <3>3, IdleIsNotAborted
  <2>5. m \in {one, two, three, Idle(j)}
    OBVIOUS
  <2> HIDE DEF one, two, three, m
  <2>6. ~m.aborted
    BY <2>4, <2>5
  <2>7. Moves(m)
    <3>1. m.aborted <=> j.aborted
      BY <2>2, <2>6
    <3>2. j.at # "none"
      BY <2>2
    <3> QED
      BY <2>3, <2>6, <3>1, <3>2
  <2> HIDE DEF Moves
  <2> QED
    BY <2>7
<1>4. CASE StreamEnds(t) \/ ReadFails(t)
  <2>1. j.at = "recording" /\ ~j.aborted
    BY <1>0, <1>4 DEF StreamEnds, ReadFails, EndOfStream, AtFiles, Prunes
  <2>2. PICK m : task' = [task EXCEPT ![t] = m] /\ ~m.aborted
    <3> DEFINE two == [Storing(j, Flush(j.seg).segment, "waiting", now - skew) EXCEPT !.seg = Flush(j.seg).s]
    <3>1. ~two.aborted /\ ~Idle(j).aborted
      <4>1. PICK x : x = two
        OBVIOUS
      <4>2. StoresAs(x, j, Flush(j.seg).segment, "waiting", now - skew, Flush(j.seg).s, None)
        BY <4>1 DEF StoresAs
      <4> HIDE DEF two
      <4>3. x.aborted = j.aborted
        BY ONLY <1>0, <4>2, StoringIsAtFiles
      <4> QED
        BY <2>1, <4>1, <4>3, IdleIsNotAborted
    <3>2. CASE StreamEnds(t)
      <4>1. task' = [task EXCEPT ![t] = IF Flush(j.seg).kind = "segment" THEN two ELSE Idle(j)]
        BY <3>2 DEF StreamEnds, EndOfStream
      <4> HIDE DEF two
      <4> QED
        BY <3>1, <4>1
    <3>3. CASE ReadFails(t)
      BY <3>1, <3>3 DEF ReadFails
    <3> QED
      BY <1>4, <3>2, <3>3
  <2>3. Moves(m)
    BY <1>0, <2>1, <2>2
  <2> HIDE DEF Moves
  <2> QED
    BY <2>3
<1>5. CASE WriteMp4(t) \/ WriteJson(t) \/ WriteSegment(t) \/ WriteFails(t)
  <2>1. CASE WriteMp4(t)
    <3> DEFINE m == [j EXCEPT !.at = "json"]
    <3>1. task' = [task EXCEPT ![t] = m] /\ m.aborted = j.aborted /\ AtFiles(m) /\ j.at # "none"
      BY <1>0, <2>1 DEF WriteMp4, TaskKinds, AtFiles
    <3> QED
      BY <3>1
  <2>2. CASE WriteJson(t)
    <3> DEFINE m == [j EXCEPT !.at = "segment", !.init = j.seg.entry]
    <3>1. task' = [task EXCEPT ![t] = m] /\ m.aborted = j.aborted /\ AtFiles(m) /\ j.at # "none"
      BY <1>0, <2>2 DEF WriteJson, TaskKinds, AtFiles
    <3> QED
      BY <3>1
  <2>3. CASE WriteSegment(t)
    <3> DEFINE m == [j EXCEPT !.at = "list", !.closed = None,
                              !.seg = IF j.retry = None THEN j.seg ELSE Push(NewSegmenter, j.retry.f, j.retry.p).s,
                              !.init = IF j.retry = None THEN j.init ELSE None, !.retry = None]
    <3>1. task' = [task EXCEPT ![t] = m] /\ j.at # "none"
      BY <2>3 DEF WriteSegment
    <3>2. m.aborted = j.aborted /\ Prunes(m)
      BY <1>0 DEF TaskKinds, Prunes
    <3> QED
      BY <3>1, <3>2
  <2>4. CASE WriteFails(t)
    <3>1. task' = [task EXCEPT ![t] = IF j.aborted THEN NoTask ELSE Idle(j)] /\ j.at # "none"
      BY <2>4 DEF WriteFails
    <3> DEFINE m == IF j.aborted THEN NoTask ELSE Idle(j)
    <3>2. Moves(m)
      BY <1>0, <3>1, IdleIsNotAborted
    <3> HIDE DEF Moves, m
    <3> QED
      BY <3>2
  <2> QED
    BY <1>5, <2>1, <2>2, <2>3, <2>4
<1>6. CASE List(t) \/ Evict(t) \/ ListLive(t) \/ ListInits(t) \/ RemoveInit(t)
  <2> DEFINE q == Sorted(disk.segs)
             oldest == Head(j.listed)
             one == [j EXCEPT !.at = "evict", !.listed = q, !.total = Size(disk.segs)]
             two == [j EXCEPT !.listed = Tail(j.listed),
                              !.total = IF \E x \in disk.segs : Name(x) = Name(oldest)
                                        THEN j.total - Len(oldest.frames) ELSE j.total]
             three == [j EXCEPT !.at = "inits", !.listed = <<>>, !.total = 0, !.live = {x.init : x \in disk.segs}]
             four == [j EXCEPT !.at = "doomed", !.doomed = disk.mp4 \ j.live]
             five(i) == [j EXCEPT !.doomed = j.doomed \ {i}]
  <2>2. CASE List(t)
    <3>1. task' = [task EXCEPT ![t] = one] /\ j.at # "none"
      BY <2>2 DEF List
    <3>2. one.aborted = j.aborted /\ Prunes(one)
      BY <1>0 DEF TaskKinds, Prunes
    <3> QED
      BY <3>1, <3>2
  <2>3. CASE Evict(t)
    <3>1. task' = [task EXCEPT ![t] = two] /\ j.at = "evict"
      BY <2>3 DEF Evict
    <3>2. two.aborted = j.aborted /\ Prunes(two)
      BY <1>0, <3>1 DEF TaskKinds, Prunes
    <3> QED
      BY <3>1, <3>2
  <2>4. CASE ListLive(t)
    <3>1. task' = [task EXCEPT ![t] = three] /\ j.at # "none"
      BY <2>4 DEF ListLive
    <3>2. three.aborted = j.aborted /\ Prunes(three)
      BY <1>0 DEF TaskKinds, Prunes
    <3> QED
      BY <3>1, <3>2
  <2>5. CASE ListInits(t)
    <3>1. task' = [task EXCEPT ![t] = four] /\ j.at # "none"
      BY <2>5 DEF ListInits
    <3>2. four.aborted = j.aborted /\ Prunes(four)
      BY <1>0 DEF TaskKinds, Prunes
    <3> QED
      BY <3>1, <3>2
  <2>6. CASE RemoveInit(t)
    <3>1. PICK i : task' = [task EXCEPT ![t] = five(i)] /\ j.at = "doomed"
      BY <2>6 DEF RemoveInit
    <3>2. five(i).aborted = j.aborted /\ Prunes(five(i))
      BY <1>0, <3>1 DEF TaskKinds, Prunes
    <3> QED
      BY <3>1, <3>2
  <2> QED
    BY <1>6, <2>2, <2>3, <2>4, <2>5, <2>6
<1>7. CASE Settle(t)
  <2> DEFINE on == [j EXCEPT !.at = "recording", !.then = "none", !.live = {}]
  <2>1. /\ task' = [task EXCEPT ![t] = IF j.aborted THEN NoTask ELSE IF j.then = "waiting" THEN Idle(j) ELSE on]
        /\ j.at # "none"
    BY <1>7 DEF Settle
  <2>2. on.aborted = j.aborted
    BY <1>0 DEF TaskKinds
  <2> DEFINE m == IF j.aborted THEN NoTask ELSE IF j.then = "waiting" THEN Idle(j) ELSE on
  <2> HIDE DEF on
  <2>3. m.aborted = FALSE /\ (j.aborted => m.at = "none")
    BY <1>0, <2>2, IdleIsNotAborted
  <2>4. Moves(m)
    <3> HIDE DEF m
    <3> QED
      BY <1>0, <2>1, <2>3 DEF m
  <2> HIDE DEF Moves, m
  <2> QED
    BY <2>4
<1> QED
  BY <1>2, <1>3, <1>4, <1>5, <1>6, <1>7 DEF TaskStep

\* A task that is stopped is gone, or aborted at its files.
LEMMA StoppedIs ==
    ASSUME NEW k \in TaskKinds, k.at # "none", NEW m \in Stopped(k)
    PROVE  (m.at = "none" /\ ~m.aborted) \/ (m.aborted /\ (AtFiles(m) \/ Prunes(m)))
<1>1. CASE InSync(k)
  <2>1. m = [k EXCEPT !.aborted = TRUE] /\ k.at \notin {"opening", "recording", "waiting"}
    BY <1>1 DEF Stopped, InSync
  <2>2. m.aborted /\ m.at = k.at
    BY <2>1 DEF TaskKinds
  <2> QED
    BY <2>1, <2>2 DEF TaskKinds, AtFiles, Prunes
<1>2. CASE ~InSync(k)
  <2> DEFINE filed == [Storing(k, Flush(k.seg).segment, "waiting", now - skew) EXCEPT
                          !.seg = Flush(k.seg).s, !.aborted = TRUE]
  <2>1. m = NoTask \/ m = filed
    BY <1>2 DEF Stopped
  <2>2. CASE m = filed
    <3>1. StoresStopped(m, k, Flush(k.seg).segment, "waiting", now - skew, Flush(k.seg).s)
      BY <2>2 DEF StoresStopped
    <3> HIDE DEF filed
    <3> QED
      BY <3>1, StoppedIsAtFiles
  <2> QED
    BY <2>1, <2>2, IdleIsNotAborted
<1> QED
  BY <1>1, <1>2

\* Reconciling leaves one task at most that records for itself.
LEMMA ReconcileLeavesOne ==
    ASSUME RingKinds, RingBounds, NEW wanted, Reconcile(wanted)
    PROVE  AbortedAtFiles' /\ OneRuns'
<1> DEFINE kept == {t \in Running : task[t].source = wanted}
<1>1. PICK stopped \in [Running \ kept -> UNION {Stopped(task[t]) : t \in Running}] :
          LET left == [t \in Tasks |-> IF t \in DOMAIN stopped THEN stopped[t] ELSE task[t]]
              free == {t \in Tasks : left[t].at = "none"}
          IN  /\ \A t \in DOMAIN stopped : stopped[t] \in Stopped(task[t])
              /\ IF kept # {} \/ wanted = None
                 THEN task' = left
                 ELSE \E t \in free :
                      task' = [left EXCEPT ![t] = [NoTask EXCEPT !.at = "opening", !.source = wanted]]
  BY DEF Reconcile
<1> DEFINE left == [t \in Tasks |-> IF t \in DOMAIN stopped THEN stopped[t] ELSE task[t]]
           AsItMay(k) == (k.aborted => AtFiles(k) \/ Prunes(k))
           Recording(k) == k.at # "none" /\ ~k.aborted
<1>2. DOMAIN stopped = Running \ kept /\ DOMAIN left = Tasks
  OBVIOUS
<1>3. \A t \in Tasks : AsItMay(left[t]) /\ (Recording(left[t]) => t \in kept)
  <2> SUFFICES ASSUME NEW t \in Tasks PROVE AsItMay(left[t]) /\ (Recording(left[t]) => t \in kept)
    OBVIOUS
  <2>1. CASE t \in Running \ kept
    <3>1. left[t] \in Stopped(task[t]) /\ task[t] \in TaskKinds /\ task[t].at # "none"
      BY <1>1, <1>2, <2>1 DEF Running, Alive, RingKinds, TaskIsSound
    <3>2. \/ left[t].at = "none" /\ ~left[t].aborted
          \/ left[t].aborted /\ (AtFiles(left[t]) \/ Prunes(left[t]))
      <4> HIDE DEF left
      <4> QED
        BY <3>1, StoppedIs
    <3> HIDE DEF left
    <3> QED
      BY <3>2
  <2>2. CASE t \notin Running \ kept
    <3>1. left[t] = task[t]
      BY <1>2, <2>2
    <3>2. AsItMay(task[t])
      BY DEF RingBounds, AbortedAtFiles
    <3>3. Recording(task[t]) => t \in Running
      BY DEF Running, Alive
    <3> HIDE DEF left
    <3> QED
      BY <2>2, <3>1, <3>2, <3>3
  <2> QED
    BY <2>1, <2>2
<1>4. \A t, u \in kept : t = u
  BY DEF RingBounds, OneRuns
<1>5. CASE task' = left
  <2> HIDE DEF left
  <2>1. \A t \in Tasks : AsItMay(task'[t])
    BY <1>3, <1>5
  <2>2. Running' \subseteq kept
    BY <1>3, <1>5 DEF Running, Alive
  <2> HIDE DEF kept
  <2> QED
    BY <1>4, <2>1, <2>2 DEF AbortedAtFiles, OneRuns
<1>6. CASE kept = {} /\ \E t \in Tasks :
            task' = [left EXCEPT ![t] = [NoTask EXCEPT !.at = "opening", !.source = wanted]]
  <2>1. PICK t \in Tasks : task' = [left EXCEPT ![t] = [NoTask EXCEPT !.at = "opening", !.source = wanted]]
    BY <1>6
  <2> DEFINE new == [NoTask EXCEPT !.at = "opening", !.source = wanted]
  <2>2. ~new.aborted
    BY DEF NoTask
  <2> HIDE DEF left, new
  <2>3. task'[t] = new /\ \A u \in Tasks : u # t => task'[u] = left[u]
    BY <1>2, <2>1 DEF new
  <2>4. \A u \in Tasks : AsItMay(task'[u])
    BY <1>3, <2>2, <2>3
  <2>5. \A u \in Tasks : u # t => ~Recording(task'[u])
    BY <1>3, <1>6, <2>3
  <2>6. Running' \subseteq {t}
    BY <2>5 DEF Running, Alive
  <2> QED
    BY <2>4, <2>6 DEF AbortedAtFiles, OneRuns
<1> QED
  <2>1. IF kept # {} \/ wanted = None THEN task' = left
        ELSE \E t \in Tasks : task' = [left EXCEPT ![t] = [NoTask EXCEPT !.at = "opening", !.source = wanted]]
    BY <1>1
  <2> HIDE DEF left
  <2> QED
    BY <1>5, <1>6, <2>1

\* Every step of a ring keeps its bounds.
LEMMA RingBoundsStep ==
    ASSUME RingKinds, RingBounds, [RingNext]_ringVars
    PROVE  RingBounds'
<1> DEFINE Counts == now' \in 0 .. MaxNow /\ skew' \in 0 .. MaxSkew /\ faults' \in 0 .. MaxFaults
<1> SUFFICES Counts /\ (AbortedAtFiles' /\ OneRuns')
  BY DEF RingBounds
<1>0. /\ now \in 0 .. MaxNow /\ skew \in 0 .. MaxSkew /\ faults \in 0 .. MaxFaults
      /\ MaxNow \in Nat /\ MaxSkew \in Nat /\ MaxFaults \in Nat
  BY RingAssumption DEF RingBounds
<1>1. task' = task => (AbortedAtFiles' /\ OneRuns')
  <2> SUFFICES ASSUME task' = task PROVE (AbortedAtFiles' /\ OneRuns')
    OBVIOUS
  <2>1. Running' = Running
    BY DEF Running, Alive
  <2> QED
    BY <2>1 DEF RingBounds, AbortedAtFiles, OneRuns
<1>2. ASSUME NEW t \in Tasks, TaskStep(t) PROVE Counts /\ (AbortedAtFiles' /\ OneRuns')
  <2>1. (AbortedAtFiles' /\ OneRuns')
    <3>1. PICK k : /\ task' = [task EXCEPT ![t] = k] /\ task[t].at # "none"
                   /\ \/ k.at = "none" /\ ~k.aborted
                      \/ (k.aborted <=> task[t].aborted) /\ (k.aborted => AtFiles(k) \/ Prunes(k))
      BY <1>2, TaskGoesOn
    <3> QED
      BY <3>1, OneTaskOn
  <2>2. Counts
    <3>1. \/ now' = now
          \/ now < MaxNow /\ now' = now + 1
      BY <1>2, ZenonT(40) DEF TaskStep, Open, OpenFails, Reopen, Frame, StreamEnds, ReadFails, EndOfStream, WriteMp4, WriteJson,
         WriteSegment, WriteFails, List, Evict, ListLive, ListInits, RemoveInit, Settle
    <3>2. skew' = skew
      BY <1>2, ZenonT(40) DEF TaskStep, Open, OpenFails, Reopen, Frame, StreamEnds, ReadFails, EndOfStream, WriteMp4, WriteJson,
         WriteSegment, WriteFails, List, Evict, ListLive, ListInits, RemoveInit, Settle
    <3>3. faults' = faults \/ Fault
      BY <1>2, ZenonT(40) DEF TaskStep, Open, OpenFails, Reopen, Frame, StreamEnds, ReadFails, EndOfStream, WriteMp4, WriteJson,
         WriteSegment, WriteFails, List, Evict, ListLive, ListInits, RemoveInit, Settle
    <3> QED
      BY ONLY <1>0, <3>1, <3>2, <3>3 DEF Fault
  <2> QED
    BY <2>1, <2>2
<1>3. ASSUME NEW wanted, Reconcile(wanted) PROVE Counts /\ (AbortedAtFiles' /\ OneRuns')
  <2>1. (AbortedAtFiles' /\ OneRuns')
    BY <1>3, ReconcileLeavesOne
  <2>2. now' = now /\ skew' = skew /\ (faults' = faults \/ Fault)
    BY <1>3 DEF Reconcile
  <2> QED
    BY <1>0, <2>1, <2>2 DEF Fault
<1>4. CASE Crash
  <2>1. \A t \in Tasks : task'[t] = NoTask
    BY <1>4 DEF Crash
  <2>2. Running' = {}
    BY <2>1, IdleIsNotAborted DEF Running, Alive
  <2>3. Counts
    BY <1>0, <1>4 DEF Crash, Fault
  <2>4. (AbortedAtFiles' /\ OneRuns')
    BY <2>1, <2>2, IdleIsNotAborted DEF AbortedAtFiles, OneRuns
  <2> QED
    BY <2>3, <2>4
<1>5. CASE Unseen
  BY <1>0, <1>1, <1>5 DEF Unseen
<1>6. CASE ClockSetBack
  <2>1. Counts /\ task' = task
    BY <1>0, <1>6 DEF ClockSetBack, Fault
  <2> QED
    BY <1>1, <2>1
<1>7. CASE ClipStep
  BY <1>0, <1>1, <1>7 DEF ClipStep, Ask, ReadSegment, ReadDescription, ReadInit
<1>8. CASE UNCHANGED ringVars
  BY <1>0, <1>1, <1>8 DEF ringVars
<1> QED
  BY <1>2, <1>3, <1>4, <1>5, <1>6, <1>7, <1>8 DEF RingNext

\* What the two invariants of a ring say of its types.
LEMMA RingIsTyped == RingKinds /\ RingBounds => RingTypeOK
<1> SUFFICES ASSUME RingKinds, RingBounds PROVE RingTypeOK
  OBVIOUS
<1>1. \A x \in disk.segs : x.duration \in Nat /\ x.init \in Configs
  BY DEF RingKinds, StoredSegments
<1>2. disk.mp4 \subseteq Configs /\ disk.json \subseteq Configs
  BY DEF RingKinds
<1>3. Cardinality(Running) <= 1
  <2>1. CASE Running = {}
    BY <2>1, FS_EmptySet
  <2>2. CASE Running # {}
    <3>1. PICK t \in Running : TRUE
      BY <2>2
    <3>2. Running = {t}
      BY <3>1 DEF RingBounds, OneRuns
    <3>3. Cardinality(Running) = 1
      BY <3>2, FS_Singleton
    <3> QED
      BY <3>3
  <2> QED
    BY <2>1, <2>2
<1> QED
  BY <1>1, <1>2, <1>3 DEF RingBounds, RingTypeOK

\* The keys are of those there are, and a reader's queue is inside its capacity.
Waits(q) == \E S : q \in Seq(S) /\ Len(q) <= Capacity
PushBounds == allowed \subseteq Keys /\ Waits(reader.queue)

\* An empty queue is one; so is one that has lost its first, and one that is added to.
LEMMA NothingWaits == Waits(<<>>) /\ Waits(NoReader.queue)
<1>1. <<>> \in Seq({}) /\ Len(<<>>) <= Capacity
  BY PushAssumption
<1>2. NoReader.queue = <<>>
  BY DEF NoReader
<1> QED
  BY <1>1, <1>2 DEF Waits

\* What is left of a queue that lost its first is inside the capacity,
LEMMA LessWaits ==
    ASSUME NEW q, Waits(q), q # <<>>
    PROVE  Waits(Tail(q))
<1>1. PICK S : q \in Seq(S) /\ Len(q) <= Capacity
  BY DEF Waits
<1>2. Tail(q) \in Seq(S) /\ Len(Tail(q)) = Len(q) - 1 /\ Len(q) \in Nat
  BY <1>1
<1>3. Len(Tail(q)) <= Capacity
  BY <1>1, <1>2, PushAssumption
<1> QED
  BY <1>2, <1>3 DEF Waits

\* what push makes of one is too,
LEMMA MoreWaits ==
    ASSUME NEW q, Waits(q), NEW f
    PROVE  /\ Len(q) < Capacity => Waits(Append(q, f))
           /\ ~(Len(q) < Capacity) => Waits(Append(Tail(q), f))
<1>1. PICK S : q \in Seq(S) /\ Len(q) <= Capacity
  BY DEF Waits
<1> DEFINE T == S \cup {f}
<1>2. q \in Seq(T) /\ f \in T /\ Len(q) \in Nat /\ Capacity \in Nat \ {0}
  <2>1. S \subseteq T
    OBVIOUS
  <2> QED
    BY <1>1, PushAssumption
<1> HIDE DEF T
<1>3. CASE Len(q) < Capacity
  <2>1. Append(q, f) \in Seq(T) /\ Len(Append(q, f)) <= Capacity
    BY <1>2, <1>3
  <2> QED
    BY <1>3, <2>1 DEF Waits
<1>4. CASE ~(Len(q) < Capacity)
  <2>1. q # <<>>
    BY <1>2, <1>4
  <2>2. Tail(q) \in Seq(T) /\ Len(Tail(q)) = Len(q) - 1
    BY <1>2, <2>1
  <2>3. Append(Tail(q), f) \in Seq(T) /\ Len(Append(Tail(q), f)) <= Capacity
    BY <1>1, <1>2, <2>2
  <2> QED
    BY <1>4, <2>3 DEF Waits
<1> QED
  BY <1>3, <1>4

\* A frame that is taken leaves what is behind it.
LEMMA TookWaits ==
    ASSUME NEW r, IsReader(r), NEW f, Waits(r.queue)
    PROVE  Waits(Took(r, f).queue)
<1> DEFINE p == Parameters(r.stream)
           one == Push(r.seg, f, p)
           again == Push(NewSegmenter, f, p)
           before == Flush(r.seg)
           kept == IF before.kind = "segment" THEN Kept(r, before.segment, r.seg.entry) ELSE r
           first1 == [r EXCEPT !.seg = one.s]
           second1 == [Kept(r, one.segment, one.s.entry) EXCEPT !.seg = one.s]
           third == [kept EXCEPT !.seg = again.s, !.init = None]
<1>1. \/ Took(r, f) = first1 \/ Took(r, f) = second1 \/ Took(r, f) = NoReader \/ Took(r, f) = third
      \/ one.kind \notin {"nothing", "segment", "error", "changed"}
  BY DEF Took
<1>2. one.kind \in {"nothing", "segment", "error", "changed"}
  BY DEF Push, Pushed
<1>3. \A x, y : Kept(r, x, y).queue = r.queue /\ DOMAIN Kept(r, x, y) = DOMAIN r
  BY DEF Kept, IsReader
<1>4. first1.queue = r.queue
  BY DEF IsReader
<1>5. second1.queue = r.queue
  BY <1>3 DEF IsReader
<1>6. third.queue = r.queue
  <2>1. kept.queue = r.queue /\ DOMAIN kept = DOMAIN r
    BY <1>3
  <2> HIDE DEF kept
  <2> QED
    BY <2>1 DEF IsReader
<1> HIDE DEF first1, second1, third, one
<1> QED
  BY <1>1, <1>2, <1>4, <1>5, <1>6, NothingWaits

\* Every step of the ingest keeps that.
LEMMA PushBoundsStep ==
    ASSUME PushKinds, PushBounds, [PushNext]_pushVars
    PROVE  PushBounds'
<1> SUFFICES allowed' \subseteq Keys /\ Waits(reader'.queue)
  BY DEF PushBounds, Waits
<1>0. allowed \subseteq Keys /\ Waits(reader.queue) /\ IsReader(reader)
  BY DEF PushBounds, PushKinds
<1>1. ASSUME NEW k, NEW f, Publish(k, f) PROVE Waits(reader'.queue)
  <2> DEFINE one == [reader EXCEPT !.queue = Append(reader.queue, f)]
             two == [reader EXCEPT !.queue = Append(Tail(reader.queue), f), !.lagged = TRUE]
  <2>1. \/ reader' = reader
        \/ Len(reader.queue) < Capacity /\ reader' = one
        \/ ~(Len(reader.queue) < Capacity) /\ reader' = two
    BY <1>1 DEF Publish
  <2>2. one.queue = Append(reader.queue, f) /\ two.queue = Append(Tail(reader.queue), f)
    BY <1>0 DEF IsReader
  <2> HIDE DEF one, two
  <2> QED
    BY <1>0, <2>1, <2>2, MoreWaits
<1>2. ASSUME NEW keys \in SUBSET Keys, Allow(keys) PROVE allowed' \subseteq Keys /\ reader' = reader
  BY <1>2 DEF Allow
<1>3. ASSUME NEW c \in Conns, Publisher(c) PROVE allowed' = allowed /\ Waits(reader'.queue)
  <2>1. CASE \E key \in BOOLEAN : RtmpFrame(c, key) \/ SrtFrame(c, key)
    <3>1. allowed' = allowed /\ \E k, f : Publish(k, f)
      BY <2>1 DEF RtmpFrame, SrtFrame
    <3> QED
      BY <1>1, <3>1, SMTT(30)
  <2>2. CASE \/ \E k \in Keys : RtmpPublish(c, k) \/ SrtAdmit(c, k)
             \/ RtmpMetadata(c) \/ RtmpParameters(c) \/ SrtOpen(c) \/ SrtNeverConnects(c)
             \/ \E cfg \in PushedConfigs : Reconfigure(c, cfg)
             \/ Leaves(c)
    <3>1. allowed' = allowed /\ reader' = reader
      BY <2>2 DEF RtmpPublish, SrtAdmit, RtmpMetadata, RtmpParameters, SrtOpen, SrtNeverConnects, Reconfigure, Leaves
    <3> QED
      BY <1>0, <3>1
  <2> QED
    BY <1>3, <2>1, <2>2 DEF Publisher
<1>4. CASE NextFrame
  <2> DEFINE r == [reader EXCEPT !.queue = Tail(reader.queue), !.lagged = FALSE]
  <2>1. reader.queue # <<>> /\ reader' = Took(r, Head(reader.queue)) /\ allowed' = allowed
    BY <1>4 DEF NextFrame
  <2>2. r.queue = Tail(reader.queue) /\ IsReader(r)
    BY <1>0 DEF IsReader
  <2> HIDE DEF r
  <2>3. Waits(r.queue)
    BY <1>0, <2>1, <2>2, LessWaits
  <2>4. Waits(Took(r, Head(reader.queue)).queue)
    BY <2>2, <2>3, TookWaits
  <2> QED
    BY <1>0, <2>1, <2>4
<1>5. CASE SourceEnds
  <2> DEFINE ended == [NoReader EXCEPT !.key = reader.key,
                          !.kept = Kept(reader, Flush(reader.seg).segment, reader.seg.entry).kept]
  <2>1. allowed' = allowed /\ (reader' = NoReader \/ reader' = ended)
    BY <1>5 DEF SourceEnds
  <2>2. ended.queue = NoReader.queue
    BY DEF NoReader
  <2> HIDE DEF ended
  <2> QED
    BY <1>0, <2>1, <2>2, NothingWaits
<1>6. ASSUME NEW k \in Keys, Subscribe(k) PROVE allowed' = allowed /\ Waits(reader'.queue)
  <2> DEFINE new == [NoReader EXCEPT !.at = "reading", !.key = k, !.stream = streams[k]]
  <2>1. allowed' = allowed /\ reader' = new
    BY <1>6 DEF Subscribe
  <2>2. new.queue = NoReader.queue
    BY DEF NoReader
  <2> HIDE DEF new
  <2> QED
    BY <2>1, <2>2, NothingWaits
<1>7. CASE UNCHANGED pushVars
  BY <1>0, <1>7 DEF pushVars
<1>8. CASE PushNext
  BY <1>0, <1>2, <1>3, <1>4, <1>5, <1>6, <1>8 DEF PushNext, Consumer
<1> QED
  BY <1>7, <1>8

\* Whose types the ingest's variables have.
LEMMA PushIsTyped == PushInv /\ PushBounds => PushTypeOK
<1> SUFFICES ASSUME PushInv, PushBounds PROVE PushTypeOK
  OBVIOUS
<1>1. \A k \in Keys : streams[k] = None \/ streams[k] \in 1 .. Len(state)
  <2>1. state \in Seq(StreamStates) /\ \A k \in Keys : streams[k] # None => streams[k] \in DOMAIN state
    BY DEF PushInv, PushKinds, StreamsLinked
  <2>2. DOMAIN state = 1 .. Len(state)
    <3> HIDE DEF StreamStates
    <3> QED
      BY <2>1
  <2> QED
    BY <2>1, <2>2
<1>2. \A c \in Conns : conn[c].at \in {"none", "accepting", "publishing"}
  BY DEF PushInv, PushKinds, Connections
<1> QED
  BY <1>1, <1>2 DEF PushBounds, Waits, PushTypeOK

\* The bridge's session begins with its peer, and a full queue takes no more.
BridgeBounds ==
    /\ Len(queue) <= QueueSize /\ peer \in {"nobody", "webrtc", "stranger"}
    /\ peer = "nobody" <=> session = "none"

\* Every step of the bridge keeps that.
LEMMA BridgeBoundsStep ==
    ASSUME BridgeInv, BridgeBounds, [BridgeNext]_bridgeVars
    PROVE  BridgeBounds'
<1>0. queue \in Seq(Nat) /\ Len(queue) \in Nat /\ QueueSize \in Nat
  BY BridgeAssumption DEF BridgeInv, UpInv, UpKinds
<1>1. ASSUME queue # <<>> PROVE Len(Tail(queue)) <= QueueSize
  BY <1>0, <1>1 DEF BridgeBounds
<1>2. ASSUME NEW from \in {"webrtc", "stranger"}, NEW request \in BOOLEAN, Datagram(from, request) PROVE BridgeBounds'
  <2>1. Len(queue') <= QueueSize
    <3>1. queue' = queue \/ (Len(queue) < QueueSize /\ \E n \in Nat : queue' = Append(queue, n))
      <4>1. Len(spoken') \in Nat
        <5>1. spoken \in Seq(Spoken) /\ spoken' = Append(spoken, [from |-> from, request |-> request])
          BY <1>2 DEF Datagram, BridgeInv, UpInv, UpKinds
        <5> HIDE DEF Spoken
        <5>2. Len(spoken') = Len(spoken) + 1
          BY <5>1
        <5> QED
          BY <5>1, <5>2
      <4> QED
        BY <1>2, <4>1 DEF Datagram
    <3> QED
      BY <1>0, <3>1 DEF BridgeBounds
  <2>2. peer' \in {"nobody", "webrtc", "stranger"} /\ (peer' = "nobody" <=> session' = "none")
    BY <1>2 DEF Datagram, BridgeBounds
  <2> QED
    BY <2>1, <2>2 DEF BridgeBounds
<1>3. CASE RelayConnects \/ RelayLost
  BY <1>3 DEF RelayConnects, RelayLost, upVars, BridgeBounds
<1>4. CASE Carries \/ CarryBreaks \/ Refuses
  <2>1. queue # <<>> /\ queue' = Tail(queue) /\ peer' = peer /\ (session' = session \/ (session = "carrying" /\ session' = "failing"))
    BY <1>4 DEF Carries, CarryBreaks, Refuses
  <2> QED
    BY <1>1, <2>1 DEF BridgeBounds
<1>5. ASSUME NEW n \in 1 .. Len(ahead), Reads(n) PROVE BridgeBounds'
  <2>1. queue' = queue /\ peer' = peer /\ session = "carrying" /\ session' \in {session, "failing"}
    BY <1>5 DEF Reads, upVars
  <2> QED
    BY <2>1 DEF BridgeBounds
<1>6. CASE UNCHANGED bridgeVars
  BY <1>6 DEF bridgeVars, BridgeBounds
<1> QED
  BY <1>2, <1>3, <1>4, <1>5, <1>6 DEF BridgeNext
=============================================================================
