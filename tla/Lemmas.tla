------------------------------- MODULE Lemmas -------------------------------
(***************************************************************************)
(* What the proofs share.  First numbers and sequences: induction, the     *)
(* least element of a set, and what FlattenSeq computes.  Induction takes  *)
(* the set of the numbers that have the property: the provers cannot       *)
(* instantiate the library's theorems, which take an operator.  A          *)
(* recursive function is first shown to exist, by induction on its length, *)
(* and then satisfies its own equation.                                    *)
(***************************************************************************)
EXTENDS Wire, SequencesExt, SequenceTheorems, WellFoundedInduction, TLAPS

\* A set of naturals that is not empty has a least element, and Min is it.
LEMMA MinNat ==
    ASSUME NEW S, S \subseteq Nat, S # {}
    PROVE  Min(S) \in S /\ \A y \in S : Min(S) <= y
<1> DEFINE R == {ss \in Nat \X Nat : ss[1] < ss[2]}
<1>1. IsWellFoundedOn(R, Nat)
  BY NatLessThanWellFounded DEF OpToRel
<1> HIDE DEF R
<1>2. PICK x \in S : \A y \in S : <<y, x>> \notin R
  BY <1>1, WFMin, Zenon
<1>3. ASSUME NEW y \in S PROVE x <= y
  <2>1. x \in Nat /\ y \in Nat /\ <<y, x>> \notin R
    BY <1>2
  <2>2. y < x => <<y, x>> \in R
    BY <2>1 DEF R
  <2> QED
    BY <2>1, <2>2
<1>4. \E m \in S : \A y \in S : m <= y
  BY <1>3, Zenon
<1> QED
  BY <1>4, Zenon DEF Min

\* Induction, stated with a set for the property.
LEMMA SetInduction ==
    ASSUME NEW S, 0 \in S, \A n \in Nat : n \in S => n + 1 \in S
    PROVE  Nat \subseteq S
<1> SUFFICES ASSUME Nat \ S # {} PROVE FALSE
  OBVIOUS
<1>1. Min(Nat \ S) \in Nat \ S /\ \A y \in Nat \ S : Min(Nat \ S) <= y
  BY MinNat
<1>2. PICK x \in Nat : x \notin S /\ \A y \in Nat : y \notin S => x <= y
  BY <1>1
<1>3. x # 0 /\ x - 1 \in Nat /\ (x - 1) + 1 = x /\ ~ (x <= x - 1)
  BY <1>2
<1> QED
  BY <1>2, <1>3

-----------------------------------------------------------------------------
(* Sequences of sequences, joined.                                         *)

\* The concatenations of the first sequences of s, as FlattenSeq computes them.
Flatten(s) ==
    LET flatten[i \in 1..Len(s)] == IF i = 1 THEN s[i] ELSE flatten[i-1] \o s[i]
    IN  flatten

\* f is that function up to n.
Flattens(f, s, n) ==
    f = [i \in 1..n |-> IF i = 1 THEN s[i] ELSE f[i-1] \o s[i]]

\* The recursion has a solution at every length.
LEMMA FlattenExists ==
    ASSUME NEW s, NEW n \in Nat
    PROVE  \E f : Flattens(f, s, n)
<1> DEFINE S == {m \in Nat : \E f : Flattens(f, s, m)}
<1>1. 0 \in S
  <2> DEFINE f == [i \in 1..0 |-> s[i]]
  <2>1. Flattens(f, s, 0)
    BY DEF Flattens
  <2> QED
    BY <2>1
<1>2. ASSUME NEW m \in Nat, m \in S PROVE m + 1 \in S
  <2>1. PICK f : Flattens(f, s, m)
    BY <1>2
  <2> DEFINE g == [i \in 1..(m + 1) |->
                     IF i = 1 THEN s[i] ELSE IF i <= m THEN f[i] ELSE f[m] \o s[i]]
             h == [i \in 1..(m + 1) |-> IF i = 1 THEN s[i] ELSE g[i-1] \o s[i]]
  <2>2. \A i \in 1..m : f[i] = IF i = 1 THEN s[i] ELSE f[i-1] \o s[i]
    BY <2>1, Zenon DEF Flattens
  <2>3. \A i \in 1..m : g[i] = f[i]
    BY <2>2
  <2>4. ASSUME NEW i \in 1..(m + 1) PROVE g[i] = h[i]
    <3>1. CASE i = 1
      BY <3>1
    <3>2. CASE i # 1 /\ i <= m
      <4>1. i \in 1..m /\ i - 1 \in 1..m
        BY <3>2
      <4>2. g[i] = f[i] /\ f[i] = f[i-1] \o s[i] /\ g[i-1] = f[i-1]
        BY <2>2, <2>3, <3>2, <4>1, Zenon
      <4>3. h[i] = g[i-1] \o s[i]
        BY <3>2, Zenon
      <4> QED
        BY <4>2, <4>3, Zenon
    <3>3. CASE i # 1 /\ i = m + 1
      <4>1. i - 1 = m /\ m \in 1..m /\ ~ (i <= m)
        BY <3>3
      <4>2. g[i] = f[m] \o s[i]
        BY <3>3, <4>1, Zenon
      <4>3. h[i] = g[m] \o s[i]
        BY <3>3, <4>1, Zenon
      <4> QED
        BY <2>3, <4>1, <4>2, <4>3, Zenon
    <3> QED
      BY <3>1, <3>2, <3>3
  <2>5. g = h
    BY <2>4
  <2>6. Flattens(g, s, m + 1)
    BY <2>5, Zenon DEF Flattens
  <2> QED
    BY <2>6
<1> HIDE DEF S
<1>3. Nat \subseteq S
  BY <1>1, <1>2, SetInduction
<1> QED
  BY <1>3 DEF S

\* So Flatten satisfies its recursion.
LEMMA FlattenDef ==
    ASSUME NEW s, Len(s) \in Nat, NEW i \in 1..Len(s)
    PROVE  Flatten(s)[i] = IF i = 1 THEN s[i] ELSE Flatten(s)[i-1] \o s[i]
<1>1. Flatten(s) = CHOOSE f : Flattens(f, s, Len(s))
  BY DEF Flatten, Flattens
<1>2. Flattens(Flatten(s), s, Len(s))
  BY <1>1, FlattenExists, Zenon
<1> QED
  BY <1>2, Zenon DEF Flattens

\* The first n sequences of s, one after the other.
Joined(s, n) == IF n = 0 THEN << >> ELSE Flatten(s)[n]

\* Joining one more sequence appends it.
LEMMA JoinedStep ==
    ASSUME NEW B, NEW s \in Seq(Seq(B)), NEW n \in 0..(Len(s) - 1)
    PROVE  Joined(s, n + 1) = Joined(s, n) \o s[n + 1]
<1>1. n \in Nat /\ n + 1 \in 1..Len(s) /\ n + 1 # 0 /\ (n + 1) - 1 = n /\ Len(s) \in Nat
  OBVIOUS
<1>2. Joined(s, n + 1) = Flatten(s)[n + 1]
  BY <1>1, Zenon DEF Joined
<1>3. CASE n = 0
  <2>1. Flatten(s)[1] = s[1]
    BY <1>1, <1>3, FlattenDef
  <2>2. s[1] \in Seq(B)
    BY <1>1, <1>3
  <2>3. << >> \o s[1] = s[1]
    BY <2>2, ConcatEmptySeq
  <2> QED
    BY <1>2, <1>3, <2>1, <2>3 DEF Joined
<1>4. CASE n # 0
  <2>1. n + 1 # 1
    BY <1>1, <1>4
  <2>2. Flatten(s)[n + 1] = Flatten(s)[(n + 1) - 1] \o s[n + 1]
    BY <1>1, <2>1, FlattenDef, Zenon
  <2> QED
    BY <1>1, <1>2, <1>4, <2>2, Zenon DEF Joined
<1> QED
  BY <1>3, <1>4

\* What is joined is a sequence of the same elements.
LEMMA JoinedType ==
    ASSUME NEW B, NEW s \in Seq(Seq(B)), NEW n \in 0..Len(s)
    PROVE  Joined(s, n) \in Seq(B)
<1> DEFINE S == {m \in Nat : m <= Len(s) => Joined(s, m) \in Seq(B)}
<1>1. 0 \in S
  BY DEF Joined
<1>2. ASSUME NEW m \in Nat, m \in S PROVE m + 1 \in S
  <2> SUFFICES ASSUME m + 1 <= Len(s) PROVE Joined(s, m + 1) \in Seq(B)
    OBVIOUS
  <2>1. m \in 0..(Len(s) - 1) /\ m + 1 \in 1..Len(s)
    OBVIOUS
  <2>2. Joined(s, m) \in Seq(B) /\ s[m + 1] \in Seq(B)
    BY <1>2, <2>1
  <2>3. Joined(s, m) \o s[m + 1] \in Seq(B)
    BY <2>2, ConcatProperties
  <2> QED
    BY <2>1, <2>3, JoinedStep
<1> HIDE DEF S
<1>3. Nat \subseteq S
  BY <1>1, <1>2, SetInduction
<1> QED
  BY <1>3 DEF S

\* Lengths add up.
LEMMA JoinedLen ==
    ASSUME NEW B, NEW s \in Seq(Seq(B)), NEW n \in 0..(Len(s) - 1)
    PROVE  /\ Len(Joined(s, n)) \in Nat /\ Len(s[n + 1]) \in Nat
           /\ Len(Joined(s, n + 1)) = Len(Joined(s, n)) + Len(s[n + 1])
<1>1. Joined(s, n) \in Seq(B) /\ s[n + 1] \in Seq(B)
  BY JoinedType
<1>2. Len(Joined(s, n) \o s[n + 1]) = Len(Joined(s, n)) + Len(s[n + 1])
  BY <1>1, ConcatProperties
<1>3. Len(Joined(s, n)) \in Nat /\ Len(s[n + 1]) \in Nat
  BY <1>1, LenProperties
<1> QED
  BY <1>2, <1>3, JoinedStep

\* FlattenSeq joins them all.
LEMMA FlattenSeqJoins ==
    ASSUME NEW B, NEW s \in Seq(Seq(B))
    PROVE  FlattenSeq(s) = Joined(s, Len(s))
<1>1. CASE Len(s) = 0
  <2>1. s = << >>
    BY <1>1, EmptySeq
  <2> QED
    BY <1>1, <2>1 DEF FlattenSeq, Joined
<1>2. CASE Len(s) # 0
  <2>1. FlattenSeq(s) = Flatten(s)[Len(s)]
    BY <1>2, Zenon DEF FlattenSeq, Flatten
  <2> QED
    BY <1>2, <2>1, Zenon DEF Joined
<1> QED
  BY <1>1, <1>2

\* What is joined grows with every sequence.
LEMMA JoinedGrows ==
    ASSUME NEW B, NEW s \in Seq(Seq(B)), NEW n \in 0..Len(s), NEW m \in 0..n
    PROVE  Len(Joined(s, m)) <= Len(Joined(s, n))
<1> DEFINE S == {k \in Nat : m + k <= Len(s) => Len(Joined(s, m)) <= Len(Joined(s, m + k))}
<1>1. 0 \in S
  <2>1. m \in 0..Len(s) /\ m + 0 = m
    OBVIOUS
  <2>2. Len(Joined(s, m)) \in Nat
    BY <2>1, JoinedType, LenProperties
  <2> QED
    BY <2>1, <2>2
<1>2. ASSUME NEW k \in Nat, k \in S PROVE k + 1 \in S
  <2> SUFFICES ASSUME m + (k + 1) <= Len(s)
               PROVE  Len(Joined(s, m)) <= Len(Joined(s, m + (k + 1)))
    OBVIOUS
  <2>1. /\ m + k \in 0..(Len(s) - 1) /\ m + k \in 0..Len(s) /\ (m + k) + 1 = m + (k + 1)
        /\ (m + k) + 1 \in 1..Len(s) /\ m \in 0..Len(s)
    OBVIOUS
  <2>2. Len(Joined(s, m)) <= Len(Joined(s, m + k))
    BY <1>2, <2>1
  <2>3. PICK j \in 0..(Len(s) - 1) : j = m + k
    BY <2>1
  <2>4. /\ Len(Joined(s, j)) \in Nat /\ Len(s[j + 1]) \in Nat
        /\ Len(Joined(s, j + 1)) = Len(Joined(s, j)) + Len(s[j + 1])
    BY JoinedLen
  <2>5. Len(Joined(s, m)) \in Nat
    BY <2>1, JoinedType, LenProperties
  <2>6. Len(Joined(s, m)) <= Len(Joined(s, j + 1))
    <3>1. Len(Joined(s, m)) <= Len(Joined(s, j))
      BY <2>2, <2>3, Zenon
    <3> QED
      BY <2>4, <2>5, <3>1
  <2>7. j + 1 = m + (k + 1)
    BY <2>3
  <2> QED
    BY <2>6, <2>7
<1> HIDE DEF S
<1>3. Nat \subseteq S
  BY <1>1, <1>2, SetInduction
<1>4. n - m \in Nat /\ m + (n - m) = n /\ n <= Len(s)
  OBVIOUS
<1>5. n - m \in S
  BY <1>3, <1>4
<1> QED
  BY <1>4, <1>5 DEF S

-----------------------------------------------------------------------------
(* What the operators of ScanReport and Wire compute, for every report:    *)
(* the verdict of an axis, and the decision an answer leads its caller to. *)

\* Some result among the indices I is of that kind.
Has(rs, I, kind) == \E i \in I : rs[i].kind = kind

\* What the verdict of category c must be: the first of the five claims that
\* holds, quoting a result that makes it.
VerdictIs(rs, c, v) ==
    LET I == by_category(rs, c)
        D == deciding(rs, I)
    IN  /\ \/ v.kind = "malware" /\ Has(rs, I, "malware")
           \/ /\ v.kind = "flagged" /\ Has(rs, I, "flagged") /\ ~ Has(rs, I, "malware")
           \/ /\ v.kind = "error" /\ Has(rs, D, "error")
              /\ ~ Has(rs, I, "malware") /\ ~ Has(rs, I, "flagged")
           \/ /\ v.kind = "partial" /\ Has(rs, D, "partial") /\ ~ Has(rs, D, "error")
              /\ ~ Has(rs, I, "malware") /\ ~ Has(rs, I, "flagged")
           \/ /\ v.kind = "clean" /\ ~ Has(rs, D, "partial") /\ ~ Has(rs, D, "error")
              /\ ~ Has(rs, I, "malware") /\ ~ Has(rs, I, "flagged")
        /\ v.from = 0 <=> v.kind = "clean"
        /\ v.from # 0 => v.from \in I /\ rs[v.from].kind = v.kind

\* The first result of a kind.
LEMMA FirstOfKindIs ==
    ASSUME NEW rs, NEW I, I \subseteq Nat, NEW kind
    PROVE  /\ I = {} => FirstOfKind(rs, I, kind) = 0
           /\ I # {} => FirstOfKind(rs, I, kind) \in I
           /\ Has(rs, I, kind) => rs[FirstOfKind(rs, I, kind)].kind = kind
<1> DEFINE J == {i \in I : rs[i].kind = kind}
<1>1. CASE J # {}
  <2>1. J \subseteq Nat
    OBVIOUS
  <2>2. Min(J) \in J
    BY <1>1, <2>1, MinNat
  <2>3. FirstOfKind(rs, I, kind) = Min(J)
    BY <1>1, Zenon DEF FirstOfKind
  <2> QED
    BY <2>2, <2>3
<1>2. CASE J = {} /\ I # {}
  <2>1. Min(I) \in I
    BY <1>2, MinNat
  <2>2. FirstOfKind(rs, I, kind) = Min(I)
    BY <1>2, Zenon DEF FirstOfKind
  <2> QED
    BY <1>2, <2>1, <2>2 DEF Has
<1>3. CASE I = {}
  BY <1>3 DEF FirstOfKind, Has
<1> QED
  BY <1>1, <1>2, <1>3

\* The deciding results are among the results.
LEMMA DecidingSubset ==
    ASSUME NEW rs, NEW I
    PROVE  deciding(rs, I) \subseteq I /\ (I # {} => deciding(rs, I) # {})
  BY DEF deciding

\* The verdict of an axis without a detection.
LEMMA UndetectedIs ==
    ASSUME NEW rs, NEW I, I \subseteq Nat \ {0}, NEW score
    PROVE  LET v == UndetectedVerdict(rs, I, score)
               D == deciding(rs, I)
           IN  /\ \/ v.kind = "error" /\ Has(rs, D, "error")
                  \/ v.kind = "partial" /\ Has(rs, D, "partial") /\ ~ Has(rs, D, "error")
                  \/ v.kind = "clean" /\ ~ Has(rs, D, "partial") /\ ~ Has(rs, D, "error")
               /\ v.from = 0 <=> v.kind = "clean"
               /\ v.from # 0 => v.from \in I /\ rs[v.from].kind = v.kind
<1> DEFINE D == deciding(rs, I)
           U == {i \in D : incomplete(rs[i])}
           b == blocker(rs, I)
           v == UndetectedVerdict(rs, I, score)
<1>1. D \subseteq I /\ U \subseteq Nat /\ 0 \notin U
  BY DecidingSubset
<1>2. b = FirstOfKind(rs, U, "error")
  BY Zenon DEF blocker
<1>3. /\ U = {} => b = 0
      /\ U # {} => b \in U
      /\ Has(rs, U, "error") => rs[b].kind = "error"
  <2> HIDE DEF U, b
  <2>1. FirstOfKind(rs, U, "error") = b /\ U \subseteq Nat
    BY <1>1, <1>2
  <2> QED
    BY <2>1, FirstOfKindIs
<1>4. /\ Has(rs, U, "error") <=> Has(rs, D, "error")
      /\ Has(rs, U, "partial") <=> Has(rs, D, "partial")
  BY DEF Has, incomplete
<1>5. CASE U = {}
  <2>1. v.kind = "clean" /\ v.from = 0
    BY <1>3, <1>5 DEF UndetectedVerdict, CategoryVerdict
  <2> QED
    BY <1>4, <1>5, <2>1 DEF Has
<1>6. CASE U # {}
  <2>1. b \in U /\ b # 0 /\ b \in I
    BY <1>1, <1>3, <1>6
  <2>2. v.kind = rs[b].kind /\ v.from = b
    BY <2>1 DEF UndetectedVerdict, CategoryVerdict
  <2>3. rs[b].kind \in {"error", "partial"}
    BY <2>1 DEF incomplete
  <2> QED
    BY <1>3, <1>4, <2>1, <2>2, <2>3 DEF Has
<1> QED
  BY <1>5, <1>6

\* An axis on which a result is not scored reports no score.
LEMMA DiscreteHasNoScore ==
    ASSUME NEW rs, NEW c, \E i \in by_category(rs, c) : ~ rs[i].scored
    PROVE  verdict(rs, c).score = NoScore
<1> DEFINE I == by_category(rs, c)
<1>1. verdict(rs, c) = DiscreteVerdict(rs, I)
  BY Zenon DEF verdict
<1> HIDE DEF I
<1>2. DiscreteVerdict(rs, I).score = NoScore
  BY DEF DiscreteVerdict, UndetectedVerdict, CategoryVerdict
<1> QED
  BY <1>1, <1>2

\* The verdict of a discrete axis is what it must be.
LEMMA DiscreteAxis ==
    ASSUME NEW S, NEW rs \in Seq(S), NEW c,
           \E i \in by_category(rs, c) : ~ rs[i].scored
    PROVE  VerdictIs(rs, c, verdict(rs, c)) /\ verdict(rs, c).score = NoScore
<1> DEFINE I == by_category(rs, c)
           v == verdict(rs, c)
           detections == {i \in I : isDetection(rs[i])}
           top == FirstOfKind(rs, detections, "malware")
<1>1. I \subseteq Nat \ {0} /\ I \subseteq Nat
  <2>1. DOMAIN rs = 1..Len(rs) /\ Len(rs) \in Nat
    BY LenProperties
  <2> QED
    BY <2>1 DEF by_category
<1>2. v = DiscreteVerdict(rs, I)
  BY Zenon DEF verdict
<1>3. CASE detections # {}
  <2>1. v = CategoryVerdict(rs[top].kind, top, NoScore, TRUE)
    BY <1>2, <1>3, Zenon DEF DiscreteVerdict
  <2>2. v.kind = rs[top].kind /\ v.from = top
    BY <2>1 DEF CategoryVerdict
  <2>3. detections \subseteq Nat
    BY <1>1
  <2>4. /\ top \in detections
        /\ Has(rs, detections, "malware") => rs[top].kind = "malware"
    BY <1>3, <2>3, FirstOfKindIs, Zenon
  <2> HIDE DEF v, top
  <2>5. top \in I /\ top # 0 /\ rs[top].kind \in {"malware", "flagged"}
    BY <1>1, <2>4 DEF isDetection
  <2>6. Has(rs, I, "malware") => rs[top].kind = "malware"
    BY <2>4 DEF Has, isDetection
  <2>7. VerdictIs(rs, c, v)
    BY <2>2, <2>5, <2>6 DEF VerdictIs, Has
  <2> QED
    BY <2>7, DiscreteHasNoScore DEF v
<1>4. CASE detections = {}
  <2>1. v = UndetectedVerdict(rs, I, NoScore)
    BY <1>2, <1>4, Zenon DEF DiscreteVerdict
  <2>2. ~ Has(rs, I, "malware") /\ ~ Has(rs, I, "flagged")
    BY <1>4 DEF Has, isDetection
  <2> HIDE DEF v
  <2>3. VerdictIs(rs, c, UndetectedVerdict(rs, I, NoScore))
    BY <1>1, <2>2, UndetectedIs DEF VerdictIs
  <2>4. VerdictIs(rs, c, v)
    BY <2>1, <2>3
  <2> QED
    BY <2>4, DiscreteHasNoScore DEF v
<1> QED
  BY <1>3, <1>4

\* It has one of the five kinds, and is "malware" when anyone said so.
LEMMA VerdictKind ==
    ASSUME NEW rs, NEW c, NEW v, VerdictIs(rs, c, v)
    PROVE  /\ v.kind \in Kinds
           /\ Has(rs, by_category(rs, c), "malware") => v.kind = "malware"
  BY Zenon DEF VerdictIs, Kinds

-----------------------------------------------------------------------------
(* What an answer makes its caller do.                                     *)

\* What a terminal payload makes the caller do.
Decision(p) ==
    IF p.error_kind = "file" THEN "block"
    ELSE IF p.error_kind = "transient" THEN "retry"
    ELSE IF "malware" \notin DOMAIN p.verdicts THEN "unscanned"
    ELSE IF p.verdicts["malware"].kind = "clean" THEN "release"
    ELSE IF p.verdicts["malware"].kind = "error" THEN "retry" ELSE "block"

\* A payload whose malware axis is discrete, with an envelope of its own or none.
WellFormed(p) ==
    /\ p.error_kind \in {"none", "file", "transient"}
    /\ \/ p.status \in {"none", "done"}
       \/ p.status = "error" /\ p.error_kind # "none"
    /\ "malware" \in DOMAIN p.verdicts =>
          p.verdicts["malware"].kind \in Kinds /\ p.verdicts["malware"].score = NoScore

\* Both versions of a payload lead their caller to the same decision.
LEMMA CallerIs ==
    ASSUME NEW p, WellFormed(p), NEW version \in Versions
    PROVE  Caller(serialize(p, version)) = Decision(p)
<1>1. PICK b : b = serialize(p, version)
  OBVIOUS
<1> SUFFICES Caller(b) = Decision(p)
  BY <1>1
<1>2. CASE version = V2
  <2>1. /\ b.api_version = V2 /\ b.status = p.status /\ b.error_kind = p.error_kind
        /\ b.axes = p.verdicts
    BY <1>1, <1>2 DEF serialize, V1, V2
  <2>2. Caller(b) = CallerOfV2(b)
    BY <2>1 DEF Caller, V1, V2
  <2> QED
    BY <2>1, <2>2 DEF CallerOfV2, Decision, WellFormed
<1>3. CASE version = V1
  <2>1. /\ b.api_version = V1 /\ b.status = p.status
        /\ b.error_kind = IF p.error_kind # "none" THEN p.error_kind
                                                  ELSE DerivedErrorKind(p.verdicts)
        /\ b.axes = [c \in DOMAIN p.verdicts |-> scalar(p.verdicts[c])]
    BY <1>1, <1>3 DEF serialize, to_v1, V1, V2
  <2>2. Caller(b) = CallerOfV1(b)
    BY <2>1 DEF Caller, V1, V2
  <2>3. CASE p.error_kind # "none"
    BY <2>1, <2>2, <2>3 DEF CallerOfV1, Decision, WellFormed
  <2>4. CASE p.error_kind = "none" /\ "malware" \notin DOMAIN p.verdicts
    BY <2>1, <2>2, <2>4 DEF CallerOfV1, Decision, WellFormed, DerivedErrorKind
  <2>5. CASE p.error_kind = "none" /\ "malware" \in DOMAIN p.verdicts
    <3>1. PICK v : v = p.verdicts["malware"]
      OBVIOUS
    <3>2. v.kind \in Kinds /\ v.score = NoScore /\ p.status \in {"none", "done"}
      BY <2>5, <3>1 DEF WellFormed
    <3>3. /\ b.error_kind = CASE v.kind = "partial" -> "file"
                              [] v.kind = "error" -> "transient" [] OTHER -> "none"
          /\ "malware" \in DOMAIN b.axes /\ b.axes["malware"] = scalar(v)
      BY <2>1, <2>5, <3>1 DEF DerivedErrorKind
    <3>4. Decision(p) = IF v.kind = "clean" THEN "release"
                        ELSE IF v.kind = "error" THEN "retry" ELSE "block"
      BY <2>5, <3>1 DEF Decision
    <3>5. v.kind \in {"malware", "flagged"} => scalar(v).type = "true"
      BY <3>2 DEF scalar, Scalar
    <3>6. v.kind = "clean" => scalar(v).type = "false"
      BY <3>2 DEF scalar, Scalar
    <3> QED
      BY <2>1, <2>2, <3>2, <3>3, <3>4, <3>5, <3>6 DEF CallerOfV1, Kinds
  <2> QED
    BY <2>3, <2>4, <2>5
<1> QED
  BY <1>2, <1>3 DEF Versions

=============================================================================
