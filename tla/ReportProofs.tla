---------------------------- MODULE ReportProofs ----------------------------
(***************************************************************************)
(* Theorems about Report, for any categories, scores and number of         *)
(* results.  The properties are about the report as it stands, so the      *)
(* inductive invariant is only that the results are possible ones          *)
(* (TypeInv); the argument is about the operators of ScanReport and Wire.  *)
(* VerdictIs says by which of five claims an axis is decided: that verdict *)
(* computes it (VerdictOfAxis) carries the properties.  Reports with the   *)
(* same results (Covers) have the same kinds and scores, in whatever order *)
(* the results come.  Induction over numbers is SetInduction: it takes the *)
(* set of the numbers that have the property.                              *)
(***************************************************************************)
EXTENDS Report, Lemmas

-----------------------------------------------------------------------------

\* The results are possible ones.
TypeInv == results \in Seq(PossibleResults)

\* What is known of a possible result.
LEMMA ResultFacts ==
    ASSUME NEW r \in PossibleResults
    PROVE  /\ r.kind \in Kinds /\ r.category \in Categories
           /\ r.scored \in BOOLEAN /\ r.advisory \in BOOLEAN
           /\ r.score \in Nat \cup {NoScore}
           /\ r.scored => r.kind # "malware"
           /\ ~ r.scored => r.score = NoScore
  BY ReportAssumption DEF PossibleResults, PossibleResult

\* Among finitely many results there is one of highest key.
LEMMA MaxKey ==
    ASSUME NEW n \in Nat, NEW key \in [1..n -> Int], NEW H \in SUBSET (1..n), H # {}
    PROVE  \E i \in H : \A k \in H : key[k] <= key[i]
<1> DEFINE Top(G) == G # {} => \E i \in G : \A k \in G : key[k] <= key[i]
           S == {m \in Nat : m <= n => \A G \in SUBSET (1..m) : Top(G)}
<1>1. 0 \in S
  <2>1. \A G \in SUBSET (1..0) : G = {}
    OBVIOUS
  <2> QED
    BY <2>1
<1>2. ASSUME NEW m \in Nat, m \in S PROVE m + 1 \in S
  <2> SUFFICES ASSUME m + 1 <= n, NEW G \in SUBSET (1..(m + 1)), G # {}
               PROVE  \E i \in G : \A k \in G : key[k] <= key[i]
    OBVIOUS
  <2> DEFINE F == G \ {m + 1}
  <2>1. F \in SUBSET (1..m) /\ m <= n /\ m + 1 \in 1..n
    OBVIOUS
  <2>2. Top(F)
    BY <1>2, <2>1
  <2>3. \A k \in G : key[k] \in Int
    OBVIOUS
  <2>4. CASE m + 1 \notin G
    <3>1. F = G
      BY <2>4
    <3> QED
      BY <2>2, <3>1
  <2>5. CASE m + 1 \in G /\ F = {}
    <3>1. G = {m + 1}
      BY <2>5
    <3> QED
      BY <2>3, <3>1
  <2>6. CASE m + 1 \in G /\ F # {}
    <3>1. PICK i \in F : \A k \in F : key[k] <= key[i]
      BY <2>2, <2>6
    <3>2. \A k \in G : k \in F \/ k = m + 1
      OBVIOUS
    <3>3. i \in G /\ key[i] \in Int /\ key[m + 1] \in Int
      BY <2>3, <2>6, <3>1
    <3>4. CASE key[i] <= key[m + 1]
      <4>1. \A k \in G : key[k] <= key[m + 1]
        BY <2>3, <3>1, <3>2, <3>3, <3>4
      <4> QED
        BY <2>6, <4>1
    <3>5. CASE key[m + 1] <= key[i]
      <4>1. \A k \in G : key[k] <= key[i]
        BY <2>3, <3>1, <3>2, <3>3, <3>5
      <4> QED
        BY <3>3, <4>1
    <3> QED
      BY <3>3, <3>4, <3>5
  <2> QED
    BY <2>4, <2>5, <2>6
<1> HIDE DEF S
<1>3. Nat \subseteq S
  BY <1>1, <1>2, SetInduction
<1>4. n \in S /\ n <= n
  BY <1>3
<1> QED
  BY <1>4 DEF S

\* The results of a report, and their indices.
LEMMA Indices ==
    ASSUME NEW rs \in Seq(PossibleResults), NEW c
    PROVE  /\ by_category(rs, c) \subseteq 1..Len(rs) /\ Len(rs) \in Nat
           /\ by_category(rs, c) \subseteq Nat \ {0}
           /\ \A i \in by_category(rs, c) : rs[i] \in PossibleResults
<1>1. DOMAIN rs = 1..Len(rs) /\ Len(rs) \in Nat
  BY LenProperties
<1> QED
  BY <1>1 DEF by_category

\* The hit that is quoted is one of the hits.
LEMMA TopHitIsHit ==
    ASSUME NEW rs \in Seq(PossibleResults), NEW H \in SUBSET (1..Len(rs)), H # {}
    PROVE  TopHit(rs, H) \in H
<1> DEFINE key == [i \in 1..Len(rs) |-> IF rs[i].score = NoScore THEN 0 ELSE rs[i].score]
           T == {i \in H : \A k \in H : key[k] <= key[i]}
<1>1. \A i \in 1..Len(rs) : rs[i].score \in Nat \cup {NoScore}
  BY ResultFacts
<1>2. key \in [1..Len(rs) -> Int]
  BY <1>1 DEF NoScore
<1>3. T # {}
  <2> HIDE DEF key
  <2>1. Len(rs) \in Nat
    BY LenProperties
  <2> QED
    BY <1>2, <2>1, MaxKey
<1>4. Min(T) \in T
  <2>1. T \subseteq Nat
    <3>1. T \subseteq H
      OBVIOUS
    <3>2. H \subseteq Nat
      BY LenProperties
    <3> QED
      BY <3>1, <3>2, Zenon
  <2> QED
    BY <1>3, <2>1, MinNat
<1>5. TopHit(rs, H) = Min(T)
  <2>1. T = {i \in H : \A k \in H :
                (IF rs[k].score = NoScore THEN 0 ELSE rs[k].score)
                <= (IF rs[i].score = NoScore THEN 0 ELSE rs[i].score)}
    OBVIOUS
  <2> QED
    BY <2>1, Zenon DEF TopHit
<1> QED
  BY <1>4, <1>5

\* The verdict of every axis of every report is what it must be.
LEMMA VerdictOfAxis ==
    ASSUME NEW rs \in Seq(PossibleResults), NEW c
    PROVE  VerdictIs(rs, c, verdict(rs, c))
<1> DEFINE I == by_category(rs, c)
           v == verdict(rs, c)
<1>1. /\ I \subseteq 1..Len(rs) /\ I \subseteq Nat \ {0} /\ I \subseteq Nat
      /\ \A i \in I : rs[i] \in PossibleResults
  BY Indices
<1>2. ASSUME NEW score, v = UndetectedVerdict(rs, I, score),
             ~ Has(rs, I, "malware"), ~ Has(rs, I, "flagged")
      PROVE  VerdictIs(rs, c, v)
  <2> HIDE DEF v
  <2>1. VerdictIs(rs, c, UndetectedVerdict(rs, I, score))
    BY <1>1, <1>2, UndetectedIs DEF VerdictIs
  <2> QED
    BY <1>2, <2>1
<1>3. CASE \A i \in I : rs[i].scored
  <2> DEFINE hits == {i \in I : rs[i].kind = "flagged"}
  <2>1. ~ Has(rs, I, "malware")
    BY <1>1, <1>3, ResultFacts DEF Has
  <2>2. v = ScoredVerdict(rs, I)
    BY <1>3, Zenon DEF verdict
  <2>3. CASE hits # {}
    <3>1. hits \in SUBSET (1..Len(rs))
      BY <1>1
    <3>2. TopHit(rs, hits) \in hits
      BY <2>3, <3>1, TopHitIsHit
    <3>3. v = CategoryVerdict("flagged", TopHit(rs, hits), MaxScore(rs, I), FALSE)
      BY <2>2, <2>3, Zenon DEF ScoredVerdict
    <3>4. v.kind = "flagged" /\ v.from = TopHit(rs, hits)
      BY <3>3 DEF CategoryVerdict
    <3>5. v.from \in I /\ v.from # 0 /\ rs[v.from].kind = "flagged"
      BY <1>1, <3>2, <3>4
    <3> HIDE DEF v
    <3>6. VerdictIs(rs, c, v)
      BY <2>1, <3>4, <3>5 DEF VerdictIs, Has
    <3> QED
      BY <3>6 DEF v
  <2>4. CASE hits = {}
    <3>1. v = UndetectedVerdict(rs, I, MaxScore(rs, I))
      BY <2>2, <2>4, Zenon DEF ScoredVerdict
    <3>2. ~ Has(rs, I, "flagged")
      BY <2>4 DEF Has
    <3> QED
      BY <1>2, <2>1, <3>1, <3>2
  <2> QED
    BY <2>3, <2>4
<1>4. CASE ~ (\A i \in I : rs[i].scored)
  BY <1>4, DiscreteAxis
<1> QED
  BY <1>3, <1>4

\* The strength of the strongest claim, for the claims Has speaks of.
LEMMA StrongestOf ==
    ASSUME NEW K, K \subseteq Kinds, "clean" \in K, NEW k \in K,
           \A j \in K : Strength(j) <= Strength(k)
    PROVE  Max({Strength(j) : j \in K}) = Strength(k)
<1> DEFINE T == {Strength(j) : j \in K}
<1>1. \A j \in K : Strength(j) \in Nat
  BY DEF Kinds, Strength
<1>2. Strength(k) \in T /\ \A y \in T : y \in Nat /\ Strength(k) >= y
  BY <1>1
<1>3. PICK m : m = Max(T)
  OBVIOUS
<1>4. m \in T /\ \A y \in T : m >= y
  BY <1>2, <1>3, Zenon DEF Max
<1> HIDE DEF T
<1>5. m = Strength(k)
  BY <1>2, <1>4
<1> QED
  BY <1>3, <1>5 DEF T

\* The results that decide an axis, as the reference definition has them.
LEMMA DecidingIs ==
    ASSUME NEW rs, NEW I
    PROVE  deciding(rs, I) = {i \in I : rs[i].advisory => \A k \in I : rs[k].advisory}
  BY DEF deciding

\* The claims that count on an axis.
LEMMA ClaimsAre ==
    ASSUME NEW rs \in Seq(PossibleResults), NEW c
    PROVE  LET I == by_category(rs, c)
               D == deciding(rs, I)
           IN  /\ Claims(rs, c) \subseteq {"malware", "flagged", "error", "partial"}
               /\ "malware" \in Claims(rs, c) <=> Has(rs, I, "malware")
               /\ "flagged" \in Claims(rs, c) <=> Has(rs, I, "flagged")
               /\ "error" \in Claims(rs, c) <=> Has(rs, D, "error")
               /\ "partial" \in Claims(rs, c) <=> Has(rs, D, "partial")
<1> DEFINE I == by_category(rs, c)
           D == deciding(rs, I)
           E == {i \in I : isDetection(rs[i]) \/ (i \in D /\ incomplete(rs[i]))}
<1>1. Claims(rs, c) = {rs[i].kind : i \in E}
  <2>1. D = {i \in I : rs[i].advisory => \A k \in I : rs[k].advisory}
    BY DecidingIs
  <2>2. E = {k \in I : isDetection(rs[k])
                       \/ ((rs[k].advisory => \A j \in I : rs[j].advisory) /\ incomplete(rs[k]))}
    BY <2>1
  <2> QED
    BY <2>2, Zenon DEF Claims
<1>2. D \subseteq I
  BY DecidingSubset
<1> HIDE DEF I, D
<1>3. Claims(rs, c) \subseteq {"malware", "flagged", "error", "partial"}
  BY <1>1 DEF isDetection, incomplete
<1>4. /\ "malware" \in Claims(rs, c) <=> Has(rs, I, "malware")
      /\ "flagged" \in Claims(rs, c) <=> Has(rs, I, "flagged")
      /\ "error" \in Claims(rs, c) <=> Has(rs, D, "error")
      /\ "partial" \in Claims(rs, c) <=> Has(rs, D, "partial")
  BY <1>1, <1>2 DEF isDetection, incomplete, Has
<1> QED
  BY <1>3, <1>4 DEF I, D

\* The verdict of an axis is the strongest claim on it.
LEMMA StrongestClaim ==
    ASSUME NEW rs \in Seq(PossibleResults), NEW c
    PROVE  Strength(verdict(rs, c).kind) = Max({Strength(k) : k \in Claims(rs, c) \cup {"clean"}})
<1> DEFINE K == Claims(rs, c) \cup {"clean"}
<1>1. PICK v : v = verdict(rs, c)
  OBVIOUS
<1>2. VerdictIs(rs, c, v)
  BY <1>1, VerdictOfAxis
<1>3. K \subseteq Kinds /\ "clean" \in K
  BY ClaimsAre DEF Kinds
<1>4. v.kind \in K /\ \A j \in K : Strength(j) <= Strength(v.kind)
  BY <1>2, ClaimsAre DEF VerdictIs, Strength
<1> QED
  BY <1>1, <1>3, <1>4, StrongestOf

-----------------------------------------------------------------------------

\* The results collected are possible ones.
LEMMA TypeInvariance == Spec => []TypeInv
<1>1. Init => TypeInv
  BY DEF Init, TypeInv
<1>2. TypeInv /\ [Next]_results => TypeInv'
  BY AppendProperties DEF TypeInv, Next, Collect
<1> QED
  BY <1>1, <1>2, PTL DEF Spec

\* An axis has a deciding result.
LEMMA AxisDecides ==
    ASSUME NEW rs \in Seq(PossibleResults), NEW c \in CategoriesOf(rs)
    PROVE  /\ by_category(rs, c) # {}
           /\ deciding(rs, by_category(rs, c)) # {}
           /\ deciding(rs, by_category(rs, c)) \subseteq DecidingOf(rs)
           /\ by_category(rs, c) \subseteq DOMAIN rs
<1>1. by_category(rs, c) # {} /\ by_category(rs, c) \subseteq DOMAIN rs
  BY DEF CategoriesOf, by_category
<1>2. deciding(rs, by_category(rs, c)) # {}
  BY <1>1, DecidingSubset
<1>3. deciding(rs, by_category(rs, c)) \subseteq DecidingOf(rs)
  BY Zenon DEF DecidingOf
<1> QED
  BY <1>1, <1>2, <1>3

\* ScanReport.verdicts answers each axis with the strongest claim that counts, and
\* quotes a result that makes it, for reports of any length, axes and scores
\* (scanner.py:276-342).
THEOREM Strongest == Spec => []VerdictIsStrongestClaim
<1>1. TypeInv => VerdictIsStrongestClaim
  <2> SUFFICES ASSUME TypeInv, NEW c \in CategoriesOf(results)
               PROVE  LET v == verdict(results, c)
                      IN  /\ Strength(v.kind)
                             = Max({Strength(k) : k \in Claims(results, c) \cup {"clean"}})
                          /\ v.from = 0 <=> v.kind = "clean"
                          /\ v.from # 0 => /\ v.from \in by_category(results, c)
                                           /\ results[v.from].kind = v.kind
    BY DEF VerdictIsStrongestClaim
  <2>1. results \in Seq(PossibleResults)
    BY DEF TypeInv
  <2>2. Strength(verdict(results, c).kind)
        = Max({Strength(k) : k \in Claims(results, c) \cup {"clean"}})
    BY <2>1, StrongestClaim
  <2>3. VerdictIs(results, c, verdict(results, c))
    BY <2>1, VerdictOfAxis
  <2> QED
    BY <2>2, <2>3, Zenon DEF VerdictIs
<1> QED
  BY <1>1, TypeInvariance, PTL

\* A report that nothing usable came out of has a verdict "error" on every axis,
\* whatever scanners were selected (scanner.py:241-260).
THEOREM Unusable == Spec => []UnusableMeansEveryAxisFailed
<1>1. TypeInv => UnusableMeansEveryAxisFailed
  <2> SUFFICES ASSUME TypeInv, all_errored(results) PROVE UnusableMeansEveryAxisFailed
    BY DEF UnusableMeansEveryAxisFailed
  <2>1. results \in Seq(PossibleResults)
    BY DEF TypeInv
  <2>2. results # << >>
    <3>1. SUFFICES ASSUME results = << >> PROVE FALSE
      OBVIOUS
    <3>2. CategoriesOf(results) = {}
      BY <3>1 DEF CategoriesOf
    <3>3. DecidingOf(results) = {}
      BY <3>2 DEF DecidingOf
    <3> QED
      BY <3>3 DEF all_errored
  <2>3. ASSUME NEW c \in CategoriesOf(results) PROVE verdict(results, c).kind = "error"
    <3> DEFINE I == by_category(results, c)
               D == deciding(results, I)
    <3>1. D # {} /\ D \subseteq DecidingOf(results) /\ I \subseteq DOMAIN results
      BY <2>1, AxisDecides
    <3>2. \A i \in D : results[i].kind = "error"
      BY <3>1 DEF all_errored
    <3>3. Has(results, D, "error")
      BY <3>1, <3>2 DEF Has
    <3>4. ~ Has(results, I, "malware") /\ ~ Has(results, I, "flagged")
      BY <3>1 DEF all_errored, detected, isDetection, Has
    <3>5. VerdictIs(results, c, verdict(results, c))
      BY <2>1, VerdictOfAxis
    <3> QED
      BY <3>3, <3>4, <3>5, Zenon DEF VerdictIs
  <2> QED
    BY <2>2, <2>3 DEF UnusableMeansEveryAxisFailed
<1> QED
  BY <1>1, TypeInvariance, PTL

-----------------------------------------------------------------------------

\* A v1 and a v2 caller of the same answer decide alike on an unscored malware
\* axis, for every report (wire.py:61-107).
THEOREM Versioned == Spec => []VersionsAgree
<1>1. TypeInv => VersionsAgree
  <2> SUFFICES ASSUME TypeInv, \A i \in by_category(results, "malware") : ~ results[i].scored,
                      NEW p \in Answers
               PROVE  Caller(serialize(p, V1)) = Caller(serialize(p, V2))
    BY DEF VersionsAgree
  <2> DEFINE vs == verdicts(results)
  <2>1. results \in Seq(PossibleResults)
    BY DEF TypeInv
  <2>2. ASSUME "malware" \in DOMAIN vs
        PROVE  vs["malware"].kind \in Kinds /\ vs["malware"].score = NoScore
    <3>1. "malware" \in CategoriesOf(results) /\ vs["malware"] = verdict(results, "malware")
      BY <2>2 DEF verdicts
    <3>2. by_category(results, "malware") # {}
      BY <2>1, <3>1, AxisDecides
    <3>3. /\ verdict(results, "malware").score = NoScore
          /\ VerdictIs(results, "malware", verdict(results, "malware"))
      BY <2>1, <3>2, DiscreteAxis
    <3> QED
      BY <3>1, <3>3, VerdictKind
  <2> HIDE DEF vs
  <2>3. /\ p.verdicts = vs
        /\ \/ p.status \in {"none", "done"} /\ p.error_kind = "none"
           \/ p.status = "error" /\ p.error_kind = "transient"
    BY DEF Answers, Payload, vs
  <2>4. WellFormed(p)
    BY <2>2, <2>3 DEF WellFormed
  <2> QED
    BY <2>4, CallerIs DEF Versions
<1> QED
  BY <1>1, TypeInvariance, PTL

-----------------------------------------------------------------------------
(* Which results there are decides the kind and the score of an axis, not  *)
(* their order nor how often each occurs.                                  *)

\* Every result of rs is a result of ss.
Covers(rs, ss) == \A i \in DOMAIN rs : \E j \in DOMAIN ss : ss[j] = rs[i]

\* A result on an axis of rs is one on the same axis of ss; one that decides there
\* decides here.
LEMMA AxisLikewise ==
    ASSUME NEW rs, NEW ss, Covers(rs, ss), Covers(ss, rs), NEW c
    PROVE  /\ \A i \in by_category(rs, c) : \E j \in by_category(ss, c) : ss[j] = rs[i]
           /\ \A i \in deciding(rs, by_category(rs, c)) :
                 \E j \in deciding(ss, by_category(ss, c)) : ss[j] = rs[i]
<1> DEFINE I == by_category(rs, c)
           J == by_category(ss, c)
<1>1. \A i \in I : \E j \in J : ss[j] = rs[i]
  BY DEF Covers, by_category
<1>2. \A j \in J : \E i \in I : ss[j] = rs[i]
  BY DEF Covers, by_category
<1> HIDE DEF I, J
<1>3. ASSUME NEW i \in deciding(rs, I) PROVE \E j \in deciding(ss, J) : ss[j] = rs[i]
  <2>1. i \in I /\ (rs[i].advisory => \A k \in I : rs[k].advisory)
    BY DecidingIs
  <2>2. PICK j \in J : ss[j] = rs[i]
    BY <1>1, <2>1
  <2>3. ss[j].advisory => \A k \in J : ss[k].advisory
    BY <1>2, <2>1, <2>2
  <2> QED
    BY <2>2, <2>3, DecidingIs
<1> QED
  BY <1>1, <1>3 DEF I, J

\* A kind reported on an axis of rs, by anyone or by a deciding result, is one on
\* the same axis of ss.
LEMMA SameHas ==
    ASSUME NEW rs, NEW ss, Covers(rs, ss), Covers(ss, rs), NEW c, NEW kind
    PROVE  /\ Has(rs, by_category(rs, c), kind) => Has(ss, by_category(ss, c), kind)
           /\ Has(rs, deciding(rs, by_category(rs, c)), kind)
              => Has(ss, deciding(ss, by_category(ss, c)), kind)
  BY AxisLikewise DEF Has

\* The kinds of the verdicts agree.
LEMMA SameKind ==
    ASSUME NEW rs \in Seq(PossibleResults), NEW ss \in Seq(PossibleResults),
           Covers(rs, ss), Covers(ss, rs), NEW c
    PROVE  verdict(rs, c).kind = verdict(ss, c).kind
<1>1. PICK v, w : v = verdict(rs, c) /\ w = verdict(ss, c)
  OBVIOUS
<1>2. VerdictIs(rs, c, v) /\ VerdictIs(ss, c, w)
  BY <1>1, VerdictOfAxis
<1>3. \A kind : /\ Has(rs, by_category(rs, c), kind) <=> Has(ss, by_category(ss, c), kind)
                /\ Has(rs, deciding(rs, by_category(rs, c)), kind)
                   <=> Has(ss, deciding(ss, by_category(ss, c)), kind)
  BY SameHas
<1>4. v.kind = w.kind
  BY <1>2, <1>3 DEF VerdictIs
<1> QED
  BY <1>1, <1>4

\* The score of an axis: the highest one where every result is scored and the axis
\* is flagged or clean, none elsewhere.
LEMMA ScoreIs ==
    ASSUME NEW rs \in Seq(PossibleResults), NEW c
    PROVE  verdict(rs, c).score =
             IF /\ \A i \in by_category(rs, c) : rs[i].scored
                /\ verdict(rs, c).kind \in {"flagged", "clean"}
             THEN MaxScore(rs, by_category(rs, c)) ELSE NoScore
<1> DEFINE I == by_category(rs, c)
           D == deciding(rs, I)
<1>1. I \subseteq Nat \ {0}
  BY Indices
<1>2. PICK v, m : v = verdict(rs, c) /\ m = MaxScore(rs, I)
  OBVIOUS
<1> HIDE DEF I
<1> SUFFICES v.score = IF (\A i \in I : rs[i].scored) /\ v.kind \in {"flagged", "clean"}
                       THEN m ELSE NoScore
  BY <1>2, Zenon DEF I
<1>3. CASE ~ (\A i \in I : rs[i].scored)
  BY <1>2, <1>3, DiscreteHasNoScore DEF I
<1>4. CASE \A i \in I : rs[i].scored
  <2> DEFINE hits == {i \in I : rs[i].kind = "flagged"}
             b == blocker(rs, I)
  <2>1. v = ScoredVerdict(rs, I)
    BY <1>2, <1>4, Zenon DEF verdict, I
  <2>2. CASE hits # {}
    <3>1. v = CategoryVerdict("flagged", TopHit(rs, hits), m, FALSE)
      BY <1>2, <2>1, <2>2, Zenon DEF ScoredVerdict
    <3> QED
      BY <1>4, <3>1 DEF CategoryVerdict
  <2>3. CASE hits = {}
    <3>1. v = UndetectedVerdict(rs, I, m)
      BY <1>2, <2>1, <2>3, Zenon DEF ScoredVerdict
    <3>2. CASE b = 0
      <4>1. v = CategoryVerdict("clean", 0, m, FALSE)
        BY <3>1, <3>2, Zenon DEF UndetectedVerdict
      <4> QED
        BY <1>4, <4>1 DEF CategoryVerdict
    <3>3. CASE b # 0
      <4>1. v = CategoryVerdict(rs[b].kind, b, NoScore, FALSE)
        BY <3>1, <3>3, Zenon DEF UndetectedVerdict
      <4>2. v.kind = rs[b].kind /\ v.from = b /\ v.score = NoScore
        BY <4>1 DEF CategoryVerdict
      <4>3. /\ v.kind \in {"error", "partial", "clean"}
            /\ v.from = 0 <=> v.kind = "clean"
        BY <1>1, <3>1, UndetectedIs
      <4>4. v.kind \notin {"flagged", "clean"}
        BY <3>3, <4>2, <4>3
      <4> QED
        BY <4>2, <4>4
    <3> QED
      BY <3>2, <3>3
  <2> QED
    BY <2>2, <2>3
<1> QED
  BY <1>3, <1>4

\* The scores of the verdicts agree.
LEMMA SameScore ==
    ASSUME NEW rs \in Seq(PossibleResults), NEW ss \in Seq(PossibleResults),
           Covers(rs, ss), Covers(ss, rs), NEW c
    PROVE  verdict(rs, c).score = verdict(ss, c).score
<1> DEFINE I == by_category(rs, c)
           J == by_category(ss, c)
<1>1. \A i \in I : \E j \in J : ss[j] = rs[i]
  BY AxisLikewise
<1>2. \A j \in J : \E i \in I : rs[i] = ss[j]
  BY AxisLikewise
<1> HIDE DEF I, J
<1>3. (\A i \in I : rs[i].scored) <=> (\A j \in J : ss[j].scored)
  BY <1>1, <1>2
<1>4. Scores(rs, I) = Scores(ss, J)
  BY <1>1, <1>2 DEF Scores
<1>5. MaxScore(rs, I) = MaxScore(ss, J)
  BY <1>4, Zenon DEF MaxScore
<1>6. verdict(rs, c).kind = verdict(ss, c).kind
  BY SameKind
<1>7. PICK v, w, m : v = verdict(rs, c) /\ w = verdict(ss, c) /\ m = MaxScore(rs, I)
  OBVIOUS
<1>8. v.score = IF (\A i \in I : rs[i].scored) /\ v.kind \in {"flagged", "clean"}
                THEN m ELSE NoScore
  BY <1>7, ScoreIs, Zenon DEF I
<1>9. w.score = IF (\A j \in J : ss[j].scored) /\ w.kind \in {"flagged", "clean"}
                THEN m ELSE NoScore
  BY <1>5, <1>7, ScoreIs, Zenon DEF J
<1>10. v.score = w.score
  BY <1>3, <1>6, <1>7, <1>8, <1>9
<1> QED
  BY <1>7, <1>10

\* A result that decides an axis of rs decides the same axis of ss.
LEMMA DecidesLikewise ==
    ASSUME NEW rs, NEW ss, Covers(rs, ss), Covers(ss, rs), NEW i \in DecidingOf(rs)
    PROVE  \E j \in DecidingOf(ss) : ss[j] = rs[i]
<1>1. PICK c \in CategoriesOf(rs) : i \in deciding(rs, by_category(rs, c))
  BY DEF DecidingOf
<1>2. c \in CategoriesOf(ss)
  BY DEF CategoriesOf, Covers
<1>3. PICK j \in deciding(ss, by_category(ss, c)) : ss[j] = rs[i]
  BY <1>1, AxisLikewise
<1>4. j \in DecidingOf(ss)
  BY <1>2, <1>3, Zenon DEF DecidingOf
<1> QED
  BY <1>3, <1>4

\* Whether anything usable came out agrees.
LEMMA SameErrored ==
    ASSUME NEW rs, NEW ss, Covers(rs, ss), Covers(ss, rs), all_errored(rs)
    PROVE  all_errored(ss)
<1>1. \A i \in DecidingOf(rs) : \E j \in DecidingOf(ss) : ss[j] = rs[i]
  BY DecidesLikewise
<1>2. \A j \in DecidingOf(ss) : \E i \in DecidingOf(rs) : ss[j] = rs[i]
  BY DecidesLikewise
<1>3. ~ detected(ss)
  BY DEF all_errored, detected, Covers
<1> QED
  BY <1>1, <1>2, <1>3 DEF all_errored

\* The reversed report has the same results.
LEMMA ReverseCovers ==
    ASSUME NEW rs \in Seq(PossibleResults)
    PROVE  /\ Reverse(rs) \in Seq(PossibleResults)
           /\ Covers(rs, Reverse(rs)) /\ Covers(Reverse(rs), rs)
<1> DEFINE n == Len(rs)
<1>1. n \in Nat /\ DOMAIN rs = 1..n /\ \A i \in 1..n : rs[i] \in PossibleResults
  BY LenProperties
<1>2. PICK ss : ss = [i \in 1..n |-> rs[(n - i) + 1]]
  OBVIOUS
<1>3. Reverse(rs) = ss
  BY <1>2, Zenon DEF Reverse
<1> HIDE DEF n
<1>4. \A i \in 1..n : (n - i) + 1 \in 1..n /\ (n - ((n - i) + 1)) + 1 = i
  BY <1>1
<1>5. DOMAIN ss = 1..n /\ \A i \in 1..n : ss[i] = rs[(n - i) + 1]
  BY <1>2
<1>6. ss \in Seq(PossibleResults)
  BY <1>1, <1>2, <1>4
<1>7. Covers(rs, ss)
  <2> SUFFICES ASSUME NEW i \in 1..n PROVE \E j \in 1..n : ss[j] = rs[i]
    BY <1>1, <1>5 DEF Covers
  <2>1. ss[(n - i) + 1] = rs[(n - ((n - i) + 1)) + 1]
    BY <1>4, <1>5
  <2> QED
    BY <1>4, <2>1
<1>8. Covers(ss, rs)
  BY <1>1, <1>4, <1>5 DEF Covers
<1> QED
  BY <1>3, <1>6, <1>7, <1>8

\* The order in which the scanners are named changes neither the kind nor the score
\* of an axis, nor all_errored, for reports of any length (scanner.py:262-342).
THEOREM Ordering == Spec => []OrderIndependent
<1>1. TypeInv => OrderIndependent
  <2> SUFFICES ASSUME TypeInv PROVE OrderIndependent
    OBVIOUS
  <2>1. PICK rev : rev = Reverse(results)
    OBVIOUS
  <2>2. /\ results \in Seq(PossibleResults) /\ rev \in Seq(PossibleResults)
        /\ Covers(results, rev) /\ Covers(rev, results)
    BY <2>1, ReverseCovers DEF TypeInv
  <2>3. all_errored(rev) <=> all_errored(results)
    BY <2>2, SameErrored
  <2>4. all_errored(rev) \in BOOLEAN /\ all_errored(results) \in BOOLEAN
    BY Zenon DEF all_errored
  <2>5. \A c : /\ verdict(rev, c).kind = verdict(results, c).kind
               /\ verdict(rev, c).score = verdict(results, c).score
    BY <2>2, SameKind, SameScore
  <2> QED
    BY <2>1, <2>3, <2>4, <2>5, Zenon DEF OrderIndependent
<1> QED
  BY <1>1, TypeInvariance, PTL

-----------------------------------------------------------------------------
(* One more advisory result, next to a deciding one of its axis.           *)

\* The axis keeps its deciding results and its detections.
LEMMA SameAxis ==
    ASSUME NEW rs \in Seq(PossibleResults), NEW r \in PossibleResults,
           r.advisory, ~ isDetection(r),
           \E i \in by_category(rs, r.category) : ~ rs[i].advisory
    PROVE  LET ss == Append(rs, r)
               n == Len(rs) + 1
               I == by_category(rs, r.category)
               J == by_category(ss, r.category)
           IN  /\ DOMAIN ss = DOMAIN rs \cup {n} /\ n \notin DOMAIN rs /\ ss[n] = r
               /\ \A i \in DOMAIN rs : ss[i] = rs[i]
               /\ \A c : c # r.category => by_category(ss, c) = by_category(rs, c)
               /\ J = I \cup {n}
               /\ deciding(ss, J) = deciding(rs, I)
               /\ {i \in J : isDetection(ss[i])} = {i \in I : isDetection(rs[i])}
               /\ I \subseteq DOMAIN rs
<1> DEFINE n == Len(rs) + 1
<1>1. PICK ss : ss = Append(rs, r)
  OBVIOUS
<1>2. PICK I, J : I = by_category(rs, r.category) /\ J = by_category(ss, r.category)
  OBVIOUS
<1>3. DOMAIN rs = 1..Len(rs) /\ Len(rs) \in Nat
  BY LenProperties
<1>4. DOMAIN ss = 1..n /\ ss[n] = r /\ \A i \in DOMAIN rs : ss[i] = rs[i]
  BY <1>1, <1>3, AppendProperties
<1>5. DOMAIN ss = DOMAIN rs \cup {n} /\ n \notin DOMAIN rs
  BY <1>3, <1>4
<1> HIDE DEF n
<1>6. \A c : c # r.category => by_category(ss, c) = by_category(rs, c)
  BY <1>4, <1>5 DEF by_category
<1>7. J = I \cup {n} /\ I \subseteq DOMAIN rs /\ n \notin I
  BY <1>2, <1>4, <1>5 DEF by_category
<1>8. \A i \in I : ss[i] = rs[i]
  BY <1>4, <1>7
<1>9. \E i \in I : ~ rs[i].advisory
  BY <1>2
<1>10. deciding(ss, J) = deciding(rs, I)
  <2>1. {i \in J : ~ ss[i].advisory} = {i \in I : ~ rs[i].advisory}
    BY <1>4, <1>7, <1>8
  <2>2. {i \in I : ~ rs[i].advisory} # {}
    BY <1>9
  <2> QED
    BY <2>1, <2>2, Zenon DEF deciding
<1>11. {i \in J : isDetection(ss[i])} = {i \in I : isDetection(rs[i])}
  BY <1>4, <1>7, <1>8
<1> QED
  BY <1>1, <1>2, <1>4, <1>5, <1>6, <1>7, <1>10, <1>11, Zenon DEF n

\* Two reports with the same results at the indices I agree on the first of a kind.
LEMMA SameFirst ==
    ASSUME NEW rs, NEW ss, NEW I, \A i \in I : ss[i] = rs[i], NEW kind
    PROVE  FirstOfKind(ss, I, kind) = FirstOfKind(rs, I, kind)
<1>1. {i \in I : ss[i].kind = kind} = {i \in I : rs[i].kind = kind}
  OBVIOUS
<1> QED
  BY <1>1, Zenon DEF FirstOfKind

\* The verdict of a discrete axis stays.
LEMMA SameVerdict ==
    ASSUME NEW rs \in Seq(PossibleResults), NEW r \in PossibleResults,
           r.advisory, ~ isDetection(r),
           \E i \in by_category(rs, r.category) : ~ rs[i].advisory,
           \E i \in by_category(rs, r.category) : ~ rs[i].scored
    PROVE  verdict(Append(rs, r), r.category) = verdict(rs, r.category)
<1> DEFINE c == r.category
<1>1. PICK ss, I, J : /\ ss = Append(rs, r)
                      /\ I = by_category(rs, c) /\ J = by_category(ss, c)
  OBVIOUS
<1>2. /\ I \subseteq DOMAIN rs /\ \A i \in DOMAIN rs : ss[i] = rs[i]
      /\ deciding(ss, J) = deciding(rs, I) /\ I \subseteq J
      /\ {i \in J : isDetection(ss[i])} = {i \in I : isDetection(rs[i])}
  <2>1. J = I \cup {Len(rs) + 1}
    BY <1>1, SameAxis, Zenon
  <2>2. I \subseteq DOMAIN rs /\ \A i \in DOMAIN rs : ss[i] = rs[i]
    BY <1>1, SameAxis
  <2>3. deciding(ss, J) = deciding(rs, I)
    BY <1>1, SameAxis, Zenon
  <2>4. {i \in J : isDetection(ss[i])} = {i \in I : isDetection(rs[i])}
    BY <1>1, SameAxis
  <2> QED
    BY <2>1, <2>2, <2>3, <2>4, Zenon
<1>3. \A i \in I : ss[i] = rs[i]
  BY <1>2
<1>4. verdict(rs, c) = DiscreteVerdict(rs, I) /\ verdict(ss, c) = DiscreteVerdict(ss, J)
  <2>1. ~ (\A i \in I : rs[i].scored) /\ ~ (\A i \in J : ss[i].scored)
    BY <1>1, <1>2, <1>3
  <2> QED
    BY <1>1, <2>1, Zenon DEF verdict
<1>5. PICK hits, D : hits = {i \in I : isDetection(rs[i])} /\ D = deciding(rs, I)
  OBVIOUS
<1>6. hits \subseteq I /\ D \subseteq I
  BY <1>5, DecidingSubset
<1>7. PICK top : top = FirstOfKind(rs, hits, "malware")
  OBVIOUS
<1>8. top = FirstOfKind(ss, hits, "malware")
  BY <1>3, <1>6, <1>7, SameFirst
<1>9. CASE hits # {}
  <2>1. top \in hits
    <3>1. hits \subseteq Nat
      BY <1>1, <1>6, Indices
    <3> QED
      BY <1>7, <1>9, <3>1, FirstOfKindIs
  <2>2. ss[top] = rs[top]
    BY <1>3, <1>6, <2>1
  <2>3. DiscreteVerdict(rs, I) = CategoryVerdict(rs[top].kind, top, NoScore, TRUE)
    BY <1>5, <1>7, <1>9, Zenon DEF DiscreteVerdict
  <2>4. DiscreteVerdict(ss, J) = CategoryVerdict(ss[top].kind, top, NoScore, TRUE)
    BY <1>2, <1>5, <1>8, <1>9, Zenon DEF DiscreteVerdict
  <2> QED
    BY <1>1, <1>4, <2>2, <2>3, <2>4
<1>10. CASE hits = {}
  <2>1. PICK b : b = blocker(rs, I)
    OBVIOUS
  <2>2. PICK U : U = {i \in D : incomplete(rs[i])}
    OBVIOUS
  <2>3. U \subseteq I /\ U = {i \in D : incomplete(ss[i])}
    BY <1>3, <1>6, <2>2
  <2>4. b = FirstOfKind(rs, U, "error")
    BY <1>5, <2>1, <2>2, Zenon DEF blocker
  <2>5. b = FirstOfKind(ss, U, "error")
    BY <1>3, <2>3, <2>4, SameFirst
  <2>6. b = blocker(ss, J)
    BY <1>2, <1>5, <2>3, <2>5, Zenon DEF blocker
  <2>7. b # 0 => rs[b] = ss[b]
    <3>1. U \subseteq Nat
      BY <1>1, <2>3, Indices
    <3>2. b = 0 \/ b \in U
      BY <2>4, <3>1, FirstOfKindIs
    <3> QED
      BY <1>3, <2>3, <3>2
  <2>8. UndetectedVerdict(rs, I, NoScore) = UndetectedVerdict(ss, J, NoScore)
    BY <2>1, <2>6, <2>7, Zenon DEF UndetectedVerdict
  <2>9. /\ DiscreteVerdict(rs, I) = UndetectedVerdict(rs, I, NoScore)
        /\ DiscreteVerdict(ss, J) = UndetectedVerdict(ss, J, NoScore)
    BY <1>2, <1>5, <1>10, Zenon DEF DiscreteVerdict
  <2> QED
    BY <1>1, <1>4, <2>8, <2>9
<1> QED
  BY <1>9, <1>10

\* Whether anything usable came out stays.
LEMMA StillErrored ==
    ASSUME NEW rs \in Seq(PossibleResults), NEW r \in PossibleResults,
           r.advisory, ~ isDetection(r),
           \E i \in by_category(rs, r.category) : ~ rs[i].advisory
    PROVE  all_errored(Append(rs, r)) = all_errored(rs)
<1>1. PICK ss, n, a : /\ ss = Append(rs, r) /\ n = Len(rs) + 1 /\ a = r.category
  OBVIOUS
<1>2. /\ DOMAIN ss = DOMAIN rs \cup {n} /\ ss[n] = r
      /\ \A i \in DOMAIN rs : ss[i] = rs[i]
      /\ \A c : c # a => by_category(ss, c) = by_category(rs, c)
      /\ deciding(ss, by_category(ss, a)) = deciding(rs, by_category(rs, a))
  BY <1>1, SameAxis
<1>3. \A c : by_category(rs, c) \subseteq DOMAIN rs
  BY DEF by_category
<1>4. CategoriesOf(ss) = CategoriesOf(rs)
  <2>1. a \in CategoriesOf(rs)
    BY <1>1 DEF CategoriesOf, by_category
  <2> QED
    BY <1>1, <1>2, <2>1 DEF CategoriesOf
<1>5. \A c : deciding(ss, by_category(ss, c)) = deciding(rs, by_category(rs, c))
  <2> SUFFICES ASSUME NEW c, c # a
               PROVE  deciding(ss, by_category(rs, c)) = deciding(rs, by_category(rs, c))
    BY <1>2
  <2>1. \A i \in by_category(rs, c) : ss[i] = rs[i]
    BY <1>2, <1>3
  <2> QED
    BY <2>1, DecidingIs
<1>6. DecidingOf(ss) = DecidingOf(rs)
  BY <1>4, <1>5 DEF DecidingOf
<1>7. DecidingOf(rs) \subseteq DOMAIN rs
  BY <1>3, DecidingSubset DEF DecidingOf
<1>8. detected(ss) <=> detected(rs)
  BY <1>1, <1>2 DEF detected
<1>9. all_errored(ss) <=> all_errored(rs)
  BY <1>2, <1>6, <1>7, <1>8 DEF all_errored
<1>10. all_errored(ss) \in BOOLEAN /\ all_errored(rs) \in BOOLEAN
  BY Zenon DEF all_errored
<1> QED
  BY <1>1, <1>9, <1>10

\* The kind of the axis stays, scored or not.
LEMMA KindStays ==
    ASSUME NEW rs \in Seq(PossibleResults), NEW r \in PossibleResults,
           r.advisory, ~ isDetection(r),
           \E i \in by_category(rs, r.category) : ~ rs[i].advisory
    PROVE  verdict(Append(rs, r), r.category).kind = verdict(rs, r.category).kind
<1>1. PICK ss, c, I, J : /\ ss = Append(rs, r) /\ c = r.category
                         /\ I = by_category(rs, c) /\ J = by_category(ss, c)
  OBVIOUS
<1>2. PICK v, w, D : /\ v = verdict(rs, c) /\ w = verdict(ss, c)
                     /\ D = deciding(rs, I)
  OBVIOUS
<1>3. ss \in Seq(PossibleResults)
  BY <1>1, AppendProperties
<1>4. VerdictIs(rs, c, v) /\ VerdictIs(ss, c, w)
  BY <1>2, <1>3, VerdictOfAxis
<1>5. /\ \A i \in I : ss[i] = rs[i]
      /\ D = deciding(ss, J) /\ I \subseteq J
      /\ {i \in J : isDetection(ss[i])} = {i \in I : isDetection(rs[i])}
  <2>1. J = I \cup {Len(rs) + 1}
    BY <1>1, SameAxis, Zenon
  <2>2. \A i \in I : ss[i] = rs[i]
    BY <1>1, SameAxis
  <2>3. deciding(ss, J) = deciding(rs, I)
    BY <1>1, SameAxis, Zenon
  <2>4. {i \in J : isDetection(ss[i])} = {i \in I : isDetection(rs[i])}
    BY <1>1, SameAxis
  <2> QED
    BY <1>2, <2>1, <2>2, <2>3, <2>4, Zenon
<1>6. D \subseteq I
  BY <1>2, DecidingSubset
<1>7. \A kind : Has(rs, D, kind) <=> Has(ss, D, kind)
  BY <1>5, <1>6 DEF Has
<1>8. \A kind \in {"malware", "flagged"} : Has(rs, I, kind) <=> Has(ss, J, kind)
  BY <1>5 DEF Has, isDetection
<1>9. v.kind = w.kind
  BY <1>1, <1>2, <1>4, <1>5, <1>7, <1>8 DEF VerdictIs
<1> QED
  BY <1>1, <1>2, <1>9

\* Of the scores of an axis one is the highest.
LEMMA MaxScoreIs ==
    ASSUME NEW rs \in Seq(PossibleResults), NEW I \in SUBSET (1..Len(rs))
    PROVE  /\ MaxScore(rs, I) \in Scores(rs, I) \cup {NoScore}
           /\ MaxScore(rs, I) \in Int
           /\ \A i \in I : rs[i].score <= MaxScore(rs, I)
<1> DEFINE n == Len(rs)
           H == {k \in I : rs[k].score # NoScore}
           key == [i \in 1..n |-> rs[i].score]
<1>1. n \in Nat /\ \A i \in 1..n : rs[i].score \in Nat \cup {NoScore}
  BY LenProperties, ResultFacts
<1>2. key \in [1..n -> Int] /\ H \in SUBSET (1..n) /\ \A i \in 1..n : key[i] = rs[i].score
  <2>1. key \in [1..n -> Int]
    BY <1>1 DEF NoScore
  <2>2. H \in SUBSET (1..n)
    OBVIOUS
  <2>3. \A i \in 1..n : key[i] = rs[i].score
    OBVIOUS
  <2> QED
    BY <2>1, <2>2, <2>3, Zenon
<1>3. PICK T, m : T = Scores(rs, I) /\ m = MaxScore(rs, I)
  OBVIOUS
<1>4. T = {rs[i].score : i \in H}
  BY <1>3, Zenon DEF Scores
<1>5. \A i \in I : i \in H \/ rs[i].score = NoScore
  OBVIOUS
<1>6. CASE H = {}
  <2>1. T = {}
    BY <1>4, <1>6
  <2>2. m = NoScore
    BY <1>3, <2>1, Zenon DEF MaxScore
  <2>3. \A i \in I : rs[i].score <= m
    BY <1>5, <1>6, <2>2 DEF NoScore
  <2> QED
    BY <1>3, <2>2, <2>3 DEF NoScore
<1>7. CASE H # {}
  <2>1. PICK i \in H : \A k \in H : key[k] <= key[i]
    <3> HIDE DEF key, H
    <3> QED
      BY <1>1, <1>2, <1>7, MaxKey
  <2>2. PICK x : x = rs[i].score
    OBVIOUS
  <2>3. x \in T /\ T \subseteq Nat /\ \A y \in T : x >= y
    BY <1>1, <1>2, <1>4, <2>1, <2>2
  <2>4. T # {}
    BY <2>3
  <2>5. m = Max(T)
    BY <1>3, <2>4, Zenon DEF MaxScore
  <2>6. m \in T /\ \A y \in T : m >= y
    BY <2>3, <2>5, Zenon DEF Max
  <2>7. m \in Nat
    BY <2>3, <2>6
  <2>8. ASSUME NEW j \in I PROVE rs[j].score <= m
    <3>1. CASE j \in H
      <4>1. rs[j].score \in T
        BY <1>4, <3>1
      <4> QED
        BY <2>3, <2>6, <2>7, <4>1
    <3>2. CASE rs[j].score = NoScore
      BY <2>7, <3>2 DEF NoScore
    <3> QED
      BY <1>5, <3>1, <3>2
  <2> QED
    BY <1>3, <2>6, <2>7, <2>8
<1> QED
  BY <1>6, <1>7

\* A scored result cannot lower the score of the axis.
LEMMA ScoreRises ==
    ASSUME NEW rs \in Seq(PossibleResults), NEW r \in PossibleResults,
           r.advisory, ~ isDetection(r), r.scored,
           \E i \in by_category(rs, r.category) : ~ rs[i].advisory
    PROVE  verdict(Append(rs, r), r.category).score >= verdict(rs, r.category).score
<1>1. PICK ss, c, I, J : /\ ss = Append(rs, r) /\ c = r.category
                         /\ I = by_category(rs, c) /\ J = by_category(ss, c)
  OBVIOUS
<1>2. PICK v, w, m, k : /\ v = verdict(rs, c) /\ w = verdict(ss, c)
                        /\ m = MaxScore(rs, I) /\ k = MaxScore(ss, J)
  OBVIOUS
<1>3. ss \in Seq(PossibleResults)
  BY <1>1, AppendProperties
<1>4. PICK n : n = Len(rs) + 1
  OBVIOUS
<1>5. J = I \cup {n} /\ ss[n] = r /\ \A i \in I : ss[i] = rs[i]
  BY <1>1, <1>4, SameAxis
<1>6. I \in SUBSET (1..Len(rs)) /\ J \in SUBSET (1..Len(ss))
  BY <1>1, <1>3, Indices
<1>7. m \in Scores(rs, I) \cup {NoScore} /\ m \in Int
  BY <1>2, <1>6, MaxScoreIs
<1>8. /\ k \in Scores(ss, J) \cup {NoScore} /\ k \in Int
      /\ \A j \in J : ss[j].score <= k
  BY <1>2, <1>3, <1>6, MaxScoreIs
<1>9. m <= k
  <2>1. CASE m = NoScore
    <3>1. k \in Nat \/ k = NoScore
      <4>1. \A j \in J : ss[j].score \in Nat \cup {NoScore}
        BY <1>3, <1>1, Indices, ResultFacts
      <4> QED
        BY <1>8, <4>1 DEF Scores
    <3> QED
      BY <2>1, <3>1 DEF NoScore
  <2>2. CASE m \in Scores(rs, I)
    <3>1. PICK i \in I : m = rs[i].score
      BY <2>2 DEF Scores
    <3>2. i \in J /\ ss[i].score = m
      BY <1>5, <3>1
    <3> QED
      BY <1>8, <3>2
  <2> QED
    BY <1>7, <2>1, <2>2
<1>10. v.kind = w.kind
  BY <1>1, <1>2, KindStays
<1>11. (\A i \in I : rs[i].scored) <=> (\A j \in J : ss[j].scored)
  BY <1>5
<1>12. v.score = IF (\A i \in I : rs[i].scored) /\ v.kind \in {"flagged", "clean"}
                 THEN m ELSE NoScore
  BY <1>1, <1>2, ScoreIs, Zenon
<1>13. w.score = IF (\A j \in J : ss[j].scored) /\ w.kind \in {"flagged", "clean"}
                 THEN k ELSE NoScore
  BY <1>1, <1>2, <1>3, ScoreIs, Zenon
<1>14. w.score >= v.score
  BY <1>7, <1>8, <1>9, <1>10, <1>11, <1>12, <1>13 DEF NoScore
<1> QED
  BY <1>1, <1>2, <1>14

\* One more advisory scanner that detects nothing leaves what its axis says and
\* whether the report is usable, scored or not; it can only raise the score of a
\* scored axis, in a report of any length (scanner.py:241-274, 311-328).
THEOREM Advisory == Spec => AdvisoryOnlyAddsDetections
<1> DEFINE A == LET r == results'[Len(results')]
                    I == by_category(results, r.category)
                    before == verdict(results, r.category)
                    after == verdict(results', r.category)
                IN  (r.advisory /\ ~ isDetection(r) /\ \E i \in I : ~ results[i].advisory)
                      => /\ after.kind = before.kind
                         /\ all_errored(results') = all_errored(results)
                         /\ (\E i \in I : ~ results[i].scored) => after = before
                         /\ r.scored => after.score >= before.score
<1>1. TypeInv /\ [Next]_results => [A]_results
  <2> SUFFICES ASSUME TypeInv, Next PROVE A
    BY Zenon
  <2>1. PICK r \in PossibleResults : results' = Append(results, r)
    BY DEF Next, Collect
  <2>2. results \in Seq(PossibleResults)
    BY DEF TypeInv
  <2>3. Append(results, r)[Len(Append(results, r))] = r
    BY <2>2, AppendProperties
  <2>4. results'[Len(results')] = r
    BY <2>1, <2>3
  <2>5. ASSUME r.advisory, ~ isDetection(r),
               \E i \in by_category(results, r.category) : ~ results[i].advisory
        PROVE  /\ verdict(Append(results, r), r.category).kind
                    = verdict(results, r.category).kind
               /\ all_errored(Append(results, r)) = all_errored(results)
               /\ (\E i \in by_category(results, r.category) : ~ results[i].scored)
                    => verdict(Append(results, r), r.category) = verdict(results, r.category)
               /\ r.scored => verdict(Append(results, r), r.category).score
                                >= verdict(results, r.category).score
    BY <2>2, <2>5, SameVerdict, StillErrored, KindStays, ScoreRises
  <2> QED
    BY <2>1, <2>4, <2>5, Zenon
<1>2. Spec => [][A]_results
  BY <1>1, TypeInvariance, PTL DEF Spec
<1> QED
  BY <1>2 DEF AdvisoryOnlyAddsDetections

=============================================================================
