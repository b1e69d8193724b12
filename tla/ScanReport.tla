----------------------------- MODULE ScanReport -----------------------------
(***************************************************************************)
(* The combined outcome of running several scanners on one file            *)
(* (scanner.py, ScannerResult and ScanReport): pure operators on a         *)
(* sequence of results.                                                    *)
(*                                                                         *)
(* A result keeps what the aggregation tells apart.  Its reason and its    *)
(* inner location are free text: a verdict names the result it quotes      *)
(* (its index, 0 for none) instead of carrying them.  A score is an        *)
(* integer, NoScore standing for None.                                     *)
(***************************************************************************)
EXTENDS Integers, Sequences, FiniteSets, FiniteSetsExt

CONSTANT Categories          \* the axes a scanner can feed
ASSUME CategoriesAssumption == "malware" \in Categories

Kinds == {"clean", "malware", "flagged", "partial", "error"}

NoScore == -1

\* ScannerResult: one scanner's outcome for the file.
ScannerResult ==
    [category : Categories, kind : Kinds, score : Int, scored : BOOLEAN,
     advisory : BOOLEAN]

\* The scanner did not examine the whole file.
incomplete(r) == r.kind \in {"error", "partial"}

isDetection(r) == r.kind \in {"malware", "flagged"}

\* ScanReport.detected: any scanner, advisory ones included, on any axis.
detected(rs) == \E i \in DOMAIN rs : isDetection(rs[i])

\* ScanReport._by_category: the indices of the results of one category.
by_category(rs, c) == {i \in DOMAIN rs : rs[i].category = c}

CategoriesOf(rs) == {rs[i].category : i \in DOMAIN rs}

\* A plausible slip in _deciding: the advisory flag is forgotten.
MutDecidingEveryone(rs, I) == I

\* ScanReport._deciding, on a set of indices: the non-advisory results, or all
\* of them when only advisory scanners ran.
deciding(rs, I) ==
    LET firm == {i \in I : ~ rs[i].advisory}
    IN  IF firm = {} THEN I ELSE firm

\* The results that decide some category of the report.
DecidingOf(rs) == UNION {deciding(rs, by_category(rs, c)) : c \in CategoriesOf(rs)}

\* A plausible slip in all_errored: a detection does not keep the job.
MutAllErroredDespiteDetection(rs) ==
    LET D == DecidingOf(rs)
    IN  D # {} /\ \A i \in D : rs[i].kind = "error"

\* Another: one failure is enough.
MutAllErroredAny(rs) == ~ detected(rs) /\ \E i \in DecidingOf(rs) : rs[i].kind = "error"

\* ScanReport.all_errored: nothing usable came out of this scan.
all_errored(rs) ==
    /\ ~ detected(rs)
    /\ DecidingOf(rs) # {}
    /\ \A i \in DecidingOf(rs) : rs[i].kind = "error"

-----------------------------------------------------------------------------
(* ScanReport.verdicts, one category at a time.                            *)

\* CategoryVerdict.  "from" is the result whose reason is quoted, "located"
\* says that its location is quoted as well.
CategoryVerdict(kind, from, score, located) ==
    [kind |-> kind, from |-> from, score |-> score, located |-> located]

\* next((r for r in rs if r.kind == kind), default): the first result of
\* that kind among the indices I, or the first of I, or 0 when I is empty.
FirstOfKind(rs, I, kind) ==
    LET ofKind == {i \in I : rs[i].kind = kind}
    IN  IF ofKind # {} THEN Min(ofKind) ELSE IF I # {} THEN Min(I) ELSE 0

\* A plausible slip: the first incomplete result blocks, whatever its kind.
MutBlockerFirst(rs, I) ==
    LET unfinished == {i \in deciding(rs, I) : incomplete(rs[i])}
    IN  IF unfinished # {} THEN Min(unfinished) ELSE 0

\* The deciding result that keeps the axis from being asserted, 0 for none:
\* an error if there is one, else a partial.
blocker(rs, I) ==
    FirstOfKind(rs, {i \in deciding(rs, I) : incomplete(rs[i])}, "error")

Scores(rs, I) == {rs[i].score : i \in {k \in I : rs[k].score # NoScore}}

MaxScore(rs, I) == IF Scores(rs, I) = {} THEN NoScore ELSE Max(Scores(rs, I))

\* max(hits, key=lambda r: r.score or 0.0): the first hit of highest score.
TopHit(rs, hits) ==
    LET key(i) == IF rs[i].score = NoScore THEN 0 ELSE rs[i].score
    IN  Min({i \in hits : \A k \in hits : key(k) <= key(i)})

\* The verdict of an axis on which nothing was detected.
UndetectedVerdict(rs, I, cleanScore) ==
    LET b == blocker(rs, I)
    IN  IF b # 0 THEN CategoryVerdict(rs[b].kind, b, NoScore, FALSE)
                 ELSE CategoryVerdict("clean", 0, cleanScore, FALSE)

\* A scored axis (nsfw and the like): only "flagged" is read as a hit, and
\* the highest score of the axis is reported.
ScoredVerdict(rs, I) ==
    LET hits == {i \in I : rs[i].kind = "flagged"}
    IN  IF hits # {} THEN CategoryVerdict("flagged", TopHit(rs, hits), MaxScore(rs, I), FALSE)
                     ELSE UndetectedVerdict(rs, I, MaxScore(rs, I))

\* A discrete axis: a detection from any scanner, malware first.
DiscreteVerdict(rs, I) ==
    LET detections == {i \in I : isDetection(rs[i])}
        top == FirstOfKind(rs, detections, "malware")
    IN  IF detections # {} THEN CategoryVerdict(rs[top].kind, top, NoScore, TRUE)
                           ELSE UndetectedVerdict(rs, I, NoScore)

\* A plausible slip: one scored result makes the whole axis a scored one.
MutVerdictAnyScored(rs, c) ==
    LET I == by_category(rs, c)
    IN  IF \E i \in I : rs[i].scored THEN ScoredVerdict(rs, I) ELSE DiscreteVerdict(rs, I)

\* The verdict of category c, which has at least one result.
verdict(rs, c) ==
    LET I == by_category(rs, c)
    IN  IF \A i \in I : rs[i].scored THEN ScoredVerdict(rs, I) ELSE DiscreteVerdict(rs, I)

\* ScanReport.verdicts: a verdict for every category that has a result.
verdicts(rs) == [c \in CategoriesOf(rs) |-> verdict(rs, c)]
=============================================================================
