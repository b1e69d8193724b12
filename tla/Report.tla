------------------------------- MODULE Report -------------------------------
(***************************************************************************)
(* A report being put together: the results of a selection of scanners     *)
(* are collected one after the other (scanner.py, run_scanners), and after *)
(* each one the report is aggregated and serialized.  The properties say   *)
(* what the aggregation must get right for every report, and what one more *)
(* scanner in the selection may change.                                    *)
(***************************************************************************)
EXTENDS Wire, SequencesExt

CONSTANTS
    ScoreValues,     \* scores a scored backend may report
    MaxResults       \* bound on the scanners of one selection

ASSUME ReportAssumption == MaxResults \in Nat /\ ScoreValues \subseteq Nat

VARIABLE results

\* What one scanner may report: an error carries no score (run_scanners
\* leaves it None), a discrete axis none either, and a scored backend speaks
\* of "flagged", never of "malware".
PossibleResult(r) ==
    /\ r.scored => r.kind # "malware"
    /\ (~ r.scored \/ r.kind = "error") => r.score = NoScore

PossibleResults ==
    {r \in [category : Categories, kind : Kinds, score : ScoreValues \cup {NoScore},
            scored : BOOLEAN, advisory : BOOLEAN] : PossibleResult(r)}

Init == results = << >>

Collect(r) ==
    /\ Len(results) < MaxResults
    /\ results' = Append(results, r)

Next == \E r \in PossibleResults : Collect(r)

Spec == Init /\ [][Next]_results

-----------------------------------------------------------------------------

\* Reference definition of an axis (the two rules of the docstring of
\* ScanReport.verdicts, scanner.py:280-296): every claim that counts, and the
\* strongest of them.
Strength(kind) ==
    CASE kind = "malware" -> 4 [] kind = "flagged" -> 3 [] kind = "error" -> 2
      [] kind = "partial" -> 1 [] kind = "clean" -> 0

Claims(rs, c) ==
    LET I == by_category(rs, c)
        decides(i) == rs[i].advisory => \A k \in I : rs[k].advisory
    IN  {rs[i].kind : i \in {k \in I : isDetection(rs[k])
                                       \/ (decides(k) /\ incomplete(rs[k]))}}

\* ScanReport.verdicts answers each axis with the strongest claim that counts:
\* malware > flagged > error > partial > clean, detections from anyone,
\* failures only from deciding scanners; and the result it quotes made that claim
\* (scanner.py:276-342).  So "clean" needs a full read by every deciding engine, and
\* one more scanner never hides a detection.
VerdictIsStrongestClaim ==
    \A c \in CategoriesOf(results) :
        LET v == verdict(results, c)
        IN  /\ Strength(v.kind) = Max({Strength(k) : k \in Claims(results, c) \cup {"clean"}})
            /\ v.from = 0 <=> v.kind = "clean"
            /\ v.from # 0 => v.from \in by_category(results, c) /\ results[v.from].kind = v.kind

\* When a job is reported as failed because nothing usable came out
\* (all_errored), the attached verdicts are all "error" and none is a
\* detection: the report and the envelope of the answer agree
\* (scanner.py:241-260, docs/api.md:189-194).
UnusableMeansEveryAxisFailed ==
    all_errored(results) =>
        /\ results # << >>
        /\ \A c \in CategoriesOf(results) : verdict(results, c).kind = "error"

\* The order of the names in a request is not part of the question: the kind
\* and the score of every axis, and all_errored, are the same for the
\* reversed selection (max with a key and next() are order sensitive).
OrderIndependent ==
    LET rev == Reverse(results)
    IN  /\ all_errored(rev) = all_errored(results)
        /\ \A c \in CategoriesOf(results) :
              /\ verdict(rev, c).kind = verdict(results, c).kind
              /\ verdict(rev, c).score = verdict(results, c).score

\* The answer the code gives for the report: a synchronous one has no
\* envelope, an asynchronous one is "done", or "error" when all_errored.
Answers ==
    {Payload("none", "none", verdicts(results)),
     Payload("done", "none", verdicts(results)),
     IF all_errored(results) THEN Payload("error", "transient", verdicts(results))
                             ELSE Payload("done", "none", verdicts(results))}

\* Both versions of an answer lead their caller to the same decision on an
\* unscored malware axis; in particular a v1 caller never releases a file
\* that a v2 caller blocks or retries (wire.py:61-107).
VersionsAgree ==
    (\A i \in by_category(results, "malware") : ~ results[i].scored) =>
        \A p \in Answers :
            Caller(serialize(p, V1)) = Caller(serialize(p, V2))

-----------------------------------------------------------------------------

\* One more advisory scanner that detects nothing, next to a deciding sibling of its
\* axis, never changes what the axis says, nor whether the report is usable, scored or
\* not (scanner.py:241-274).  On a discrete axis the whole verdict stays.  On a scored
\* axis the highest score of all the results is reported, so a scored advisory result
\* may raise the score and never lower it (scanner.py:311, 326-328); an unscored one
\* makes the axis a discrete one, which reports no score.
AdvisoryOnlyAddsDetections ==
    [][LET r == results'[Len(results')]
           I == by_category(results, r.category)
           before == verdict(results, r.category)
           after == verdict(results', r.category)
       IN  (r.advisory /\ ~ isDetection(r) /\ \E i \in I : ~ results[i].advisory)
             => /\ after.kind = before.kind
                /\ all_errored(results') = all_errored(results)
                /\ (\E i \in I : ~ results[i].scored) => after = before
                /\ r.scored => after.score >= before.score]_results
=============================================================================
