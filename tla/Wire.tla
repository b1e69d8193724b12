-------------------------------- MODULE Wire --------------------------------
(***************************************************************************)
(* The shape of an answer per API version (wire.py).  A canonical payload  *)
(* (v2) is the record                                                      *)
(*   status     "pending", "done" or "error"; "none" in a synchronous      *)
(*              answer, which has no job envelope                          *)
(*   error_kind "file", "transient" or "none"                              *)
(*   verdicts   a function from the categories scanned to their verdicts;  *)
(*              empty when the payload carries no "verdicts" key           *)
(* Messages, file names and metadata pass through untouched and are left   *)
(* out.                                                                    *)
(***************************************************************************)
EXTENDS ScanReport

V1 == "v1.0"
V2 == "v2.0"
Versions == {V1, V2}

NoVerdicts == [c \in {} |-> 0]

Payload(status, error_kind, vs) ==
    [status |-> status, error_kind |-> error_kind, verdicts |-> vs]

\* The payload _deliver builds from a report.
ReportPayload(rs) ==
    IF all_errored(rs) THEN Payload("error", "transient", verdicts(rs))
                       ELSE Payload("done", "none", verdicts(rs))

Scalar(t, score) == [type |-> t, score |-> score]

\* A plausible slip in _scalar: only "malware" is a hit.
MutScalarOnlyMalware(v) ==
    CASE v.kind = "malware" -> Scalar("true", NoScore)
      [] v.kind \in {"flagged", "clean"} /\ v.score # NoScore -> Scalar("score", v.score)
      [] v.kind \in {"flagged", "clean"} /\ v.score = NoScore -> Scalar("false", NoScore)
      [] OTHER -> Scalar("none", NoScore)

\* _scalar: one category's verdict as the v1 scalar of that axis.
scalar(v) ==
    CASE v.kind = "malware" -> Scalar("true", NoScore)
      [] v.kind \in {"flagged", "clean"} /\ v.score # NoScore -> Scalar("score", v.score)
      [] v.kind = "flagged" /\ v.score = NoScore -> Scalar("true", NoScore)
      [] v.kind = "clean" /\ v.score = NoScore -> Scalar("false", NoScore)
      [] OTHER -> Scalar("none", NoScore)

\* The error_kind that to_v1 derives for an unanswered malware axis.
DerivedErrorKind(vs) ==
    IF "malware" \notin DOMAIN vs THEN "none"
    ELSE CASE vs["malware"].kind = "partial" -> "file"
           [] vs["malware"].kind = "error" -> "transient"
           [] OTHER -> "none"

\* to_v1: the scalars replace the verdicts, and error_kind is set when the
\* job envelope has not set it (setdefault).
to_v1(p) ==
    [api_version |-> V1, status |-> p.status,
     error_kind |-> IF p.error_kind # "none" THEN p.error_kind
                                             ELSE DerivedErrorKind(p.verdicts),
     axes |-> [c \in DOMAIN p.verdicts |-> scalar(p.verdicts[c])]]

\* serialize: the payload in the shape of a version, stamped with it.
serialize(p, version) ==
    IF version = V1 THEN to_v1(p)
    ELSE [api_version |-> V2, status |-> p.status, error_kind |-> p.error_kind,
          axes |-> p.verdicts]

-----------------------------------------------------------------------------
(* What a caller does with an answer, on the malware axis: the rule of     *)
(* docs/api.md:204-211 ("retry on status: error or a kind of error, block  *)
(* on malware / flagged / partial, release only on clean, and treat        *)
(* anything it does not recognise as a block", error_kind "file" meaning   *)
(* that retrying is pointless), read from each shape.                      *)

CallerOfV2(b) ==
    IF b.error_kind = "file" THEN "block"
    ELSE IF b.error_kind = "transient" \/ b.status = "error" THEN "retry"
    ELSE IF b.status = "pending" THEN "wait"
    ELSE IF "malware" \notin DOMAIN b.axes THEN "unscanned"
    ELSE CASE b.axes["malware"].kind = "clean" -> "release"
           [] b.axes["malware"].kind = "error" -> "retry"
           [] OTHER -> "block"

\* A v1 caller reads True, False or None off the axis; error_kind says why
\* a None is one.  A scored axis gives a number, read against a threshold
\* of the caller's own: it is left out of the comparison.
CallerOfV1(b) ==
    IF b.error_kind = "file" THEN "block"
    ELSE IF b.error_kind = "transient" \/ b.status = "error" THEN "retry"
    ELSE IF b.status = "pending" THEN "wait"
    ELSE IF "malware" \notin DOMAIN b.axes THEN "unscanned"
    ELSE IF b.axes["malware"].type = "false" THEN "release" ELSE "block"

Caller(b) == IF b.api_version = V1 THEN CallerOfV1(b) ELSE CallerOfV2(b)
=============================================================================
