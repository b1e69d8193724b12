------------------------------ MODULE Backends ------------------------------
(***************************************************************************)
(* What each backend makes of the reply of its engine (scanners/): the     *)
(* kind of the Verdict it returns, or "error" when it raises, which        *)
(* run_scanners turns into an error result.  A reply is named by what the  *)
(* code tells apart in it.                                                 *)
(***************************************************************************)

\* clamd over INSTREAM (scanners/clamav.py).
ClamdFailures == {"connection_error", "closed_mid_stream", "no_reply"}
ClamdReplies ==
    ClamdFailures \cup {"OK", "FOUND", "FOUND_limit", "ERROR_transient", "ERROR_other"}

\* ClamavScanner.scan: an ERROR is transient or the file cannot be scanned; a
\* FOUND named after a limit is a scan that was stopped, not a detection.
clamav_scan(reply) ==
    CASE reply \in ClamdFailures \cup {"ERROR_transient"} -> "error"
      [] reply = "OK" -> "clean"
      [] reply \in {"ERROR_other", "FOUND_limit"} -> "partial"
      [] reply = "FOUND" -> "malware"

\* exav over EXINSTREAM (scanners/exav.py).
ExavReplies ==
    {"connection_error", "unknown_command", "not_json", "OK", "FOUND", "PARTIAL", "ERROR",
     "unknown_status"}

\* ExavScanner.scan and _parse_verdict.
exav_scan(reply) ==
    CASE reply = "OK" -> "clean"
      [] reply = "FOUND" -> "malware"
      [] reply = "PARTIAL" -> "partial"
      [] OTHER -> "error"

\* A finished JCOP analysis (scanners/jcop.py): is_malware is true, false or
\* absent; error_code 413 or anything else.
JcopContents == [is_malware : {"true", "false", "none"}, too_large : BOOLEAN]

\* A plausible slip: anything that is not malware is clean.
MutJcopNotMalwareIsClean(content) ==
    IF content.is_malware = "true" THEN "malware" ELSE "clean"

\* JcopScanner._verdict: no clear answer is a partial, whatever its code.
jcop_verdict(content) ==
    CASE content.is_malware = "true" -> "malware"
      [] content.is_malware = "false" -> "clean"
      [] OTHER -> "partial"
=============================================================================
