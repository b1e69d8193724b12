----------------------------- MODULE ScanRequest ----------------------------
(***************************************************************************)
(* One scan request, from the boot of the service to its answer: the boot  *)
(* check (app.py, lifespan), the selection of scanners and the size checks *)
(* of both endpoints (app.py, scan and scan_async), the scanners running   *)
(* in parallel (scanner.py, run_scanners) against their engines            *)
(* (scanners/), and the answer.  The queue between the two halves of an    *)
(* asynchronous scan, its retries and its channels are in AsyncScan; here  *)
(* the report of a scan is answered at once.                               *)
(*                                                                         *)
(* Requests share no state but the registry's cache of backends, which is  *)
(* only ever filled: one request is enough.                                *)
(***************************************************************************)
EXTENDS Wire, Registry, Backends

CONSTANTS
    Configs,        \* the configurations the service may be started with
    Requests        \* [endpoint, categories, scanners, size, infected]

\* What the settings and the query parameters of a request are made of.
ASSUME RequestAssumption ==
    /\ \A cfg \in Configs :
          /\ \A cat \in DOMAIN cfg.cat_map : cfg.cat_map[cat] \in Seq(STRING)
          /\ cfg.default_categories \in Seq(STRING)
          /\ cfg.max_url_size \in Nat /\ cfg.max_upload_size \in Nat
    /\ \A r \in Requests :
          /\ r.endpoint \in {"sync", "async"}
          /\ r.categories \in Seq(STRING) /\ r.scanners \in Seq(STRING)
          /\ r.size \in Nat /\ r.infected \in BOOLEAN

\* The backends that ship (_BUILDERS): unscored engines for malware.  The size
\* check names clamav, and which scanners decide is asked of the whole
\* selection: on more axes than one that would not be who decides each.
ASSUME ShippedAssumption ==
    /\ Builders \subseteq {"clamav", "exav", "jcop"}
    /\ \A n \in Builders : CategoryOf[n] = "malware" /\ ~ ScoredOf[n]

VARIABLES
    config,         \* the configuration, fixed at boot
    stage,          \* "boot", "serving", "scanning", "answered" or "down"
    req,            \* the request
    names,          \* the selection, in order
    results,        \* results[n]: what scanner n found, once it has finished
    answer          \* [code, payload]

vars == <<config, stage, req, names, results, answer>>

NoResult == [kind |-> "none"]
NoAnswer == [code |-> 0, payload |-> Payload("none", "none", NoVerdicts)]
NoRequest == [endpoint |-> "none"]

Init ==
    /\ config \in Configs
    /\ stage = "boot"
    /\ req = NoRequest
    /\ names = NoSelection
    /\ results = [n \in Builders |-> NoResult]
    /\ answer = NoAnswer

\* lifespan: the service serves only a configuration that validates.
Boot ==
    /\ stage = "boot"
    /\ stage' = IF validate_registry(config) THEN "serving" ELSE "down"
    /\ UNCHANGED <<config, req, names, results, answer>>

Answer(code, payload) ==
    /\ stage' = "answered"
    /\ answer' = [code |-> code, payload |-> payload]

Refuse(code) == Answer(code, NoAnswer.payload)

\* scan: a bad selection, a file over the cap, a selection that cannot decide
\* at that cap.
Scan(r) ==
    LET selection == resolve_scanners(config, r.categories, r.scanners)
    IN  IF selection = NoSelection THEN Refuse(400) /\ UNCHANGED names
        ELSE IF r.size > config.max_upload_size THEN Refuse(413) /\ UNCHANGED names
        ELSE IF ~ assert_size_cap_decidable(config, selection, config.max_upload_size)
        THEN Refuse(400) /\ UNCHANGED names
        ELSE stage' = "scanning" /\ names' = selection /\ UNCHANGED answer

\* scan_async, and the size limit of the download (see Download).
ScanAsync(r) ==
    LET selection == resolve_scanners(config, r.categories, r.scanners)
    IN  IF selection = NoSelection
           \/ ~ assert_size_cap_decidable(config, selection, config.max_url_size)
        THEN Refuse(400) /\ UNCHANGED names
        ELSE IF r.size > config.max_url_size
        THEN Answer(200, Payload("error", "file", NoVerdicts)) /\ UNCHANGED names
        ELSE stage' = "scanning" /\ names' = selection /\ UNCHANGED answer

Receive(r) ==
    /\ stage = "serving"
    /\ req' = r
    /\ IF r.endpoint = "sync" THEN Scan(r) ELSE ScanAsync(r)
    /\ UNCHANGED <<config, results>>

-----------------------------------------------------------------------------
(* The engines (external), on the file of the request.  An engine that     *)
(* reads the file in full finds what there is to find; it may also fail    *)
(* in any of its ways.  clamd does not read past its limit, and says OK.   *)

Found == IF req.infected THEN "FOUND" ELSE "OK"

clamd == (ClamdReplies \ {"OK", "FOUND"})
            \cup {IF req.size > CLAMAV_MAX_FILE_BYTES THEN "OK" ELSE Found}

exavd == (ExavReplies \ {"OK", "FOUND"}) \cup {Found}

jcop == {c \in JcopContents : c.is_malware \in {"none", IF req.infected THEN "true" ELSE "false"}}

\* The kinds of result the backend of scanner n can come to, crashing included.
Kind(n) ==
    {"error"} \cup
    CASE n = "clamav" -> {clamav_scan(reply) : reply \in clamd}
      [] n = "exav" -> {exav_scan(reply) : reply \in exavd}
      [] n = "jcop" -> {jcop_verdict(content) : content \in jcop}

\* _one, in the thread of scanner n: whatever it raises becomes an error
\* result.  No shipped backend is scored.
One(n, kind) ==
    /\ stage = "scanning"
    /\ n \in ToSet(names)
    /\ results[n] = NoResult
    /\ results' = [results EXCEPT ![n] =
          [category |-> CategoryOf[n], kind |-> kind, score |-> NoScore,
           scored |-> ScoredOf[n], advisory |-> n \in config.advisory]]
    /\ UNCHANGED <<config, stage, req, names, answer>>

\* pool.map: the results in the order of the names.
Report == [i \in DOMAIN names |-> results[names[i]]]

\* The pool has joined: a sync scan that nothing usable came out of is a 503.
Finish ==
    /\ stage = "scanning"
    /\ \A n \in ToSet(names) : results[n] # NoResult
    /\ IF req.endpoint = "sync"
       THEN IF all_errored(Report) THEN Refuse(503)
            ELSE Answer(200, Payload("none", "none", verdicts(Report)))
       ELSE Answer(200, ReportPayload(Report))
    /\ UNCHANGED <<config, req, names, results>>

Next ==
    \/ Boot
    \/ \E r \in Requests : Receive(r)
    \/ \E n \in ToSet(names) : \E kind \in Kind(n) : One(n, kind)
    \/ Finish

Spec == Init /\ [][Next]_vars

-----------------------------------------------------------------------------

Decisions == {Caller(serialize(answer.payload, v)) : v \in Versions}

\* No caller of either version is led to release an infected file, through any
\* configuration that boots, any selection and any failure of the engines; in
\* particular clamd's OK on a file it skipped never stands (scanner.py:477-488,
\* 541-557).
InfectedNeverReleased ==
    answer.code = 200 /\ req.infected => "release" \notin Decisions

\* The boot check covers the default selection: a service that boots with a
\* default never answers 400 to a request that leaves the selection to it
\* (scanner.py:481-483, "Boot checks the default selection").
DefaultSelectionServed ==
    stage # "boot" /\ stage # "down" /\ config.default_categories # << >>
      /\ req # NoRequest
      => (req.categories = << >> /\ req.scanners = << >> => answer.code # 400)

\* "Unavailable" (a 503, or "all scanners failed") is said only when nothing
\* usable came out: every engine of the selection failed, but for advisory ones
\* that found nothing next to a deciding one (scanner.py:241-260).
UnavailableIsTruthful ==
    LET ignored(n) == /\ n \in config.advisory
                      /\ ~ isDetection(results[n])
                      /\ ~ (ToSet(names) \subseteq config.advisory)
    IN  answer.code = 503 \/ answer.payload.error_kind = "transient" =>
            \A n \in ToSet(names) : results[n].kind = "error" \/ ignored(n)
=============================================================================
