-------------------------------- MODULE Jcop --------------------------------
(***************************************************************************)
(* One scan by the JCOP backend (scanners/jcop.py, _analyse and _submit):  *)
(* look the file up by its hash, submit it when it is unknown, and poll    *)
(* until the analysis is done or the budget is spent.  JCOP itself is      *)
(* external: it analyses in its own time, may know the file already, learn *)
(* it from another client, or forget it, and may fail any request.         *)
(*                                                                         *)
(* Time is counted in whole seconds from the start of the scan.  The       *)
(* timeouts given to requests bound the connection and each wait for the   *)
(* other side, not a whole exchange: an upload, or an answer that comes in *)
(* pieces, takes up to MaxDrip more.                                       *)
(***************************************************************************)
EXTENDS Integers, Backends

CONSTANTS
    RESULT_TIMEOUT,     \* JCOP_RESULT_TIMEOUT, connecting and reading
    SUBMIT_TIMEOUT,     \* JCOP_SUBMIT_TIMEOUT, the budget
    POLL_INTERVAL,      \* JCOP_POLL_INTERVAL
    CONNECT_TIMEOUT,    \* the 30 s of _submit
    MaxDrip             \* bound on the time no timeout limits: a body sent in pieces

ASSUME JcopAssumption ==
    /\ RESULT_TIMEOUT \in Nat
    /\ SUBMIT_TIMEOUT \in Nat
    /\ POLL_INTERVAL \in Nat \ {0}
    /\ CONNECT_TIMEOUT \in Nat
    /\ MaxDrip \in Nat

VARIABLES
    now,            \* time.monotonic(), from the start of the scan
    deadline,
    pc,             \* "lookup", "submit", "poll" or "done"
    outcome,        \* kind of the verdict, "error" for a ScannerError
    service,        \* JCOP on this file: "unknown", "analysing" or "finished"
    content,        \* what JCOP tells of the file, provisional until it has finished
    started,        \* history: when the last request was sent
    published       \* history: what the analyses that finished came to

jcopVars == <<now, deadline, pc, outcome, service, content, started, published>>

JcopInit ==
    /\ now = 0
    /\ deadline = SUBMIT_TIMEOUT
    /\ pc = "lookup"
    /\ outcome = "none"
    /\ service \in {"unknown", "analysing", "finished"}
    /\ content \in JcopContents
    /\ started = 0
    /\ published = IF service = "finished" THEN {content} ELSE {}

\* A new analysis of the file begins.
Learn == service' = "analysing" /\ content' \in JcopContents

\* JCOP goes on: it learns the file, finishes, or forgets it.
Service ==
    /\ \/ service = "unknown" /\ Learn /\ UNCHANGED published
       \/ /\ service = "analysing" /\ service' = "finished"
          /\ content' \in JcopContents /\ published' = published \cup {content'}
       \/ service = "finished" /\ service' = "unknown" /\ UNCHANGED <<content, published>>
    /\ UNCHANGED <<now, deadline, pc, outcome, started>>

Verdict(kind) == pc' = "done" /\ outcome' = kind
Goto(p) == pc' = p /\ UNCHANGED outcome

\* What a GET on results/ answers.
Answers ==
    {"401", "other", "failed"} \cup
    CASE service = "unknown" -> {"404"}
      [] service = "analysing" -> {"pending"}
      [] service = "finished" -> {"finished"}

RequestTime == 0..(2 * RESULT_TIMEOUT + MaxDrip)

\* The cache check by content hash.
Lookup(t, a) ==
    /\ pc = "lookup"
    /\ a \in Answers
    /\ started' = now /\ now' = now + t
    /\ CASE a = "finished" -> Verdict(jcop_verdict(content))
         [] a = "pending" -> Goto("poll")
         [] a = "404" -> Goto("submit")
         [] OTHER -> Verdict("error")
    /\ UNCHANGED <<deadline, service, content, published>>

\* A plausible slip: the budget starts again once the file is submitted.
MutSubmitResetsBudget(t, a) ==
    /\ pc = "submit"
    /\ now < deadline
    /\ t <= CONNECT_TIMEOUT + (deadline - now) + MaxDrip
    /\ started' = now /\ now' = now + t
    /\ deadline' = now' + SUBMIT_TIMEOUT
    /\ IF a = "ok" THEN Goto("poll") ELSE Verdict("error")
    /\ UNCHANGED <<service, content, published>>

\* _submit: connecting, sending the file in pieces, and waiting for what is left of
\* the budget; a request that failed may have reached JCOP.
Submit(t, a) ==
    /\ pc = "submit"
    /\ now < deadline
    /\ t <= CONNECT_TIMEOUT + (deadline - now) + MaxDrip
    /\ started' = now /\ now' = now + t
    /\ IF a = "ok" THEN Goto("poll") ELSE Verdict("error")
    /\ \/ a \in {"ok", "failed"} /\ service = "unknown" /\ Learn
       \/ (a = "ok" => service # "unknown") /\ UNCHANGED <<service, content>>
    /\ UNCHANGED <<deadline, published>>

SubmitTooLate ==
    /\ pc = "submit"
    /\ now >= deadline
    /\ Verdict("error")
    /\ UNCHANGED <<now, deadline, service, content, started, published>>

\* A plausible slip: a 200 is taken for a finished analysis.
MutPollAnyAnswer(t, a) ==
    /\ pc = "poll"
    /\ now < deadline
    /\ a \in Answers
    /\ started' = now + POLL_INTERVAL /\ now' = started' + t
    /\ CASE a \in {"finished", "pending"} -> Verdict(jcop_verdict(content))
         [] a \in {"401", "failed"} -> Verdict("error")
         [] OTHER -> Goto("poll")
    /\ UNCHANGED <<deadline, service, content, published>>

\* One turn of the polling loop: a pause, then a GET.
Poll(t, a) ==
    /\ pc = "poll"
    /\ now < deadline
    /\ a \in Answers
    /\ started' = now + POLL_INTERVAL /\ now' = started' + t
    /\ CASE a = "finished" -> Verdict(jcop_verdict(content))
         [] a \in {"401", "failed"} -> Verdict("error")
         [] OTHER -> Goto("poll")
    /\ UNCHANGED <<deadline, service, content, published>>

\* A plausible slip: past the deadline, the scan waits without giving up.
MutGiveUpNever == FALSE /\ UNCHANGED jcopVars

\* The budget is spent.
GiveUp ==
    /\ pc = "poll"
    /\ now >= deadline
    /\ Verdict("error")
    /\ UNCHANGED <<now, deadline, service, content, started, published>>

Client ==
    \/ \E t \in RequestTime, a \in Answers : Lookup(t, a) \/ Poll(t, a)
    \/ \E t \in 0..(CONNECT_TIMEOUT + SUBMIT_TIMEOUT + MaxDrip), a \in {"ok", "refused", "failed"} :
          Submit(t, a)
    \/ SubmitTooLate
    \/ GiveUp

JcopNext == Client \/ Service

JcopSpec == JcopInit /\ [][JcopNext]_jcopVars

\* The backend's thread keeps running; nothing is asked of JCOP.
FairSpec == JcopSpec /\ WF_jcopVars(Client)

-----------------------------------------------------------------------------

\* The type invariant.
TypeOK ==
    /\ now \in Nat
    /\ deadline \in Nat
    /\ pc \in {"lookup", "submit", "poll", "done"}
    /\ outcome \in {"none", "clean", "malware", "partial", "error"}
    /\ service \in {"unknown", "analysing", "finished"}
    /\ content \in JcopContents
    /\ started \in Nat
    /\ published \subseteq JcopContents
    /\ pc = "done" <=> outcome # "none"

\* Only an analysis that has finished decides, and it is not bent: the file is clean
\* or malware only when an analysis JCOP finished says so outright, and partial when
\* one came to nothing, although JCOP tells provisional things of an analysis under
\* way and may forget the file and take it up again between two polls
\* (jcop.py:128-131, 144-147, 155-167).
FinishedAnalysisDecides ==
    /\ outcome = "clean" => \E c \in published : c.is_malware = "false"
    /\ outcome = "malware" => \E c \in published : c.is_malware = "true"
    /\ outcome = "partial" => \E c \in published : c.is_malware = "none"

\* One deadline bounds the whole scan (jcop.py:123-125, 141-143): no request starts
\* later than a pause past the budget, however long the lookup, the upload or an
\* earlier poll took.  What the request then takes is not bounded by the budget: see
\* WallTimeWithinBudget.
BudgetShared == started < SUBMIT_TIMEOUT + POLL_INTERVAL

\* "total wall time stays within submit_timeout" (jcop.py:123-124).
WallTimeWithinBudget == now <= SUBMIT_TIMEOUT

\* The scan ends, whatever JCOP does or fails to do.
ScanEnds == <>(pc = "done")
=============================================================================
