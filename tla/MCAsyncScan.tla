---------------------------- MODULE MCAsyncScan -----------------------------
(***************************************************************************)
(* Small instances of AsyncScan and of its contract.  The reports are the  *)
(* ones the control of the task tells apart: every deciding scanner        *)
(* failing, which is retried, and the same next to an advisory detection,  *)
(* which is reported at once, as any usable report is.                     *)
(***************************************************************************)
EXTENDS AsyncContract, TLC

Result(kind, advisory) ==
    [category |-> "malware", kind |-> kind, score |-> NoScore, scored |-> FALSE,
     advisory |-> advisory]

\* The report that is retried, alone.
MCOneReport == {<<Result("error", FALSE)>>}

MCReports == MCOneReport \cup {<<Result("error", FALSE), Result("malware", TRUE)>>}

\* A job with a webhook, and one to poll only.
MCSubmissions == {[webhook |-> TRUE, version |-> V1], [webhook |-> FALSE, version |-> V2]}
MCWebhookOnly == {[webhook |-> TRUE, version |-> V1]}

\* One fault, in the first job only when there are two.
MCOneFault == [j \in Jobs |-> IF j = CHOOSE k \in Jobs : TRUE THEN 1 ELSE 0]

MCOwner == [j \in Jobs |-> CHOOSE c \in Clients : TRUE]
=============================================================================
