----------------------------- MODULE JobContract ----------------------------
(***************************************************************************)
(* What the service promises the caller of POST /scan/async, told without  *)
(* workers, attempts, files or queues.  A job is refused or taken; while   *)
(* it is open the service may notify the caller, once, and once more for   *)
(* each fault it met; a job that asked for a webhook is closed only after  *)
(* a notice has been handed to the delivery queue; and only a fault lets   *)
(* the service abandon a job silently.  A closed or abandoned job is       *)
(* never taken up again.                                                   *)
(***************************************************************************)
EXTENDS Naturals

CONSTANTS Jobs

VARIABLES
    phase,      \* phase[j]: none, refused, open, closed or abandoned
    webhook,    \* webhook[j]: the caller asked to be notified
    told,       \* told[j]: the notices handed to the delivery queue so far
    heard,      \* heard[j]: the receiver has accepted one of them
    faults      \* faults[j]: faults that hit the job

vars == <<phase, webhook, told, heard, faults>>

Init ==
    /\ phase = [j \in Jobs |-> "none"]
    /\ webhook = [j \in Jobs |-> FALSE]
    /\ told = [j \in Jobs |-> 0]
    /\ heard = [j \in Jobs |-> FALSE]
    /\ faults = [j \in Jobs |-> 0]

Refuse(j) ==
    /\ phase[j] = "none"
    /\ phase' = [phase EXCEPT ![j] = "refused"]
    /\ UNCHANGED <<webhook, told, heard, faults>>

Take(j) ==
    /\ phase[j] = "none"
    /\ phase' = [phase EXCEPT ![j] = "open"]
    /\ \E b \in BOOLEAN : webhook' = [webhook EXCEPT ![j] = b]
    /\ UNCHANGED <<told, heard, faults>>

\* The second notice, and any later one, needs a fault of its own.
Tell(j) ==
    /\ phase[j] = "open" /\ webhook[j]
    /\ told[j] <= faults[j]
    /\ told' = [told EXCEPT ![j] = @ + 1]
    /\ UNCHANGED <<phase, webhook, heard, faults>>

Hear(j) ==
    /\ told[j] > 0
    /\ heard' = [heard EXCEPT ![j] = TRUE]
    /\ UNCHANGED <<phase, webhook, told, faults>>

Close(j) ==
    /\ phase[j] = "open"
    /\ webhook[j] => told[j] > 0
    /\ phase' = [phase EXCEPT ![j] = "closed"]
    /\ UNCHANGED <<webhook, told, heard, faults>>

Abandon(j) ==
    /\ phase[j] = "open"
    /\ faults[j] > 0
    /\ phase' = [phase EXCEPT ![j] = "abandoned"]
    /\ UNCHANGED <<webhook, told, heard, faults>>

\* A fault may hit a submission, which is then refused, a delivery the receiver
\* has just accepted, or anything else without a visible effect.
Fault(j) ==
    /\ faults' = [faults EXCEPT ![j] = @ + 1]
    /\ \/ /\ phase[j] = "none"
          /\ phase' = [phase EXCEPT ![j] = "refused"]
          /\ UNCHANGED heard
       \/ /\ told[j] > 0
          /\ heard' = [heard EXCEPT ![j] = TRUE]
          /\ UNCHANGED phase
       \/ UNCHANGED <<phase, heard>>
    /\ UNCHANGED <<webhook, told>>

Next ==
    \E j \in Jobs :
        Refuse(j) \/ Take(j) \/ Tell(j) \/ Hear(j) \/ Close(j) \/ Abandon(j) \/ Fault(j)

Spec == Init /\ [][Next]_vars
=============================================================================
