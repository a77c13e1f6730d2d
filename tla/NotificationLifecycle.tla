----------------------- MODULE NotificationLifecycle -----------------------
(***************************************************************************)
(* What the hub promises of one notifications row, whichever component is  *)
(* working on it: it is written once, its message goes to the channel at   *)
(* most once, only while the row waits for it, and the row's last word     *)
(* tells what happened.                                                    *)
(***************************************************************************)
EXTENDS Integers

CONSTANTS Ids,
          BestEffort \* in_app: "sent" although the user may not be connected

VARIABLES status, sends

lifecycleVars == <<status, sends>>

Waiting == {"pending", "held"}
First   == {"pending", "held", "queued_digest", "skipped", "failed"}
Final   == {"sent", "sent_sandbox", "failed"}

LifecycleInit ==
    /\ status = [n \in Ids |-> "none"]
    /\ sends = [n \in Ids |-> 0]

Create(n, s) ==
    /\ status[n] = "none"
    /\ status' = [status EXCEPT ![n] = s]
    /\ UNCHANGED sends

Take(n) ==
    /\ status[n] \in Waiting
    /\ sends[n] = 0
    /\ sends' = [sends EXCEPT ![n] = 1]
    /\ UNCHANGED status

(* "failed" may hide a message the provider took: its answer was lost.     *)
Settle(n, s) ==
    /\ status[n] \in Waiting
    /\ s = "sent" => sends[n] = 1 \/ n \in BestEffort
    /\ s = "sent_sandbox" => sends[n] = 0
    /\ status' = [status EXCEPT ![n] = s]
    /\ UNCHANGED sends

LifecycleNext ==
    \E n \in Ids : \/ \E s \in First : Create(n, s)
                   \/ Take(n)
                   \/ \E s \in Final : Settle(n, s)

LifecycleSpec == LifecycleInit /\ [][LifecycleNext]_lifecycleVars
=============================================================================
