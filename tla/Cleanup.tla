------------------------------ MODULE Cleanup ------------------------------
(***************************************************************************)
(* cleanupOldNotifications of processor/notification-cleanup.ts: two       *)
(* DELETEs by age, with no look at a row's status and no regard for who is *)
(* working on it.  The foreign keys of db/schema.ts do the rest: a queue   *)
(* row goes with its notification, a delivery event keeps its row and      *)
(* loses its notification_id.                                              *)
(***************************************************************************)
EXTENDS Store

CONSTANT Retention \* NOTIFICATION_RETENTION_DAYS

(* A day at least, against a window of an hour.                            *)
ASSUME RetentionAssumption == Retention \in Nat /\ Window <= Retention /\ Retention < AgeCap

VARIABLE kpc \* the job is between runs, or between its two statements

CleanupTypeOK == kpc \in {"idle", "rows"}

Expired(c) == HasRow(c) /\ notifications[c].age > Retention

(* A queue row is as old as its notification.                              *)
PurgeQueue ==
    /\ kpc = "idle"
    /\ \E c \in Calls : Expired(c)
    /\ kpc' = "rows"
    /\ digestQueue' = [c \in Calls |-> IF Expired(c) THEN NotQueued ELSE digestQueue[c]]
    /\ UNCHANGED <<clock, notifications, userPreferences, tenantSuppressions,
                   templates, edits>>

PurgeNotifications ==
    /\ kpc = "rows"
    /\ kpc' = "idle"
    /\ notifications' = [c \in Calls |-> IF Expired(c) THEN NoRow ELSE notifications[c]]
    /\ digestQueue' = [c \in Calls |-> IF Expired(c) THEN NotQueued ELSE digestQueue[c]]
    /\ UNCHANGED <<clock, userPreferences, tenantSuppressions, templates, edits>>
=============================================================================
