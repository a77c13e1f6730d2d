------------------------------ MODULE Pipeline ------------------------------
(***************************************************************************)
(* processNotification of processor/pipeline.ts: any number of calls in    *)
(* flight, each a sequence of awaits.  Every await is a step boundary: what *)
(* a call read before it may be stale after it.  What follows a read up to *)
(* the next await is part of the read's step.                              *)
(*                                                                         *)
(* A lane is what runs calls one after the other: a Kafka partition        *)
(* (messages are keyed by event_id, a partition's messages are handled in  *)
(* turn, and a message's rules in a loop) or one POST /api/events.         *)
(***************************************************************************)
EXTENDS Store

CONSTANTS
    SandboxTenants, \* tenants whose config.channels.email.sandbox is true
    MaxFaults       \* crashes and thrown errors in a run

ASSUME PipelineAssumption ==
    /\ SandboxTenants \subseteq Tenants
    /\ MaxFaults \in Nat

VARIABLES
    pc,      \* where each call is
    seen,    \* the preferences row the call has read
    addr,    \* deliveryAddress
    outcome, \* the status and skip reason the call will write next
    sends,   \* how often the channel took the message of row c: 0, 1, 2 = more
    faults

callVars     == <<pc, seen, addr, outcome>>
pipelineVars == <<pc, seen, addr, outcome, sends, faults>>
vars         == <<storeVars, pipelineVars>>

Steps == {"resolve", "dedup", "suppress", "template", "insert", "enqueue",
          "attach", "dispatch", "record"}
Ends  == {"done", "threw", "crashed"}

Active(c) == pc[c] \in Steps

NoOutcome == [status |-> "none", reason |-> ""]

OutcomeType == [status : Statuses, reason : Reasons]

CallTypeOK ==
    /\ pc \in [Calls -> {"idle"} \union Steps \union Ends]
    /\ seen \in [Calls -> PreferencesType \union {NoPreferences}]
    /\ addr \in [Calls -> Addresses \union Recipients \union {NoAddress}]
    /\ outcome \in [Calls -> OutcomeType]

TypeOK ==
    /\ StoreTypeOK
    /\ CallTypeOK
    /\ sends \in [Calls -> 0 .. 2]
    /\ faults \in 0 .. MaxFaults

Init ==
    /\ StoreInit
    /\ pc = [c \in Calls |-> "idle"]
    /\ seen = [c \in Calls |-> NoPreferences]
    /\ addr = [c \in Calls |-> NoAddress]
    /\ outcome = [c \in Calls |-> NoOutcome]
    /\ sends = [c \in Calls |-> 0]
    /\ faults = 0

-----------------------------------------------------------------------------
Goto(c, step) == pc' = [pc EXCEPT ![c] = step]

Plan(c, status, reason) ==
    outcome' = [outcome EXCEPT ![c] = [status |-> status, reason |-> reason]]

(* Decide which row to insert; the INSERT is the next step.                *)
PlanInsert(c, status, reason) ==
    Goto(c, "insert") /\ Plan(c, status, reason)

Proceed(c, step) == Goto(c, step) /\ UNCHANGED outcome

(* The call returns: its locals are gone.                                  *)
Leave(c, end) ==
    /\ Goto(c, end)
    /\ seen' = [seen EXCEPT ![c] = NoPreferences]
    /\ addr' = [addr EXCEPT ![c] = NoAddress]
    /\ outcome' = [outcome EXCEPT ![c] = NoOutcome]

(* A static or direct recipient is the address, and in_app is addressed by *)
(* user id: none of them reads preferences, so preferences stays null.     *)
ReadsPreferences(c) == ~Request[c].direct /\ Request[c].channel # "in_app"

(* A lane takes its calls in turn.  A call that throws or dies ends the    *)
(* loop over the rules of its delivery: the calls after it do not run.     *)
(* Retrying the event is another delivery, with later turns.               *)
Before(d, c) ==
    Request[d].lane = Request[c].lane /\ Request[d].turn < Request[c].turn

SameDelivery(c, d) == Request[c].delivery = Request[d].delivery

Abandoned(c) ==
    \E d \in Calls : Before(d, c) /\ SameDelivery(c, d) /\ pc[d] \in {"threw", "crashed"}

IsNext(c) ==
    /\ ~Abandoned(c)
    /\ \A d \in Calls :
          /\ Request[d].lane = Request[c].lane => ~Active(d)
          /\ Before(d, c) => pc[d] # "idle" \/ Abandoned(d)

Start(c) ==
    /\ pc[c] = "idle"
    /\ IsNext(c)
    /\ \/ ReadsPreferences(c) /\ Goto(c, "resolve") /\ UNCHANGED addr
       \/ /\ ~ReadsPreferences(c)
          /\ Goto(c, "dedup")
          /\ addr' = [addr EXCEPT ![c] = Request[c].recipient]
    /\ UNCHANGED <<storeVars, seen, outcome, sends, faults>>

(* 1. Resolve delivery address, and 2. the opt-out check on what was read. *)
ResolveDeliveryAddress(c) ==
    LET prefs   == userPreferences[User(c)]
        address == IF prefs = NoPreferences THEN NoAddress
                   ELSE prefs.address[Request[c].channel]
        out     == /\ prefs # NoPreferences
                   /\ CheckOptOut(prefs.optOut, Request[c].channel, Request[c].type)
    IN  /\ pc[c] = "resolve"
        /\ seen' = [seen EXCEPT ![c] = prefs]
        /\ addr' = [addr EXCEPT ![c] = address]
        /\ \/ address = NoAddress /\ PlanInsert(c, "skipped", "no_delivery_address")
           \/ address # NoAddress /\ out /\ PlanInsert(c, "skipped", "opt_out")
           \/ address # NoAddress /\ ~out /\ Proceed(c, "dedup")
        /\ UNCHANGED <<storeVars, sends, faults>>

(* 3. Dedup check.                                                         *)
CheckDuplicate(c) ==
    /\ pc[c] = "dedup"
    /\ \/ IsDuplicate(c) /\ PlanInsert(c, "skipped", "deduplicated")
       \/ /\ ~IsDuplicate(c)
          /\ Proceed(c, IF Request[c].channel = "in_app" THEN "template"
                                                         ELSE "suppress")
    /\ UNCHANGED <<storeVars, seen, addr, sends, faults>>

(* 4 and 5, on the preferences read in step 1 and the clock of this step.  *)
Quiet(c) == seen[c] # NoPreferences /\ IsWithinQuietHours(seen[c].quiet, clock)

BadQuiet(c) == seen[c] # NoPreferences /\ ZoneThrows(seen[c].quiet)

(* Mutant of Digest: the digest check sits inside the quiet hours branch.   *)
DigestOnlyWhenQuiet(c) == Quiet(c) /\ seen[c].digest

Digest(c) == seen[c] # NoPreferences /\ seen[c].digest

(* 3.5 Suppression check, then quiet hours and digest mode.                *)
CheckSuppression(c) ==
    /\ pc[c] = "suppress"
    /\ \/ /\ IsSuppressed(Request[c].tenant, addr[c])
          /\ PlanInsert(c, "skipped", "suppressed")
          /\ UNCHANGED <<seen, addr>>
       \/ /\ ~IsSuppressed(Request[c].tenant, addr[c])
          /\ \/ BadQuiet(c) /\ Leave(c, "threw")
             \/ /\ ~BadQuiet(c)
                /\ \/ Digest(c) /\ PlanInsert(c, "queued_digest", "")
                   \/ ~Digest(c) /\ Quiet(c) /\ PlanInsert(c, "held", "")
                   \/ ~Digest(c) /\ ~Quiet(c) /\ Proceed(c, "template")
                /\ UNCHANGED <<seen, addr>>
    /\ UNCHANGED <<storeVars, sends, faults>>

(* 6. Template lookup and rendering.  A deleted rule's template may still  *)
(* be there: the call holds the rule's fields from before.                 *)
LookupTemplate(c) ==
    /\ pc[c] = "template"
    /\ \/ /\ templates[Request[c].rule] \in {"renders", "deleted"}
          /\ PlanInsert(c, "pending", "") /\ UNCHANGED <<seen, addr>>
       \/ /\ templates[Request[c].rule] \in {"unfound", "deleted"}
          /\ PlanInsert(c, "failed", "") /\ UNCHANGED <<seen, addr>>
       \/ templates[Request[c].rule] = "throws" /\ Leave(c, "threw")
    /\ UNCHANGED <<storeVars, sends, faults>>

(* The INSERT of every branch.  rule_id is a foreign key.                  *)
InsertRow(c) ==
    LET status == outcome[c].status
    IN  /\ pc[c] = "insert"
        /\ \/ /\ templates[Request[c].rule] = "deleted"
              /\ Leave(c, "threw")
              /\ UNCHANGED notifications
           \/ /\ templates[Request[c].rule] # "deleted"
              /\ InsertNotification(c, status, outcome[c].reason)
              /\ \/ status \in {"skipped", "failed", "held"} /\ Leave(c, "done")
                 \/ /\ status = "queued_digest"
                    /\ Proceed(c, "enqueue") /\ UNCHANGED <<seen, addr>>
                 \/ /\ status = "pending"
                    /\ Proceed(c, IF Request[c].attachments /\ Request[c].channel = "email"
                                  THEN "attach" ELSE "dispatch")
                    /\ UNCHANGED <<seen, addr>>
        /\ UNCHANGED <<clock, digestQueue, userPreferences, tenantSuppressions,
                       templates, edits, sends, faults>>

(* The second statement of insertDigestNotification.  scheduled_for is     *)
(* strictly ahead (Calendar_proofs), by up to DelayCap.                  *)
EnqueueDigest(c) ==
    /\ pc[c] = "enqueue"
    /\ \E due \in 1 .. DelayCap :
          digestQueue' = [digestQueue EXCEPT ![c] = [state |-> "queued", due |-> due]]
    /\ Leave(c, "done")
    /\ UNCHANGED <<clock, notifications, userPreferences, tenantSuppressions,
                   templates, edits, sends, faults>>

(* Mutant of FetchAttachments: a failed fetch returns and records nothing.  *)
FetchAttachmentsUnrecorded(c) ==
    /\ pc[c] = "attach"
    /\ \/ Proceed(c, "dispatch") /\ UNCHANGED <<seen, addr>>
       \/ Leave(c, "done")
    /\ UNCHANGED <<storeVars, sends, faults>>

(* 7b. Attachments: a failed fetch is recorded and nothing is sent.        *)
FetchAttachments(c) ==
    /\ pc[c] = "attach"
    /\ \/ Proceed(c, "dispatch")
       \/ Goto(c, "record") /\ Plan(c, "failed", "")
    /\ UNCHANGED <<storeVars, seen, addr, sends, faults>>

(* 8. What dispatch does: whether the channel took the message, and what   *)
(* the call is told.  in_app and sms always succeed, in_app also when the  *)
(* user is not connected; a provider may take the message and the answer   *)
(* be lost.                                                                *)
Sandboxed(c) == Request[c].channel = "email" /\ Request[c].tenant \in SandboxTenants

(* Mutant of Answers: the provider's refusal is taken for a success.        *)
AnswersOptimistic(channel, sandboxed) ==
    IF sandboxed THEN {[took |-> FALSE, status |-> "sent_sandbox"]}
    ELSE [took : BOOLEAN, status : {"sent"}]

Answers(channel, sandboxed) ==
    {a \in [took : BOOLEAN, status : {"sent", "sent_sandbox", "failed"}] :
        /\ (a.status = "sent_sandbox") <=> sandboxed
        /\ sandboxed => ~a.took
        /\ a.status = "sent" => a.took \/ channel = "in_app"
        /\ channel \in {"in_app", "sms"} => a.status # "failed"}

CountSend(c, took) ==
    sends' = [sends EXCEPT ![c] = IF took /\ @ < 2 THEN @ + 1 ELSE @]

Dispatch(c) ==
    /\ pc[c] = "dispatch"
    /\ \E a \in Answers(Request[c].channel, Sandboxed(c)) :
          CountSend(c, a.took) /\ Plan(c, a.status, "")
    /\ Goto(c, "record")
    /\ UNCHANGED <<storeVars, seen, addr, faults>>

(* The final UPDATE.  An in_app row is delivered only when it is acked.    *)
RecordOutcome(c) ==
    /\ pc[c] = "record"
    /\ UpdateNotification(c, outcome[c].status,
                          outcome[c].status # "failed" /\ Request[c].channel # "in_app")
    /\ Leave(c, "done")
    /\ UNCHANGED <<clock, digestQueue, userPreferences, tenantSuppressions,
                   templates, edits, sends, faults>>

-----------------------------------------------------------------------------
(* A database error ends one call; the server's death ends all of them.    *)
(* Rows stay.  Retrying the event is another call with the same request.   *)
Throw(c) ==
    /\ Active(c)
    /\ faults < MaxFaults
    /\ faults' = faults + 1
    /\ Leave(c, "threw")
    /\ UNCHANGED <<storeVars, sends>>

KillCalls ==
    /\ pc' = [c \in Calls |-> IF Active(c) THEN "crashed" ELSE pc[c]]
    /\ seen' = [c \in Calls |-> NoPreferences]
    /\ addr' = [c \in Calls |-> NoAddress]
    /\ outcome' = [c \in Calls |-> NoOutcome]

Crash ==
    /\ \E c \in Calls : Active(c)
    /\ faults < MaxFaults
    /\ faults' = faults + 1
    /\ KillCalls
    /\ UNCHANGED <<storeVars, sends>>

Step(c) ==
    \/ ResolveDeliveryAddress(c)
    \/ CheckDuplicate(c)
    \/ CheckSuppression(c)
    \/ LookupTemplate(c)
    \/ InsertRow(c)
    \/ EnqueueDigest(c)
    \/ FetchAttachments(c)
    \/ Dispatch(c)
    \/ RecordOutcome(c)

CallNext == \E c \in Calls : Start(c) \/ Step(c) \/ Throw(c)

Next ==
    \/ CallNext
    \/ Crash
    \/ StoreNext /\ UNCHANGED pipelineVars

Spec == Init /\ [][Next]_vars

(* Node's event loop resumes every await whose I/O has answered.           *)
Fairness == \A c \in Calls : WF_vars(Step(c))

FairSpec == Spec /\ Fairness

-----------------------------------------------------------------------------
(* Calls for the same event, recipient and channel share a lane: so it is  *)
(* in Kafka mode, where the lane is the partition of the event_id.         *)
KeysConfined ==
    \A c, d \in Calls : Key(c) = Key(d) => Request[c].lane = Request[d].lane

(* README: "Same event_id + recipient + channel within 60 min = skipped".  *)
(* Of two rows that got past the dedup check, at most one is younger than  *)
(* the window, whatever crashed, threw or was retried in between.          *)
OneLiveRowPerKey ==
    \A c, d \in Calls :
        (/\ c # d
         /\ Key(c) = Key(d)
         /\ HasRow(c) /\ notifications[c].status # "skipped"
         /\ HasRow(d) /\ notifications[d].status # "skipped")
        => notifications[c].age > Window \/ notifications[d].age > Window

(* A notification is dropped as a duplicate only when an older row of the  *)
(* very same tenant, event, recipient and channel is there.                *)
DuplicateOfItsOwnKey ==
    \A c \in Calls :
        notifications[c].reason = "deduplicated" =>
            \E d \in Calls \ {c} :
                /\ HasRow(d)
                /\ \A f \in {"tenant", "event", "recipient", "channel"} :
                        Request[d][f] = Request[c][f]
                /\ notifications[d].age >= notifications[c].age

(* The rows of the pipeline keep the promise of NotificationLifecycle.     *)
Status == [c \in Calls |-> notifications[c].status]

InApp == {c \in Calls : Request[c].channel = "in_app"}

Lifecycle == INSTANCE NotificationLifecycle
                 WITH Ids <- Calls, BestEffort <- InApp, status <- Status

KeepsLifecycle == Lifecycle!LifecycleSpec

(* A row that nothing will touch again before a background job does.  A    *)
(* queued_digest row is of no use without its digest_queue row.            *)
Settled(c) ==
    /\ notifications[c].status \notin {"none", "pending"}
    /\ notifications[c].status = "queued_digest" => digestQueue[c].state # "none"

(* README: "Every notification logged with status (sent/failed/skipped)    *)
(* and reason".  A call that neither throws nor dies ends, with its row    *)
(* settled.                                                                *)
EveryCallSettles ==
    \A c \in Calls :
        Active(c) ~> (pc[c] \in {"threw", "crashed"} \/ (pc[c] = "done" /\ Settled(c)))
=============================================================================
