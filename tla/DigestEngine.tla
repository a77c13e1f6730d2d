---------------------------- MODULE DigestEngine ----------------------------
(***************************************************************************)
(* processDigestQueue of digest/engine.ts, a job of the server that also   *)
(* runs the pipeline: what the pipeline queued and is due goes out in one  *)
(* message per tenant, user and channel.                                   *)
(*                                                                         *)
(* server.ts gives the job the server's email account only: no             *)
(* telegramConfig and no tenant's configuration.                           *)
(***************************************************************************)
EXTENDS Pipeline

CONSTANTS
    Runs,           \* the runs of the job that may be going on at once
    ServerEmail,    \* RESEND_API_KEY and RESEND_FROM are set: both are optional
    DigestTemplate, \* by tenant and channel: what looking "__digest" up yields
    MaxPerDigest    \* MAX_PER_DIGEST

ASSUME DigestAssumption ==
    /\ DigestTemplate \in [Tenants \X Channels -> {"renders", "throws", "unfound"}]
    /\ MaxPerDigest \in Nat \ {0}
    /\ ServerEmail \in BOOLEAN

VARIABLES
    dpc,     \* where each run is
    groups,  \* the groups the run has not come to
    shown,   \* the items of this digest: the group's, up to MaxPerDigest
    unread,  \* those of them still to be rendered
    unmarked,\* the items of the group whose queue row is still to be marked
    fired    \* the timer has fired since the last tick of the clock

jobVars    == <<dpc, groups, shown, unread, unmarked, fired>>
digestVars == <<vars, jobVars>>

DigestTypeOK ==
    /\ TypeOK
    /\ dpc \in [Runs -> {"idle", "next", "render", "dispatch", "mark"}]
    /\ groups \in [Runs -> SUBSET (SUBSET Calls)]
    /\ shown \in [Runs -> SUBSET Calls]
    /\ unread \in [Runs -> SUBSET Calls]
    /\ unmarked \in [Runs -> SUBSET Calls]
    /\ fired \in BOOLEAN

DigestInit ==
    /\ Init
    /\ dpc = [j \in Runs |-> "idle"]
    /\ groups = [j \in Runs |-> {}]
    /\ shown = [j \in Runs |-> {}]
    /\ unread = [j \in Runs |-> {}]
    /\ unmarked = [j \in Runs |-> {}]
    /\ fired = FALSE

-----------------------------------------------------------------------------
(* 1. The items that are due, and the rows they join.                      *)
DueItems ==
    {c \in Calls : HasRow(c) /\ digestQueue[c].state = "queued" /\ digestQueue[c].due = 0}

(* Mutant of GroupKey: the tenant is forgotten.                            *)
GroupKeyAnyTenant(c) == <<Request[c].recipient, Request[c].channel>>

(* 2. A group is named by tenant, user and channel.                        *)
GroupKey(c) == <<User(c), Request[c].channel>>

GroupsOf(items) == {{d \in items : GroupKey(d) = GroupKey(c)} : c \in items}

(* The timer fires; on a server with no email account of its own that is   *)
(* all, whatever accounts the tenants have (server.ts:113-115).            *)
SelectDue(j) ==
    LET due == IF ServerEmail THEN DueItems ELSE {}
    IN  /\ dpc[j] = "idle"
        /\ fired' = TRUE
        /\ groups' = [groups EXCEPT ![j] = GroupsOf(due)]
        /\ dpc' = [dpc EXCEPT ![j] = IF due = {} THEN "idle" ELSE "next"]
        /\ UNCHANGED <<vars, shown, unread, unmarked>>

(* An error leaves the loop over the groups.                               *)
Abort(j) ==
    /\ dpc' = [dpc EXCEPT ![j] = "idle"]
    /\ groups' = [groups EXCEPT ![j] = {}]
    /\ shown' = [shown EXCEPT ![j] = {}]
    /\ unread' = [unread EXCEPT ![j] = {}]
    /\ unmarked' = [unmarked EXCEPT ![j] = {}]

(* pickRecipient: sms and in_app have no digest.                           *)
Recipient(c) ==
    LET p == userPreferences[User(c)]
    IN  IF p # NoPreferences /\ Request[c].channel \in {"email", "telegram"}
        THEN p.address[Request[c].channel] ELSE NoAddress

(* 4 and 5. The group's template and the user's address as they are now;   *)
(* without one of them the items are marked and nothing is sent.           *)
OpenGroup(j) ==
    /\ dpc[j] = "next"
    /\ \E g \in groups[j] : \E c \in g :
          /\ groups' = [groups EXCEPT ![j] = @ \ {g}]
          /\ unmarked' = [unmarked EXCEPT ![j] = g]
          /\ \/ /\ \/ DigestTemplate[Request[c].tenant, Request[c].channel] = "unfound"
                   \/ Recipient(c) = NoAddress
                /\ dpc' = [dpc EXCEPT ![j] = "mark"]
                /\ UNCHANGED <<shown, unread>>
             \/ /\ DigestTemplate[Request[c].tenant, Request[c].channel] # "unfound"
                /\ Recipient(c) # NoAddress
                /\ \E some \in SUBSET g :
                      /\ Cardinality(some) <= MaxPerDigest
                      /\ some = g \/ Cardinality(some) = MaxPerDigest
                      /\ shown' = [shown EXCEPT ![j] = some]
                      /\ unread' = [unread EXCEPT ![j] = some]
                /\ dpc' = [dpc EXCEPT ![j] = "render"]
    /\ UNCHANGED <<vars, fired>>

(* 6. One item's template through its rule, rendered unguarded: an item    *)
(* without rule or template gets a placeholder, one that throws ends the   *)
(* run.                                                                    *)
RenderChild(j) ==
    /\ dpc[j] = "render"
    /\ \E c \in unread[j] :
          \/ templates[Request[c].rule] = "throws" /\ Abort(j)
          \/ /\ templates[Request[c].rule] # "throws"
             /\ unread' = [unread EXCEPT ![j] = @ \ {c}]
             /\ UNCHANGED <<dpc, groups, shown, unmarked>>
    /\ UNCHANGED <<vars, fired>>

(* 7. The digest itself is rendered.                                       *)
Compose(j) ==
    /\ dpc[j] = "render"
    /\ unread[j] = {}
    /\ \E c \in shown[j] :
          LET state == DigestTemplate[Request[c].tenant, Request[c].channel]
          IN  \/ state = "throws" /\ Abort(j)
              \/ /\ state = "renders"
                 /\ dpc' = [dpc EXCEPT ![j] = "dispatch"]
                 /\ UNCHANGED <<groups, shown, unread, unmarked>>
    /\ UNCHANGED <<vars, fired>>

(* Mutant of DispatchDigest: a message that was not taken leaves its items *)
(* in the queue.                                                           *)
DispatchDigestAgain(j) ==
    /\ dpc[j] = "dispatch"
    /\ \E c \in shown[j] : \E a \in Answers(Request[c].channel, FALSE) :
          /\ sends' = [d \in Calls |-> IF d \in shown[j] /\ a.took /\ sends[d] < 2
                                       THEN sends[d] + 1 ELSE sends[d]]
          /\ \/ a.status = "sent" /\ dpc' = [dpc EXCEPT ![j] = "mark"] /\ UNCHANGED unmarked
             \/ /\ a.status = "failed"
                /\ dpc' = [dpc EXCEPT ![j] = IF groups[j] = {} THEN "idle" ELSE "next"]
                /\ unmarked' = [unmarked EXCEPT ![j] = {}]
    /\ shown' = [shown EXCEPT ![j] = {}]
    /\ UNCHANGED <<storeVars, callVars, faults, groups, unread, fired>>

(* 8. One message; whether it was taken or not, the items are marked next. *)
DigestAnswers(channel) ==
    IF channel = "email" THEN Answers("email", FALSE)
    ELSE {[took |-> FALSE, status |-> "failed"]}

DispatchDigest(j) ==
    /\ dpc[j] = "dispatch"
    /\ \E c \in shown[j] : \E a \in DigestAnswers(Request[c].channel) :
          sends' = [d \in Calls |-> IF d \in shown[j] /\ a.took /\ sends[d] < 2
                                    THEN sends[d] + 1 ELSE sends[d]]
    /\ dpc' = [dpc EXCEPT ![j] = "mark"]
    /\ shown' = [shown EXCEPT ![j] = {}]
    /\ UNCHANGED <<storeVars, callVars, faults, groups, unread, unmarked, fired>>

(* Mutant of MarkSent: only the first of the ids is marked.                *)
MarkFirstSent(j) ==
    /\ dpc[j] = "mark"
    /\ \E c \in unmarked[j] :
          digestQueue' = [digestQueue EXCEPT ![c].state = IF @ = "queued" THEN "sent" ELSE @]
    /\ unmarked' = [unmarked EXCEPT ![j] = {}]
    /\ dpc' = [dpc EXCEPT ![j] = IF groups[j] = {} THEN "idle" ELSE "next"]
    /\ UNCHANGED <<clock, notifications, userPreferences, tenantSuppressions, templates,
                   edits, pipelineVars, groups, shown, unread, fired>>

(* 9. markQueueSent: an UPDATE for each item, one after the other.  The    *)
(* notifications row stays queued_digest.                                  *)
MarkSent(j) ==
    /\ dpc[j] = "mark"
    /\ \E c \in unmarked[j] :
          /\ digestQueue' = [digestQueue EXCEPT ![c].state =
                                IF @ = "queued" THEN "sent" ELSE @]
          /\ unmarked' = [unmarked EXCEPT ![j] = @ \ {c}]
          /\ dpc' = [dpc EXCEPT ![j] = IF unmarked[j] # {c} THEN "mark"
                                       ELSE IF groups[j] = {} THEN "idle" ELSE "next"]
    /\ UNCHANGED <<clock, notifications, userPreferences, tenantSuppressions, templates,
                   edits, pipelineVars, groups, shown, unread, fired>>

JobStep(j) ==
    \/ OpenGroup(j)
    \/ RenderChild(j)
    \/ Compose(j)
    \/ DispatchDigest(j)
    \/ MarkSent(j)

-----------------------------------------------------------------------------
JobThrow(j) ==
    /\ dpc[j] # "idle"
    /\ faults < MaxFaults
    /\ faults' = faults + 1
    /\ Abort(j)
    /\ UNCHANGED <<storeVars, callVars, sends, fired>>

ServerCrash ==
    /\ (\E c \in Calls : Active(c)) \/ (\E j \in Runs : dpc[j] # "idle")
    /\ faults < MaxFaults
    /\ faults' = faults + 1
    /\ KillCalls
    /\ dpc' = [j \in Runs |-> "idle"]
    /\ groups' = [j \in Runs |-> {}]
    /\ shown' = [j \in Runs |-> {}]
    /\ unread' = [j \in Runs |-> {}]
    /\ unmarked' = [j \in Runs |-> {}]
    /\ UNCHANGED <<storeVars, sends, fired>>

(* A minute of the model is the job's interval: the timer fires in each.   *)
TimerTick ==
    /\ fired
    /\ fired' = FALSE
    /\ Tick
    /\ UNCHANGED <<pipelineVars, dpc, groups, shown, unread, unmarked>>

DigestNext ==
    \/ CallNext /\ UNCHANGED jobVars
    \/ Edit /\ UNCHANGED <<pipelineVars, jobVars>>
    \/ \E j \in Runs : SelectDue(j) \/ JobStep(j) \/ JobThrow(j)
    \/ ServerCrash
    \/ TimerTick

(* Answers arrive, timers fire, time passes.                               *)
DigestFairness ==
    /\ \A c \in Calls : WF_digestVars(Step(c) /\ UNCHANGED jobVars)
    /\ \A j \in Runs : WF_digestVars(SelectDue(j)) /\ WF_digestVars(JobStep(j))
    /\ WF_digestVars(TimerTick)

FairDigestSpec == DigestInit /\ [][DigestNext]_digestVars /\ DigestFairness

-----------------------------------------------------------------------------
(* An item goes out in one digest: in a second one only when an UPDATE of  *)
(* markQueueSent failed or the server died before it.                      *)
InOneDigestUnlessFailed == \A c \in Calls : sends[c] > 1 => faults > 0

(* A digest is one user's: everything the message counts belongs to one    *)
(* tenant, user and channel, is past its scheduled_for and still queued.   *)
DigestIsOnesOwn ==
    [][ \A j \in Runs : dpc[j] = "dispatch" /\ dpc'[j] = "mark" =>
          \A c, d \in unmarked[j] :
             /\ User(c) = User(d) /\ Request[c].channel = Request[d].channel
             /\ notifications[c].status = "queued_digest"
             /\ digestQueue[c] = [state |-> "queued", due |-> 0] ]_digestVars

(* README: "gets one summary email instead of 10".  On a server with an    *)
(* email account the queue drains: what is queued is marked in the end,    *)
(* unless from some moment on there is always a due item whose template,   *)
(* or whose digest's, throws and ends the runs.  A poison that is mended   *)
(* or leaves the queue is no excuse.                                       *)
Queued(c) == digestQueue[c].state = "queued"

PoisonDue ==
    \E c \in Calls :
        /\ Queued(c) /\ digestQueue[c].due = 0
        /\ Recipient(c) # NoAddress
        /\ LET digest == DigestTemplate[Request[c].tenant, Request[c].channel]
           IN  \/ digest = "throws"
               \/ digest = "renders" /\ templates[Request[c].rule] = "throws"

QueueDrains ==
    \A c \in Calls : (ServerEmail /\ Queued(c)) ~> (~Queued(c) \/ []PoisonDue)

(* engine.ts:105: "best-effort - per-item failures soft-fall".  An item     *)
(* whose own template renders is not kept in the queue by another's.       *)
Sound(c) == templates[Request[c].rule] # "throws"

SoundItemGoesOut ==
    \A c \in Calls :
        (ServerEmail /\ Queued(c) /\ Sound(c)) ~> (~Queued(c) \/ ~Sound(c))
=============================================================================
