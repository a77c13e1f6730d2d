------------------------------- MODULE Store -------------------------------
(***************************************************************************)
(* The tables of db/schema.ts that the processing pipeline and the         *)
(* background jobs share, and the API handlers that write them while those *)
(* run.  One SQL statement is one step.                                    *)
(*                                                                         *)
(* Time is the minute of the day plus, for every stored timestamp, the     *)
(* distance to it: how old a notification is, how long a suppression still *)
(* lasts, how long until a digest is due.  Distances stop counting where   *)
(* nothing compares them any more, so a run of any length has finitely     *)
(* many states.  The database's now() and the server's Date.now() are one  *)
(* clock.                                                                  *)
(***************************************************************************)
EXTENDS Preferences, FiniteSets

CONSTANTS
    Calls,          \* processNotification calls; a call inserts at most one
                    \* row, so the call names the row too
    Request,        \* Request[c]: what call c was asked
    Tenants, Recipients, Addresses, Rules, Events, Types, Lanes,
    PrefChoices,    \* the rows a preferences PUT leaves behind
    LimitChoices,   \* the expires_at of a new suppression
    TemplateEdits,  \* what the API does to a rule or its template
    Window,         \* DEDUP_WINDOW_MINUTES
    AgeCap,         \* ages stop counting here
    DelayCap,       \* the furthest a digest is scheduled ahead
    MaxEdits,       \* API writes in a run
    NoPreferences,  \* the user has no user_preferences row
    NoAddress       \* a null email, phone or telegram_chat_id

Channels == {"email", "sms", "in_app", "telegram"}

RequestType ==
    [tenant : Tenants, event : Events, type : Types, recipient : Recipients,
     channel : Channels, rule : Rules,
     direct : BOOLEAN,      \* static recipient, or isDirectAddress accepts it
     attachments : BOOLEAN, \* the template has an attachments_config
     lane : Lanes,          \* the partition or HTTP request that runs the call
     delivery : Nat,        \* the delivery of the message it belongs to
     turn : Nat]            \* its place in the lane

PreferencesType ==
    [optOut : SUBSET ((Channels \union {"all"}) \X (Types \union {"*"})),
     quiet : QuietHours \union {NoQuiet},
     digest : BOOLEAN,
     address : [Channels -> Addresses \union {NoAddress}]]

(* A tenant_suppressions row: "timed" has left minutes to its expires_at,  *)
(* and stays in the table at 0; "forever" has a null expires_at.           *)
SuppressionType == [limit : {"none", "timed", "forever"}, left : Nat]

NotSuppressed == [limit |-> "none", left |-> 0]

(* What looking a rule's template up yields: a body Handlebars can or can  *)
(* not compile; nothing, because the rule was pointed to another template  *)
(* and its old one deleted, or no locale variant fits; nothing, because    *)
(* the rule itself is deleted.                                             *)
TemplateStates == {"renders", "throws", "unfound", "deleted"}

(* Addresses are the strings a message may be sent to, well-formed or not: *)
(* no schema checks what a static rule names (rules.routes.ts), so that is *)
(* one of them, whatever it is.                                            *)
ASSUME RequestAssumption ==
    /\ Request \in [Calls -> RequestType]
    /\ \A c \in Calls : Request[c].direct => Request[c].recipient \in Addresses

ASSUME ChoiceAssumption ==
    /\ PrefChoices \subseteq PreferencesType
    /\ LimitChoices \subseteq SuppressionType \ {NotSuppressed}
    /\ TemplateEdits \subseteq TemplateStates
    /\ NoPreferences \notin PreferencesType
    /\ NoAddress \notin Addresses

ASSUME TimeAssumption ==
    /\ Window \in Nat
    /\ AgeCap \in Nat
    /\ Window < AgeCap
    /\ DelayCap \in Nat \ {0}
    /\ MaxEdits \in Nat

-----------------------------------------------------------------------------
VARIABLES
    clock,              \* the minute of the day, UTC
    notifications,      \* notifications[c]: the row call c inserted
    digestQueue,        \* digestQueue[c]: the digest_queue row of that row
    userPreferences,    \* by tenant and user
    tenantSuppressions, \* by tenant and address
    templates,          \* by rule
    edits               \* API writes so far

storeVars == <<clock, notifications, digestQueue, userPreferences,
               tenantSuppressions, templates, edits>>

Statuses ==
    {"none", "pending", "sent", "sent_sandbox", "failed", "queued_digest",
     "skipped", "held"}

Reasons ==
    {"", "no_delivery_address", "opt_out", "deduplicated", "suppressed",
     "complaint"}

NotificationType ==
    [status : Statuses, reason : Reasons, age : 0 .. AgeCap, delivered : BOOLEAN]

NoRow == [status |-> "none", reason |-> "", age |-> 0, delivered |-> FALSE]

QueueType == [state : {"none", "queued", "sent"}, due : 0 .. DelayCap]

NotQueued == [state |-> "none", due |-> 0]

Users == Tenants \X Recipients

StoreTypeOK ==
    /\ clock \in Minute
    /\ notifications \in [Calls -> NotificationType]
    /\ digestQueue \in [Calls -> QueueType]
    /\ userPreferences \in [Users -> PreferencesType \union {NoPreferences}]
    /\ tenantSuppressions \in [Tenants \X Addresses -> SuppressionType]
    /\ templates \in [Rules -> TemplateStates]
    /\ edits \in 0 .. MaxEdits

StoreInit ==
    /\ clock = 0
    /\ notifications = [c \in Calls |-> NoRow]
    /\ digestQueue = [c \in Calls |-> NotQueued]
    /\ userPreferences \in [Users -> PrefChoices \union {NoPreferences}]
    /\ tenantSuppressions \in
         [Tenants \X Addresses -> LimitChoices \union {NotSuppressed}]
    /\ templates = [r \in Rules |-> "renders"]
    /\ edits = 0

-----------------------------------------------------------------------------
(* Reads.                                                                  *)
(* Mutant of Key: the channel is forgotten.                                 *)
KeyAnyChannel(c) ==
    <<Request[c].tenant, Request[c].event, Request[c].recipient>>

Key(c) == <<Request[c].tenant, Request[c].event,
            Request[c].recipient, Request[c].channel>>

User(c) == <<Request[c].tenant, Request[c].recipient>>

HasRow(c) == notifications[c].status # "none"

(* Mutant of IsDuplicate: the window's last minute is left out.             *)
IsDuplicateOpen(c) ==
    \E d \in Calls : HasRow(d) /\ Key(d) = Key(c) /\ notifications[d].age < Window

(* A row of any status counts, the rows of earlier skips included.         *)
IsDuplicate(c) ==
    \E d \in Calls : /\ HasRow(d)
                     /\ Key(d) = Key(c)
                     /\ notifications[d].age <= Window

IsSuppressed(tenant, address) ==
    LET s == tenantSuppressions[tenant, address]
    IN  s.limit = "forever" \/ (s.limit = "timed" /\ s.left > 0)

(* Mutant of InsertNotification: status and reason swapped by the caller.   *)
InsertNotificationSwapped(c, status, reason) ==
    notifications' = [notifications EXCEPT ![c] =
        [status |-> reason, reason |-> status, age |-> 0, delivered |-> FALSE]]

(* Writes of one row.  An UPDATE whose row is gone changes nothing.        *)
InsertNotification(c, status, reason) ==
    notifications' = [notifications EXCEPT ![c] =
        [status |-> status, reason |-> reason, age |-> 0, delivered |-> FALSE]]

(* Mutant of Updated: delivered_at is set anew, to null when not delivered. *)
UpdatedAnew(n, status, delivered) ==
    IF n.status = "none" THEN n
    ELSE [n EXCEPT !.status = status, !.delivered = delivered]

Updated(n, status, delivered) ==
    IF n.status = "none" THEN n
    ELSE [n EXCEPT !.status = status, !.delivered = @ \/ delivered]

UpdateNotification(c, status, delivered) ==
    notifications' = [notifications EXCEPT ![c] = Updated(@, status, delivered)]

-----------------------------------------------------------------------------
(* The API handlers.                                                       *)
UpsertPreferences(u, p) ==
    /\ userPreferences[u] # p
    /\ userPreferences' = [userPreferences EXCEPT ![u] = p]
    /\ UNCHANGED <<tenantSuppressions, templates>>

(* ON CONFLICT DO NOTHING: a row that is there stays as it is, expired or  *)
(* not.                                                                    *)
CreateSuppression(a, s) ==
    /\ tenantSuppressions[a] = NotSuppressed
    /\ tenantSuppressions' = [tenantSuppressions EXCEPT ![a] = s]
    /\ UNCHANGED <<userPreferences, templates>>

DeleteSuppression(a) ==
    /\ tenantSuppressions[a] # NotSuppressed
    /\ tenantSuppressions' = [tenantSuppressions EXCEPT ![a] = NotSuppressed]
    /\ UNCHANGED <<userPreferences, templates>>

(* PUT of the rule's template, or of the rule and DELETE of its old one.   *)
EditTemplate(r, t) ==
    /\ t # "deleted"
    /\ templates[r] \notin {t, "deleted"}
    /\ templates' = [templates EXCEPT ![r] = t]
    /\ UNCHANGED <<userPreferences, tenantSuppressions>>

DeleteRule(r) ==
    /\ templates[r] # "deleted"
    /\ templates' = [templates EXCEPT ![r] = "deleted"]
    /\ UNCHANGED <<userPreferences, tenantSuppressions>>

Edit ==
    /\ edits < MaxEdits
    /\ edits' = edits + 1
    /\ \/ \E u \in Users, p \in PrefChoices : UpsertPreferences(u, p)
       \/ \E a \in Tenants \X Addresses, s \in LimitChoices : CreateSuppression(a, s)
       \/ \E a \in Tenants \X Addresses : DeleteSuppression(a)
       \/ \E r \in Rules, t \in TemplateEdits : EditTemplate(r, t)
       \/ \E r \in Rules : "deleted" \in TemplateEdits /\ DeleteRule(r)
    /\ UNCHANGED <<clock, notifications, digestQueue>>

(* A minute passes.                                                        *)
Older(n) == IF n.status = "none" \/ n.age = AgeCap THEN n
            ELSE [n EXCEPT !.age = @ + 1]

Sooner(n) == IF n = 0 THEN 0 ELSE n - 1

Tick ==
    /\ clock' = (clock + 1) % Day
    /\ notifications' = [c \in Calls |-> Older(notifications[c])]
    /\ digestQueue' = [c \in Calls |-> [digestQueue[c] EXCEPT !.due = Sooner(@)]]
    /\ tenantSuppressions' = [a \in DOMAIN tenantSuppressions |->
                                [tenantSuppressions[a] EXCEPT !.left = Sooner(@)]]
    /\ UNCHANGED <<userPreferences, templates, edits>>

StoreNext == Tick \/ Edit
=============================================================================
