------------------------------ MODULE Webhooks ------------------------------
(***************************************************************************)
(* POST /api/webhooks/resend of api/webhooks.routes.ts, beside the         *)
(* pipeline whose mails it is about and the cleanup that deletes their     *)
(* rows.  Resend is outside src/: it has something to report about a mail  *)
(* from the moment it took it, posts the reports in any order, again until *)
(* it gets a 2xx, and sometimes once more.  The handler is a sequence of   *)
(* statements in no transaction.                                           *)
(***************************************************************************)
EXTENDS Pipeline, Cleanup

CONSTANTS
    Posts,      \* the POSTs in the server at once
    Reports,    \* what Resend may have to report: a call's mail, the kind
                \* of report and, as a kind may recur, which one of the kind
    Unnamed,    \* the kinds of report without a data.to
    MaxNews,    \* reports in a run
    Codes,      \* what becomes of a callback: its status, null for none
    NoPost

(* "opened" stands for every type the handler has no case for: it stores   *)
(* and passes on those too.                                                *)
Kinds == {"delivered", "delayed", "opened", "hard", "soft", "complained"}

Bounces == {"hard", "soft", "complained"}

(* The event_type of a report: hard and soft bounces have the same.        *)
Type(k) == IF k \in {"hard", "soft"} THEN "bounced" ELSE k

ASSUME WebhooksAssumption ==
    /\ Reports \subseteq Calls \X Kinds \X Nat
    /\ Unnamed \subseteq Kinds
    /\ MaxNews \in Nat
    /\ {"null", "ok"} \subseteq Codes

VARIABLES
    mail,           \* mail[c]: the address Resend has call c's mail for
    news,           \* what Resend has to report
    told,           \* the reports it has a 2xx for
    wpc,            \* where each POST is, its callback included
    post,           \* its report, the recipient it names, its callback's result
    deliveryEvents, \* the callback_status_codes of a report's audit rows
    got,            \* the reports a tenant's endpoint has answered with a 2xx
    overtaken,      \* rows the pipeline wrote after a report had
    burns,          \* addresses suppressed by a report, not lifted by the API
    burned          \* burned[c]: burns when call c started

resendVars   == <<mail, news, told>>
postVars     == <<wpc, post, deliveryEvents, got>>
historyVars  == <<overtaken, burns, burned>>
webhookVars  == <<vars, kpc, resendVars, postVars, historyVars>>

PostType == [report : Reports, to : Addresses \union Recipients \union {NoAddress},
             code : Codes]

Handling == {"audit", "apply", "resolve", "suppress"}

WebhooksTypeOK ==
    /\ TypeOK
    /\ CleanupTypeOK
    /\ mail \in [Calls -> Addresses \union {NoAddress}]
    /\ news \subseteq Reports
    /\ told \subseteq news
    /\ wpc \in [Posts -> {"idle", "config", "call", "status"} \union Handling]
    /\ post \in [Posts -> PostType \union {NoPost}]
    /\ deliveryEvents \in [Reports -> SUBSET Codes]
    /\ got \subseteq told
    /\ overtaken \subseteq Calls
    /\ burns \subseteq Tenants \X Addresses
    /\ burned \in [Calls -> SUBSET (Tenants \X Addresses)]

WebhooksInit ==
    /\ Init
    /\ kpc = "idle"
    /\ mail = [c \in Calls |-> NoAddress]
    /\ news = {}
    /\ told = {}
    /\ wpc = [p \in Posts |-> "idle"]
    /\ post = [p \in Posts |-> NoPost]
    /\ deliveryEvents = [e \in Reports |-> {}]
    /\ got = {}
    /\ overtaken = {}
    /\ burns = {}
    /\ burned = [c \in Calls |-> {}]

-----------------------------------------------------------------------------
(* Resend reports on the mails it has, in any order: a mail may be opened  *)
(* twice, or bounce soft and then hard.  The reports of one kind are       *)
(* numbered as they come.                                                  *)
Happen(e) ==
    /\ mail[e[1]] # NoAddress
    /\ e \notin news
    /\ \A d \in Reports \ news : d[1] = e[1] /\ d[2] = e[2] => d[3] >= e[3]
    /\ Cardinality(news) < MaxNews
    /\ news' = news \union {e}
    /\ UNCHANGED <<vars, kpc, mail, told, postVars, historyVars>>

-----------------------------------------------------------------------------
(* The handler.                                                            *)
Report(p) == post[p].report
Mail(p)   == Report(p)[1]
Kind(p)   == Report(p)[2]

WGoto(p, step) == wpc' = [wpc EXCEPT ![p] = step]

End(p) == WGoto(p, "idle") /\ post' = [post EXCEPT ![p] = NoPost]

Hurts(k) == k \in {"hard", "complained"}

(* The kinds that change no row and no list.                               *)
Silent(k) == k \in {"delayed", "opened"}

(* suppressionReasonFor's tenant and recipient: what the list will hold.   *)
Target(p) == <<Request[Mail(p)].tenant, post[p].to>>

(* The last await has returned: 200, and the callback is on its way.       *)
Respond(p) ==
    /\ told' = told \union {Report(p)}
    /\ WGoto(p, "config")
    /\ burns' = IF Hurts(Kind(p)) /\ post[p].to \in Addresses
                THEN burns \union {Target(p)} ELSE burns
    /\ UNCHANGED <<mail, news, got, overtaken, burned>>

(* A POST of a report.  One that was more than five minutes on the way, or *)
(* whose signature does not verify, gets a 401 and changes nothing; so     *)
(* does one on a mail without X-Hub-Tenant-ID, as those of the digest      *)
(* engine are, but with a 200.                                             *)
Accept(p, e) ==
    /\ wpc[p] = "idle"
    /\ WGoto(p, "audit")
    /\ post' = [post EXCEPT ![p] =
          [report |-> e, code |-> "null",
           to |-> IF e[2] \in Unnamed THEN NoAddress ELSE mail[e[1]]]]
    /\ UNCHANGED <<storeVars, callVars, sends, kpc, resendVars, deliveryEvents,
                   got, historyVars>>

Receive(p, e) == e \in news \ told /\ Accept(p, e) /\ UNCHANGED faults

(* The 2xx got lost on its way, or Resend was not sure of it.              *)
ReceiveAgain(p, e) ==
    /\ e \in told
    /\ faults < MaxFaults
    /\ faults' = faults + 1
    /\ Accept(p, e)

(* The audit row.  notification_id is a foreign key: a row that is gone    *)
(* fails the INSERT, and Resend will post the report again, in vain.       *)
InsertEvent(p) ==
    /\ wpc[p] = "audit"
    /\ \/ /\ ~HasRow(Mail(p))
          /\ End(p)
          /\ UNCHANGED <<deliveryEvents, resendVars, got, historyVars>>
       \/ /\ HasRow(Mail(p))
          /\ deliveryEvents' = [deliveryEvents EXCEPT ![Report(p)] = @ \union {"null"}]
          /\ UNCHANGED post
          /\ \/ Silent(Kind(p)) /\ Respond(p)
             \/ /\ ~Silent(Kind(p)) /\ WGoto(p, "apply")
                /\ UNCHANGED <<resendVars, got, historyVars>>
    /\ UNCHANGED <<vars, kpc>>

(* Mutant of Reported: a delivered mail's row is set to sent.               *)
ReportedSent(n, k) ==
    IF n.status = "none" THEN n
    ELSE [n EXCEPT !.status = IF k = "delivered" THEN "sent" ELSE "failed",
                   !.delivered = @ \/ k = "delivered"]

(* A report writes what it says over what is there: it does not ask for    *)
(* the row's status, nor whether the pipeline is done with the row.        *)
Reported(n, k) ==
    IF n.status = "none" THEN n
    ELSE IF k = "delivered" THEN [n EXCEPT !.delivered = TRUE]
    ELSE [n EXCEPT !.status = "failed",
                   !.reason = IF k = "complained" THEN "complaint" ELSE @]

ApplyNotificationState(p) ==
    /\ wpc[p] = "apply"
    /\ notifications' = [notifications EXCEPT ![Mail(p)] = Reported(@, Kind(p))]
    /\ \/ ~Hurts(Kind(p)) /\ Respond(p)
       \/ /\ Hurts(Kind(p))
          /\ WGoto(p, IF post[p].to = NoAddress THEN "resolve" ELSE "suppress")
          /\ UNCHANGED <<resendVars, got, historyVars>>
    /\ UNCHANGED <<clock, digestQueue, userPreferences, tenantSuppressions,
                   templates, edits, pipelineVars, kpc, post, deliveryEvents>>

(* Mutant of ResolveBounceRecipient: the row is not looked up.              *)
ResolveBounceRecipientNone(p) ==
    /\ wpc[p] = "resolve"
    /\ Respond(p)
    /\ UNCHANGED <<vars, kpc, post, deliveryEvents>>

(* Without data.to the row's recipient is taken for the address: a user id *)
(* unless the rule or the event named the address itself.                  *)
ResolveBounceRecipient(p) ==
    /\ wpc[p] = "resolve"
    /\ \/ /\ ~HasRow(Mail(p))
          /\ Respond(p) /\ UNCHANGED post
       \/ /\ HasRow(Mail(p))
          /\ WGoto(p, "suppress")
          /\ post' = [post EXCEPT ![p].to = Request[Mail(p)].recipient]
          /\ UNCHANGED <<resendVars, got, historyVars>>
    /\ UNCHANGED <<vars, kpc, deliveryEvents>>

(* Mutant of AutoSuppress: the entry is made to expire.                     *)
AutoSuppressTimed(list, a) ==
    IF a \notin DOMAIN list \/ list[a] # NotSuppressed THEN list
    ELSE [list EXCEPT ![a] = [limit |-> "timed", left |-> 0]]

(* ON CONFLICT DO NOTHING, so an expired entry stays an expired entry.  An *)
(* entry for a user id is one no check compares with.                      *)
AutoSuppress(list, a) ==
    IF a \notin DOMAIN list \/ list[a] # NotSuppressed THEN list
    ELSE [list EXCEPT ![a] = [limit |-> "forever", left |-> 0]]

InsertSuppression(p) ==
    /\ wpc[p] = "suppress"
    /\ tenantSuppressions' = AutoSuppress(tenantSuppressions, Target(p))
    /\ Respond(p)
    /\ UNCHANGED <<clock, notifications, digestQueue, userPreferences,
                   templates, edits, pipelineVars, kpc, post, deliveryEvents>>

HandlerStep(p) ==
    \/ InsertEvent(p)
    \/ ApplyNotificationState(p)
    \/ ResolveBounceRecipient(p)
    \/ InsertSuppression(p)
=============================================================================
