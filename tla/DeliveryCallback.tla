-------------------------- MODULE DeliveryCallback --------------------------
(***************************************************************************)
(* dispatchDeliveryCallback of channels/delivery-callback.ts, which the    *)
(* webhook handler starts and does not wait for, and the whole of it:      *)
(* pipeline, cleanup, webhooks and callbacks in one server.                *)
(***************************************************************************)
EXTENDS Webhooks

(* The tenant has a callback URL and a secret at this moment, or not: its  *)
(* configuration is another component's.                                   *)
ReadTenant(p) ==
    /\ wpc[p] = "config"
    /\ \/ End(p)
       \/ WGoto(p, "call") /\ UNCHANGED post
    /\ UNCHANGED <<vars, kpc, resendVars, deliveryEvents, got, historyVars>>

(* One signed POST: a 2xx, another status, or none within five seconds.    *)
CallTenant(p) ==
    /\ wpc[p] = "call"
    /\ \E code \in Codes :
          /\ post' = [post EXCEPT ![p].code = code]
          /\ got' = IF code = "ok" THEN got \union {Report(p)} ELSE got
    /\ WGoto(p, "status")
    /\ UNCHANGED <<vars, kpc, resendVars, deliveryEvents, historyVars>>

(* Mutant of Answered: the event type is left out of the WHERE.             *)
AnsweredAnyType(e, d) == e[1] = d[1]

(* The rows the UPDATE for report d is for: all of its mail and type, a    *)
(* row for every time any of these reports was handled.                    *)
Answered(e, d) == e[1] = d[1] /\ Type(e[2]) = Type(d[2])

UpdateCallbackStatus(p) ==
    /\ wpc[p] = "status"
    /\ deliveryEvents' = [e \in Reports |->
          IF Answered(e, Report(p)) /\ deliveryEvents[e] # {}
          THEN {post[p].code} ELSE deliveryEvents[e]]
    /\ End(p)
    /\ UNCHANGED <<vars, kpc, resendVars, got, historyVars>>

CallbackStep(p) == ReadTenant(p) \/ CallTenant(p) \/ UpdateCallbackStatus(p)

(* A database error answers 500; in the callback it is logged.             *)
PostThrow(p) ==
    /\ wpc[p] \notin {"idle", "call"}
    /\ faults < MaxFaults
    /\ faults' = faults + 1
    /\ End(p)
    /\ UNCHANGED <<storeVars, callVars, sends, kpc, resendVars, deliveryEvents,
                   got, historyVars>>

ServerCrash ==
    /\ (\E c \in Calls : Active(c)) \/ (\E p \in Posts : wpc[p] # "idle") \/ kpc # "idle"
    /\ faults < MaxFaults
    /\ faults' = faults + 1
    /\ KillCalls
    /\ wpc' = [p \in Posts |-> "idle"]
    /\ post' = [p \in Posts |-> NoPost]
    /\ kpc' = "idle"
    /\ UNCHANGED <<storeVars, sends, resendVars, deliveryEvents, got, historyVars>>

-----------------------------------------------------------------------------
(* What Resend and the history variables see of a step of the pipeline.    *)
TakeMail ==
    mail' = [c \in Calls |->
               IF Request[c].channel = "email" /\ sends'[c] > sends[c]
               THEN addr[c] ELSE mail[c]]

Watch ==
    /\ overtaken' = overtaken \union
          {c \in Calls : /\ pc[c] = "record" /\ pc'[c] = "done"
                         /\ \E e \in Reports : /\ e[1] = c /\ e[2] \in Bounces
                                               /\ deliveryEvents[e] # {}}
    /\ burned' = [c \in Calls |-> IF ~Active(c)' THEN {}
                                  ELSE IF ~Active(c) THEN burns ELSE burned[c]]
    /\ UNCHANGED burns

Kept(addresses) == {a \in addresses : tenantSuppressions'[a] # NotSuppressed}

Lift ==
    /\ burns' = Kept(burns)
    /\ burned' = [c \in Calls |-> Kept(burned[c])]
    /\ UNCHANGED overtaken

WebhooksNext ==
    \/ CallNext /\ TakeMail /\ Watch /\ UNCHANGED <<kpc, news, told, postVars>>
    \/ Edit /\ Lift /\ UNCHANGED <<pipelineVars, kpc, resendVars, postVars>>
    \/ Tick /\ UNCHANGED <<pipelineVars, kpc, resendVars, postVars, historyVars>>
    \/ (PurgeQueue \/ PurgeNotifications)
          /\ UNCHANGED <<pipelineVars, resendVars, postVars, historyVars>>
    \/ \E e \in Reports : Happen(e)
    \/ \E p \in Posts, e \in Reports : Receive(p, e) \/ ReceiveAgain(p, e)
    \/ \E p \in Posts : HandlerStep(p) \/ CallbackStep(p) \/ PostThrow(p)
    \/ ServerCrash

WebhooksSpec == WebhooksInit /\ [][WebhooksNext]_webhookVars

(* Answers arrive, and Resend goes on posting while there is a report it   *)
(* was not told about.                                                     *)
WebhooksFairness ==
    /\ \A p \in Posts : WF_webhookVars(HandlerStep(p) \/ CallbackStep(p))
    /\ WF_webhookVars(\E p \in Posts, e \in Reports : Receive(p, e))

FairWebhooksSpec == WebhooksSpec /\ WebhooksFairness

-----------------------------------------------------------------------------
(* docs/USER_SETUP.md: a report "updates the originating notification's status".*)
(* Once a bounce or a complaint has been answered, the row says failed for *)
(* good, in whatever order the reports came, unless the pipeline had its   *)
(* own UPDATE still to do, which then says sent over it.                   *)
BouncedRowSaysSo ==
    \A e \in told :
        (/\ e[2] \in Bounces
         /\ e[1] \notin overtaken
         /\ HasRow(e[1]))
        => notifications[e[1]].status = "failed"

(* USER_SETUP.md: "Hard bounces and spam complaints from Resend            *)
(* auto-populate tenant_suppressions ... Pre-dispatch guard skips          *)
(* notifications targeting suppressed recipients".  A call that started    *)
(* after such a report was answered sends nothing to its address, while    *)
(* the API has not lifted the entry.                                       *)
NoSendToBurned ==
    \A c \in Calls :
        (pc[c] = "dispatch" /\ Request[c].channel # "in_app")
        => <<Request[c].tenant, addr[c]>> \notin burned[c]

(* delivery-callback.ts:60-62: the UPDATE is scoped "to avoid bleeding     *)
(* statuses across tenants or event types".  A callback_status_code of 2xx *)
(* means that the tenant's endpoint accepted a report of this type about   *)
(* this mail.  No more than that: with two of a type, a mail opened twice, *)
(* the row of one has the status of the other.                             *)
CallbackStatusIsTrue ==
    \A e \in Reports :
        "ok" \in deliveryEvents[e] =>
            \E d \in got : d[1] = e[1] /\ Type(d[2]) = Type(e[2])

(* However often the handler fails half-way, the address of a hard bounce  *)
(* or complaint comes on the list; only a report that outlives its row,    *)
(* whose audit row then can not be inserted, never gets that far.          *)
HurtfulReportSuppresses ==
    \A e \in {r \in Reports : /\ Hurts(r[2])
                              /\ r[2] \in Unnamed => Request[r[1]].direct} :
        (e \in news \ told) ~>
            \/ ~HasRow(e[1])
            \/ \E a \in Addresses : /\ mail[e[1]] = a
                                   /\ tenantSuppressions[Request[e[1]].tenant, a] # NotSuppressed
=============================================================================
