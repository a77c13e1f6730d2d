--------------------------- MODULE Webhooks_proofs ---------------------------
(***************************************************************************)
(* What the webhook handler, its callbacks, the pipeline and the cleanup   *)
(* keep of the rows they all write (Webhooks with DeliveryCallback), for   *)
(* any number of calls, reports and POSTs at once, in whatever order the   *)
(* reports come and whatever crashes and throws in between.                *)
(***************************************************************************)
EXTENDS DeliveryCallback, Pipeline_proofs

-----------------------------------------------------------------------------
(* The invariant.  A mail is with Resend only when its call is past the    *)
(* dispatch, so no INSERT of its row is still to come; and an address that *)
(* is not a user's id is one the suppression list can hold.                *)
AddressFits(c) == Request[c].channel # "in_app" => addr[c] \in Addresses \union {NoAddress}

MailFits(c) == mail[c] # NoAddress => pc[c] \in {"record"} \union Ends

(* A bounced mail's row says so, unless the pipeline wrote over it.        *)
SaysSo(e) ==
    e[2] \in Bounces /\ e[1] \notin overtaken /\ HasRow(e[1])
        => notifications[e[1]].status = "failed"

(* Some report of this type about this mail has been accepted.             *)
Vouched(e) == \E d \in got : d[1] = e[1] /\ Type(d[2]) = Type(e[2])

ReportFits(e) ==
    /\ e \in news => mail[e[1]] # NoAddress
    /\ e \in told => e \in news /\ deliveryEvents[e] # {} /\ SaysSo(e)
    /\ e \in got => e \in told
    /\ "ok" \in deliveryEvents[e] => Vouched(e)

(* What a POST's place says of its report: its audit row is there before   *)
(* the row is written, the row is written before the list, and the report  *)
(* is answered before the callback.                                        *)
PostFits(p) ==
    /\ wpc[p] # "idle" => post[p] \in PostType
    /\ wpc[p] \in Handling => Report(p) \in news
    /\ wpc[p] \in {"apply", "resolve", "suppress"} => deliveryEvents[Report(p)] # {}
    /\ wpc[p] \in {"resolve", "suppress"} => SaysSo(Report(p))
    /\ wpc[p] = "resolve" => post[p].to = NoAddress
    /\ wpc[p] \in {"config", "call", "status"} => Report(p) \in told
    /\ wpc[p] = "status" /\ post[p].code = "ok" => Report(p) \in got

PlacesTypeOK ==
    /\ CleanupTypeOK
    /\ mail \in [Calls -> Addresses \union {NoAddress}]
    /\ news \subseteq Reports
    /\ told \subseteq Reports
    /\ wpc \in [Posts -> {"idle", "config", "call", "status"} \union Handling]
    /\ post \in [Posts -> PostType \union {NoPost}]
    /\ deliveryEvents \in [Reports -> SUBSET Codes]
    /\ got \subseteq Reports
    /\ overtaken \subseteq Calls
    /\ burns \subseteq Tenants \X Addresses
    /\ burned \in [Calls -> SUBSET (Tenants \X Addresses)]

WebhooksInv ==
    /\ TypeOK
    /\ PlacesTypeOK
    /\ \A c \in Calls : AddressFits(c) /\ MailFits(c)
    /\ \A e \in Reports : ReportFits(e)
    /\ \A p \in Posts : PostFits(p)

LEMMA InvTypes == WebhooksInv => WebhooksTypeOK
BY DEF WebhooksInv, PlacesTypeOK, ReportFits, WebhooksTypeOK

LEMMA ReportOf ==
    ASSUME NEW e \in Reports
    PROVE  e[1] \in Calls /\ e[2] \in Kinds
BY WebhooksAssumption

LEMMA InvInit == WebhooksInit => WebhooksInv
<1> SUFFICES ASSUME WebhooksInit PROVE WebhooksInv
  OBVIOUS
<1> USE DEF WebhooksInit
<1>1. TypeOK
  BY TypeInit
<1>2. PlacesTypeOK
  BY DEF PlacesTypeOK, CleanupTypeOK
<1>3. \A c \in Calls : AddressFits(c) /\ MailFits(c)
  BY DEF Init, AddressFits, MailFits
<1>4. \A e \in Reports : ReportFits(e)
  BY DEF ReportFits
<1>5. \A p \in Posts : PostFits(p)
  BY DEF PostFits, Handling
<1> QED
  BY <1>1, <1>2, <1>3, <1>4, <1>5 DEF WebhooksInv

-----------------------------------------------------------------------------
(* The pipeline's steps.                                                   *)
LEMMA AddressStep ==
    ASSUME TypeOK, NEW c \in Calls, Start(c) \/ Step(c) \/ Throw(c),
           NEW d \in Calls, AddressFits(d)
    PROVE  AddressFits(d)'
<1> USE DEF TypeOK, CallTypeOK, AddressFits
<1>1. CASE addr' = addr
  BY <1>1
<1>2. CASE addr' = [addr EXCEPT ![c] = NoAddress]
  BY <1>2
<1>3. CASE Start(c) /\ ~(addr' = addr)
  <2>1. addr' = [addr EXCEPT ![c] = Request[c].recipient] /\ ~ReadsPreferences(c)
    BY <1>3 DEF Start
  <2>2. Request[c].channel # "in_app" => Request[c].recipient \in Addresses
    BY <2>1, RequestAssumption DEF ReadsPreferences
  <2> QED
    BY <2>1, <2>2
<1>4. CASE ResolveDeliveryAddress(c)
  <2>1. Request[c] \in RequestType
    BY RequestAssumption
  <2>2. userPreferences[User(c)] \in PreferencesType \union {NoPreferences}
    BY <2>1 DEF StoreTypeOK, User, Users, RequestType
  <2>3. ASSUME NEW q \in PreferencesType
        PROVE  q.address[Request[c].channel] \in Addresses \union {NoAddress}
    BY <2>1 DEF PreferencesType, RequestType
  <2>4. PICK a \in Addresses \union {NoAddress} : addr' = [addr EXCEPT ![c] = a]
    <3>1. CASE userPreferences[User(c)] = NoPreferences
      BY <1>4, <3>1 DEF ResolveDeliveryAddress
    <3>2. CASE userPreferences[User(c)] # NoPreferences
      BY <1>4, <2>2, <2>3, <3>2 DEF ResolveDeliveryAddress
    <3> QED
      BY <3>1, <3>2
  <2> QED
    BY <2>4
<1> QED
  BY <1>1, <1>2, <1>3, <1>4 DEF Step, Throw, CheckDuplicate, CheckSuppression, LookupTemplate,
     InsertRow, EnqueueDigest, FetchAttachments, Dispatch, RecordOutcome, Leave

(* Resend gets a mail from Dispatch only, whose call goes on to "record";  *)
(* a call that is there already only ends.                                 *)
LEMMA MailStep ==
    ASSUME TypeOK, NEW c \in Calls, Start(c) \/ Step(c) \/ Throw(c), TakeMail,
           NEW d \in Calls, MailFits(d)
    PROVE  /\ MailFits(d)'
           /\ mail[d] # NoAddress => mail'[d] # NoAddress
<1> USE DEF TypeOK, CallTypeOK, Goto
<1>0. mail'[d] = IF Request[d].channel = "email" /\ sends'[d] > sends[d] THEN addr[d] ELSE mail[d]
  BY DEF TakeMail
<1>1. CASE sends'[d] = sends[d]
  <2>1. mail'[d] = mail[d]
    BY <1>0, <1>1
  <2>2. pc[d] \in {"record"} \union Ends => pc'[d] \in {"record"} \union Ends
    <3>1. CASE d # c
      BY <3>1, StepFrame
    <3>2. CASE d = c
      <4>1. CASE pc[c] \in Ends
        BY <4>1, EndsStay
      <4>2. CASE pc[c] = "record"
        BY <4>2 DEF Start, Step, Throw, ResolveDeliveryAddress, CheckDuplicate,
           CheckSuppression, LookupTemplate, InsertRow, EnqueueDigest, FetchAttachments,
           Dispatch, RecordOutcome, Leave, Ends
      <4> QED
        BY <3>2, <4>1, <4>2
    <3> QED
      BY <3>1, <3>2
  <2> QED
    BY <2>1, <2>2 DEF MailFits
<1>2. CASE sends'[d] # sends[d]
  <2>1. d = c /\ Dispatch(c)
    BY <1>2, StepSends
  <2>2. pc'[d] = "record" /\ pc[d] = "dispatch"
    BY <2>1 DEF Dispatch
  <2> QED
    BY <2>2 DEF MailFits, Ends
<1> QED
  BY <1>1, <1>2

(* The pipeline writes over a bounced row only where that is noted.        *)
LEMMA SaysSoCall ==
    ASSUME TypeOK, NEW c \in Calls, Start(c) \/ Step(c) \/ Throw(c), Watch,
           NEW e \in Reports, MailFits(e[1]), mail[e[1]] # NoAddress,
           deliveryEvents[e] # {}, SaysSo(e)
    PROVE  SaysSo(e)'
<1>0. e[1] \in Calls /\ e[2] \in Kinds
  BY ReportOf
<1>1. overtaken \subseteq overtaken'
  BY DEF Watch
<1>2. CASE notifications'[e[1]] = notifications[e[1]]
  BY <1>1, <1>2 DEF SaysSo, HasRow
<1>3. CASE notifications'[e[1]] # notifications[e[1]]
  <2>1. e[1] = c
    BY <1>0, <1>3, StepFrame
  <2>2. pc[c] \in {"record"} \union Ends
    BY <2>1 DEF MailFits
  <2>3. RecordOutcome(c)
    <3>1. ~InsertRow(c)
      BY <2>2 DEF InsertRow, Ends
    <3> QED
      BY <1>3, <2>1, <3>1, OwnRow
  <2>4. pc[c] = "record" /\ pc'[c] = "done"
    BY <2>3 DEF RecordOutcome, Leave, Goto, TypeOK, CallTypeOK
  <2>5. e[2] \in Bounces => c \in overtaken'
    BY <2>1, <2>4 DEF Watch, Bounces
  <2> QED
    BY <2>1, <2>5 DEF SaysSo
<1> QED
  BY <1>2, <1>3

-----------------------------------------------------------------------------
(* A POST's steps.  Whatever one of them does, reports and answers stay,   *)
(* and what is known of the other POSTs with them.                         *)
PostMoves(p) ==
    \/ \E e \in Reports : Receive(p, e) \/ ReceiveAgain(p, e)
    \/ HandlerStep(p)
    \/ CallbackStep(p)
    \/ PostThrow(p)

ReportsStay ==
    /\ news \subseteq news'
    /\ told \subseteq told'
    /\ got \subseteq got'
    /\ \A c \in Calls : mail[c] # NoAddress => mail'[c] # NoAddress
    /\ \A e \in Reports :
          /\ deliveryEvents[e] # {} => deliveryEvents'[e] # {}
          /\ mail[e[1]] # NoAddress /\ deliveryEvents[e] # {} /\ SaysSo(e) => SaysSo(e)'

LEMMA ReportInReports ==
    ASSUME PlacesTypeOK, NEW p \in Posts, PostFits(p), wpc[p] # "idle"
    PROVE  /\ post[p] \in PostType
           /\ Report(p) \in Reports
           /\ Mail(p) \in Calls /\ Kind(p) \in Kinds
BY ReportOf DEF PostFits, PostType, Report, Mail, Kind

LEMMA PostKept ==
    ASSUME WebhooksInv, ReportsStay, NEW p \in Posts,
           wpc'[p] = wpc[p], post'[p] = post[p]
    PROVE  PostFits(p)'
<1> USE DEF WebhooksInv, ReportsStay
<1>1. CASE wpc[p] = "idle"
  BY <1>1 DEF PostFits, Handling
<1>2. CASE wpc[p] # "idle"
  <2>1. PICK e \in Reports : e = Report(p)
    BY <1>2, ReportInReports
  <2>2. Report(p)' = e
    BY <2>1 DEF Report
  <2>3. SaysSo(Report(p))' <=> SaysSo(e)'
    BY <2>2 DEF SaysSo, HasRow
  <2>4. SaysSo(Report(p)) <=> SaysSo(e)
    BY <2>1
  <2>5. e \in news => mail[e[1]] # NoAddress
    BY DEF ReportFits
  <2>6. wpc[p] \in {"resolve", "suppress"} => SaysSo(e)'
    BY <2>1, <2>4, <2>5 DEF PostFits, Handling
  <2>7. wpc[p] \in {"apply", "resolve", "suppress"} => deliveryEvents'[e] # {}
    BY <2>1 DEF PostFits
  <2> QED
    BY <1>2, <2>1, <2>2, <2>3, <2>6, <2>7 DEF PostFits, PostType
<1> QED
  BY <1>1, <1>2

(* A row keeps saying so unless its status or what overtook it changes.    *)
LEMMA SaysSoKept ==
    ASSUME NEW e \in Reports, SaysSo(e), overtaken \subseteq overtaken',
           \/ notifications'[e[1]].status = notifications[e[1]].status
           \/ notifications'[e[1]].status \in {"none", "failed"}
    PROVE  SaysSo(e)'
BY DEF SaysSo, HasRow

(* What a report writes.                                                   *)
LEMMA ReportedRow ==
    ASSUME NEW n \in NotificationType, NEW k \in Kinds
    PROVE  /\ Reported(n, k) \in NotificationType
           /\ Reported(n, k).status \in {n.status, "failed"}
           /\ n.status = "none" => Reported(n, k).status = "none"
           /\ k \in Bounces /\ n.status # "none" => Reported(n, k).status = "failed"
<1>1. CASE n.status = "none"
  BY <1>1 DEF Reported
<1>2. CASE n.status # "none" /\ k = "delivered"
  BY <1>2 DEF Reported, NotificationType, Bounces
<1>3. CASE n.status # "none" /\ k # "delivered"
  <2>1. \E r \in Reasons : Reported(n, k) = [n EXCEPT !.status = "failed", !.reason = r]
    <3>1. CASE k = "complained"
      <4>1. Reported(n, k) = [n EXCEPT !.status = "failed", !.reason = "complaint"]
        BY <1>3, <3>1 DEF Reported
      <4> QED
        BY <4>1 DEF Reasons
    <3>2. CASE k # "complained"
      <4>1. Reported(n, k) = [n EXCEPT !.status = "failed", !.reason = n.reason]
        BY <1>3, <3>2 DEF Reported
      <4> QED
        BY <4>1 DEF NotificationType
    <3> QED
      BY <3>1, <3>2
  <2> QED
    BY <1>3, <2>1 DEF NotificationType, Statuses
<1> QED
  BY <1>1, <1>2, <1>3

LEMMA AutoSuppressed ==
    ASSUME NEW list \in [Tenants \X Addresses -> SuppressionType], NEW a
    PROVE  /\ AutoSuppress(list, a) \in [Tenants \X Addresses -> SuppressionType]
           /\ a \in Tenants \X Addresses => AutoSuppress(list, a)[a] # NotSuppressed
           /\ \A b \in Tenants \X Addresses :
                 \/ AutoSuppress(list, a)[b] = list[b]
                 \/ AutoSuppress(list, a)[b].limit = "forever"
<1> DEFINE entry == [limit |-> "forever", left |-> 0]
<1>1. entry \in SuppressionType /\ entry.limit = "forever" /\ entry # NotSuppressed
  BY DEF SuppressionType, NotSuppressed
<1>2. \/ AutoSuppress(list, a) = list /\ (a \in Tenants \X Addresses => list[a] # NotSuppressed)
      \/ AutoSuppress(list, a) = [list EXCEPT ![a] = entry] /\ a \in Tenants \X Addresses
  BY DEF AutoSuppress
<1> HIDE DEF entry
<1> QED
  BY <1>1, <1>2

(* The tables under a POST's step.                                         *)
LEMMA PostTables ==
    ASSUME WebhooksInv, NEW p \in Posts, PostMoves(p)
    PROVE  /\ UNCHANGED <<clock, digestQueue, userPreferences, templates, edits,
                          callVars, sends, kpc, mail, news, overtaken, burned>>
           /\ ~ApplyNotificationState(p) => notifications' = notifications
           /\ ~InsertSuppression(p) => tenantSuppressions' = tenantSuppressions
           /\ faults' = faults \/ (faults < MaxFaults /\ faults' = faults + 1)
<1>1. CASE \E e \in Reports : Receive(p, e) \/ ReceiveAgain(p, e)
  BY <1>1 DEF Receive, ReceiveAgain, Accept, storeVars, resendVars, historyVars
<1>2. CASE HandlerStep(p)
  <2>1. CASE InsertEvent(p) \/ ResolveBounceRecipient(p)
    <3>1. UNCHANGED vars /\ UNCHANGED <<kpc, mail, news, overtaken, burned>>
      BY <2>1 DEF InsertEvent, ResolveBounceRecipient, Respond, resendVars, historyVars
    <3> QED
      BY <3>1 DEF vars, storeVars, pipelineVars, callVars
  <2>2. CASE ApplyNotificationState(p)
    BY <2>2 DEF ApplyNotificationState, Respond, pipelineVars, callVars, resendVars, historyVars
  <2>3. CASE InsertSuppression(p)
    BY <2>3 DEF InsertSuppression, Respond, pipelineVars, callVars
  <2> QED
    BY <1>2, <2>1, <2>2, <2>3 DEF HandlerStep
<1>3. CASE CallbackStep(p)
  <2>1. UNCHANGED vars /\ UNCHANGED <<kpc, mail, news, overtaken, burned>>
    BY <1>3 DEF CallbackStep, ReadTenant, CallTenant, UpdateCallbackStatus, resendVars, historyVars
  <2> QED
    BY <2>1 DEF vars, storeVars, pipelineVars, callVars
<1>4. CASE PostThrow(p)
  BY <1>4 DEF PostThrow, storeVars, resendVars, historyVars
<1> QED
  BY <1>1, <1>2, <1>3, <1>4 DEF PostMoves

LEMMA PostTypes ==
    ASSUME WebhooksInv, NEW p \in Posts, PostMoves(p)
    PROVE  TypeOK'
<1> USE DEF WebhooksInv
<1>1. notifications' \in [Calls -> NotificationType]
  <2>1. CASE ApplyNotificationState(p)
    <3>1. Mail(p) \in Calls /\ Kind(p) \in Kinds
      BY <2>1, ReportInReports DEF ApplyNotificationState
    <3>2. notifications' = [notifications EXCEPT ![Mail(p)] =
                                Reported(notifications[Mail(p)], Kind(p))]
      BY <2>1 DEF ApplyNotificationState
    <3> QED
      BY <3>1, <3>2, ReportedRow DEF TypeOK, StoreTypeOK
  <2> QED
    BY <2>1, PostTables DEF TypeOK, StoreTypeOK
<1>2. tenantSuppressions' \in [Tenants \X Addresses -> SuppressionType]
  <2>1. CASE InsertSuppression(p)
    BY <2>1, AutoSuppressed DEF InsertSuppression, TypeOK, StoreTypeOK
  <2> QED
    BY <2>1, PostTables DEF TypeOK, StoreTypeOK
<1>3. faults' \in 0 .. MaxFaults
  BY PostTables, PipelineAssumption DEF TypeOK
<1> QED
  BY <1>1, <1>2, <1>3, PostTables DEF TypeOK, StoreTypeOK, CallTypeOK, callVars
Places == {"idle", "config", "call", "status"} \union Handling

(* What a POST's step does to its place, its report and the tables of the  *)
(* webhooks: an audit row that is there stays, an answer is to its own     *)
(* report.                                                                 *)
PostEffects(p) ==
    /\ \E s \in Places : wpc' = [wpc EXCEPT ![p] = s]
    /\ \E v \in PostType \union {NoPost} : post' = [post EXCEPT ![p] = v]
    /\ deliveryEvents' \in [Reports -> SUBSET Codes]
    /\ \A e \in Reports : deliveryEvents[e] # {} => deliveryEvents'[e] # {}
    /\ told \subseteq told' /\ told' \subseteq Reports
    /\ got \subseteq got' /\ got' \subseteq Reports
    /\ burns' \subseteq Tenants \X Addresses

LEMMA RespondEffects ==
    ASSUME WebhooksInv, NEW p \in Posts, wpc[p] # "idle", Respond(p)
    PROVE  /\ wpc' = [wpc EXCEPT ![p] = "config"]
           /\ told \subseteq told' /\ told' \subseteq Reports
           /\ got' = got
           /\ burns' \subseteq Tenants \X Addresses
<1> USE DEF WebhooksInv
<1>1. Report(p) \in Reports /\ Mail(p) \in Calls
  BY ReportInReports
<1>2. burns' = burns \/ (post[p].to \in Addresses /\ burns' = burns \union {Target(p)})
  BY DEF Respond
<1>3. Request[Mail(p)] \in RequestType
  BY <1>1, RequestAssumption
<1>4. post[p].to \in Addresses => Target(p) \in Tenants \X Addresses
  BY <1>3 DEF Target, RequestType
<1> QED
  BY <1>1, <1>2, <1>4 DEF Respond, WGoto, PlacesTypeOK

LEMMA HandlerEffects ==
    ASSUME WebhooksInv, NEW p \in Posts, HandlerStep(p)
    PROVE  PostEffects(p)
<1> USE DEF WebhooksInv, PlacesTypeOK, Places, Handling
<1>1. wpc[p] # "idle" /\ wpc[p] \in Handling
  BY DEF HandlerStep, InsertEvent, ApplyNotificationState, ResolveBounceRecipient,
         InsertSuppression
<1>2. post[p] \in PostType /\ Report(p) \in Reports /\ Mail(p) \in Calls
  BY <1>1, ReportInReports
<1>3. post' = post => post' = [post EXCEPT ![p] = post[p]]
  OBVIOUS
<1>4. \E v \in PostType \union {NoPost} : post' = [post EXCEPT ![p] = v]
  <2>1. CASE post' = post
    BY <1>2, <1>3, <2>1
  <2>2. CASE End(p)
    BY <2>2 DEF End
  <2>3. CASE post' = [post EXCEPT ![p].to = Request[Mail(p)].recipient]
    <3>1. Request[Mail(p)].recipient \in Recipients
      BY <1>2, RequestAssumption DEF RequestType
    <3>2. [post[p] EXCEPT !.to = Request[Mail(p)].recipient] \in PostType
      BY <1>2, <3>1 DEF PostType
    <3>3. post' = [post EXCEPT ![p] = [post[p] EXCEPT !.to = Request[Mail(p)].recipient]]
      BY <2>3
    <3> QED
      BY <3>2, <3>3
  <2> QED
    BY <2>1, <2>2, <2>3 DEF HandlerStep, InsertEvent, ApplyNotificationState,
       ResolveBounceRecipient, InsertSuppression
<1>5. /\ deliveryEvents' \in [Reports -> SUBSET Codes]
      /\ \A e \in Reports : deliveryEvents[e] # {} => deliveryEvents'[e] # {}
  <2>1. CASE deliveryEvents' = deliveryEvents
    BY <2>1
  <2>2. CASE deliveryEvents' = [deliveryEvents EXCEPT ![Report(p)] = @ \union {"null"}]
    BY <1>2, <2>2, WebhooksAssumption
  <2> QED
    BY <2>1, <2>2 DEF HandlerStep, InsertEvent, ApplyNotificationState,
       ResolveBounceRecipient, InsertSuppression
<1>6. /\ \E s \in Places : wpc' = [wpc EXCEPT ![p] = s]
      /\ told \subseteq told' /\ told' \subseteq Reports
      /\ got \subseteq got' /\ got' \subseteq Reports
      /\ burns' \subseteq Tenants \X Addresses
  <2>1. CASE Respond(p)
    BY <1>1, <2>1, RespondEffects
  <2>2. CASE UNCHANGED <<resendVars, got, historyVars>> /\ (End(p) \/ \E s \in Places : WGoto(p, s))
    BY <2>2 DEF resendVars, historyVars, End, WGoto
  <2> QED
    BY <2>1, <2>2 DEF HandlerStep, InsertEvent, ApplyNotificationState,
       ResolveBounceRecipient, InsertSuppression
<1> QED
  BY <1>4, <1>5, <1>6 DEF PostEffects

LEMMA CallbackEffects ==
    ASSUME WebhooksInv, NEW p \in Posts, CallbackStep(p)
    PROVE  PostEffects(p)
<1> USE DEF WebhooksInv, PlacesTypeOK, Places, Handling
<1>1. wpc[p] # "idle"
  BY DEF CallbackStep, ReadTenant, CallTenant, UpdateCallbackStatus
<1>2. post[p] \in PostType /\ Report(p) \in Reports
  BY <1>1, ReportInReports
<1>3. UNCHANGED <<told, burns>>
  BY DEF CallbackStep, ReadTenant, CallTenant, UpdateCallbackStatus, resendVars, historyVars
<1>4. CASE ReadTenant(p)
  <2>1. post' = post => post' = [post EXCEPT ![p] = post[p]]
    OBVIOUS
  <2>2. UNCHANGED <<deliveryEvents, got>>
    BY <1>4 DEF ReadTenant
  <2> QED
    BY <1>2, <1>3, <1>4, <2>1, <2>2 DEF PostEffects, ReadTenant, End, WGoto
<1>5. CASE CallTenant(p)
  <2>1. PICK code \in Codes : /\ post' = [post EXCEPT ![p].code = code]
                              /\ got' = IF code = "ok" THEN got \union {Report(p)} ELSE got
    BY <1>5 DEF CallTenant
  <2>2. [post[p] EXCEPT !.code = code] \in PostType
    BY <1>2 DEF PostType
  <2>3. post' = [post EXCEPT ![p] = [post[p] EXCEPT !.code = code]]
    BY <2>1
  <2>4. WGoto(p, "status") /\ deliveryEvents' = deliveryEvents
    BY <1>5 DEF CallTenant
  <2>5. got \subseteq got' /\ got' \subseteq Reports
    BY <1>2, <2>1
  <2> QED
    BY <1>3, <2>2, <2>3, <2>4, <2>5 DEF PostEffects, WGoto
<1>6. CASE UpdateCallbackStatus(p)
  <2>1. post[p].code \in Codes
    BY <1>2 DEF PostType
  <2>2. deliveryEvents' = [e \in Reports |->
           IF Answered(e, Report(p)) /\ deliveryEvents[e] # {}
           THEN {post[p].code} ELSE deliveryEvents[e]]
    BY <1>6 DEF UpdateCallbackStatus
  <2>3. /\ deliveryEvents' \in [Reports -> SUBSET Codes]
        /\ \A e \in Reports : deliveryEvents[e] # {} => deliveryEvents'[e] # {}
    BY <2>1, <2>2
  <2>4. End(p) /\ got' = got
    BY <1>6 DEF UpdateCallbackStatus
  <2> QED
    BY <1>3, <2>3, <2>4 DEF PostEffects, End, WGoto
<1> QED
  BY <1>4, <1>5, <1>6 DEF CallbackStep

LEMMA AcceptEffects ==
    ASSUME WebhooksInv, NEW p \in Posts, NEW e \in Reports, Accept(p, e)
    PROVE  PostEffects(p)
<1> USE DEF WebhooksInv, PlacesTypeOK, Places, Handling
<1>1. mail[e[1]] \in Addresses \union {NoAddress}
  BY ReportOf
<1>2. [report |-> e, code |-> "null", to |-> IF e[2] \in Unnamed THEN NoAddress ELSE mail[e[1]]]
        \in PostType
  BY <1>1, WebhooksAssumption DEF PostType
<1> QED
  BY <1>2 DEF Accept, PostEffects, WGoto, resendVars, historyVars

LEMMA PostMoveEffects ==
    ASSUME WebhooksInv, NEW p \in Posts, PostMoves(p)
    PROVE  PostEffects(p)
<1>1. CASE \E e \in Reports : Receive(p, e) \/ ReceiveAgain(p, e)
  BY <1>1, AcceptEffects DEF Receive, ReceiveAgain
<1>2. CASE PostThrow(p)
  BY <1>2 DEF PostThrow, PostEffects, End, WGoto, resendVars, historyVars, WebhooksInv,
              PlacesTypeOK, Places, Handling
<1> QED
  BY <1>1, <1>2, HandlerEffects, CallbackEffects DEF PostMoves

LEMMA PostPlaces ==
    ASSUME WebhooksInv, NEW p \in Posts, PostMoves(p)
    PROVE  PlacesTypeOK'
BY PostMoveEffects, PostTables DEF WebhooksInv, PlacesTypeOK, PostEffects, Places, CleanupTypeOK
LEMMA ApplyWrites ==
    ASSUME WebhooksInv, NEW p \in Posts, ApplyNotificationState(p)
    PROVE  /\ \A c \in Calls : notifications'[c].status \in {notifications[c].status, "failed"}
           /\ \A c \in Calls : HasRow(c)' => HasRow(c)
           /\ SaysSo(Report(p))'
<1>1. Report(p) \in Reports /\ Mail(p) \in Calls /\ Kind(p) \in Kinds
  BY ReportInReports DEF ApplyNotificationState, WebhooksInv
<1>2. notifications' = [notifications EXCEPT ![Mail(p)] = Reported(notifications[Mail(p)], Kind(p))]
  BY DEF ApplyNotificationState
<1>3. notifications \in [Calls -> NotificationType]
  BY DEF WebhooksInv, TypeOK, StoreTypeOK
<1> DEFINE n == notifications[Mail(p)]
<1>4. /\ Reported(n, Kind(p)).status \in {n.status, "failed"}
      /\ n.status = "none" => Reported(n, Kind(p)).status = "none"
      /\ Kind(p) \in Bounces /\ n.status # "none" => Reported(n, Kind(p)).status = "failed"
  BY <1>1, <1>3, ReportedRow
<1>5. notifications'[Mail(p)] = Reported(n, Kind(p))
  BY <1>1, <1>2, <1>3
<1>6. \A c \in Calls : c # Mail(p) => notifications'[c] = notifications[c]
  BY <1>2, <1>3
<1>7. post' = post
  BY DEF ApplyNotificationState
<1> HIDE DEF n
<1>8. SaysSo(Report(p))'
  <2>1. notifications'[Mail(p)].status \in {"none", "failed"} \/ Kind(p) \notin Bounces
    BY <1>4, <1>5
  <2>2. Report(p)' = Report(p) /\ Report(p)[1] = Mail(p) /\ Report(p)[2] = Kind(p)
    BY <1>7 DEF Report, Mail, Kind
  <2> QED
    BY <2>1, <2>2 DEF SaysSo, HasRow
<1> QED
  BY <1>4, <1>5, <1>6, <1>8 DEF HasRow, n

LEMMA PostReports ==
    ASSUME WebhooksInv, NEW p \in Posts, PostMoves(p)
    PROVE  ReportsStay
<1>1. \A e \in Reports : SaysSo(e) => SaysSo(e)'
  <2> SUFFICES ASSUME NEW e \in Reports, SaysSo(e) PROVE SaysSo(e)'
    OBVIOUS
  <2>1. e[1] \in Calls /\ overtaken' = overtaken
    BY ReportOf, PostTables
  <2>2. \/ notifications'[e[1]].status = notifications[e[1]].status
        \/ notifications'[e[1]].status \in {"none", "failed"}
    BY <2>1, PostTables, ApplyWrites
  <2> QED
    BY <2>1, <2>2, SaysSoKept
<1> QED
  BY <1>1, PostMoveEffects, PostTables DEF ReportsStay, PostEffects

(* The POSTs beside the one that moves.                                    *)
LEMMA PostOthers ==
    ASSUME WebhooksInv, NEW p \in Posts, PostMoves(p), NEW q \in Posts, q # p
    PROVE  PostFits(q)'
<1>1. wpc'[q] = wpc[q] /\ post'[q] = post[q]
  BY PostMoveEffects DEF PostEffects, WebhooksInv, PlacesTypeOK
<1> QED
  BY <1>1, PostKept, PostReports

(* The POST that moves: what its place says is what the step has done.     *)
LEMMA IdleFits ==
    ASSUME NEW p \in Posts, wpc'[p] = "idle"
    PROVE  PostFits(p)'
BY DEF PostFits, Handling

LEMMA AnsweredFits ==
    ASSUME NEW p \in Posts, wpc'[p] \in {"config", "call"}, post'[p] = post[p],
           post[p] \in PostType, Report(p) \in told'
    PROVE  PostFits(p)'
BY DEF PostFits, Handling, Report, PostType

LEMMA OwnHandler ==
    ASSUME WebhooksInv, NEW p \in Posts, HandlerStep(p)
    PROVE  PostFits(p)'
<1> USE DEF WebhooksInv, PlacesTypeOK
<1>1. wpc[p] # "idle" /\ wpc[p] \in Handling
  BY DEF HandlerStep, InsertEvent, ApplyNotificationState, ResolveBounceRecipient,
         InsertSuppression, Handling
<1>2. /\ post[p] \in PostType /\ Report(p) \in Reports /\ Mail(p) \in Calls
      /\ Report(p) \in news /\ PostFits(p)
  BY <1>1, ReportInReports DEF PostFits
<1>3. CASE End(p)
  BY <1>3, IdleFits DEF End, WGoto
<1>4. CASE Respond(p) /\ post' = post
  <2>1. wpc'[p] = "config" /\ Report(p) \in told'
    BY <1>4 DEF Respond, WGoto
  <2> QED
    BY <1>2, <1>4, <2>1, AnsweredFits
<1>5. CASE InsertEvent(p) /\ ~End(p) /\ ~(Respond(p) /\ post' = post)
  <2>1. wpc'[p] = "apply" /\ post' = post /\ news' = news
    BY <1>5 DEF InsertEvent, WGoto, resendVars
  <2>2. deliveryEvents'[Report(p)] # {}
    BY <1>2, <1>5 DEF InsertEvent
  <2>3. Report(p)' = Report(p)
    BY <2>1 DEF Report
  <2> QED
    BY <1>2, <2>1, <2>2, <2>3 DEF PostFits, Handling
<1>6. CASE ApplyNotificationState(p) /\ ~(Respond(p) /\ post' = post)
  <2>1. /\ wpc'[p] = IF post[p].to = NoAddress THEN "resolve" ELSE "suppress"
        /\ post' = post /\ news' = news /\ deliveryEvents' = deliveryEvents
    BY <1>6 DEF ApplyNotificationState, WGoto, resendVars
  <2>2. wpc[p] = "apply"
    BY <1>6 DEF ApplyNotificationState
  <2>3. Report(p)' = Report(p)
    BY <2>1 DEF Report
  <2>4. SaysSo(Report(p))'
    BY <1>6, ApplyWrites
  <2> QED
    BY <1>2, <2>1, <2>2, <2>3, <2>4 DEF PostFits, Handling
<1>7. CASE ResolveBounceRecipient(p) /\ ~(Respond(p) /\ post' = post)
  <2>1. /\ wpc'[p] = "suppress"
        /\ post' = [post EXCEPT ![p].to = Request[Mail(p)].recipient]
        /\ news' = news /\ deliveryEvents' = deliveryEvents /\ overtaken' = overtaken
        /\ UNCHANGED vars
    BY <1>7 DEF ResolveBounceRecipient, WGoto, resendVars, historyVars
  <2>2. wpc[p] = "resolve"
    BY <1>7 DEF ResolveBounceRecipient
  <2>3. Report(p)' = Report(p)
    BY <1>2, <2>1 DEF Report, PostType
  <2>4. notifications' = notifications
    BY <2>1 DEF vars, storeVars
  <2>5. SaysSo(Report(p))'
    BY <1>2, <2>1, <2>2, <2>3, <2>4 DEF PostFits, SaysSo, HasRow
  <2>6. post'[p] \in PostType
    <3>1. Request[Mail(p)].recipient \in Recipients
      BY <1>2, RequestAssumption DEF RequestType
    <3> QED
      BY <1>2, <2>1, <3>1 DEF PostType
  <2> QED
    BY <1>2, <2>1, <2>2, <2>3, <2>5, <2>6 DEF PostFits, Handling
<1> QED
  BY <1>3, <1>4, <1>5, <1>6, <1>7 DEF HandlerStep, InsertSuppression

LEMMA OwnCallback ==
    ASSUME WebhooksInv, NEW p \in Posts, CallbackStep(p)
    PROVE  PostFits(p)'
<1> USE DEF WebhooksInv, PlacesTypeOK
<1>1. wpc[p] # "idle" /\ wpc[p] \in {"config", "call", "status"} /\ told' = told
  BY DEF CallbackStep, ReadTenant, CallTenant, UpdateCallbackStatus, resendVars
<1>2. post[p] \in PostType /\ Report(p) \in Reports /\ Report(p) \in told
  BY <1>1, ReportInReports DEF PostFits
<1>3. CASE wpc'[p] = "idle"
  BY <1>3, IdleFits
<1>4. CASE wpc'[p] # "idle" /\ ReadTenant(p)
  <2>1. wpc'[p] = "call" /\ post' = post
    BY <1>4 DEF ReadTenant, End, WGoto
  <2> QED
    BY <1>1, <1>2, <2>1, AnsweredFits
<1>5. CASE CallTenant(p)
  <2>1. PICK code \in Codes : /\ post' = [post EXCEPT ![p].code = code]
                              /\ got' = IF code = "ok" THEN got \union {Report(p)} ELSE got
    BY <1>5 DEF CallTenant
  <2>2. wpc'[p] = "status"
    BY <1>5 DEF CallTenant, WGoto
  <2>3. /\ post'[p] \in PostType /\ post'[p].code = code /\ Report(p)' = Report(p)
    BY <1>2, <2>1 DEF PostType, Report
  <2>4. code = "ok" => Report(p) \in got'
    BY <2>1
  <2> QED
    BY <1>1, <1>2, <2>2, <2>3, <2>4 DEF PostFits, Handling
<1>6. CASE UpdateCallbackStatus(p)
  BY <1>6, IdleFits DEF UpdateCallbackStatus, End, WGoto
<1> QED
  BY <1>3, <1>4, <1>5, <1>6 DEF CallbackStep

LEMMA OwnPost ==
    ASSUME WebhooksInv, NEW p \in Posts, PostMoves(p)
    PROVE  PostFits(p)'
<1>1. CASE \E e \in Reports : Receive(p, e) \/ ReceiveAgain(p, e)
  <2>1. PICK e \in Reports : e \in news /\ Accept(p, e)
    BY <1>1 DEF Receive, ReceiveAgain, WebhooksInv, ReportFits
  <2>2. /\ wpc'[p] = "audit" /\ Report(p)' = e /\ news' = news
        /\ post'[p] = [report |-> e, code |-> "null",
                       to |-> IF e[2] \in Unnamed THEN NoAddress ELSE mail[e[1]]]
    BY <2>1 DEF Accept, WGoto, Report, WebhooksInv, PlacesTypeOK, resendVars
  <2>3. post'[p] \in PostType
    BY <2>2, ReportOf, WebhooksAssumption DEF PlacesTypeOK, WebhooksInv, PostType
  <2> QED
    BY <2>1, <2>2, <2>3 DEF PostFits, Handling
<1>2. CASE PostThrow(p)
  BY <1>2, IdleFits DEF PostThrow, End, WGoto, WebhooksInv, PlacesTypeOK
<1> QED
  BY <1>1, <1>2, OwnHandler, OwnCallback DEF PostMoves
(* The reports: one is answered only when its audit row and, if it is a    *)
(* bounce, the notification's row are written.                             *)
LEMMA AnsweredReports ==
    ASSUME WebhooksInv, NEW p \in Posts, PostMoves(p), NEW e \in Reports,
           e \in told', e \notin told
    PROVE  e \in news /\ deliveryEvents'[e] # {} /\ SaysSo(e)'
<1> USE DEF WebhooksInv, PlacesTypeOK
<1>1. HandlerStep(p) /\ Respond(p)
  BY DEF PostMoves, Receive, ReceiveAgain, Accept, CallbackStep, ReadTenant, CallTenant,
         UpdateCallbackStatus, PostThrow, HandlerStep, InsertEvent, ApplyNotificationState,
         ResolveBounceRecipient, InsertSuppression, resendVars
<1>2. e = Report(p)
  BY <1>1 DEF Respond
<1>3. wpc[p] \in Handling
  BY <1>1 DEF HandlerStep, InsertEvent, ApplyNotificationState, ResolveBounceRecipient,
              InsertSuppression, Handling
<1>4. e \in news
  BY <1>2, <1>3 DEF PostFits
<1>5. ReportsStay
  BY PostReports
<1>6. CASE InsertEvent(p)
  <2>1. Silent(Kind(p)) \/ wpc'[p] = "apply" \/ End(p)
    BY <1>6 DEF InsertEvent, WGoto
  <2>2. wpc'[p] = "config"
    BY <1>1 DEF Respond, WGoto
  <2>3. Silent(Kind(p)) /\ deliveryEvents' = [deliveryEvents EXCEPT ![Report(p)] = @ \union {"null"}]
    BY <1>6, <2>1, <2>2 DEF InsertEvent, End, WGoto
  <2>4. SaysSo(e)'
    BY <1>2, <2>3 DEF SaysSo, Bounces, Silent, Kind
  <2> QED
    BY <1>2, <1>4, <2>3, <2>4
<1>7. CASE ApplyNotificationState(p)
  <2>1. wpc[p] = "apply" /\ post' = post
    BY <1>7 DEF ApplyNotificationState
  <2>2. SaysSo(Report(p))'
    BY <1>7, ApplyWrites
  <2>3. SaysSo(e)'
    BY <1>2, <2>1, <2>2 DEF SaysSo, HasRow, Report
  <2> QED
    BY <1>2, <1>4, <1>5, <2>1, <2>3 DEF PostFits, ReportsStay
<1>8. CASE ResolveBounceRecipient(p) \/ InsertSuppression(p)
  <2>1. wpc[p] \in {"resolve", "suppress"}
    BY <1>8 DEF ResolveBounceRecipient, InsertSuppression
  <2>2. deliveryEvents[e] # {} /\ SaysSo(e) /\ mail[e[1]] # NoAddress
    BY <1>2, <1>4, <2>1 DEF PostFits, ReportFits
  <2> QED
    BY <1>4, <1>5, <2>2 DEF ReportsStay
<1> QED
  BY <1>1, <1>6, <1>7, <1>8 DEF HandlerStep

LEMMA AcceptedReports ==
    ASSUME WebhooksInv, NEW p \in Posts, PostMoves(p), NEW e \in Reports
    PROVE  /\ e \in got' => e \in told'
           /\ "ok" \in deliveryEvents'[e] => Vouched(e)'
<1> USE DEF WebhooksInv, PlacesTypeOK
<1>1. ReportsStay
  BY PostReports
<1>2. e \in got' => e \in told'
  <2>1. CASE got' = got
    BY <1>1, <2>1 DEF ReportsStay, ReportFits
  <2>2. CASE CallTenant(p)
    <3>1. Report(p) \in told /\ (e \in got' => e \in got \/ e = Report(p))
      BY <2>2 DEF CallTenant, PostFits
    <3> QED
      BY <1>1, <3>1 DEF ReportsStay, ReportFits
  <2> QED
    BY <2>1, <2>2 DEF PostMoves, Receive, ReceiveAgain, Accept, CallbackStep, ReadTenant,
       UpdateCallbackStatus, PostThrow, HandlerStep, InsertEvent, ApplyNotificationState,
       ResolveBounceRecipient, InsertSuppression, Respond
<1>3. "ok" \in deliveryEvents'[e] => Vouched(e)'
  <2>1. CASE "ok" \in deliveryEvents'[e] => "ok" \in deliveryEvents[e]
    BY <1>1, <2>1 DEF ReportsStay, ReportFits, Vouched
  <2>2. CASE InsertEvent(p)
    <3>1. Report(p) \in Reports
      BY <2>2, ReportInReports DEF InsertEvent
    <3>2. "ok" \in deliveryEvents'[e] => "ok" \in deliveryEvents[e]
      BY <2>2, <3>1 DEF InsertEvent
    <3> QED
      BY <2>1, <3>2
  <2>3. CASE UpdateCallbackStatus(p)
    <3>1. /\ wpc[p] = "status" /\ got' = got
          /\ deliveryEvents'[e] = IF Answered(e, Report(p)) /\ deliveryEvents[e] # {}
                                  THEN {post[p].code} ELSE deliveryEvents[e]
      BY <2>3 DEF UpdateCallbackStatus
    <3>2. CASE deliveryEvents'[e] = deliveryEvents[e]
      BY <2>1, <3>2
    <3>3. CASE Answered(e, Report(p)) /\ deliveryEvents'[e] = {post[p].code}
      <4>1. post[p].code = "ok" => Report(p) \in got'
        BY <3>1 DEF PostFits
      <4> QED
        BY <3>3, <4>1 DEF Answered, Vouched
    <3> QED
      BY <3>1, <3>2, <3>3
  <2>4. CASE deliveryEvents' = deliveryEvents
    BY <2>1, <2>4
  <2> QED
    BY <2>2, <2>3, <2>4 DEF PostMoves, Receive, ReceiveAgain, Accept, CallbackStep, ReadTenant,
       CallTenant, PostThrow, HandlerStep, ApplyNotificationState,
       ResolveBounceRecipient, InsertSuppression
<1> QED
  BY <1>2, <1>3

LEMMA PostKeepsInv ==
    ASSUME WebhooksInv, NEW p \in Posts, PostMoves(p)
    PROVE  WebhooksInv'
<1>1. TypeOK' /\ PlacesTypeOK'
  BY PostTypes, PostPlaces
<1>2. UNCHANGED <<pc, addr, mail, news>>
  BY PostTables DEF callVars
<1>3. \A c \in Calls : (AddressFits(c) /\ MailFits(c))'
  BY <1>2 DEF WebhooksInv, AddressFits, MailFits
<1>4. \A e \in Reports : ReportFits(e)'
  <2> SUFFICES ASSUME NEW e \in Reports PROVE ReportFits(e)'
    OBVIOUS
  <2>1. ReportFits(e) /\ ReportsStay
    BY PostReports DEF WebhooksInv
  <2>2. e \in told' => e \in news /\ deliveryEvents'[e] # {} /\ SaysSo(e)'
    <3>1. CASE e \in told
      BY <2>1, <3>1 DEF ReportFits, ReportsStay
    <3> QED
      BY <3>1, AnsweredReports
  <2> QED
    BY <1>2, <2>1, <2>2, AcceptedReports DEF ReportFits
<1>5. \A q \in Posts : PostFits(q)'
  BY OwnPost, PostOthers
<1> QED
  BY <1>1, <1>3, <1>4, <1>5 DEF WebhooksInv
-----------------------------------------------------------------------------
(* The other steps, which leave the POSTs and the reports alone.           *)
LEMMA BesidesPosts ==
    ASSUME WebhooksInv, ReportsStay, UNCHANGED <<news, told, postVars>>,
           TypeOK', PlacesTypeOK', \A c \in Calls : (AddressFits(c) /\ MailFits(c))'
    PROVE  WebhooksInv'
<1> USE DEF postVars
<1>1. \A e \in Reports : ReportFits(e)'
  <2> SUFFICES ASSUME NEW e \in Reports PROVE ReportFits(e)'
    OBVIOUS
  <2>1. ReportFits(e)
    BY DEF WebhooksInv
  <2>2. UNCHANGED <<news, told, deliveryEvents, got>>
    OBVIOUS
  <2>3. e \in news => mail'[e[1]] # NoAddress
    BY <2>1, ReportOf DEF ReportFits, ReportsStay
  <2>4. e \in told => SaysSo(e)'
    BY <2>1 DEF ReportFits, ReportsStay
  <2> QED
    BY <2>1, <2>2, <2>3, <2>4 DEF ReportFits, Vouched
<1>2. \A p \in Posts : PostFits(p)'
  BY PostKept
<1> QED
  BY <1>1, <1>2 DEF WebhooksInv

LEMMA CallPlaces ==
    ASSUME WebhooksInv, CallNext, TakeMail, Watch, UNCHANGED <<kpc, news, told, postVars>>
    PROVE  PlacesTypeOK'
<1> USE DEF WebhooksInv, PlacesTypeOK, postVars
<1>1. mail' \in [Calls -> Addresses \union {NoAddress}]
  <2>1. \A c \in Calls : Request[c].channel = "email" => addr[c] \in Addresses \union {NoAddress}
    BY DEF AddressFits
  <2> QED
    BY <2>1 DEF TakeMail
<1>2. overtaken' \subseteq Calls /\ burns' = burns
  BY DEF Watch
<1>3. burned' \in [Calls -> SUBSET (Tenants \X Addresses)]
  BY DEF Watch
<1> QED
  BY <1>1, <1>2, <1>3 DEF CleanupTypeOK

LEMMA CallKeepsInv ==
    ASSUME WebhooksInv, CallNext, TakeMail, Watch, UNCHANGED <<kpc, news, told, postVars>>
    PROVE  WebhooksInv'
<1>1. PICK c \in Calls : Start(c) \/ Step(c) \/ Throw(c)
  BY DEF CallNext
<1>2. TypeOK /\ TypeOK'
  BY <1>1, TypeStep DEF WebhooksInv
<1>3. \A d \in Calls : /\ (AddressFits(d) /\ MailFits(d))'
                       /\ mail[d] # NoAddress => mail'[d] # NoAddress
  BY <1>1, <1>2, AddressStep, MailStep DEF WebhooksInv
<1>4. ReportsStay
  <2>1. ASSUME NEW e \in Reports, mail[e[1]] # NoAddress, deliveryEvents[e] # {}, SaysSo(e)
        PROVE  SaysSo(e)'
    <3>1. MailFits(e[1])
      BY ReportOf DEF WebhooksInv
    <3> QED
      BY <1>1, <1>2, <2>1, <3>1, SaysSoCall
  <2> QED
    BY <1>3, <2>1 DEF ReportsStay, postVars
<1> QED
  BY <1>2, <1>3, <1>4, CallPlaces, BesidesPosts

(* The tables' other writers keep a row's status or delete the row.        *)
LEMMA StoreKeepsInv ==
    ASSUME WebhooksInv, UNCHANGED <<pipelineVars, resendVars, postVars, overtaken>>,
           StoreTypeOK', kpc' \in {"idle", "rows"},
           burns' \subseteq Tenants \X Addresses,
           burned' \in [Calls -> SUBSET (Tenants \X Addresses)],
           \A c \in Calls : notifications'[c].status \in {notifications[c].status, "none"}
    PROVE  WebhooksInv'
<1> USE DEF WebhooksInv, pipelineVars, resendVars
<1>1. TypeOK'
  BY DEF TypeOK, CallTypeOK
<1>2. PlacesTypeOK'
  BY DEF PlacesTypeOK, CleanupTypeOK, postVars
<1>3. \A c \in Calls : (AddressFits(c) /\ MailFits(c))'
  BY DEF AddressFits, MailFits
<1>4. ReportsStay
  <2>1. ASSUME NEW e \in Reports, SaysSo(e)
        PROVE  SaysSo(e)'
    BY <2>1, ReportOf, SaysSoKept
  <2> QED
    BY <2>1 DEF ReportsStay, postVars
<1> QED
  BY <1>1, <1>2, <1>3, <1>4, BesidesPosts

LEMMA PurgeWrites ==
    ASSUME StoreTypeOK, PurgeQueue \/ PurgeNotifications
    PROVE  /\ StoreTypeOK'
           /\ kpc' \in {"idle", "rows"}
           /\ \A c \in Calls : notifications'[c].status \in {notifications[c].status, "none"}
<1>1. notifications' \in [Calls -> NotificationType] /\ digestQueue' \in [Calls -> QueueType]
  BY EmptyValues DEF StoreTypeOK, PurgeQueue, PurgeNotifications
<1>2. \A c \in Calls : notifications'[c].status \in {notifications[c].status, "none"}
  <2>1. CASE PurgeQueue
    BY <2>1 DEF PurgeQueue
  <2>2. CASE PurgeNotifications
    <3>1. \A c \in Calls : notifications'[c] \in {notifications[c], NoRow}
      BY <2>2 DEF PurgeNotifications
    <3> QED
      BY <3>1, EmptyRow
  <2> QED
    BY <2>1, <2>2
<1> QED
  BY <1>1, <1>2 DEF StoreTypeOK, PurgeQueue, PurgeNotifications

LEMMA LiftKeeps ==
    ASSUME PlacesTypeOK, Lift
    PROVE  /\ overtaken' = overtaken
           /\ burns' \subseteq burns
           /\ burned' \in [Calls -> SUBSET (Tenants \X Addresses)]
BY DEF PlacesTypeOK, Lift, Kept

LEMMA CrashKeepsInv == ASSUME WebhooksInv, ServerCrash PROVE WebhooksInv'
<1> USE DEF WebhooksInv
<1>1. /\ UNCHANGED <<storeVars, sends, resendVars, deliveryEvents, got, historyVars>>
      /\ KillCalls /\ kpc' = "idle"
      /\ wpc' = [p \in Posts |-> "idle"] /\ post' = [p \in Posts |-> NoPost]
  BY DEF ServerCrash
<1>2. TypeOK'
  <2>1. CallTypeOK'
    BY <1>1, EmptyValues DEF KillCalls, TypeOK, CallTypeOK, Ends
  <2>2. faults' \in 0 .. MaxFaults
    BY PipelineAssumption DEF ServerCrash, TypeOK
  <2> QED
    BY <1>1, <2>1, <2>2 DEF TypeOK, StoreTypeOK, storeVars
<1>3. PlacesTypeOK'
  BY <1>1 DEF PlacesTypeOK, CleanupTypeOK, resendVars, historyVars, Handling
<1>4. \A c \in Calls : (AddressFits(c) /\ MailFits(c))'
  <2> SUFFICES ASSUME NEW c \in Calls PROVE (AddressFits(c) /\ MailFits(c))'
    OBVIOUS
  <2>1. mail' = mail /\ addr'[c] = NoAddress
    BY <1>1 DEF KillCalls, resendVars
  <2>2. pc[c] \in {"record"} \union Ends => pc'[c] \in {"record"} \union Ends
    BY <1>1 DEF KillCalls, Ends
  <2> QED
    BY <2>1, <2>2 DEF AddressFits, MailFits
<1>5. \A e \in Reports : ReportFits(e)'
  BY <1>1 DEF ReportFits, Vouched, SaysSo, HasRow, storeVars, resendVars, historyVars
<1>6. \A p \in Posts : PostFits(p)'
  BY <1>1, IdleFits
<1> QED
  BY <1>2, <1>3, <1>4, <1>5, <1>6

LEMMA HappenKeepsInv ==
    ASSUME WebhooksInv, NEW r \in Reports, Happen(r)
    PROVE  WebhooksInv'
<1> USE DEF WebhooksInv
<1>1. /\ mail[r[1]] # NoAddress /\ news' = news \union {r}
      /\ UNCHANGED <<vars, kpc, mail, told, postVars, historyVars>>
  BY DEF Happen
<1>2. UNCHANGED <<notifications, pc, addr, overtaken>>
  BY <1>1 DEF vars, storeVars, pipelineVars, historyVars
<1>3. TypeOK'
  BY <1>1 DEF TypeOK, StoreTypeOK, CallTypeOK, vars, storeVars, pipelineVars
<1>4. PlacesTypeOK'
  BY <1>1 DEF PlacesTypeOK, CleanupTypeOK, postVars, historyVars
<1>5. \A c \in Calls : (AddressFits(c) /\ MailFits(c))'
  BY <1>1, <1>2 DEF AddressFits, MailFits
<1>6. \A e \in Reports : SaysSo(e)' <=> SaysSo(e)
  BY <1>2 DEF SaysSo, HasRow
<1>7. \A e \in Reports : ReportFits(e)'
  BY <1>1, <1>6 DEF ReportFits, Vouched, postVars
<1>8. ReportsStay
  BY <1>1, <1>6 DEF ReportsStay, postVars
<1>9. \A p \in Posts : PostFits(p)'
  BY <1>1, <1>8, PostKept DEF postVars
<1> QED
  BY <1>3, <1>4, <1>5, <1>7, <1>9

LEMMA WebhooksInvNext == WebhooksInv /\ [WebhooksNext]_webhookVars => WebhooksInv'
<1> SUFFICES ASSUME WebhooksInv, [WebhooksNext]_webhookVars PROVE WebhooksInv'
  OBVIOUS
<1> USE DEF WebhooksInv
<1>1. CASE CallNext /\ TakeMail /\ Watch /\ UNCHANGED <<kpc, news, told, postVars>>
  BY <1>1, CallKeepsInv
<1>2. CASE Edit /\ Lift /\ UNCHANGED <<pipelineVars, kpc, resendVars, postVars>>
  <2>1. StoreTypeOK' /\ notifications' = notifications
    BY <1>2, TypeEdit DEF TypeOK, Edit
  <2>2. kpc' \in {"idle", "rows"}
    BY <1>2 DEF PlacesTypeOK, CleanupTypeOK
  <2> QED
    BY <1>2, <2>1, <2>2, LiftKeeps, StoreKeepsInv DEF PlacesTypeOK
<1>3. CASE Tick /\ UNCHANGED <<pipelineVars, kpc, resendVars, postVars, historyVars>>
  <2>1. StoreTypeOK'
    BY <1>3, TypeTick DEF TypeOK
  <2>2. \A c \in Calls : notifications'[c].status = notifications[c].status
    BY <1>3, OlderRow DEF Tick, TypeOK, StoreTypeOK
  <2> QED
    BY <1>3, <2>1, <2>2, StoreKeepsInv DEF PlacesTypeOK, CleanupTypeOK, historyVars
<1>4. CASE /\ PurgeQueue \/ PurgeNotifications
           /\ UNCHANGED <<pipelineVars, resendVars, postVars, historyVars>>
  BY <1>4, PurgeWrites, StoreKeepsInv DEF PlacesTypeOK, TypeOK, historyVars
<1>5. CASE \E e \in Reports : Happen(e)
  BY <1>5, HappenKeepsInv
<1>6. CASE \E p \in Posts : PostMoves(p)
  BY <1>6, PostKeepsInv
<1>7. CASE ServerCrash
  BY <1>7, CrashKeepsInv
<1>8. CASE UNCHANGED webhookVars
  BY <1>8, StoreKeepsInv DEF webhookVars, vars, historyVars, TypeOK, PlacesTypeOK,
     CleanupTypeOK, StoreTypeOK, storeVars
<1> QED
  BY <1>1, <1>2, <1>3, <1>4, <1>5, <1>6, <1>7, <1>8 DEF WebhooksNext, PostMoves

(* Every variable of the webhooks, their callbacks and the cleanup keeps   *)
(* its type; Resend has a 2xx only for what it has to report, and a        *)
(* tenant's endpoint accepts only what was answered.                       *)
THEOREM WebhooksKeepTheirTypes == WebhooksSpec => []WebhooksTypeOK
BY InvInit, WebhooksInvNext, InvTypes, PTL DEF WebhooksSpec

(* A bounce or a complaint that was answered stands in the notification's  *)
(* row as long as there is one, unless the pipeline still had its own      *)
(* UPDATE to do.                                                           *)
THEOREM BouncesAreRecorded == WebhooksSpec => []BouncedRowSaysSo
<1>1. WebhooksInv => BouncedRowSaysSo
  BY DEF WebhooksInv, PlacesTypeOK, BouncedRowSaysSo, ReportFits, SaysSo, Bounces
<1> QED
  BY <1>1, InvInit, WebhooksInvNext, PTL DEF WebhooksSpec

(* A callback's 2xx is only on audit rows of which the tenant's endpoint   *)
(* accepted a report of the same type about the same mail.                 *)
THEOREM CallbackStatusesAreTrue == WebhooksSpec => []CallbackStatusIsTrue
<1>1. WebhooksInv => CallbackStatusIsTrue
  BY DEF WebhooksInv, CallbackStatusIsTrue, ReportFits, Vouched
<1> QED
  BY <1>1, InvInit, WebhooksInvNext, PTL DEF WebhooksSpec
-----------------------------------------------------------------------------
(* No message to a burned address.  The list is asked once, several awaits *)
(* before the dispatch, for an address the call resolved still earlier; so *)
(* it matters that an entry, once there, counts until the API deletes it.  *)
(* An entry with an expires_at does not, and ON CONFLICT DO NOTHING keeps  *)
(* it: what follows is for a list without such entries.                    *)
NothingExpires == \A s \in LimitChoices : s.limit = "forever"

EntriesLast ==
    \A a \in Tenants \X Addresses :
        tenantSuppressions[a] = NotSuppressed \/ tenantSuppressions[a].limit = "forever"

(* What was burned is on the list.                                         *)
BurnsListed ==
    /\ \A a \in burns : tenantSuppressions[a] # NotSuppressed
    /\ \A c \in Calls : \A a \in burned[c] : tenantSuppressions[a] # NotSuppressed

(* The call has asked the list.                                            *)
PastTheList(c) ==
    \/ pc[c] \in {"template", "attach", "dispatch"}
    \/ pc[c] = "insert" /\ outcome[c].status = "pending"

Cleared(c) ==
    PastTheList(c) /\ Request[c].channel # "in_app"
        => <<Request[c].tenant, addr[c]>> \notin burned[c]

BurnInv ==
    /\ WebhooksInv
    /\ EntriesLast
    /\ BurnsListed
    /\ \A c \in Calls : Cleared(c)

LEMMA BurnInit == ASSUME NothingExpires PROVE WebhooksInit => BurnInv
<1> SUFFICES ASSUME WebhooksInit PROVE BurnInv
  OBVIOUS
<1>1. WebhooksInv
  BY InvInit
<1>2. EntriesLast
  <2>1. tenantSuppressions \in [Tenants \X Addresses -> LimitChoices \union {NotSuppressed}]
    BY DEF WebhooksInit, Init, StoreInit
  <2> QED
    BY <2>1 DEF NothingExpires, EntriesLast
<1>3. BurnsListed
  BY DEF WebhooksInit, BurnsListed
<1>4. \A c \in Calls : Cleared(c)
  BY DEF WebhooksInit, Init, Cleared, PastTheList
<1> QED
  BY <1>1, <1>2, <1>3, <1>4 DEF BurnInv

(* The pipeline.                                                           *)
LEMMA StepStaysPast ==
    ASSUME TypeOK, NEW c \in Calls, Start(c) \/ Step(c) \/ Throw(c), PastTheList(c)',
           Request[c].channel # "in_app"
    PROVE  /\ Active(c) /\ Active(c)' /\ addr'[c] = addr[c]
           /\ PastTheList(c) \/ ~IsSuppressed(Request[c].tenant, addr[c])
<1> USE DEF TypeOK, CallTypeOK, PastTheList, Goto, Proceed, PlanInsert, Plan
<1>1. pc'[c] \in {"template", "attach", "dispatch", "insert"} /\ Active(c)'
  BY DEF Active, Steps
<1>2. CASE Start(c)
  BY <1>2 DEF Start
<1>3. CASE Throw(c)
  BY <1>3 DEF Throw, Leave
<1>4. CASE ResolveDeliveryAddress(c)
  BY <1>4 DEF ResolveDeliveryAddress
<1>5. CASE CheckDuplicate(c)
  BY <1>5 DEF CheckDuplicate
<1>6. CASE CheckSuppression(c)
  <2>0. pc'[c] # "threw"
    BY <1>1
  <2>1. addr' = addr /\ ~IsSuppressed(Request[c].tenant, addr[c])
    <3>1. CASE IsSuppressed(Request[c].tenant, addr[c])
      <4>1. PlanInsert(c, "skipped", "suppressed")
        BY <1>6, <3>1 DEF CheckSuppression
      <4>2. pc'[c] = "insert" /\ outcome'[c].status = "skipped"
        BY <4>1
      <4> QED
        BY <4>2
    <3>2. CASE ~IsSuppressed(Request[c].tenant, addr[c])
      <4>1. ~Leave(c, "threw")
        BY <2>0 DEF Leave
      <4>2. addr' = addr
        BY <1>6, <3>2, <4>1 DEF CheckSuppression
      <4> QED
        BY <3>2, <4>2
    <3> QED
      BY <3>1, <3>2
  <2> QED
    BY <1>1, <1>6, <2>1, StepActive DEF Step
<1>7. CASE LookupTemplate(c)
  <2>1. pc[c] = "template" /\ addr' = addr
    BY <1>1, <1>7 DEF LookupTemplate, Leave
  <2> QED
    BY <1>1, <1>7, <2>1, StepActive DEF Step
<1>8. CASE InsertRow(c)
  <2>1. pc[c] = "insert" /\ outcome[c].status = "pending" /\ addr' = addr
    BY <1>1, <1>8 DEF InsertRow, Leave
  <2> QED
    BY <1>1, <1>8, <2>1, StepActive DEF Step
<1>9. CASE EnqueueDigest(c) \/ RecordOutcome(c)
  BY <1>1, <1>9 DEF EnqueueDigest, RecordOutcome, Leave
<1>10. CASE FetchAttachments(c) \/ Dispatch(c)
  <2>1. pc[c] \in {"attach", "dispatch"} /\ addr' = addr
    BY <1>10 DEF FetchAttachments, Dispatch
  <2> QED
    BY <1>1, <1>10, <2>1, StepActive DEF Step
<1> QED
  BY <1>2, <1>3, <1>4, <1>5, <1>6, <1>7, <1>8, <1>9, <1>10 DEF Step

LEMMA AddrFrame ==
    ASSUME TypeOK, NEW c \in Calls, Start(c) \/ Step(c) \/ Throw(c),
           NEW d \in Calls, d # c
    PROVE  addr'[d] = addr[d]
BY DEF TypeOK, CallTypeOK, Start, Step, Throw, ResolveDeliveryAddress, CheckDuplicate,
       CheckSuppression, LookupTemplate, InsertRow, EnqueueDigest, FetchAttachments, Dispatch,
       RecordOutcome, Leave

LEMMA CallKeepsBurns ==
    ASSUME BurnInv, CallNext, TakeMail, Watch, UNCHANGED <<kpc, news, told, postVars>>
    PROVE  BurnInv'
<1> USE DEF BurnInv
<1>1. PICK c \in Calls : Start(c) \/ Step(c) \/ Throw(c)
  BY DEF CallNext
<1>2. TypeOK /\ WebhooksInv'
  BY CallKeepsInv DEF WebhooksInv
<1>3. tenantSuppressions' = tenantSuppressions
  BY <1>1 DEF Start, Step, Throw, ResolveDeliveryAddress, CheckDuplicate, CheckSuppression,
     LookupTemplate, InsertRow, EnqueueDigest, FetchAttachments, Dispatch, RecordOutcome,
     storeVars
<1>4. /\ burns' = burns
      /\ burned' = [d \in Calls |-> IF ~Active(d)' THEN {}
                                    ELSE IF ~Active(d) THEN burns ELSE burned[d]]
  BY DEF Watch
<1>5. EntriesLast'
  BY <1>3 DEF EntriesLast
<1>6. BurnsListed'
  BY <1>3, <1>4 DEF BurnsListed
<1>7. ASSUME NEW d \in Calls PROVE Cleared(d)'
  <2> SUFFICES ASSUME PastTheList(d)', Request[d].channel # "in_app"
               PROVE  <<Request[d].tenant, addr'[d]>> \notin burned'[d]
    BY DEF Cleared
  <2>1. /\ Active(d) /\ Active(d)' /\ addr'[d] = addr[d]
        /\ PastTheList(d) \/ ~IsSuppressed(Request[d].tenant, addr[d])
    <3>1. CASE d = c
      BY <1>1, <1>2, <3>1, StepStaysPast
    <3>2. CASE d # c
      <4>1. pc'[d] = pc[d] /\ outcome'[d] = outcome[d] /\ addr'[d] = addr[d]
        BY <1>1, <1>2, <3>2, StepFrame, AddrFrame
      <4> QED
        BY <4>1 DEF PastTheList, Active, Steps
    <3> QED
      BY <3>1, <3>2
  <2>2. burned'[d] = burned[d]
    BY <1>4, <2>1
  <2>3. CASE PastTheList(d)
    BY <2>1, <2>2, <2>3 DEF Cleared
  <2>4. CASE ~IsSuppressed(Request[d].tenant, addr[d])
    <3> SUFFICES ASSUME <<Request[d].tenant, addr[d]>> \in burned[d] PROVE FALSE
      BY <2>1, <2>2
    <3> DEFINE a == <<Request[d].tenant, addr[d]>>
    <3>1. a \in Tenants \X Addresses
      BY DEF WebhooksInv, PlacesTypeOK
    <3>2. tenantSuppressions[a] # NotSuppressed
      BY DEF BurnsListed
    <3>3. tenantSuppressions[a].limit = "forever"
      BY <3>1, <3>2 DEF EntriesLast
    <3> QED
      BY <2>4, <3>3 DEF IsSuppressed
  <2> QED
    BY <2>1, <2>3, <2>4
<1> QED
  BY <1>2, <1>5, <1>6, <1>7
(* The API, the clock and the cleanup.                                     *)
LEMMA ForeverLasts ==
    ASSUME NEW s \in SuppressionType, s = NotSuppressed \/ s.limit = "forever"
    PROVE  /\ \/ [s EXCEPT !.left = Sooner(s.left)] = NotSuppressed
              \/ [s EXCEPT !.left = Sooner(s.left)].limit = "forever"
           /\ s # NotSuppressed => [s EXCEPT !.left = Sooner(s.left)] # NotSuppressed
BY DEF NotSuppressed, SuppressionType, Sooner

LEMMA TickKeepsBurns ==
    ASSUME BurnInv, Tick, UNCHANGED <<pipelineVars, historyVars>>, WebhooksInv'
    PROVE  BurnInv'
<1> USE DEF BurnInv
<1>1. tenantSuppressions \in [Tenants \X Addresses -> SuppressionType]
  BY DEF WebhooksInv, TypeOK, StoreTypeOK
<1>2. \A a \in Tenants \X Addresses :
         /\ tenantSuppressions'[a] = NotSuppressed \/ tenantSuppressions'[a].limit = "forever"
         /\ tenantSuppressions[a] # NotSuppressed => tenantSuppressions'[a] # NotSuppressed
  <2> SUFFICES ASSUME NEW a \in Tenants \X Addresses
               PROVE  /\ \/ tenantSuppressions'[a] = NotSuppressed
                         \/ tenantSuppressions'[a].limit = "forever"
                      /\ tenantSuppressions[a] # NotSuppressed
                         => tenantSuppressions'[a] # NotSuppressed
    OBVIOUS
  <2> DEFINE s == tenantSuppressions[a]
  <2>1. tenantSuppressions'[a] = [s EXCEPT !.left = Sooner(s.left)]
    BY <1>1 DEF Tick
  <2>2. s \in SuppressionType /\ (s = NotSuppressed \/ s.limit = "forever")
    BY <1>1 DEF EntriesLast
  <2> HIDE DEF s
  <2>3. /\ tenantSuppressions'[a] = NotSuppressed \/ tenantSuppressions'[a].limit = "forever"
        /\ s # NotSuppressed => tenantSuppressions'[a] # NotSuppressed
    BY <2>1, <2>2, ForeverLasts
  <2> QED
    BY <2>3 DEF s
<1>3. EntriesLast'
  BY <1>2 DEF EntriesLast
<1>4. BurnsListed'
  BY <1>2 DEF BurnsListed, WebhooksInv, PlacesTypeOK, historyVars
<1>5. \A c \in Calls : Cleared(c)'
  BY DEF Cleared, PastTheList, pipelineVars, historyVars
<1> QED
  BY <1>3, <1>4, <1>5

LEMMA EditKeepsBurns ==
    ASSUME NothingExpires, BurnInv, Edit, Lift, UNCHANGED pipelineVars, WebhooksInv'
    PROVE  BurnInv'
<1> USE DEF BurnInv
<1>1. tenantSuppressions \in [Tenants \X Addresses -> SuppressionType]
  BY DEF WebhooksInv, TypeOK, StoreTypeOK
<1>2. EntriesLast'
  <2>1. CASE tenantSuppressions' = tenantSuppressions
    BY <2>1 DEF EntriesLast
  <2>2. CASE \E a \in Tenants \X Addresses, s \in LimitChoices : CreateSuppression(a, s)
    BY <1>1, <2>2 DEF CreateSuppression, NothingExpires, EntriesLast
  <2>3. CASE \E a \in Tenants \X Addresses : DeleteSuppression(a)
    BY <1>1, <2>3 DEF DeleteSuppression, EntriesLast
  <2> QED
    BY <2>1, <2>2, <2>3 DEF Edit, UpsertPreferences, EditTemplate, DeleteRule
<1>3. BurnsListed'
  BY DEF BurnsListed, Lift, Kept
<1>4. \A c \in Calls : burned'[c] \subseteq burned[c]
  BY DEF Lift, Kept
<1>5. \A c \in Calls : Cleared(c)'
  BY <1>4 DEF Cleared, PastTheList, pipelineVars
<1> QED
  BY <1>2, <1>3, <1>5

(* What leaves the list as it is and burns nothing.                        *)
LEMMA BurnsFrame ==
    ASSUME BurnInv, UNCHANGED <<tenantSuppressions, historyVars, pc, addr, outcome>>,
           WebhooksInv'
    PROVE  BurnInv'
BY DEF BurnInv, EntriesLast, BurnsListed, Cleared, PastTheList, historyVars

LEMMA CrashKeepsBurns == ASSUME BurnInv, ServerCrash PROVE BurnInv'
<1>1. WebhooksInv'
  BY CrashKeepsInv DEF BurnInv
<1>2. UNCHANGED <<tenantSuppressions, burns, burned>>
  BY DEF ServerCrash, storeVars, historyVars
<1>3. \A c \in Calls : Cleared(c)'
  <2> SUFFICES ASSUME NEW c \in Calls PROVE ~PastTheList(c)'
    BY DEF Cleared
  <2>1. pc'[c] = IF Active(c) THEN "crashed" ELSE pc[c]
    BY DEF ServerCrash, KillCalls
  <2> QED
    BY <2>1 DEF PastTheList, Active, Steps
<1> QED
  BY <1>1, <1>2, <1>3 DEF BurnInv, EntriesLast, BurnsListed

(* A report burns its address in the step that puts it on the list.        *)
LEMMA PostKeepsBurns ==
    ASSUME BurnInv, NEW p \in Posts, PostMoves(p)
    PROVE  BurnInv'
<1> USE DEF BurnInv
<1>1. WebhooksInv'
  BY PostKeepsInv
<1>2. UNCHANGED <<pc, addr, outcome, burned>>
  BY PostTables DEF callVars
<1>3. tenantSuppressions \in [Tenants \X Addresses -> SuppressionType]
  BY DEF WebhooksInv, TypeOK, StoreTypeOK
<1>4. \A a \in Tenants \X Addresses :
         \/ tenantSuppressions'[a] = tenantSuppressions[a]
         \/ tenantSuppressions'[a].limit = "forever"
  <2>1. CASE InsertSuppression(p)
    <3>1. tenantSuppressions' = AutoSuppress(tenantSuppressions, Target(p))
      BY <2>1 DEF InsertSuppression
    <3> QED
      BY <1>3, <3>1, AutoSuppressed
  <2>2. CASE ~InsertSuppression(p)
    BY <2>2, PostTables
  <2> QED
    BY <2>1, <2>2
<1>5. EntriesLast'
  BY <1>4 DEF EntriesLast
<1>6. \A a \in Tenants \X Addresses :
         tenantSuppressions[a] # NotSuppressed => tenantSuppressions'[a] # NotSuppressed
  BY <1>4 DEF NotSuppressed
<1>7. \A a \in burns' : a \in burns \/ tenantSuppressions'[a] # NotSuppressed
  <2>1. CASE burns' = burns
    BY <2>1
  <2>2. CASE burns' # burns
    <3>1. HandlerStep(p) /\ Respond(p) /\ Hurts(Kind(p)) /\ post[p].to \in Addresses
      BY <2>2 DEF PostMoves, Receive, ReceiveAgain, Accept, CallbackStep, ReadTenant,
         CallTenant, UpdateCallbackStatus, PostThrow, HandlerStep, InsertEvent,
         ApplyNotificationState, ResolveBounceRecipient, InsertSuppression, historyVars, Respond
    <3>2. ~ResolveBounceRecipient(p)
      <4>1. NoAddress \notin Addresses
        BY ChoiceAssumption
      <4> QED
        BY <3>1, <4>1 DEF ResolveBounceRecipient, PostFits, WebhooksInv
    <3>3. ~InsertEvent(p)
      BY <2>2, <3>1 DEF InsertEvent, Silent, Hurts, historyVars
    <3>4. ~ApplyNotificationState(p)
      BY <2>2, <3>1 DEF ApplyNotificationState, historyVars
    <3>5. InsertSuppression(p)
      BY <3>1, <3>2, <3>3, <3>4 DEF HandlerStep
    <3>6. Target(p) \in Tenants \X Addresses
      <4>1. Mail(p) \in Calls
        BY <3>5, ReportInReports DEF InsertSuppression, WebhooksInv
      <4>2. Request[Mail(p)] \in RequestType
        BY <4>1, RequestAssumption
      <4> QED
        BY <3>1, <4>2 DEF Target, RequestType
    <3>7. tenantSuppressions'[Target(p)] # NotSuppressed
      BY <1>3, <3>5, <3>6, AutoSuppressed DEF InsertSuppression
    <3>8. burns' = burns \union {Target(p)}
      BY <2>2, <3>1 DEF Respond
    <3> QED
      BY <3>7, <3>8
  <2> QED
    BY <2>1, <2>2
<1>8. BurnsListed'
  BY <1>2, <1>6, <1>7 DEF BurnsListed, WebhooksInv, PlacesTypeOK
<1>9. \A c \in Calls : Cleared(c)'
  BY <1>2 DEF Cleared, PastTheList
<1> QED
  BY <1>1, <1>5, <1>8, <1>9

LEMMA BurnNext ==
    ASSUME NothingExpires
    PROVE  BurnInv /\ [WebhooksNext]_webhookVars => BurnInv'
<1> SUFFICES ASSUME BurnInv, [WebhooksNext]_webhookVars PROVE BurnInv'
  OBVIOUS
<1>0. WebhooksInv'
  BY WebhooksInvNext DEF BurnInv
<1>1. CASE CallNext /\ TakeMail /\ Watch /\ UNCHANGED <<kpc, news, told, postVars>>
  BY <1>1, CallKeepsBurns
<1>2. CASE Edit /\ Lift /\ UNCHANGED <<pipelineVars, kpc, resendVars, postVars>>
  BY <1>0, <1>2, EditKeepsBurns
<1>3. CASE Tick /\ UNCHANGED <<pipelineVars, kpc, resendVars, postVars, historyVars>>
  BY <1>0, <1>3, TickKeepsBurns
<1>4. CASE /\ PurgeQueue \/ PurgeNotifications
           /\ UNCHANGED <<pipelineVars, resendVars, postVars, historyVars>>
  BY <1>0, <1>4, BurnsFrame DEF PurgeQueue, PurgeNotifications, pipelineVars
<1>5. CASE \E e \in Reports : Happen(e)
  BY <1>0, <1>5, BurnsFrame DEF Happen, vars, storeVars, pipelineVars
<1>6. CASE \E p \in Posts : PostMoves(p)
  BY <1>6, PostKeepsBurns
<1>7. CASE ServerCrash
  BY <1>7, CrashKeepsBurns
<1>8. CASE UNCHANGED webhookVars
  BY <1>0, <1>8, BurnsFrame DEF webhookVars, vars, storeVars, pipelineVars
<1> QED
  BY <1>1, <1>2, <1>3, <1>4, <1>5, <1>6, <1>7, <1>8 DEF WebhooksNext, PostMoves

(* While no suppression has an expires_at: a call that starts after a hard *)
(* bounce or a complaint was answered sends nothing to that address until  *)
(* the API lifts the entry, whatever is edited, retried or restarted       *)
(* between its look at the list and its dispatch.                          *)
THEOREM NothingSentToBurned ==
    ASSUME NothingExpires
    PROVE  WebhooksSpec => []NoSendToBurned
<1>1. BurnInv => NoSendToBurned
  BY DEF BurnInv, Cleared, PastTheList, NoSendToBurned
<1> QED
  BY <1>1, BurnInit, BurnNext, PTL DEF WebhooksSpec

=============================================================================
