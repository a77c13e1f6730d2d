--------------------------- MODULE Pipeline_proofs ---------------------------
(***************************************************************************)
(* What Pipeline keeps for any number of calls, tenants, users and rules,  *)
(* any dedup window, any number of crashes, errors and API writes.         *)
(***************************************************************************)
EXTENDS Pipeline, TLAPS

-----------------------------------------------------------------------------
(* Type correctness.                                                       *)

LEMMA EmptyValues ==
    /\ NoRow \in NotificationType
    /\ NotQueued \in QueueType
    /\ NotSuppressed \in SuppressionType
    /\ NoOutcome \in OutcomeType
<1>1. 0 \in 0 .. AgeCap /\ 0 \in 0 .. DelayCap
  BY TimeAssumption
<1>2. NoRow \in NotificationType
  BY <1>1 DEF NoRow, NotificationType, Statuses, Reasons
<1>3. NotQueued \in QueueType
  BY <1>1 DEF NotQueued, QueueType
<1>4. NotSuppressed \in SuppressionType
  BY DEF NotSuppressed, SuppressionType
<1>5. NoOutcome \in OutcomeType
  BY DEF NoOutcome, OutcomeType, Statuses, Reasons
<1> QED
  BY <1>2, <1>3, <1>4, <1>5

LEMMA TypeInit == Init => TypeOK
<1> SUFFICES ASSUME Init PROVE TypeOK
  OBVIOUS
<1>1. StoreTypeOK
  <2>1. clock \in Minute /\ edits \in 0 .. MaxEdits
    BY DayAssumption, TimeAssumption DEF Init, StoreInit, Minute
  <2>2. /\ notifications \in [Calls -> NotificationType]
        /\ digestQueue \in [Calls -> QueueType]
    BY EmptyValues DEF Init, StoreInit
  <2>3. userPreferences \in [Users -> PreferencesType \union {NoPreferences}]
    BY ChoiceAssumption DEF Init, StoreInit
  <2>4. tenantSuppressions \in [Tenants \X Addresses -> SuppressionType]
    BY ChoiceAssumption, EmptyValues DEF Init, StoreInit
  <2>5. templates \in [Rules -> TemplateStates]
    BY DEF Init, StoreInit, TemplateStates
  <2> QED
    BY <2>1, <2>2, <2>3, <2>4, <2>5 DEF StoreTypeOK
<1>2. CallTypeOK
  BY EmptyValues DEF Init, CallTypeOK
<1>3. sends \in [Calls -> 0 .. 2] /\ faults \in 0 .. MaxFaults
  BY PipelineAssumption DEF Init
<1> QED
  BY <1>1, <1>2, <1>3 DEF TypeOK

(* A minute's passing keeps the type of each stored distance.              *)
LEMMA OlderType ==
    ASSUME NEW n \in NotificationType
    PROVE  Older(n) \in NotificationType
<1>1. n.age \in 0 .. AgeCap
  BY DEF NotificationType
<1>2. CASE n.status = "none" \/ n.age = AgeCap
  BY <1>2 DEF Older
<1>3. CASE ~(n.status = "none" \/ n.age = AgeCap)
  <2>1. n.age + 1 \in 0 .. AgeCap
    BY <1>1, <1>3, TimeAssumption
  <2> QED
    BY <1>3, <2>1 DEF Older, NotificationType
<1> QED
  BY <1>2, <1>3

LEMMA SoonerType ==
    /\ \A n \in Nat : Sooner(n) \in Nat
    /\ \A n \in 0 .. DelayCap : Sooner(n) \in 0 .. DelayCap
BY TimeAssumption DEF Sooner

LEMMA TypeTick == StoreTypeOK /\ Tick => StoreTypeOK'
<1> SUFFICES ASSUME StoreTypeOK, Tick PROVE StoreTypeOK'
  OBVIOUS
<1>1. clock' \in Minute
  <2>1. Day \in Nat /\ Day > 0 /\ clock + 1 \in Int
    BY DayAssumption DEF StoreTypeOK, Minute
  <2> QED
    BY <2>1 DEF Tick, Minute
<1>2. notifications' \in [Calls -> NotificationType]
  BY OlderType DEF StoreTypeOK, Tick
<1>3. digestQueue' \in [Calls -> QueueType]
  <2>1. ASSUME NEW q \in QueueType PROVE [q EXCEPT !.due = Sooner(@)] \in QueueType
    BY SoonerType DEF QueueType
  <2> QED
    BY <2>1 DEF StoreTypeOK, Tick
<1>4. tenantSuppressions' \in [Tenants \X Addresses -> SuppressionType]
  <2>1. ASSUME NEW s \in SuppressionType
        PROVE  [s EXCEPT !.left = Sooner(@)] \in SuppressionType
    BY SoonerType DEF SuppressionType
  <2> QED
    BY <2>1 DEF StoreTypeOK, Tick
<1> QED
  BY <1>1, <1>2, <1>3, <1>4 DEF StoreTypeOK, Tick

LEMMA TypeEdit == StoreTypeOK /\ Edit => StoreTypeOK'
<1> SUFFICES ASSUME StoreTypeOK, Edit PROVE StoreTypeOK'
  OBVIOUS
<1>1. edits' \in 0 .. MaxEdits
  BY TimeAssumption DEF StoreTypeOK, Edit
<1>2. CASE \E u \in Users, p \in PrefChoices : UpsertPreferences(u, p)
  BY <1>1, <1>2, ChoiceAssumption DEF StoreTypeOK, Edit, UpsertPreferences
<1>3. CASE \E a \in Tenants \X Addresses, s \in LimitChoices : CreateSuppression(a, s)
  BY <1>1, <1>3, ChoiceAssumption DEF StoreTypeOK, Edit, CreateSuppression
<1>4. CASE \E a \in Tenants \X Addresses : DeleteSuppression(a)
  BY <1>1, <1>4, EmptyValues DEF StoreTypeOK, Edit, DeleteSuppression
<1>5. CASE \E r \in Rules, t \in TemplateEdits : EditTemplate(r, t)
  BY <1>1, <1>5, ChoiceAssumption DEF StoreTypeOK, Edit, EditTemplate
<1>6. CASE \E r \in Rules : DeleteRule(r)
  BY <1>1, <1>6 DEF StoreTypeOK, Edit, DeleteRule, TemplateStates
<1> QED
  BY <1>2, <1>3, <1>4, <1>5, <1>6 DEF Edit

(* What an action does to pc, seen, addr and outcome.                      *)
LEMMA TypeLeave ==
    ASSUME CallTypeOK, NEW c \in Calls, NEW end \in Ends, Leave(c, end)
    PROVE  CallTypeOK'
BY EmptyValues DEF CallTypeOK, Leave, Goto

LEMMA TypePlanInsert ==
    ASSUME CallTypeOK, NEW c \in Calls, NEW s \in Statuses, NEW r \in Reasons,
           PlanInsert(c, s, r)
    PROVE  /\ pc' \in [Calls -> {"idle"} \union Steps \union Ends]
           /\ outcome' \in [Calls -> OutcomeType]
BY DEF CallTypeOK, PlanInsert, Goto, Plan, Steps, OutcomeType

LEMMA TypeProceed ==
    ASSUME CallTypeOK, NEW c \in Calls, NEW step \in Steps, Proceed(c, step)
    PROVE  /\ pc' \in [Calls -> {"idle"} \union Steps \union Ends]
           /\ outcome' \in [Calls -> OutcomeType]
BY DEF CallTypeOK, Proceed, Goto

(* What the writes of one notifications row do to the table.               *)
LEMMA TypeInsertRow ==
    ASSUME StoreTypeOK, NEW c \in Calls, NEW s \in Statuses, NEW r \in Reasons,
           InsertNotification(c, s, r)
    PROVE  notifications' \in [Calls -> NotificationType]
<1>1. 0 \in 0 .. AgeCap
  BY TimeAssumption
<1>2. [status |-> s, reason |-> r, age |-> 0, delivered |-> FALSE] \in NotificationType
  BY <1>1 DEF NotificationType
<1> QED
  BY <1>2 DEF StoreTypeOK, InsertNotification

LEMMA TypeUpdateRow ==
    ASSUME StoreTypeOK, NEW c \in Calls, NEW s \in Statuses, NEW d \in BOOLEAN,
           UpdateNotification(c, s, d)
    PROVE  notifications' \in [Calls -> NotificationType]
<1>1. ASSUME NEW n \in NotificationType PROVE Updated(n, s, d) \in NotificationType
  BY DEF NotificationType, Updated
<1> QED
  BY <1>1 DEF StoreTypeOK, UpdateNotification

(* Every step of a call keeps the types; one step of the proof per action. *)
LEMMA TypeStep ==
    ASSUME TypeOK, NEW c \in Calls, Start(c) \/ Step(c) \/ Throw(c)
    PROVE  TypeOK'
<1> USE DEF TypeOK
<1>c. Request[c] \in RequestType
  BY RequestAssumption
<1>1. CASE Start(c)
  <2>1. addr' \in [Calls -> Addresses \union Recipients \union {NoAddress}]
    BY <1>1, <1>c DEF Start, CallTypeOK, RequestType
  <2>2. pc' \in [Calls -> {"idle"} \union Steps \union Ends]
    BY <1>1 DEF Start, Goto, CallTypeOK, Steps
  <2> QED
    BY <1>1, <2>1, <2>2 DEF Start, StoreTypeOK, storeVars, CallTypeOK
<1>2. CASE ResolveDeliveryAddress(c)
  <2> DEFINE prefs   == userPreferences[User(c)]
             address == IF prefs = NoPreferences THEN NoAddress
                        ELSE prefs.address[Request[c].channel]
  <2>1. prefs \in PreferencesType \union {NoPreferences}
    BY <1>c DEF StoreTypeOK, User, Users, RequestType
  <2>2. address \in Addresses \union {NoAddress}
    BY <2>1, <1>c DEF PreferencesType, RequestType
  <2>3. /\ seen' = [seen EXCEPT ![c] = prefs]
        /\ addr' = [addr EXCEPT ![c] = address]
        /\ UNCHANGED <<storeVars, sends, faults>>
    BY <1>2 DEF ResolveDeliveryAddress
  <2>4. \/ PlanInsert(c, "skipped", "no_delivery_address")
        \/ PlanInsert(c, "skipped", "opt_out")
        \/ Proceed(c, "dedup")
    BY <1>2 DEF ResolveDeliveryAddress
  <2>5. /\ pc' \in [Calls -> {"idle"} \union Steps \union Ends]
        /\ outcome' \in [Calls -> OutcomeType]
    BY <2>4, TypePlanInsert, TypeProceed DEF Statuses, Reasons, Steps
  <2> HIDE DEF prefs, address
  <2> QED
    BY <2>1, <2>2, <2>3, <2>5 DEF CallTypeOK, StoreTypeOK, storeVars
<1>3. CASE CheckDuplicate(c)
  <2>1. \/ PlanInsert(c, "skipped", "deduplicated")
        \/ Proceed(c, "template")
        \/ Proceed(c, "suppress")
    BY <1>3 DEF CheckDuplicate
  <2>2. /\ pc' \in [Calls -> {"idle"} \union Steps \union Ends]
        /\ outcome' \in [Calls -> OutcomeType]
    BY <2>1, TypePlanInsert, TypeProceed DEF Statuses, Reasons, Steps
  <2> QED
    BY <1>3, <2>2 DEF CheckDuplicate, CallTypeOK, StoreTypeOK, storeVars
<1>4. CASE CheckSuppression(c)
  <2>1. CASE Leave(c, "threw")
    BY <2>1, <1>4, TypeLeave DEF CheckSuppression, Ends, StoreTypeOK, storeVars
  <2>2. CASE UNCHANGED <<seen, addr>> /\ ~Leave(c, "threw")
    <3>1. \/ PlanInsert(c, "skipped", "suppressed")
          \/ PlanInsert(c, "queued_digest", "")
          \/ PlanInsert(c, "held", "")
          \/ Proceed(c, "template")
      BY <1>4, <2>2 DEF CheckSuppression
    <3>2. /\ pc' \in [Calls -> {"idle"} \union Steps \union Ends]
          /\ outcome' \in [Calls -> OutcomeType]
      BY <3>1, TypePlanInsert, TypeProceed DEF Statuses, Reasons, Steps
    <3> QED
      BY <1>4, <2>2, <3>2 DEF CheckSuppression, CallTypeOK, StoreTypeOK, storeVars
  <2> QED
    BY <1>4, <2>1, <2>2 DEF CheckSuppression
<1>5. CASE LookupTemplate(c)
  <2>1. CASE Leave(c, "threw")
    BY <2>1, <1>5, TypeLeave DEF LookupTemplate, Ends, StoreTypeOK, storeVars
  <2>2. CASE UNCHANGED <<seen, addr>> /\ ~Leave(c, "threw")
    <3>1. PlanInsert(c, "pending", "") \/ PlanInsert(c, "failed", "")
      BY <1>5, <2>2 DEF LookupTemplate
    <3>2. /\ pc' \in [Calls -> {"idle"} \union Steps \union Ends]
          /\ outcome' \in [Calls -> OutcomeType]
      BY <3>1, TypePlanInsert DEF Statuses, Reasons
    <3> QED
      BY <1>5, <2>2, <3>2 DEF LookupTemplate, CallTypeOK, StoreTypeOK, storeVars
  <2> QED
    BY <1>5, <2>1, <2>2 DEF LookupTemplate
<1>6. CASE InsertRow(c)
  <2>1. outcome[c].status \in Statuses /\ outcome[c].reason \in Reasons
    BY DEF CallTypeOK, OutcomeType
  <2>2. notifications' \in [Calls -> NotificationType]
    BY <1>6, <2>1, TypeInsertRow DEF InsertRow, StoreTypeOK
  <2>3. StoreTypeOK'
    BY <1>6, <2>2 DEF InsertRow, StoreTypeOK
  <2>4. CASE Leave(c, "threw") \/ Leave(c, "done")
    BY <2>3, <2>4, <1>6, TypeLeave DEF InsertRow, Ends
  <2>5. CASE UNCHANGED <<seen, addr>> /\ ~(Leave(c, "threw") \/ Leave(c, "done"))
    <3>1. Proceed(c, "enqueue") \/ Proceed(c, "attach") \/ Proceed(c, "dispatch")
      BY <1>6, <2>5 DEF InsertRow
    <3>2. /\ pc' \in [Calls -> {"idle"} \union Steps \union Ends]
          /\ outcome' \in [Calls -> OutcomeType]
      BY <3>1, TypeProceed DEF Steps
    <3> QED
      BY <1>6, <2>3, <2>5, <3>2 DEF InsertRow, CallTypeOK
  <2> QED
    BY <1>6, <2>4, <2>5 DEF InsertRow
<1>7. CASE EnqueueDigest(c)
  <2>1. digestQueue' \in [Calls -> QueueType]
    BY <1>7, TimeAssumption DEF EnqueueDigest, StoreTypeOK, QueueType
  <2> QED
    BY <1>7, <2>1, TypeLeave DEF EnqueueDigest, StoreTypeOK, Ends
<1>8. CASE FetchAttachments(c)
  <2>1. pc' \in [Calls -> {"idle"} \union Steps \union Ends]
    BY <1>8 DEF FetchAttachments, Proceed, Goto, CallTypeOK, Steps
  <2>2. outcome' \in [Calls -> OutcomeType]
    <3>1. [status |-> "failed", reason |-> ""] \in OutcomeType
      BY DEF OutcomeType, Statuses, Reasons
    <3>2. UNCHANGED outcome \/ Plan(c, "failed", "")
      BY <1>8 DEF FetchAttachments, Proceed
    <3> QED
      BY <3>1, <3>2 DEF Plan, CallTypeOK
  <2> QED
    BY <1>8, <2>1, <2>2 DEF FetchAttachments, CallTypeOK, StoreTypeOK, storeVars
<1>9. CASE Dispatch(c)
  <2>1. PICK a \in Answers(Request[c].channel, Sandboxed(c)) :
            CountSend(c, a.took) /\ Plan(c, a.status, "")
    BY <1>9 DEF Dispatch
  <2>2. a.status \in Statuses
    BY DEF Answers, Statuses
  <2>3. outcome' \in [Calls -> OutcomeType]
    BY <2>1, <2>2 DEF Plan, CallTypeOK, OutcomeType, Reasons
  <2>4. sends' \in [Calls -> 0 .. 2]
    <3>1. sends[c] \in 0 .. 2
      OBVIOUS
    <3>2. sends' = [sends EXCEPT ![c] = IF a.took /\ sends[c] < 2
                                        THEN sends[c] + 1 ELSE sends[c]]
      BY <2>1 DEF CountSend
    <3>3. CASE a.took /\ sends[c] < 2
      BY <3>1, <3>2, <3>3
    <3>4. CASE ~(a.took /\ sends[c] < 2)
      BY <3>1, <3>2, <3>4
    <3> QED
      BY <3>3, <3>4
  <2>5. pc' \in [Calls -> {"idle"} \union Steps \union Ends]
    BY <1>9 DEF Dispatch, Goto, CallTypeOK, Steps
  <2> QED
    BY <1>9, <2>3, <2>4, <2>5 DEF Dispatch, CallTypeOK, StoreTypeOK, storeVars
<1>10. CASE RecordOutcome(c)
  <2>1. outcome[c].status \in Statuses
    BY DEF CallTypeOK, OutcomeType
  <2>2. notifications' \in [Calls -> NotificationType]
    BY <1>10, <2>1, TypeUpdateRow DEF RecordOutcome
  <2> QED
    BY <1>10, <2>2, TypeLeave DEF RecordOutcome, StoreTypeOK, Ends
<1>11. CASE Throw(c)
  <2>1. faults' \in 0 .. MaxFaults
    BY <1>11, PipelineAssumption DEF Throw
  <2> QED
    BY <1>11, <2>1, TypeLeave DEF Throw, Ends, StoreTypeOK, storeVars
<1> QED
  BY <1>1, <1>2, <1>3, <1>4, <1>5, <1>6, <1>7, <1>8, <1>9, <1>10, <1>11 DEF Step

LEMMA TypeCrash == TypeOK /\ Crash => TypeOK'
<1> SUFFICES ASSUME TypeOK, Crash PROVE TypeOK'
  OBVIOUS
<1>1. CallTypeOK'
  BY EmptyValues DEF Crash, KillCalls, TypeOK, CallTypeOK, Ends
<1>2. faults' \in 0 .. MaxFaults
  BY PipelineAssumption DEF Crash, TypeOK
<1> QED
  BY <1>1, <1>2 DEF Crash, TypeOK, StoreTypeOK, storeVars

LEMMA TypeNext == TypeOK /\ [Next]_vars => TypeOK'
<1> SUFFICES ASSUME TypeOK, [Next]_vars PROVE TypeOK'
  OBVIOUS
<1>1. CASE CallNext
  BY <1>1, TypeStep DEF CallNext
<1>2. CASE Crash
  BY <1>2, TypeCrash
<1>3. CASE StoreNext /\ UNCHANGED pipelineVars
  <2>1. StoreTypeOK'
    BY <1>3, TypeTick, TypeEdit DEF TypeOK, StoreNext
  <2> QED
    BY <1>3, <2>1 DEF TypeOK, CallTypeOK, pipelineVars
<1>4. CASE UNCHANGED vars
  BY <1>4 DEF TypeOK, StoreTypeOK, CallTypeOK, vars, storeVars, pipelineVars
<1> QED
  BY <1>1, <1>2, <1>3, <1>4 DEF Next

(* Every variable of the pipeline keeps its type, whatever the constants.  *)
THEOREM PipelineTypeOK == Spec => []TypeOK
BY TypeInit, TypeNext, PTL DEF Spec

-----------------------------------------------------------------------------
(* One live row per key.  The check and the insert are three awaits apart; *)
(* what makes them one is the lane.  The invariant says so: a lane has at  *)
(* most one call in flight, and between the check and the insert of call c *)
(* every other row of its key stays older than the window.                 *)
LaneExclusive ==
    \A c, d \in Calls :
        Active(c) /\ Active(d) /\ Request[c].lane = Request[d].lane => c = d

OwnRowPending ==
    \A c \in Calls :
        pc[c] \in {"attach", "dispatch", "record"} =>
            notifications[c].status = "pending"

PassedDedup(c) ==
    \/ pc[c] \in {"suppress", "template"}
    \/ pc[c] = "insert" /\ outcome[c].status # "skipped"

PassedMeansFree ==
    \A c, d \in Calls :
        PassedDedup(c) /\ c # d /\ Key(c) = Key(d) /\ HasRow(d)
            => notifications[d].age > Window

LiveInv ==
    TypeOK /\ LaneExclusive /\ OwnRowPending /\ PassedMeansFree /\ OneLiveRowPerKey

LEMMA LiveInit == Init => LiveInv
<1> SUFFICES ASSUME Init PROVE LiveInv
  OBVIOUS
<1>1. TypeOK
  BY TypeInit
<1>2. \A c \in Calls : pc[c] = "idle" /\ notifications[c].status = "none"
  BY DEF Init, StoreInit, NoRow
<1> QED
  BY <1>1, <1>2 DEF LiveInv, LaneExclusive, OwnRowPending, PassedMeansFree, PassedDedup,
                    OneLiveRowPerKey, HasRow, Active, Steps

(* A call's step leaves the other calls and their rows alone.              *)
LEMMA StepFrame ==
    ASSUME TypeOK, NEW c \in Calls, Start(c) \/ Step(c) \/ Throw(c),
           NEW d \in Calls, d # c
    PROVE  /\ pc'[d] = pc[d]
           /\ outcome'[d] = outcome[d]
           /\ notifications'[d] = notifications[d]
<1> USE DEF TypeOK, StoreTypeOK, CallTypeOK
<1>1. CASE Start(c) \/ Throw(c)
  BY <1>1 DEF Start, Throw, Goto, Leave, storeVars
<1>2. CASE ResolveDeliveryAddress(c) \/ CheckDuplicate(c)
  BY <1>2 DEF ResolveDeliveryAddress, CheckDuplicate, PlanInsert, Plan, Proceed, Goto, storeVars
<1>3. CASE CheckSuppression(c) \/ LookupTemplate(c)
  BY <1>3 DEF CheckSuppression, LookupTemplate, PlanInsert, Plan, Proceed, Leave, Goto, storeVars
<1>4. CASE InsertRow(c)
  BY <1>4 DEF InsertRow, InsertNotification, Proceed, Leave, Goto
<1>5. CASE EnqueueDigest(c) \/ FetchAttachments(c) \/ Dispatch(c)
  BY <1>5 DEF EnqueueDigest, FetchAttachments, Dispatch, Plan, Proceed, Leave, Goto, storeVars
<1>6. CASE RecordOutcome(c)
  BY <1>6 DEF RecordOutcome, UpdateNotification, Leave, Goto
<1> QED
  BY <1>1, <1>2, <1>3, <1>4, <1>5, <1>6 DEF Step

(* Only Start makes a call active.                                         *)
LEMMA StepActive ==
    ASSUME TypeOK, NEW c \in Calls, Step(c) \/ Throw(c)
    PROVE  Active(c)
BY DEF Step, Throw, Active, Steps, ResolveDeliveryAddress, CheckDuplicate, CheckSuppression,
       LookupTemplate, InsertRow, EnqueueDigest, FetchAttachments, Dispatch, RecordOutcome

LEMMA LaneStep ==
    ASSUME TypeOK, LaneExclusive, NEW c \in Calls, Start(c) \/ Step(c) \/ Throw(c)
    PROVE  LaneExclusive'
<1>1. \A d \in Calls \ {c} : pc'[d] = pc[d]
  BY StepFrame
<1>2. CASE Start(c)
  <2>1. \A d \in Calls : Request[d].lane = Request[c].lane => ~Active(d)
    BY <1>2 DEF Start, IsNext
  <2> QED
    BY <1>1, <2>1 DEF LaneExclusive, Active
<1>3. CASE Step(c) \/ Throw(c)
  BY <1>1, <1>3, StepActive DEF LaneExclusive, Active
<1> QED
  BY <1>2, <1>3

(* What a step of c does to c's own row and place.                         *)
LEMMA OwnStep ==
    ASSUME TypeOK, OwnRowPending, NEW c \in Calls, Start(c) \/ Step(c) \/ Throw(c)
    PROVE  pc'[c] \in {"attach", "dispatch", "record"} => notifications'[c].status = "pending"
<1> USE DEF TypeOK, StoreTypeOK, CallTypeOK, Goto
<1>1. CASE Start(c) \/ Throw(c)
  BY <1>1 DEF Start, Throw, Leave, Ends
<1>2. CASE ResolveDeliveryAddress(c) \/ CheckDuplicate(c)
  BY <1>2 DEF ResolveDeliveryAddress, CheckDuplicate, PlanInsert, Proceed
<1>3. CASE CheckSuppression(c) \/ LookupTemplate(c)
  BY <1>3 DEF CheckSuppression, LookupTemplate, PlanInsert, Proceed, Leave
<1>4. CASE InsertRow(c)
  BY <1>4 DEF InsertRow, InsertNotification, Proceed, Leave
<1>5. CASE EnqueueDigest(c) \/ RecordOutcome(c)
  BY <1>5 DEF EnqueueDigest, RecordOutcome, Leave
<1>6. CASE FetchAttachments(c) \/ Dispatch(c)
  BY <1>6 DEF FetchAttachments, Dispatch, OwnRowPending, storeVars
<1> QED
  BY <1>1, <1>2, <1>3, <1>4, <1>5, <1>6 DEF Step

(* A row of c is written by InsertRow and RecordOutcome only.              *)
LEMMA OwnRow ==
    ASSUME TypeOK, NEW c \in Calls, Start(c) \/ Step(c) \/ Throw(c),
           ~InsertRow(c), ~RecordOutcome(c)
    PROVE  notifications' = notifications
BY DEF Step, Start, Throw, ResolveDeliveryAddress, CheckDuplicate, CheckSuppression,
       LookupTemplate, EnqueueDigest, FetchAttachments, Dispatch, storeVars

(* A call gets past the dedup check only by finding no young row.          *)
LEMMA PassedStep ==
    ASSUME TypeOK, PassedMeansFree, NEW c \in Calls, Start(c) \/ Step(c) \/ Throw(c),
           PassedDedup(c)', NEW d \in Calls, d # c, Key(c) = Key(d), HasRow(d)
    PROVE  notifications[d].age > Window
<1> USE DEF TypeOK, StoreTypeOK, CallTypeOK, Goto
<1>1. CASE CheckDuplicate(c)
  <2>1. ~IsDuplicate(c)
    BY <1>1 DEF CheckDuplicate, PassedDedup, PlanInsert, Plan
  <2>2. ~(notifications[d].age <= Window)
    BY <2>1 DEF IsDuplicate
  <2>3. notifications[d].age \in Int
    BY DEF NotificationType
  <2> QED
    BY <2>2, <2>3, TimeAssumption
<1>2. CASE CheckSuppression(c)
  <2>1. PassedDedup(c)
    BY <1>2 DEF CheckSuppression, PassedDedup
  <2> QED
    BY <2>1 DEF PassedMeansFree
<1>3. CASE LookupTemplate(c)
  <2>1. PassedDedup(c)
    BY <1>3 DEF LookupTemplate, PassedDedup
  <2> QED
    BY <2>1 DEF PassedMeansFree
<1>4. ~Start(c) /\ ~Throw(c)
  BY DEF Start, Throw, Leave, PassedDedup, Ends
<1>5. ~ResolveDeliveryAddress(c)
  BY DEF ResolveDeliveryAddress, PassedDedup, PlanInsert, Plan, Proceed
<1>6. ~InsertRow(c)
  BY DEF InsertRow, PassedDedup, Leave, Proceed
<1>7. ~EnqueueDigest(c) /\ ~FetchAttachments(c) /\ ~Dispatch(c) /\ ~RecordOutcome(c)
  BY DEF EnqueueDigest, FetchAttachments, Dispatch, RecordOutcome, PassedDedup, Leave, Proceed
<1> QED
  BY <1>1, <1>2, <1>3, <1>4, <1>5, <1>6, <1>7 DEF Step

(* The invariant needs the lane only here: no other call of the key can be *)
(* inserting while c is past its check.                                    *)
LEMMA LiveStep ==
    ASSUME KeysConfined, LiveInv, NEW c \in Calls, Start(c) \/ Step(c) \/ Throw(c)
    PROVE  LiveInv'
<1> USE DEF LiveInv
<1>1. TypeOK' /\ LaneExclusive'
  BY TypeStep, LaneStep
<1>2. OwnRowPending'
  BY StepFrame, OwnStep DEF OwnRowPending
<1>3. \A d \in Calls : d # c => pc'[d] = pc[d] /\ outcome'[d] = outcome[d]
                                /\ notifications'[d] = notifications[d]
  BY StepFrame
<1>4. ASSUME NEW d \in Calls, NEW e \in Calls, PassedDedup(d)', d # e,
             Key(d) = Key(e), HasRow(e)'
      PROVE  notifications'[e].age > Window
  <2>1. CASE d = c
    BY <1>3, <1>4, <2>1, PassedStep DEF HasRow
  <2>2. CASE d # c
    <3>1. PassedDedup(d)
      BY <1>3, <1>4, <2>2 DEF PassedDedup
    <3>2. CASE e # c
      BY <1>3, <1>4, <3>1, <3>2 DEF PassedMeansFree, HasRow
    <3>3. CASE e = c
      <4>1. Active(d) /\ Request[d].lane = Request[c].lane
        BY <1>4, <3>1, <3>3 DEF PassedDedup, Active, Steps, KeysConfined
      <4>2. ~Active(c)
        BY <2>2, <4>1 DEF LaneExclusive
      <4>3. ~Step(c) /\ ~Throw(c)
        BY <4>2, StepActive
      <4>4. ~Start(c)
        BY <4>1 DEF Start, IsNext
      <4> QED
        BY <4>3, <4>4
    <3> QED
      BY <3>2, <3>3
  <2> QED
    BY <2>1, <2>2
<1>5. PassedMeansFree'
  BY <1>4 DEF PassedMeansFree, Key
<1>6. ASSUME NEW d \in Calls, d # c, Key(c) = Key(d), HasRow(d)',
             notifications'[d].status # "skipped",
             HasRow(c)', notifications'[c].status # "skipped"
      PROVE  notifications'[c].age > Window \/ notifications'[d].age > Window
  <2>1. HasRow(d) /\ notifications[d].status # "skipped"
        /\ notifications'[d] = notifications[d]
    BY <1>3, <1>6 DEF HasRow
  <2>2. CASE InsertRow(c)
    <3>1. CASE notifications' = notifications
      BY <1>6, <2>1, <3>1 DEF OneLiveRowPerKey, HasRow
    <3>2. CASE InsertNotification(c, outcome[c].status, outcome[c].reason)
      <4>1. outcome[c].status # "skipped"
        BY <1>6, <3>2 DEF InsertNotification, TypeOK, StoreTypeOK
      <4>2. PassedDedup(c)
        BY <2>2, <4>1 DEF InsertRow, PassedDedup
      <4> QED
        BY <1>6, <2>1, <4>2 DEF PassedMeansFree
    <3> QED
      BY <2>2, <3>1, <3>2 DEF InsertRow
  <2>3. CASE RecordOutcome(c)
    <3>1. HasRow(c) /\ notifications[c].status = "pending"
      BY <2>3 DEF RecordOutcome, OwnRowPending, HasRow
    <3>2. notifications'[c].age = notifications[c].age
      BY <2>3 DEF RecordOutcome, UpdateNotification, Updated, TypeOK, StoreTypeOK,
                  NotificationType
    <3> QED
      BY <1>6, <2>1, <3>1, <3>2 DEF OneLiveRowPerKey
  <2>4. CASE ~InsertRow(c) /\ ~RecordOutcome(c)
    <3>1. notifications' = notifications
      BY <2>4, OwnRow
    <3> QED
      BY <1>6, <2>1, <3>1 DEF OneLiveRowPerKey, HasRow
  <2> QED
    BY <2>2, <2>3, <2>4
<1>7. OneLiveRowPerKey'
  <2> SUFFICES ASSUME NEW d \in Calls, NEW e \in Calls, d # e, Key(d) = Key(e),
                      HasRow(d)', notifications'[d].status # "skipped",
                      HasRow(e)', notifications'[e].status # "skipped"
               PROVE  notifications'[d].age > Window \/ notifications'[e].age > Window
    BY DEF OneLiveRowPerKey, Key
  <2>1. CASE d = c \/ e = c
    BY <1>6, <2>1
  <2>2. CASE d # c /\ e # c
    BY <1>3, <2>2 DEF OneLiveRowPerKey, HasRow
  <2> QED
    BY <2>1, <2>2
<1> QED
  BY <1>1, <1>2, <1>5, <1>7

(* Rows only age: nothing past the window comes back into it.              *)
LEMMA OlderKeeps ==
    ASSUME NEW n \in NotificationType
    PROVE  Older(n).status = n.status /\ (n.age > Window => Older(n).age > Window)
BY TimeAssumption DEF Older, NotificationType

LEMMA LiveStore == LiveInv /\ StoreNext /\ UNCHANGED pipelineVars => LiveInv'
<1> SUFFICES ASSUME LiveInv, StoreNext, UNCHANGED pipelineVars PROVE LiveInv'
  OBVIOUS
<1> USE DEF LiveInv
<1>1. TypeOK'
  <2>1. StoreTypeOK'
    BY TypeTick, TypeEdit DEF TypeOK, StoreNext
  <2> QED
    BY <2>1 DEF TypeOK, CallTypeOK, pipelineVars
<1>2. \A c \in Calls : /\ notifications'[c].status = notifications[c].status
                       /\ notifications[c].age > Window => notifications'[c].age > Window
  <2>1. CASE Tick
    BY <2>1, OlderKeeps DEF Tick, TypeOK, StoreTypeOK
  <2>2. CASE Edit
    BY <2>2 DEF Edit
  <2> QED
    BY <2>1, <2>2 DEF StoreNext
<1>3. LaneExclusive' /\ OwnRowPending'
  BY <1>2 DEF LaneExclusive, OwnRowPending, Active, pipelineVars
<1>4. PassedMeansFree'
  BY <1>2 DEF PassedMeansFree, PassedDedup, HasRow, Key, pipelineVars
<1>5. OneLiveRowPerKey'
  BY <1>2 DEF OneLiveRowPerKey, HasRow, Key
<1> QED
  BY <1>1, <1>3, <1>4, <1>5

LEMMA LiveCrash == LiveInv /\ Crash => LiveInv'
<1> SUFFICES ASSUME LiveInv, Crash PROVE LiveInv'
  OBVIOUS
<1> USE DEF LiveInv
<1>1. TypeOK'
  BY TypeCrash
<1>2. \A c \in Calls : pc'[c] \notin Steps
  BY DEF Crash, KillCalls, Active, Steps
<1>3. notifications' = notifications
  BY DEF Crash, storeVars
<1> QED
  BY <1>1, <1>2, <1>3 DEF LaneExclusive, OwnRowPending, PassedMeansFree, PassedDedup,
                          OneLiveRowPerKey, HasRow, Key, Active, Steps

LEMMA LiveNext == ASSUME KeysConfined PROVE LiveInv /\ [Next]_vars => LiveInv'
<1> SUFFICES ASSUME LiveInv, [Next]_vars PROVE LiveInv'
  OBVIOUS
<1>1. CASE CallNext
  BY <1>1, LiveStep DEF CallNext
<1>2. CASE Crash
  BY <1>2, LiveCrash
<1>3. CASE StoreNext /\ UNCHANGED pipelineVars
  BY <1>3, LiveStore
<1>4. CASE UNCHANGED vars
  BY <1>4 DEF LiveInv, TypeOK, StoreTypeOK, CallTypeOK, LaneExclusive, OwnRowPending,
              PassedMeansFree, PassedDedup, OneLiveRowPerKey, HasRow, Key, Active,
              vars, storeVars, pipelineVars
<1> QED
  BY <1>1, <1>2, <1>3, <1>4 DEF Next

(* When calls for one key share a lane, no key ever has two live rows      *)
(* inside the dedup window, for any number of calls, retries, crashes,     *)
(* errors and API writes, and any window.                                  *)
THEOREM AtMostOneLiveRow ==
    ASSUME KeysConfined
    PROVE  Spec => []OneLiveRowPerKey
<1>1. LiveInv /\ [Next]_vars => LiveInv'
  BY LiveNext
<1>2. LiveInv => OneLiveRowPerKey
  BY DEF LiveInv
<1> QED
  BY LiveInit, <1>1, <1>2, PTL DEF Spec
-----------------------------------------------------------------------------
(* What a call's place says of its row.  Before its INSERT a call has no   *)
(* row and has sent nothing; what it is about to insert is a first status; *)
(* until the dispatch nothing is sent, and the outcome it writes after it  *)
(* tells what happened.  Each part speaks of one call, so that the modules *)
(* that compose the pipeline with a job can use it for the calls the job   *)
(* does not touch.                                                         *)
BeforeInsert == {"idle", "resolve", "dedup", "suppress", "template", "insert"}

Unwritten(c) ==
    pc[c] \in BeforeInsert => notifications[c] = NoRow /\ sends[c] = 0

PlanIsFirst(c) == pc[c] = "insert" => outcome[c].status \in Lifecycle!First

RowPending(c) ==
    pc[c] \in {"attach", "dispatch", "record"} => notifications[c].status = "pending"

NotSentYet(c) == pc[c] \in {"attach", "dispatch"} => sends[c] = 0

OutcomeTrue(c) ==
    pc[c] = "record" =>
        /\ outcome[c].status \in Lifecycle!Final
        /\ outcome[c].status = "sent" => sends[c] = 1 \/ c \in InApp
        /\ outcome[c].status = "sent_sandbox" => sends[c] = 0

CallFits(c) ==
    Unwritten(c) /\ PlanIsFirst(c) /\ RowPending(c) /\ NotSentYet(c) /\ OutcomeTrue(c)

RowInv == TypeOK /\ \A c \in Calls : CallFits(c)

LEMMA EmptyRow == NoRow.status = "none" /\ NoRow.reason = "" /\ ~NoRow.delivered
BY DEF NoRow

(* A call that has not come past its INSERT has no row.                    *)
LEMMA NoRowYet ==
    ASSUME NEW c \in Calls, CallFits(c), pc[c] \in BeforeInsert
    PROVE  ~HasRow(c) /\ notifications[c].status = "none" /\ sends[c] = 0
BY EmptyRow DEF CallFits, Unwritten, HasRow

LEMMA RowInit == Init => RowInv
<1> SUFFICES ASSUME Init PROVE RowInv
  OBVIOUS
<1>1. TypeOK
  BY TypeInit
<1>2. \A c \in Calls : pc[c] = "idle" /\ notifications[c] = NoRow /\ sends[c] = 0
  BY DEF Init, StoreInit
<1> QED
  BY <1>1, <1>2 DEF RowInv, CallFits, Unwritten, PlanIsFirst, RowPending, NotSentYet,
                    OutcomeTrue

(* Only Dispatch sends, and only its own call's message.                   *)
LEMMA StepSends ==
    ASSUME TypeOK, NEW c \in Calls, Start(c) \/ Step(c) \/ Throw(c)
    PROVE  /\ \A d \in Calls \ {c} : sends'[d] = sends[d]
           /\ ~Dispatch(c) => sends' = sends
<1>1. CASE Dispatch(c)
  BY <1>1 DEF Dispatch, CountSend, TypeOK
<1>2. CASE ~Dispatch(c)
  <2>1. sends' = sends
    BY <1>2 DEF Start, Step, Throw, ResolveDeliveryAddress, CheckDuplicate, CheckSuppression,
                LookupTemplate, InsertRow, EnqueueDigest, FetchAttachments, RecordOutcome
  <2> QED
    BY <1>2, <2>1
<1> QED
  BY <1>1, <1>2

(* What counting a send does, whoever dispatches.                          *)
LEMMA CountSendKeeps ==
    ASSUME sends \in [Calls -> 0 .. 2], NEW c \in Calls, NEW took \in BOOLEAN,
           CountSend(c, took)
    PROVE  /\ sends' \in [Calls -> 0 .. 2]
           /\ \A d \in Calls : sends'[d] >= sends[d] /\ (d # c => sends'[d] = sends[d])
           /\ took => sends'[c] > 0
           /\ sends'[c] > 1 => sends[c] > 0
<1> DEFINE n == IF took /\ sends[c] < 2 THEN sends[c] + 1 ELSE sends[c]
<1>1. sends' = [sends EXCEPT ![c] = n]
  BY DEF CountSend
<1>2. sends[c] \in 0 .. 2
  OBVIOUS
<1>3. n \in 0 .. 2 /\ n >= sends[c] /\ (took => n > 0) /\ (n > 1 => sends[c] > 0)
  BY <1>2
<1>4. sends'[c] = n /\ \A d \in Calls \ {c} : sends'[d] = sends[d]
  BY <1>1
<1>5. \A d \in Calls : sends[d] \in Int
  OBVIOUS
<1> HIDE DEF n
<1> QED
  BY <1>1, <1>2, <1>3, <1>4, <1>5

(* No step of a call takes a message back.                                 *)
LEMMA SendsGrow ==
    ASSUME TypeOK, NEW c \in Calls, Start(c) \/ Step(c) \/ Throw(c), NEW d \in Calls
    PROVE  sends'[d] >= sends[d]
<1>0. sends \in [Calls -> 0 .. 2] /\ sends[d] \in Int
  BY DEF TypeOK
<1>1. CASE Dispatch(c)
  <2>1. PICK a \in Answers(Request[c].channel, Sandboxed(c)) : CountSend(c, a.took)
    BY <1>1 DEF Dispatch
  <2>2. a.took \in BOOLEAN
    BY DEF Answers
  <2> QED
    BY <1>0, <2>1, <2>2, CountSendKeeps
<1>2. CASE ~Dispatch(c)
  BY <1>0, <1>2, StepSends
<1> QED
  BY <1>1, <1>2

(* A dispatch sends once at most, and what it plans to record is what      *)
(* happened.                                                               *)
LEMMA DispatchOutcome ==
    ASSUME TypeOK, NEW c \in Calls, Dispatch(c), sends[c] = 0
    PROVE  /\ pc'[c] = "record"
           /\ sends' = sends \/ sends' = [sends EXCEPT ![c] = 1]
           /\ OutcomeTrue(c)'
<1>1. PICK a \in Answers(Request[c].channel, Sandboxed(c)) :
          CountSend(c, a.took) /\ Plan(c, a.status, "")
  BY DEF Dispatch
<1>2. pc'[c] = "record"
  BY DEF Dispatch, Goto, TypeOK, CallTypeOK
<1>3. outcome'[c].status = a.status
  BY <1>1 DEF Plan, TypeOK, CallTypeOK
<1>4. sends' = [sends EXCEPT ![c] = IF a.took THEN 1 ELSE 0]
  <2>1. sends' = [sends EXCEPT ![c] = IF a.took /\ sends[c] < 2
                                      THEN sends[c] + 1 ELSE sends[c]]
    BY <1>1 DEF CountSend
  <2>2. (IF a.took /\ sends[c] < 2 THEN sends[c] + 1 ELSE sends[c])
          = (IF a.took THEN 1 ELSE 0)
    OBVIOUS
  <2> QED
    BY <2>1, <2>2
<1>5. /\ a.took \in BOOLEAN
      /\ a.status \in {"sent", "sent_sandbox", "failed"}
      /\ a.status = "sent" => a.took \/ Request[c].channel = "in_app"
      /\ a.status = "sent_sandbox" => ~a.took
  BY DEF Answers
<1>6. sends \in [Calls -> 0 .. 2]
  BY DEF TypeOK
<1>7. sends' = sends \/ sends' = [sends EXCEPT ![c] = 1]
  BY <1>4, <1>5, <1>6
<1>8. sends'[c] = IF a.took THEN 1 ELSE 0
  BY <1>4, <1>6
<1>9. OutcomeTrue(c)'
  BY <1>3, <1>5, <1>8 DEF OutcomeTrue, Lifecycle!Final, InApp
<1> QED
  BY <1>2, <1>7, <1>9

(* A call comes to its INSERT by planning one, with a first status.        *)
LEMMA StepPlans ==
    ASSUME TypeOK, NEW c \in Calls, Step(c), pc'[c] = "insert"
    PROVE  \E s \in Lifecycle!First, r \in Reasons :
               /\ PlanInsert(c, s, r)
               /\ r = "deduplicated" => pc[c] = "dedup" /\ IsDuplicate(c)
<1> USE DEF Goto, Lifecycle!First, Reasons
<1>0. pc[c] \in Steps /\ pc \in [Calls -> {"idle"} \union Steps \union Ends]
  BY StepActive DEF Active, TypeOK, CallTypeOK
<1>1. CASE ResolveDeliveryAddress(c)
  <2>1. ~Proceed(c, "dedup")
    BY <1>0 DEF Proceed
  <2> QED
    BY <1>1, <2>1 DEF ResolveDeliveryAddress
<1>2. CASE CheckDuplicate(c)
  <2>1. ~Proceed(c, "template") /\ ~Proceed(c, "suppress")
    BY <1>0 DEF Proceed
  <2> QED
    BY <1>2, <2>1 DEF CheckDuplicate
<1>3. CASE CheckSuppression(c)
  <2>1. ~Proceed(c, "template") /\ ~Leave(c, "threw")
    BY <1>0 DEF Proceed, Leave
  <2> QED
    BY <1>3, <2>1 DEF CheckSuppression
<1>4. CASE LookupTemplate(c)
  <2>1. ~Leave(c, "threw")
    BY <1>0 DEF Leave
  <2> QED
    BY <1>4, <2>1 DEF LookupTemplate
<1>5. ~InsertRow(c)
  BY <1>0 DEF InsertRow, Proceed, Leave
<1>6. ~EnqueueDigest(c) /\ ~FetchAttachments(c) /\ ~Dispatch(c) /\ ~RecordOutcome(c)
  BY <1>0 DEF EnqueueDigest, FetchAttachments, Dispatch, RecordOutcome, Leave, Proceed
<1> QED
  BY <1>1, <1>2, <1>3, <1>4, <1>5, <1>6 DEF Step

(* A step of a call keeps what the call's place says of its row.           *)
LEMMA FitsStep ==
    ASSUME TypeOK, NEW c \in Calls, CallFits(c), Start(c) \/ Step(c) \/ Throw(c)
    PROVE  CallFits(c)'
<1> USE DEF TypeOK, StoreTypeOK, CallTypeOK, Goto, CallFits
<1>1. CASE Start(c)
  <2>1. pc'[c] \in {"resolve", "dedup"}
    BY <1>1 DEF Start
  <2>2. notifications' = notifications /\ sends' = sends
    BY <1>1 DEF Start, storeVars
  <2> QED
    BY <1>1, <2>1, <2>2 DEF Start, Unwritten, PlanIsFirst, RowPending, NotSentYet,
                            OutcomeTrue, BeforeInsert
<1>2. CASE pc'[c] \in Ends
  BY <1>2 DEF Unwritten, PlanIsFirst, RowPending, NotSentYet, OutcomeTrue, BeforeInsert, Ends
<1>3. CASE pc'[c] \notin Ends /\ (ResolveDeliveryAddress(c) \/ CheckDuplicate(c)
                                  \/ CheckSuppression(c) \/ LookupTemplate(c))
  <2>1. notifications' = notifications /\ sends' = sends
    BY <1>3 DEF ResolveDeliveryAddress, CheckDuplicate, CheckSuppression, LookupTemplate,
                storeVars
  <2>2. pc[c] \in BeforeInsert
    BY <1>3 DEF ResolveDeliveryAddress, CheckDuplicate, CheckSuppression, LookupTemplate,
                BeforeInsert
  <2>3. pc'[c] \in {"dedup", "suppress", "template", "insert"}
    BY <1>3 DEF ResolveDeliveryAddress, CheckDuplicate, CheckSuppression, LookupTemplate,
                PlanInsert, Proceed, Leave, Ends
  <2>4. PlanIsFirst(c)'
    <3>1. \/ pc'[c] # "insert"
          \/ \E s \in Lifecycle!First, r \in Reasons : PlanInsert(c, s, r)
      BY <1>3, StepPlans DEF Step
    <3>2. ASSUME NEW s \in Lifecycle!First, NEW r \in Reasons, PlanInsert(c, s, r)
          PROVE  outcome'[c].status = s
      BY <3>2 DEF PlanInsert, Plan
    <3> QED
      BY <3>1, <3>2 DEF PlanIsFirst
  <2> QED
    BY <2>1, <2>2, <2>3, <2>4 DEF Unwritten, RowPending, NotSentYet, OutcomeTrue
<1>4. CASE pc'[c] \notin Ends /\ InsertRow(c)
  <2>1. sends'[c] = 0
    BY <1>4 DEF InsertRow, Unwritten, BeforeInsert
  <2>2. pc'[c] \in {"enqueue", "attach", "dispatch"}
    BY <1>4 DEF InsertRow, Proceed, Leave, Ends
  <2>3. pc'[c] \in {"attach", "dispatch"} => notifications'[c].status = "pending"
    BY <1>4 DEF InsertRow, InsertNotification, Proceed, Leave, Ends
  <2> QED
    BY <2>1, <2>2, <2>3 DEF Unwritten, PlanIsFirst, RowPending, NotSentYet, OutcomeTrue,
                            BeforeInsert
<1>5. CASE FetchAttachments(c)
  <2>1. notifications' = notifications /\ sends' = sends
    BY <1>5 DEF FetchAttachments, storeVars
  <2>2. pc'[c] = "dispatch" \/ (pc'[c] = "record" /\ outcome'[c].status = "failed")
    <3>1. CASE Proceed(c, "dispatch")
      BY <3>1 DEF Proceed
    <3>2. CASE Goto(c, "record") /\ Plan(c, "failed", "")
      BY <3>2 DEF Plan
    <3> QED
      BY <1>5, <3>1, <3>2 DEF FetchAttachments
  <2>3. pc[c] = "attach"
    BY <1>5 DEF FetchAttachments
  <2> QED
    BY <2>1, <2>2, <2>3 DEF Unwritten, PlanIsFirst, RowPending, NotSentYet, OutcomeTrue,
                            BeforeInsert, Lifecycle!Final
<1>6. CASE Dispatch(c)
  <2>1. pc[c] = "dispatch" /\ notifications' = notifications
    BY <1>6 DEF Dispatch, storeVars
  <2>2. sends[c] = 0 /\ notifications[c].status = "pending"
    BY <2>1 DEF NotSentYet, RowPending
  <2>3. pc'[c] = "record" /\ OutcomeTrue(c)'
    BY <1>6, <2>2, DispatchOutcome
  <2> QED
    BY <2>1, <2>2, <2>3 DEF Unwritten, PlanIsFirst, RowPending, NotSentYet, BeforeInsert
<1>7. CASE EnqueueDigest(c) \/ RecordOutcome(c) \/ Throw(c)
  <2>1. pc'[c] \in Ends
    BY <1>7 DEF EnqueueDigest, RecordOutcome, Throw, Leave, Ends
  <2> QED
    BY <1>2, <2>1
<1> QED
  BY <1>1, <1>2, <1>3, <1>4, <1>5, <1>6, <1>7 DEF Step

(* The statuses a step of a call writes, and where the call then is.       *)
LEMMA StatusStep ==
    ASSUME TypeOK, NEW c \in Calls, CallFits(c), Start(c) \/ Step(c) \/ Throw(c)
    PROVE  \/ notifications'[c].status = notifications[c].status
           \/ /\ pc[c] = "insert" /\ notifications[c].status = "none"
              /\ notifications'[c].status \in Lifecycle!First
              /\ \/ notifications'[c].status \in {"skipped", "failed", "held"} /\ pc'[c] \in Ends
                 \/ notifications'[c].status = "queued_digest" /\ pc'[c] = "enqueue"
                 \/ notifications'[c].status = "pending" /\ pc'[c] \in {"attach", "dispatch"}
           \/ /\ pc[c] = "record" /\ notifications[c].status = "pending"
              /\ notifications'[c].status = outcome[c].status
              /\ pc'[c] \in Ends
<1> USE DEF TypeOK, StoreTypeOK, CallTypeOK, Goto, Ends
<1>1. CASE InsertRow(c)
  <2>1. pc[c] = "insert" /\ notifications[c].status = "none"
    BY <1>1, NoRowYet DEF InsertRow, BeforeInsert
  <2>2. CASE notifications' = notifications
    BY <2>2
  <2>3. CASE InsertNotification(c, outcome[c].status, outcome[c].reason)
    <3>1. notifications'[c].status = outcome[c].status
      BY <2>3 DEF InsertNotification
    <3>2. outcome[c].status \in Lifecycle!First
      BY <2>1 DEF CallFits, PlanIsFirst
    <3>3. notifications' # notifications
      BY <2>1, <3>1, <3>2 DEF Lifecycle!First
    <3>4. \/ outcome[c].status \in {"skipped", "failed", "held"} /\ pc'[c] \in Ends
          \/ outcome[c].status = "queued_digest" /\ pc'[c] = "enqueue"
          \/ outcome[c].status = "pending" /\ pc'[c] \in {"attach", "dispatch"}
      BY <1>1, <3>3 DEF InsertRow, Leave, Proceed
    <3> QED
      BY <2>1, <3>1, <3>2, <3>4
  <2> QED
    BY <1>1, <2>2, <2>3 DEF InsertRow
<1>2. CASE RecordOutcome(c)
  <2>1. pc[c] = "record" /\ notifications[c].status = "pending"
    BY <1>2 DEF RecordOutcome, CallFits, RowPending
  <2>2. notifications'[c].status = outcome[c].status
    BY <1>2, <2>1 DEF RecordOutcome, UpdateNotification, Updated, NotificationType
  <2>3. pc'[c] \in Ends
    BY <1>2 DEF RecordOutcome, Leave
  <2> QED
    BY <2>1, <2>2, <2>3
<1>3. CASE ~InsertRow(c) /\ ~RecordOutcome(c)
  BY <1>3, OwnRow
<1> QED
  BY <1>1, <1>2, <1>3

(* A call that is over stays over.                                         *)
LEMMA EndsStay ==
    ASSUME TypeOK, NEW c \in Calls, Start(c) \/ Step(c) \/ Throw(c),
           NEW d \in Calls, pc[d] \in Ends
    PROVE  d # c /\ pc'[d] = pc[d]
<1>1. pc[c] \notin Ends
  BY StepActive DEF Start, Active, Steps, Ends
<1> QED
  BY <1>1, StepFrame

(* A call keeps it too when another call takes the step, ...               *)
LEMMA FitsFrame ==
    ASSUME TypeOK, NEW c \in Calls, Start(c) \/ Step(c) \/ Throw(c),
           NEW d \in Calls, d # c, CallFits(d)
    PROVE  CallFits(d)'
<1>1. /\ pc'[d] = pc[d]
      /\ outcome'[d] = outcome[d]
      /\ notifications'[d] = notifications[d]
      /\ sends'[d] = sends[d]
  BY StepFrame, StepSends
<1> QED
  BY <1>1 DEF CallFits, Unwritten, PlanIsFirst, RowPending, NotSentYet, OutcomeTrue, InApp

(* ... when the server dies, or a minute passes, or the API writes.        *)
LEMMA FitsCrash ==
    ASSUME TypeOK, KillCalls, UNCHANGED <<notifications, sends>>,
           NEW c \in Calls, CallFits(c)
    PROVE  CallFits(c)'
<1>1. pc'[c] = IF pc[c] \in Steps THEN "crashed" ELSE pc[c]
  BY DEF KillCalls, Active
<1>2. pc[c] \in {"idle"} \union Steps \union Ends
  BY DEF TypeOK, CallTypeOK
<1>3. pc'[c] = "idle" \/ pc'[c] \in Ends
  BY <1>1, <1>2 DEF Ends
<1>4. pc'[c] = "idle" => pc[c] = "idle"
  BY <1>1
<1> QED
  BY <1>3, <1>4 DEF CallFits, Unwritten, PlanIsFirst, RowPending, NotSentYet, OutcomeTrue,
                    BeforeInsert, Ends

LEMMA OlderRow ==
    ASSUME NEW n \in NotificationType
    PROVE  /\ Older(n).status = n.status
           /\ Older(n).reason = n.reason
           /\ Older(n).delivered = n.delivered
           /\ n.status = "none" => Older(n) = n
BY DEF Older, NotificationType

LEMMA FitsStore ==
    ASSUME TypeOK, StoreNext, UNCHANGED <<pc, outcome, sends>>,
           NEW c \in Calls, CallFits(c)
    PROVE  CallFits(c)'
<1>1. notifications[c] \in NotificationType
  BY DEF TypeOK, StoreTypeOK
<1>2. notifications'[c] = notifications[c] \/ notifications'[c] = Older(notifications[c])
  BY DEF StoreNext, Tick, Edit
<1>3. /\ notifications'[c].status = notifications[c].status
      /\ notifications[c] = NoRow => notifications'[c] = NoRow
  <2>1. NoRow.status = "none"
    BY DEF NoRow
  <2> QED
    BY <1>1, <1>2, <2>1, OlderRow
<1> QED
  BY <1>3 DEF CallFits, Unwritten, PlanIsFirst, RowPending, NotSentYet, OutcomeTrue

LEMMA RowNext == RowInv /\ [Next]_vars => RowInv'
<1> SUFFICES ASSUME RowInv, [Next]_vars PROVE RowInv'
  OBVIOUS
<1>1. TypeOK'
  BY TypeNext DEF RowInv
<1>2. ASSUME NEW c \in Calls PROVE CallFits(c)'
  <2> USE DEF RowInv
  <2>1. CASE CallNext
    BY <2>1, FitsStep, FitsFrame DEF CallNext
  <2>2. CASE Crash
    BY <2>2, FitsCrash DEF Crash, storeVars
  <2>3. CASE StoreNext /\ UNCHANGED pipelineVars
    BY <2>3, FitsStore DEF pipelineVars
  <2>4. CASE UNCHANGED vars
    BY <2>4 DEF CallFits, Unwritten, PlanIsFirst, RowPending, NotSentYet, OutcomeTrue,
                vars, storeVars, pipelineVars
  <2> QED
    BY <2>1, <2>2, <2>3, <2>4 DEF Next
<1> QED
  BY <1>1, <1>2 DEF RowInv

-----------------------------------------------------------------------------
(* The refinement.  A step of a call is Create, Take or Settle of its row, *)
(* or changes neither the row's status nor what was sent; so do deaths,    *)
(* the clock and the API.                                                  *)
LEMMA LifecycleStart == Init => Lifecycle!LifecycleInit
<1> SUFFICES ASSUME Init PROVE Lifecycle!LifecycleInit
  OBVIOUS
<1>1. \A c \in Calls : notifications[c].status = "none"
  BY DEF Init, StoreInit, NoRow
<1>2. Status = [c \in Calls |-> "none"]
  BY <1>1 DEF Status
<1> QED
  BY <1>2 DEF Init, Lifecycle!LifecycleInit

LEMMA InsertCreates ==
    ASSUME TypeOK, NEW c \in Calls, CallFits(c), InsertRow(c)
    PROVE  \/ UNCHANGED Lifecycle!lifecycleVars
           \/ \E s \in Lifecycle!First : Lifecycle!Create(c, s)
<1>1. sends' = sends
  BY DEF InsertRow
<1>2. CASE notifications' = notifications
  BY <1>1, <1>2 DEF Lifecycle!lifecycleVars, Status
<1>3. CASE InsertNotification(c, outcome[c].status, outcome[c].reason)
  <2>1. Status[c] = "none"
    BY NoRowYet DEF InsertRow, BeforeInsert, Status
  <2>2. outcome[c].status \in Lifecycle!First
    BY DEF InsertRow, CallFits, PlanIsFirst
  <2>3. Status' = [Status EXCEPT ![c] = outcome[c].status]
    BY <1>3 DEF InsertNotification, Status, TypeOK, StoreTypeOK
  <2> QED
    BY <1>1, <2>1, <2>2, <2>3 DEF Lifecycle!Create
<1> QED
  BY <1>2, <1>3 DEF InsertRow

LEMMA DispatchTakes ==
    ASSUME TypeOK, NEW c \in Calls, CallFits(c), Dispatch(c)
    PROVE  UNCHANGED Lifecycle!lifecycleVars \/ Lifecycle!Take(c)
<1>1. Status' = Status
  BY DEF Dispatch, storeVars, Status
<1>2. sends[c] = 0 /\ Status[c] = "pending"
  BY DEF Dispatch, CallFits, NotSentYet, RowPending, Status
<1>3. sends' = sends \/ sends' = [sends EXCEPT ![c] = 1]
  BY <1>2, DispatchOutcome
<1> QED
  BY <1>1, <1>2, <1>3 DEF Lifecycle!lifecycleVars, Lifecycle!Take, Lifecycle!Waiting

LEMMA RecordSettles ==
    ASSUME TypeOK, NEW c \in Calls, CallFits(c), RecordOutcome(c)
    PROVE  \E s \in Lifecycle!Final : Lifecycle!Settle(c, s)
<1>1. sends' = sends
  BY DEF RecordOutcome
<1>2. Status[c] = "pending" /\ notifications[c].status = "pending"
  BY DEF RecordOutcome, CallFits, RowPending, Status
<1>3. OutcomeTrue(c) /\ pc[c] = "record"
  BY DEF RecordOutcome, CallFits
<1>4. Status' = [Status EXCEPT ![c] = outcome[c].status]
  BY <1>2 DEF RecordOutcome, UpdateNotification, Updated, Status, TypeOK, StoreTypeOK,
              NotificationType
<1> QED
  BY <1>1, <1>2, <1>3, <1>4 DEF OutcomeTrue, Lifecycle!Settle, Lifecycle!Waiting

LEMMA LifecycleCallStep ==
    ASSUME TypeOK, NEW c \in Calls, CallFits(c), Start(c) \/ Step(c) \/ Throw(c)
    PROVE  [Lifecycle!LifecycleNext]_(Lifecycle!lifecycleVars)
<1>1. CASE InsertRow(c)
  BY <1>1, InsertCreates DEF Lifecycle!LifecycleNext
<1>2. CASE Dispatch(c)
  BY <1>2, DispatchTakes DEF Lifecycle!LifecycleNext
<1>3. CASE RecordOutcome(c)
  BY <1>3, RecordSettles DEF Lifecycle!LifecycleNext
<1>4. CASE ~InsertRow(c) /\ ~Dispatch(c) /\ ~RecordOutcome(c)
  <2>1. notifications' = notifications /\ sends' = sends
    BY <1>4, OwnRow, StepSends
  <2> QED
    BY <2>1 DEF Lifecycle!lifecycleVars, Status
<1> QED
  BY <1>1, <1>2, <1>3, <1>4

LEMMA LifecycleStep ==
    RowInv /\ [Next]_vars => [Lifecycle!LifecycleNext]_(Lifecycle!lifecycleVars)
<1> SUFFICES ASSUME RowInv, [Next]_vars
             PROVE  [Lifecycle!LifecycleNext]_(Lifecycle!lifecycleVars)
  OBVIOUS
<1>1. CASE CallNext
  BY <1>1, LifecycleCallStep DEF CallNext, RowInv
<1>2. CASE ~CallNext
  <2>1. sends' = sends
    BY <1>2 DEF Next, Crash, pipelineVars, vars
  <2>2. CASE Tick
    <3>1. \A c \in Calls : notifications'[c].status = notifications[c].status
      BY <2>2, OlderRow DEF Tick, RowInv, TypeOK, StoreTypeOK
    <3> QED
      BY <2>1, <3>1 DEF Lifecycle!lifecycleVars, Status
  <2>3. CASE ~Tick
    <3>1. notifications' = notifications
      BY <1>2, <2>3 DEF Next, Crash, StoreNext, Edit, storeVars, vars
    <3> QED
      BY <2>1, <3>1 DEF Lifecycle!lifecycleVars, Status
  <2> QED
    BY <2>2, <2>3
<1> QED
  BY <1>1, <1>2

(* processNotification implements the promise of NotificationLifecycle: a  *)
(* row is inserted once, its message goes to the channel at most once and  *)
(* only while the row waits for it, and its last status tells what         *)
(* happened.                                                               *)
THEOREM PipelineKeepsLifecycle == Spec => KeepsLifecycle
<1>1. RowInv /\ [Next]_vars => RowInv'
  BY RowNext
<1>2. RowInv /\ [Next]_vars => [Lifecycle!LifecycleNext]_(Lifecycle!lifecycleVars)
  BY LifecycleStep
<1> QED
  BY RowInit, LifecycleStart, <1>1, <1>2, PTL DEF Spec, KeepsLifecycle, Lifecycle!LifecycleSpec

-----------------------------------------------------------------------------
(* Duplicates.  The row that made a call a duplicate is still there when   *)
(* the call inserts its own, and rows keep their order of age: the clock   *)
(* stops counting for the older of two first.                              *)
DuplicateSeen(c) ==
    pc[c] = "insert" /\ outcome[c].reason = "deduplicated" =>
        \E d \in Calls \ {c} : HasRow(d) /\ Key(d) = Key(c)

DuplicateInv == RowInv /\ DuplicateOfItsOwnKey /\ \A c \in Calls : DuplicateSeen(c)

(* A row that is there keeps its reason and its age, whoever takes a step. *)
LEMMA RowKept ==
    ASSUME TypeOK, NEW c \in Calls, CallFits(c), Start(c) \/ Step(c) \/ Throw(c),
           NEW d \in Calls, d # c \/ ~InsertRow(c)
    PROVE  /\ HasRow(d)' <=> HasRow(d)
           /\ notifications'[d].reason = notifications[d].reason
           /\ notifications'[d].age = notifications[d].age
<1>1. CASE d # c
  BY <1>1, StepFrame DEF HasRow
<1>2. CASE d = c /\ RecordOutcome(c)
  <2>1. notifications[c].status = "pending" /\ outcome[c].status \in Lifecycle!Final
    BY <1>2 DEF RecordOutcome, CallFits, RowPending, OutcomeTrue
  <2>2. notifications[c] \in NotificationType
    BY DEF TypeOK, StoreTypeOK
  <2>3. /\ notifications'[c].status = outcome[c].status
        /\ notifications'[c].reason = notifications[c].reason
        /\ notifications'[c].age = notifications[c].age
    BY <1>2, <2>1, <2>2 DEF RecordOutcome, UpdateNotification, Updated, TypeOK, StoreTypeOK,
                            NotificationType
  <2> QED
    BY <1>2, <2>1, <2>3 DEF HasRow, Lifecycle!Final
<1>3. CASE d = c /\ ~RecordOutcome(c)
  <2>1. notifications' = notifications
    BY <1>3, OwnRow
  <2> QED
    BY <2>1 DEF HasRow
<1> QED
  BY <1>1, <1>2, <1>3

LEMMA SeenStep ==
    ASSUME TypeOK, NEW c \in Calls, CallFits(c), Start(c) \/ Step(c) \/ Throw(c),
           NEW e \in Calls, DuplicateSeen(e)
    PROVE  DuplicateSeen(e)'
<1> SUFFICES ASSUME pc'[e] = "insert", outcome'[e].reason = "deduplicated"
             PROVE  \E d \in Calls \ {e} : HasRow(d)' /\ Key(d) = Key(e)
  BY DEF DuplicateSeen, Key
<1>1. \A d \in Calls : HasRow(d) => HasRow(d)'
  <2> TAKE d \in Calls
  <2>1. CASE d # c \/ ~InsertRow(c)
    BY <2>1, RowKept
  <2>2. CASE d = c /\ InsertRow(c)
    BY <2>2, NoRowYet DEF InsertRow, BeforeInsert
  <2> QED
    BY <2>1, <2>2
<1>2. CASE e # c
  <2>1. pc[e] = "insert" /\ outcome[e].reason = "deduplicated"
    BY <1>2, StepFrame
  <2> QED
    BY <1>1, <2>1 DEF DuplicateSeen
<1>3. CASE e = c
  <2>1. Step(c)
    BY <1>3 DEF Start, Throw, Leave, Goto, TypeOK, CallTypeOK
  <2>2. PICK s \in Lifecycle!First, r \in Reasons :
            /\ PlanInsert(c, s, r)
            /\ r = "deduplicated" => pc[c] = "dedup" /\ IsDuplicate(c)
    BY <1>3, <2>1, StepPlans
  <2>3. r = "deduplicated"
    BY <1>3, <2>2 DEF PlanInsert, Plan, TypeOK, CallTypeOK
  <2>4. PICK d \in Calls : HasRow(d) /\ Key(d) = Key(c)
    BY <2>2, <2>3 DEF IsDuplicate
  <2>5. d # c
    BY <2>2, <2>3, <2>4, NoRowYet DEF BeforeInsert
  <2> QED
    BY <1>1, <1>3, <2>4, <2>5
<1> QED
  BY <1>2, <1>3

SameKey(d, c) ==
    \A f \in {"tenant", "event", "recipient", "channel"} : Request[d][f] = Request[c][f]

LEMMA KeyFields ==
    ASSUME NEW c \in Calls, NEW d \in Calls, Key(d) = Key(c)
    PROVE  SameKey(d, c)
BY DEF Key, SameKey

LEMMA DuplicateStep ==
    ASSUME DuplicateInv, NEW c \in Calls, Start(c) \/ Step(c) \/ Throw(c),
           NEW e \in Calls, notifications'[e].reason = "deduplicated"
    PROVE  \E d \in Calls \ {e} : /\ HasRow(d)'
                                  /\ SameKey(d, e)
                                  /\ notifications'[d].age >= notifications'[e].age
<1> USE DEF DuplicateInv, RowInv
<1>1. CASE e = c /\ InsertRow(c) /\ notifications' # notifications
  <2>1. InsertNotification(c, outcome[c].status, outcome[c].reason)
    BY <1>1 DEF InsertRow
  <2>2. notifications'[c].reason = outcome[c].reason /\ notifications'[c].age = 0
    BY <2>1 DEF InsertNotification, TypeOK, StoreTypeOK
  <2>3. PICK d \in Calls \ {c} : HasRow(d) /\ Key(d) = Key(c)
    BY <1>1, <2>2 DEF DuplicateSeen, InsertRow
  <2>4. HasRow(d)' /\ notifications'[d].age = notifications[d].age
    BY <2>3, RowKept
  <2>5. notifications[d].age \in 0 .. AgeCap
    BY DEF TypeOK, StoreTypeOK, NotificationType
  <2>6. notifications'[d].age >= notifications'[c].age
    BY <2>2, <2>4, <2>5, TimeAssumption
  <2> QED
    BY <1>1, <2>3, <2>4, <2>6, KeyFields
<1>2. CASE ~(e = c /\ InsertRow(c) /\ notifications' # notifications)
  <2>1. /\ notifications'[e].reason = notifications[e].reason
        /\ notifications'[e].age = notifications[e].age
    BY <1>2, RowKept
  <2>2. PICK d \in Calls \ {e} : HasRow(d) /\ SameKey(d, e)
                                 /\ notifications[d].age >= notifications[e].age
    BY <2>1 DEF DuplicateOfItsOwnKey, SameKey
  <2>3. ~InsertRow(c) \/ d # c
    BY <2>2, NoRowYet DEF InsertRow, BeforeInsert
  <2> QED
    BY <2>1, <2>2, <2>3, RowKept
<1> QED
  BY <1>1, <1>2

(* Of two rows the older stays the older.                                  *)
LEMMA OlderOrder ==
    ASSUME NEW n \in NotificationType, NEW o \in NotificationType,
           o.status # "none", o.age >= n.age
    PROVE  Older(o).age >= Older(n).age
<1>1. n.age \in 0 .. AgeCap /\ o.age \in 0 .. AgeCap
  BY DEF NotificationType
<1>2. /\ Older(n).age = IF n.status = "none" \/ n.age = AgeCap THEN n.age ELSE n.age + 1
      /\ Older(o).age = IF o.age = AgeCap THEN o.age ELSE o.age + 1
  BY DEF Older, NotificationType
<1> QED
  BY <1>1, <1>2, TimeAssumption

LEMMA DuplicateNext == DuplicateInv /\ [Next]_vars => DuplicateInv'
<1> SUFFICES ASSUME DuplicateInv, [Next]_vars PROVE DuplicateInv'
  OBVIOUS
<1> USE DEF DuplicateInv
<1>1. RowInv'
  BY RowNext
<1>2. CASE CallNext
  <2>1. PICK c \in Calls : Start(c) \/ Step(c) \/ Throw(c)
    BY <1>2 DEF CallNext
  <2>2. \A e \in Calls : DuplicateSeen(e)'
    BY <2>1, SeenStep DEF RowInv
  <2>3. DuplicateOfItsOwnKey'
    BY <2>1, DuplicateStep DEF DuplicateOfItsOwnKey, SameKey
  <2> QED
    BY <1>1, <2>2, <2>3
<1>3. CASE ~CallNext
  <2>1. \A c \in Calls : pc'[c] = "insert" =>
                            pc[c] = "insert" /\ outcome'[c] = outcome[c]
    BY <1>3 DEF Next, Crash, KillCalls, Active, Steps, pipelineVars, vars
  <2>2. CASE Tick
    <3>1. \A c \in Calls : notifications'[c] = Older(notifications[c])
                            /\ notifications[c] \in NotificationType
      BY <2>2 DEF Tick, RowInv, TypeOK, StoreTypeOK
    <3>2. \A c \in Calls : (HasRow(c)' <=> HasRow(c))
                            /\ notifications'[c].reason = notifications[c].reason
      BY <3>1, OlderRow DEF HasRow
    <3>3. \A c, d \in Calls : HasRow(d) /\ notifications[d].age >= notifications[c].age
                                => notifications'[d].age >= notifications'[c].age
      BY <3>1, OlderOrder DEF HasRow
    <3>4. DuplicateOfItsOwnKey'
      BY <3>2, <3>3 DEF DuplicateOfItsOwnKey
    <3> QED
      BY <1>1, <2>1, <3>2, <3>4 DEF DuplicateSeen, Key
  <2>3. CASE ~Tick
    <3>1. notifications' = notifications
      BY <1>3, <2>3 DEF Next, Crash, StoreNext, Edit, storeVars, vars
    <3> QED
      BY <1>1, <2>1, <3>1 DEF DuplicateSeen, DuplicateOfItsOwnKey, Key, HasRow
  <2> QED
    BY <2>2, <2>3
<1> QED
  BY <1>2, <1>3

(* A notification is skipped as a duplicate only when a row of the same    *)
(* tenant, event, recipient and channel, at least as old, is there: and it *)
(* stays there, for as long as nothing deletes rows.                       *)
THEOREM DuplicatesHaveAnOriginal == Spec => []DuplicateOfItsOwnKey
<1>1. Init => DuplicateInv
  <2> SUFFICES ASSUME Init PROVE DuplicateInv
    OBVIOUS
  <2>1. \A c \in Calls : pc[c] = "idle" /\ notifications[c].reason = ""
    BY DEF Init, StoreInit, NoRow
  <2> QED
    BY <2>1, RowInit DEF DuplicateInv, DuplicateSeen, DuplicateOfItsOwnKey
<1>2. DuplicateInv /\ [Next]_vars => DuplicateInv'
  BY DuplicateNext
<1>3. DuplicateInv => DuplicateOfItsOwnKey
  BY DEF DuplicateInv
<1> QED
  BY <1>1, <1>2, <1>3, PTL DEF Spec

-----------------------------------------------------------------------------
(* What a call leaves behind.  A queued_digest row and its digest_queue row *)
(* are two statements: between them the call is at "enqueue", and it must   *)
(* not return from there without the second.                               *)
DoneFits(c) ==
    /\ pc[c] = "done" => Settled(c)
    /\ pc[c] = "enqueue" => notifications[c].status = "queued_digest"

ReturnedMeansSettled == \A c \in Calls : pc[c] = "done" => Settled(c)

SettledInv == RowInv /\ \A c \in Calls : DoneFits(c)

LEMMA EnqueueStep ==
    ASSUME TypeOK, NEW c \in Calls, Start(c) \/ Step(c) \/ Throw(c), NEW d \in Calls
    PROVE  \/ digestQueue'[d] = digestQueue[d]
           \/ d = c /\ EnqueueDigest(c)
<1>1. CASE EnqueueDigest(c)
  BY <1>1 DEF EnqueueDigest, TypeOK, StoreTypeOK
<1>2. CASE ~EnqueueDigest(c)
  BY <1>2 DEF Start, Step, Throw, ResolveDeliveryAddress, CheckDuplicate, CheckSuppression,
              LookupTemplate, InsertRow, FetchAttachments, Dispatch, RecordOutcome, storeVars
<1> QED
  BY <1>1, <1>2

(* A call comes to "enqueue" by inserting a queued_digest row, and to      *)
(* "done" by its last write.                                               *)
LEMMA DoneStep ==
    ASSUME TypeOK, NEW c \in Calls, CallFits(c), DoneFits(c), Start(c) \/ Step(c) \/ Throw(c)
    PROVE  DoneFits(c)'
<1> USE DEF TypeOK, StoreTypeOK, CallTypeOK, Goto
<1>1. CASE InsertRow(c)
  <2>1. pc'[c] \in {"done", "enqueue"} => notifications' # notifications
    <3>1. CASE Leave(c, "threw")
      BY <3>1 DEF Leave
    <3>2. CASE InsertNotification(c, outcome[c].status, outcome[c].reason)
      <4>1. notifications'[c].status = outcome[c].status
        BY <3>2 DEF InsertNotification
      <4>2. notifications[c].status = "none"
        BY <1>1, NoRowYet DEF InsertRow, BeforeInsert
      <4>3. outcome[c].status # "none"
        BY <1>1 DEF InsertRow, CallFits, PlanIsFirst, Lifecycle!First
      <4> QED
        BY <4>1, <4>2, <4>3
    <3> QED
      BY <1>1, <3>1, <3>2 DEF InsertRow
  <2>2. CASE notifications' = notifications
    BY <2>1, <2>2 DEF DoneFits
  <2>3. CASE notifications' # notifications
    <3>1. InsertNotification(c, outcome[c].status, outcome[c].reason)
      BY <1>1, <2>3 DEF InsertRow
    <3>2. notifications'[c].status = outcome[c].status
      BY <3>1 DEF InsertNotification
    <3>3. /\ pc'[c] = "done" => outcome[c].status \in {"skipped", "failed", "held"}
          /\ pc'[c] = "enqueue" => outcome[c].status = "queued_digest"
      BY <1>1, <2>3 DEF InsertRow, Leave, Proceed
    <3> QED
      BY <3>2, <3>3 DEF DoneFits, Settled
  <2> QED
    BY <2>2, <2>3
<1>2. CASE EnqueueDigest(c)
  <2>1. pc[c] = "enqueue" /\ pc'[c] = "done" /\ notifications' = notifications
    BY <1>2 DEF EnqueueDigest, Leave
  <2>2. digestQueue'[c].state = "queued"
    BY <1>2 DEF EnqueueDigest
  <2> QED
    BY <2>1, <2>2 DEF DoneFits, Settled
<1>3. CASE RecordOutcome(c)
  <2>1. notifications'[c].status = outcome[c].status /\ outcome[c].status \in Lifecycle!Final
    <3>1. pc[c] = "record" /\ notifications[c].status = "pending"
      BY <1>3 DEF RecordOutcome, CallFits, RowPending
    <3> QED
      BY <1>3, <3>1 DEF RecordOutcome, UpdateNotification, Updated, NotificationType, CallFits,
         OutcomeTrue
  <2>2. pc'[c] = "done"
    BY <1>3 DEF RecordOutcome, Leave
  <2> QED
    BY <2>1, <2>2 DEF DoneFits, Settled, Lifecycle!Final
<1>4. CASE ~InsertRow(c) /\ ~EnqueueDigest(c) /\ ~RecordOutcome(c)
  <2>1. pc'[c] \notin {"done", "enqueue"}
    BY <1>4 DEF Start, Step, Throw, ResolveDeliveryAddress, CheckDuplicate, CheckSuppression,
       LookupTemplate, FetchAttachments, Dispatch, PlanInsert, Proceed, Leave
  <2> QED
    BY <2>1 DEF DoneFits
<1> QED
  BY <1>1, <1>2, <1>3, <1>4

LEMMA SettledNext == SettledInv /\ [Next]_vars => SettledInv'
<1> SUFFICES ASSUME SettledInv, [Next]_vars PROVE SettledInv'
  OBVIOUS
<1> USE DEF SettledInv
<1>1. RowInv' /\ TypeOK
  BY RowNext DEF RowInv
<1>2. CASE CallNext
  <2>1. PICK c \in Calls : Start(c) \/ Step(c) \/ Throw(c)
    BY <1>2 DEF CallNext
  <2>2. ASSUME NEW d \in Calls, d # c PROVE DoneFits(d)'
    <3>1. /\ pc'[d] = pc[d] /\ notifications'[d] = notifications[d]
          /\ digestQueue'[d] = digestQueue[d]
      BY <1>1, <2>1, <2>2, StepFrame, EnqueueStep
    <3> QED
      BY <3>1 DEF DoneFits, Settled
  <2>3. DoneFits(c)'
    BY <1>1, <2>1, DoneStep DEF RowInv
  <2> QED
    BY <1>1, <2>2, <2>3
<1>3. CASE Crash
  <2>1. UNCHANGED <<notifications, digestQueue>>
    BY <1>3 DEF Crash, storeVars
  <2>2. \A c \in Calls : pc'[c] \in {"done", "enqueue"} => pc'[c] = pc[c]
    BY <1>3 DEF Crash, KillCalls
  <2> QED
    BY <1>1, <2>1, <2>2 DEF DoneFits, Settled
<1>4. CASE StoreNext /\ UNCHANGED pipelineVars
  <2>1. \A c \in Calls : /\ notifications'[c].status = notifications[c].status
                         /\ digestQueue'[c].state = digestQueue[c].state
    <3>1. CASE Tick
      BY <1>1, <3>1, OlderRow DEF Tick, TypeOK, StoreTypeOK, QueueType
    <3>2. CASE Edit
      BY <3>2 DEF Edit
    <3> QED
      BY <1>4, <3>1, <3>2 DEF StoreNext
  <2>2. pc' = pc
    BY <1>4 DEF pipelineVars
  <2> QED
    BY <1>1, <2>1, <2>2 DEF DoneFits, Settled
<1>5. CASE UNCHANGED vars
  BY <1>1, <1>5 DEF vars, storeVars, pipelineVars, DoneFits, Settled
<1> QED
  BY <1>2, <1>3, <1>4, <1>5 DEF Next

(* The safety half of EveryCallSettles.  A call that has returned, and did *)
(* not throw, has left a row that says what became of its message, and a   *)
(* queued_digest row only together with its place in the queue.            *)
THEOREM ReturnedCallsAreSettled == Spec => []ReturnedMeansSettled
<1>1. Init => SettledInv
  <2> SUFFICES ASSUME Init PROVE SettledInv
    OBVIOUS
  <2>1. RowInv
    BY RowInit
  <2> QED
    BY <2>1 DEF SettledInv, Init, DoneFits
<1>2. SettledInv /\ [Next]_vars => SettledInv'
  BY SettledNext
<1>3. SettledInv => ReturnedMeansSettled
  BY DEF SettledInv, DoneFits, ReturnedMeansSettled
<1> QED
  BY <1>1, <1>2, <1>3, PTL DEF Spec
=============================================================================
