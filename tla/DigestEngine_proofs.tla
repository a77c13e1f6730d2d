------------------------- MODULE DigestEngine_proofs -------------------------
(***************************************************************************)
(* What the digest job and the pipeline keep of the queue they share, for  *)
(* any number of calls, users and groups, any size of a digest, whatever   *)
(* crashes and throws.                                                     *)
(***************************************************************************)
EXTENDS DigestEngine, Pipeline_proofs

-----------------------------------------------------------------------------
(* Type correctness, for any number of runs at once.                       *)
JobTypeOK ==
    /\ dpc \in [Runs -> {"idle", "next", "render", "dispatch", "mark"}]
    /\ groups \in [Runs -> SUBSET (SUBSET Calls)]
    /\ shown \in [Runs -> SUBSET Calls]
    /\ unread \in [Runs -> SUBSET Calls]
    /\ unmarked \in [Runs -> SUBSET Calls]
    /\ fired \in BOOLEAN

LEMMA DigestTypes == DigestTypeOK <=> TypeOK /\ JobTypeOK
BY DEF DigestTypeOK, JobTypeOK

(* What counting one digest's message does.                                *)
CountDigest(j, took) ==
    sends' = [d \in Calls |-> IF d \in shown[j] /\ took /\ sends[d] < 2
                              THEN sends[d] + 1 ELSE sends[d]]

LEMMA CountsDigest ==
    ASSUME TypeOK, NEW j \in Runs, DispatchDigest(j)
    PROVE  \E took \in BOOLEAN : CountDigest(j, took)
<1>1. PICK c \in shown[j] : \E a \in DigestAnswers(Request[c].channel) :
          CountDigest(j, a.took)
  BY DEF DispatchDigest, CountDigest
<1>2. PICK a \in DigestAnswers(Request[c].channel) : CountDigest(j, a.took)
  BY <1>1
<1>3. a.took \in BOOLEAN
  <2>1. CASE Request[c].channel = "email"
    BY <2>1 DEF DigestAnswers, Answers
  <2>2. CASE Request[c].channel # "email"
    <3>1. a = [took |-> FALSE, status |-> "failed"]
      BY <2>2 DEF DigestAnswers
    <3> QED
      BY <3>1
  <2> QED
    BY <2>1, <2>2
<1> QED
  BY <1>2, <1>3

LEMMA CountDigestKeeps ==
    ASSUME sends \in [Calls -> 0 .. 2], NEW j \in Runs, NEW took \in BOOLEAN,
           CountDigest(j, took)
    PROVE  /\ sends' \in [Calls -> 0 .. 2]
           /\ \A d \in Calls \ shown[j] : sends'[d] = sends[d]
           /\ \A d \in shown[j] \intersect Calls : sends'[d] > 1 => sends[d] > 0
<1>1. ASSUME NEW d \in Calls
      PROVE  /\ sends'[d] \in 0 .. 2
             /\ d \notin shown[j] => sends'[d] = sends[d]
             /\ sends'[d] > 1 => sends[d] > 0
  <2>1. sends[d] \in 0 .. 2
    OBVIOUS
  <2>2. sends'[d] = IF d \in shown[j] /\ took /\ sends[d] < 2 THEN sends[d] + 1 ELSE sends[d]
    BY DEF CountDigest
  <2>3. CASE d \in shown[j] /\ took /\ sends[d] < 2
    BY <2>1, <2>2, <2>3
  <2>4. CASE ~(d \in shown[j] /\ took /\ sends[d] < 2)
    <3>1. sends'[d] = sends[d]
      BY <2>2, <2>4
    <3> QED
      BY <2>1, <3>1
  <2> QED
    BY <2>3, <2>4
<1>2. sends' = [d \in Calls |-> sends'[d]]
  BY DEF CountDigest
<1> QED
  BY <1>1, <1>2

(* What opening a group does, with and without something to send.          *)
LEMMA GroupOpened ==
    ASSUME NEW j \in Runs, OpenGroup(j)
    PROVE  \E g \in groups[j] :
               /\ groups' = [groups EXCEPT ![j] = groups[j] \ {g}]
               /\ unmarked' = [unmarked EXCEPT ![j] = g]
               /\ \/ dpc' = [dpc EXCEPT ![j] = "mark"] /\ UNCHANGED <<shown, unread>>
                  \/ \E some \in SUBSET g :
                        /\ shown' = [shown EXCEPT ![j] = some]
                        /\ unread' = [unread EXCEPT ![j] = some]
                        /\ dpc' = [dpc EXCEPT ![j] = "render"]
<1>1. PICK g \in groups[j] : \E c \in g :
          /\ groups' = [groups EXCEPT ![j] = @ \ {g}]
          /\ unmarked' = [unmarked EXCEPT ![j] = g]
          /\ \/ /\ dpc' = [dpc EXCEPT ![j] = "mark"]
                /\ UNCHANGED <<shown, unread>>
             \/ /\ \E some \in SUBSET g :
                      /\ shown' = [shown EXCEPT ![j] = some]
                      /\ unread' = [unread EXCEPT ![j] = some]
                /\ dpc' = [dpc EXCEPT ![j] = "render"]
  BY DEF OpenGroup
<1> QED
  BY <1>1

(* A run's step on the pipeline and its tables: one counts sends, one      *)
(* marks a queue row, an error is counted.                                 *)
LEMMA JobSide ==
    ASSUME NEW j \in Runs, SelectDue(j) \/ JobStep(j) \/ JobThrow(j)
    PROVE  /\ UNCHANGED <<clock, notifications, userPreferences, tenantSuppressions,
                          templates, edits, callVars>>
           /\ ~DispatchDigest(j) => sends' = sends
           /\ ~MarkSent(j) => digestQueue' = digestQueue
           /\ ~JobThrow(j) => faults' = faults
<1>1. CASE SelectDue(j) \/ OpenGroup(j) \/ RenderChild(j) \/ Compose(j)
  <2>1. UNCHANGED vars
    BY <1>1 DEF SelectDue, OpenGroup, RenderChild, Compose
  <2> QED
    BY <2>1 DEF vars, storeVars, pipelineVars, callVars
<1>2. CASE DispatchDigest(j)
  BY <1>2 DEF DispatchDigest, storeVars
<1>3. CASE MarkSent(j)
  BY <1>3 DEF MarkSent, pipelineVars, callVars
<1>4. CASE JobThrow(j)
  BY <1>4 DEF JobThrow, storeVars
<1> QED
  BY <1>1, <1>2, <1>3, <1>4 DEF JobStep

LEMMA JobKeepsTypes ==
    ASSUME JobTypeOK, NEW j \in Runs, SelectDue(j) \/ JobStep(j) \/ JobThrow(j)
    PROVE  JobTypeOK'
<1> USE DEF JobTypeOK
<1>1. ASSUME Abort(j), fired' = fired PROVE JobTypeOK'
  BY <1>1 DEF Abort
<1>2. CASE SelectDue(j)
  <2>1. GroupsOf(DueItems) \in SUBSET (SUBSET Calls) /\ GroupsOf({}) = {}
    BY DEF GroupsOf, DueItems
  <2> QED
    BY <1>2, <2>1 DEF SelectDue
<1>3. CASE OpenGroup(j)
  <2>1. fired' = fired
    BY <1>3 DEF OpenGroup
  <2>2. PICK g \in groups[j] :
               /\ groups' = [groups EXCEPT ![j] = groups[j] \ {g}]
               /\ unmarked' = [unmarked EXCEPT ![j] = g]
               /\ \/ dpc' = [dpc EXCEPT ![j] = "mark"] /\ UNCHANGED <<shown, unread>>
                  \/ \E some \in SUBSET g :
                        /\ shown' = [shown EXCEPT ![j] = some]
                        /\ unread' = [unread EXCEPT ![j] = some]
                        /\ dpc' = [dpc EXCEPT ![j] = "render"]
    BY <1>3, GroupOpened
  <2>3. g \in SUBSET Calls
    OBVIOUS
  <2> QED
    BY <2>1, <2>2, <2>3
<1>4. CASE RenderChild(j)
  BY <1>1, <1>4 DEF RenderChild
<1>5. CASE Compose(j)
  BY <1>1, <1>5 DEF Compose
<1>6. CASE DispatchDigest(j)
  BY <1>6 DEF DispatchDigest
<1>7. CASE MarkSent(j)
  BY <1>7 DEF MarkSent
<1>8. CASE JobThrow(j)
  BY <1>1, <1>8 DEF JobThrow
<1> QED
  BY <1>2, <1>3, <1>4, <1>5, <1>6, <1>7, <1>8 DEF JobStep

LEMMA QueueMarked ==
    ASSUME digestQueue \in [Calls -> QueueType], NEW j \in Runs, unmarked[j] \subseteq Calls,
           MarkSent(j)
    PROVE  /\ digestQueue' \in [Calls -> QueueType]
           /\ \E c \in unmarked[j] :
                 /\ digestQueue'[c].state = IF digestQueue[c].state = "queued" THEN "sent"
                                            ELSE digestQueue[c].state
                 /\ \A d \in Calls \ {c} : digestQueue'[d] = digestQueue[d]
                 /\ unmarked' = [unmarked EXCEPT ![j] = unmarked[j] \ {c}]
                 /\ dpc' = [dpc EXCEPT ![j] = IF unmarked[j] # {c} THEN "mark"
                                       ELSE IF groups[j] = {} THEN "idle" ELSE "next"]
<1>1. PICK c \in unmarked[j] :
          /\ digestQueue' = [digestQueue EXCEPT ![c].state =
                                IF @ = "queued" THEN "sent" ELSE @]
          /\ unmarked' = [unmarked EXCEPT ![j] = unmarked[j] \ {c}]
          /\ dpc' = [dpc EXCEPT ![j] = IF unmarked[j] # {c} THEN "mark"
                                       ELSE IF groups[j] = {} THEN "idle" ELSE "next"]
  BY DEF MarkSent
<1>2. digestQueue[c] \in QueueType
  OBVIOUS
<1> QED
  BY <1>1, <1>2 DEF QueueType

LEMMA DigestTypeNext == DigestTypeOK /\ [DigestNext]_digestVars => DigestTypeOK'
<1> SUFFICES ASSUME DigestTypeOK, [DigestNext]_digestVars PROVE DigestTypeOK'
  OBVIOUS
<1>0. TypeOK /\ JobTypeOK
  BY DigestTypes
<1>1. ASSUME NEW j \in Runs, SelectDue(j) \/ JobStep(j) \/ JobThrow(j) PROVE DigestTypeOK'
  <2>1. JobTypeOK'
    BY <1>0, <1>1, JobKeepsTypes
  <2>2. sends' \in [Calls -> 0 .. 2]
    <3>1. CASE DispatchDigest(j)
      BY <1>0, <3>1, CountsDigest, CountDigestKeeps DEF TypeOK
    <3> QED
      BY <1>0, <1>1, <3>1, JobSide DEF TypeOK
  <2>3. digestQueue' \in [Calls -> QueueType]
    <3>1. CASE MarkSent(j)
      BY <1>0, <3>1, QueueMarked DEF TypeOK, StoreTypeOK, JobTypeOK
    <3> QED
      BY <1>0, <1>1, <3>1, JobSide DEF TypeOK, StoreTypeOK
  <2>4. faults' \in 0 .. MaxFaults
    <3>1. CASE JobThrow(j)
      BY <1>0, <3>1, PipelineAssumption DEF JobThrow, TypeOK
    <3> QED
      BY <1>0, <1>1, <3>1, JobSide DEF TypeOK
  <2>5. TypeOK'
    BY <1>0, <1>1, <2>2, <2>3, <2>4, JobSide DEF TypeOK, StoreTypeOK, CallTypeOK, callVars
  <2> QED
    BY <2>1, <2>5 DEF DigestTypeOK, JobTypeOK
<1>2. CASE CallNext /\ UNCHANGED jobVars
  <2>1. TypeOK'
    BY <1>0, <1>2, TypeStep DEF CallNext
  <2> QED
    BY <1>2, <2>1 DEF DigestTypeOK, jobVars
<1>3. CASE Edit /\ UNCHANGED <<pipelineVars, jobVars>>
  <2>1. TypeOK'
    BY <1>0, <1>3, TypeNext DEF Next, StoreNext
  <2> QED
    BY <1>3, <2>1 DEF DigestTypeOK, jobVars
<1>4. CASE TimerTick
  <2>1. TypeOK'
    BY <1>0, <1>4, TypeNext DEF Next, StoreNext, TimerTick
  <2> QED
    BY <1>4, <2>1 DEF TimerTick, DigestTypeOK
<1>5. CASE ServerCrash
  <2>1. CallTypeOK'
    BY <1>0, <1>5, EmptyValues DEF ServerCrash, KillCalls, TypeOK, CallTypeOK, Ends
  <2>2. TypeOK'
    BY <1>0, <1>5, <2>1, PipelineAssumption DEF ServerCrash, TypeOK, StoreTypeOK, storeVars
  <2> QED
    BY <1>5, <2>2 DEF ServerCrash, DigestTypeOK
<1>6. CASE UNCHANGED digestVars
  <2>1. TypeOK'
    BY <1>0, <1>6, TypeNext DEF digestVars
  <2> QED
    BY <1>6, <2>1 DEF digestVars, jobVars, DigestTypeOK
<1> QED
  BY <1>1, <1>2, <1>3, <1>4, <1>5, <1>6 DEF DigestNext

(* The variables of the pipeline and the job keep their types, however     *)
(* many runs of the job overlap.                                           *)
THEOREM DigestKeepsTypes == FairDigestSpec => []DigestTypeOK
<1>1. DigestInit => DigestTypeOK
  BY TypeInit DEF DigestInit, DigestTypeOK
<1> QED
  BY <1>1, DigestTypeNext, PTL DEF FairDigestSpec

-----------------------------------------------------------------------------
(* An item in one digest.  server.ts starts a run every few minutes and    *)
(* does not wait for the one before; what follows is proved for as long as *)
(* no run takes longer than that.                                          *)
OneRun == \A i, j \in Runs : i = j

(* A row of the queue is of a call that is over and of a notification that *)
(* is queued_digest for good; what is about to be queued was not sent.     *)
QueueFits(c) ==
    /\ digestQueue[c].state # "none" =>
          pc[c] \in Ends /\ notifications[c].status = "queued_digest"
    /\ pc[c] = "enqueue" => notifications[c].status = "queued_digest" /\ sends[c] = 0

(* What is queued has not been sent, unless the run is about to mark it,   *)
(* or something failed.                                                    *)
Marking(c) == \E j \in Runs : dpc[j] = "mark" /\ c \in unmarked[j]

OnceFits(c) ==
    /\ sends[c] > 1 => faults > 0
    /\ digestQueue[c].state = "queued" /\ sends[c] > 0 => faults > 0 \/ Marking(c)

(* The run's groups are apart from one another and from the items it is    *)
(* marking, each is one user's, and all of it is still queued and due.     *)
OneUsers(items) == \A c, d \in items : GroupKey(c) = GroupKey(d)

Due(c) ==
    /\ notifications[c].status = "queued_digest"
    /\ digestQueue[c].state = "queued"
    /\ digestQueue[c].due = 0

RunFits(j) ==
    /\ \A g \in groups[j] : /\ OneUsers(g)
                            /\ g \intersect unmarked[j] = {}
                            /\ \A c \in g : Due(c)
    /\ \A g, h \in groups[j] : g # h => g \intersect h = {}
    /\ OneUsers(unmarked[j])
    /\ \A c \in unmarked[j] : Due(c)
    /\ shown[j] \subseteq unmarked[j]
    /\ dpc[j] \in {"idle", "next"} => unmarked[j] = {}
    /\ dpc[j] = "mark" => shown[j] = {}

DigestInv ==
    /\ DigestTypeOK
    /\ \A c \in Calls : CallFits(c) /\ QueueFits(c) /\ OnceFits(c)
    /\ \A j \in Runs : RunFits(j)

LEMMA InvInit == DigestInit => DigestInv
<1> SUFFICES ASSUME DigestInit PROVE DigestInv
  OBVIOUS
<1>1. RowInv
  BY RowInit DEF DigestInit
<1>2. DigestTypeOK
  BY TypeInit DEF DigestInit, DigestTypeOK
<1>3. \A c \in Calls : pc[c] = "idle" /\ sends[c] = 0 /\ digestQueue[c].state = "none"
  BY DEF DigestInit, Init, StoreInit, NotQueued
<1>4. \A j \in Runs : RunFits(j)
  BY DEF DigestInit, RunFits, OneUsers
<1> QED
  BY <1>1, <1>2, <1>3, <1>4 DEF DigestInv, RowInv, QueueFits, OnceFits

-----------------------------------------------------------------------------
(* The pipeline's steps.                                                   *)
LEMMA QueueStep ==
    ASSUME TypeOK, NEW c \in Calls, CallFits(c), Start(c) \/ Step(c) \/ Throw(c),
           NEW d \in Calls, QueueFits(d)
    PROVE  QueueFits(d)'
<1> USE DEF TypeOK, StoreTypeOK, CallTypeOK, Goto
<1>1. CASE d # c
  <2>1. /\ pc'[d] = pc[d] /\ notifications'[d] = notifications[d]
        /\ sends'[d] = sends[d] /\ digestQueue'[d] = digestQueue[d]
    BY <1>1, StepFrame, StepSends, EnqueueStep
  <2> QED
    BY <2>1 DEF QueueFits
<1>2. CASE d = c /\ EnqueueDigest(c)
  <2>1. pc[c] = "enqueue" /\ notifications' = notifications /\ pc'[c] = "done"
    BY <1>2 DEF EnqueueDigest, Leave
  <2> QED
    BY <1>2, <2>1 DEF QueueFits, Ends
<1>3. CASE d = c /\ ~EnqueueDigest(c)
  <2>1. digestQueue'[c].state = "none"
    <3>1. pc[c] \notin Ends
      BY StepActive DEF Start, Active, Steps, Ends
    <3> QED
      BY <1>3, <3>1, EnqueueStep DEF QueueFits
  <2>2. ASSUME pc'[c] = "enqueue"
        PROVE  notifications'[c].status = "queued_digest" /\ sends'[c] = 0
    <3>1. InsertRow(c) /\ outcome[c].status = "queued_digest" /\ notifications' # notifications
      <4>1. InsertRow(c)
        BY <1>3, <2>2 DEF Start, Step, Throw, ResolveDeliveryAddress, CheckDuplicate,
           CheckSuppression, LookupTemplate, FetchAttachments, Dispatch, RecordOutcome,
           PlanInsert, Proceed, Leave
      <4>2. InsertNotification(c, outcome[c].status, outcome[c].reason)
            /\ outcome[c].status = "queued_digest"
        BY <2>2, <4>1 DEF InsertRow, Proceed, Leave
      <4>3. notifications[c].status = "none"
        BY <4>1, NoRowYet DEF InsertRow, BeforeInsert
      <4>4. notifications'[c].status = "queued_digest"
        BY <4>2 DEF InsertNotification
      <4> QED
        BY <4>1, <4>2, <4>3, <4>4
    <3>2. InsertNotification(c, outcome[c].status, outcome[c].reason)
      BY <3>1 DEF InsertRow
    <3>3. sends[c] = 0 /\ sends' = sends
      BY <3>1, NoRowYet DEF InsertRow, BeforeInsert
    <3> QED
      BY <3>1, <3>2, <3>3 DEF InsertNotification
  <2> QED
    BY <1>3, <2>1, <2>2 DEF QueueFits
<1> QED
  BY <1>1, <1>2, <1>3

(* A fault once counted stays counted.                                     *)
LEMMA FaultsGrow ==
    ASSUME TypeOK, NEW c \in Calls, Start(c) \/ Step(c) \/ Throw(c)
    PROVE  faults > 0 => faults' > 0
<1>1. faults' = faults \/ faults' = faults + 1
  BY DEF Start, Step, Throw, ResolveDeliveryAddress, CheckDuplicate, CheckSuppression,
         LookupTemplate, InsertRow, EnqueueDigest, FetchAttachments, Dispatch, RecordOutcome
<1>2. faults \in Nat
  BY PipelineAssumption DEF TypeOK
<1> QED
  BY <1>1, <1>2

LEMMA OnceCall ==
    ASSUME TypeOK, NEW c \in Calls, CallFits(c), Start(c) \/ Step(c) \/ Throw(c),
           UNCHANGED jobVars,
           NEW d \in Calls, QueueFits(c), QueueFits(d), OnceFits(d)
    PROVE  OnceFits(d)'
<1>0. Marking(d)' <=> Marking(d)
  BY DEF Marking, jobVars
<1>1. CASE d # c
  <2>1. sends'[d] = sends[d] /\ digestQueue'[d] = digestQueue[d]
    BY <1>1, StepSends, EnqueueStep
  <2> QED
    BY <1>0, <2>1, FaultsGrow DEF OnceFits
<1>2. CASE d = c /\ Dispatch(c)
  <2>1. sends[c] = 0 /\ pc[c] = "dispatch"
    BY <1>2 DEF Dispatch, CallFits, NotSentYet
  <2>2. sends'[c] \in {0, 1}
    BY <1>2, <2>1, DispatchOutcome DEF TypeOK
  <2>3. digestQueue'[c].state = "none"
    BY <1>2, <2>1 DEF Dispatch, storeVars, QueueFits, Ends
  <2> QED
    BY <1>2, <2>2, <2>3 DEF OnceFits
<1>3. CASE d = c /\ EnqueueDigest(c)
  <2>1. sends'[c] = 0
    BY <1>3 DEF EnqueueDigest, QueueFits
  <2> QED
    BY <1>3, <2>1 DEF OnceFits
<1>4. CASE d = c /\ ~Dispatch(c) /\ ~EnqueueDigest(c)
  <2>1. sends'[d] = sends[d] /\ digestQueue'[d] = digestQueue[d]
    BY <1>4, StepSends, EnqueueStep
  <2> QED
    BY <1>0, <2>1, FaultsGrow DEF OnceFits
<1> QED
  BY <1>1, <1>2, <1>3, <1>4

(* What is due stays so while the run has not marked it.                   *)
LEMMA RunKept ==
    ASSUME DigestTypeOK, NEW j \in Runs, RunFits(j),
           UNCHANGED <<dpc, groups, shown, unmarked>>,
           \A c \in Calls : Due(c) => Due(c)'
    PROVE  RunFits(j)'
<1>1. \A g \in groups[j] : g \subseteq Calls
  BY DEF DigestTypeOK
<1>2. unmarked[j] \subseteq Calls
  BY DEF DigestTypeOK
<1>3. \A c \in unmarked[j] : Due(c)'
  BY <1>2 DEF RunFits
<1>4. \A g \in groups[j] : \A c \in g : Due(c)'
  BY <1>1 DEF RunFits
<1>5. \A items : OneUsers(items) => OneUsers(items)'
  BY DEF OneUsers, GroupKey, User
<1> QED
  BY <1>3, <1>4, <1>5 DEF RunFits

LEMMA DigestCall ==
    ASSUME DigestInv, CallNext, UNCHANGED jobVars
    PROVE  DigestInv'
<1> USE DEF DigestInv
<1>1. PICK c \in Calls : Start(c) \/ Step(c) \/ Throw(c)
  BY DEF CallNext
<1>2. TypeOK /\ DigestTypeOK'
  BY DigestTypeNext DEF DigestTypeOK, DigestNext
<1>3. ASSUME NEW d \in Calls PROVE CallFits(d)' /\ QueueFits(d)' /\ OnceFits(d)'
  <2>1. CallFits(d)'
    BY <1>1, <1>2, FitsStep, FitsFrame
  <2>2. QueueFits(d)'
    BY <1>1, <1>2, QueueStep
  <2>3. OnceFits(d)'
    BY <1>1, <1>2, OnceCall
  <2> QED
    BY <2>1, <2>2, <2>3
<1>4. ASSUME NEW d \in Calls, Due(d) PROVE Due(d)'
  <2>1. pc[d] \in Ends
    BY <1>4 DEF Due, QueueFits
  <2>2. d # c
    BY <1>1, <1>2, <2>1, EndsStay
  <2> QED
    BY <1>1, <1>2, <1>4, <2>2, StepFrame, EnqueueStep DEF Due
<1>5. \A j \in Runs : RunFits(j)'
  BY <1>4, RunKept DEF jobVars
<1> QED
  BY <1>2, <1>3, <1>5

(* The clock's and the API's.                                              *)
LEMMA DigestStore ==
    ASSUME DigestInv, StoreNext, UNCHANGED <<pipelineVars, dpc, groups, shown, unmarked>>,
           DigestTypeOK'
    PROVE  DigestInv'
<1> USE DEF DigestInv
<1>1. TypeOK
  BY DEF DigestTypeOK
<1>2. \A c \in Calls : CallFits(c)'
  BY <1>1, FitsStore DEF pipelineVars
<1>3. ASSUME NEW c \in Calls
      PROVE  /\ notifications'[c].status = notifications[c].status
             /\ digestQueue'[c].state = digestQueue[c].state
             /\ digestQueue[c].due = 0 => digestQueue'[c].due = 0
  <2>1. notifications'[c].status = notifications[c].status
    BY <1>1, OlderRow DEF StoreNext, Tick, Edit, TypeOK, StoreTypeOK
  <2>2. digestQueue[c] \in QueueType
    BY <1>1 DEF TypeOK, StoreTypeOK
  <2>3. CASE Tick
    BY <2>1, <2>2, <2>3 DEF Tick, Sooner, QueueType
  <2>4. CASE Edit
    BY <2>1, <2>4 DEF Edit
  <2> QED
    BY <2>3, <2>4 DEF StoreNext
<1>4. \A c \in Calls : QueueFits(c)' /\ OnceFits(c)'
  BY <1>3 DEF QueueFits, OnceFits, Marking, pipelineVars
<1>5. \A j \in Runs : RunFits(j)'
  BY <1>3, RunKept DEF Due
<1> QED
  BY <1>2, <1>4, <1>5

LEMMA DigestCrash == DigestInv /\ ServerCrash /\ DigestTypeOK' => DigestInv'
<1> SUFFICES ASSUME DigestInv, ServerCrash, DigestTypeOK' PROVE DigestInv'
  OBVIOUS
<1> USE DEF DigestInv
<1>1. TypeOK /\ UNCHANGED <<notifications, sends, digestQueue>> /\ KillCalls
  BY DEF ServerCrash, storeVars, DigestTypeOK
<1>2. \A c \in Calls : CallFits(c)'
  BY <1>1, FitsCrash
<1>3. ASSUME NEW c \in Calls
      PROVE  (pc[c] \in Ends => pc'[c] \in Ends) /\ pc'[c] # "enqueue"
  BY <1>1 DEF KillCalls, Active, Steps, Ends
<1>4. faults' > 0
  BY PipelineAssumption DEF ServerCrash, DigestTypeOK, TypeOK
<1>5. \A c \in Calls : QueueFits(c)' /\ OnceFits(c)'
  BY <1>1, <1>3, <1>4 DEF QueueFits, OnceFits
<1>6. \A j \in Runs : RunFits(j)'
  BY DEF ServerCrash, RunFits, OneUsers
<1> QED
  BY <1>2, <1>5, <1>6

-----------------------------------------------------------------------------
(* The run's steps.  It counts sends and marks rows of calls that are over *)
(* only, so what the calls' places say of their rows stays.                *)
LEMMA JobKeepsCalls ==
    ASSUME DigestInv, NEW j \in Runs, SelectDue(j) \/ JobStep(j) \/ JobThrow(j),
           NEW c \in Calls
    PROVE  CallFits(c)' /\ QueueFits(c)'
<1> USE DEF DigestInv, DigestTypeOK
<1>1. /\ pc' = pc /\ outcome' = outcome /\ notifications' = notifications
      /\ ~DispatchDigest(j) => sends' = sends
      /\ ~MarkSent(j) => digestQueue' = digestQueue
  BY JobSide DEF callVars
<1>2. CASE pc[c] \in Ends
  <2>1. CallFits(c)'
    BY <1>1, <1>2 DEF CallFits, Unwritten, PlanIsFirst, RowPending, NotSentYet, OutcomeTrue,
                      BeforeInsert, Ends
  <2>2. digestQueue'[c].state # "none" => digestQueue[c].state # "none"
    <3>1. CASE MarkSent(j)
      <4>1. PICK d \in unmarked[j] :
               /\ digestQueue'[d].state = IF digestQueue[d].state = "queued" THEN "sent"
                                          ELSE digestQueue[d].state
               /\ \A e \in Calls \ {d} : digestQueue'[e] = digestQueue[e]
        BY <3>1, QueueMarked DEF TypeOK, StoreTypeOK
      <4> QED
        BY <4>1
    <3> QED
      BY <1>1, <3>1
  <2> QED
    BY <1>1, <1>2, <2>1, <2>2 DEF QueueFits, Ends
<1>3. CASE pc[c] \notin Ends
  <2>1. c \notin unmarked[j] /\ c \notin shown[j]
    BY <1>3 DEF RunFits, Due, QueueFits
  <2>2. sends'[c] = sends[c]
    <3>1. CASE DispatchDigest(j)
      <4>1. PICK took \in BOOLEAN : CountDigest(j, took)
        BY <3>1, CountsDigest
      <4> QED
        BY <2>1, <4>1, CountDigestKeeps DEF TypeOK
    <3> QED
      BY <1>1, <3>1
  <2>3. digestQueue'[c] = digestQueue[c]
    <3>1. CASE MarkSent(j)
      <4>1. PICK d \in unmarked[j] : \A e \in Calls \ {d} : digestQueue'[e] = digestQueue[e]
        BY <3>1, QueueMarked DEF TypeOK, StoreTypeOK
      <4> QED
        BY <2>1, <4>1
    <3> QED
      BY <1>1, <3>1
  <2> QED
    BY <1>1, <2>2, <2>3 DEF CallFits, Unwritten, PlanIsFirst, RowPending, NotSentYet,
                            OutcomeTrue, InApp, QueueFits
<1> QED
  BY <1>2, <1>3

(* The groups a run finds are what its loop needs them to be.              *)
LEMMA GroupsFit ==
    ASSUME DigestInv
    PROVE  /\ \A g \in GroupsOf(DueItems) : OneUsers(g) /\ \A c \in g : Due(c)
           /\ \A g, h \in GroupsOf(DueItems) : g # h => g \intersect h = {}
<1>1. \A g \in GroupsOf(DueItems) : \E c \in DueItems :
          g = {d \in DueItems : GroupKey(d) = GroupKey(c)}
  BY DEF GroupsOf
<1>2. \A c \in DueItems : Due(c)
  BY DEF DueItems, Due, DigestInv, QueueFits
<1>3. \A g \in GroupsOf(DueItems) : OneUsers(g) /\ \A c \in g : Due(c)
  BY <1>1, <1>2 DEF OneUsers
<1>4. ASSUME NEW g \in GroupsOf(DueItems), NEW h \in GroupsOf(DueItems), NEW e \in g, e \in h
      PROVE  g = h
  BY <1>1, <1>4
<1> QED
  BY <1>3, <1>4

(* Opening a group takes it from the groups and makes it the items to      *)
(* mark.                                                                   *)
LEMMA OpenFits ==
    ASSUME DigestInv, NEW j \in Runs, OpenGroup(j)
    PROVE  RunFits(j)'
<1> USE DEF DigestInv, DigestTypeOK
<1>1. PICK g \in groups[j] :
               /\ groups' = [groups EXCEPT ![j] = groups[j] \ {g}]
               /\ unmarked' = [unmarked EXCEPT ![j] = g]
               /\ \/ dpc' = [dpc EXCEPT ![j] = "mark"] /\ UNCHANGED <<shown, unread>>
                  \/ \E some \in SUBSET g :
                        /\ shown' = [shown EXCEPT ![j] = some]
                        /\ unread' = [unread EXCEPT ![j] = some]
                        /\ dpc' = [dpc EXCEPT ![j] = "render"]
  BY GroupOpened
<1>2. UNCHANGED vars /\ dpc[j] = "next"
  BY DEF OpenGroup
<1>3. /\ groups'[j] = groups[j] \ {g} /\ unmarked'[j] = g
      /\ dpc'[j] \in {"mark", "render"}
      /\ shown'[j] \subseteq g
      /\ dpc'[j] = "mark" => shown'[j] = {}
  BY <1>1, <1>2 DEF RunFits
<1>4. /\ \A c : Due(c)' <=> Due(c)
      /\ \A items : OneUsers(items)' <=> OneUsers(items)
  BY <1>2 DEF vars, storeVars, Due, OneUsers, GroupKey, User
<1>5. /\ \A h \in groups'[j] : OneUsers(h)' /\ h \intersect unmarked'[j] = {}
                               /\ \A c \in h : Due(c)'
      /\ \A h, i \in groups'[j] : h # i => h \intersect i = {}
      /\ OneUsers(unmarked'[j]) /\ \A c \in unmarked'[j] : Due(c)'
  BY <1>3, <1>4 DEF RunFits
<1> QED
  BY <1>3, <1>5 DEF RunFits, OneUsers, GroupKey, User

(* A marked item is in no group and not among those still to be marked.    *)
LEMMA MarkFits ==
    ASSUME DigestInv, NEW j \in Runs, MarkSent(j)
    PROVE  RunFits(j)'
<1> USE DEF DigestInv, DigestTypeOK
<1>1. PICK c \in unmarked[j] :
          /\ \A d \in Calls \ {c} : digestQueue'[d] = digestQueue[d]
          /\ unmarked' = [unmarked EXCEPT ![j] = unmarked[j] \ {c}]
          /\ dpc' = [dpc EXCEPT ![j] = IF unmarked[j] # {c} THEN "mark"
                                ELSE IF groups[j] = {} THEN "idle" ELSE "next"]
  BY QueueMarked DEF TypeOK, StoreTypeOK
<1>2. notifications' = notifications /\ groups' = groups /\ shown' = shown /\ dpc[j] = "mark"
  BY DEF MarkSent
<1>3. \A d \in Calls \ {c} : Due(d) => Due(d)'
  BY <1>1, <1>2 DEF Due
<1>4. /\ unmarked'[j] = unmarked[j] \ {c}
      /\ dpc'[j] \in {"idle", "next"} => unmarked'[j] = {}
  BY <1>1
<1>5. \A items : OneUsers(items)' <=> OneUsers(items)
  BY DEF OneUsers, GroupKey, User
<1>6. OneUsers(unmarked'[j]) /\ \A d \in unmarked'[j] : Due(d)'
  BY <1>3, <1>4, <1>5 DEF RunFits, OneUsers
<1>7. \A g \in groups'[j] : /\ OneUsers(g)'
                             /\ g \intersect unmarked'[j] = {}
                             /\ \A d \in g : Due(d)'
  <2> SUFFICES ASSUME NEW g \in groups[j]
               PROVE  OneUsers(g) /\ g \intersect unmarked'[j] = {} /\ \A d \in g : Due(d)'
    BY <1>2, <1>5
  <2>1. c \notin g /\ g \subseteq Calls
    BY DEF RunFits
  <2> QED
    BY <1>3, <1>4, <2>1 DEF RunFits
<1>8. shown'[j] = {} /\ \A g, h \in groups'[j] : g # h => g \intersect h = {}
  BY <1>2 DEF RunFits
<1> QED
  BY <1>4, <1>6, <1>7, <1>8 DEF RunFits

(* The other steps of a run leave the items it marks alone, or end it.     *)
LEMMA AbortFits ==
    ASSUME DigestInv, NEW j \in Runs, Abort(j)
    PROVE  RunFits(j)'
<1>1. groups'[j] = {} /\ shown'[j] = {} /\ unmarked'[j] = {}
  BY DEF Abort, DigestInv, DigestTypeOK
<1> QED
  BY <1>1 DEF RunFits, OneUsers

LEMMA RunFitsStep ==
    ASSUME DigestInv, NEW j \in Runs, SelectDue(j) \/ JobStep(j) \/ JobThrow(j)
    PROVE  RunFits(j)'
<1> USE DEF DigestInv, DigestTypeOK
<1>1. CASE SelectDue(j)
  <2>1. /\ groups'[j] \subseteq GroupsOf(DueItems) /\ dpc'[j] \in {"idle", "next"}
        /\ shown' = shown /\ unmarked' = unmarked /\ unmarked[j] = {}
        /\ UNCHANGED vars
    BY <1>1 DEF SelectDue, RunFits, GroupsOf
  <2>2. /\ \A c : Due(c)' <=> Due(c)
        /\ \A items : OneUsers(items)' <=> OneUsers(items)
    BY <2>1 DEF vars, storeVars, Due, OneUsers, GroupKey, User
  <2>3. \A g \in groups'[j] : OneUsers(g)' /\ \A c \in g : Due(c)'
    BY <2>1, <2>2, GroupsFit
  <2>4. \A g, h \in groups'[j] : g # h => g \intersect h = {}
    BY <2>1, GroupsFit
  <2>5. OneUsers(unmarked'[j]) /\ shown'[j] = {}
    BY <2>1 DEF OneUsers, RunFits
  <2> QED
    BY <2>1, <2>3, <2>4, <2>5 DEF RunFits
<1>2. CASE OpenGroup(j)
  BY <1>2, OpenFits
<1>3. CASE Abort(j)
  BY <1>3, AbortFits
<1>4. CASE MarkSent(j)
  BY <1>4, MarkFits
<1>5. CASE (RenderChild(j) \/ Compose(j) \/ DispatchDigest(j)) /\ ~Abort(j)
  <2>1. /\ groups' = groups /\ unmarked' = unmarked
        /\ \/ shown' = shown /\ dpc'[j] \in {"render", "dispatch"}
           \/ shown' = [shown EXCEPT ![j] = {}] /\ dpc'[j] = "mark"
    BY <1>5 DEF RenderChild, Compose, DispatchDigest
  <2>2. UNCHANGED <<notifications, digestQueue>>
    BY <1>5 DEF RenderChild, Compose, DispatchDigest, vars, storeVars
  <2>3. /\ \A c : Due(c)' <=> Due(c)
        /\ \A items : OneUsers(items)' <=> OneUsers(items)
    BY <2>2 DEF Due, OneUsers, GroupKey, User
  <2>4. shown'[j] \in {shown[j], {}} /\ (dpc'[j] = "mark" => shown'[j] = {})
        /\ dpc'[j] \notin {"idle", "next"}
    BY <2>1
  <2> QED
    BY <2>1, <2>3, <2>4 DEF RunFits
<1> QED
  BY <1>1, <1>2, <1>3, <1>4, <1>5 DEF JobStep, JobThrow

(* With one run at a time, a message is counted for items that are queued  *)
(* and were not sent before, and those the run is about to mark.           *)
LEMMA OnceJob ==
    ASSUME OneRun, DigestInv, NEW j \in Runs, SelectDue(j) \/ JobStep(j) \/ JobThrow(j),
           NEW c \in Calls
    PROVE  OnceFits(c)'
<1> USE DEF DigestInv, DigestTypeOK
<1>1. /\ Marking(c) <=> dpc[j] = "mark" /\ c \in unmarked[j]
      /\ Marking(c)' <=> dpc'[j] = "mark" /\ c \in unmarked'[j]
  BY DEF Marking, OneRun
<1>2. /\ ~DispatchDigest(j) => sends' = sends
      /\ ~MarkSent(j) => digestQueue' = digestQueue
      /\ ~JobThrow(j) => faults' = faults
  BY JobSide
<1>3. OnceFits(c)
  OBVIOUS
<1>4. CASE JobThrow(j)
  <2>1. faults' > 0
    BY <1>4, PipelineAssumption DEF JobThrow, TypeOK
  <2> QED
    BY <2>1 DEF OnceFits
<1>5. CASE (SelectDue(j) \/ OpenGroup(j) \/ RenderChild(j) \/ Compose(j)) /\ ~JobThrow(j)
  <2>1. dpc[j] # "mark"
    BY <1>5 DEF SelectDue, OpenGroup, RenderChild, Compose
  <2>2. UNCHANGED <<sends, digestQueue, faults>>
    BY <1>5 DEF SelectDue, OpenGroup, RenderChild, Compose, vars, storeVars, pipelineVars
  <2> QED
    BY <1>1, <1>3, <2>1, <2>2 DEF OnceFits
<1>6. CASE DispatchDigest(j)
  <2>1. dpc[j] = "dispatch" /\ dpc'[j] = "mark" /\ unmarked' = unmarked /\ faults' = faults
        /\ digestQueue' = digestQueue
    BY <1>6 DEF DispatchDigest, storeVars
  <2>2. PICK took \in BOOLEAN : CountDigest(j, took)
    BY <1>6, CountsDigest
  <2>3. CASE c \in shown[j]
    <3>1. c \in unmarked[j] /\ digestQueue[c].state = "queued"
      BY <2>3 DEF RunFits, Due
    <3>2. sends[c] > 0 => faults > 0
      BY <1>1, <1>3, <2>1, <3>1 DEF OnceFits
    <3>3. sends'[c] > 1 => sends[c] > 0
      BY <2>2, <2>3, CountDigestKeeps DEF TypeOK
    <3> QED
      BY <1>1, <2>1, <3>1, <3>2, <3>3 DEF OnceFits
  <2>4. CASE c \notin shown[j]
    <3>1. sends'[c] = sends[c]
      BY <2>2, <2>4, CountDigestKeeps DEF TypeOK
    <3> QED
      BY <1>1, <1>3, <2>1, <3>1 DEF OnceFits
  <2> QED
    BY <2>3, <2>4
<1>7. CASE MarkSent(j)
  <2>1. PICK d \in unmarked[j] :
          /\ digestQueue'[d].state = IF digestQueue[d].state = "queued" THEN "sent"
                                     ELSE digestQueue[d].state
          /\ \A e \in Calls \ {d} : digestQueue'[e] = digestQueue[e]
          /\ unmarked' = [unmarked EXCEPT ![j] = unmarked[j] \ {d}]
          /\ dpc' = [dpc EXCEPT ![j] = IF unmarked[j] # {d} THEN "mark"
                                ELSE IF groups[j] = {} THEN "idle" ELSE "next"]
    BY <1>7, QueueMarked DEF TypeOK, StoreTypeOK
  <2>2. sends' = sends /\ faults' = faults /\ dpc[j] = "mark"
    BY <1>7 DEF MarkSent, pipelineVars
  <2>3. CASE c = d
    <3>1. digestQueue'[c].state # "queued"
      BY <2>1, <2>3
    <3> QED
      BY <1>3, <2>2, <3>1 DEF OnceFits
  <2>4. CASE c # d
    <3>1. digestQueue'[c] = digestQueue[c]
      BY <2>1, <2>4
    <3>2. Marking(c) => Marking(c)'
      BY <1>1, <2>1, <2>4
    <3> QED
      BY <1>3, <2>2, <3>1, <3>2 DEF OnceFits
  <2> QED
    BY <2>3, <2>4
<1> QED
  BY <1>4, <1>5, <1>6, <1>7 DEF JobStep

LEMMA InvNext ==
    ASSUME OneRun
    PROVE  DigestInv /\ [DigestNext]_digestVars => DigestInv'
<1> SUFFICES ASSUME DigestInv, [DigestNext]_digestVars PROVE DigestInv'
  OBVIOUS
<1>0. DigestTypeOK'
  BY DigestTypeNext DEF DigestInv
<1>1. CASE CallNext /\ UNCHANGED jobVars
  BY <1>1, DigestCall
<1>2. CASE Edit /\ UNCHANGED <<pipelineVars, jobVars>>
  BY <1>0, <1>2, DigestStore DEF StoreNext, jobVars
<1>3. CASE TimerTick
  BY <1>0, <1>3, DigestStore DEF StoreNext, TimerTick
<1>4. CASE ServerCrash
  BY <1>0, <1>4, DigestCrash
<1>5. ASSUME NEW j \in Runs, SelectDue(j) \/ JobStep(j) \/ JobThrow(j) PROVE DigestInv'
  <2>1. \A c \in Calls : CallFits(c)' /\ QueueFits(c)' /\ OnceFits(c)'
    BY <1>5, JobKeepsCalls, OnceJob
  <2>2. \A i \in Runs : RunFits(i)'
    BY <1>5, RunFitsStep DEF OneRun
  <2> QED
    BY <1>0, <2>1, <2>2 DEF DigestInv
<1>6. CASE UNCHANGED digestVars
  <2>1. \A c \in Calls : CallFits(c)' /\ QueueFits(c)' /\ OnceFits(c)'
    BY <1>6 DEF digestVars, jobVars, vars, storeVars, pipelineVars, DigestInv, CallFits, Unwritten,
         PlanIsFirst, RowPending, NotSentYet, OutcomeTrue, InApp, QueueFits, OnceFits, Marking
  <2>2. \A j \in Runs : RunFits(j)'
    BY <1>6, RunKept DEF digestVars, jobVars, vars, storeVars, DigestInv, Due
  <2> QED
    BY <1>0, <2>1, <2>2 DEF DigestInv
<1> QED
  BY <1>1, <1>2, <1>3, <1>4, <1>5, <1>6 DEF DigestNext

(* An item goes out in one digest, and in a second one only when an UPDATE *)
(* of markQueueSent failed or the server died before it, as long as no run *)
(* of the job overtakes the one before.                                    *)
THEOREM ItemsGoOutOnce ==
    ASSUME OneRun
    PROVE  FairDigestSpec => []InOneDigestUnlessFailed
<1>1. DigestInv => InOneDigestUnlessFailed
  BY DEF DigestInv, OnceFits, InOneDigestUnlessFailed
<1>2. DigestInv /\ [DigestNext]_digestVars => DigestInv'
  BY InvNext
<1> QED
  BY InvInit, <1>1, <1>2, PTL DEF FairDigestSpec

(* A digest is one user's: everything its message counts belongs to one    *)
(* tenant, user and channel, is past its scheduled_for and still queued,   *)
(* as long as no run of the job overtakes the one before.                  *)
THEOREM DigestsAreOnesOwn ==
    ASSUME OneRun
    PROVE  FairDigestSpec => DigestIsOnesOwn
<1>1. ASSUME DigestInv, NEW j \in Runs, NEW c \in unmarked[j], NEW d \in unmarked[j]
      PROVE  /\ User(c) = User(d) /\ Request[c].channel = Request[d].channel
             /\ notifications[c].status = "queued_digest"
             /\ digestQueue[c] = [state |-> "queued", due |-> 0]
  <2>1. GroupKey(c) = GroupKey(d) /\ Due(c) /\ c \in Calls
    BY <1>1 DEF DigestInv, RunFits, OneUsers, DigestTypeOK
  <2>2. digestQueue[c] \in QueueType
    BY <1>1, <2>1 DEF DigestInv, DigestTypeOK, TypeOK, StoreTypeOK
  <2> QED
    BY <2>1, <2>2 DEF GroupKey, Due, QueueType
<1>2. DigestInv /\ [DigestNext]_digestVars =>
        [\A j \in Runs : dpc[j] = "dispatch" /\ dpc'[j] = "mark" =>
          \A c, d \in unmarked[j] :
             /\ User(c) = User(d) /\ Request[c].channel = Request[d].channel
             /\ notifications[c].status = "queued_digest"
             /\ digestQueue[c] = [state |-> "queued", due |-> 0]]_digestVars
  BY <1>1
<1>3. DigestInv /\ [DigestNext]_digestVars => DigestInv'
  BY InvNext
<1> QED
  BY InvInit, <1>2, <1>3, PTL DEF FairDigestSpec, DigestIsOnesOwn

=============================================================================
