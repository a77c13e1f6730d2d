--------------------------- MODULE Realtime_proofs ---------------------------
(***************************************************************************)
(* What Realtime keeps for any number of sockets, users and notifications, *)
(* any number of crashes and lost acknowledgements: registered sockets     *)
(* stay registered, acknowledgements stay written, and a client that has   *)
(* listed its unread notifications misses none.                            *)
(***************************************************************************)
EXTENDS Realtime, Pipeline_proofs

-----------------------------------------------------------------------------
(* What a step does to the pipeline: a call's step, an acknowledgement,    *)
(* the process's end, or nothing but count a fault.                        *)
CaughtError ==
    /\ UNCHANGED <<storeVars, callVars, sends>>
    /\ faults' = faults \/ (faults < MaxFaults /\ faults' = faults + 1)

CallAndPush ==
    CallNext /\ SendInApp /\ UNCHANGED <<serverVars, current, raced, traceVars>>

LEMMA PipelineSide ==
    ASSUME RealtimeTypeOK, [RealtimeNext]_realtimeVars
    PROVE  CallAndPush \/ (\E c \in Calls : Acknowledge(c)) \/ Die \/ CaughtError
<1>1. ASSUME UNCHANGED vars PROVE CaughtError
  BY <1>1 DEF vars, pipelineVars, callVars, CaughtError
<1>2. ASSUME NEW s \in Sockets,
             \/ Connect(s) \/ ClientCloses(s) \/ Reject(s) \/ Register(s)
             \/ FetchUnread(s) \/ \E c \in Calls : SendAck(s, c)
      PROVE  UNCHANGED vars
  BY <1>2 DEF Connect, ClientCloses, Reject, Register, FetchUnread, SendAck
<1>3. ASSUME NEW s \in Sockets, ProcessQueued(s)
      PROVE  UNCHANGED vars \/ \E c \in Calls : Acknowledge(c)
  BY <1>3 DEF ProcessQueued, RealtimeTypeOK
<1>4. ASSUME NEW c \in Calls, AckThrow(c) PROVE CaughtError
  BY <1>4 DEF AckThrow, CaughtError
<1>5. ASSUME NEW s \in Sockets, ServerStep(s)
      PROVE  UNCHANGED vars \/ \E c \in Calls : Acknowledge(c)
  BY <1>2, <1>3, <1>5 DEF ServerStep
<1>6. ASSUME NEW c \in Calls, ApplyAck(c) PROVE Acknowledge(c)
  BY <1>6 DEF ApplyAck
<1>7. ASSUME UNCHANGED realtimeVars PROVE UNCHANGED vars
  BY <1>7 DEF realtimeVars
<1>8. (\E s \in Sockets : ValidateThrow(s)) \/ ServerCrash => Die
  BY DEF ValidateThrow, ServerCrash
<1> QED
  BY <1>1, <1>2, <1>4, <1>5, <1>6, <1>7, <1>8 DEF RealtimeNext, CallAndPush

-----------------------------------------------------------------------------
(* Type correctness.                                                       *)
LEMMA TypeAcknowledge ==
    ASSUME TypeOK, NEW c \in Calls, Acknowledge(c)
    PROVE  TypeOK'
<1>1. HasRow(c) \in BOOLEAN
  BY DEF HasRow
<1>2. notifications' \in [Calls -> NotificationType]
  BY <1>1 DEF Acknowledge, TypeOK, StoreTypeOK, NotificationType
<1> QED
  BY <1>2 DEF Acknowledge, pipelineVars, TypeOK, StoreTypeOK, CallTypeOK

LEMMA TypeDie == TypeOK /\ Die => TypeOK'
<1> SUFFICES ASSUME TypeOK, Die PROVE TypeOK'
  OBVIOUS
<1>1. CallTypeOK'
  BY EmptyValues DEF Die, KillCalls, TypeOK, CallTypeOK, Ends
<1>2. faults' \in 0 .. MaxFaults
  BY PipelineAssumption DEF Die, TypeOK
<1> QED
  BY <1>1, <1>2 DEF Die, TypeOK, StoreTypeOK, storeVars

LEMMA TypePipeline ==
    ASSUME RealtimeTypeOK, [RealtimeNext]_realtimeVars
    PROVE  TypeOK'
<1>1. TypeOK
  BY DEF RealtimeTypeOK
<1>2. CASE CallNext
  BY <1>1, <1>2, TypeStep DEF CallNext
<1>3. CASE CaughtError
  <2>1. faults' \in 0 .. MaxFaults
    BY <1>1, <1>3, PipelineAssumption DEF CaughtError, TypeOK
  <2> QED
    BY <1>1, <1>3, <2>1 DEF CaughtError, TypeOK, StoreTypeOK, CallTypeOK, storeVars, callVars
<1> QED
  BY <1>1, <1>2, <1>3, PipelineSide, TypeAcknowledge, TypeDie DEF CallAndPush

SocketTypeOK ==
    /\ sock \in [Sockets -> {"new", "open", "closed"}]
    /\ spc \in [Sockets -> {"none", "validating", "queued", "ready", "rejected"}]
    /\ connections \subseteq Sockets
    /\ messageQueue \in [Sockets -> SUBSET Calls]
    /\ acks \subseteq Calls
    /\ known \in [Sockets -> SUBSET Calls]
    /\ current \subseteq Sockets
    /\ early \subseteq Sockets
    /\ raced \in [Sockets -> SUBSET Calls]
    /\ lostAcks \subseteq Calls

LEMMA TypeSockets ==
    ASSUME SocketTypeOK, [RealtimeNext]_realtimeVars
    PROVE  SocketTypeOK'
<1> USE DEF SocketTypeOK
<1>1. CASE CallAndPush
  <2>1. known' \in [Sockets -> SUBSET Calls]
    BY <1>1 DEF CallAndPush, SendInApp
  <2> QED
    BY <1>1, <2>1 DEF CallAndPush, serverVars, traceVars
<1>2. ASSUME NEW s \in Sockets, Connect(s) PROVE SocketTypeOK'
  BY <1>2 DEF Connect, SGoto, clientVars, traceVars
<1>3. ASSUME NEW s \in Sockets, CloseSocket(s)
      PROVE  /\ sock' \in [Sockets -> {"new", "open", "closed"}]
             /\ connections' \subseteq Sockets
             /\ known' \in [Sockets -> SUBSET Calls]
             /\ current' \subseteq Sockets
             /\ raced' \in [Sockets -> SUBSET Calls]
  BY <1>3 DEF CloseSocket, Unregister
<1>4. ASSUME NEW s \in Sockets, ClientCloses(s) PROVE SocketTypeOK'
  BY <1>3, <1>4 DEF ClientCloses
<1>5. ASSUME NEW s \in Sockets, Reject(s) PROVE SocketTypeOK'
  BY <1>3, <1>5 DEF Reject, SGoto, traceVars
<1>6. ASSUME NEW s \in Sockets, Register(s) PROVE SocketTypeOK'
  BY <1>6 DEF Register, SGoto, clientVars, traceVars
<1>7. ASSUME NEW s \in Sockets, ProcessQueued(s) PROVE SocketTypeOK'
  BY <1>7 DEF ProcessQueued, SGoto, clientVars, traceVars
<1>8. ASSUME NEW s \in Sockets, FetchUnread(s) PROVE SocketTypeOK'
  BY <1>8 DEF FetchUnread, Unread, serverVars, traceVars
<1>9. ASSUME NEW s \in Sockets, NEW c \in Calls, SendAck(s, c) PROVE SocketTypeOK'
  BY <1>9 DEF SendAck, clientVars, traceVars
<1>10. ASSUME NEW c \in Calls, ApplyAck(c) PROVE SocketTypeOK'
  BY <1>10 DEF ApplyAck, clientVars, traceVars
<1>11. ASSUME NEW c \in Calls, AckThrow(c) PROVE SocketTypeOK'
  BY <1>11 DEF AckThrow, clientVars
<1>12. ASSUME Die PROVE SocketTypeOK'
  BY <1>12 DEF Die
<1>13. CASE UNCHANGED realtimeVars
  BY <1>13 DEF realtimeVars, serverVars, clientVars, traceVars
<1> QED
  BY <1>1, <1>2, <1>4, <1>5, <1>6, <1>7, <1>8, <1>9, <1>10, <1>11, <1>12, <1>13
     DEF CallAndPush, RealtimeNext, ServerStep, ValidateThrow, ServerCrash

LEMMA RealtimeTypes == RealtimeTypeOK <=> TypeOK /\ SocketTypeOK
BY DEF RealtimeTypeOK, SocketTypeOK

LEMMA RealtimeTypeNext ==
    RealtimeTypeOK /\ [RealtimeNext]_realtimeVars => RealtimeTypeOK'
<1> SUFFICES ASSUME RealtimeTypeOK, [RealtimeNext]_realtimeVars PROVE RealtimeTypeOK'
  OBVIOUS
<1>1. TypeOK' /\ SocketTypeOK'
  BY TypePipeline, TypeSockets, RealtimeTypes
<1> QED
  BY <1>1 DEF RealtimeTypeOK, SocketTypeOK

LEMMA RealtimeTypeInit == RealtimeInit => RealtimeTypeOK
BY TypeInit DEF RealtimeInit, RealtimeTypeOK

(* Every variable of the in-app channel keeps its type.                    *)
THEOREM RealtimeKeepsTypes == RealtimeSpec => []RealtimeTypeOK
BY RealtimeTypeInit, RealtimeTypeNext, PTL DEF RealtimeSpec

-----------------------------------------------------------------------------
(* The rows beside the in-app channel.  An acknowledgement leaves a row's  *)
(* status alone, and a row that is not there as it is, so what a call's    *)
(* place says of its row (CallFits) goes on holding; and only an email's   *)
(* attachments are fetched.                                                *)
AckedHasRow(c) == notifications[c].delivered => HasRow(c)

AttachIsEmail(c) == pc[c] = "attach" => Request[c].channel = "email"

AckInv ==
    /\ RealtimeTypeOK
    /\ \A c \in Calls : CallFits(c) /\ AckedHasRow(c) /\ AttachIsEmail(c)

LEMMA AckInit == RealtimeInit => AckInv
<1> SUFFICES ASSUME RealtimeInit PROVE AckInv
  OBVIOUS
<1>1. Init
  BY DEF RealtimeInit
<1>2. \A c \in Calls : CallFits(c)
  BY <1>1, RowInit DEF RowInv
<1>3. \A c \in Calls : pc[c] = "idle" /\ notifications[c] = NoRow
  BY <1>1 DEF Init, StoreInit
<1> QED
  BY <1>2, <1>3, EmptyRow, RealtimeTypeInit DEF AckInv, AckedHasRow, AttachIsEmail

(* What an acknowledgement writes.                                         *)
LEMMA AckWrites ==
    ASSUME TypeOK, NEW c \in Calls, Acknowledge(c), NEW d \in Calls, AckedHasRow(d)
    PROVE  /\ UNCHANGED <<pc, outcome, sends>>
           /\ notifications'[d].status = notifications[d].status
           /\ notifications[d].delivered => notifications'[d].delivered
           /\ AckedHasRow(d)'
           /\ notifications[d] = NoRow => notifications'[d] = NoRow
<1>1. UNCHANGED <<pc, outcome, sends>>
  BY DEF Acknowledge, pipelineVars
<1>2. notifications[c] \in NotificationType /\ HasRow(c) \in BOOLEAN
  BY DEF TypeOK, StoreTypeOK, HasRow
<1>3. notifications' = [notifications EXCEPT ![c] =
                            [notifications[c] EXCEPT !.delivered = HasRow(c)]]
  BY DEF Acknowledge
<1>4. CASE d # c
  <2>1. notifications'[d] = notifications[d]
    BY <1>3, <1>4 DEF TypeOK, StoreTypeOK
  <2> QED
    BY <1>1, <2>1 DEF AckedHasRow, HasRow
<1>5. CASE d = c
  <2>1. notifications'[d] = [notifications[c] EXCEPT !.delivered = HasRow(c)]
    BY <1>3, <1>5 DEF TypeOK, StoreTypeOK
  <2>2. /\ notifications'[d].status = notifications[c].status
        /\ notifications'[d].delivered = HasRow(c)
    BY <1>2, <2>1 DEF NotificationType
  <2>3. ASSUME notifications[d] = NoRow PROVE notifications'[d] = NoRow
    <3>1. HasRow(c) = FALSE
      BY <1>5, <2>3, EmptyRow DEF HasRow
    <3>2. [NoRow EXCEPT !.delivered = FALSE] = NoRow
      <4>1. NoRow \in NotificationType /\ NoRow.delivered = FALSE
        BY EmptyValues DEF NoRow
      <4>2. ASSUME NEW n \in NotificationType, n.delivered = FALSE
            PROVE  [n EXCEPT !.delivered = FALSE] = n
        BY <4>2 DEF NotificationType
      <4> QED
        BY <4>1, <4>2
    <3>3. notifications'[d] = [NoRow EXCEPT !.delivered = FALSE]
      BY <1>5, <2>1, <2>3, <3>1
    <3> QED
      BY <3>2, <3>3
  <2> QED
    BY <1>1, <1>5, <2>2, <2>3 DEF AckedHasRow, HasRow
<1> QED
  BY <1>4, <1>5

(* What a step of a call does to a row's acknowledgement: an INSERT is of  *)
(* a row that is not there, and the UPDATE of the outcome keeps it.        *)
LEMMA CallKeepsAck ==
    ASSUME TypeOK, NEW c \in Calls, CallFits(c), Start(c) \/ Step(c) \/ Throw(c),
           NEW d \in Calls, AckedHasRow(d)
    PROVE  /\ notifications[d].delivered => notifications'[d].delivered
           /\ AckedHasRow(d)'
<1>0. notifications \in [Calls -> NotificationType]
  BY DEF TypeOK, StoreTypeOK
<1>1. CASE d # c
  <2>1. notifications'[d] = notifications[d]
    BY <1>1, StepFrame
  <2> QED
    BY <2>1 DEF AckedHasRow, HasRow
<1>2. CASE d = c /\ InsertRow(c)
  <2>1. ~HasRow(c)
    BY <1>2, NoRowYet DEF InsertRow, BeforeInsert
  <2>2. CASE notifications' = notifications
    BY <2>2 DEF AckedHasRow, HasRow
  <2>3. CASE InsertNotification(c, outcome[c].status, outcome[c].reason)
    <3>1. notifications'[c].delivered = FALSE
      BY <1>0, <2>3 DEF InsertNotification
    <3> QED
      BY <1>2, <2>1, <3>1 DEF AckedHasRow
  <2> QED
    BY <1>2, <2>2, <2>3 DEF InsertRow
<1>3. CASE d = c /\ RecordOutcome(c)
  <2>1. notifications[c].status = "pending" /\ outcome[c].status \in Lifecycle!Final
    BY <1>3 DEF RecordOutcome, CallFits, RowPending, OutcomeTrue
  <2>2. PICK sent \in BOOLEAN : UpdateNotification(c, outcome[c].status, sent)
    BY <1>3 DEF RecordOutcome
  <2>3. notifications'[c] = [notifications[c] EXCEPT
                                !.status = outcome[c].status, !.delivered = @ \/ sent]
    BY <1>0, <2>1, <2>2 DEF UpdateNotification, Updated
  <2>4. /\ notifications'[c].status = outcome[c].status
        /\ notifications'[c].delivered = (notifications[c].delivered \/ sent)
    BY <1>0, <2>3 DEF NotificationType
  <2> QED
    BY <1>3, <2>1, <2>4 DEF AckedHasRow, HasRow, Lifecycle!Final
<1>4. CASE ~InsertRow(c) /\ ~RecordOutcome(c)
  BY <1>4, OwnRow DEF AckedHasRow, HasRow
<1> QED
  BY <1>1, <1>2, <1>3, <1>4

LEMMA AttachStep ==
    ASSUME TypeOK, NEW c \in Calls, Start(c) \/ Step(c) \/ Throw(c),
           NEW d \in Calls, AttachIsEmail(d)
    PROVE  AttachIsEmail(d)'
<1> USE DEF TypeOK, CallTypeOK, Goto
<1>1. CASE d # c
  BY <1>1, StepFrame DEF AttachIsEmail
<1>2. CASE d = c /\ InsertRow(c)
  BY <1>2 DEF InsertRow, Proceed, Leave, AttachIsEmail
<1>3. CASE d = c /\ ~InsertRow(c)
  <2>1. pc'[c] # "attach"
    BY <1>3 DEF Step, Start, Throw, ResolveDeliveryAddress, CheckDuplicate, CheckSuppression,
       LookupTemplate, EnqueueDigest, FetchAttachments, Dispatch, RecordOutcome,
       PlanInsert, Proceed, Leave
  <2> QED
    BY <1>3, <2>1 DEF AttachIsEmail
<1> QED
  BY <1>1, <1>2, <1>3

(* No step, of whomever, takes an acknowledgement back.                    *)
LEMMA AckNext ==
    ASSUME AckInv, [RealtimeNext]_realtimeVars
    PROVE  /\ AckInv'
           /\ \A c \in Calls : notifications[c].delivered => notifications'[c].delivered
<1>0. RealtimeTypeOK' /\ TypeOK
  BY RealtimeTypeNext DEF AckInv, RealtimeTypeOK
<1> SUFFICES ASSUME NEW d \in Calls
             PROVE  /\ CallFits(d)' /\ AckedHasRow(d)' /\ AttachIsEmail(d)'
                    /\ notifications[d].delivered => notifications'[d].delivered
  BY <1>0 DEF AckInv
<1>1. CallFits(d) /\ AckedHasRow(d) /\ AttachIsEmail(d)
  BY DEF AckInv
<1>2. CASE CallNext
  <2>1. PICK c \in Calls : Start(c) \/ Step(c) \/ Throw(c)
    BY <1>2 DEF CallNext
  <2>2. CallFits(c)
    BY DEF AckInv
  <2> QED
    BY <1>0, <1>1, <2>1, <2>2, FitsStep, FitsFrame, CallKeepsAck, AttachStep
<1>3. CASE \E c \in Calls : Acknowledge(c)
  <2>1. PICK c \in Calls : Acknowledge(c)
    BY <1>3
  <2>2. /\ UNCHANGED <<pc, outcome, sends>>
        /\ notifications'[d].status = notifications[d].status
        /\ notifications[d].delivered => notifications'[d].delivered
        /\ AckedHasRow(d)'
        /\ notifications[d] = NoRow => notifications'[d] = NoRow
    BY <1>0, <1>1, <2>1, AckWrites
  <2> QED
    BY <1>1, <2>2 DEF CallFits, Unwritten, PlanIsFirst, RowPending, NotSentYet, OutcomeTrue,
                      AttachIsEmail
<1>4. CASE Die
  <2>1. notifications' = notifications /\ sends' = sends /\ KillCalls
    BY <1>4 DEF Die, storeVars
  <2>2. CallFits(d)'
    BY <1>0, <1>1, <2>1, FitsCrash
  <2> QED
    BY <1>1, <2>1, <2>2 DEF KillCalls, AckedHasRow, HasRow, AttachIsEmail
<1>5. CASE CaughtError
  BY <1>1, <1>5 DEF CaughtError, CallFits, Unwritten, PlanIsFirst, RowPending, NotSentYet,
                    OutcomeTrue, AckedHasRow, HasRow, AttachIsEmail, storeVars, callVars
<1> QED
  BY <1>2, <1>3, <1>4, <1>5, PipelineSide DEF AckInv, CallAndPush

(* An acknowledgement that is written stays written: the UPDATE of the     *)
(* pipeline, which may come after the acknowledgement of what it has       *)
(* pushed, does not undo it, and no INSERT is of a row that is there.      *)
THEOREM AcknowledgementsStay == RealtimeSpec => AckSurvives
<1>1. AckInv /\ [RealtimeNext]_realtimeVars => AckInv'
  BY AckNext
<1>2. AckInv /\ [RealtimeNext]_realtimeVars =>
          [\A c \in Calls : notifications[c].delivered => notifications'[c].delivered]_realtimeVars
  BY AckNext
<1> QED
  BY AckInit, <1>1, <1>2, PTL DEF RealtimeSpec, AckSurvives

-----------------------------------------------------------------------------
(* The sockets.  A socket is new, or it is with the route; between the     *)
(* handshake and the end of the validation it may close, and is registered *)
(* all the same; a client that has listed its unread notifications after   *)
(* "connected" is on an open socket.                                       *)
SocketFits(s) ==
    /\ sock[s] = "new" => spc[s] = "none"
    /\ sock[s] = "closed" /\ spc[s] = "validating" => s \in early
    /\ sock[s] = "open" /\ spc[s] \in {"queued", "ready"} => s \in connections
    /\ s \in connections => sock[s] = "open" \/ s \in early
    /\ s \in current => sock[s] = "open" /\ spc[s] = "ready"

SocketInv == SocketTypeOK /\ \A s \in Sockets : SocketFits(s)

LEMMA SocketInit == RealtimeInit => SocketInv
BY DEF RealtimeInit, SocketInv, SocketTypeOK, SocketFits

LEMMA SocketsNext == SocketInv /\ [RealtimeNext]_realtimeVars => SocketInv'
<1> SUFFICES ASSUME SocketInv, [RealtimeNext]_realtimeVars PROVE SocketInv'
  OBVIOUS
<1>0. SocketTypeOK /\ SocketTypeOK'
  BY TypeSockets DEF SocketInv
<1> SUFFICES ASSUME NEW d \in Sockets PROVE SocketFits(d)'
  BY <1>0 DEF SocketInv
<1> USE DEF SocketTypeOK, SocketFits
<1>f. SocketFits(d)
  BY DEF SocketInv
<1>1. CASE UNCHANGED <<sock, spc, connections, current, early>>
  BY <1>1, <1>f
<1>2. ASSUME NEW s \in Sockets, Connect(s) PROVE SocketFits(d)'
  BY <1>0, <1>2, <1>f DEF Connect, SGoto, clientVars, traceVars
<1>3. ASSUME NEW s \in Sockets, ClientCloses(s) PROVE SocketFits(d)'
  BY <1>0, <1>3, <1>f DEF ClientCloses, CloseSocket, Unregister
<1>4. ASSUME NEW s \in Sockets, Reject(s) PROVE SocketFits(d)'
  BY <1>0, <1>4, <1>f DEF Reject, SGoto, CloseSocket, Unregister, traceVars
<1>5. ASSUME NEW s \in Sockets, Register(s) PROVE SocketFits(d)'
  BY <1>0, <1>5, <1>f DEF Register, SGoto, clientVars, traceVars
<1>6. ASSUME NEW s \in Sockets, ProcessQueued(s) PROVE SocketFits(d)'
  BY <1>0, <1>6, <1>f DEF ProcessQueued, SGoto, clientVars, traceVars
<1>7. ASSUME NEW s \in Sockets, FetchUnread(s) PROVE SocketFits(d)'
  BY <1>0, <1>7, <1>f DEF FetchUnread, serverVars, traceVars
<1>8. ASSUME Die PROVE SocketFits(d)'
  BY <1>0, <1>8, <1>f DEF Die
<1>9. CASE CallAndPush
  BY <1>1, <1>9 DEF CallAndPush, serverVars, traceVars
<1>10. CASE \E s \in Sockets, c \in Calls : SendAck(s, c)
  BY <1>1, <1>10 DEF SendAck, clientVars, traceVars
<1>11. CASE \E c \in Calls : ApplyAck(c) \/ AckThrow(c)
  BY <1>1, <1>11 DEF ApplyAck, AckThrow, clientVars, traceVars
<1>12. CASE UNCHANGED realtimeVars
  BY <1>1, <1>12 DEF realtimeVars, serverVars, clientVars, traceVars
<1> QED
  BY <1>2, <1>3, <1>4, <1>5, <1>6, <1>7, <1>8, <1>9, <1>10, <1>11, <1>12
     DEF CallAndPush, RealtimeNext, ServerStep, ValidateThrow, ServerCrash

(* A socket whose client may think it is connected is on the map until it  *)
(* closes, whichever of the user's other sockets come and go; a closed one *)
(* is on it only if it closed while its tenant was looked up.              *)
THEOREM SocketsStayConnected == RealtimeSpec => []ConnectedSocketsAreKept
<1>1. SocketInv => ConnectedSocketsAreKept
  BY DEF SocketInv, SocketFits, ConnectedSocketsAreKept
<1> QED
  BY SocketInit, SocketsNext, <1>1, PTL DEF RealtimeSpec

-----------------------------------------------------------------------------
(* No notification is missed.  What a client knows or has raced covers the *)
(* notifications of its user that are sent and not acknowledged, and also  *)
(* those that are pushed and about to become sent: the push of a           *)
(* notification and the end of its call are two steps, and the listing may *)
(* come between them.                                                      *)
Reaches(s, c) ==
    s \in current /\ MeantFor(c, s)
    /\ (pc[c] = "record" \/ (notifications[c].status = "sent" /\ ~notifications[c].delivered))
    => c \in known[s] \union raced[s]

ReachInv ==
    /\ AckInv
    /\ SocketInv
    /\ \A s \in Sockets, c \in Calls : Reaches(s, c)

(* A call comes to its final UPDATE by a push, unless its attachments      *)
(* failed.                                                                 *)
LEMMA RecordIsReached ==
    ASSUME TypeOK, NEW c \in Calls, Start(c) \/ Step(c) \/ Throw(c), pc'[c] = "record"
    PROVE  pc[c] \in {"attach", "dispatch"}
<1> USE DEF TypeOK, CallTypeOK, Goto
<1>1. ~Start(c) /\ ~Throw(c)
  BY DEF Start, Throw, Leave
<1>2. ~ResolveDeliveryAddress(c) /\ ~CheckDuplicate(c) /\ ~CheckSuppression(c)
      /\ ~LookupTemplate(c)
  BY DEF ResolveDeliveryAddress, CheckDuplicate, CheckSuppression, LookupTemplate,
         PlanInsert, Proceed, Leave
<1>3. ~InsertRow(c) /\ ~EnqueueDigest(c) /\ ~RecordOutcome(c)
  BY DEF InsertRow, EnqueueDigest, RecordOutcome, Proceed, Leave
<1> QED
  BY <1>1, <1>2, <1>3 DEF Step, FetchAttachments, Dispatch

LEMMA ReachCall ==
    ASSUME ReachInv, CallAndPush, NEW s \in Sockets, NEW c \in Calls
    PROVE  Reaches(s, c)'
<1> USE DEF CallAndPush
<1> SUFFICES ASSUME s \in current, MeantFor(c, s), c \notin known'[s] \union raced[s],
                    \/ pc'[c] = "record"
                    \/ notifications'[c].status = "sent" /\ ~notifications'[c].delivered
             PROVE  FALSE
  BY DEF Reaches, MeantFor, User
<1>0. TypeOK /\ CallFits(c) /\ AttachIsEmail(c) /\ AckedHasRow(c) /\ Reaches(s, c)
  BY DEF ReachInv, AckInv, RealtimeTypeOK
<1>1. known' = [d \in Sockets |-> known[d] \union
                   {e \in Calls : /\ Request[e].channel = "in_app"
                                  /\ pc[e] = "dispatch" /\ pc'[e] = "record"
                                  /\ d \in PushToUser(e)}]
  BY DEF SendInApp
<1>2. c \notin known[s]
  BY <1>1
<1>3. ~(pc[c] = "record")
      /\ ~(notifications[c].status = "sent" /\ ~notifications[c].delivered)
  BY <1>0, <1>2 DEF Reaches
<1>4. PICK e \in Calls : Start(e) \/ Step(e) \/ Throw(e)
  BY DEF CallNext
<1>5. e = c
  BY <1>0, <1>3, <1>4, StepFrame
<1>6. notifications[c].delivered => notifications'[c].delivered
  BY <1>0, <1>4, <1>5, CallKeepsAck
<1>7. notifications'[c].status # "sent" \/ notifications'[c].status = notifications[c].status
  BY <1>0, <1>3, <1>4, <1>5, StatusStep DEF Lifecycle!First
<1>8. pc'[c] = "record"
  BY <1>3, <1>6, <1>7
<1>9. pc[c] = "dispatch"
  BY <1>0, <1>4, <1>5, <1>8, RecordIsReached DEF AttachIsEmail, MeantFor
<1>10. s \in PushToUser(c)
  BY DEF ReachInv, SocketInv, SocketFits, PushToUser
<1> QED
  BY <1>1, <1>8, <1>9, <1>10 DEF MeantFor

(* The steps of the sockets: a client that lists has what is sent, and     *)
(* races with what is about to be.                                         *)
LEMMA ReachSocket ==
    ASSUME ReachInv, [RealtimeNext]_realtimeVars, ~CallAndPush,
           NEW s \in Sockets, NEW c \in Calls
    PROVE  Reaches(s, c)'
<1> USE DEF SocketTypeOK
<1>0. Reaches(s, c) /\ SocketTypeOK
  BY DEF ReachInv, SocketInv
<1>1. /\ pc'[c] = "record" => pc[c] = "record"
      /\ notifications'[c].status = notifications[c].status
      /\ notifications[c].delivered => notifications'[c].delivered
  <2>0. RealtimeTypeOK /\ TypeOK /\ AckedHasRow(c)
    BY DEF ReachInv, AckInv, RealtimeTypeOK
  <2>1. CASE \E d \in Calls : Acknowledge(d)
    BY <2>0, <2>1, AckWrites
  <2>2. CASE Die
    BY <2>2 DEF Die, KillCalls, storeVars
  <2>3. CASE CaughtError
    BY <2>3 DEF CaughtError, storeVars, callVars
  <2> QED
    BY <2>0, <2>1, <2>2, <2>3, PipelineSide
<1>2. CASE s \in current' => /\ s \in current
                             /\ known'[s] = known[s]
                             /\ raced'[s] = raced[s]
  BY <1>0, <1>1, <1>2 DEF Reaches, MeantFor, User
<1>3. ASSUME NEW d \in Sockets, CloseSocket(d) PROVE Reaches(s, c)'
  BY <1>0, <1>2, <1>3 DEF CloseSocket
<1>4. ASSUME NEW d \in Sockets, FetchUnread(d) PROVE Reaches(s, c)'
  <2>1. CASE d # s
    BY <1>0, <1>2, <1>4, <2>1 DEF FetchUnread
  <2>2. CASE d = s
    <3>1. /\ known'[s] = known[s] \union Unread(s)
          /\ raced'[s] = {e \in Calls : MeantFor(e, s) /\ pc[e] = "record"}
          /\ notifications' = notifications
      BY <1>0, <1>4, <2>2 DEF FetchUnread, vars, storeVars
    <3> QED
      BY <1>1, <3>1 DEF Reaches, Unread, MeantFor, User
  <2> QED
    BY <2>1, <2>2
<1>5. ASSUME UNCHANGED clientVars PROVE Reaches(s, c)'
  BY <1>2, <1>5 DEF clientVars
<1>6. ASSUME Die PROVE Reaches(s, c)'
  BY <1>2, <1>6 DEF Die
<1> QED
  BY <1>3, <1>4, <1>5, <1>6 DEF CallAndPush, RealtimeNext, ServerStep, ValidateThrow, ServerCrash,
     Connect, ClientCloses, Reject, Register, ProcessQueued, SendAck, ApplyAck, AckThrow, realtimeVars

(* A client that has listed the unread notifications after "connected" has *)
(* every notification of its user that is sent and not acknowledged, by    *)
(* the push or by the listing, except one that was pushed before its       *)
(* socket was registered and became "sent" after the listing.              *)
THEOREM EveryNotificationReaches == RealtimeSpec => []EveryInAppReaches
<1>1. RealtimeInit => ReachInv
  BY AckInit, SocketInit DEF ReachInv, Reaches, RealtimeInit
<1>2. ReachInv /\ [RealtimeNext]_realtimeVars => ReachInv'
  <2> SUFFICES ASSUME ReachInv, [RealtimeNext]_realtimeVars PROVE ReachInv'
    OBVIOUS
  <2>1. AckInv' /\ SocketInv'
    BY AckNext, SocketsNext DEF ReachInv
  <2>2. CASE CallAndPush
    BY <2>1, <2>2, ReachCall DEF ReachInv
  <2>3. CASE ~CallAndPush
    BY <2>1, <2>3, ReachSocket DEF ReachInv
  <2> QED
    BY <2>2, <2>3
<1>3. ReachInv => EveryInAppReaches
  BY DEF ReachInv, AckInv, SocketInv, SocketTypeOK, Reaches, EveryInAppReaches
<1> QED
  BY <1>1, <1>2, <1>3, PTL DEF RealtimeSpec

=============================================================================
