------------------------ MODULE PipelineGates_proofs ------------------------
(***************************************************************************)
(* No gate of processNotification is passed while shut: for any number of  *)
(* calls, users and API writes, and any clock.                             *)
(***************************************************************************)
EXTENDS PipelineGates, Pipeline_proofs

-----------------------------------------------------------------------------
(* What the history gains and loses in a step.                             *)
LEMMA WatchNow ==
    ASSUME Watch, NEW c \in Calls
    PROVE  shut'[c] \subseteq ShutNow(c)' /\ shut'[c] \subseteq Gates
<1>1. shut'[c] = IF ~Addressed(c)' THEN {}
                 ELSE IF Addressed(c) THEN shut[c] \intersect ShutNow(c)'
                 ELSE ShutNow(c)'
  BY DEF Watch
<1>2. shut'[c] \subseteq ShutNow(c)'
  BY <1>1
<1>3. ShutNow(c)' \subseteq Gates
  BY DEF ShutNow
<1> QED
  BY <1>2, <1>3

LEMMA WatchShrinks ==
    ASSUME Watch, NEW c \in Calls, Addressed(c)' => Addressed(c)
    PROVE  shut'[c] \subseteq shut[c]
BY DEF Watch

LEMMA TypeWatch == TypeOK' /\ Watch => GatesTypeOK'
<1> SUFFICES ASSUME TypeOK', Watch PROVE shut' \in [Calls -> SUBSET Gates]
  BY DEF GatesTypeOK
<1>1. \A c \in Calls : shut'[c] \in SUBSET Gates
  BY WatchNow
<1> QED
  BY <1>1 DEF Watch

-----------------------------------------------------------------------------
(* The gates a call can no longer meet, at each of its places: after it    *)
(* read the preferences, the opt-out has been open at that moment, and the *)
(* digest has been, or is still to be asked; past the suppression check    *)
(* every gate that stands before it has been open once.  Only suppression  *)
(* stands before a call that reads no preferences, nothing before in_app.  *)
PastTheGates(c) ==
    \/ pc[c] \in {"template", "attach", "dispatch"}
    \/ pc[c] = "insert" /\ outcome[c].status = "pending"

GateFits(c) ==
    /\ pc[c] = "resolve" => ReadsPreferences(c)
    /\ ~ReadsPreferences(c) => seen[c] = NoPreferences
    /\ Request[c].channel = "in_app" => "suppressed" \notin shut[c]
    /\ pc[c] \in {"dedup", "suppress"} /\ ReadsPreferences(c) =>
          /\ "opt_out" \notin shut[c]
          /\ "digest" \in shut[c] => Digest(c)
    /\ PastTheGates(c) => shut[c] \intersect StandBefore(c) = {}

GateInv == GatesTypeOK /\ \A c \in Calls : GateFits(c)

(* A call's locals are its own.                                            *)
LEMMA StepLocals ==
    ASSUME TypeOK, NEW c \in Calls, Start(c) \/ Step(c) \/ Throw(c),
           NEW d \in Calls, d # c
    PROVE  /\ pc'[d] = pc[d]
           /\ outcome'[d] = outcome[d]
           /\ addr'[d] = addr[d]
           /\ seen'[d] = seen[d]
<1> USE DEF TypeOK, CallTypeOK
<1>1. pc'[d] = pc[d] /\ outcome'[d] = outcome[d]
  BY StepFrame
<1>2. CASE Start(c) \/ Throw(c)
  BY <1>1, <1>2 DEF Start, Throw, Leave
<1>3. CASE ResolveDeliveryAddress(c) \/ CheckDuplicate(c)
  BY <1>1, <1>3 DEF ResolveDeliveryAddress, CheckDuplicate
<1>4. CASE CheckSuppression(c) \/ LookupTemplate(c)
  BY <1>1, <1>4 DEF CheckSuppression, LookupTemplate, Leave
<1>5. CASE InsertRow(c) \/ EnqueueDigest(c) \/ RecordOutcome(c)
  BY <1>1, <1>5 DEF InsertRow, EnqueueDigest, RecordOutcome, Leave
<1>6. CASE FetchAttachments(c) \/ Dispatch(c)
  BY <1>1, <1>6 DEF FetchAttachments, Dispatch
<1> QED
  BY <1>2, <1>3, <1>4, <1>5, <1>6 DEF Step

(* A call that stays where it is meets no other gates than before.         *)
LEMMA GateStays ==
    ASSUME Watch, NEW c \in Calls, GateFits(c),
           pc'[c] = pc[c], outcome'[c] = outcome[c], addr'[c] = addr[c], seen'[c] = seen[c]
    PROVE  GateFits(c)'
<1>1. shut'[c] \subseteq shut[c]
  BY WatchShrinks DEF Addressed, Active
<1> QED
  BY <1>1 DEF GateFits, PastTheGates, ReadsPreferences, StandBefore, Digest

(* A call that is over meets none.                                         *)
LEMMA GateEnds ==
    ASSUME Watch, NEW c \in Calls, pc'[c] \in Ends \union {"idle"}, seen'[c] = NoPreferences
    PROVE  GateFits(c)'
<1>1. ~Addressed(c)'
  BY DEF Addressed, Active, Steps, Ends
<1>2. shut'[c] = {}
  BY <1>1 DEF Watch
<1> QED
  BY <1>2 DEF GateFits, PastTheGates, Ends

LEMMA GateStart ==
    ASSUME TypeOK, Watch, NEW c \in Calls, GateFits(c), Start(c)
    PROVE  GateFits(c)'
<1>1. seen' = seen
  BY DEF Start
<1>2. CASE ReadsPreferences(c)
  <2>1. pc'[c] = "resolve"
    BY <1>2 DEF Start, Goto, TypeOK, CallTypeOK
  <2>2. shut'[c] = {}
    BY <2>1 DEF Watch, Addressed
  <2> QED
    BY <1>2, <2>1, <2>2 DEF GateFits, PastTheGates, ReadsPreferences
<1>3. CASE ~ReadsPreferences(c)
  <2>1. pc'[c] = "dedup"
    BY <1>3 DEF Start, Goto, TypeOK, CallTypeOK
  <2>2. seen'[c] = NoPreferences
    BY <1>1, <1>3 DEF GateFits
  <2>3. shut'[c] \subseteq ShutNow(c)' /\ shut'[c] \subseteq Gates
    BY WatchNow
  <2>4. Request[c].channel = "in_app" => "suppressed" \notin shut'[c]
    BY <2>3 DEF ShutNow
  <2> QED
    BY <1>3, <2>1, <2>2, <2>4 DEF GateFits, PastTheGates, ReadsPreferences
<1> QED
  BY <1>2, <1>3

(* The opt-out is checked on the row that is read, and the digest that is  *)
(* shut is the one that is read.                                           *)
LEMMA GateResolve ==
    ASSUME TypeOK, Watch, NEW c \in Calls, GateFits(c), ResolveDeliveryAddress(c)
    PROVE  GateFits(c)'
<1> DEFINE p == userPreferences[User(c)]
           out == p # NoPreferences /\ CheckOptOut(p.optOut, Request[c].channel, Request[c].type)
<1>1. ReadsPreferences(c) /\ Request[c].channel # "in_app"
  BY DEF ResolveDeliveryAddress, GateFits, ReadsPreferences
<1>2. seen'[c] = p /\ userPreferences' = userPreferences
  BY DEF ResolveDeliveryAddress, storeVars, TypeOK, CallTypeOK
<1>3. \/ pc'[c] = "insert" /\ outcome'[c].status = "skipped"
      \/ pc'[c] = "dedup" /\ ~out
  BY DEF ResolveDeliveryAddress, PlanInsert, Plan, Proceed, Goto, TypeOK, CallTypeOK
<1>4. CASE pc'[c] = "insert" /\ outcome'[c].status = "skipped"
  BY <1>1, <1>4 DEF GateFits, PastTheGates, ReadsPreferences
<1>5. CASE pc'[c] = "dedup" /\ ~out
  <2>1. shut'[c] \subseteq ShutNow(c)'
    BY WatchNow
  <2>2. ~OptedOutNow(c)'
    BY <1>2, <1>5 DEF OptedOutNow, Preferring, User
  <2>3. DigestNow(c)' => Digest(c)'
    BY <1>2 DEF DigestNow, Preferring, Digest, User
  <2>4. "opt_out" \notin shut'[c] /\ ("digest" \in shut'[c] => Digest(c)')
    BY <2>1, <2>2, <2>3 DEF ShutNow
  <2> QED
    BY <1>1, <1>5, <2>4 DEF GateFits, PastTheGates, ReadsPreferences
<1> QED
  BY <1>3, <1>4, <1>5

(* Where a call goes from the dedup check on, and that its gates open and  *)
(* never shut on the way.                                                  *)
LEMMA GateMoves ==
    ASSUME TypeOK, Watch, NEW c \in Calls, Step(c), ~ResolveDeliveryAddress(c),
           pc'[c] \notin Ends
    PROVE  /\ seen'[c] = seen[c]
           /\ addr'[c] = addr[c]
           /\ shut'[c] \subseteq shut[c]
<1> USE DEF TypeOK, CallTypeOK, Goto
<1>1. addr'[c] = addr[c] /\ seen'[c] = seen[c]
  <2>1. CASE CheckDuplicate(c) \/ FetchAttachments(c) \/ Dispatch(c)
    BY <2>1 DEF CheckDuplicate, FetchAttachments, Dispatch
  <2>2. CASE CheckSuppression(c) \/ LookupTemplate(c)
    BY <2>2 DEF CheckSuppression, LookupTemplate, Leave, Ends
  <2>3. CASE InsertRow(c) \/ EnqueueDigest(c) \/ RecordOutcome(c)
    BY <2>3 DEF InsertRow, EnqueueDigest, RecordOutcome, Leave, Ends
  <2> QED
    BY <2>1, <2>2, <2>3 DEF Step
<1>2. Active(c) /\ pc[c] # "resolve"
  BY StepActive DEF Step, CheckDuplicate, CheckSuppression, LookupTemplate, InsertRow,
                    EnqueueDigest, FetchAttachments, Dispatch, RecordOutcome
<1>3. Addressed(c)' => Addressed(c)
  BY <1>1, <1>2 DEF Addressed
<1> QED
  BY <1>1, <1>3, WatchShrinks

LEMMA GateDuplicate ==
    ASSUME TypeOK, Watch, NEW c \in Calls, GateFits(c), CheckDuplicate(c)
    PROVE  GateFits(c)'
<1>1. \/ pc'[c] = "insert" /\ outcome'[c].status = "skipped"
      \/ pc'[c] = "suppress"
      \/ pc'[c] = "template" /\ Request[c].channel = "in_app"
  BY DEF CheckDuplicate, PlanInsert, Plan, Proceed, Goto, TypeOK, CallTypeOK
<1>2. seen'[c] = seen[c] /\ shut'[c] \subseteq shut[c]
  BY <1>1, GateMoves DEF Step, CheckDuplicate, ResolveDeliveryAddress, Ends
<1>3. pc[c] = "dedup"
  BY DEF CheckDuplicate
<1> QED
  BY <1>1, <1>2, <1>3 DEF GateFits, PastTheGates, ReadsPreferences, StandBefore, Digest

(* Past this check every gate has been open: the suppression and the quiet *)
(* hours at this moment, the digest when the preferences were read.        *)
LEMMA GateSuppression ==
    ASSUME TypeOK, Watch, NEW c \in Calls, GateFits(c), CheckSuppression(c)
    PROVE  GateFits(c)'
<1> USE DEF TypeOK, CallTypeOK
<1>0. pc[c] = "suppress"
  BY DEF CheckSuppression
<1>1. \/ pc'[c] = "insert" /\ outcome'[c].status \in {"skipped", "queued_digest", "held"}
      \/ pc'[c] = "template" /\ ~IsSuppressed(Request[c].tenant, addr[c])
                             /\ ~Digest(c) /\ ~Quiet(c)
      \/ Leave(c, "threw")
  <2>1. \A s \in Statuses, r \in Reasons :
            PlanInsert(c, s, r) => pc'[c] = "insert" /\ outcome'[c].status = s
    BY DEF PlanInsert, Plan, Goto
  <2>2. Proceed(c, "template") => pc'[c] = "template"
    BY DEF Proceed, Goto
  <2> QED
    BY <2>1, <2>2 DEF CheckSuppression, Statuses, Reasons
<1>2. CASE Leave(c, "threw")
  <2>1. pc'[c] = "threw" /\ seen'[c] = NoPreferences
    BY <1>2 DEF Leave, Goto
  <2> QED
    BY <2>1, GateEnds DEF Ends
<1>3. CASE pc'[c] = "insert" /\ outcome'[c].status \in {"skipped", "queued_digest", "held"}
  <2>1. seen'[c] = seen[c] /\ shut'[c] \subseteq shut[c]
    BY <1>0, <1>3, GateMoves DEF Step, ResolveDeliveryAddress, Ends
  <2> QED
    BY <1>3, <2>1 DEF GateFits, PastTheGates, ReadsPreferences
<1>4. CASE pc'[c] = "template" /\ ~IsSuppressed(Request[c].tenant, addr[c])
                               /\ ~Digest(c) /\ ~Quiet(c)
  <2>1. /\ seen'[c] = seen[c]
        /\ addr'[c] = addr[c]
        /\ shut'[c] \subseteq shut[c]
    BY <1>0, <1>4, GateMoves DEF Step, ResolveDeliveryAddress, Ends
  <2>2. shut'[c] \subseteq ShutNow(c)' /\ shut'[c] \subseteq Gates
    BY WatchNow
  <2>3. clock' = clock /\ tenantSuppressions' = tenantSuppressions
    BY DEF CheckSuppression, storeVars
  <2>4. "suppressed" \notin shut'[c]
    BY <1>4, <2>1, <2>2, <2>3 DEF ShutNow, IsSuppressed
  <2>5. ReadsPreferences(c) => "quiet" \notin shut'[c]
    BY <1>4, <2>1, <2>2, <2>3 DEF ShutNow, QuietNow, Quiet, ReadsPreferences
  <2>6. ReadsPreferences(c) => "opt_out" \notin shut'[c] /\ "digest" \notin shut'[c]
    BY <1>0, <1>4, <2>1 DEF GateFits
  <2>7. shut'[c] \intersect StandBefore(c) = {}
    BY <2>2, <2>4, <2>5, <2>6 DEF Gates, StandBefore
  <2> QED
    BY <1>4, <2>1, <2>7 DEF GateFits, ReadsPreferences, StandBefore
<1> QED
  BY <1>1, <1>2, <1>3, <1>4

(* The steps after it: what is past the gates stays past them, and only    *)
(* that is dispatched.                                                     *)
LEMMA GateLater ==
    ASSUME TypeOK, Watch, NEW c \in Calls, GateFits(c),
           LookupTemplate(c) \/ InsertRow(c) \/ EnqueueDigest(c) \/ FetchAttachments(c)
             \/ Dispatch(c) \/ RecordOutcome(c)
    PROVE  GateFits(c)'
<1> USE DEF TypeOK, CallTypeOK, Goto
<1>1. CASE Leave(c, "threw") \/ Leave(c, "done")
  <2>1. pc'[c] \in Ends /\ seen'[c] = NoPreferences
    BY <1>1 DEF Leave, Ends
  <2> QED
    BY <2>1, GateEnds
<1>2. CASE ~(Leave(c, "threw") \/ Leave(c, "done"))
  <2>1. /\ pc'[c] \in {"insert", "enqueue", "attach", "dispatch", "record"}
        /\ PastTheGates(c)' => PastTheGates(c)
    <3>1. CASE LookupTemplate(c)
      BY <1>2, <3>1 DEF LookupTemplate, PlanInsert, PastTheGates
    <3>2. CASE InsertRow(c)
      BY <1>2, <3>2 DEF InsertRow, Proceed, PastTheGates
    <3>3. CASE EnqueueDigest(c) \/ RecordOutcome(c)
      BY <1>2, <3>3 DEF EnqueueDigest, RecordOutcome
    <3>4. CASE FetchAttachments(c) \/ Dispatch(c)
      BY <1>2, <3>4 DEF FetchAttachments, Dispatch, Proceed, PastTheGates
    <3> QED
      BY <3>1, <3>2, <3>3, <3>4
  <2>2. ~ResolveDeliveryAddress(c)
    BY DEF ResolveDeliveryAddress, LookupTemplate, InsertRow, EnqueueDigest,
           FetchAttachments, Dispatch, RecordOutcome
  <2>3. seen'[c] = seen[c] /\ shut'[c] \subseteq shut[c]
    BY <2>1, <2>2, GateMoves DEF Step, Ends
  <2> QED
    BY <2>1, <2>3 DEF GateFits, ReadsPreferences, StandBefore
<1> QED
  BY <1>1, <1>2

LEMMA GateStep ==
    ASSUME TypeOK, Watch, NEW c \in Calls, GateFits(c), Start(c) \/ Step(c) \/ Throw(c)
    PROVE  GateFits(c)'
<1>1. CASE Throw(c)
  <2>1. pc'[c] = "threw" /\ seen'[c] = NoPreferences
    BY <1>1 DEF Throw, Leave, Goto, TypeOK, CallTypeOK
  <2> QED
    BY <2>1, GateEnds DEF Ends
<1> QED
  BY <1>1, GateStart, GateResolve, GateDuplicate, GateSuppression, GateLater DEF Step

LEMMA GateNext == GateInv /\ [GatesNext]_gateVars => GateInv'
<1> SUFFICES ASSUME GateInv, [GatesNext]_gateVars PROVE GateInv'
  OBVIOUS
<1> USE DEF GateInv
<1>1. CASE UNCHANGED gateVars
  <2>1. UNCHANGED vars /\ shut' = shut
    BY <1>1 DEF gateVars
  <2>2. TypeOK'
    BY <2>1, TypeNext DEF GatesTypeOK
  <2> QED
    BY <2>1, <2>2 DEF GatesTypeOK, GateFits, PastTheGates, ReadsPreferences, StandBefore,
                      Digest, vars, pipelineVars
<1>2. CASE GatesNext
  <2>1. TypeOK /\ Watch /\ Next
    BY <1>2 DEF GatesNext, GatesTypeOK
  <2>2. GatesTypeOK'
    BY <2>1, TypeNext, TypeWatch
  <2>3. ASSUME NEW c \in Calls PROVE GateFits(c)'
    <3>1. CASE CallNext
      BY <2>1, <3>1, GateStep, GateStays, StepLocals DEF CallNext
    <3>2. CASE Crash
      <4>1. seen'[c] = NoPreferences /\ pc'[c] \in Ends \union {"idle"}
        BY <2>1, <3>2 DEF Crash, KillCalls, Active, TypeOK, CallTypeOK, Ends
      <4> QED
        BY <2>1, <4>1, GateEnds
    <3>3. CASE UNCHANGED pipelineVars
      BY <2>1, <3>3, GateStays DEF pipelineVars
    <3> QED
      BY <2>1, <3>1, <3>2, <3>3 DEF Next
  <2> QED
    BY <2>2, <2>3
<1> QED
  BY <1>1, <1>2

LEMMA GatesInitially == GatesInit => GateInv
<1> SUFFICES ASSUME GatesInit PROVE GateInv
  OBVIOUS
<1>1. GatesTypeOK
  BY TypeInit DEF GatesInit, GatesTypeOK
<1>2. \A c \in Calls : pc[c] = "idle" /\ seen[c] = NoPreferences /\ shut[c] = {}
  BY DEF GatesInit, Init
<1> QED
  BY <1>1, <1>2 DEF GateInv, GateFits, PastTheGates

(* The pipeline's variables and the history of the gates keep their types. *)
THEOREM GatesKeepTheirTypes == GatesSpec => []GatesTypeOK
<1>1. GateInv => GatesTypeOK
  BY DEF GateInv
<1> QED
  BY GatesInitially, GateNext, <1>1, PTL DEF GatesSpec

(* A message to a looked-up user reaches the channel only if each gate has *)
(* been open at some moment since the call had the address, any other one  *)
(* only if the suppression list has: however the checks of pipeline.ts and *)
(* the writes of the API interleave.                                       *)
THEOREM EveryGateWasOpen == GatesSpec => []NoGateIsSkipped
<1>1. GateInv => NoGateIsSkipped
  BY DEF GateInv, GateFits, PastTheGates, NoGateIsSkipped
<1> QED
  BY GatesInitially, GateNext, <1>1, PTL DEF GatesSpec
=============================================================================
