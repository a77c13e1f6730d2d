--------------------------- MODULE Workers_proofs ---------------------------
(***************************************************************************)
(* What Workers keeps for any tenants, bots, sources, rules, events and    *)
(* requests, any number of overlapping polls and checker runs, of admin    *)
(* requests, errors and crashes.                                           *)
(***************************************************************************)
EXTENDS Workers, SequenceTheorems, FiniteSetTheorems, TLAPS

-----------------------------------------------------------------------------
(* Bounded sequences: a log, an inbox, the tokens.                         *)

LEMMA BoundedSeqIsSeq ==
    ASSUME NEW S, NEW n \in Nat, NEW s
    PROVE  s \in BoundedSeq(S, n) <=> s \in Seq(S) /\ Len(s) <= n
<1>1. ASSUME s \in BoundedSeq(S, n) PROVE s \in Seq(S) /\ Len(s) <= n
  <2>1. PICK m \in 0 .. n : s \in [1 .. m -> S]
    BY <1>1 DEF BoundedSeq, SeqOf
  <2>2. s \in Seq(S)
    BY <2>1, SeqDef
  <2>3. 1 .. Len(s) = 1 .. m
    BY <2>1, <2>2, LenProperties
  <2>4. Len(s) = m
    BY <2>2, <2>3, LenProperties
  <2> QED
    BY <2>2, <2>4
<1>2. ASSUME s \in Seq(S), Len(s) <= n PROVE s \in BoundedSeq(S, n)
  <2>1. Len(s) \in 0 .. n /\ s \in [1 .. Len(s) -> S]
    BY <1>2, LenProperties
  <2> QED
    BY <2>1 DEF BoundedSeq, SeqOf
<1> QED
  BY <1>1, <1>2

LEMMA BoundedSeqFacts ==
    ASSUME NEW S, NEW n \in Nat, NEW s \in BoundedSeq(S, n)
    PROVE  /\ Len(s) \in 0 .. n /\ DOMAIN s = 1 .. Len(s)
           /\ \A i \in 1 .. Len(s) : s[i] \in S
<1>1. s \in Seq(S) /\ Len(s) <= n
  BY BoundedSeqIsSeq
<1> QED
  BY <1>1, LenProperties, ElementOfSeq

LEMMA BoundedAppend ==
    ASSUME NEW S, NEW n \in Nat, NEW s \in BoundedSeq(S, n), NEW e \in S
    PROVE  /\ Len(s) < n => Append(s, e) \in BoundedSeq(S, n)
           /\ Len(Append(s, e)) = Len(s) + 1
           /\ DOMAIN Append(s, e) = 1 .. Len(s) + 1
           /\ \A i \in 1 .. Len(s) : Append(s, e)[i] = s[i]
           /\ Append(s, e)[Len(s) + 1] = e
<1>1. s \in Seq(S) /\ Len(s) <= n
  BY BoundedSeqIsSeq
<1>2. /\ Len(s) \in Nat /\ DOMAIN s = 1 .. Len(s)
      /\ \A i \in 1 .. Len(s) : s[i] \in S
  BY <1>1, LenProperties, ElementOfSeq
<1>3. /\ Append(s, e) \in Seq(S)
      /\ Len(Append(s, e)) = Len(s) + 1
      /\ \A i \in 1 .. Len(s) : Append(s, e)[i] = s[i]
      /\ Append(s, e)[Len(s) + 1] = e
  BY <1>1, AppendProperties
<1>4. DOMAIN Append(s, e) = 1 .. Len(s) + 1
  BY <1>3, LenProperties
<1>5. Len(s) < n => Append(s, e) \in BoundedSeq(S, n)
  <2>1. \A q : q \in Seq(S) /\ Len(q) <= n => q \in BoundedSeq(S, n)
    BY BoundedSeqIsSeq
  <2>2. Len(s) < n => Len(Append(s, e)) <= n
    BY <1>2, <1>3
  <2> QED
    BY <1>3, <2>1, <2>2
<1> QED
  BY <1>1, <1>2, <1>3, <1>4, <1>5

LEMMA EmptyBounded ==
    ASSUME NEW S, NEW n \in Nat
    PROVE  << >> \in BoundedSeq(S, n)
<1>1. \A q : q \in Seq(S) /\ Len(q) <= n => q \in BoundedSeq(S, n)
  BY BoundedSeqIsSeq
<1>2. << >> \in Seq(S) /\ Len(<< >>) <= n
  BY EmptySeq
<1> QED
  BY <1>1, <1>2

-----------------------------------------------------------------------------
(* The tenants and the PATCH of the rate limit.                            *)

(* The configuration a PATCH has read is its tenant's still, unless it was *)
(* crossed.                                                                *)
PatchFits(q) ==
    patch[q] # NoPatch =>
        LET t == patch[q].tenant
        IN  /\ tenants[t].state # "free"
            /\ q \notin crossed => tenants[t].config = patch[q].config

TenantsInv == TenantsTypeOK /\ watched \in Parts /\ \A q \in Patches : PatchFits(q)

LEMMA TenantsInvInit == WorkersInit => TenantsInv
<1> SUFFICES ASSUME WorkersInit PROVE TenantsInv
  OBVIOUS
<1>1. Starts[watched] \subseteq TenantType /\ EditsIn[watched] \in 0 .. MaxEdits
  BY WorkersAssumption DEF WorkersInit
<1>2. TenantsTypeOK
  BY <1>1, TenantAdminAssumption DEF WorkersInit, TenantsInit, TenantsTypeOK
<1>3. \A q \in Patches : PatchFits(q)
  BY DEF WorkersInit, TenantsInit, PatchFits
<1> QED
  BY <1>2, <1>3 DEF TenantsInv, WorkersInit

LEMMA TenantsRecords ==
    ASSUME TenantsTypeOK
    PROVE  /\ \A t \in Tenants :
                 /\ tenants[t] \in TenantType /\ tenants[t].config \in Config
                 /\ tenants[t].state \in {"free", "enabled", "disabled", "deleted"}
           /\ \A q \in Patches : patch[q] # NoPatch =>
                 /\ patch[q] \in PatchType
                 /\ patch[q].tenant \in Tenants /\ patch[q].config \in Config
                 /\ patch[q].limit \in Limits /\ NextConfig(patch[q]) \in Config
           /\ edits \in Nat /\ faults \in Nat
<1>1. ASSUME NEW t \in Tenants
      PROVE  /\ tenants[t] \in TenantType /\ tenants[t].config \in Config
             /\ tenants[t].state \in {"free", "enabled", "disabled", "deleted"}
  BY DEF TenantsTypeOK, TenantType
<1>2. ASSUME NEW q \in Patches, patch[q] # NoPatch
      PROVE  /\ patch[q] \in PatchType
             /\ patch[q].tenant \in Tenants /\ patch[q].config \in Config
             /\ patch[q].limit \in Limits
  BY <1>2 DEF TenantsTypeOK, PatchType
<1>3. ASSUME NEW q \in Patches, patch[q] # NoPatch
      PROVE  NextConfig(patch[q]) \in Config
  BY <1>2, <1>3 DEF NextConfig, Config
<1>4. edits \in Nat /\ faults \in Nat
  BY TenantAdminAssumption DEF TenantsTypeOK
<1> QED
  BY <1>1, <1>2, <1>3, <1>4

LEMMA AdminKeepsTenants ==
    ASSUME TenantsInv, AdminNext, watched' = watched
    PROVE  TenantsInv'
<1> USE TenantsRecords, TenantAdminAssumption DEF TenantsInv
<1>0. \A config \in Configs[watched] : config \in Config
  BY WorkersAssumption
<1>1. ASSUME NEW t \in Tenants, NEW config \in Config, CreateTenant(t, config)
      PROVE  TenantsInv'
  <2>1. TenantsTypeOK'
    BY <1>1 DEF CreateTenant, Edit, TenantsTypeOK, TenantType
  <2>2. ASSUME NEW q \in Patches PROVE PatchFits(q)'
    <3>1. patch[q] # NoPatch => patch[q].tenant # t
      BY <1>1 DEF CreateTenant, PatchFits
    <3> QED
      BY <1>1, <3>1 DEF CreateTenant, PatchFits, TenantsTypeOK
  <2> QED
    BY <2>1, <2>2
<1>2. ASSUME NEW t \in Tenants, NEW config \in Config, PutConfig(t, config)
      PROVE  TenantsInv'
  <2>1. TenantsTypeOK'
    BY <1>2 DEF PutConfig, Edit, TenantsTypeOK, TenantType, Patching
  <2>2. ASSUME NEW q \in Patches PROVE PatchFits(q)'
    BY <1>2 DEF PutConfig, PatchFits, TenantsTypeOK, TenantType, Patching
  <2> QED
    BY <2>1, <2>2
<1>3. ASSUME NEW t \in Tenants, NEW state \in {"enabled", "disabled"}, PutEnabled(t, state)
      PROVE  TenantsInv'
  <2>1. TenantsTypeOK'
    BY <1>3 DEF PutEnabled, Edit, TenantsTypeOK, TenantType
  <2>2. ASSUME NEW q \in Patches PROVE PatchFits(q)'
    BY <1>3 DEF PutEnabled, PatchFits, TenantsTypeOK, TenantType
  <2> QED
    BY <2>1, <2>2
<1>4. ASSUME NEW q \in Patches, NEW t \in Tenants, NEW limit \in Limits, LoadConfig(q, t, limit)
      PROVE  TenantsInv'
  <2>1. [tenant |-> t, config |-> tenants[t].config, limit |-> limit] \in PatchType
    BY DEF PatchType
  <2>2. TenantsTypeOK'
    BY <1>4, <2>1 DEF LoadConfig, Edit, TenantsTypeOK
  <2>3. ASSUME NEW p \in Patches PROVE PatchFits(p)'
    <3>1. CASE p = q
      <4>1. patch'[q] = [tenant |-> t, config |-> tenants[t].config, limit |-> limit]
        BY <1>4 DEF LoadConfig, TenantsTypeOK
      <4> QED
        BY <1>4, <3>1, <4>1 DEF LoadConfig, PatchFits, Exists
    <3>2. CASE p # q
      BY <1>4, <3>2 DEF LoadConfig, PatchFits, TenantsTypeOK
    <3> QED
      BY <3>1, <3>2
  <2> QED
    BY <2>2, <2>3
<1>5. ASSUME NEW q \in Patches, WriteLimit(q)
      PROVE  TenantsInv'
  <2> DEFINE t == patch[q].tenant
  <2>1. t \in Tenants /\ NextConfig(patch[q]) \in Config
    BY <1>5 DEF WriteLimit
  <2>2. tenants' = [tenants EXCEPT ![t].config =
                      IF Exists(t) THEN NextConfig(patch[q]) ELSE @]
    BY <1>5 DEF WriteLimit
  <2>3. TenantsTypeOK'
    BY <1>5, <2>1, <2>2 DEF WriteLimit, TenantsTypeOK, TenantType, Patching
  <2>4. \A u \in Tenants : /\ tenants'[u].state = tenants[u].state
                           /\ u # t => tenants'[u] = tenants[u]
    BY <2>1, <2>2 DEF TenantsTypeOK, TenantType
  <2>5. ASSUME NEW p \in Patches, patch'[p] # NoPatch PROVE PatchFits(p)'
    <3>1. p # q /\ patch'[p] = patch[p]
      BY <1>5, <2>5 DEF WriteLimit, TenantsTypeOK
    <3>2. p \notin crossed' => p \notin crossed /\ patch[p].tenant # t
      BY <1>5, <2>5, <3>1 DEF WriteLimit, Patching
    <3> QED
      BY <2>4, <2>5, <3>1, <3>2 DEF PatchFits
  <2>6. ASSUME NEW p \in Patches PROVE PatchFits(p)'
    BY <2>5 DEF PatchFits
  <2> QED
    BY <2>3, <2>6
<1>6. ASSUME NEW t \in Tenants, DeleteTenant(t, Referring)
      PROVE  TenantsInv'
  <2>1. TenantsTypeOK'
    BY <1>6 DEF DeleteTenant, Edit, TenantsTypeOK, TenantType
  <2>2. ASSUME NEW q \in Patches PROVE PatchFits(q)'
    BY <1>6 DEF DeleteTenant, PatchFits, TenantsTypeOK, TenantType
  <2> QED
    BY <2>1, <2>2
<1> QED
  BY <1>0, <1>1, <1>2, <1>3, <1>4, <1>5, <1>6 DEF AdminNext

(* The workers and the requests that are no admin's read the tenants only, *)
(* except that an edit of a rule counts as one of the run's requests.      *)
ReadsTenants ==
    /\ UNCHANGED <<tenants, patch, crossed>>
    /\ edits' = edits \/ (edits > 0 /\ edits' = edits - 1)
    /\ faults' = faults \/ (faults < MaxFaults /\ faults' = faults + 1)

LEMMA OthersReadTenants ==
    ASSUME HeartNext \/ BotNext \/ IngestNext
    PROVE  ReadsTenants
<1>1. CASE HeartNext
  <2>1. ASSUME NEW r \in Runs, SelectStale(r) \/ CheckStep(r) PROVE ReadsTenants
    BY <2>1 DEF ReadsTenants, SelectStale, CheckStep, PublishAlert, AlertSent, MarkAlerted, tenantVars
  <2>2. ASSUME NEW p \in Publishers, ProducerConnected(p) \/ CheckThrow(p) PROVE ReadsTenants
    BY <2>2 DEF ReadsTenants, ProducerConnected, CheckThrow, tenantVars
  <2> QED
    BY <1>1, <2>1, <2>2 DEF HeartNext, Pulse, DeleteHeartbeat, HeartTick, OthersPublish,
                            ReadsTenants, tenantVars
<1>2. CASE BotNext
  <2>1. ASSUME NEW p \in Polls, ListTenants(p) \/ PollStep(p) PROVE ReadsTenants
    BY <2>1 DEF ReadsTenants, ListTenants, PollStep, GetUpdates, TakeUpdate, LinkChat, tenantVars
  <2>2. ASSUME NEW p \in Polls, PollThrow(p) PROVE ReadsTenants
    BY <2>2 DEF ReadsTenants, PollThrow, tenantVars
  <2> QED
    BY <1>2, <2>1, <2>2 DEF BotNext, RequestLink, PutChat, Edit, PressStart, ReadsTenants, tenantVars
<1>3. CASE IngestNext
  <2>1. ASSUME NEW h \in Handlers, HandlerStep(h) PROVE ReadsTenants
    BY <2>1 DEF ReadsTenants, HandlerStep, ReadTenant, SelectRules, CallReturns, CallThrows, tenantVars
  <2>2. ASSUME NEW h \in Handlers, HandlerThrow(h) PROVE ReadsTenants
    BY <2>2 DEF ReadsTenants, HandlerThrow, tenantVars
  <2>3. CASE ConsumerStep
    BY <2>1, <2>3 DEF ConsumerStep, ConsumerStarts, FindPosition, CommitPosition,
                      FetchMessage, Handlers, ReadsTenants, tenantVars
  <2>4. ASSUME NEW r \in Rules, NEW rule \in RuleChoices,
               CreateRule(r, rule) \/ UpdateRule(r, rule)
        PROVE  ReadsTenants
    BY <2>4 DEF ReadsTenants, CreateRule, UpdateRule, EditRule, Edit
  <2>5. ASSUME NEW r \in Rules, DeleteRule(r) PROVE ReadsTenants
    BY <2>5 DEF ReadsTenants, DeleteRule, EditRule, Edit
  <2>6. ASSUME NEW q \in Requests, NEW e \in Events, PostEvent(q, e) PROVE ReadsTenants
    BY <2>6 DEF ReadsTenants, PostEvent, tenantVars
  <2>7. ASSUME NEW q \in Requests, Publish(q) PROVE ReadsTenants
    BY <2>7 DEF ReadsTenants, Publish, tenantVars
  <2>8. ASSUME NEW t \in Tenants, NEW user \in Recipients, NEW known \in BOOLEAN,
               PutQuietHours(t, user, known)
        PROVE  ReadsTenants
    BY <2>8 DEF ReadsTenants, PutQuietHours, Edit
  <2> QED
    BY <1>3, <2>1, <2>2, <2>3, <2>4, <2>5, <2>6, <2>7, <2>8
       DEF IngestNext, PublishMalformed, ConsumerFails, ReadsTenants, tenantVars
<1> QED
  BY <1>1, <1>2, <1>3

LEMMA TenantsInvNext ==
    ASSUME TenantsInv, [WorkersNext]_workerVars
    PROVE  TenantsInv'
<1> USE DEF TenantsInv
<1>0. watched' = watched
  BY DEF WorkersNext, workerVars
<1>1. CASE AdminNext
  BY <1>0, <1>1, AdminKeepsTenants
<1>2. CASE HeartNext \/ BotNext \/ IngestNext
  <2>1. ReadsTenants
    BY <1>2, OthersReadTenants
  <2> QED
    BY <1>0, <2>1, TenantAdminAssumption DEF ReadsTenants, TenantsTypeOK, PatchFits
<1>3. CASE ServerCrash
  BY <1>0, <1>3, TenantAdminAssumption DEF ServerCrash, TenantsTypeOK, PatchFits
<1>4. CASE UNCHANGED workerVars
  BY <1>4 DEF workerVars, tenantVars, TenantsTypeOK, PatchFits
<1> QED
  BY <1>1, <1>2, <1>3, <1>4 DEF WorkersNext

(* The step at which a PATCH's request ends and the tenants change is its  *)
(* own write: another's ends another PATCH.                                *)
LEMMA WriteKeepsTheBot ==
    ASSUME TenantsInv, [WorkersNext]_workerVars,
           NEW q \in Patches, patch[q] # NoPatch, q \notin crossed,
           patch'[q] = NoPatch, tenants' # tenants
    PROVE  tenants'[patch[q].tenant].config.bot = tenants[patch[q].tenant].config.bot
<1> USE TenantsRecords DEF TenantsInv
<1>1. AdminNext
  BY OthersReadTenants DEF ReadsTenants, WorkersNext, ServerCrash, workerVars, tenantVars
<1>2. PICK p \in Patches : WriteLimit(p)
  <2>1. ASSUME NEW p \in Patches, NEW t \in Tenants, NEW limit \in Limits,
               LoadConfig(p, t, limit)
        PROVE  FALSE
    BY <2>1 DEF LoadConfig
  <2>2. patch' # patch
    OBVIOUS
  <2> QED
    BY <1>1, <2>1, <2>2
       DEF AdminNext, CreateTenant, PutConfig, PutEnabled, DeleteTenant
<1>3. p = q
  BY <1>2 DEF WriteLimit, TenantsTypeOK
<1> DEFINE t == patch[q].tenant
<1>4. t \in Tenants /\ NextConfig(patch[q]).bot = tenants[t].config.bot
  BY DEF PatchFits, NextConfig, Config
<1>5. tenants' = [tenants EXCEPT ![t].config =
                    IF Exists(t) THEN NextConfig(patch[q]) ELSE @]
  BY <1>2, <1>3 DEF WriteLimit
<1> QED
  BY <1>4, <1>5 DEF TenantsTypeOK, TenantType

(* No PATCH of the rate limit undoes a tenant's bot, whatever requests     *)
(* overlap it, but those that change the configuration after its SELECT.   *)
THEOREM PatchLosesNothing == WorkersSpec => PatchKeepsTheRest
<1>1. WorkersInit => TenantsInv
  BY TenantsInvInit
<1>2. TenantsInv /\ [WorkersNext]_workerVars
        => TenantsInv'
  BY TenantsInvNext
<1>3. TenantsInv /\ [WorkersNext]_workerVars
        => [\A q \in Patches :
              (/\ patch[q] # NoPatch /\ q \notin crossed
               /\ patch'[q] = NoPatch /\ tenants' # tenants)
              => tenants'[patch[q].tenant].config.bot
                   = tenants[patch[q].tenant].config.bot]_workerVars
  BY WriteKeepsTheBot
<1> QED
  BY <1>1, <1>2, <1>3, PTL DEF WorkersSpec, PatchKeepsTheRest

-----------------------------------------------------------------------------
(* The heartbeat checker.                                                  *)

LEMMA ProducerSteps ==
    ASSUME ProducerTypeOK, NEW p \in Publishers,
           GetProducer(p) \/ SendThrows(p) \/ Connected(p) \/ Sent(p) \/ PublishThrow(p)
    PROVE  ProducerTypeOK'
BY DEF ProducerTypeOK, GetProducer, SendThrows, Connected, Sent, PublishThrow, PGoto,
       producerVars

(* A run about to stamp its row has reported it, unless the row pulsed or  *)
(* went since the run's SELECT.                                            *)
RunFits(r) ==
    (run[r] # NoRun /\ run[r].step = "mark") =>
        \/ run[r].row \in run[r].pulsed \union run[r].gone
        \/ alerts[run[r].row] > 0

HeartInv ==
    /\ HeartbeatTypeOK
    /\ StampedMeansAlerted
    /\ \A r \in Runs : RunFits(r)

LEMMA HeartTypes ==
    ASSUME HeartbeatTypeOK
    PROVE  /\ \A s \in Sources :
                 /\ heartbeats[s] \in HeartbeatType
                 /\ heartbeats[s].here \in BOOLEAN /\ heartbeats[s].alerted \in BOOLEAN
                 /\ alerts[s] \in 0 .. 2
           /\ \A r \in Runs : run[r] # NoRun =>
                 /\ run[r] \in RunType
                 /\ run[r].list \subseteq Sources /\ run[r].row \in Sources
                 /\ run[r].pulsed \subseteq Sources /\ run[r].gone \subseteq Sources
BY DEF HeartbeatTypeOK, HeartbeatType, RunType

LEMMA NoHeartbeatType == NoHeartbeat \in HeartbeatType
BY HeartbeatAssumption DEF NoHeartbeat, HeartbeatType

LEMMA HeartInvInit == WorkersInit => HeartInv
<1> SUFFICES ASSUME WorkersInit PROVE HeartInv
  OBVIOUS
<1>1. heartbeats = [s \in Sources |-> NoHeartbeat] /\ run = [r \in Runs |-> NoRun]
  BY DEF WorkersInit, HeartbeatInit
<1>2. HeartbeatTypeOK
  BY <1>1, NoHeartbeatType DEF WorkersInit, HeartbeatInit, ProducerInit, HeartbeatTypeOK,
                               ProducerTypeOK
<1>3. StampedMeansAlerted
  BY <1>1 DEF StampedMeansAlerted, NoHeartbeat
<1>4. \A r \in Runs : RunFits(r)
  BY <1>1 DEF RunFits
<1> QED
  BY <1>2, <1>3, <1>4 DEF HeartInv

(* A row that pulses or goes starts a new absence, and every run notes it. *)
LEMMA RestartKeepsHeart ==
    ASSUME HeartInv, NEW s \in Sources,
           (\E i \in Intervals : Pulse(s, i)) \/ DeleteHeartbeat(s)
    PROVE  /\ HeartInv'
           /\ alerts' = [alerts EXCEPT ![s] = 0] /\ unstamped' = unstamped \ {s}
           /\ ~heartbeats'[s].alerted
           /\ \A u \in Sources \ {s} : heartbeats'[u] = heartbeats[u]
           /\ \A r \in Runs :
                 \/ run[r] = NoRun /\ run'[r] = NoRun
                 \/ /\ run[r] # NoRun /\ run'[r] \in RunType
                    /\ run'[r].list = run[r].list /\ run'[r].row = run[r].row
                    /\ run'[r].step = run[r].step
                    /\ run[r].gone \subseteq run'[r].gone
                    /\ run'[r].gone \subseteq run[r].gone \union {s}
                    /\ run[r].pulsed \subseteq run'[r].pulsed
                    /\ s \in run'[r].pulsed \union run'[r].gone
                    /\ heartbeats'[s].here \/ s \in run'[r].gone
<1> USE HeartTypes DEF HeartInv
<1>1. \/ \E i \in Intervals :
            /\ heartbeats' = [heartbeats EXCEPT ![s] =
                  [here |-> TRUE, silence |-> 0, interval |-> i, alerted |-> FALSE]]
            /\ run' = [r \in Runs |-> IF run[r] = NoRun THEN NoRun
                                      ELSE [run[r] EXCEPT !.pulsed = @ \union {s}]]
      \/ /\ heartbeats' = [heartbeats EXCEPT ![s] = NoHeartbeat]
         /\ run' = [r \in Runs |-> IF run[r] = NoRun THEN NoRun
                                   ELSE [run[r] EXCEPT !.gone = @ \union {s}]]
  BY DEF Pulse, DeleteHeartbeat
<1>2. /\ alerts' = [alerts EXCEPT ![s] = 0] /\ masked' = masked \ {s}
      /\ unstamped' = unstamped \ {s}
      /\ UNCHANGED producerVars
  BY DEF Pulse, DeleteHeartbeat
<1>3. /\ heartbeats' \in [Sources -> HeartbeatType]
      /\ ~heartbeats'[s].alerted
      /\ \A u \in Sources \ {s} : heartbeats'[u] = heartbeats[u]
  <2>1. \A i \in Intervals :
           [here |-> TRUE, silence |-> 0, interval |-> i, alerted |-> FALSE] \in HeartbeatType
    BY HeartbeatAssumption DEF HeartbeatType
  <2>2. heartbeats \in [Sources -> HeartbeatType]
    BY DEF HeartbeatTypeOK
  <2>3. ~NoHeartbeat.alerted
    BY DEF NoHeartbeat
  <2> QED
    BY <1>1, <2>1, <2>2, <2>3, NoHeartbeatType
<1>4. ASSUME NEW r \in Runs
      PROVE  \/ run[r] = NoRun /\ run'[r] = NoRun
             \/ /\ run[r] # NoRun /\ run'[r] \in RunType
                /\ run'[r].list = run[r].list /\ run'[r].row = run[r].row
                /\ run'[r].step = run[r].step
                /\ run[r].gone \subseteq run'[r].gone
                /\ run'[r].gone \subseteq run[r].gone \union {s}
                /\ run[r].pulsed \subseteq run'[r].pulsed
                /\ s \in run'[r].pulsed \union run'[r].gone
                /\ heartbeats'[s].here \/ s \in run'[r].gone
  <2>1. CASE run[r] = NoRun
    BY <1>1, <2>1
  <2>2. CASE run[r] # NoRun
    <3>1. run[r] \in RunType
      BY <2>2
    <3>2. \/ heartbeats'[s].here /\ run'[r] = [run[r] EXCEPT !.pulsed = @ \union {s}]
          \/ run'[r] = [run[r] EXCEPT !.gone = @ \union {s}]
      <4>1. heartbeats \in [Sources -> HeartbeatType]
        BY DEF HeartbeatTypeOK
      <4>2. ASSUME NEW i \in Intervals,
                   heartbeats' = [heartbeats EXCEPT ![s] =
                     [here |-> TRUE, silence |-> 0, interval |-> i, alerted |-> FALSE]]
            PROVE  heartbeats'[s].here
        BY <4>1, <4>2
      <4>3. \/ heartbeats'[s].here
               /\ run' = [q \in Runs |-> IF run[q] = NoRun THEN NoRun
                                         ELSE [run[q] EXCEPT !.pulsed = @ \union {s}]]
            \/ run' = [q \in Runs |-> IF run[q] = NoRun THEN NoRun
                                      ELSE [run[q] EXCEPT !.gone = @ \union {s}]]
        BY <1>1, <4>2
      <4> QED
        BY <2>2, <4>3
    <3> QED
      BY <2>2, <3>1, <3>2 DEF RunType
  <2> QED
    BY <2>1, <2>2
<1>5. HeartbeatTypeOK'
  <2>1. run' \in [Runs -> RunType \union {NoRun}]
    BY <1>1, <1>4
  <2>2. ProducerTypeOK'
    BY <1>2 DEF HeartbeatTypeOK, ProducerTypeOK, producerVars
  <2>3. alerts' \in [Sources -> 0 .. 2] /\ {masked', unstamped'} \subseteq SUBSET Sources
    BY <1>2 DEF HeartbeatTypeOK
  <2> QED
    BY <1>3, <2>1, <2>2, <2>3 DEF HeartbeatTypeOK
<1>6. StampedMeansAlerted'
  BY <1>2, <1>3 DEF StampedMeansAlerted, HeartbeatTypeOK
<1>7. ASSUME NEW r \in Runs PROVE RunFits(r)'
  <2>1. CASE run'[r] = NoRun
    BY <2>1 DEF RunFits
  <2>2. CASE run'[r] # NoRun /\ run[r].row = s
    BY <1>4, <2>2 DEF RunFits
  <2>3. CASE run'[r] # NoRun /\ run[r].row # s
    BY <1>2, <1>4, <2>3 DEF RunFits, HeartbeatTypeOK
  <2> QED
    BY <2>1, <2>2, <2>3
<1> QED
  BY <1>2, <1>3, <1>4, <1>5, <1>6, <1>7

LEMMA TickKeepsHeart ==
    ASSUME HeartInv, HeartTick
    PROVE  /\ HeartInv'
           /\ \A s \in Sources : /\ heartbeats'[s].here = heartbeats[s].here
                                 /\ heartbeats'[s].alerted = heartbeats[s].alerted
<1> USE HeartTypes, HeartbeatAssumption DEF HeartInv
<1>1. ASSUME NEW s \in Sources
      PROVE  /\ heartbeats'[s] \in HeartbeatType
             /\ heartbeats'[s].here = heartbeats[s].here
             /\ heartbeats'[s].alerted = heartbeats[s].alerted
  <2>1. heartbeats'[s] = Silent(heartbeats[s])
    BY DEF HeartTick
  <2>2. \/ heartbeats'[s] = heartbeats[s]
        \/ /\ heartbeats[s].silence < SilenceCap
           /\ heartbeats'[s] = [heartbeats[s] EXCEPT !.silence = @ + 1]
    BY <2>1 DEF Silent
  <2> QED
    BY <2>2 DEF HeartbeatType
<1>2. HeartbeatTypeOK'
  BY <1>1 DEF HeartTick, HeartbeatTypeOK, ProducerTypeOK, producerVars
<1>3. StampedMeansAlerted' /\ \A r \in Runs : RunFits(r)'
  BY <1>1 DEF HeartTick, StampedMeansAlerted, RunFits
<1> QED
  BY <1>1, <1>2, <1>3

(* The UPDATE by id leaves every other row, and of its own all but the     *)
(* stamp, as it was.                                                       *)
LEMMA MarkOutcome ==
    ASSUME HeartInv, NEW r \in Runs, MarkAlerted(r)
    PROVE  /\ run[r] # NoRun /\ run[r].step = "mark" /\ run[r].row \in Sources
           /\ heartbeats' \in [Sources -> HeartbeatType]
           /\ \A u \in Sources \ {run[r].row} : heartbeats'[u] = heartbeats[u]
           /\ \A u \in Sources : heartbeats'[u].here = heartbeats[u].here
           /\ heartbeats'[run[r].row].alerted
                 <=> \/ heartbeats[run[r].row].alerted
                     \/ heartbeats[run[r].row].here /\ run[r].row \notin run[r].gone
           /\ run' \in [Runs -> RunType \union {NoRun}]
           /\ \A q \in Runs \ {r} : run'[q] = run[q]
           /\ \/ run'[r] = NoRun
              \/ /\ run'[r] \in RunType /\ run'[r].step = "publish"
                 /\ run'[r].row \in run[r].list
                 /\ run'[r].list = run[r].list \ {run'[r].row}
                 /\ run'[r].pulsed = run[r].pulsed /\ run'[r].gone = run[r].gone
<1> USE HeartTypes DEF HeartInv
<1> DEFINE s == run[r].row
           there == heartbeats[s].here /\ s \notin run[r].gone
<1>1. run[r] # NoRun /\ run[r].step = "mark" /\ s \in Sources
  BY DEF MarkAlerted
<1>2. heartbeats \in [Sources -> HeartbeatType] /\ run \in [Runs -> RunType \union {NoRun}]
  BY DEF HeartbeatTypeOK
<1>3. PICK a \in BOOLEAN : /\ a <=> heartbeats[s].alerted \/ there
                           /\ heartbeats' = [heartbeats EXCEPT ![s].alerted = a]
  <2>1. heartbeats' = [heartbeats EXCEPT ![s].alerted = heartbeats[s].alerted \/ there]
    BY <1>1 DEF MarkAlerted
  <2> QED
    BY <2>1
<1>4. /\ heartbeats' \in [Sources -> HeartbeatType]
      /\ \A u \in Sources \ {s} : heartbeats'[u] = heartbeats[u]
      /\ \A u \in Sources : heartbeats'[u].here = heartbeats[u].here
      /\ heartbeats'[s].alerted = a
  BY <1>1, <1>2, <1>3 DEF HeartbeatType
<1>5. \/ run' = [run EXCEPT ![r] = NoRun]
      \/ \E next \in run[r].list :
            run' = [run EXCEPT ![r].list = @ \ {next}, ![r].row = next,
                               ![r].step = "publish"]
  BY DEF MarkAlerted, EndRun
<1>6. /\ run' \in [Runs -> RunType \union {NoRun}]
      /\ \A q \in Runs \ {r} : run'[q] = run[q]
      /\ \/ run'[r] = NoRun
         \/ /\ run'[r] \in RunType /\ run'[r].step = "publish"
            /\ run'[r].row \in run[r].list
            /\ run'[r].list = run[r].list \ {run'[r].row}
            /\ run'[r].pulsed = run[r].pulsed /\ run'[r].gone = run[r].gone
  <2>1. CASE run' = [run EXCEPT ![r] = NoRun]
    BY <1>2, <2>1
  <2>2. ASSUME NEW next \in run[r].list,
               run' = [run EXCEPT ![r].list = @ \ {next}, ![r].row = next,
                                  ![r].step = "publish"]
        PROVE  /\ run' \in [Runs -> RunType \union {NoRun}]
               /\ \A q \in Runs \ {r} : run'[q] = run[q]
               /\ run'[r] \in RunType /\ run'[r].step = "publish"
               /\ run'[r].row = next
               /\ run'[r].list = run[r].list \ {next}
               /\ run'[r].pulsed = run[r].pulsed /\ run'[r].gone = run[r].gone
    BY <1>1, <1>2, <2>2 DEF RunType
  <2> QED
    BY <1>5, <2>1, <2>2
<1> QED
  BY <1>1, <1>3, <1>4, <1>6

LEMMA MarkKeepsHeart ==
    ASSUME HeartInv, NEW r \in Runs, MarkAlerted(r)
    PROVE  HeartInv'
<1> USE HeartTypes, MarkOutcome DEF HeartInv
<1> DEFINE s == run[r].row
<1>1. /\ UNCHANGED <<producerVars, alerts, unstamped>>
      /\ masked' = IF heartbeats[s].here /\ s \notin run[r].gone /\ s \in run[r].pulsed
                   THEN masked \union {s} ELSE masked
  BY DEF MarkAlerted
<1>2. HeartbeatTypeOK'
  <2>1. ProducerTypeOK'
    BY <1>1 DEF HeartbeatTypeOK, ProducerTypeOK, producerVars
  <2>2. alerts' \in [Sources -> 0 .. 2] /\ {masked', unstamped'} \subseteq SUBSET Sources
    BY <1>1 DEF HeartbeatTypeOK
  <2> QED
    BY <2>1, <2>2 DEF HeartbeatTypeOK
<1>3. StampedMeansAlerted'
  <2>1. ASSUME NEW u \in Sources \ {s}, heartbeats'[u].alerted
        PROVE  alerts'[u] > 0 \/ u \in masked'
    BY <1>1, <2>1 DEF StampedMeansAlerted
  <2>2. ASSUME heartbeats'[s].alerted PROVE alerts'[s] > 0 \/ s \in masked'
    <3>1. CASE heartbeats[s].alerted
      BY <1>1, <3>1 DEF StampedMeansAlerted
    <3>2. CASE heartbeats[s].here /\ s \notin run[r].gone
      BY <1>1, <3>2 DEF RunFits
    <3> QED
      BY <2>2, <3>1, <3>2
  <2> QED
    BY <2>1, <2>2 DEF StampedMeansAlerted
<1>4. ASSUME NEW q \in Runs PROVE RunFits(q)'
  <2>1. CASE q = r
    BY <2>1 DEF RunFits
  <2>2. CASE q # r
    BY <1>1, <2>2 DEF RunFits
  <2> QED
    BY <2>1, <2>2
<1> QED
  BY <1>2, <1>3, <1>4

LEMMA SelectOutcome ==
    ASSUME HeartInv, NEW r \in Runs, SelectStale(r)
    PROVE  /\ run[r] = NoRun
           /\ run' \in [Runs -> RunType \union {NoRun}]
           /\ \A q \in Runs \ {r} : run'[q] = run[q]
           /\ run'[r] \in RunType /\ run'[r].step = "publish"
           /\ run'[r].gone = {} /\ run'[r].row \notin run'[r].list
           /\ \A s \in run'[r].list \union {run'[r].row} :
                 s \in Sources /\ Stale(heartbeats[s])
<1> DEFINE stale == {s \in Sources : Stale(heartbeats[s])}
<1>1. PICK s \in stale :
        run' = [run EXCEPT ![r] = [list |-> stale \ {s}, row |-> s,
                                   step |-> "publish", pulsed |-> {}, gone |-> {}]]
  BY DEF SelectStale
<1>2. [list |-> stale \ {s}, row |-> s, step |-> "publish", pulsed |-> {}, gone |-> {}]
        \in RunType
  BY DEF RunType
<1>3. run \in [Runs -> RunType \union {NoRun}] /\ run[r] = NoRun
  BY DEF SelectStale, HeartInv, HeartbeatTypeOK
<1> QED
  BY <1>1, <1>2, <1>3

LEMMA SelectKeepsHeart ==
    ASSUME HeartInv, NEW r \in Runs, SelectStale(r)
    PROVE  HeartInv'
<1>1. UNCHANGED <<producerVars, heartbeats, alerts, masked, unstamped>>
  BY DEF SelectStale
<1>2. HeartbeatTypeOK' /\ StampedMeansAlerted'
  BY <1>1, SelectOutcome
     DEF HeartInv, HeartbeatTypeOK, ProducerTypeOK, producerVars, StampedMeansAlerted
<1>3. ASSUME NEW q \in Runs PROVE RunFits(q)'
  BY <1>1, SelectOutcome DEF HeartInv, RunFits
<1> QED
  BY <1>2, <1>3 DEF HeartInv

(* The steps around the send stamp nothing; the answer counts an alert.    *)
LEMMA SendOutcome ==
    ASSUME HeartInv, NEW r \in Runs, PublishAlert(r) \/ AlertSent(r)
    PROVE  /\ run[r] # NoRun /\ run[r].row \in Sources
           /\ UNCHANGED <<heartbeats, masked, unstamped>>
           /\ ProducerTypeOK'
           /\ run' \in [Runs -> RunType \union {NoRun}]
           /\ \A q \in Runs \ {r} : run'[q] = run[q]
           /\ alerts' \in [Sources -> 0 .. 2]
           /\ \A u \in Sources \ {run[r].row} : alerts'[u] = alerts[u]
           /\ \/ run'[r] = NoRun /\ alerts' = alerts
              \/ /\ run'[r] \in RunType
                 /\ run'[r].row = run[r].row /\ run'[r].list = run[r].list
                 /\ run'[r].pulsed = run[r].pulsed /\ run'[r].gone = run[r].gone
                 /\ \/ run[r].step = "publish" /\ run'[r].step = "wait" /\ alerts' = alerts
                    \/ /\ run[r].step = "wait" /\ run'[r].step = "mark"
                       /\ alerts'[run[r].row] = IF run[r].row \in run[r].gone
                                                   \/ alerts[run[r].row] = 2
                                                THEN alerts[run[r].row]
                                                ELSE alerts[run[r].row] + 1
<1> USE HeartTypes DEF HeartInv
<1>1. /\ run \in [Runs -> RunType \union {NoRun}] /\ alerts \in [Sources -> 0 .. 2]
      /\ ProducerTypeOK
  BY DEF HeartbeatTypeOK
<1>2. CASE PublishAlert(r)
  <2>1. /\ run[r] # NoRun /\ run[r].step = "publish"
        /\ UNCHANGED <<heartbeats, alerts, masked, unstamped>>
        /\ GetProducer(r) \/ SendThrows(r)
        /\ \/ run' = [run EXCEPT ![r].step = "wait"]
           \/ run' = [run EXCEPT ![r] = NoRun]
    BY <1>2 DEF PublishAlert, EndRun
  <2>2. ProducerTypeOK'
    BY <1>1, <2>1, ProducerSteps DEF Publishers
  <2>3. /\ run' \in [Runs -> RunType \union {NoRun}]
        /\ \A q \in Runs \ {r} : run'[q] = run[q]
        /\ \/ run'[r] = NoRun
           \/ /\ run'[r] \in RunType /\ run'[r].step = "wait"
              /\ run'[r].row = run[r].row /\ run'[r].list = run[r].list
              /\ run'[r].pulsed = run[r].pulsed /\ run'[r].gone = run[r].gone
    BY <1>1, <2>1 DEF RunType
  <2> QED
    BY <1>1, <2>1, <2>2, <2>3
<1>3. CASE AlertSent(r)
  <2> DEFINE s == run[r].row
  <2>1. /\ run[r] # NoRun /\ run[r].step = "wait" /\ s \in Sources
        /\ UNCHANGED <<heartbeats, masked, unstamped>>
        /\ Sent(r)
        /\ run' = [run EXCEPT ![r].step = "mark"]
        /\ alerts' = [alerts EXCEPT ![s] = IF s \in run[r].gone \/ @ = 2 THEN @ ELSE @ + 1]
    BY <1>3 DEF AlertSent
  <2>2. ProducerTypeOK'
    BY <1>1, <2>1, ProducerSteps DEF Publishers
  <2>3. /\ run' \in [Runs -> RunType \union {NoRun}]
        /\ \A q \in Runs \ {r} : run'[q] = run[q]
        /\ run'[r] \in RunType /\ run'[r].step = "mark"
        /\ run'[r].row = run[r].row /\ run'[r].list = run[r].list
        /\ run'[r].pulsed = run[r].pulsed /\ run'[r].gone = run[r].gone
    BY <1>1, <2>1 DEF RunType
  <2>4. PICK n : /\ n = IF s \in run[r].gone \/ alerts[s] = 2 THEN alerts[s]
                        ELSE alerts[s] + 1
                 /\ alerts' = [alerts EXCEPT ![s] = n]
    BY <2>1
  <2>5. n \in 0 .. 2
    BY <2>1, <2>4
  <2>6. /\ alerts' \in [Sources -> 0 .. 2] /\ alerts'[s] = n
        /\ \A u \in Sources \ {s} : alerts'[u] = alerts[u]
    BY <1>1, <2>1, <2>4, <2>5
  <2> QED
    BY <2>1, <2>2, <2>3, <2>4, <2>6
<1> QED
  BY <1>2, <1>3

LEMMA SendKeepsHeart ==
    ASSUME HeartInv, NEW r \in Runs, PublishAlert(r) \/ AlertSent(r)
    PROVE  HeartInv'
<1> USE HeartTypes, SendOutcome DEF HeartInv
<1>1. HeartbeatTypeOK'
  BY DEF HeartbeatTypeOK
<1>2. \A u \in Sources : alerts[u] > 0 => alerts'[u] > 0
  <2>1. ASSUME NEW u \in Sources, alerts[u] > 0 PROVE alerts'[u] > 0
    <3>1. CASE u = run[r].row
      BY <2>1, <3>1
    <3>2. CASE u # run[r].row
      BY <2>1, <3>2
    <3> QED
      BY <3>1, <3>2
  <2> QED
    BY <2>1
<1>3. StampedMeansAlerted'
  BY <1>2 DEF StampedMeansAlerted
<1>4. ASSUME NEW q \in Runs PROVE RunFits(q)'
  <2>1. CASE q = r
    <3>1. ASSUME run'[r] # NoRun, run'[r].step = "mark"
          PROVE  run[r].row \in run[r].gone \/ alerts'[run[r].row] > 0
      BY <3>1
    <3> QED
      BY <2>1, <3>1 DEF RunFits
  <2>2. CASE q # r
    BY <1>2, <2>2 DEF RunFits
  <2> QED
    BY <2>1, <2>2
<1> QED
  BY <1>1, <1>3, <1>4

(* A run that ends early, by an error or a crash, has stamped nothing.     *)
LEMMA RunsEndKeepsHeart ==
    ASSUME HeartInv, ProducerTypeOK', UNCHANGED <<heartbeats, alerts, masked>>,
           unstamped' \subseteq Sources,
           run' \in [Runs -> RunType \union {NoRun}],
           \A q \in Runs : run'[q] \in {run[q], NoRun}
    PROVE  HeartInv'
<1>1. HeartbeatTypeOK' /\ StampedMeansAlerted'
  BY DEF HeartInv, HeartbeatTypeOK, StampedMeansAlerted
<1>2. ASSUME NEW q \in Runs PROVE RunFits(q)'
  BY DEF HeartInv, RunFits
<1> QED
  BY <1>1, <1>2 DEF HeartInv

LEMMA ThrowOutcome ==
    ASSUME HeartInv, NEW p \in Publishers,
           CheckThrow(p) \/ ProducerConnected(p) \/ OthersPublish(p)
    PROVE  /\ ProducerTypeOK' /\ UNCHANGED <<heartbeats, alerts, masked>>
           /\ unstamped' \subseteq Sources
           /\ run' \in [Runs -> RunType \union {NoRun}]
           /\ \A q \in Runs : run'[q] \in {run[q], NoRun}
<1>1. ProducerTypeOK /\ run \in [Runs -> RunType \union {NoRun}]
  BY DEF HeartInv, HeartbeatTypeOK
<1>2. ProducerTypeOK'
  <2>1. CASE UNCHANGED producerVars
    BY <1>1, <2>1 DEF ProducerTypeOK, producerVars
  <2>2. CASE ~UNCHANGED producerVars
    BY <1>1, <2>2, ProducerSteps DEF CheckThrow, ProducerConnected, OthersPublish
  <2> QED
    BY <2>1, <2>2
<1>3. unstamped' \subseteq Sources
  <2>1. unstamped \subseteq Sources
    BY DEF HeartInv, HeartbeatTypeOK
  <2>2. \A S : UNION {Reported(r) : r \in S} \subseteq Sources
    BY DEF Reported
  <2> QED
    BY <2>1, <2>2 DEF CheckThrow, ProducerConnected, OthersPublish
<1> QED
  BY <1>1, <1>2, <1>3 DEF CheckThrow, ProducerConnected, OthersPublish

LEMMA CrashOutcome ==
    ASSUME HeartInv, KillChecks
    PROVE  /\ ProducerTypeOK' /\ UNCHANGED <<heartbeats, alerts, masked>>
           /\ unstamped' \subseteq Sources
           /\ run' \in [Runs -> RunType \union {NoRun}]
           /\ \A q \in Runs : run'[q] \in {run[q], NoRun}
BY DEF KillChecks, ProducerTypeOK, HeartInv, HeartbeatTypeOK, Reported

LEMMA HeartNextKeepsHeart ==
    ASSUME HeartInv, HeartNext
    PROVE  HeartInv'
<1>1. ASSUME NEW s \in Sources, NEW i \in Intervals, Pulse(s, i) PROVE HeartInv'
  BY <1>1, RestartKeepsHeart
<1>2. ASSUME NEW s \in Sources, DeleteHeartbeat(s) PROVE HeartInv'
  BY <1>2, RestartKeepsHeart
<1>3. CASE HeartTick
  BY <1>3, TickKeepsHeart
<1>4. ASSUME NEW r \in Runs, SelectStale(r) \/ CheckStep(r) PROVE HeartInv'
  BY <1>4, SelectKeepsHeart, SendKeepsHeart, MarkKeepsHeart DEF CheckStep
<1>5. ASSUME NEW p \in Publishers,
             CheckThrow(p) \/ ProducerConnected(p) \/ OthersPublish(p)
      PROVE  HeartInv'
  BY <1>5, ThrowOutcome, RunsEndKeepsHeart
<1> QED
  BY <1>1, <1>2, <1>3, <1>4, <1>5 DEF HeartNext, Publishers

(* Events and their handlers use the producer, and no heartbeat.           *)
LEMMA IngestKeepsProducer ==
    ASSUME ProducerTypeOK, IngestNext
    PROVE  ProducerTypeOK'
<1>1. ASSUME UNCHANGED producerVars PROVE ProducerTypeOK'
  BY <1>1 DEF ProducerTypeOK, producerVars
<1>2. ASSUME NEW h \in Handlers, HandlerStep(h) PROVE ProducerTypeOK'
  BY <1>1, <1>2 DEF HandlerStep, ReadTenant, SelectRules, CallReturns, CallThrows
<1>3. ASSUME NEW h \in Handlers, HandlerThrow(h) PROVE ProducerTypeOK'
  <2>1. UNCHANGED producerVars \/ PublishThrow(h)
    BY <1>3 DEF HandlerThrow
  <2>2. CASE PublishThrow(h)
    <3>1. ppc' = [ppc EXCEPT ![h] = "idle"] /\ producer' = producer
      BY <2>2 DEF PublishThrow, PGoto
    <3> QED
      BY <3>1 DEF ProducerTypeOK
  <2> QED
    BY <1>1, <2>1, <2>2
<1>4. CASE ConsumerStep
  BY <1>1, <1>2, <1>4 DEF ConsumerStep, ConsumerStarts, FindPosition, CommitPosition,
                          FetchMessage, Handlers
<1>5. ASSUME NEW r \in Rules, NEW rule \in RuleChoices,
             CreateRule(r, rule) \/ UpdateRule(r, rule) \/ DeleteRule(r)
      PROVE  ProducerTypeOK'
  BY <1>1, <1>5 DEF CreateRule, UpdateRule, DeleteRule, EditRule
<1>6. ASSUME NEW q \in Requests, NEW e \in Events, PostEvent(q, e) PROVE ProducerTypeOK'
  BY <1>1, <1>6 DEF PostEvent
<1>7. ASSUME NEW q \in Requests, Publish(q) \/ Connected(q) PROVE ProducerTypeOK'
  BY <1>7, ProducerSteps DEF Publish, Publishers
<1>8. ASSUME NEW r \in Rules, DeleteRule(r) PROVE ProducerTypeOK'
  BY <1>1, <1>8 DEF DeleteRule, EditRule
<1>9. ASSUME NEW e \in Events, PublishMalformed(e) PROVE ProducerTypeOK'
  BY <1>1, <1>9 DEF PublishMalformed
<1>10. CASE ConsumerFails
  BY <1>1, <1>10 DEF ConsumerFails
<1>11. ASSUME NEW t \in Tenants, NEW user \in Recipients, NEW known \in BOOLEAN,
              PutQuietHours(t, user, known)
       PROVE  ProducerTypeOK'
  BY <1>1, <1>11 DEF PutQuietHours
<1> QED
  BY <1>2, <1>3, <1>4, <1>5, <1>6, <1>7, <1>8, <1>9, <1>10, <1>11 DEF IngestNext

LEMMA HeartInvNext ==
    ASSUME HeartInv, [WorkersNext]_workerVars
    PROVE  HeartInv'
<1>1. ASSUME ProducerTypeOK', UNCHANGED <<heartbeats, run, alerts, masked, unstamped>>
      PROVE  HeartInv'
  BY <1>1, RunsEndKeepsHeart DEF HeartInv, HeartbeatTypeOK
<1>2. ASSUME UNCHANGED heartVars PROVE HeartInv'
  <2>1. ProducerTypeOK'
    BY <1>2 DEF heartVars, producerVars, ProducerTypeOK, HeartInv, HeartbeatTypeOK
  <2> QED
    BY <1>1, <1>2, <2>1 DEF heartVars
<1>3. CASE HeartNext
  BY <1>3, HeartNextKeepsHeart
<1>4. CASE IngestNext /\ UNCHANGED <<heartbeats, run, alerts, masked, unstamped>>
  BY <1>1, <1>4, IngestKeepsProducer DEF HeartInv, HeartbeatTypeOK
<1>5. CASE ServerCrash
  BY <1>5, CrashOutcome, RunsEndKeepsHeart DEF ServerCrash
<1>6. CASE UNCHANGED workerVars
  BY <1>2, <1>6 DEF workerVars
<1> QED
  BY <1>2, <1>3, <1>4, <1>5, <1>6 DEF WorkersNext

(* No row is stamped without an event for the absence, however many runs   *)
(* of the checker overlap, unless it pulsed between SELECT and UPDATE.     *)
THEOREM NoStampWithoutAlert == WorkersSpec => []StampedMeansAlerted
<1>1. HeartInv => StampedMeansAlerted
  BY DEF HeartInv
<1> QED
  BY HeartInvInit, HeartInvNext, <1>1, PTL DEF WorkersSpec

-----------------------------------------------------------------------------
(* One alert for an absence, as long as no run of the checker starts while *)
(* another is not done, which setInterval alone does not prevent.          *)

OneChecker == \A q, r \in Runs : q = r

Waiting(r) == run[r].list \union (IF run[r].step = "mark" THEN {} ELSE {run[r].row})

(* What a run has yet to send or to stamp has no stamp, and had no alert,  *)
(* unless another run's stamp failed.                                      *)
RunOnce(r) ==
    run[r] # NoRun =>
        /\ run[r].row \notin run[r].list
        /\ \A s \in Waiting(r) : alerts[s] = 0 \/ s \in unstamped
        /\ \A s \in run[r].list \union {run[r].row} :
              /\ ~heartbeats[s].alerted
              /\ heartbeats[s].here \/ s \in run[r].gone

(* An absence that has had its event is stamped or about to be, or its     *)
(* stamp failed.                                                           *)
AlertedOnce(s) ==
    \/ s \in unstamped
    \/ alerts[s] = 0
    \/ alerts[s] = 1 /\ heartbeats[s].alerted
    \/ alerts[s] = 1 /\ \E r \in Runs : /\ run[r] # NoRun /\ run[r].step = "mark"
                                       /\ run[r].row = s /\ s \notin run[r].gone

CheckedOnce == (\A r \in Runs : RunOnce(r)) /\ (\A s \in Sources : AlertedOnce(s))

OnceInv == HeartInv /\ CheckedOnce

LEMMA OnceInvInit == WorkersInit => OnceInv
<1> SUFFICES ASSUME WorkersInit PROVE OnceInv
  OBVIOUS
<1>1. CheckedOnce
  BY DEF WorkersInit, HeartbeatInit, CheckedOnce, RunOnce, AlertedOnce
<1> QED
  BY <1>1, HeartInvInit DEF OnceInv

LEMMA RestartKeepsOnce ==
    ASSUME HeartInv, CheckedOnce, NEW s \in Sources,
           (\E i \in Intervals : Pulse(s, i)) \/ DeleteHeartbeat(s)
    PROVE  CheckedOnce'
<1> USE HeartTypes, RestartKeepsHeart DEF CheckedOnce
<1>1. /\ alerts'[s] = 0 /\ \A u \in Sources \ {s} : alerts'[u] = alerts[u]
      /\ unstamped' = unstamped \ {s}
  BY DEF HeartInv, HeartbeatTypeOK
<1>2. ASSUME NEW r \in Runs, run'[r] # NoRun PROVE RunOnce(r)'
  <2>1. /\ run[r] # NoRun /\ run[r] \in RunType
        /\ run'[r].list = run[r].list /\ run'[r].row = run[r].row
        /\ run'[r].step = run[r].step /\ run[r].gone \subseteq run'[r].gone
        /\ heartbeats'[s].here \/ s \in run'[r].gone
    BY <1>2 DEF HeartInv
  <2>2. \A u \in Waiting(r) : alerts'[u] = 0 \/ u \in unstamped'
    BY <1>1, <2>1 DEF RunOnce, Waiting, RunType
  <2>3. \A u \in run[r].list \union {run[r].row} :
           ~heartbeats'[u].alerted /\ (heartbeats'[u].here \/ u \in run'[r].gone)
    BY <2>1 DEF RunOnce, RunType
  <2>4. run[r].row \notin run[r].list
    BY <2>1 DEF RunOnce
  <2> QED
    BY <2>1, <2>2, <2>3, <2>4 DEF RunOnce, Waiting
<1>3. ASSUME NEW u \in Sources PROVE AlertedOnce(u)'
  <2>1. CASE u = s
    BY <1>1, <2>1 DEF AlertedOnce
  <2>2. CASE u # s
    <3>1. ASSUME NEW r \in Runs, run[r] # NoRun, run[r].step = "mark", run[r].row = u,
                 u \notin run[r].gone
          PROVE  /\ run'[r] # NoRun /\ run'[r].step = "mark"
                 /\ run'[r].row = u /\ u \notin run'[r].gone
      <4>1. run'[r].row = run[r].row /\ run'[r].step = run[r].step
            /\ run'[r].gone \subseteq run[r].gone \union {s}
        BY <3>1
      <4>2. run'[r] # NoRun
        BY <3>1, HeartbeatAssumption
      <4> QED
        BY <2>2, <3>1, <4>1, <4>2
    <3> QED
      BY <1>1, <2>2, <3>1 DEF AlertedOnce
  <2> QED
    BY <2>1, <2>2
<1>4. ASSUME NEW r \in Runs PROVE RunOnce(r)'
  BY <1>2 DEF RunOnce
<1> QED
  BY <1>3, <1>4

LEMMA MarkKeepsOnce ==
    ASSUME OneChecker, HeartInv, CheckedOnce, NEW r \in Runs, MarkAlerted(r)
    PROVE  CheckedOnce'
<1> USE HeartTypes, MarkOutcome DEF CheckedOnce, HeartInv
<1> DEFINE s == run[r].row
<1>1. alerts' = alerts /\ unstamped' = unstamped
  BY DEF MarkAlerted
<1>2. /\ s \notin run[r].list
      /\ \A u \in run[r].list : /\ alerts[u] = 0 \/ u \in unstamped
                                /\ ~heartbeats[u].alerted
                                /\ heartbeats[u].here \/ u \in run[r].gone
      /\ heartbeats[s].here \/ s \in run[r].gone
  BY DEF RunOnce, Waiting
<1>3. \A u \in run[r].list : u \in Sources \ {s}
  BY <1>2
<1>4. ASSUME run'[r] # NoRun PROVE RunOnce(r)'
  <2>1. run'[r].list \union {run'[r].row} \subseteq run[r].list
    BY <1>4
  <2>2. \A u \in run[r].list : /\ alerts'[u] = 0 \/ u \in unstamped'
                               /\ ~heartbeats'[u].alerted
                               /\ heartbeats'[u].here \/ u \in run'[r].gone
    BY <1>1, <1>2, <1>3, <1>4
  <2>3. run'[r].row \notin run'[r].list /\ run'[r].step = "publish"
    BY <1>4
  <2>4. Waiting(r)' \subseteq run[r].list
    BY <2>1, <2>3 DEF Waiting
  <2> QED
    BY <2>1, <2>2, <2>3, <2>4 DEF RunOnce
<1>5. \A q \in Runs : RunOnce(q)'
  BY <1>4 DEF RunOnce, OneChecker
<1>6. ASSUME NEW u \in Sources PROVE AlertedOnce(u)'
  <2>1. CASE u \in unstamped \/ alerts[u] = 0
    BY <1>1, <2>1 DEF AlertedOnce
  <2>2. CASE alerts[u] = 1
    <3>1. CASE heartbeats[u].alerted
      BY <1>1, <2>2, <3>1 DEF AlertedOnce
    <3>2. CASE ~heartbeats[u].alerted /\ u \notin unstamped
      <4>1. u = s /\ s \notin run[r].gone
        BY <2>2, <3>2 DEF AlertedOnce, OneChecker
      <4>2. heartbeats'[u].alerted
        BY <1>2, <4>1
      <4> QED
        BY <1>1, <2>2, <4>2 DEF AlertedOnce
    <3> QED
      BY <2>1, <3>1, <3>2
  <2> QED
    BY <2>1, <2>2 DEF AlertedOnce
<1> QED
  BY <1>5, <1>6

LEMMA SelectKeepsOnce ==
    ASSUME OneChecker, HeartInv, CheckedOnce, NEW r \in Runs, SelectStale(r)
    PROVE  CheckedOnce'
<1> USE HeartTypes, SelectOutcome DEF CheckedOnce, HeartInv
<1>1. alerts' = alerts /\ heartbeats' = heartbeats /\ unstamped' = unstamped
  BY DEF SelectStale
<1>2. \A q \in Runs : run[q] = NoRun
  BY DEF OneChecker
<1>3. ASSUME NEW s \in run'[r].list \union {run'[r].row}
      PROVE  /\ alerts[s] = 0 \/ s \in unstamped
             /\ ~heartbeats[s].alerted /\ heartbeats[s].here
  <2>1. s \in Sources /\ ~heartbeats[s].alerted /\ heartbeats[s].here
    BY DEF Stale
  <2>2. alerts[s] = 0 \/ s \in unstamped
    BY <1>2, <2>1 DEF AlertedOnce
  <2> QED
    BY <2>1, <2>2
<1>4. RunOnce(r)'
  BY <1>1, <1>3 DEF RunOnce, Waiting
<1>5. \A q \in Runs : RunOnce(q)'
  BY <1>4 DEF OneChecker
<1>6. ASSUME NEW u \in Sources PROVE AlertedOnce(u)'
  BY <1>1, <1>2 DEF AlertedOnce
<1> QED
  BY <1>5, <1>6

LEMMA SendKeepsOnce ==
    ASSUME OneChecker, HeartInv, CheckedOnce, NEW r \in Runs,
           PublishAlert(r) \/ AlertSent(r)
    PROVE  CheckedOnce'
<1> USE HeartTypes, SendOutcome DEF CheckedOnce, HeartInv
<1> DEFINE s == run[r].row
<1>1. /\ heartbeats' = heartbeats /\ unstamped' = unstamped
      /\ s \in Sources /\ run[r] # NoRun
  OBVIOUS
<1>2. run[r].step # "mark"
  BY DEF PublishAlert, AlertSent
<1>3. /\ s \notin run[r].list
      /\ \A u \in run[r].list \union {s} :
            /\ alerts[u] = 0 \/ u \in unstamped
            /\ ~heartbeats[u].alerted
            /\ heartbeats[u].here \/ u \in run[r].gone
  BY <1>1, <1>2 DEF RunOnce, Waiting
<1>4. ASSUME run'[r] # NoRun PROVE RunOnce(r)'
  <2>1. run'[r].row = s /\ run'[r].list = run[r].list /\ run'[r].gone = run[r].gone
    BY <1>4
  <2>2. \A u \in run[r].list : alerts'[u] = 0 \/ u \in unstamped'
    BY <1>1, <1>3
  <2>3. run'[r].step # "mark" => alerts'[s] = 0 \/ s \in unstamped'
    BY <1>1, <1>3, <1>4
  <2>4. \A u \in Waiting(r)' : alerts'[u] = 0 \/ u \in unstamped'
    BY <2>1, <2>2, <2>3 DEF Waiting
  <2> QED
    BY <1>1, <1>3, <2>1, <2>4 DEF RunOnce
<1>5. \A q \in Runs : RunOnce(q)'
  BY <1>4 DEF RunOnce, OneChecker
<1>6. ASSUME NEW u \in Sources PROVE AlertedOnce(u)'
  <2>1. u \in unstamped \/ alerts[u] = 0 \/ (alerts[u] = 1 /\ heartbeats[u].alerted)
    BY <1>2 DEF AlertedOnce, OneChecker
  <2>2. CASE u # s
    BY <1>1, <2>1, <2>2 DEF AlertedOnce
  <2>3. CASE u = s
    <3>1. CASE s \in unstamped
      BY <1>1, <2>3, <3>1 DEF AlertedOnce
    <3>2. CASE alerts[s] = 0
      <4>1. \/ alerts'[s] = 0
            \/ /\ alerts'[s] = 1 /\ s \notin run[r].gone
               /\ run'[r] \in RunType /\ run'[r].step = "mark"
               /\ run'[r].row = s /\ run'[r].gone = run[r].gone
        BY <3>2
      <4> QED
        BY <2>3, <4>1, HeartbeatAssumption DEF AlertedOnce
    <3> QED
      BY <1>3, <3>1, <3>2
  <2> QED
    BY <2>2, <2>3
<1> QED
  BY <1>5, <1>6

LEMMA FrameKeepsOnce ==
    ASSUME CheckedOnce, UNCHANGED <<run, alerts, unstamped>>,
           \A s \in Sources : /\ heartbeats'[s].here = heartbeats[s].here
                              /\ heartbeats'[s].alerted = heartbeats[s].alerted,
           HeartInv
    PROVE  CheckedOnce'
<1> USE HeartTypes DEF CheckedOnce, HeartInv
<1>1. ASSUME NEW r \in Runs PROVE RunOnce(r)'
  <2>1. ASSUME run[r] # NoRun
        PROVE  Waiting(r) \subseteq Sources /\ run[r].list \union {run[r].row} \subseteq Sources
    BY <2>1 DEF Waiting
  <2> QED
    BY <2>1 DEF RunOnce, Waiting
<1>2. ASSUME NEW s \in Sources PROVE AlertedOnce(s)'
  BY DEF AlertedOnce
<1> QED
  BY <1>1, <1>2

(* A run that an error or a crash ends leaves no row reported and neither  *)
(* stamped nor noted.                                                      *)
LEMMA RunsEndKeepsOnce ==
    ASSUME HeartInv, CheckedOnce, NEW D,
           \A r \in Runs : run'[r] = IF r \in D THEN NoRun ELSE run[r],
           unstamped' = unstamped \union UNION {Reported(r) : r \in Runs \intersect D},
           UNCHANGED <<heartbeats, alerts>>
    PROVE  CheckedOnce'
<1> USE HeartTypes DEF CheckedOnce, HeartInv
<1>1. unstamped \subseteq unstamped'
  OBVIOUS
<1>2. ASSUME NEW r \in Runs PROVE RunOnce(r)'
  <2>1. CASE r \in D
    BY <2>1 DEF RunOnce
  <2>2. CASE r \notin D
    BY <1>1, <2>2 DEF RunOnce, Waiting
  <2> QED
    BY <2>1, <2>2
<1>3. ASSUME NEW s \in Sources PROVE AlertedOnce(s)'
  <2>1. CASE \E r \in Runs : /\ run[r] # NoRun /\ run[r].step = "mark"
                             /\ run[r].row = s /\ s \notin run[r].gone
    <3>1. PICK r \in Runs : /\ run[r] # NoRun /\ run[r].step = "mark"
                            /\ run[r].row = s /\ s \notin run[r].gone
      BY <2>1
    <3>2. CASE r \notin D
      <4>1. run'[r] = run[r]
        BY <3>2
      <4> QED
        BY <1>1, <3>1, <4>1 DEF AlertedOnce
    <3>3. CASE r \in D
      <4>1. alerts[s] = 1 => s \in Reported(r)
        BY <3>1 DEF Reported
      <4>2. Reported(r) \subseteq unstamped'
        BY <3>3
      <4> QED
        BY <1>1, <4>1, <4>2 DEF AlertedOnce
    <3> QED
      BY <3>2, <3>3
  <2>2. CASE ~\E r \in Runs : /\ run[r] # NoRun /\ run[r].step = "mark"
                              /\ run[r].row = s /\ s \notin run[r].gone
    BY <1>1, <2>2 DEF AlertedOnce
  <2> QED
    BY <2>1, <2>2
<1> QED
  BY <1>2, <1>3

LEMMA OnceInvNext ==
    ASSUME OneChecker, OnceInv, [WorkersNext]_workerVars
    PROVE  OnceInv'
<1> USE DEF OnceInv
<1>1. HeartInv'
  BY HeartInvNext
<1>2. CASE HeartNext
  <2>1. ASSUME NEW s \in Sources, NEW i \in Intervals, Pulse(s, i) PROVE CheckedOnce'
    BY <2>1, RestartKeepsOnce
  <2>2. ASSUME NEW s \in Sources, DeleteHeartbeat(s) PROVE CheckedOnce'
    BY <2>2, RestartKeepsOnce
  <2>3. CASE HeartTick
    <3>1. UNCHANGED <<run, alerts, unstamped>>
      BY <2>3 DEF HeartTick
    <3> QED
      BY <2>3, <3>1, TickKeepsHeart, FrameKeepsOnce
  <2>4. ASSUME NEW r \in Runs, SelectStale(r) \/ CheckStep(r) PROVE CheckedOnce'
    BY <2>4, SelectKeepsOnce, SendKeepsOnce, MarkKeepsOnce DEF CheckStep
  <2>5. ASSUME NEW p \in Publishers, ProducerConnected(p) \/ OthersPublish(p)
        PROVE  CheckedOnce'
    <3>1. UNCHANGED <<run, alerts, unstamped, heartbeats>>
      BY <2>5 DEF ProducerConnected, OthersPublish
    <3> QED
      BY <3>1, FrameKeepsOnce
  <2>6. ASSUME NEW p \in Publishers, CheckThrow(p) PROVE CheckedOnce'
    <3>1. /\ \A r \in Runs : run'[r] = IF r \in {p} THEN NoRun ELSE run[r]
          /\ unstamped' = unstamped \union UNION {Reported(r) : r \in Runs \intersect {p}}
          /\ UNCHANGED <<heartbeats, alerts>>
      BY <2>6 DEF CheckThrow
    <3> QED
      BY <3>1, RunsEndKeepsOnce
  <2> QED
    BY <1>1, <1>2, <2>1, <2>2, <2>3, <2>4, <2>5, <2>6 DEF HeartNext, Publishers
<1>3. CASE UNCHANGED <<heartbeats, run, alerts, masked, unstamped>>
  BY <1>1, <1>3, FrameKeepsOnce
<1>4. CASE ServerCrash
  <2>1. /\ \A r \in Runs : run'[r] = IF r \in Runs THEN NoRun ELSE run[r]
        /\ unstamped' = unstamped \union UNION {Reported(r) : r \in Runs \intersect Runs}
        /\ UNCHANGED <<heartbeats, alerts>>
    BY <1>4 DEF ServerCrash, KillChecks
  <2> QED
    BY <1>1, <2>1, RunsEndKeepsOnce
<1> QED
  BY <1>1, <1>2, <1>3, <1>4 DEF WorkersNext, workerVars, heartVars

(* A source is reported once for an absence, whatever fails, but one whose *)
(* own stamp a failure prevented, if no run of the checker starts while    *)
(* another is not done.                                                    *)
THEOREM AlertedAtMostOnce ==
    ASSUME OneChecker
    PROVE  WorkersSpec => []OneAlertPerAbsence
<1>1. WorkersInit => OnceInv
  BY OnceInvInit
<1>2. OnceInv /\ [WorkersNext]_workerVars => OnceInv'
  BY OnceInvNext
<1>3. OnceInv => OneAlertPerAbsence
  <2> SUFFICES ASSUME OnceInv, NEW s \in Sources, alerts[s] > 1 PROVE s \in unstamped
    BY DEF OneAlertPerAbsence
  <2> QED
    BY HeartTypes DEF OnceInv, HeartInv, CheckedOnce, AlertedOnce
<1> QED
  BY <1>1, <1>2, <1>3, PTL DEF WorkersSpec

-----------------------------------------------------------------------------
(* The telegram bot.                                                       *)

(* The token a user waits with was issued to it.                           *)
TokensFit ==
    \A u \in Users : linkToken[u] # 0 =>
        linkToken[u] \in DOMAIN issued /\ issued[linkToken[u]].user = u

(* Only a token that was issued is presented to a bot.                     *)
InboxFits ==
    \A b \in Bots : \A i \in DOMAIN inbox[b] : inbox[b][i].token \in DOMAIN issued

(* A poll is at an update its bot has got; once it has found the user, the *)
(* update's token is that user's, whatever became of it since.             *)
PollFits(p) ==
    bpc[p] \in {"batch", "link"} =>
        /\ batch[p] \in BatchType
        /\ batch[p].next <= batch[p].last
        /\ batch[p].last <= Len(inbox[batch[p].bot])
        /\ bpc[p] = "link" =>
              batch[p].user \in Users /\ issued[Update(p).token].user = batch[p].user

BotInv ==
    /\ BotTypeOK
    /\ TokensFit
    /\ InboxFits
    /\ \A p \in Polls : PollFits(p)
    /\ ChatPresentedItsToken

LEMMA BotTypes ==
    ASSUME BotTypeOK
    PROVE  /\ MaxTokens \in Nat /\ MaxUpdates \in Nat
           /\ Len(issued) \in 0 .. MaxTokens /\ DOMAIN issued = 1 .. Len(issued)
           /\ \A k \in 1 .. Len(issued) : issued[k] \in IssueType
           /\ \A b \in Bots :
                 /\ inbox[b] \in BoundedSeq(UpdateType, MaxUpdates)
                 /\ Len(inbox[b]) \in 0 .. MaxUpdates
                 /\ DOMAIN inbox[b] = 1 .. Len(inbox[b])
                 /\ \A i \in 1 .. Len(inbox[b]) :
                       /\ inbox[b][i] \in UpdateType
                       /\ inbox[b][i].token \in Tokens /\ inbox[b][i].chat \in Chats
<1>1. MaxTokens \in Nat /\ MaxUpdates \in Nat
  BY TelegramAssumption
<1>2. issued \in BoundedSeq(IssueType, MaxTokens)
  BY DEF BotTypeOK
<1>3. ASSUME NEW b \in Bots
      PROVE  /\ inbox[b] \in BoundedSeq(UpdateType, MaxUpdates)
             /\ Len(inbox[b]) \in 0 .. MaxUpdates
             /\ DOMAIN inbox[b] = 1 .. Len(inbox[b])
             /\ \A i \in 1 .. Len(inbox[b]) :
                   /\ inbox[b][i] \in UpdateType
                   /\ inbox[b][i].token \in Tokens /\ inbox[b][i].chat \in Chats
  <2>1. inbox[b] \in BoundedSeq(UpdateType, MaxUpdates)
    BY DEF BotTypeOK
  <2>2. /\ Len(inbox[b]) \in 0 .. MaxUpdates
        /\ DOMAIN inbox[b] = 1 .. Len(inbox[b])
        /\ \A i \in 1 .. Len(inbox[b]) : inbox[b][i] \in UpdateType
    BY <1>1, <2>1, BoundedSeqFacts
  <2> QED
    BY <2>1, <2>2 DEF UpdateType
<1>4. /\ Len(issued) \in 0 .. MaxTokens /\ DOMAIN issued = 1 .. Len(issued)
      /\ \A k \in 1 .. Len(issued) : issued[k] \in IssueType
  BY <1>1, <1>2, BoundedSeqFacts
<1> QED
  BY <1>1, <1>3, <1>4

LEMMA BotInvInit == WorkersInit => BotInv
<1> SUFFICES ASSUME WorkersInit PROVE BotInv
  OBVIOUS
<1> USE TelegramAssumption DEF WorkersInit, BotInit
<1>1. issued \in BoundedSeq(IssueType, MaxTokens)
  BY EmptyBounded
<1>2. inbox \in [Bots -> BoundedSeq(UpdateType, MaxUpdates)]
  BY EmptyBounded
<1>3. BotTypeOK
  BY <1>1, <1>2 DEF BotTypeOK
<1>4. TokensFit /\ InboxFits /\ ChatPresentedItsToken
  BY DEF TokensFit, InboxFits, ChatPresentedItsToken
<1>5. \A p \in Polls : PollFits(p)
  BY DEF PollFits
<1> QED
  BY <1>3, <1>4, <1>5 DEF BotInv

(* The update a poll is at.                                                *)
LEMMA AtUpdate ==
    ASSUME BotInv, NEW p \in Polls, bpc[p] \in {"batch", "link"}
    PROVE  /\ batch[p] \in BatchType
           /\ batch[p].tenant \in Tenants /\ batch[p].bot \in Bots
           /\ batch[p].next \in 1 .. Len(inbox[batch[p].bot])
           /\ batch[p].next \in 1 .. MaxUpdates
           /\ batch[p].last \in 1 .. MaxUpdates
           /\ batch[p].next <= batch[p].last
           /\ batch[p].last <= Len(inbox[batch[p].bot])
           /\ Update(p) \in UpdateType
           /\ Update(p).token \in Tokens /\ Update(p).token \in DOMAIN issued
           /\ Update(p).chat \in Chats
<1>1. /\ batch[p] \in BatchType
      /\ batch[p].next <= batch[p].last
      /\ batch[p].last <= Len(inbox[batch[p].bot])
  BY DEF BotInv, PollFits
<1>2. /\ batch[p].tenant \in Tenants /\ batch[p].bot \in Bots
      /\ batch[p].next \in 1 .. MaxUpdates + 1 /\ batch[p].last \in 1 .. MaxUpdates
  BY <1>1 DEF BatchType
<1>3. /\ MaxUpdates \in Nat /\ Len(inbox[batch[p].bot]) \in 0 .. MaxUpdates
      /\ DOMAIN inbox[batch[p].bot] = 1 .. Len(inbox[batch[p].bot])
  BY <1>2, BotTypes DEF BotInv
<1>4. batch[p].next \in 1 .. Len(inbox[batch[p].bot]) /\ batch[p].next \in 1 .. MaxUpdates
  BY <1>1, <1>2, <1>3
<1>5. /\ Update(p) \in UpdateType
      /\ Update(p).token \in Tokens /\ Update(p).chat \in Chats
  BY <1>2, <1>4, BotTypes DEF BotInv, Update
<1>6. Update(p).token \in DOMAIN issued
  BY <1>2, <1>3, <1>4 DEF BotInv, InboxFits, Update
<1> QED
  BY <1>1, <1>2, <1>4, <1>5, <1>6

-----------------------------------------------------------------------------
(* The polls: where they go does not touch what was issued or presented.   *)

PollsTypeOK ==
    /\ bpc \in [Polls -> {"idle", "fetch", "batch", "link"}]
    /\ list \in [Polls -> SUBSET (Tenants \X Bots)]
    /\ batch \in [Polls -> BatchType \union {NoUpdate}]

LEMMA OtherPolls ==
    ASSUME BotInv, NEW p \in Polls, UNCHANGED <<issued, inbox>>,
           PollsTypeOK', PollFits(p)',
           \A q \in Polls \ {p} : bpc'[q] = bpc[q] /\ batch'[q] = batch[q]
    PROVE  PollsTypeOK' /\ \A q \in Polls : PollFits(q)'
<1>1. ASSUME NEW q \in Polls \ {p} PROVE PollFits(q)'
  BY DEF BotInv, PollFits, Update
<1> QED
  BY <1>1

LEMMA NextTenantFits ==
    ASSUME BotInv, NEW p \in Polls, NEW rest \in SUBSET (Tenants \X Bots),
           NextTenant(p, rest), UNCHANGED <<issued, inbox>>
    PROVE  PollsTypeOK' /\ \A q \in Polls : PollFits(q)'
<1>1. /\ bpc \in [Polls -> {"idle", "fetch", "batch", "link"}]
      /\ list \in [Polls -> SUBSET (Tenants \X Bots)]
      /\ batch \in [Polls -> BatchType \union {NoUpdate}]
  BY DEF BotInv, BotTypeOK
<1>2. /\ list' = [list EXCEPT ![p] = rest]
      /\ batch' = [batch EXCEPT ![p] = NoUpdate]
      /\ bpc' = [bpc EXCEPT ![p] = "idle"] \/ bpc' = [bpc EXCEPT ![p] = "fetch"]
  BY DEF NextTenant
<1>3. PollsTypeOK'
  BY <1>1, <1>2 DEF PollsTypeOK
<1>4. PollFits(p)'
  BY <1>1, <1>2 DEF PollFits
<1>5. \A q \in Polls \ {p} : bpc'[q] = bpc[q] /\ batch'[q] = batch[q]
  BY <1>1, <1>2
<1> QED
  BY <1>3, <1>4, <1>5, OtherPolls

LEMMA NextUpdateFits ==
    ASSUME BotInv, NEW p \in Polls, bpc[p] \in {"batch", "link"},
           NextUpdate(p), UNCHANGED <<issued, inbox>>
    PROVE  PollsTypeOK' /\ \A q \in Polls : PollFits(q)'
<1>1. /\ bpc \in [Polls -> {"idle", "fetch", "batch", "link"}]
      /\ list \in [Polls -> SUBSET (Tenants \X Bots)]
      /\ batch \in [Polls -> BatchType \union {NoUpdate}]
  BY DEF BotInv, BotTypeOK
<1>2. CASE batch[p].next = batch[p].last
  BY <1>1, <1>2, NextTenantFits DEF NextUpdate
<1>3. CASE batch[p].next # batch[p].last
  <2>1. /\ batch' = [batch EXCEPT ![p].next = @ + 1, ![p].user = NoUpdate]
        /\ bpc' = [bpc EXCEPT ![p] = "batch"] /\ list' = list
    BY <1>3 DEF NextUpdate
  <2>2. /\ batch'[p] = [batch[p] EXCEPT !.next = @ + 1, !.user = NoUpdate]
        /\ bpc'[p] = "batch"
        /\ \A q \in Polls \ {p} : bpc'[q] = bpc[q] /\ batch'[q] = batch[q]
    BY <1>1, <2>1
  <2>3. /\ batch[p].next + 1 \in 1 .. MaxUpdates + 1
        /\ batch[p].next + 1 <= batch[p].last
        /\ batch[p] \in BatchType /\ batch[p].last <= Len(inbox[batch[p].bot])
    BY <1>3, AtUpdate, TelegramAssumption
  <2>4. /\ batch'[p] \in BatchType
        /\ batch'[p].next = batch[p].next + 1 /\ batch'[p].last = batch[p].last
        /\ batch'[p].bot = batch[p].bot
    BY <2>2, <2>3 DEF BatchType
  <2>5. PollsTypeOK'
    BY <1>1, <2>1, <2>4 DEF PollsTypeOK
  <2>6. PollFits(p)'
    BY <2>2, <2>3, <2>4 DEF PollFits
  <2> QED
    BY <2>2, <2>5, <2>6, OtherPolls
<1> QED
  BY <1>2, <1>3

RestTypeOK ==
    /\ forgotten \in [Bots -> 0 .. MaxUpdates]
    /\ offset \in [Tenants -> 0 .. MaxUpdates + 1]
    /\ {lost, wiped} \subseteq SUBSET Tokens
    /\ rebot \subseteq Tenants

LEMMA BotFrame ==
    ASSUME BotInv, UNCHANGED <<issued, linkToken, chatId, inbox, put>>,
           PollsTypeOK', \A p \in Polls : PollFits(p)', RestTypeOK'
    PROVE  BotInv'
<1>1. BotTypeOK'
  BY DEF BotInv, BotTypeOK, PollsTypeOK, RestTypeOK
<1>2. TokensFit' /\ InboxFits' /\ ChatPresentedItsToken'
  BY DEF BotInv, TokensFit, InboxFits, ChatPresentedItsToken
<1> QED
  BY <1>1, <1>2 DEF BotInv

LEMMA PollsKept ==
    ASSUME BotInv
    PROVE  /\ PollsTypeOK /\ RestTypeOK
           /\ UNCHANGED <<bpc, list, batch>> => PollsTypeOK'
           /\ UNCHANGED <<bpc, batch, issued, inbox>> => \A p \in Polls : PollFits(p)'
           /\ UNCHANGED <<forgotten, offset, lost, wiped, rebot>> => RestTypeOK'
BY DEF BotInv, BotTypeOK, PollsTypeOK, RestTypeOK, PollFits, Update

LEMMA RequestLinkKeepsBot ==
    ASSUME TenantsTypeOK, BotInv, NEW u \in Users, RequestLink(u)
    PROVE  BotInv'
<1> USE BotTypes DEF BotInv
<1> DEFINE t == TenantOf[u]
           k == Len(issued) + 1
           token == [user |-> u, bot |-> Bot(t)]
<1>1. t \in Tenants /\ Bot(t) \in Bots
  BY TelegramAssumption, TenantsRecords DEF RequestLink, Bot, Config
<1>2. token \in IssueType
  BY <1>1 DEF IssueType
<1>3. /\ Len(issued) < MaxTokens
      /\ issued' = Append(issued, token)
      /\ linkToken' = [linkToken EXCEPT ![u] = k]
      /\ UNCHANGED <<chatId, inbox, forgotten, offset, bpc, list, batch, lost, wiped, rebot, put>>
  BY DEF RequestLink
<1>4. issued \in BoundedSeq(IssueType, MaxTokens)
  BY DEF BotTypeOK
<1>5. /\ issued' \in BoundedSeq(IssueType, MaxTokens)
      /\ DOMAIN issued' = 1 .. k
      /\ \A i \in 1 .. Len(issued) : issued'[i] = issued[i]
      /\ issued'[k] = token
  <2>1. MaxTokens \in Nat
    OBVIOUS
  <2>2. /\ Len(issued) < MaxTokens =>
              Append(issued, token) \in BoundedSeq(IssueType, MaxTokens)
        /\ DOMAIN Append(issued, token) = 1 .. k
        /\ \A i \in 1 .. Len(issued) : Append(issued, token)[i] = issued[i]
        /\ Append(issued, token)[k] = token
    BY <1>2, <1>4, <2>1, BoundedAppend
  <2> QED
    BY <1>3, <2>2
<1>6. k \in 1 .. MaxTokens
  BY <1>3
<1>7. linkToken' \in [Users -> 0 .. MaxTokens] /\ linkToken'[u] = k
      /\ \A v \in Users \ {u} : linkToken'[v] = linkToken[v]
  BY <1>3, <1>6 DEF BotTypeOK
<1>8. BotTypeOK'
  BY <1>3, <1>5, <1>7 DEF BotTypeOK
<1>9. TokensFit'
  BY <1>5, <1>6, <1>7 DEF TokensFit
<1>10. InboxFits'
  BY <1>3, <1>5 DEF InboxFits
<1>11. ASSUME NEW p \in Polls PROVE PollFits(p)'
  BY <1>3, <1>5, AtUpdate DEF PollFits, Update
<1>12. ChatPresentedItsToken'
  BY <1>3, <1>5 DEF ChatPresentedItsToken, InboxFits
<1> QED
  BY <1>8, <1>9, <1>10, <1>11, <1>12

LEMMA PutChatKeepsBot ==
    ASSUME BotInv, NEW u \in Users, NEW chat \in Chats, PutChat(u, chat)
    PROVE  BotInv'
<1> USE DEF BotInv
<1>1. /\ <<u, chat>> \in Puts
      /\ chatId' = [chatId EXCEPT ![u] = chat]
      /\ put' = put \union {<<u, chat>>}
      /\ UNCHANGED <<issued, linkToken, inbox, forgotten, offset, bpc, list, batch, lost,
                     wiped, rebot>>
  BY DEF PutChat
<1>2. BotTypeOK'
  BY <1>1 DEF BotTypeOK
<1>3. TokensFit' /\ InboxFits' /\ \A p \in Polls : PollFits(p)'
  BY <1>1 DEF TokensFit, InboxFits, PollFits, Update
<1>4. ChatPresentedItsToken'
  <2> SUFFICES ASSUME NEW v \in Users, chatId'[v] # NoChat, <<v, chatId'[v]>> \notin put'
               PROVE  \E b \in Bots : \E i \in DOMAIN inbox[b] :
                         /\ inbox[b][i].chat = chatId'[v]
                         /\ issued[inbox[b][i].token].user = v
    BY <1>1 DEF ChatPresentedItsToken
  <2>1. v # u /\ chatId'[v] = chatId[v] /\ <<v, chatId[v]>> \notin put
    BY <1>1 DEF BotTypeOK
  <2> QED
    BY <2>1 DEF ChatPresentedItsToken
<1> QED
  BY <1>2, <1>3, <1>4

LEMMA PressStartKeepsBot ==
    ASSUME BotInv, NEW k \in Tokens, NEW chat \in Chats, PressStart(k, chat)
    PROVE  BotInv'
<1> USE BotTypes DEF BotInv
<1> DEFINE b == issued[k].bot
           press == [token |-> k, chat |-> chat]
<1>1. k \in DOMAIN issued /\ b \in Bots /\ Len(inbox[b]) < MaxUpdates
  BY DEF PressStart, IssueType
<1>2. press \in UpdateType /\ inbox[b] \in BoundedSeq(UpdateType, MaxUpdates)
  BY <1>1 DEF UpdateType
<1>3. /\ inbox' = [inbox EXCEPT ![b] = Append(inbox[b], press)]
      /\ UNCHANGED <<issued, linkToken, chatId, forgotten, offset, bpc, list, batch,
                     lost, wiped, rebot, put>>
  BY DEF PressStart
<1>4. /\ Append(inbox[b], press) \in BoundedSeq(UpdateType, MaxUpdates)
      /\ Len(Append(inbox[b], press)) = Len(inbox[b]) + 1
      /\ DOMAIN Append(inbox[b], press) = 1 .. Len(inbox[b]) + 1
      /\ \A i \in 1 .. Len(inbox[b]) : Append(inbox[b], press)[i] = inbox[b][i]
      /\ Append(inbox[b], press)[Len(inbox[b]) + 1] = press
  BY <1>1, <1>2, BoundedAppend
<1>5. inbox \in [Bots -> BoundedSeq(UpdateType, MaxUpdates)]
  BY DEF BotTypeOK
<1>6. /\ inbox' \in [Bots -> BoundedSeq(UpdateType, MaxUpdates)]
      /\ inbox'[b] = Append(inbox[b], press)
      /\ \A c \in Bots \ {b} : inbox'[c] = inbox[c]
  BY <1>1, <1>3, <1>4, <1>5
<1>7. ASSUME NEW c \in Bots
      PROVE  /\ Len(inbox[c]) <= Len(inbox'[c]) /\ DOMAIN inbox[c] \subseteq DOMAIN inbox'[c]
             /\ \A i \in 1 .. Len(inbox[c]) : inbox'[c][i] = inbox[c][i]
             /\ \A i \in DOMAIN inbox'[c] : i \in DOMAIN inbox[c] \/ inbox'[c][i] = press
  <2>1. CASE c = b
    BY <1>1, <1>4, <1>6, <2>1
  <2>2. CASE c # b
    BY <1>6, <2>2
  <2> QED
    BY <2>1, <2>2
<1>8. BotTypeOK'
  BY <1>3, <1>6 DEF BotTypeOK
<1>9. TokensFit'
  BY <1>3 DEF TokensFit
<1>10. InboxFits'
  BY <1>1, <1>3, <1>7 DEF InboxFits
<1>11. ASSUME NEW p \in Polls PROVE PollFits(p)'
  <2>1. CASE bpc[p] \notin {"batch", "link"}
    BY <1>3, <2>1 DEF PollFits
  <2>2. CASE bpc[p] \in {"batch", "link"}
    <3>1. /\ Len(inbox[batch[p].bot]) <= Len(inbox'[batch[p].bot])
          /\ Len(inbox'[batch[p].bot]) \in Nat
          /\ Update(p)' = Update(p)
      <4>1. batch[p].bot \in Bots /\ batch[p].next \in 1 .. Len(inbox[batch[p].bot])
        BY <2>2, AtUpdate
      <4>2. inbox'[batch[p].bot] \in BoundedSeq(UpdateType, MaxUpdates)
        BY <1>6, <4>1
      <4>3. Len(inbox'[batch[p].bot]) \in Nat
        BY <4>2, BoundedSeqFacts
      <4> QED
        BY <1>3, <1>7, <4>1, <4>3 DEF Update
    <3>2. batch[p].last <= Len(inbox'[batch[p].bot])
      <4>1. /\ batch[p].last <= Len(inbox[batch[p].bot]) /\ batch[p].last \in 1 .. MaxUpdates
            /\ batch[p].bot \in Bots
        BY <2>2, AtUpdate
      <4> QED
        BY <3>1, <4>1
    <3> QED
      BY <1>3, <2>2, <3>1, <3>2 DEF PollFits
  <2> QED
    BY <2>1, <2>2
<1>12. ChatPresentedItsToken'
  <2> SUFFICES ASSUME NEW u \in Users, chatId'[u] # NoChat, <<u, chatId[u]>> \notin put
               PROVE  \E c \in Bots : \E i \in DOMAIN inbox'[c] :
                         /\ inbox'[c][i].chat = chatId'[u]
                         /\ issued'[inbox'[c][i].token].user = u
    BY <1>3 DEF ChatPresentedItsToken
  <2>1. PICK c \in Bots : \E i \in DOMAIN inbox[c] :
           /\ inbox[c][i].chat = chatId[u]
           /\ issued[inbox[c][i].token].user = u
    BY <1>3 DEF ChatPresentedItsToken
  <2>2. PICK i \in DOMAIN inbox[c] :
           /\ inbox[c][i].chat = chatId[u]
           /\ issued[inbox[c][i].token].user = u
    BY <2>1
  <2>3. i \in DOMAIN inbox'[c] /\ inbox'[c][i] = inbox[c][i]
    BY <1>7, <2>2
  <2> QED
    BY <1>3, <2>2, <2>3
<1> QED
  BY <1>8, <1>9, <1>10, <1>11, <1>12

LEMMA ListTenantsKeepsBot ==
    ASSUME TenantsTypeOK, BotInv, NEW p \in Polls, ListTenants(p)
    PROVE  BotInv'
<1> DEFINE found == {<<t, Bot(t)>> : t \in {t \in Tenants : Enabled(t) /\ Bot(t) # NoBot}}
<1>1. found \in SUBSET (Tenants \X Bots)
  BY TenantsRecords DEF Bot, Config
<1>2. /\ list' = [list EXCEPT ![p] = found]
      /\ bpc' = [bpc EXCEPT ![p] = "idle"] \/ bpc' = [bpc EXCEPT ![p] = "fetch"]
      /\ UNCHANGED <<issued, linkToken, chatId, inbox, forgotten, offset, batch,
                     lost, wiped, rebot, put>>
  BY DEF ListTenants
<1>3. /\ bpc \in [Polls -> {"idle", "fetch", "batch", "link"}]
      /\ list \in [Polls -> SUBSET (Tenants \X Bots)]
      /\ batch \in [Polls -> BatchType \union {NoUpdate}]
  BY DEF BotInv, BotTypeOK
<1>4. PollsTypeOK'
  BY <1>1, <1>2, <1>3 DEF PollsTypeOK
<1>5. PollFits(p)' /\ \A q \in Polls \ {p} : bpc'[q] = bpc[q] /\ batch'[q] = batch[q]
  BY <1>2, <1>3 DEF PollFits
<1>6. \A q \in Polls : PollFits(q)'
  BY <1>2, <1>4, <1>5, OtherPolls
<1> QED
  BY <1>2, <1>4, <1>6, PollsKept, BotFrame

LEMMA LargerType ==
    ASSUME NEW n \in Nat, NEW a \in 0 .. n, NEW b \in 0 .. n
    PROVE  Larger(a, b) \in 0 .. n /\ Larger(a, b) >= a /\ Larger(a, b) >= b
BY DEF Larger

LEMMA GetUpdatesKeepsBot ==
    ASSUME BotInv, NEW p \in Polls, GetUpdates(p)
    PROVE  BotInv'
<1> USE BotTypes DEF BotInv
<1>1. PICK tb \in list[p] :
          LET t == tb[1]  b == tb[2]
              rest == list[p] \ {tb}
              read == Larger(offset[t], 1) - 1
          IN  /\ forgotten' = [forgotten EXCEPT ![b] =
                    Larger(@, IF read < Len(inbox[b]) THEN read ELSE Len(inbox[b]))]
              /\ LET first == Larger(offset[t], forgotten'[b] + 1)
                 IN  \/ first > Len(inbox[b]) /\ NextTenant(p, rest)
                     \/ /\ first <= Len(inbox[b])
                        /\ list' = [list EXCEPT ![p] = rest]
                        /\ batch' = [batch EXCEPT ![p] =
                              [tenant |-> t, bot |-> b, next |-> first,
                               last |-> Len(inbox[b]), user |-> NoUpdate]]
                        /\ bpc' = [bpc EXCEPT ![p] = "batch"]
  BY DEF GetUpdates
<1> DEFINE t == tb[1]
           b == tb[2]
           rest == list[p] \ {tb}
           read == Larger(offset[t], 1) - 1
           seen == IF read < Len(inbox[b]) THEN read ELSE Len(inbox[b])
           first == Larger(offset[t], forgotten'[b] + 1)
<1>2. UNCHANGED <<issued, linkToken, chatId, inbox, offset, lost, wiped, rebot, put>>
  BY DEF GetUpdates
<1>3. /\ bpc \in [Polls -> {"idle", "fetch", "batch", "link"}]
      /\ list \in [Polls -> SUBSET (Tenants \X Bots)]
      /\ batch \in [Polls -> BatchType \union {NoUpdate}]
      /\ forgotten \in [Bots -> 0 .. MaxUpdates]
      /\ offset \in [Tenants -> 0 .. MaxUpdates + 1]
  BY DEF BotTypeOK
<1>4. t \in Tenants /\ b \in Bots /\ rest \in SUBSET (Tenants \X Bots)
  BY <1>3
<1>5. Len(inbox[b]) \in 0 .. MaxUpdates /\ MaxUpdates \in Nat
  BY <1>4
<1>6. read \in 0 .. MaxUpdates
  <2>1. Larger(offset[t], 1) \in 1 .. MaxUpdates + 1
    BY <1>3, <1>4, <1>5 DEF Larger
  <2> QED
    BY <1>5, <2>1
<1>7. seen \in 0 .. MaxUpdates
  BY <1>5, <1>6
<1>8. Larger(forgotten[b], seen) \in 0 .. MaxUpdates
  BY <1>3, <1>4, <1>5, <1>7, LargerType
<1>9. forgotten' = [forgotten EXCEPT ![b] = Larger(forgotten[b], seen)]
  BY <1>1, <1>3, <1>4
<1>10. forgotten' \in [Bots -> 0 .. MaxUpdates] /\ forgotten'[b] \in 0 .. MaxUpdates
  BY <1>3, <1>4, <1>8, <1>9
<1>11. first \in 1 .. MaxUpdates + 1
  BY <1>3, <1>4, <1>5, <1>10 DEF Larger
<1>12. RestTypeOK'
  BY <1>2, <1>10 DEF BotTypeOK, RestTypeOK
<1>13. PollsTypeOK' /\ \A q \in Polls : PollFits(q)'
  <2>1. CASE NextTenant(p, rest)
    BY <1>2, <1>4, <2>1, NextTenantFits
  <2>2. CASE ~NextTenant(p, rest)
    <3> DEFINE fetched == [tenant |-> t, bot |-> b, next |-> first,
                           last |-> Len(inbox[b]), user |-> NoUpdate]
    <3>1. /\ first <= Len(inbox[b])
          /\ list' = [list EXCEPT ![p] = rest]
          /\ batch' = [batch EXCEPT ![p] = fetched]
          /\ bpc' = [bpc EXCEPT ![p] = "batch"]
      BY <1>1, <2>2
    <3>2. Len(inbox[b]) \in 1 .. MaxUpdates
      BY <1>5, <1>11, <3>1
    <3>3. fetched \in BatchType
      BY <1>4, <1>11, <3>2 DEF BatchType
    <3>4. PollsTypeOK'
      BY <1>3, <1>4, <3>1, <3>3 DEF PollsTypeOK
    <3>5. batch'[p] = fetched /\ bpc'[p] = "batch"
      BY <1>3, <3>1
    <3>6. PollFits(p)'
      BY <1>2, <3>1, <3>2, <3>3, <3>5 DEF PollFits
    <3>7. \A q \in Polls \ {p} : bpc'[q] = bpc[q] /\ batch'[q] = batch[q]
      BY <1>3, <3>1
    <3> QED
      BY <1>2, <3>4, <3>6, <3>7, OtherPolls
  <2> QED
    BY <2>1, <2>2
<1> QED
  BY <1>2, <1>12, <1>13, BotFrame

LEMMA MovedType ==
    ASSUME BotInv, NEW p \in Polls, bpc[p] \in {"batch", "link"}
    PROVE  Moved(p) \in [Tenants -> 0 .. MaxUpdates + 1]
<1>1. /\ batch[p].tenant \in Tenants /\ batch[p].next \in 1 .. MaxUpdates
      /\ MaxUpdates \in Nat
  BY AtUpdate, TelegramAssumption
<1>2. After(batch[p].next) \in 0 .. MaxUpdates + 1
  BY <1>1 DEF After
<1> QED
  BY <1>1, <1>2 DEF Moved, BotInv, BotTypeOK

(* The user a poll finds is one who waits with the update's token, which   *)
(* was issued to it.                                                       *)
LEMMA TakeUpdateKeepsBot ==
    ASSUME BotInv, NEW p \in Polls, TakeUpdate(p)
    PROVE  BotInv'
<1> DEFINE found == Matches(batch[p].tenant, Update(p).token)
<1>1. /\ bpc[p] = "batch" /\ offset' = Moved(p)
      /\ UNCHANGED <<issued, linkToken, chatId, inbox, forgotten, lost, wiped, rebot, put>>
  BY DEF TakeUpdate
<1>2. RestTypeOK'
  BY <1>1, MovedType, PollsKept DEF RestTypeOK
<1>3. \/ NextUpdate(p)
      \/ \E u \in found : /\ batch' = [batch EXCEPT ![p].user = u]
                          /\ bpc' = [bpc EXCEPT ![p] = "link"]
                          /\ list' = list
  BY DEF TakeUpdate
<1>4. CASE NextUpdate(p)
  BY <1>1, <1>2, <1>4, NextUpdateFits, BotFrame
<1>5. ASSUME NEW u \in found,
             batch' = [batch EXCEPT ![p].user = u],
             bpc' = [bpc EXCEPT ![p] = "link"], list' = list
      PROVE  BotInv'
  <2>1. /\ bpc \in [Polls -> {"idle", "fetch", "batch", "link"}]
        /\ list \in [Polls -> SUBSET (Tenants \X Bots)]
        /\ batch \in [Polls -> BatchType \union {NoUpdate}]
    BY DEF BotInv, BotTypeOK
  <2>2. u \in Users /\ linkToken[u] = Update(p).token
    BY DEF Matches
  <2>3. Update(p).token # 0 /\ issued[Update(p).token].user = u
    <3>1. Update(p).token \in Tokens /\ MaxTokens \in Nat
      BY <1>1, AtUpdate, TelegramAssumption
    <3>2. Update(p).token # 0
      BY <3>1 DEF Tokens
    <3> QED
      BY <2>2, <3>2 DEF BotInv, TokensFit
  <2>4. /\ bpc'[p] = "link" /\ batch'[p] = [batch[p] EXCEPT !.user = u]
        /\ \A q \in Polls \ {p} : bpc'[q] = bpc[q] /\ batch'[q] = batch[q]
    BY <1>5, <2>1
  <2>5. /\ batch[p] \in BatchType /\ batch[p].next <= batch[p].last
        /\ batch[p].last <= Len(inbox[batch[p].bot])
    BY <1>1, AtUpdate
  <2>6. /\ batch'[p] \in BatchType /\ batch'[p].user = u
        /\ batch'[p].next = batch[p].next /\ batch'[p].last = batch[p].last
        /\ batch'[p].bot = batch[p].bot
    BY <2>2, <2>4, <2>5 DEF BatchType
  <2>7. PollsTypeOK'
    BY <1>5, <2>1, <2>6 DEF PollsTypeOK
  <2>8. PollFits(p)'
    BY <1>1, <2>2, <2>3, <2>4, <2>5, <2>6 DEF PollFits, Update
  <2> QED
    BY <1>1, <1>2, <2>4, <2>7, <2>8, OtherPolls, BotFrame
<1> QED
  BY <1>3, <1>4, <1>5

LEMMA LinkChatKeepsBot ==
    ASSUME BotInv, NEW p \in Polls, LinkChat(p)
    PROVE  BotInv'
<1> USE DEF BotInv
<1> DEFINE u == batch[p].user
           b == batch[p].bot
<1>1. /\ bpc[p] = "link"
      /\ chatId' = [chatId EXCEPT ![u] = Update(p).chat]
      /\ linkToken' = [linkToken EXCEPT ![u] = 0]
      /\ wiped' = wiped \union ({linkToken[u]} \ {0, Update(p).token})
      /\ NextUpdate(p)
      /\ UNCHANGED <<issued, inbox, forgotten, offset, lost, rebot, put>>
  BY DEF LinkChat
<1>2. u \in Users /\ issued[Update(p).token].user = u
  BY <1>1 DEF PollFits
<1>3. PollsTypeOK' /\ \A q \in Polls : PollFits(q)'
  BY <1>1, NextUpdateFits
<1>4. /\ b \in Bots /\ batch[p].next \in DOMAIN inbox[b]
      /\ Update(p) = inbox[b][batch[p].next] /\ Update(p).chat \in Chats
  BY <1>1, AtUpdate, BotTypes DEF Update
<1>5. wiped' \subseteq Tokens
  BY <1>1, <1>2, TelegramAssumption DEF BotTypeOK, Tokens
<1>6. /\ linkToken' \in [Users -> 0 .. MaxTokens]
      /\ chatId' \in [Users -> Chats \union {NoChat}]
  BY <1>1, <1>2, <1>4, TelegramAssumption DEF BotTypeOK
<1>7. BotTypeOK'
  BY <1>1, <1>3, <1>5, <1>6 DEF BotTypeOK, PollsTypeOK
<1>8. TokensFit'
  BY <1>1, <1>2 DEF TokensFit, BotTypeOK
<1>9. InboxFits'
  BY <1>1 DEF InboxFits
<1>10. ChatPresentedItsToken'
  <2> SUFFICES ASSUME NEW v \in Users, chatId'[v] # NoChat, <<v, chatId'[v]>> \notin put
               PROVE  \E c \in Bots : \E i \in DOMAIN inbox[c] :
                         /\ inbox[c][i].chat = chatId'[v]
                         /\ issued[inbox[c][i].token].user = v
    BY <1>1 DEF ChatPresentedItsToken
  <2>1. CASE v = u
    <3>1. chatId'[v] = Update(p).chat
      BY <1>1, <2>1 DEF BotTypeOK
    <3> QED
      BY <1>2, <1>4, <2>1, <3>1
  <2>2. CASE v # u
    <3>1. chatId'[v] = chatId[v]
      BY <1>1, <2>2 DEF BotTypeOK
    <3> QED
      BY <3>1 DEF ChatPresentedItsToken
  <2> QED
    BY <2>1, <2>2
<1> QED
  BY <1>3, <1>7, <1>8, <1>9, <1>10

LEMMA PollThrowKeepsBot ==
    ASSUME BotInv, NEW p \in Polls, PollThrow(p)
    PROVE  BotInv'
<1>1. UNCHANGED <<issued, linkToken, chatId, inbox, forgotten, wiped, rebot, put>>
  BY DEF PollThrow
<1>2. list[p] \in SUBSET (Tenants \X Bots)
  BY DEF BotInv, BotTypeOK
<1>3. CASE bpc[p] = "fetch"
  <2>1. PICK tb \in list[p] : NextTenant(p, list[p] \ {tb})
    BY <1>3 DEF PollThrow
  <2>2. offset' = offset /\ lost' = lost
    BY <1>3 DEF PollThrow
  <2>3. list[p] \ {tb} \in SUBSET (Tenants \X Bots)
    BY <1>2
  <2>4. RestTypeOK'
    BY <1>1, <2>2, PollsKept
  <2> QED
    BY <1>1, <2>1, <2>3, <2>4, NextTenantFits, BotFrame
<1>4. CASE bpc[p] # "fetch"
  <2>1. /\ bpc[p] \in {"batch", "link"}
        /\ offset' = IF bpc[p] = "batch" THEN Moved(p) ELSE offset
        /\ lost' = lost \union {Update(p).token}
        /\ NextTenant(p, list[p])
    BY <1>4 DEF PollThrow, BotInv, BotTypeOK
  <2>2. Update(p).token \in Tokens /\ Moved(p) \in [Tenants -> 0 .. MaxUpdates + 1]
    BY <2>1, AtUpdate, MovedType
  <2>3. RestTypeOK'
    BY <1>1, <2>1, <2>2, PollsKept DEF RestTypeOK
  <2> QED
    BY <1>1, <1>2, <2>1, <2>3, NextTenantFits, BotFrame
<1> QED
  BY <1>3, <1>4

LEMMA KillPollsKeepsBot ==
    ASSUME BotInv, KillPolls
    PROVE  BotInv'
<1>1. UNCHANGED <<issued, linkToken, chatId, inbox, forgotten, wiped, rebot, put>>
  BY DEF KillPolls
<1>2. {Update(p).token : p \in {p \in Polls : bpc[p] = "link"}} \subseteq Tokens
  BY AtUpdate
<1>3. RestTypeOK'
  BY <1>1, <1>2, PollsKept, TelegramAssumption DEF KillPolls, RestTypeOK
<1>4. PollsTypeOK' /\ \A p \in Polls : PollFits(p)'
  BY DEF KillPolls, PollsTypeOK, PollFits
<1> QED
  BY <1>1, <1>3, <1>4, BotFrame

LEMMA BotInvNext ==
    ASSUME TenantsInv, BotInv, [WorkersNext]_workerVars
    PROVE  BotInv'
<1>1. TenantsTypeOK
  BY DEF TenantsInv
<1>2. ASSUME UNCHANGED <<issued, linkToken, chatId, inbox, forgotten, offset, bpc,
                         list, batch, lost, wiped, put>>,
             rebot' \subseteq Tenants
      PROVE  BotInv'
  <2>1. RestTypeOK'
    BY <1>2, PollsKept DEF RestTypeOK
  <2> QED
    BY <1>2, <2>1, PollsKept, BotFrame
<1>3. ASSUME UNCHANGED botVars PROVE BotInv'
  <2>1. rebot \subseteq Tenants
    BY DEF BotInv, BotTypeOK
  <2> QED
    BY <1>2, <1>3, <2>1 DEF botVars
<1>4. ASSUME NEW t \in Tenants, Rebot(t), RestOfBot PROVE BotInv'
  <2>1. rebot' \subseteq Tenants
    BY <1>4 DEF Rebot, BotInv, BotTypeOK
  <2> QED
    BY <1>2, <1>4, <2>1 DEF RestOfBot
<1>5. CASE AdminNext
  <2>1. ASSUME NEW q \in Patches, WriteLimit(q), Rebot(patch[q].tenant), RestOfBot
        PROVE  BotInv'
    <3>1. patch[q].tenant \in Tenants
      BY <1>1, <2>1, TenantsRecords DEF WriteLimit
    <3> QED
      BY <1>4, <2>1, <3>1
  <2> QED
    BY <1>3, <1>4, <1>5, <2>1 DEF AdminNext
<1>6. CASE BotNext
  <2>1. ASSUME NEW u \in Users, RequestLink(u) PROVE BotInv'
    BY <1>1, <2>1, RequestLinkKeepsBot
  <2>2. ASSUME NEW k \in Tokens, NEW chat \in Chats, PressStart(k, chat) PROVE BotInv'
    BY <2>2, PressStartKeepsBot
  <2>4. ASSUME NEW u \in Users, NEW chat \in Chats, PutChat(u, chat) PROVE BotInv'
    BY <2>4, PutChatKeepsBot
  <2>3. ASSUME NEW p \in Polls, ListTenants(p) \/ PollStep(p) \/ PollThrow(p)
        PROVE  BotInv'
    BY <1>1, <2>3, ListTenantsKeepsBot, GetUpdatesKeepsBot, TakeUpdateKeepsBot,
       LinkChatKeepsBot, PollThrowKeepsBot DEF PollStep
  <2> QED
    BY <1>6, <2>1, <2>2, <2>3, <2>4 DEF BotNext
<1>7. CASE ServerCrash
  BY <1>7, KillPollsKeepsBot DEF ServerCrash
<1> QED
  BY <1>3, <1>5, <1>6, <1>7 DEF WorkersNext, workerVars

(* A user's chat has presented a token issued to that user or came with a  *)
(* PUT of that user's preferences, whatever polls overlap, whatever tokens *)
(* the user asked for meanwhile, and wherever a poll failed or the server  *)
(* died.                                                                   *)
THEOREM LinkedChatsPresentedTokens == WorkersSpec => []ChatPresentedItsToken
<1>1. WorkersInit => TenantsInv /\ BotInv
  BY TenantsInvInit, BotInvInit
<1>2. TenantsInv /\ BotInv /\ [WorkersNext]_workerVars => (TenantsInv /\ BotInv)'
  BY TenantsInvNext, BotInvNext
<1>3. BotInv => ChatPresentedItsToken
  BY DEF BotInv
<1> QED
  BY <1>1, <1>2, <1>3, PTL DEF WorkersSpec

-----------------------------------------------------------------------------
(* Events on their way to the pipeline.                                    *)

Once(s) == \A i, j \in DOMAIN s : s[i] = s[j] => i = j

LEMMA OnceIsBounded ==
    ASSUME NEW S, IsFiniteSet(S), NEW s \in Seq(S), Once(s)
    PROVE  s \in BoundedSeq(S, Cardinality(S))
<1>1. s \in [1 .. Len(s) -> S] /\ Len(s) \in Nat /\ DOMAIN s = 1 .. Len(s)
  BY LenProperties
<1>2. s \in Injection(1 .. Len(s), S)
  BY <1>1 DEF Injection, Once, IsInjective
<1>3. Cardinality(1 .. Len(s)) <= Cardinality(S)
  BY <1>2, FS_Injection
<1>4. Cardinality(1 .. Len(s)) = Len(s)
  <2>1. Cardinality(1 .. Len(s)) = IF 1 > Len(s) THEN 0 ELSE Len(s) - 1 + 1
    BY <1>1, FS_Interval
  <2> QED
    BY <1>1, <2>1
<1>5. Cardinality(S) \in Nat
  BY FS_CardinalityType
<1>6. \A q : q \in Seq(S) /\ Len(q) <= Cardinality(S) => q \in BoundedSeq(S, Cardinality(S))
  BY <1>5, BoundedSeqIsSeq
<1> QED
  BY <1>3, <1>4, <1>6

(* What a handler has in hand was posted and is an event; it calls every   *)
(* rule that the event is still owed and that has had no call.             *)
HandlerFits(h) ==
    hpc[h] # "idle" =>
        /\ handling[h] \in HandlingType
        /\ EventOf[handling[h].event].valid
        /\ handling[h].event \in posted
        /\ hpc[h] = "calls" =>
              owed[handling[h].event] \subseteq processed[handling[h].event]
                                                  \union handling[h].todo

ConsumerFits ==
    hpc[Consumer] # "idle" =>
        consumer = "on" /\ hpc[Consumer] # "publish" /\ position \in 1 .. Len(log)

(* A posted event is published at most once, by the POST that accepted it. *)
LogFits ==
    /\ Once(log)
    /\ \A i \in DOMAIN log : EventOf[log[i]].valid => log[i] \in posted
    /\ \A h \in Handlers : hpc[h] = "publish" =>
          /\ \A i \in DOMAIN log : log[i] # handling[h].event
          /\ \A g \in Handlers \ {h} :
                hpc[g] = "publish" => handling[g].event # handling[h].event

(* Rules are owed to an event from its POST on, as long as they match it   *)
(* and its tenant is enabled.                                              *)
OwedFits ==
    \A e \in Events :
        /\ owed[e] \subseteq MatchRules(rules, EventOf[e])
        /\ owed[e] # {} => e \in posted /\ Enabled(EventOf[e].tenant)

PostedFits ==
    /\ \A e \in posted : EventOf[e].valid
    /\ \A e \in finished : EventOf[e].valid => e \in posted

IngestInv ==
    /\ IngestionTypeOK
    /\ \A h \in Handlers : HandlerFits(h)
    /\ ConsumerFits
    /\ LogFits
    /\ OwedFits
    /\ PostedFits
    /\ NoRuleIsMissed

LEMMA IngestTypes ==
    ASSUME IngestionTypeOK
    PROVE  /\ log \in Seq(Events) /\ Len(log) \in Nat /\ DOMAIN log = 1 .. Len(log)
           /\ \A i \in 1 .. Len(log) : log[i] \in Events
           /\ Cardinality(Events) \in Nat
           /\ \A e \in Events : /\ EventOf[e] \in EventType /\ EventOf[e].tenant \in Tenants
                                /\ owed[e] \subseteq Rules /\ processed[e] \subseteq Rules
                                /\ MatchRules(rules, EventOf[e]) \subseteq Rules
           /\ posted \subseteq Events /\ finished \subseteq Events
<1>1. Cardinality(Events) \in Nat
  BY IngestionAssumption, FS_CardinalityType
<1>2. log \in BoundedSeq(Events, Cardinality(Events))
  BY DEF IngestionTypeOK
<1>3. log \in Seq(Events)
  BY <1>1, <1>2, BoundedSeqIsSeq
<1>4. /\ Len(log) \in Nat /\ DOMAIN log = 1 .. Len(log)
      /\ \A i \in 1 .. Len(log) : log[i] \in Events
  BY <1>3, LenProperties, ElementOfSeq
<1>5. \A e \in Events : EventOf[e] \in EventType /\ EventOf[e].tenant \in Tenants
  BY IngestionAssumption DEF EventType
<1>6. \A e \in Events : /\ owed[e] \subseteq Rules /\ processed[e] \subseteq Rules
                        /\ MatchRules(rules, EventOf[e]) \subseteq Rules
  BY DEF IngestionTypeOK, MatchRules
<1> QED
  BY <1>1, <1>3, <1>4, <1>5, <1>6 DEF IngestionTypeOK

LEMMA IngestInvInit == WorkersInit => IngestInv
<1> SUFFICES ASSUME WorkersInit PROVE IngestInv
  OBVIOUS
<1> USE IngestionAssumption DEF WorkersInit, IngestionInit
<1>1. Cardinality(Events) \in Nat
  BY FS_CardinalityType
<1>2. log \in BoundedSeq(Events, Cardinality(Events))
  BY <1>1, EmptyBounded
<1>3. log = << >> /\ Len(log) = 0 /\ DOMAIN log = {}
  OBVIOUS
<1>4. IngestionTypeOK
  BY <1>2, <1>3 DEF IngestionTypeOK
<1>5. (\A h \in Handlers : HandlerFits(h)) /\ ConsumerFits
  BY DEF HandlerFits, ConsumerFits, Handlers
<1>6. LogFits
  BY <1>3 DEF LogFits, Once
<1>7. OwedFits /\ PostedFits /\ NoRuleIsMissed
  BY DEF OwedFits, PostedFits, NoRuleIsMissed
<1> QED
  BY <1>4, <1>5, <1>6, <1>7 DEF IngestInv

(* A rule or a tenant that is edited can only be owed less.                *)
LEMMA StillOwedShrinks ==
    ASSUME IngestionTypeOK, NEW table, NEW tenantTable, NEW e \in Events
    PROVE  /\ StillOwed(table, tenantTable) \in [Events -> SUBSET Rules]
           /\ StillOwed(table, tenantTable)[e] \subseteq owed[e]
           /\ StillOwed(table, tenantTable)[e] \subseteq MatchRules(table, EventOf[e])
           /\ StillOwed(table, tenantTable)[e] # {} =>
                 tenantTable[EventOf[e].tenant].state = "enabled"
<1>1. \A f \in Events : owed[f] \subseteq Rules
  BY DEF IngestionTypeOK
<1>2. \A f \in Events :
         StillOwed(table, tenantTable)[f]
            = IF tenantTable[EventOf[f].tenant].state = "enabled"
              THEN owed[f] \intersect MatchRules(table, EventOf[f]) ELSE {}
  BY DEF StillOwed
<1>3. StillOwed(table, tenantTable) \in [Events -> SUBSET Rules]
  BY <1>1 DEF StillOwed
<1> QED
  BY <1>2, <1>3

LEMMA ShrunkenOwed ==
    ASSUME IngestInv, rules' \in [Rules -> RuleType], badZone' \subseteq Tenants \X Recipients,
           owed' = StillOwed(rules', tenants'),
           UNCHANGED <<topicVars, handlerVars, posted, processed, finished, dropped>>
    PROVE  IngestInv'
<1> USE DEF IngestInv, topicVars, handlerVars
<1>1. owed' \in [Events -> SUBSET Rules]
  BY StillOwedShrinks DEF StillOwed, IngestionTypeOK
<1>2. \A e \in Events : /\ owed'[e] \subseteq owed[e]
                        /\ owed'[e] \subseteq MatchRules(rules', EventOf[e])
                        /\ owed'[e] # {} => tenants'[EventOf[e].tenant].state = "enabled"
  BY StillOwedShrinks
<1>3. IngestionTypeOK'
  BY <1>1 DEF IngestionTypeOK
<1>4. ASSUME NEW h \in Handlers PROVE HandlerFits(h)'
  BY <1>2 DEF HandlerFits, HandlingType
<1>5. ConsumerFits' /\ LogFits' /\ PostedFits'
  BY DEF ConsumerFits, LogFits, PostedFits
<1>6. OwedFits'
  BY <1>2 DEF OwedFits, Enabled
<1>7. NoRuleIsMissed'
  BY <1>2, IngestTypes DEF NoRuleIsMissed
<1> QED
  BY <1>3, <1>4, <1>5, <1>6, <1>7

LEMMA FrameKeepsIngest ==
    ASSUME IngestInv, UNCHANGED <<ingestVars, tenants>>
    PROVE  IngestInv'
<1> USE DEF IngestInv, ingestVars, topicVars, handlerVars, eventTrace
<1>1. IngestionTypeOK' /\ ConsumerFits' /\ LogFits' /\ PostedFits' /\ NoRuleIsMissed'
  BY DEF IngestionTypeOK, ConsumerFits, LogFits, PostedFits, NoRuleIsMissed
<1>2. \A h \in Handlers : HandlerFits(h)'
  BY DEF HandlerFits
<1>3. OwedFits'
  BY DEF OwedFits, Enabled, MatchRules
<1> QED
  BY <1>1, <1>2, <1>3

HandlersTypeOK ==
    /\ hpc \in [Handlers -> {"idle", "publish", "tenant", "rules", "calls"}]
    /\ handling \in [Handlers -> HandlingType \union {NoEvent}]

LEMMA HandlerMoves ==
    ASSUME IngestInv, NEW h \in Handlers,
           UNCHANGED <<useKafka, rules, badZone, log, consumer, committed, posted, owed,
                       dropped, tenants>>,
           HandlersTypeOK', hpc'[h] # "publish", HandlerFits(h)',
           \A g \in Handlers \ {h} : hpc'[g] = hpc[g] /\ handling'[g] = handling[g],
           processed' \in [Events -> SUBSET Rules],
           \A e \in Events : processed[e] \subseteq processed'[e],
           position' \in 0 .. Len(log) + 1, ConsumerFits',
           finished' \subseteq Events, PostedFits', NoRuleIsMissed'
    PROVE  IngestInv'
<1> USE DEF IngestInv
<1>1. IngestionTypeOK'
  BY DEF IngestionTypeOK, HandlersTypeOK, HandlingType
<1>2. ASSUME NEW g \in Handlers \ {h} PROVE HandlerFits(g)'
  BY DEF HandlerFits, HandlingType
<1>3. LogFits'
  <2>1. \A g \in Handlers : hpc'[g] = "publish" =>
           hpc[g] = "publish" /\ handling'[g] = handling[g]
    OBVIOUS
  <2> QED
    BY <2>1 DEF LogFits
<1>4. OwedFits'
  BY DEF OwedFits, Enabled, MatchRules
<1> QED
  BY <1>1, <1>2, <1>3, <1>4

Kept == UNCHANGED <<useKafka, rules, badZone, log, consumer, committed, posted, owed,
                    dropped, tenants>>

LEMMA IdleOutcome ==
    ASSUME IngestInv, NEW h \in Handlers, Idle(h)
    PROVE  /\ HandlersTypeOK' /\ hpc'[h] = "idle" /\ HandlerFits(h)'
           /\ \A g \in Handlers \ {h} : hpc'[g] = hpc[g] /\ handling'[g] = handling[g]
BY DEF IngestInv, IngestionTypeOK, Idle, HGoto, HandlersTypeOK, HandlerFits, HandlingType

(* A handler is done with an event only when all it is owed has been       *)
(* called.                                                                 *)
LEMMA FinishFits ==
    ASSUME IngestInv, NEW h \in Handlers, hpc[h] # "idle", Kept, Finish(h),
           processed' \in [Events -> SUBSET Rules],
           \A e \in Events : processed[e] \subseteq processed'[e],
           owed[handling[h].event] \subseteq processed'[handling[h].event]
    PROVE  IngestInv'
<1> USE DEF IngestInv, Kept
<1> DEFINE e == handling[h].event
<1>1. /\ e \in Events /\ EventOf[e].valid /\ e \in posted
      /\ finished' = finished \union {e}
      /\ position' = IF h = Consumer THEN position + 1 ELSE position
      /\ Idle(h)
  BY DEF HandlerFits, HandlingType, Finish
<1>2. /\ HandlersTypeOK' /\ hpc'[h] = "idle" /\ HandlerFits(h)'
      /\ \A g \in Handlers \ {h} : hpc'[g] = hpc[g] /\ handling'[g] = handling[g]
  BY <1>1, IdleOutcome
<1>3. position' \in 0 .. Len(log) + 1
  <2>1. CASE h = Consumer
    <3>1. position \in 1 .. Len(log) /\ Len(log) \in Nat
      BY <2>1, IngestTypes DEF ConsumerFits
    <3> QED
      BY <1>1, <2>1, <3>1
  <2>2. CASE h # Consumer
    BY <1>1, <2>2 DEF IngestionTypeOK
  <2> QED
    BY <2>1, <2>2
<1>4. ConsumerFits'
  <2>1. CASE h = Consumer
    BY <1>2, <2>1 DEF ConsumerFits
  <2>2. CASE h # Consumer
    BY <1>1, <1>2, <2>2 DEF ConsumerFits, Handlers
  <2> QED
    BY <2>1, <2>2
<1>5. finished' \subseteq Events /\ PostedFits'
  BY <1>1 DEF PostedFits, IngestionTypeOK
<1>6. NoRuleIsMissed'
  BY <1>1, <1>5, IngestTypes DEF NoRuleIsMissed
<1> QED
  BY <1>2, <1>3, <1>4, <1>5, <1>6, HandlerMoves

(* A handler that fails is done with nothing.                              *)
LEMMA FailedFits ==
    ASSUME IngestInv, NEW h \in Handlers, Kept, Failed(h), processed' = processed
    PROVE  IngestInv'
<1> USE DEF IngestInv, Kept
<1>1. /\ Idle(h) /\ finished' = finished
      /\ position' = position \/ (h = Consumer /\ position' = 0)
  BY DEF Failed
<1>2. /\ HandlersTypeOK' /\ hpc'[h] = "idle" /\ HandlerFits(h)'
      /\ \A g \in Handlers \ {h} : hpc'[g] = hpc[g] /\ handling'[g] = handling[g]
  BY <1>1, IdleOutcome
<1>3. position' \in 0 .. Len(log) + 1
  BY <1>1, IngestTypes DEF IngestionTypeOK
<1>4. ConsumerFits'
  <2>1. CASE h = Consumer
    BY <1>2, <2>1 DEF ConsumerFits
  <2>2. CASE h # Consumer
    BY <1>1, <1>2, <2>2 DEF ConsumerFits, Handlers
  <2> QED
    BY <2>1, <2>2
<1>5. processed' \in [Events -> SUBSET Rules] /\ finished' \subseteq Events
  BY <1>1 DEF IngestionTypeOK
<1>6. PostedFits' /\ NoRuleIsMissed'
  BY <1>1 DEF PostedFits, NoRuleIsMissed
<1> QED
  BY <1>2, <1>3, <1>4, <1>5, <1>6, HandlerMoves

(* A handler that goes on with its event.                                  *)
LEMMA GoesOnFits ==
    ASSUME IngestInv, NEW h \in Handlers, hpc[h] \notin {"idle", "publish"}, Kept,
           UNCHANGED <<position, finished>>,
           NEW step \in {"rules", "calls"}, NEW on \in HandlingType,
           on.event = handling[h].event,
           hpc' = [hpc EXCEPT ![h] = step],
           handling' = [handling EXCEPT ![h] = on],
           processed' \in [Events -> SUBSET Rules],
           \A e \in Events : processed[e] \subseteq processed'[e],
           step = "calls" => owed[on.event] \subseteq processed'[on.event] \union on.todo
    PROVE  IngestInv'
<1> USE DEF IngestInv, Kept
<1>1. /\ hpc \in [Handlers -> {"idle", "publish", "tenant", "rules", "calls"}]
      /\ handling \in [Handlers -> HandlingType \union {NoEvent}]
  BY DEF IngestionTypeOK
<1>2. EventOf[on.event].valid /\ on.event \in posted
  BY DEF HandlerFits
<1>3. /\ hpc'[h] = step /\ handling'[h] = on
      /\ \A g \in Handlers \ {h} : hpc'[g] = hpc[g] /\ handling'[g] = handling[g]
  BY <1>1
<1>4. on \in HandlingType
  OBVIOUS
<1>5. HandlersTypeOK'
  BY <1>1, <1>4 DEF HandlersTypeOK
<1>6. HandlerFits(h)'
  BY <1>2, <1>3, <1>4 DEF HandlerFits
<1>7. ConsumerFits'
  BY <1>3 DEF ConsumerFits, Handlers
<1>8. PostedFits' /\ finished' \subseteq Events /\ position' \in 0 .. Len(log) + 1
  BY DEF PostedFits, IngestionTypeOK
<1>9. NoRuleIsMissed'
  BY <1>8 DEF NoRuleIsMissed
<1> QED
  BY <1>3, <1>5, <1>6, <1>7, <1>8, <1>9, HandlerMoves

LEMMA HandlerStepKeepsIngest ==
    ASSUME IngestInv, NEW h \in Handlers, HandlerStep(h)
    PROVE  IngestInv'
<1> USE DEF IngestInv
<1> DEFINE e == handling[h].event
<1>1. hpc[h] \notin {"idle", "publish"}
  BY DEF HandlerStep, ReadTenant, SelectRules, CallReturns, CallThrows
<1>2. Kept
  BY DEF HandlerStep, ReadTenant, SelectRules, CallReturns, CallThrows, Kept, tenantVars
<1>3. handling[h] \in HandlingType /\ e \in Events /\ handling[h].todo \subseteq Rules
  BY <1>1 DEF HandlerFits, HandlingType
<1>4. processed \in [Events -> SUBSET Rules]
  BY DEF IngestionTypeOK
<1>5. CASE ReadTenant(h)
  <2>1. processed' = processed
    BY <1>5 DEF ReadTenant
  <2>2. CASE ~Enabled(Event(h).tenant) /\ Finish(h)
    <3>1. owed[e] = {}
      BY <1>3, <2>2 DEF Event, OwedFits
    <3> QED
      BY <1>1, <1>2, <1>4, <2>1, <2>2, <3>1, FinishFits
  <2>3. CASE HGoto(h, "rules") /\ UNCHANGED <<handling, finished, position>>
    <3>1. hpc' = [hpc EXCEPT ![h] = "rules"]
      BY <2>3 DEF HGoto
    <3>2. handling' = [handling EXCEPT ![h] = handling[h]]
      BY <1>3, <2>3 DEF IngestionTypeOK
    <3> QED
      BY <1>1, <1>2, <1>3, <1>4, <2>1, <2>3, <3>1, <3>2, GoesOnFits
  <2> QED
    BY <1>5, <2>2, <2>3 DEF ReadTenant
<1>6. CASE SelectRules(h)
  <2> DEFINE matched == MatchRules(rules, Event(h))
             looked == {r \in matched : LooksUp(rules[r], Event(h))}
  <2>1. processed' = processed
    BY <1>6 DEF SelectRules
  <2>2. matched \in SUBSET Rules /\ looked \in SUBSET Rules /\ owed[e] \subseteq matched
    BY <1>3, IngestTypes DEF OwedFits, Event
  <2>3. CASE matched = {} /\ Finish(h)
    BY <1>1, <1>2, <1>4, <2>1, <2>2, <2>3, FinishFits
  <2>4. CASE /\ HGoto(h, "calls")
             /\ handling' = [handling EXCEPT ![h].todo = matched, ![h].looked = looked]
             /\ UNCHANGED <<finished, position>>
    <3> DEFINE on == [handling[h] EXCEPT !.todo = matched, !.looked = looked]
    <3>1. hpc' = [hpc EXCEPT ![h] = "calls"]
      BY <2>4 DEF HGoto
    <3>2. on \in HandlingType /\ on.event = e /\ on.todo = matched
      BY <1>3, <2>2 DEF HandlingType
    <3>3. handling' = [handling EXCEPT ![h] = on]
      BY <1>3, <2>4 DEF HandlingType, IngestionTypeOK
    <3>4. owed[on.event] \subseteq processed'[on.event] \union on.todo
      BY <2>2, <3>2
    <3>5. UNCHANGED <<position, finished>>
      BY <2>4
    <3> HIDE DEF on
    <3> QED
      BY <1>1, <1>2, <1>4, <2>1, <3>1, <3>2, <3>3, <3>4, <3>5, GoesOnFits
  <2> QED
    BY <1>6, <2>3, <2>4 DEF SelectRules
<1>7. CASE CallReturns(h)
  <2>1. PICK r \in handling[h].todo :
           /\ processed' = [processed EXCEPT ![e] = @ \union {r}]
           /\ \/ handling[h].todo = {r} /\ Finish(h)
              \/ /\ handling' = [handling EXCEPT ![h].todo = @ \ {r}]
                 /\ UNCHANGED <<hpc, finished, position>>
    BY <1>7 DEF CallReturns
  <2>2. /\ hpc[h] = "calls"
        /\ owed[e] \subseteq processed[e] \union handling[h].todo
    BY <1>7 DEF CallReturns, HandlerFits
  <2>3. /\ processed' \in [Events -> SUBSET Rules]
        /\ processed'[e] = processed[e] \union {r}
        /\ \A f \in Events : processed[f] \subseteq processed'[f]
    BY <1>3, <1>4, <2>1
  <2>4. CASE handling[h].todo = {r} /\ Finish(h)
    BY <1>1, <1>2, <2>2, <2>3, <2>4, FinishFits
  <2>5. CASE /\ handling' = [handling EXCEPT ![h].todo = @ \ {r}]
             /\ UNCHANGED <<hpc, finished, position>>
    <3>1. hpc' = [hpc EXCEPT ![h] = "calls"]
      BY <2>2, <2>5 DEF IngestionTypeOK
    <3> DEFINE on == [handling[h] EXCEPT !.todo = @ \ {r}]
    <3>2. /\ on \in HandlingType /\ on.event = e
          /\ on.todo = handling[h].todo \ {r}
      BY <1>3 DEF HandlingType
    <3>3. handling' = [handling EXCEPT ![h] = on]
      BY <2>5
    <3>4. owed[on.event] \subseteq processed'[on.event] \union on.todo
      BY <2>2, <2>3, <3>2
    <3>5. UNCHANGED <<position, finished>>
      BY <2>5
    <3> HIDE DEF on
    <3> QED
      BY <1>1, <1>2, <2>3, <3>1, <3>2, <3>3, <3>4, <3>5, GoesOnFits
  <2> QED
    BY <2>1, <2>4, <2>5
<1>8. CASE CallThrows(h)
  BY <1>2, <1>8, FailedFits DEF CallThrows
<1> QED
  BY <1>5, <1>6, <1>7, <1>8 DEF HandlerStep

LEMMA LogAppend ==
    ASSUME IngestInv, NEW e \in Events, \A i \in DOMAIN log : log[i] # e
    PROVE  /\ Append(log, e) \in BoundedSeq(Events, Cardinality(Events))
           /\ Len(Append(log, e)) = Len(log) + 1
           /\ DOMAIN Append(log, e) = 1 .. Len(log) + 1
           /\ \A i \in 1 .. Len(log) : Append(log, e)[i] = log[i]
           /\ Append(log, e)[Len(log) + 1] = e
           /\ Once(Append(log, e))
<1>1. log \in Seq(Events) /\ Len(log) \in Nat /\ DOMAIN log = 1 .. Len(log)
  BY IngestTypes DEF IngestInv
<1>2. /\ Append(log, e) \in Seq(Events)
      /\ Len(Append(log, e)) = Len(log) + 1
      /\ \A i \in 1 .. Len(log) : Append(log, e)[i] = log[i]
      /\ Append(log, e)[Len(log) + 1] = e
  BY <1>1, AppendProperties
<1>3. DOMAIN Append(log, e) = 1 .. Len(log) + 1
  BY <1>2, LenProperties
<1>4. Once(Append(log, e))
  <2> SUFFICES ASSUME NEW i \in 1 .. Len(log) + 1, NEW j \in 1 .. Len(log) + 1,
                      Append(log, e)[i] = Append(log, e)[j]
               PROVE  i = j
    BY <1>3 DEF Once
  <2>1. CASE i \in 1 .. Len(log) /\ j \in 1 .. Len(log)
    BY <1>1, <1>2, <2>1 DEF IngestInv, LogFits, Once
  <2>2. CASE i = Len(log) + 1 /\ j \in 1 .. Len(log)
    BY <1>1, <1>2, <2>2
  <2>3. CASE j = Len(log) + 1 /\ i \in 1 .. Len(log)
    BY <1>1, <1>2, <2>3
  <2> QED
    BY <1>1, <2>1, <2>2, <2>3
<1>5. Append(log, e) \in BoundedSeq(Events, Cardinality(Events))
  BY <1>2, <1>4, IngestionAssumption, OnceIsBounded
<1> QED
  BY <1>2, <1>3, <1>4, <1>5

(* The log grows by an event that was posted and is not in it, or by what  *)
(* is no event.                                                            *)
LEMMA LogGrows ==
    ASSUME IngestInv, NEW e \in Events, \A i \in DOMAIN log : log[i] # e,
           log' = Append(log, e), EventOf[e].valid => e \in posted,
           UNCHANGED <<useKafka, rules, badZone, consumer, position, committed, eventTrace,
                       tenants>>,
           HandlersTypeOK',
           \A g \in Handlers : \/ hpc'[g] = hpc[g] /\ handling'[g] = handling[g]
                               \/ hpc'[g] = "idle",
           \A g \in Handlers : hpc'[g] = "publish" => handling[g].event # e
    PROVE  IngestInv'
<1> USE DEF IngestInv, eventTrace
<1>1. /\ log' \in BoundedSeq(Events, Cardinality(Events))
      /\ Len(log') = Len(log) + 1 /\ DOMAIN log' = 1 .. Len(log) + 1
      /\ \A i \in 1 .. Len(log) : log'[i] = log[i]
      /\ log'[Len(log) + 1] = e
      /\ Once(log')
  BY LogAppend
<1>2. Len(log) \in Nat /\ DOMAIN log = 1 .. Len(log)
  BY IngestTypes
<1>3. position \in 0 .. Len(log') + 1 /\ committed \in 0 .. Len(log') + 1
  BY <1>1, <1>2 DEF IngestionTypeOK
<1>4. IngestionTypeOK'
  BY <1>1, <1>3 DEF IngestionTypeOK, HandlersTypeOK, HandlingType
<1>5. ASSUME NEW g \in Handlers PROVE HandlerFits(g)'
  BY DEF HandlerFits, HandlingType
<1>6. ConsumerFits'
  <2>1. Consumer \in Handlers
    BY DEF Handlers
  <2> QED
    BY <1>1, <1>2, <2>1 DEF ConsumerFits
<1>7. \A i \in DOMAIN log' : i \in DOMAIN log \/ log'[i] = e
  BY <1>1, <1>2
<1>8. LogFits'
  <2>1. \A i \in DOMAIN log' : EventOf[log'[i]].valid => log'[i] \in posted'
    BY <1>1, <1>2, <1>7 DEF LogFits
  <2>2. ASSUME NEW g \in Handlers, hpc'[g] = "publish"
        PROVE  /\ \A i \in DOMAIN log' : log'[i] # handling'[g].event
               /\ \A f \in Handlers \ {g} :
                     hpc'[f] = "publish" => handling'[f].event # handling'[g].event
    <3>1. hpc[g] = "publish" /\ handling'[g] = handling[g] /\ handling[g].event # e
      BY <2>2
    <3>2. \A f \in Handlers : hpc'[f] = "publish" =>
             hpc[f] = "publish" /\ handling'[f] = handling[f]
      OBVIOUS
    <3> QED
      BY <1>1, <1>2, <1>7, <3>1, <3>2 DEF LogFits
  <2> QED
    BY <1>1, <2>1, <2>2 DEF LogFits
<1>9. OwedFits' /\ PostedFits' /\ NoRuleIsMissed'
  BY DEF OwedFits, PostedFits, NoRuleIsMissed, Enabled, MatchRules
<1> QED
  BY <1>4, <1>5, <1>6, <1>8, <1>9

(* A publish ends: its event is in the log now, or it is not.              *)
LEMMA PublishEnds ==
    ASSUME IngestInv, NEW h \in Handlers, hpc[h] = "publish", Idle(h),
           log' = log \/ log' = Append(log, handling[h].event),
           UNCHANGED <<useKafka, rules, badZone, consumer, position, committed, eventTrace,
                       tenants>>
    PROVE  IngestInv'
<1> DEFINE e == handling[h].event
<1>1. /\ HandlersTypeOK' /\ hpc'[h] = "idle" /\ HandlerFits(h)'
      /\ \A g \in Handlers \ {h} : hpc'[g] = hpc[g] /\ handling'[g] = handling[g]
  BY IdleOutcome
<1>2. /\ e \in Events /\ e \in posted
      /\ \A i \in DOMAIN log : log[i] # e
      /\ \A g \in Handlers \ {h} : hpc[g] = "publish" => handling[g].event # e
  BY DEF IngestInv, HandlerFits, HandlingType, LogFits
<1>3. CASE log' = log
  <2>1. h # Consumer
    BY DEF IngestInv, ConsumerFits
  <2>2. ConsumerFits'
    BY <1>1, <1>3, <2>1 DEF IngestInv, ConsumerFits, Handlers
  <2>3. /\ processed' \in [Events -> SUBSET Rules] /\ position' \in 0 .. Len(log) + 1
        /\ finished' \subseteq Events
    BY DEF IngestInv, IngestionTypeOK, eventTrace
  <2>4. PostedFits' /\ NoRuleIsMissed'
    BY DEF IngestInv, PostedFits, NoRuleIsMissed, eventTrace
  <2> QED
    BY <1>1, <1>3, <2>2, <2>3, <2>4, HandlerMoves DEF eventTrace
<1>4. CASE log' = Append(log, e)
  <2>1. \A g \in Handlers : hpc'[g] = "publish" => handling[g].event # e
    BY <1>1, <1>2
  <2>2. \A g \in Handlers : \/ hpc'[g] = hpc[g] /\ handling'[g] = handling[g]
                            \/ hpc'[g] = "idle"
    BY <1>1
  <2> QED
    BY <1>1, <1>2, <1>4, <2>1, <2>2, LogGrows
<1> QED
  BY <1>3, <1>4

LEMMA HandlerThrowKeepsIngest ==
    ASSUME IngestInv, NEW h \in Handlers, HandlerThrow(h)
    PROVE  IngestInv'
<1>1. /\ UNCHANGED <<useKafka, rules, badZone, consumer, committed, posted, owed, processed,
                     dropped, tenants>>
      /\ hpc[h] # "idle"
  BY DEF HandlerThrow, tenantVars
<1>2. CASE hpc[h] = "publish"
  <2>1. /\ Idle(h) /\ UNCHANGED <<finished, position>>
        /\ log' = log \/ log' = Append(log, handling[h].event)
    BY <1>2 DEF HandlerThrow
  <2> QED
    BY <1>1, <1>2, <2>1, PublishEnds DEF eventTrace
<1>3. CASE hpc[h] # "publish"
  <2>1. Failed(h) /\ log' = log
    BY <1>3 DEF HandlerThrow
  <2> QED
    BY <1>1, <2>1, FailedFits DEF Kept
<1> QED
  BY <1>2, <1>3

(* The consumer between two messages.                                      *)
LEMMA ConsumerMoves ==
    ASSUME IngestInv, hpc[Consumer] = "idle",
           UNCHANGED <<useKafka, rules, badZone, log, handlerVars, posted, owed, processed,
                       finished, tenants>>,
           consumer' \in {"starting", "on", "off"},
           position' \in 0 .. Len(log) + 1, committed' \in 0 .. Len(log) + 1,
           dropped' \subseteq Events
    PROVE  IngestInv'
<1> USE DEF IngestInv, handlerVars
<1>1. IngestionTypeOK'
  BY DEF IngestionTypeOK
<1>2. \A h \in Handlers : HandlerFits(h)'
  BY DEF HandlerFits
<1>3. ConsumerFits' /\ LogFits' /\ PostedFits' /\ NoRuleIsMissed'
  BY DEF ConsumerFits, LogFits, PostedFits, NoRuleIsMissed
<1>4. OwedFits'
  BY DEF OwedFits, Enabled, MatchRules
<1> QED
  BY <1>1, <1>2, <1>3, <1>4

LEMMA FetchKeepsIngest ==
    ASSUME IngestInv, FetchMessage
    PROVE  IngestInv'
<1> USE DEF IngestInv
<1> DEFINE e == log[position]
<1>1. /\ consumer = "on" /\ position \in 1 .. Len(log) /\ hpc[Consumer] = "idle"
      /\ Kept /\ processed' = processed
  BY DEF FetchMessage, Kept, tenantVars
<1>2. Consumer \in Handlers /\ e \in Events /\ position \in DOMAIN log /\ Len(log) \in Nat
  BY <1>1, IngestTypes DEF Handlers
<1>3. /\ hpc \in [Handlers -> {"idle", "publish", "tenant", "rules", "calls"}]
      /\ handling \in [Handlers -> HandlingType \union {NoEvent}]
      /\ processed \in [Events -> SUBSET Rules] /\ finished \subseteq Events
  BY DEF IngestionTypeOK, HandlingType
<1>4. CASE EventOf[e].valid
  <2> DEFINE taken == [event |-> e, todo |-> {}, looked |-> {}]
  <2>1. /\ hpc' = [hpc EXCEPT ![Consumer] = "tenant"]
        /\ handling' = [handling EXCEPT ![Consumer] = taken]
        /\ UNCHANGED <<finished, position>>
    BY <1>4 DEF FetchMessage, HGoto
  <2>2. taken \in HandlingType
    BY <1>2 DEF HandlingType
  <2>3. /\ hpc'[Consumer] = "tenant" /\ handling'[Consumer] = taken
        /\ \A g \in Handlers \ {Consumer} : hpc'[g] = hpc[g] /\ handling'[g] = handling[g]
        /\ HandlersTypeOK'
    BY <1>2, <1>3, <2>1, <2>2 DEF HandlersTypeOK
  <2>4. e \in posted
    BY <1>2, <1>4 DEF LogFits
  <2>5. HandlerFits(Consumer)'
    BY <1>1, <1>4, <2>2, <2>3, <2>4 DEF HandlerFits, Kept
  <2>6. ConsumerFits'
    BY <1>1, <2>1, <2>3 DEF ConsumerFits, Kept
  <2>7. PostedFits' /\ NoRuleIsMissed'
    BY <1>1, <2>1 DEF PostedFits, NoRuleIsMissed, Kept
  <2>8. position' \in 0 .. Len(log) + 1
    BY <2>1 DEF IngestionTypeOK
  <2> QED
    BY <1>1, <1>2, <1>3, <2>1, <2>3, <2>5, <2>6, <2>7, <2>8, HandlerMoves DEF Kept
<1>5. CASE ~EventOf[e].valid
  <2>1. /\ finished' = finished \union {e} /\ position' = position + 1
        /\ hpc' = hpc /\ handling' = handling
    BY <1>5 DEF FetchMessage, handlerVars
  <2>2. owed[e] = {}
    BY <1>2, <1>5 DEF OwedFits, PostedFits
  <2>3. PostedFits' /\ NoRuleIsMissed' /\ finished' \subseteq Events
    BY <1>1, <1>2, <1>3, <1>5, <2>1, <2>2 DEF PostedFits, NoRuleIsMissed, Kept
  <2>4. position' \in 0 .. Len(log) + 1
    BY <1>1, <1>2, <2>1
  <2>5. ConsumerFits'
    BY <1>1, <2>1 DEF ConsumerFits
  <2>6. HandlersTypeOK' /\ HandlerFits(Consumer)' /\ hpc'[Consumer] # "publish"
    BY <1>1, <1>3, <2>1 DEF HandlersTypeOK, HandlerFits
  <2> QED
    BY <1>1, <1>2, <1>3, <2>1, <2>3, <2>4, <2>5, <2>6, HandlerMoves DEF Kept
<1> QED
  BY <1>4, <1>5

LEMMA ConsumerStepKeepsIngest ==
    ASSUME IngestInv, ConsumerStep
    PROVE  IngestInv'
<1> USE DEF IngestInv
<1>1. /\ Len(log) \in Nat /\ DOMAIN log = 1 .. Len(log) /\ ToSet(log) \subseteq Events
      /\ position \in 0 .. Len(log) + 1 /\ committed \in 0 .. Len(log) + 1
      /\ dropped \subseteq Events
  BY IngestTypes DEF IngestionTypeOK, ToSet
<1>2. CASE ConsumerStarts
  <2>1. hpc[Consumer] = "idle"
    BY <1>2 DEF ConsumerStarts, ConsumerFits
  <2> QED
    BY <1>1, <1>2, <2>1, ConsumerMoves DEF ConsumerStarts, eventTrace, tenantVars
<1>3. CASE FindPosition
  <2>1. hpc[Consumer] = "idle"
    BY <1>1, <1>3 DEF FindPosition, ConsumerFits
  <2>2. position' \in 0 .. Len(log) + 1 /\ dropped' \subseteq Events
    BY <1>1, <1>3 DEF FindPosition
  <2> QED
    BY <1>1, <1>3, <2>1, <2>2, ConsumerMoves
       DEF FindPosition, eventTrace, tenantVars, IngestionTypeOK
<1>4. CASE CommitPosition
  <2>1. IngestionTypeOK'
    BY <1>1, <1>4 DEF CommitPosition, IngestionTypeOK, handlerVars, eventTrace
  <2>2. \A h \in Handlers : HandlerFits(h)'
    BY <1>4 DEF CommitPosition, HandlerFits, handlerVars, eventTrace
  <2>3. ConsumerFits' /\ LogFits' /\ PostedFits' /\ NoRuleIsMissed'
    BY <1>4 DEF CommitPosition, ConsumerFits, LogFits, PostedFits, NoRuleIsMissed,
                handlerVars, eventTrace
  <2>4. OwedFits'
    BY <1>4 DEF CommitPosition, OwedFits, Enabled, MatchRules, eventTrace, tenantVars
  <2> QED
    BY <2>1, <2>2, <2>3, <2>4
<1>5. CASE FetchMessage
  BY <1>5, FetchKeepsIngest
<1>6. CASE HandlerStep(Consumer)
  BY <1>6, HandlerStepKeepsIngest DEF Handlers
<1> QED
  BY <1>2, <1>3, <1>4, <1>5, <1>6 DEF ConsumerStep

(* POST: the event is new to the log, to the handlers and to what is owed. *)
LEMMA PostKeepsIngest ==
    ASSUME IngestInv, NEW q \in Requests, NEW e \in Events, PostEvent(q, e)
    PROVE  IngestInv'
<1> USE DEF IngestInv
<1> DEFINE taken == [event |-> e, todo |-> {}, looked |-> {}]
<1>1. /\ hpc[q] = "idle" /\ e \notin posted /\ EventOf[e].valid
      /\ Enabled(EventOf[e].tenant)
      /\ posted' = posted \union {e}
      /\ owed' = [owed EXCEPT ![e] = MatchRules(rules, EventOf[e])]
      /\ handling' = [handling EXCEPT ![q] = taken]
      /\ hpc' = [hpc EXCEPT ![q] = "publish"] \/ hpc' = [hpc EXCEPT ![q] = "tenant"]
      /\ UNCHANGED <<topicVars, rules, badZone, processed, finished, dropped, tenants>>
  BY DEF PostEvent, HGoto, tenantVars
<1>2. q \in Handlers /\ q # Consumer /\ Consumer \in Handlers /\ taken \in HandlingType
  BY IngestionAssumption DEF Handlers, HandlingType
<1>3. /\ hpc \in [Handlers -> {"idle", "publish", "tenant", "rules", "calls"}]
      /\ handling \in [Handlers -> HandlingType \union {NoEvent}]
      /\ owed \in [Events -> SUBSET Rules]
  BY DEF IngestionTypeOK, HandlingType
<1>4. /\ HandlersTypeOK' /\ hpc'[q] \in {"publish", "tenant"} /\ handling'[q] = taken
      /\ \A g \in Handlers \ {q} : hpc'[g] = hpc[g] /\ handling'[g] = handling[g]
  BY <1>1, <1>2, <1>3 DEF HandlersTypeOK
<1>5. /\ owed' \in [Events -> SUBSET Rules] /\ owed'[e] = MatchRules(rules, EventOf[e])
      /\ \A f \in Events \ {e} : owed'[f] = owed[f]
  BY <1>1, <1>3, IngestTypes
<1>6. IngestionTypeOK'
  BY <1>1, <1>4, <1>5 DEF IngestionTypeOK, HandlersTypeOK, HandlingType, topicVars
<1>7. ASSUME NEW g \in Handlers PROVE HandlerFits(g)'
  <2>1. CASE g = q
    BY <1>1, <1>2, <1>4, <2>1 DEF HandlerFits
  <2>2. CASE g # q
    <3>1. hpc[g] # "idle" => handling[g].event \in Events \ {e}
      BY <1>1 DEF HandlerFits, HandlingType
    <3> QED
      BY <1>1, <1>4, <1>5, <2>2, <3>1 DEF HandlerFits
  <2> QED
    BY <2>1, <2>2
<1>8. ConsumerFits'
  BY <1>1, <1>2, <1>4 DEF ConsumerFits, topicVars
<1>9. LogFits'
  <2>1. \A i \in DOMAIN log : log[i] # e
    BY <1>1 DEF LogFits
  <2>2. \A g \in Handlers \ {q} : hpc'[g] = "publish" =>
           /\ hpc[g] = "publish" /\ handling'[g] = handling[g] /\ handling[g].event # e
    BY <1>1, <1>4 DEF HandlerFits
  <2>3. handling'[q].event = e
    BY <1>4
  <2> QED
    BY <1>1, <2>1, <2>2, <2>3 DEF LogFits, topicVars
<1>10. OwedFits'
  BY <1>1, <1>5 DEF OwedFits, Enabled
<1>11. PostedFits' /\ NoRuleIsMissed'
  BY <1>1, <1>5, IngestTypes DEF PostedFits, NoRuleIsMissed
<1> QED
  BY <1>6, <1>7, <1>8, <1>9, <1>10, <1>11

LEMMA KillKeepsIngest ==
    ASSUME IngestInv, KillHandlers, tenants' = tenants
    PROVE  IngestInv'
<1> USE DEF IngestInv
<1>1. /\ consumer' \in {"starting", "off"} /\ position' = 0
      /\ hpc' = [h \in Handlers |-> "idle"]
      /\ handling' = [h \in Handlers |-> NoEvent]
      /\ UNCHANGED <<useKafka, rules, badZone, log, committed, eventTrace>>
  BY DEF KillHandlers
<1>2. IngestionTypeOK'
  BY <1>1, IngestTypes DEF IngestionTypeOK, eventTrace
<1>3. (\A h \in Handlers : HandlerFits(h)') /\ ConsumerFits'
  BY <1>1 DEF HandlerFits, ConsumerFits, Handlers
<1>4. LogFits' /\ PostedFits' /\ NoRuleIsMissed'
  BY <1>1 DEF LogFits, PostedFits, NoRuleIsMissed, eventTrace
<1>5. OwedFits'
  BY <1>1 DEF OwedFits, Enabled, MatchRules, eventTrace
<1> QED
  BY <1>2, <1>3, <1>4, <1>5

LEMMA PublishKeepsIngest ==
    ASSUME IngestInv, NEW q \in Requests, Publish(q)
    PROVE  IngestInv'
<1>1. /\ hpc[q] = "publish" /\ q \in Handlers
      /\ UNCHANGED <<useKafka, rules, badZone, consumer, position, committed, eventTrace,
                     tenants>>
  BY DEF Publish, Handlers, tenantVars
<1>2. CASE UNCHANGED <<log, handlerVars>>
  <2>1. UNCHANGED <<ingestVars, tenants>>
    BY <1>1, <1>2 DEF ingestVars, topicVars, eventTrace, handlerVars
  <2> QED
    BY <2>1, FrameKeepsIngest
<1>3. CASE Idle(q) /\ (log' = log \/ log' = Append(log, handling[q].event))
  BY <1>1, <1>3, PublishEnds
<1> QED
  BY <1>2, <1>3 DEF Publish

LEMMA EditRuleKeepsIngest ==
    ASSUME IngestInv, NEW r \in Rules, NEW rule \in RuleType, EditRule(r, rule)
    PROVE  IngestInv'
<1>1. /\ rules' = [rules EXCEPT ![r] = rule]
      /\ owed' = StillOwed(rules', tenants')
      /\ UNCHANGED <<topicVars, badZone, handlerVars, posted, processed, finished, dropped>>
  BY DEF EditRule
<1>2. rules' \in [Rules -> RuleType]
  BY <1>1 DEF IngestInv, IngestionTypeOK
<1> QED
  BY <1>1, <1>2, ShrunkenOwed DEF IngestInv, IngestionTypeOK

(* A time zone is none of what a rule is matched by.                       *)
LEMMA PutQuietHoursKeepsIngest ==
    ASSUME IngestInv, NEW t \in Tenants, NEW user \in Recipients, NEW known \in BOOLEAN,
           PutQuietHours(t, user, known)
    PROVE  IngestInv'
<1> USE DEF IngestInv, topicVars, handlerVars, eventTrace
<1>1. /\ UNCHANGED <<topicVars, handlerVars, eventTrace, rules, tenants>>
      /\ badZone' \subseteq badZone \union {<<t, user>>}
  BY DEF PutQuietHours
<1>2. badZone' \subseteq Tenants \X Recipients
  BY <1>1 DEF IngestionTypeOK
<1>3. IngestionTypeOK' /\ ConsumerFits' /\ LogFits' /\ PostedFits' /\ NoRuleIsMissed'
  BY <1>1, <1>2 DEF IngestionTypeOK, ConsumerFits, LogFits, PostedFits, NoRuleIsMissed
<1>4. \A h \in Handlers : HandlerFits(h)'
  BY <1>1 DEF HandlerFits
<1>5. OwedFits'
  BY <1>1 DEF OwedFits, Enabled, MatchRules
<1> QED
  BY <1>3, <1>4, <1>5

LEMMA IngestNextKeepsIngest ==
    ASSUME IngestInv, IngestNext
    PROVE  IngestInv'
<1>1. ASSUME NEW r \in Rules, NEW rule \in RuleChoices,
             CreateRule(r, rule) \/ UpdateRule(r, rule)
      PROVE  IngestInv'
  BY <1>1, EditRuleKeepsIngest, IngestionAssumption DEF CreateRule, UpdateRule
<1>2. ASSUME NEW r \in Rules, DeleteRule(r) PROVE IngestInv'
  <2>1. [rules[r] EXCEPT !.state = "deleted"] \in RuleType
    BY DEF IngestInv, IngestionTypeOK, RuleType
  <2> QED
    BY <1>2, <2>1, EditRuleKeepsIngest DEF DeleteRule
<1>3. ASSUME NEW q \in Requests, NEW e \in Events, PostEvent(q, e) PROVE IngestInv'
  BY <1>3, PostKeepsIngest
<1>4. ASSUME NEW q \in Requests, Publish(q) PROVE IngestInv'
  BY <1>4, PublishKeepsIngest
<1>5. ASSUME UNCHANGED <<tenantVars, faults, ingestVars>> PROVE IngestInv'
  BY <1>5, FrameKeepsIngest DEF tenantVars
<1>6. ASSUME NEW e \in Events, PublishMalformed(e) PROVE IngestInv'
  <2>1. /\ ~EventOf[e].valid /\ ~Contains(log, e) /\ log' = Append(log, e)
        /\ UNCHANGED <<useKafka, rules, badZone, consumer, position, committed, eventTrace,
                       tenants, hpc, handling>>
    BY <1>6 DEF PublishMalformed, handlerVars, tenantVars
  <2>2. \A i \in DOMAIN log : log[i] # e
    BY <2>1, IngestTypes DEF Contains, IngestInv
  <2>3. HandlersTypeOK'
    BY <2>1 DEF HandlersTypeOK, HandlingType, IngestInv, IngestionTypeOK
  <2>4. \A g \in Handlers : hpc'[g] = "publish" => handling[g].event # e
    BY <2>1 DEF IngestInv, HandlerFits
  <2> QED
    BY <2>1, <2>2, <2>3, <2>4, LogGrows
<1>7. CASE ConsumerFails
  <2>1. hpc[Consumer] = "idle" /\ consumer' = "off"
    BY <1>7 DEF ConsumerFails, ConsumerFits, IngestInv
  <2>2. /\ position' \in 0 .. Len(log) + 1 /\ committed' \in 0 .. Len(log) + 1
        /\ dropped' \subseteq Events
    BY <1>7 DEF ConsumerFails, eventTrace, IngestInv, IngestionTypeOK
  <2> QED
    BY <1>7, <2>1, <2>2, ConsumerMoves DEF ConsumerFails, eventTrace, tenantVars
<1>8. CASE ConsumerStep
  BY <1>8, ConsumerStepKeepsIngest
<1>9. ASSUME NEW h \in Handlers, HandlerStep(h) \/ HandlerThrow(h) PROVE IngestInv'
  BY <1>9, HandlerStepKeepsIngest, HandlerThrowKeepsIngest
<1>10. ASSUME NEW t \in Tenants, NEW user \in Recipients, NEW known \in BOOLEAN,
              PutQuietHours(t, user, known)
       PROVE  IngestInv'
  BY <1>10, PutQuietHoursKeepsIngest
<1> QED
  BY <1>1, <1>2, <1>3, <1>4, <1>5, <1>6, <1>7, <1>8, <1>9, <1>10 DEF IngestNext

LEMMA IngestInvNext ==
    ASSUME IngestInv, [WorkersNext]_workerVars
    PROVE  IngestInv'
<1>1. CASE Disown
  BY <1>1, ShrunkenOwed DEF Disown, IngestInv, IngestionTypeOK
<1>2. CASE (HeartNext \/ BotNext) /\ UNCHANGED ingestVars
  BY <1>2, OthersReadTenants, FrameKeepsIngest DEF ReadsTenants
<1>3. CASE IngestNext
  BY <1>3, IngestNextKeepsIngest
<1>4. CASE ServerCrash
  BY <1>4, KillKeepsIngest DEF ServerCrash
<1>5. CASE UNCHANGED workerVars
  BY <1>5, FrameKeepsIngest DEF workerVars, tenantVars
<1> QED
  BY <1>1, <1>2, <1>3, <1>4, <1>5 DEF WorkersNext

(* An event a handler is done with has had a call for every rule that has  *)
(* matched it ever since its POST, whatever threw, was retried, redelivered *)
(* or edited meanwhile.                                                    *)
THEOREM EveryRuleIsCalled == WorkersSpec => []NoRuleIsMissed
<1>1. IngestInv => NoRuleIsMissed
  BY DEF IngestInv
<1> QED
  BY IngestInvInit, IngestInvNext, <1>1, PTL DEF WorkersSpec

-----------------------------------------------------------------------------
(* All parts together.                                                     *)

WorkersInv == TenantsInv /\ HeartInv /\ BotInv /\ IngestInv

(* Every variable of the workers keeps its type: the PATCHes', the bot's   *)
(* offsets and the log's bounds, the consumer's position among them.       *)
THEOREM WorkersKeepTheirTypes == WorkersSpec => []WorkersTypeOK
<1>1. WorkersInit => WorkersInv
  BY TenantsInvInit, HeartInvInit, BotInvInit, IngestInvInit DEF WorkersInv
<1>2. WorkersInv /\ [WorkersNext]_workerVars => WorkersInv'
  BY TenantsInvNext, HeartInvNext, BotInvNext, IngestInvNext DEF WorkersInv
<1>3. WorkersInv => WorkersTypeOK
  BY DEF WorkersInv, TenantsInv, HeartInv, BotInv, IngestInv, WorkersTypeOK
<1> QED
  BY <1>1, <1>2, <1>3, PTL DEF WorkersSpec
=============================================================================
