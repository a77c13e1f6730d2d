------------------------------ MODULE Workers ------------------------------
(***************************************************************************)
(* The workers of server.ts that do not touch notifications, with the      *)
(* administration of the tenants they serve: the heartbeat checker, which  *)
(* runs with USE_KAFKA only, and the telegram bot.  They share nothing but *)
(* the tenants, so a run watches one part of them, with the others idle:   *)
(* requests of the admin API that overlap, heartbeats, bots, or events on  *)
(* their way to the pipeline.                                              *)
(***************************************************************************)
EXTENDS Heartbeat, TelegramBot, Ingestion

Parts == {"admin", "heartbeats", "bots", "events"}

CONSTANTS
    Starts,  \* Starts[part]: what a tenant may be at the start
    Configs, \* Configs[part]: the configurations tenants are given
    EditsIn  \* EditsIn[part]: the admin requests in a run

VARIABLE watched \* the part that is watched

workerVars == <<tenantVars, faults, heartVars, botVars, ingestVars, watched>>

ASSUME WorkersAssumption ==
    /\ Starts \in [Parts -> SUBSET TenantType]
    /\ Configs \in [Parts -> SUBSET Config]
    /\ EditsIn \in [Parts -> 0 .. MaxEdits]

WorkersTypeOK ==
    /\ TenantsTypeOK
    /\ HeartbeatTypeOK
    /\ BotTypeOK
    /\ IngestionTypeOK
    /\ watched \in Parts

WorkersInit ==
    /\ watched \in Parts
    /\ TenantsInit(Starts[watched], EditsIn[watched])
    /\ HeartbeatInit
    /\ BotInit
    /\ IngestionInit
    /\ watched # "events" => useKafka /\ badZone = {}

(* A configuration with another bot than the tenant had.                   *)
Rebot(t) == rebot' = IF Bot(t) \in {NoBot, tenants'[t].config.bot} THEN rebot
                     ELSE rebot \union {t}

RestOfBot == UNCHANGED <<issued, linkToken, chatId, inbox, forgotten, offset, bpc,
                         list, batch, lost, wiped, put>>

Referring == {OwnerOf[s] : s \in {s \in Sources : heartbeats[s].here}}

AdminNext ==
    \/ \E t \in Tenants, config \in Configs[watched] :
          CreateTenant(t, config) /\ UNCHANGED botVars
    \/ \E t \in Tenants, config \in Configs[watched] :
          PutConfig(t, config) /\ Rebot(t) /\ RestOfBot
    \/ \E t \in Tenants, state \in {"enabled", "disabled"} :
          PutEnabled(t, state) /\ UNCHANGED botVars
    \/ \E q \in Patches, t \in Tenants, limit \in Limits :
          watched = "admin" /\ LoadConfig(q, t, limit) /\ UNCHANGED botVars
    \/ \E q \in Patches :
          /\ WriteLimit(q)
          /\ Rebot(patch[q].tenant)
          /\ RestOfBot
    \/ \E t \in Tenants : DeleteTenant(t, Referring) /\ UNCHANGED botVars

HeartNext ==
    \/ \E s \in Sources, i \in Intervals : Pulse(s, i)
    \/ \E s \in Sources : DeleteHeartbeat(s)
    \/ HeartTick
    \/ \E r \in Runs : SelectStale(r) \/ CheckStep(r)
    \/ \E q \in Requests : OthersPublish(q)
    \/ \E p \in Publishers : ProducerConnected(p) \/ CheckThrow(p)

BotNext ==
    \/ \E u \in Users : RequestLink(u)
    \/ \E u \in Users, chat \in Chats : PutChat(u, chat)
    \/ \E k \in Tokens, chat \in Chats : PressStart(k, chat)
    \/ \E p \in Polls : ListTenants(p) \/ PollStep(p) \/ PollThrow(p)

IngestNext ==
    \/ \E r \in Rules, rule \in RuleChoices : CreateRule(r, rule) \/ UpdateRule(r, rule)
    \/ \E r \in Rules : DeleteRule(r)
    \/ \E t \in Tenants, user \in Recipients, known \in BOOLEAN : PutQuietHours(t, user, known)
    \/ \E q \in Requests, e \in Events : PostEvent(q, e)
    \/ \E q \in Requests : Publish(q)
    \/ \E q \in Requests : Connected(q) /\ UNCHANGED <<tenantVars, faults, ingestVars>>
    \/ \E e \in Events : PublishMalformed(e)
    \/ ConsumerFails
    \/ ConsumerStep
    \/ \E h \in Handlers : HandlerStep(h) \/ HandlerThrow(h)

(* A tenant that is disabled or deleted is owed nothing any more.          *)
Disown ==
    /\ owed' = StillOwed(rules, tenants')
    /\ UNCHANGED <<topicVars, rules, badZone, handlerVars, posted, processed, finished, dropped>>

Busy == \/ producer # "null" \/ \E r \in Runs : run[r] # NoRun
        \/ \E q \in Patches : patch[q] # NoPatch
        \/ \E p \in Polls : bpc[p] # "idle"
        \/ \E t \in Tenants : offset[t] # 0
        \/ consumer = "on" \/ \E h \in Handlers : hpc[h] # "idle"

ServerCrash ==
    /\ Busy
    /\ faults < MaxFaults
    /\ faults' = faults + 1
    /\ patch' = [q \in Patches |-> NoPatch]
    /\ KillChecks
    /\ KillPolls
    /\ KillHandlers
    /\ UNCHANGED <<tenants, crossed, edits>>

WorkersNext ==
    /\ \/ AdminNext /\ Disown /\ UNCHANGED heartVars
       \/ watched = "heartbeats" /\ HeartNext /\ UNCHANGED <<botVars, ingestVars>>
       \/ watched = "bots" /\ BotNext /\ UNCHANGED <<heartVars, ingestVars>>
       \/ watched = "events" /\ IngestNext
             /\ UNCHANGED <<heartbeats, run, alerts, masked, unstamped, botVars>>
       \/ ServerCrash
    /\ UNCHANGED watched

(* setInterval starts the jobs over and over, and answers arrive.          *)
CheckerRuns(p) ==
    /\ watched = "heartbeats"
    /\ ProducerConnected(p) \/ (p \in Runs /\ (SelectStale(p) \/ CheckStep(p)))
    /\ UNCHANGED <<botVars, ingestVars, watched>>

BotPolls(p) ==
    /\ watched = "bots"
    /\ ListTenants(p) \/ PollStep(p)
    /\ UNCHANGED <<heartVars, ingestVars, watched>>

ConsumerRuns ==
    /\ watched = "events"
    /\ ConsumerStep
    /\ UNCHANGED <<heartbeats, run, alerts, masked, unstamped, botVars, watched>>

WorkersFairness ==
    /\ \A p \in Publishers : WF_workerVars(CheckerRuns(p))
    /\ \A p \in Polls : WF_workerVars(BotPolls(p))
    /\ WF_workerVars(ConsumerRuns)

WorkersSpec == WorkersInit /\ [][WorkersNext]_workerVars /\ WorkersFairness

-----------------------------------------------------------------------------
(* admin.routes.ts: "Load existing tenant config to preserve unrelated     *)
(* keys".  The rate limit's PATCH leaves the tenant's bot as it is, unless *)
(* another request changed the configuration between its SELECT and its    *)
(* UPDATE: that change it undoes.                                          *)
PatchKeepsTheRest ==
    [][\A q \in Patches :
          (/\ patch[q] # NoPatch /\ q \notin crossed
           /\ patch'[q] = NoPatch /\ tenants' # tenants)
          => tenants'[patch[q].tenant].config.bot
               = tenants[patch[q].tenant].config.bot]_workerVars
=============================================================================
