----------------------------- MODULE Ingestion -----------------------------
(***************************************************************************)
(* How an event comes to the pipeline: POST /api/events of                 *)
(* api/events.routes.ts, which publishes it or, without Kafka, handles it  *)
(* itself; the consumer of consumer/kafka.ts; matchRules and               *)
(* resolveRecipient of consumer/router.ts; and the rules they read, with   *)
(* their API.  processNotification is one step here that returns or throws: *)
(* Pipeline has what is in it.                                             *)
(*                                                                         *)
(* Kafka is outside src/: one partition, whose consumer keeps a position   *)
(* in memory and commits it now and then.  A group that never committed    *)
(* one starts at the end (fromBeginning: false), each time it starts.      *)
(***************************************************************************)
EXTENDS TenantAdmin, Producer, Sequences, SequencesExt

CONSTANTS
    Events, EventOf,     \* EventOf[e]: what is in event e
    Rules, RuleOf,       \* RuleOf[r]: the tenant of rule r
    FirstRules,          \* the rules there are to begin with
    RuleChoices,         \* what a rule may be changed into
    Recipients,          \* the user ids that events name, tenant by tenant
    NoRecipient,
    Consumer,            \* the handler of the consumer
    NoEvent

Handlers == Requests \union {Consumer}

EventType == [tenant : Tenants, type : STRING,
              valid : BOOLEAN,    \* it is JSON that fits kafkaEventSchema
              fields : BOOLEAN,   \* payload has what an event_field names,
              user : Recipients \union {NoRecipient}] \* and this is a user id

RuleType == [state : {"free", "enabled", "disabled", "deleted"}, type : STRING,
             recipientType : {"static", "event_field", "role"},
             inApp : BOOLEAN,     \* its channel is in_app
             renders : BOOLEAN]   \* its template compiles

ASSUME IngestionAssumption ==
    /\ IsFiniteSet(Events)
    /\ EventOf \in [Events -> EventType]
    /\ RuleOf \in [Rules -> Tenants]
    /\ FirstRules \in [Rules -> RuleType]
    /\ RuleChoices \subseteq RuleType
    /\ Consumer \notin Requests
    /\ NoRecipient \notin Recipients

VARIABLES
    useKafka,  \* USE_KAFKA
    rules,
    badZone,   \* the users whose quiet hours name a time zone there is not
    log,       \* the topic
    consumer,  \* starting, on, or off because its start failed
    position,  \* the offset of its next message, 0 when not known yet
    committed, \* the offset it committed, 0 for none
    hpc,       \* where each handler is
    handling,  \* its event, the matched rules it has yet to call, and which of
               \* the matched look a user's preferences up
    posted,    \* events accepted by a POST
    owed,      \* rules that have matched an event ever since
    processed, \* the calls that returned
    finished,  \* events a handler is done with: 200, or the next message
    dropped    \* events a start at the end of the topic has passed over

topicVars == <<useKafka, log, consumer, position, committed>>
handlerVars == <<hpc, handling>>
eventTrace == <<posted, owed, processed, finished, dropped>>
ingestVars == <<topicVars, rules, badZone, handlerVars, eventTrace>>

HandlingType == [event : Events, todo : SUBSET Rules, looked : SUBSET Rules]

IngestionTypeOK ==
    /\ useKafka \in BOOLEAN
    /\ rules \in [Rules -> RuleType]
    /\ badZone \subseteq Tenants \X Recipients
    /\ log \in BoundedSeq(Events, Cardinality(Events))
    /\ consumer \in {"starting", "on", "off"}
    /\ position \in 0 .. Len(log) + 1
    /\ committed \in 0 .. Len(log) + 1
    /\ hpc \in [Handlers -> {"idle", "publish", "tenant", "rules", "calls"}]
    /\ handling \in [Handlers -> HandlingType \union {NoEvent}]
    /\ {posted, finished, dropped} \subseteq SUBSET Events
    /\ owed \in [Events -> SUBSET Rules]
    /\ processed \in [Events -> SUBSET Rules]

IngestionInit ==
    /\ useKafka \in BOOLEAN
    /\ rules = FirstRules
    /\ badZone \in SUBSET (Tenants \X Recipients)
    /\ log = <<>>
    /\ consumer = IF useKafka THEN "starting" ELSE "off"
    /\ position = 0
    /\ committed = 0
    /\ hpc = [h \in Handlers |-> "idle"]
    /\ handling = [h \in Handlers |-> NoEvent]
    /\ posted = {}
    /\ owed = [e \in Events |-> {}]
    /\ processed = [e \in Events |-> {}]
    /\ finished = {}
    /\ dropped = {}

-----------------------------------------------------------------------------
(* Rules.                                                                  *)
ResolveRecipient(rule, event) ==
    \/ rule.recipientType = "static"
    \/ rule.recipientType = "event_field" /\ event.fields

(* The rows of matchRules, less those resolveRecipient has nobody for.     *)
MatchRules(table, event) ==
    {r \in Rules : /\ RuleOf[r] = event.tenant
                   /\ table[r].type = event.type
                   /\ table[r].state = "enabled"
                   /\ ResolveRecipient(table[r], event)}

(* in_app is addressed by the user id, and neither that nor a direct       *)
(* address has the preferences read.                                       *)
LooksUp(rule, event) ==
    rule.recipientType = "event_field" /\ ~rule.inApp /\ event.user # NoRecipient

StillOwed(table, tenantTable) ==
    [e \in Events |-> IF tenantTable[EventOf[e].tenant].state = "enabled"
                      THEN owed[e] \intersect MatchRules(table, EventOf[e]) ELSE {}]

EditRule(r, rule) ==
    /\ Edit
    /\ rules' = [rules EXCEPT ![r] = rule]
    /\ owed' = StillOwed(rules', tenants)
    /\ UNCHANGED <<tenants, patch, crossed, faults, producerVars, topicVars, badZone,
                   handlerVars, posted, processed, finished, dropped>>

CreateRule(r, rule) ==
    /\ Enabled(RuleOf[r]) /\ rules[r].state = "free"
    /\ rule.state \in {"enabled", "disabled"}
    /\ EditRule(r, rule)

(* PUT of the rule, or of the template it points to.                       *)
UpdateRule(r, rule) ==
    /\ Enabled(RuleOf[r]) /\ rules[r].state \in {"enabled", "disabled"}
    /\ rule.state \in {"enabled", "disabled"}
    /\ EditRule(r, rule)

DeleteRule(r) ==
    /\ Enabled(RuleOf[r]) /\ rules[r].state \in {"enabled", "disabled"}
    /\ EditRule(r, [rules[r] EXCEPT !.state = "deleted"])

(* PUT /api/preferences/:userId takes any string for a time zone.          *)
PutQuietHours(t, user, known) ==
    /\ Edit
    /\ Enabled(t)
    /\ badZone' = IF known THEN badZone \ {<<t, user>>} ELSE badZone \union {<<t, user>>}
    /\ UNCHANGED <<tenants, patch, crossed, faults, producerVars, topicVars, rules,
                   handlerVars, eventTrace>>

ZoneFails(event) == <<event.tenant, event.user>> \in badZone

-----------------------------------------------------------------------------
HGoto(h, step) == hpc' = [hpc EXCEPT ![h] = step]

Event(h) == EventOf[handling[h].event]

(* POST /api/events, from the tenant's key on.                             *)
PostEvent(q, e) ==
    /\ hpc[q] = "idle"
    /\ e \notin posted /\ EventOf[e].valid
    /\ Enabled(EventOf[e].tenant)
    /\ consumer # "starting"
    /\ HGoto(q, IF useKafka THEN "publish" ELSE "tenant")
    /\ handling' = [handling EXCEPT ![q] = [event |-> e, todo |-> {}, looked |-> {}]]
    /\ posted' = posted \union {e}
    /\ owed' = [owed EXCEPT ![e] = MatchRules(rules, EventOf[e])]
    /\ UNCHANGED <<tenantVars, faults, producerVars, topicVars, rules, badZone, processed,
                   finished, dropped>>

Idle(h) == HGoto(h, "idle") /\ handling' = [handling EXCEPT ![h] = NoEvent]

Publish(q) ==
    /\ hpc[q] = "publish"
    /\ \/ GetProducer(q) /\ UNCHANGED <<log, handlerVars>>
       \/ SendThrows(q) /\ Idle(q) /\ UNCHANGED log
       \/ Sent(q) /\ Idle(q) /\ log' = Append(log, handling[q].event)
    /\ UNCHANGED <<tenantVars, faults, useKafka, consumer, position, committed,
                   rules, badZone, eventTrace>>

(* Whoever else writes to the topic may write what is no event.            *)
PublishMalformed(e) ==
    /\ useKafka
    /\ ~EventOf[e].valid /\ ~Contains(log, e)
    /\ log' = Append(log, e)
    /\ UNCHANGED <<tenantVars, faults, producerVars, useKafka, consumer, position,
                   committed, rules, badZone, handlerVars, eventTrace>>

-----------------------------------------------------------------------------
(* The consumer, which the server starts before it listens.                *)
ConsumerStarts ==
    /\ consumer = "starting"
    /\ consumer' = "on"
    /\ UNCHANGED <<tenantVars, faults, producerVars, useKafka, log, position,
                   committed, rules, badZone, handlerVars, eventTrace>>

(* "Failed to start Kafka consumer -- events will not be processed": but   *)
(* they are accepted.  A subscribe that fails is logged and passed over,   *)
(* and leaves a consumer of no topic.                                      *)
ConsumerFails ==
    /\ consumer = "starting"
    /\ faults < MaxFaults
    /\ faults' = faults + 1
    /\ consumer' = "off"
    /\ UNCHANGED <<tenantVars, producerVars, useKafka, log, position, committed,
                   rules, badZone, handlerVars, eventTrace>>

FindPosition ==
    /\ consumer = "on" /\ position = 0
    /\ position' = IF committed = 0 THEN Len(log) + 1 ELSE committed
    /\ dropped' = IF committed = 0 THEN dropped \union (ToSet(log) \ finished) ELSE dropped
    /\ UNCHANGED <<tenantVars, faults, producerVars, useKafka, log, consumer,
                   committed, rules, badZone, handlerVars, posted, owed, processed, finished>>

CommitPosition ==
    /\ consumer = "on"
    /\ committed < position
    /\ position > 1 /\ log[position - 1] \in finished
    /\ committed' = position
    /\ UNCHANGED <<tenantVars, faults, producerVars, useKafka, log, consumer,
                   position, rules, badZone, handlerVars, eventTrace>>

(* Done with the event: the 200, or the next message.                      *)
Finish(h) ==
    /\ Idle(h)
    /\ finished' = finished \union {handling[h].event}
    /\ position' = IF h = Consumer THEN position + 1 ELSE position

(* Mutant of FetchMessage: what is no event is an error of the handler.     *)
FetchMessageStrict ==
    /\ consumer = "on" /\ position \in 1 .. Len(log) /\ hpc[Consumer] = "idle"
    /\ LET e == log[position]
       IN  /\ EventOf[e].valid
           /\ HGoto(Consumer, "tenant")
           /\ handling' = [handling EXCEPT ![Consumer] = [event |-> e, todo |-> {}, looked |-> {}]]
    /\ UNCHANGED <<tenantVars, faults, producerVars, useKafka, log, consumer,
                   committed, rules, badZone, posted, owed, processed, dropped, finished, position>>

(* What is no event is skipped.                                            *)
FetchMessage ==
    /\ consumer = "on" /\ position \in 1 .. Len(log) /\ hpc[Consumer] = "idle"
    /\ LET e == log[position]
       IN  \/ /\ EventOf[e].valid
              /\ HGoto(Consumer, "tenant")
              /\ handling' = [handling EXCEPT ![Consumer] = [event |-> e, todo |-> {}, looked |-> {}]]
              /\ UNCHANGED <<finished, position>>
           \/ /\ ~EventOf[e].valid
              /\ finished' = finished \union {e}
              /\ position' = position + 1
              /\ UNCHANGED handlerVars
    /\ UNCHANGED <<tenantVars, faults, producerVars, useKafka, log, consumer,
                   committed, rules, badZone, posted, owed, processed, dropped>>

-----------------------------------------------------------------------------
(* The handling of an event: by the consumer, or by the POST in direct     *)
(* mode, whose tenant was found enabled by its key.                        *)
ReadTenant(h) ==
    /\ hpc[h] = "tenant"
    /\ \/ /\ h = Consumer /\ ~Enabled(Event(h).tenant)
          /\ Finish(h)
       \/ /\ h # Consumer \/ Enabled(Event(h).tenant)
          /\ HGoto(h, "rules")
          /\ UNCHANGED <<handling, finished, position>>
    /\ UNCHANGED <<tenantVars, faults, producerVars, useKafka, log, consumer,
                   committed, rules, badZone, posted, owed, processed, dropped>>

SelectRules(h) ==
    LET matched == MatchRules(rules, Event(h))
    IN  /\ hpc[h] = "rules"
        /\ \/ matched = {} /\ Finish(h)
           \/ /\ matched # {}
              /\ HGoto(h, "calls")
              /\ handling' = [handling EXCEPT ![h].todo = matched,
                      ![h].looked = {r \in matched : LooksUp(rules[r], Event(h))}]
              /\ UNCHANGED <<finished, position>>
        /\ UNCHANGED <<tenantVars, faults, producerVars, useKafka, log, consumer,
                       committed, rules, badZone, posted, owed, processed, dropped>>

(* One rule after the other, in the order of a SELECT without ORDER BY.    *)
(* The call runs with the rule as it was selected, but the row it inserts  *)
(* refers to the rule, so a rule deleted since makes it throw.  A template *)
(* that does not compile throws, and so does a time zone of the recipient  *)
(* that there is not, unless the call ends before it is needed.            *)
CallReturns(h) ==
    /\ hpc[h] = "calls"
    /\ \E r \in handling[h].todo :
          /\ rules[r].state # "deleted"
          /\ processed' = [processed EXCEPT ![handling[h].event] = @ \union {r}]
          /\ \/ handling[h].todo = {r} /\ Finish(h)
             \/ /\ handling[h].todo # {r}
                /\ handling' = [handling EXCEPT ![h].todo = @ \ {r}]
                /\ UNCHANGED <<hpc, finished, position>>
    /\ UNCHANGED <<tenantVars, faults, producerVars, useKafka, log, consumer,
                   committed, rules, badZone, posted, owed, dropped>>

(* Mutant of Failed: the message is given up.                               *)
FailedOnce(h) ==
    /\ Idle(h)
    /\ position' = IF h = Consumer THEN position + 1 ELSE position
    /\ finished' = finished \union {handling[h].event}

(* A POST answers 500.  The consumer gets the message again, from its      *)
(* position or, started anew after some retries, from what it committed.   *)
Failed(h) ==
    /\ Idle(h)
    /\ \/ UNCHANGED position
       \/ h = Consumer /\ position' = 0
    /\ UNCHANGED finished

CallThrows(h) ==
    /\ hpc[h] = "calls"
    /\ \E r \in handling[h].todo :
          \/ rules[r].state = "deleted" \/ ~rules[r].renders
          \/ r \in handling[h].looked /\ ZoneFails(Event(h))
    /\ Failed(h)
    /\ UNCHANGED <<tenantVars, faults, producerVars, useKafka, log, consumer,
                   committed, rules, badZone, posted, owed, processed, dropped>>

(* A statement fails, or the send, of which the answer alone may be lost.  *)
HandlerThrow(h) ==
    /\ hpc[h] # "idle"
    /\ faults < MaxFaults
    /\ faults' = faults + 1
    /\ \/ /\ hpc[h] = "publish" /\ PublishThrow(h)
          /\ Idle(h)
          /\ \/ UNCHANGED log
             \/ ppc[h] = "send" /\ log' = Append(log, handling[h].event)
          /\ UNCHANGED <<finished, position>>
       \/ hpc[h] # "publish" /\ Failed(h) /\ UNCHANGED <<producerVars, log>>
    /\ UNCHANGED <<tenantVars, useKafka, consumer, committed, rules, badZone, posted,
                   owed, processed, dropped>>

HandlerStep(h) == ReadTenant(h) \/ SelectRules(h) \/ CallReturns(h) \/ CallThrows(h)

ConsumerStep ==
    \/ ConsumerStarts
    \/ FindPosition
    \/ CommitPosition
    \/ FetchMessage
    \/ HandlerStep(Consumer)

KillHandlers ==
    /\ consumer' = IF useKafka THEN "starting" ELSE "off"
    /\ position' = 0
    /\ hpc' = [h \in Handlers |-> "idle"]
    /\ handling' = [h \in Handlers |-> NoEvent]
    /\ UNCHANGED <<useKafka, rules, badZone, log, committed, eventTrace>>

-----------------------------------------------------------------------------
(* An event that was answered with a 200, or that the consumer left behind *)
(* for the next message, has had a call for every rule that matched it     *)
(* from its POST on, whatever threw, was retried or was edited meanwhile.  *)
NoRuleIsMissed == \A e \in finished : owed[e] \subseteq processed[e]

(* A message not committed yet whose call throws, delivery after delivery: *)
(* its template does not compile, or its recipient's time zone is none.    *)
HoldsUp(i) ==
    LET event == EventOf[log[i]]
    IN  /\ i >= committed /\ event.valid
        /\ \E r \in MatchRules(rules, event) :
              \/ ~rules[r].renders
              \/ LooksUp(rules[r], event) /\ ZoneFails(event)

HeldUp == \E i \in DOMAIN log : HoldsUp(i)

(* consumer/kafka.ts skips malformed messages, unknown and disabled        *)
(* tenants, and has every other message again until its handler returns:   *)
(* a published event is handled.  Excused are a consumer whose start       *)
(* failed, a start at the end of the topic by a group without an offset,   *)
(* and a topic that is held up for good by a message that throws each      *)
(* time: once templates and time zones are mended, what is behind it is    *)
(* handled as well.                                                        *)
PublishedIsHandled ==
    \A e \in {e \in Events : EventOf[e].valid} :
        Contains(log, e) ~>
            \/ e \in finished \union dropped
            \/ consumer = "off"
            \/ []HeldUp
=============================================================================
