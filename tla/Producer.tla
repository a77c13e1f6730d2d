------------------------------ MODULE Producer ------------------------------
(***************************************************************************)
(* publishEvent of consumer/producer.ts: one Kafka producer for the whole  *)
(* process, made by whoever publishes first.  It is stored before it has   *)
(* connected: whoever comes meanwhile, and everyone after a connect that   *)
(* failed, sends on a producer that is not connected, which throws.        *)
(***************************************************************************)
CONSTANTS
    Runs,    \* runs of the heartbeat checker at once
    Requests \* POSTs of events in the server at once

Publishers == Runs \union Requests

VARIABLES
    producer, \* null, stored, or stored and connected
    ppc       \* what each publisher waits for

producerVars == <<producer, ppc>>

ProducerTypeOK ==
    /\ producer \in {"null", "stored", "connected"}
    /\ ppc \in [Publishers -> {"idle", "connect", "send"}]

ProducerInit == producer = "null" /\ ppc = [p \in Publishers |-> "idle"]

PGoto(p, step) == ppc' = [ppc EXCEPT ![p] = step]

(* Up to the first await: getProducer's connect, or the send.              *)
GetProducer(p) ==
    /\ ppc[p] = "idle"
    /\ \/ producer = "null" /\ producer' = "stored" /\ PGoto(p, "connect")
       \/ producer = "connected" /\ PGoto(p, "send") /\ UNCHANGED producer

SendThrows(p) == ppc[p] = "idle" /\ producer = "stored" /\ UNCHANGED producerVars

Connected(p) == ppc[p] = "connect" /\ producer' = "connected" /\ PGoto(p, "send")

Sent(p) == ppc[p] = "send" /\ PGoto(p, "idle") /\ UNCHANGED producer

(* The brokers can not be reached.                                         *)
PublishThrow(p) == ppc[p] # "idle" /\ PGoto(p, "idle") /\ UNCHANGED producer
=============================================================================
