----------------------------- MODULE Heartbeat -----------------------------
(***************************************************************************)
(* Heartbeats: the routes of heartbeat/routes.ts, where a source pulses,   *)
(* and the job of heartbeat/checker.ts, which selects the overdue rows and *)
(* for one after the other publishes an event, then stamps alerted_at.  A  *)
(* pulse clears the stamp, and every stamp is of a later time than the     *)
(* last pulse, so of the stamp it matters only whether there is one.       *)
(***************************************************************************)
EXTENDS TenantAdmin, Producer

CONSTANTS
    Sources, OwnerOf,  \* OwnerOf[s]: the tenant of source s
    Intervals,         \* interval_minutes, in steps of the clock
    SilenceCap,        \* silence stops counting here
    NoRun

RunType == [list : SUBSET Sources, row : Sources, step : {"publish", "wait", "mark"},
            pulsed : SUBSET Sources, gone : SUBSET Sources]

ASSUME HeartbeatAssumption ==
    /\ OwnerOf \in [Sources -> Tenants]
    /\ SilenceCap \in Nat
    /\ Intervals # {} /\ Intervals \subseteq 0 .. SilenceCap - 1
    /\ NoRun \notin RunType

VARIABLES
    heartbeats,
    run,     \* the SELECT's rows yet to come, the one at hand, and, of these,
             \* the ones that pulsed and the ones deleted since
    alerts,  \* alerts[s]: events sent since s last pulsed: 0, 1, 2 = more
    masked,  \* sources stamped, since their last pulse, for the absence before
    unstamped \* sources reported, since their last pulse, by a run that an
              \* error or the server's death kept from the stamp

heartVars == <<producerVars, heartbeats, run, alerts, masked, unstamped>>

HeartbeatType ==
    [here : BOOLEAN, silence : 0 .. SilenceCap, interval : Intervals, alerted : BOOLEAN]

NoHeartbeat ==
    [here |-> FALSE, silence |-> 0, interval |-> CHOOSE i \in Intervals : TRUE,
     alerted |-> FALSE]

HeartbeatTypeOK ==
    /\ ProducerTypeOK
    /\ heartbeats \in [Sources -> HeartbeatType]
    /\ run \in [Runs -> RunType \union {NoRun}]
    /\ alerts \in [Sources -> 0 .. 2]
    /\ {masked, unstamped} \subseteq SUBSET Sources

HeartbeatInit ==
    /\ ProducerInit
    /\ heartbeats = [s \in Sources |-> NoHeartbeat]
    /\ run = [r \in Runs |-> NoRun]
    /\ alerts = [s \in Sources |-> 0]
    /\ masked = {}
    /\ unstamped = {}

-----------------------------------------------------------------------------
(* The routes.  The POST registers the source or pulses; it may change the *)
(* interval.                                                               *)
Pulse(s, interval) ==
    /\ Enabled(OwnerOf[s])
    /\ heartbeats' = [heartbeats EXCEPT ![s] =
          [here |-> TRUE, silence |-> 0, interval |-> interval, alerted |-> FALSE]]
    /\ run' = [r \in Runs |-> IF run[r] = NoRun THEN NoRun
                              ELSE [run[r] EXCEPT !.pulsed = @ \union {s}]]
    /\ alerts' = [alerts EXCEPT ![s] = 0]
    /\ masked' = masked \ {s}
    /\ unstamped' = unstamped \ {s}
    /\ UNCHANGED <<tenantVars, faults, producerVars>>

(* A source that pulses again is another row, with another id.             *)
DeleteHeartbeat(s) ==
    /\ Enabled(OwnerOf[s])
    /\ heartbeats[s].here
    /\ heartbeats' = [heartbeats EXCEPT ![s] = NoHeartbeat]
    /\ run' = [r \in Runs |-> IF run[r] = NoRun THEN NoRun
                              ELSE [run[r] EXCEPT !.gone = @ \union {s}]]
    /\ alerts' = [alerts EXCEPT ![s] = 0]
    /\ masked' = masked \ {s}
    /\ unstamped' = unstamped \ {s}
    /\ UNCHANGED <<tenantVars, faults, producerVars>>

(* Time passes.                                                            *)
Silent(h) == IF h.here /\ h.silence < SilenceCap THEN [h EXCEPT !.silence = @ + 1] ELSE h

HeartTick ==
    /\ heartbeats' = [s \in Sources |-> Silent(heartbeats[s])]
    /\ UNCHANGED <<tenantVars, faults, producerVars, run, alerts, masked, unstamped>>

-----------------------------------------------------------------------------
(* The checker.                                                            *)
(* Mutant of Stale: whether there was an alert is not asked.                *)
StaleAgain(h) == h.here /\ h.silence > h.interval

(* A tenant may be disabled: its rows are checked all the same.            *)
Stale(h) == h.here /\ h.silence > h.interval /\ ~h.alerted

SelectStale(r) ==
    LET stale == {s \in Sources : Stale(heartbeats[s])}
    IN  /\ run[r] = NoRun
        /\ \E s \in stale :
              run' = [run EXCEPT ![r] = [list |-> stale \ {s}, row |-> s,
                        step |-> "publish", pulsed |-> {}, gone |-> {}]]
        /\ UNCHANGED <<tenantVars, faults, producerVars, heartbeats, alerts, masked, unstamped>>

EndRun(r) == run' = [run EXCEPT ![r] = NoRun]

(* Mutant of PublishAlert: the row is stamped before its event is sent.     *)
PublishAlertStamped(r) ==
    /\ run[r] # NoRun /\ run[r].step = "publish"
    /\ \/ GetProducer(r) /\ run' = [run EXCEPT ![r].step = "wait"]
       \/ SendThrows(r) /\ EndRun(r)
    /\ heartbeats' = [heartbeats EXCEPT ![run[r].row].alerted = @ \/ heartbeats[run[r].row].here]
    /\ UNCHANGED <<tenantVars, faults, alerts, masked, unstamped>>

(* A throw ends the loop: the rows yet to come are left for another run.   *)
PublishAlert(r) ==
    /\ run[r] # NoRun /\ run[r].step = "publish"
    /\ \/ GetProducer(r) /\ run' = [run EXCEPT ![r].step = "wait"]
       \/ SendThrows(r) /\ EndRun(r)
    /\ UNCHANGED <<tenantVars, faults, heartbeats, alerts, masked, unstamped>>

AlertSent(r) ==
    LET s == run[r].row
    IN  /\ run[r] # NoRun /\ run[r].step = "wait"
        /\ Sent(r)
        /\ run' = [run EXCEPT ![r].step = "mark"]
        /\ alerts' = [alerts EXCEPT ![s] = IF s \in run[r].gone \/ @ = 2 THEN @ ELSE @ + 1]
        /\ UNCHANGED <<tenantVars, faults, heartbeats, masked, unstamped>>

(* The UPDATE is by id: it stamps the row even if it pulsed since it was   *)
(* selected, and a row that was deleted since is not there.                *)
MarkAlerted(r) ==
    LET s == run[r].row
        there == heartbeats[s].here /\ s \notin run[r].gone
    IN  /\ run[r] # NoRun /\ run[r].step = "mark"
        /\ heartbeats' = [heartbeats EXCEPT ![s].alerted = @ \/ there]
        /\ masked' = IF there /\ s \in run[r].pulsed THEN masked \union {s} ELSE masked
        /\ \/ run[r].list = {} /\ EndRun(r)
           \/ \E next \in run[r].list :
                 run' = [run EXCEPT ![r].list = @ \ {next}, ![r].row = next,
                                    ![r].step = "publish"]
        /\ UNCHANGED <<tenantVars, faults, producerVars, alerts, unstamped>>

CheckStep(r) ==
    \/ PublishAlert(r)
    \/ AlertSent(r)
    \/ MarkAlerted(r)

(* POST /api/events publishes as well; Ingestion has the rest of it.       *)
OthersPublish(q) ==
    /\ GetProducer(q) \/ SendThrows(q) \/ Sent(q)
    /\ UNCHANGED <<tenantVars, faults, heartbeats, run, alerts, masked, unstamped>>

(* The connect somebody waits for is made.                                 *)
ProducerConnected(p) ==
    /\ Connected(p)
    /\ UNCHANGED <<tenantVars, faults, heartbeats, run, alerts, masked, unstamped>>

(* The row a run has reported in this absence and not stamped.             *)
Reported(r) ==
    {s \in Sources : /\ run[r] # NoRun /\ run[r].step = "mark"
                     /\ run[r].row = s /\ s \notin run[r].gone
                     /\ alerts[s] > 0}

(* The publish or the UPDATE fails, and ends the loop.  A broker that took *)
(* the event though its answer is lost is AlertSent and then this.         *)
CheckThrow(p) ==
    /\ faults < MaxFaults
    /\ faults' = faults + 1
    /\ \/ PublishThrow(p)
       \/ p \in Runs /\ run[p] # NoRun /\ run[p].step = "mark" /\ UNCHANGED producerVars
    /\ run' = [r \in Runs |-> IF r = p THEN NoRun ELSE run[r]]
    /\ unstamped' = unstamped \union UNION {Reported(r) : r \in Runs \intersect {p}}
    /\ UNCHANGED <<tenantVars, heartbeats, alerts, masked>>

KillChecks ==
    /\ producer' = "null"
    /\ ppc' = [p \in Publishers |-> "idle"]
    /\ run' = [r \in Runs |-> NoRun]
    /\ unstamped' = unstamped \union UNION {Reported(r) : r \in Runs}
    /\ UNCHANGED <<heartbeats, alerts, masked>>

-----------------------------------------------------------------------------
(* heartbeat/checker.ts: "not already alerted for this absence".  Between  *)
(* two pulses a source is reported once, whatever fails: a publish that    *)
(* throws reports no row again that its run has stamped before it.  Two    *)
(* events has only a source whose own stamp an error or a crash prevented. *)
OneAlertPerAbsence == \A s \in Sources : alerts[s] > 1 => s \in unstamped

(* A stamped row has been reported since it last pulsed, unless the pulse  *)
(* came between the run's SELECT and its UPDATE: no stamp without an event.*)
StampedMeansAlerted ==
    \A s \in Sources : heartbeats[s].alerted => alerts[s] > 0 \/ s \in masked

(* An overdue source is reported or pulses again.  Excused are a row that  *)
(* is deleted, one stamped for the absence before, and a server whose      *)
(* producer is stuck unconnected because its one connect failed.           *)
StaleIsAlerted ==
    \A s \in Sources :
        (heartbeats[s].here /\ heartbeats[s].silence > heartbeats[s].interval) ~>
            \/ alerts[s] > 0
            \/ ~heartbeats[s].here \/ heartbeats[s].silence = 0
            \/ s \in masked
            \/ faults > 0 /\ producer = "stored"
=============================================================================
