------------------------------ MODULE Realtime ------------------------------
(***************************************************************************)
(* The in-app channel: the WebSocket route of ws/handler.ts beside the     *)
(* pipeline whose rows sendInApp pushes, and the unread listing of         *)
(* api/notifications.routes.ts.  A socket's listeners are there at once,   *)
(* its tenant is looked up afterwards, and only then is it registered.     *)
(* Acknowledgements write one column of one row and commute, so those that *)
(* wait are a set.  A client that is gone without a close is not modelled: *)
(* it is one that never reads.                                             *)
(***************************************************************************)
EXTENDS Pipeline

CONSTANTS
    Sockets,
    OwnerOf \* OwnerOf[s]: the tenant and user a socket's query names

ASSUME RealtimeAssumption == OwnerOf \in [Sockets -> Users]

VARIABLES
    sock,         \* readyState: "new" before there is one
    spc,          \* where the route is with the socket
    connections,  \* the registered sockets, of all keys
    messageQueue, \* what came before the validation ended
    acks,         \* acknowledgements whose UPDATE is under way
    known,        \* the notifications the client has got
    current,      \* sockets whose client listed the unread ones when "connected"
    raced,        \* pushed, but not "sent" yet, when it did
    early,        \* sockets that closed before their validation ended
    lostAcks      \* acknowledgements an error or a crash has lost

serverVars == <<sock, spc, connections, messageQueue, acks>>
clientVars == <<known, current, raced>>
traceVars  == <<early, lostAcks>>
realtimeVars == <<vars, serverVars, clientVars, traceVars>>

RealtimeTypeOK ==
    /\ TypeOK
    /\ sock \in [Sockets -> {"new", "open", "closed"}]
    /\ spc \in [Sockets -> {"none", "validating", "queued", "ready", "rejected"}]
    /\ connections \subseteq Sockets
    /\ messageQueue \in [Sockets -> SUBSET Calls]
    /\ acks \subseteq Calls
    /\ known \in [Sockets -> SUBSET Calls]
    /\ {current, early} \subseteq SUBSET Sockets
    /\ raced \in [Sockets -> SUBSET Calls]
    /\ lostAcks \subseteq Calls

RealtimeInit ==
    /\ Init
    /\ sock = [s \in Sockets |-> "new"]
    /\ spc = [s \in Sockets |-> "none"]
    /\ connections = {}
    /\ messageQueue = [s \in Sockets |-> {}]
    /\ acks = {}
    /\ known = [s \in Sockets |-> {}]
    /\ current = {}
    /\ raced = [s \in Sockets |-> {}]
    /\ early = {}
    /\ lostAcks = {}

-----------------------------------------------------------------------------
SGoto(s, step) == spc' = [spc EXCEPT ![s] = step]

MeantFor(c, s) == Request[c].channel = "in_app" /\ User(c) = OwnerOf[s]

(* The handshake is done: the route adds its listeners.                    *)
Connect(s) ==
    /\ sock[s] = "new"
    /\ sock' = [sock EXCEPT ![s] = "open"]
    /\ SGoto(s, "validating")
    /\ UNCHANGED <<vars, connections, messageQueue, acks, clientVars, traceVars>>

(* Mutant of Unregister: the user's key is deleted, not the socket.         *)
UnregisterKey(s) == {d \in connections : OwnerOf[d] # OwnerOf[s]}

Unregister(s) == connections \ {s}

(* The socket closes, by whomever: the listener takes it off the map.      *)
CloseSocket(s) ==
    /\ sock' = [sock EXCEPT ![s] = "closed"]
    /\ connections' = Unregister(s)
    /\ known' = [known EXCEPT ![s] = {}]
    /\ current' = current \ {s}
    /\ raced' = [raced EXCEPT ![s] = {}]

ClientCloses(s) ==
    /\ sock[s] = "open"
    /\ CloseSocket(s)
    /\ early' = IF spc[s] = "validating" THEN early \union {s} ELSE early
    /\ UNCHANGED <<vars, spc, messageQueue, acks, lostAcks>>

(* The tenant is not there or disabled at this moment: close(4401).        *)
Reject(s) ==
    /\ spc[s] = "validating"
    /\ SGoto(s, "rejected")
    /\ CloseSocket(s)
    /\ UNCHANGED <<vars, messageQueue, acks, traceVars>>

(* Mutant of Register: what came meanwhile is forgotten.                    *)
RegisterForgetful(s) ==
    /\ spc[s] = "validating"
    /\ connections' = connections \union {s}
    /\ SGoto(s, "queued")
    /\ messageQueue' = [messageQueue EXCEPT ![s] = {}]
    /\ UNCHANGED <<vars, sock, acks, clientVars, traceVars>>

(* The tenant is there: the socket is registered, be it closed by now.     *)
Register(s) ==
    /\ spc[s] = "validating"
    /\ connections' = connections \union {s}
    /\ SGoto(s, "queued")
    /\ UNCHANGED <<vars, sock, messageQueue, acks, clientVars, traceVars>>

(* handleMessage: the row is found by its id alone.                        *)
Acknowledge(c) ==
    /\ notifications' = [notifications EXCEPT ![c].delivered = HasRow(c)]
    /\ UNCHANGED <<clock, digestQueue, userPreferences, tenantSuppressions,
                   templates, edits, pipelineVars>>

(* The queue, one message after the other, and then "connected".           *)
ProcessQueued(s) ==
    /\ spc[s] = "queued"
    /\ \/ \E c \in messageQueue[s] :
             /\ Acknowledge(c)
             /\ messageQueue' = [messageQueue EXCEPT ![s] = @ \ {c}]
             /\ UNCHANGED spc
       \/ messageQueue[s] = {} /\ SGoto(s, "ready") /\ UNCHANGED <<vars, messageQueue>>
    /\ UNCHANGED <<sock, connections, acks, clientVars, traceVars>>

ApplyAck(c) ==
    /\ c \in acks
    /\ acks' = acks \ {c}
    /\ Acknowledge(c)
    /\ UNCHANGED <<sock, spc, connections, messageQueue, clientVars, traceVars>>

ServerStep(s) == Reject(s) \/ Register(s) \/ ProcessQueued(s)

-----------------------------------------------------------------------------
(* The client is outside src/.  It acknowledges what it has got, and asks  *)
(* for the unread ones, at any time, if it knows how to after "connected". *)
SendAck(s, c) ==
    /\ sock[s] = "open"
    /\ c \in known[s]
    /\ ~notifications[c].delivered
    /\ \/ /\ spc[s] = "validating"
          /\ messageQueue' = [messageQueue EXCEPT ![s] = @ \union {c}]
          /\ UNCHANGED acks
       \/ /\ spc[s] \in {"queued", "ready"}
          /\ acks' = acks \union {c}
          /\ UNCHANGED messageQueue
    /\ UNCHANGED <<vars, sock, spc, connections, clientVars, traceVars>>

(* GET /api/notifications/:userId/unread.                                  *)
Unread(s) ==
    {c \in Calls : /\ MeantFor(c, s)
                   /\ notifications[c].status = "sent"
                   /\ ~notifications[c].delivered}

FetchUnread(s) ==
    /\ sock[s] = "open"
    /\ known' = [known EXCEPT ![s] = @ \union Unread(s)]
    /\ current' = IF spc[s] = "ready" THEN current \union {s} ELSE current
    /\ raced' = [raced EXCEPT ![s] = {c \in Calls : MeantFor(c, s) /\ pc[c] = "record"}]
    /\ UNCHANGED <<vars, serverVars, traceVars>>

-----------------------------------------------------------------------------
(* Mutant of PushToUser: the first open socket will do.                     *)
PushToOne(c) ==
    LET open == {s \in connections : MeantFor(c, s) /\ sock[s] = "open"}
    IN  IF open = {} THEN {} ELSE {CHOOSE s \in open : TRUE}

(* pushToUser: every open socket of the user.                              *)
PushToUser(c) == {s \in connections : MeantFor(c, s) /\ sock[s] = "open"}

(* sendInApp is the dispatch of an in_app row; whether it pushed anything  *)
(* makes no difference to the pipeline.                                    *)
SendInApp ==
    LET pushed == {c \in Calls : /\ Request[c].channel = "in_app"
                                 /\ pc[c] = "dispatch" /\ pc'[c] = "record"}
    IN  /\ \A c \in pushed : (sends'[c] > sends[c]) <=> (PushToUser(c) # {})
        /\ known' = [s \in Sockets |->
                        known[s] \union {c \in pushed : s \in PushToUser(c)}]

(* An error of the UPDATE is caught: the acknowledgement is gone.          *)
AckThrow(c) ==
    /\ faults < MaxFaults
    /\ faults' = faults + 1
    /\ \/ c \in acks /\ acks' = acks \ {c} /\ UNCHANGED messageQueue
       \/ \E s \in Sockets : /\ spc[s] = "queued" /\ c \in messageQueue[s]
                             /\ messageQueue' = [messageQueue EXCEPT ![s] = @ \ {c}]
                             /\ UNCHANGED acks
    /\ lostAcks' = lostAcks \union {c}
    /\ UNCHANGED <<storeVars, callVars, sends, sock, spc, connections, clientVars, early>>

(* The process ends, and the sockets with it.                              *)
Die ==
    /\ faults < MaxFaults
    /\ faults' = faults + 1
    /\ KillCalls
    /\ sock' = [s \in Sockets |-> IF sock[s] = "open" THEN "closed" ELSE sock[s]]
    /\ spc' = [s \in Sockets |-> "none"]
    /\ connections' = {}
    /\ messageQueue' = [s \in Sockets |-> {}]
    /\ acks' = {}
    /\ lostAcks' = lostAcks \union acks \union UNION {messageQueue[s] : s \in Sockets}
    /\ known' = [s \in Sockets |-> {}]
    /\ current' = {}
    /\ raced' = [s \in Sockets |-> {}]
    /\ UNCHANGED <<storeVars, sends, early>>

(* Nobody awaits the validation: an error of its SELECT is an unhandled    *)
(* rejection, which ends the process.                                      *)
ValidateThrow(s) == spc[s] = "validating" /\ Die

ServerCrash == ((\E c \in Calls : Active(c)) \/ connections # {}) /\ Die

RealtimeNext ==
    \/ CallNext /\ SendInApp
          /\ UNCHANGED <<serverVars, current, raced, traceVars>>
    \/ \E s \in Sockets :
          \/ Connect(s)
          \/ ClientCloses(s)
          \/ ServerStep(s)
          \/ FetchUnread(s)
          \/ ValidateThrow(s)
          \/ \E c \in Calls : SendAck(s, c)
    \/ \E c \in Calls : ApplyAck(c) \/ AckThrow(c)
    \/ ServerCrash

(* Statements are answered.                                                *)
RealtimeFairness ==
    /\ \A s \in Sockets : WF_realtimeVars(ServerStep(s))
    /\ \A c \in Calls : WF_realtimeVars(ApplyAck(c))

RealtimeSpec == RealtimeInit /\ [][RealtimeNext]_realtimeVars /\ RealtimeFairness

-----------------------------------------------------------------------------
(* ws/handler.ts: the "connection store" of "active sockets".  A socket    *)
(* whose client may think it is connected is on the map until it closes,   *)
(* whichever of the user's other sockets come and go; a closed one is on   *)
(* it only if it closed while its tenant was looked up.                    *)
ConnectedSocketsAreKept ==
    \A s \in Sockets :
        /\ sock[s] = "open" /\ spc[s] \in {"queued", "ready"} => s \in connections
        /\ s \in connections => sock[s] = "open" \/ s \in early

(* channels/in-app.ts: "notification is stored by the pipeline regardless. *)
(* If user is offline, they fetch unread on reconnect."  A client that has *)
(* listed the unread ones after "connected" has every notification of its  *)
(* user that is sent and not acknowledged, by the push or by the listing,  *)
(* except one that was pushed before the socket was registered and became  *)
(* "sent" after the listing.                                               *)
EveryInAppReaches ==
    \A s \in current, c \in Calls :
        (MeantFor(c, s) /\ notifications[c].status = "sent" /\ ~notifications[c].delivered)
        => c \in known[s] \union raced[s]

(* A row that is acknowledged stays so: the pipeline's UPDATE, which may   *)
(* come after the acknowledgement of what it has pushed, does not undo it. *)
AckSurvives ==
    [][\A c \in Calls : notifications[c].delivered => notifications'[c].delivered]_realtimeVars

(* An acknowledgement that reached the server is written, also one that    *)
(* came before the socket was validated, unless the tenant is refused, or  *)
(* an error or a crash loses it.                                           *)
AcknowledgedIsDelivered ==
    \A c \in Calls :
        (c \in acks \/ \E s \in Sockets : c \in messageQueue[s]) ~>
            \/ notifications[c].delivered
            \/ c \in lostAcks
            \/ \E s \in Sockets : spc[s] = "rejected" /\ c \in messageQueue[s]
=============================================================================
