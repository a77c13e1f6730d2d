--------------------------- MODULE PipelineGates ---------------------------
(***************************************************************************)
(* Pipeline with a history of the gates between a call and the channel.    *)
(* Each check of processNotification is one read at one moment, and the    *)
(* tables and the clock move between the checks; shut[c] is the set of     *)
(* gates that have been shut at every moment since call c had an address.  *)
(***************************************************************************)
EXTENDS Pipeline

VARIABLE shut

gateVars == <<vars, shut>>

Gates == {"suppressed", "opt_out", "digest", "quiet"}

Preferring(c) == userPreferences[User(c)]

OptedOutNow(c) ==
    /\ Preferring(c) # NoPreferences
    /\ CheckOptOut(Preferring(c).optOut, Request[c].channel, Request[c].type)

DigestNow(c) == Preferring(c) # NoPreferences /\ Preferring(c).digest

(* The quiet hours that hold for c: those it has read, so that a user who  *)
(* replaces them meanwhile is held by neither; the user's own if it reads  *)
(* none.                                                                   *)
QuietNow(c) ==
    LET prefs == IF ReadsPreferences(c) THEN seen[c] ELSE Preferring(c)
    IN  prefs # NoPreferences /\ IsWithinQuietHours(prefs.quiet, clock)

(* The gates shut for c's recipient at this moment, whether c asks them or *)
(* not.  in_app has no address to suppress (pipeline.ts:99-101).           *)
ShutNow(c) ==
    { g \in Gates :
        \/ /\ g = "suppressed" /\ Request[c].channel # "in_app"
           /\ IsSuppressed(Request[c].tenant, addr[c])
        \/ g = "opt_out" /\ OptedOutNow(c)
        \/ g = "digest" /\ DigestNow(c)
        \/ g = "quiet" /\ QuietNow(c) }

Addressed(c) == Active(c) /\ pc[c] # "resolve" /\ addr[c] # NoAddress

GatesInit == Init /\ shut = [c \in Calls |-> {}]

Watch ==
    shut' = [c \in Calls |->
               IF ~Addressed(c)' THEN {}
               ELSE IF Addressed(c) THEN shut[c] \intersect ShutNow(c)'
               ELSE ShutNow(c)']

GatesNext == Next /\ Watch

GatesSpec == GatesInit /\ [][GatesNext]_gateVars /\ Fairness

GatesTypeOK == TypeOK /\ shut \in [Calls -> SUBSET Gates]

-----------------------------------------------------------------------------
(* The gates that stand before c.  pipeline.ts:53-63 gives a static        *)
(* recipient, a direct address and an in_app user null preferences, so its *)
(* opt-out, quiet hours and digest checks let every such call through,     *)
(* whatever the user has set; README.md:168 ("Hub enforces per-channel")   *)
(* does not say so.  Only the suppression list is asked for them.          *)
StandBefore(c) == IF ReadsPreferences(c) THEN Gates ELSE {"suppressed"}

(* Where the recipient is looked up by user id, a message never reaches    *)
(* its channel through a gate that was shut the whole time: suppressed,    *)
(* opted out, in digest mode or in quiet hours from the moment the call    *)
(* had the address on.  Any other message never reaches a suppressed       *)
(* address so.  pipeline.ts makes the four checks at four moments.         *)
NoGateIsSkipped ==
    \A c \in Calls :
        pc[c] \in {"attach", "dispatch"} => shut[c] \intersect StandBefore(c) = {}
=============================================================================
