---------------------------- MODULE TenantAdmin ----------------------------
(***************************************************************************)
(* The tenants table and the handlers of api/admin.routes.ts.  Of a        *)
(* tenant's configuration two keys are kept: the telegram bot, which is    *)
(* somebody else's concern, and the rate limit, which has a PATCH of its   *)
(* own that reads the whole configuration and writes it back.              *)
(***************************************************************************)
EXTENDS Naturals

CONSTANTS
    Tenants,
    Bots, NoBot,       \* config.channels.telegram
    Limits, NoLimit,   \* config.rate_limits.events_per_minute
    Patches, NoPatch,  \* the PATCH requests in the server at once
    MaxEdits,          \* admin requests in a run, at the most
    MaxFaults          \* errors and crashes in a run

ASSUME TenantAdminAssumption ==
    /\ NoBot \notin Bots
    /\ NoLimit \notin Limits
    /\ MaxEdits \in Nat
    /\ MaxFaults \in Nat

VARIABLES
    tenants,
    patch,   \* what each PATCH has read and is going to write
    crossed, \* the PATCHes whose tenant was given another configuration since
    edits,   \* admin requests still to come
    faults

tenantVars == <<tenants, patch, crossed, edits>>

Config == [bot : Bots \union {NoBot}, limit : Limits \union {NoLimit}]

TenantType == [state : {"free", "enabled", "disabled", "deleted"}, config : Config]

PatchType == [tenant : Tenants, config : Config, limit : Limits]

TenantsTypeOK ==
    /\ tenants \in [Tenants -> TenantType]
    /\ patch \in [Patches -> PatchType \union {NoPatch}]
    /\ crossed \subseteq Patches
    /\ edits \in 0 .. MaxEdits
    /\ faults \in 0 .. MaxFaults

NoConfig == [bot |-> NoBot, limit |-> NoLimit]

Exists(t)  == tenants[t].state \in {"enabled", "disabled"}
Enabled(t) == tenants[t].state = "enabled"

(* The PATCHes that have read t's configuration and not written it back.   *)
Patching(t) == {q \in Patches : patch[q] # NoPatch /\ patch[q].tenant = t}

TenantsInit(starts, requests) ==
    /\ tenants \in [Tenants -> starts]
    /\ patch = [q \in Patches |-> NoPatch]
    /\ crossed = {}
    /\ edits = requests
    /\ faults = 0

-----------------------------------------------------------------------------
Edit == edits > 0 /\ edits' = edits - 1

(* A new tenant gets an id that no tenant has had.                         *)
CreateTenant(t, config) ==
    /\ Edit
    /\ tenants[t].state = "free"
    /\ tenants' = [tenants EXCEPT ![t] = [state |-> "enabled", config |-> config]]
    /\ UNCHANGED <<patch, crossed, faults>>

(* The config of a PUT replaces the tenant's as a whole.                   *)
PutConfig(t, config) ==
    /\ Edit
    /\ Exists(t)
    /\ tenants' = [tenants EXCEPT ![t].config = config]
    /\ crossed' = crossed \union Patching(t)
    /\ UNCHANGED <<patch, faults>>

PutEnabled(t, state) ==
    /\ Edit
    /\ Exists(t)
    /\ state \in {"enabled", "disabled"} \ {tenants[t].state}
    /\ tenants' = [tenants EXCEPT ![t].state = state]
    /\ UNCHANGED <<patch, crossed, faults>>

(* PATCH .../rate-limit: "Load existing tenant config to preserve          *)
(* unrelated keys", and in another statement the write.                    *)
LoadConfig(q, t, limit) ==
    /\ Edit
    /\ Exists(t)
    /\ patch[q] = NoPatch
    /\ patch' = [patch EXCEPT ![q] =
          [tenant |-> t, config |-> tenants[t].config, limit |-> limit]]
    /\ crossed' = crossed \ {q}
    /\ UNCHANGED <<tenants, faults>>

(* Mutant of NextConfig: the new configuration is the rate limit alone.     *)
NextConfigAlone(p) == [NoConfig EXCEPT !.limit = p.limit]

NextConfig(p) == [p.config EXCEPT !.limit = p.limit]

WriteLimit(q) ==
    /\ patch[q] # NoPatch
    /\ LET t == patch[q].tenant
       IN  /\ tenants' = [tenants EXCEPT ![t].config =
                            IF Exists(t) THEN NextConfig(patch[q]) ELSE @]
           /\ crossed' = (crossed \union Patching(t)) \ {q}
    /\ patch' = [patch EXCEPT ![q] = NoPatch]
    /\ UNCHANGED <<edits, faults>>

(* A row of heartbeats refers to its tenant and does not go with it: while *)
(* there is one the DELETE fails.                                          *)
DeleteTenant(t, referredTo) ==
    /\ Edit
    /\ Exists(t)
    /\ tenants' = [tenants EXCEPT ![t].state = IF t \in referredTo THEN @ ELSE "deleted"]
    /\ UNCHANGED <<patch, crossed, faults>>
=============================================================================
