------------------------------ MODULE MCDigest ------------------------------
(* Two emails for the user u1 of tenant t1 and one for the user u1 of t2.  *)
(* Digests come in the next minute, with room for one item.                *)
EXTENDS DigestEngine, TLC

CONSTANTS c1, c2, c3

MCCalls == {c1, c2, c3}

Base == [tenant |-> "t1", event |-> "e1", type |-> "ty", recipient |-> "u1",
         channel |-> "email", rule |-> "r1", direct |-> FALSE,
         attachments |-> FALSE, lane |-> "p0", delivery |-> 0, turn |-> 0]

MCRequest ==
    c1 :> Base
    @@ c2 :> [Base EXCEPT !.event = "e2", !.delivery = 1, !.turn = 1]
    @@ c3 :> [Base EXCEPT !.tenant = "t2", !.delivery = 2, !.turn = 2]

(* The email of t2 is of a rule, and a template, of its own.               *)
OwnRuleRequest == [MCRequest EXCEPT ![c3].rule = "r2"]

Batched == [optOut |-> {}, quiet |-> NoQuiet, digest |-> TRUE,
            address |-> [ch \in Channels |-> "a1"]]

MCPrefChoices == { Batched, [Batched EXCEPT !.address = [ch \in Channels |-> NoAddress]] }

MCLimitChoices == {}

MCDigestTemplate == [g \in Tenants \X Channels |-> "renders"]
=============================================================================
