----------------------------- MODULE MCWorkers -----------------------------
(* One tenant; overlapping changes of its configuration; two sources; or   *)
(* one bot, for which another may be put, and two users; or two events and  *)
(* a message that is none, with a rule and room for another.               *)
EXTENDS Workers, TLC

Free == [state |-> "free", config |-> NoConfig]

Served(bot) == [state |-> "enabled", config |-> [NoConfig EXCEPT !.bot = bot]]

MCStarts == [admin |-> {Free, Served("b1")},
             heartbeats |-> {Served(NoBot)},
             bots |-> {Served("b1")},
             events |-> {Served(NoBot)}]

MCConfigs == [admin |-> Config,
              heartbeats |-> {},
              bots |-> [bot : {"b2"}, limit : {NoLimit}],
              events |-> {}]

MCEditsIn == [admin |-> 3, heartbeats |-> 1, bots |-> 1, events |-> 1]

MCOwnerOf == [s \in Sources |-> "t1"]

MCTenantOf == [u \in Users |-> "t1"]

MCLinks == {[token |-> 1, user |-> "u1", chat |-> "x1"]}
           \union [token : {2}, user : Users, chat : {"x2"}]

MCPuts == {<<"u1", "x2">>}

MCEventOf ==
    "e1" :> [tenant |-> "t1", type |-> "ty", valid |-> TRUE, fields |-> TRUE, user |-> "ann"]
    @@ "e2" :> [tenant |-> "t1", type |-> "ty", valid |-> TRUE, fields |-> FALSE,
                user |-> NoRecipient]
    @@ "junk" :> [tenant |-> "t1", type |-> "ty", valid |-> FALSE, fields |-> FALSE,
                  user |-> NoRecipient]

MCRuleOf == [r \in Rules |-> "t1"]

Rule == [state |-> "enabled", type |-> "ty", recipientType |-> "static", inApp |-> FALSE,
         renders |-> TRUE]

MCFirstRules == "r1" :> [Rule EXCEPT !.recipientType = "event_field"]
                @@ "r2" :> [Rule EXCEPT !.state = "free"]

MCRuleChoices ==
    {[Rule EXCEPT !.renders = FALSE], [Rule EXCEPT !.state = "disabled"],
     [Rule EXCEPT !.recipientType = "event_field", !.inApp = TRUE]}
=============================================================================
