------------------------- MODULE QuietHoursRelease -------------------------
(***************************************************************************)
(* releaseHeldNotifications of processor/quiet-hours-release.ts, a job     *)
(* that setInterval starts in the server that also runs the pipeline.      *)
(* A run works through the held rows it selected at its start; nothing     *)
(* marks a row as taken, and a timer does not wait for the run before it:  *)
(* Runs with two members may overlap.                                      *)
(***************************************************************************)
EXTENDS Pipeline

CONSTANTS
    Runs,        \* the runs of the job that may be going on at once
    ServerEmail, \* RESEND_API_KEY and RESEND_FROM are set: both are optional
    Nobody       \* the run is between rows

VARIABLES
    jpc,   \* where each run is
    todo,  \* the selected rows the run has not come to
    row,   \* the row it is working on
    prefs, \* the preferences it has read for that row
    out,   \* the status it will write
    fired  \* the timer has fired since the last tick of the clock

jobVars     == <<jpc, todo, row, prefs, out, fired>>
releaseVars == <<vars, jobVars>>

ASSUME RunsAssumption == Runs # {} /\ Nobody \notin Calls /\ ServerEmail \in BOOLEAN

ReleaseTypeOK ==
    /\ TypeOK
    /\ jpc \in [Runs -> {"idle", "next", "template", "dispatch", "record"}]
    /\ todo \in [Runs -> SUBSET Calls]
    /\ row \in [Runs -> Calls \union {Nobody}]
    /\ prefs \in [Runs -> PreferencesType \union {NoPreferences}]
    /\ out \in [Runs -> Statuses]
    /\ fired \in BOOLEAN

ReleaseInit ==
    /\ Init
    /\ jpc = [j \in Runs |-> "idle"]
    /\ todo = [j \in Runs |-> {}]
    /\ row = [j \in Runs |-> Nobody]
    /\ prefs = [j \in Runs |-> NoPreferences]
    /\ out = [j \in Runs |-> "none"]
    /\ fired = FALSE

-----------------------------------------------------------------------------
Held == {c \in Calls : notifications[c].status = "held"}

(* 1. The timer fires and the run selects the held rows.                   *)
SelectHeld(j) ==
    /\ jpc[j] = "idle"
    /\ fired' = TRUE
    /\ todo' = [todo EXCEPT ![j] = Held]
    /\ jpc' = [jpc EXCEPT ![j] = IF Held = {} THEN "idle" ELSE "next"]
    /\ UNCHANGED <<vars, row, prefs, out>>

(* Done with this row: on to the next, or the run is over.                 *)
NextRow(j, rest) ==
    /\ todo' = [todo EXCEPT ![j] = rest]
    /\ jpc' = [jpc EXCEPT ![j] = IF rest = {} THEN "idle" ELSE "next"]
    /\ row' = [row EXCEPT ![j] = Nobody]
    /\ prefs' = [prefs EXCEPT ![j] = NoPreferences]
    /\ out' = [out EXCEPT ![j] = "none"]

(* An error leaves the loop: the rows after this one wait for another run. *)
Abort(j) == NextRow(j, {})

(* 2. The user's preferences as they are now; still quiet, leave the row.  *)
(* The SELECT has no order.                                                *)
CheckStillQuiet(j) ==
    /\ jpc[j] = "next"
    /\ \E c \in todo[j] :
          LET p == userPreferences[User(c)]
          IN  \/ p # NoPreferences /\ ZoneThrows(p.quiet) /\ Abort(j)
              \/ /\ p # NoPreferences /\ IsWithinQuietHours(p.quiet, clock)
                 /\ NextRow(j, todo[j] \ {c})
              \/ /\ \/ p = NoPreferences
                    \/ ~ZoneThrows(p.quiet) /\ ~IsWithinQuietHours(p.quiet, clock)
                 /\ row' = [row EXCEPT ![j] = c]
                 /\ prefs' = [prefs EXCEPT ![j] = p]
                 /\ jpc' = [jpc EXCEPT ![j] = "template"]
                 /\ UNCHANGED <<todo, out>>
    /\ UNCHANGED <<vars, fired>>

(* Mutant of Rerender: no template means "continue", with nothing recorded. *)
RerenderSkips(j) ==
    LET state == templates[Request[row[j]].rule]
    IN  /\ jpc[j] = "template"
        /\ \/ state = "throws" /\ Abort(j)
           \/ state = "deleted" /\ NextRow(j, todo[j] \ {row[j]})
           \/ /\ state \in {"renders", "unfound"}
              /\ jpc' = [jpc EXCEPT ![j] = "dispatch"]
              /\ UNCHANGED <<todo, row, prefs, out>>
        /\ UNCHANGED <<vars, fired>>

(* 3 and 4. The rule's template, through the rule as it is now; the render *)
(* is not guarded.                                                         *)
Rerender(j) ==
    LET state == templates[Request[row[j]].rule]
    IN  /\ jpc[j] = "template"
        /\ \/ state = "throws" /\ Abort(j)
           \/ /\ state = "deleted"
              /\ out' = [out EXCEPT ![j] = "failed"]
              /\ jpc' = [jpc EXCEPT ![j] = "record"]
              /\ UNCHANGED <<todo, row, prefs>>
           \/ /\ state \in {"renders", "unfound"}
              /\ jpc' = [jpc EXCEPT ![j] = "dispatch"]
              /\ UNCHANGED <<todo, row, prefs, out>>
        /\ UNCHANGED <<vars, fired>>

(* 5. email and phone come from preferences, a chat id does not.           *)
HeldAddress(c, p) ==
    IF /\ p # NoPreferences
       /\ Request[c].channel \in {"email", "sms"}
       /\ p.address[Request[c].channel] # NoAddress
    THEN p.address[Request[c].channel]
    ELSE Request[c].recipient

(* Mutant of HeldAnswers: dispatch's result is not looked at.               *)
HeldAnswersIgnored(channel) == [took : BOOLEAN, status : {"sent"}]

(* 6. dispatch with the server's own configuration: without a tenantConfig *)
(* no tenant is in the sandbox, telegram has no bot, and email only the    *)
(* server's account, whatever account the tenant has.  Without one the     *)
(* message is logged and reported as a success.                            *)
HeldAnswers(channel) ==
    CASE channel = "telegram" -> {[took |-> FALSE, status |-> "failed"]}
      [] channel = "email" /\ ~ServerEmail -> {[took |-> FALSE, status |-> "sent"]}
      [] OTHER -> Answers(channel, FALSE)

DispatchHeld(j) ==
    /\ jpc[j] = "dispatch"
    /\ \E a \in HeldAnswers(Request[row[j]].channel) :
          /\ CountSend(row[j], a.took)
          /\ out' = [out EXCEPT ![j] = a.status]
    /\ jpc' = [jpc EXCEPT ![j] = "record"]
    /\ UNCHANGED <<storeVars, callVars, faults, todo, row, prefs, fired>>

(* Mutant of RecordHeld: the row is stamped delivered but stays held.       *)
RecordHeldStays(j) ==
    /\ jpc[j] = "record"
    /\ UpdateNotification(row[j], "held", out[j] = "sent")
    /\ NextRow(j, todo[j] \ {row[j]})
    /\ UNCHANGED <<clock, digestQueue, userPreferences, tenantSuppressions,
                   templates, edits, pipelineVars, fired>>

(* The UPDATE is by id alone: it does not ask whether the row is still held. *)
RecordHeld(j) ==
    /\ jpc[j] = "record"
    /\ UpdateNotification(row[j], out[j], out[j] = "sent")
    /\ NextRow(j, todo[j] \ {row[j]})
    /\ UNCHANGED <<clock, digestQueue, userPreferences, tenantSuppressions,
                   templates, edits, pipelineVars, fired>>

JobStep(j) ==
    \/ CheckStillQuiet(j)
    \/ Rerender(j)
    \/ DispatchHeld(j)
    \/ RecordHeld(j)

-----------------------------------------------------------------------------
(* A database error ends the run; the server's death ends runs and calls.  *)
JobThrow(j) ==
    /\ jpc[j] # "idle"
    /\ faults < MaxFaults
    /\ faults' = faults + 1
    /\ Abort(j)
    /\ UNCHANGED <<storeVars, callVars, sends, fired>>

ServerCrash ==
    /\ (\E c \in Calls : Active(c)) \/ (\E j \in Runs : jpc[j] # "idle")
    /\ faults < MaxFaults
    /\ faults' = faults + 1
    /\ KillCalls
    /\ jpc' = [j \in Runs |-> "idle"]
    /\ todo' = [j \in Runs |-> {}]
    /\ row' = [j \in Runs |-> Nobody]
    /\ prefs' = [j \in Runs |-> NoPreferences]
    /\ out' = [j \in Runs |-> "none"]
    /\ UNCHANGED <<storeVars, sends, fired>>

(* A minute of the model is the job's interval: the timer fires in each.   *)
TimerTick ==
    /\ fired
    /\ fired' = FALSE
    /\ Tick
    /\ UNCHANGED <<pipelineVars, jpc, todo, row, prefs, out>>

ReleaseNext ==
    \/ CallNext /\ UNCHANGED jobVars
    \/ Edit /\ UNCHANGED <<pipelineVars, jobVars>>
    \/ \E j \in Runs : SelectHeld(j) \/ JobStep(j) \/ JobThrow(j)
    \/ ServerCrash
    \/ TimerTick

ReleaseSpec == ReleaseInit /\ [][ReleaseNext]_releaseVars

(* Answers arrive, timers fire, time passes.                               *)
ReleaseFairness ==
    /\ \A c \in Calls : WF_releaseVars(Step(c) /\ UNCHANGED jobVars)
    /\ \A j \in Runs : WF_releaseVars(SelectHeld(j)) /\ WF_releaseVars(JobStep(j))
    /\ WF_releaseVars(TimerTick)

FairReleaseSpec == ReleaseSpec /\ ReleaseFairness

-----------------------------------------------------------------------------
(* A message goes to its channel a second time only after a failure        *)
(* between the channel's answer and the UPDATE: with one run at a time.    *)
SentOnceUnlessFailed ==
    \A c \in Calls : sends[c] > 1 => faults > 0

(* A row that says "sent" stands for a message its channel took, whichever *)
(* of the pipeline and the job wrote it: on the channels where there is    *)
(* someone to take it.  sms.ts is a stub, in_app is sent whether or not    *)
(* the user is connected, and a server with no email account of its own    *)
(* marks a held email sent that nobody took (dispatcher.ts:91-95).         *)
HasProvider(c) ==
    \/ Request[c].channel = "telegram"
    \/ Request[c].channel = "email" /\ ServerEmail

SentMeansTaken ==
    \A c \in Calls :
        HasProvider(c) /\ notifications[c].status = "sent" => sends[c] > 0

(* README: "Notifications held during 22:00-07:00 in user's timezone,      *)
(* released after".  A held row whose own rule and own user give no        *)
(* trouble does not stay held.                                             *)
Healthy(c) ==
    /\ templates[Request[c].rule] # "throws"
    /\ \/ userPreferences[User(c)] = NoPreferences
       \/ ~ZoneThrows(userPreferences[User(c)].quiet)

HealthyHeldIsReleased ==
    \A c \in Calls :
        (notifications[c].status = "held" /\ Healthy(c))
            ~> (notifications[c].status # "held" \/ ~Healthy(c))

(* db/schema.ts, of tenant_suppressions: "a pre-dispatch guard for         *)
(* email/sms/telegram".  What goes out does not go to a suppressed         *)
(* address.                                                                *)
ReleaseHonoursSuppressions ==
    [][ \A j \in Runs, c \in Calls :
          (/\ jpc[j] = "dispatch" /\ row[j] = c
           /\ sends'[c] > sends[c]
           /\ Request[c].channel # "in_app"
           /\ HeldAddress(c, prefs[j]) \in Addresses)
          => ~IsSuppressed(Request[c].tenant, HeldAddress(c, prefs[j])) ]_releaseVars
=============================================================================
