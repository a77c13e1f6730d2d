---------------------- MODULE QuietHoursRelease_proofs ----------------------
(***************************************************************************)
(* What the release job and the pipeline keep of the rows they share, for  *)
(* any number of calls and held rows, whatever crashes and throws.         *)
(***************************************************************************)
EXTENDS QuietHoursRelease, Pipeline_proofs

(* server.ts starts a run every minute and does not wait for the one       *)
(* before; what is proved under this assumption holds as long as no run    *)
(* takes longer than that.                                                 *)
OneRun == \A i, j \in Runs : i = j

-----------------------------------------------------------------------------
(* The pipeline and the job never work on one row: a held row's call is    *)
(* over, and so is the call of every row a run has selected, held by now   *)
(* or not.                                                                 *)
HeldIsOver(c) == notifications[c].status = "held" => pc[c] \in Ends

RunFits(j) ==
    /\ \A c \in todo[j] : pc[c] \in Ends
    /\ row[j] \in Calls => pc[row[j]] \in Ends
    /\ jpc[j] \in {"template", "dispatch", "record"} => row[j] \in Calls
    /\ jpc[j] = "record" =>
          /\ out[j] \in {"sent", "failed"}
          /\ out[j] = "sent" /\ HasProvider(row[j]) => sends[row[j]] > 0

SentTrue(c) == HasProvider(c) /\ notifications[c].status = "sent" => sends[c] > 0

ReleaseInv ==
    /\ ReleaseTypeOK
    /\ \A c \in Calls : CallFits(c) /\ HeldIsOver(c) /\ SentTrue(c)
    /\ \A j \in Runs : RunFits(j)

(* With one run at a time: what it has selected is held until it records   *)
(* it, and what is held has not been sent, unless the run is about to      *)
(* record that, or something failed.                                       *)
Recording(c) == \E j \in Runs : jpc[j] = "record" /\ row[j] = c

HeldUnsent(c) ==
    notifications[c].status = "held" => sends[c] = 0 \/ faults > 0 \/ Recording(c)

SelectedHeld(j) ==
    /\ \A c \in todo[j] : notifications[c].status = "held"
    /\ jpc[j] \in {"template", "dispatch", "record"} => row[j] \in todo[j]

OnceInv ==
    /\ ReleaseInv
    /\ SentOnceUnlessFailed
    /\ \A c \in Calls : HeldUnsent(c)
    /\ \A j \in Runs : SelectedHeld(j)

-----------------------------------------------------------------------------
(* The job's variables keep their types.                                   *)
LEMMA TypeNextRow ==
    ASSUME ReleaseTypeOK, NEW j \in Runs, NEW rest \in SUBSET Calls, NextRow(j, rest)
    PROVE  /\ jpc' \in [Runs -> {"idle", "next", "template", "dispatch", "record"}]
           /\ todo' \in [Runs -> SUBSET Calls]
           /\ row' \in [Runs -> Calls \union {Nobody}]
           /\ prefs' \in [Runs -> PreferencesType \union {NoPreferences}]
           /\ out' \in [Runs -> Statuses]
BY DEF ReleaseTypeOK, NextRow, Statuses

(* What the channel answers the job.                                       *)
LEMMA HeldAnswer ==
    ASSUME NEW c \in Calls, NEW a \in HeldAnswers(Request[c].channel)
    PROVE  /\ a.took \in BOOLEAN
           /\ a.status \in {"sent", "failed"}
           /\ a.status = "sent" /\ HasProvider(c) => a.took
<1>1. CASE Request[c].channel = "telegram"
  <2>1. a = [took |-> FALSE, status |-> "failed"]
    BY <1>1 DEF HeldAnswers
  <2> QED
    BY <2>1
<1>2. CASE Request[c].channel = "email" /\ ~ServerEmail
  <2>1. a = [took |-> FALSE, status |-> "sent"]
    BY <1>2 DEF HeldAnswers
  <2> QED
    BY <1>2, <2>1 DEF HasProvider
<1>3. CASE /\ Request[c].channel # "telegram"
           /\ ~(Request[c].channel = "email" /\ ~ServerEmail)
  <2>1. a \in Answers(Request[c].channel, FALSE)
    BY <1>3 DEF HeldAnswers
  <2>2. /\ a.took \in BOOLEAN
        /\ a.status \in {"sent", "failed"}
        /\ a.status = "sent" => a.took \/ Request[c].channel = "in_app"
    BY <2>1 DEF Answers
  <2> QED
    BY <2>2 DEF HasProvider
<1> QED
  BY <1>1, <1>2, <1>3

LEMMA TypeJob ==
    ASSUME ReleaseTypeOK, NEW j \in Runs, RunFits(j),
           SelectHeld(j) \/ JobStep(j) \/ JobThrow(j)
    PROVE  ReleaseTypeOK'
<1> USE DEF ReleaseTypeOK
<1>1. CASE SelectHeld(j)
  <2>1. Held \in SUBSET Calls
    BY DEF Held
  <2>2. TypeOK'
    BY <1>1, TypeNext DEF SelectHeld
  <2> QED
    BY <1>1, <2>1, <2>2 DEF SelectHeld
<1>2. CASE CheckStillQuiet(j)
  <2>1. TypeOK' /\ fired' = fired
    BY <1>2, TypeNext DEF CheckStillQuiet
  <2>2. PICK c \in todo[j] :
           \/ Abort(j) \/ NextRow(j, todo[j] \ {c})
           \/ /\ row' = [row EXCEPT ![j] = c]
              /\ prefs' = [prefs EXCEPT ![j] = userPreferences[User(c)]]
              /\ jpc' = [jpc EXCEPT ![j] = "template"]
              /\ UNCHANGED <<todo, out>>
    BY <1>2 DEF CheckStillQuiet
  <2>3. c \in Calls /\ todo[j] \ {c} \in SUBSET Calls
    OBVIOUS
  <2>4. userPreferences[User(c)] \in PreferencesType \union {NoPreferences}
    BY <2>3, RequestAssumption DEF TypeOK, StoreTypeOK, User, Users, RequestType
  <2>5. CASE Abort(j) \/ NextRow(j, todo[j] \ {c})
    BY <2>1, <2>3, <2>5, TypeNextRow DEF Abort
  <2>6. CASE ~(Abort(j) \/ NextRow(j, todo[j] \ {c}))
    BY <2>1, <2>2, <2>3, <2>4, <2>6
  <2> QED
    BY <2>5, <2>6
<1>3. CASE Rerender(j)
  <2>1. TypeOK' /\ fired' = fired
    BY <1>3, TypeNext DEF Rerender
  <2>2. CASE Abort(j)
    BY <2>1, <2>2, TypeNextRow DEF Abort
  <2>3. CASE ~Abort(j)
    BY <1>3, <2>1, <2>3 DEF Rerender, Statuses
  <2> QED
    BY <2>2, <2>3
<1>4. CASE DispatchHeld(j)
  <2>1. row[j] \in Calls
    BY <1>4 DEF DispatchHeld, RunFits
  <2>2. PICK a \in HeldAnswers(Request[row[j]].channel) :
           CountSend(row[j], a.took) /\ out' = [out EXCEPT ![j] = a.status]
    BY <1>4 DEF DispatchHeld
  <2>3. a.took \in BOOLEAN /\ a.status \in Statuses
    BY <2>1, HeldAnswer DEF Statuses
  <2>4. sends' \in [Calls -> 0 .. 2]
    BY <2>1, <2>2, <2>3, CountSendKeeps DEF TypeOK
  <2>5. TypeOK'
    BY <1>4, <2>4 DEF DispatchHeld, TypeOK, StoreTypeOK, CallTypeOK, storeVars, callVars
  <2> QED
    BY <1>4, <2>2, <2>3, <2>5 DEF DispatchHeld
<1>5. CASE RecordHeld(j)
  <2>1. row[j] \in Calls /\ out[j] \in Statuses /\ todo[j] \ {row[j]} \in SUBSET Calls
    BY <1>5 DEF RecordHeld, RunFits, Statuses
  <2>2. notifications' \in [Calls -> NotificationType]
    BY <1>5, <2>1, TypeUpdateRow DEF RecordHeld, TypeOK
  <2>3. TypeOK'
    BY <1>5, <2>2 DEF RecordHeld, TypeOK, StoreTypeOK, CallTypeOK, pipelineVars
  <2> QED
    BY <1>5, <2>1, <2>3, TypeNextRow DEF RecordHeld
<1>6. CASE JobThrow(j)
  <2>1. TypeOK'
    BY <1>6, PipelineAssumption DEF JobThrow, TypeOK, StoreTypeOK, CallTypeOK, storeVars, callVars
  <2> QED
    BY <1>6, <2>1, TypeNextRow DEF JobThrow, Abort
<1> QED
  BY <1>1, <1>2, <1>3, <1>4, <1>5, <1>6 DEF JobStep

LEMMA TypeServerCrash == ReleaseTypeOK /\ ServerCrash => ReleaseTypeOK'
<1> SUFFICES ASSUME ReleaseTypeOK, ServerCrash PROVE ReleaseTypeOK'
  OBVIOUS
<1>1. CallTypeOK'
  BY EmptyValues DEF ServerCrash, KillCalls, ReleaseTypeOK, TypeOK, CallTypeOK, Ends
<1>2. TypeOK'
  BY <1>1, PipelineAssumption DEF ServerCrash, ReleaseTypeOK, TypeOK, StoreTypeOK, storeVars
<1> QED
  BY <1>2 DEF ServerCrash, ReleaseTypeOK, Statuses

-----------------------------------------------------------------------------
(* The pipeline's steps.                                                   *)
LEMMA ReleaseCall ==
    ASSUME ReleaseInv, CallNext, UNCHANGED jobVars
    PROVE  ReleaseInv'
<1> USE DEF ReleaseInv
<1>1. PICK c \in Calls : Start(c) \/ Step(c) \/ Throw(c)
  BY DEF CallNext
<1>2. TypeOK
  BY DEF ReleaseTypeOK
<1>3. ReleaseTypeOK'
  BY <1>1, <1>2, TypeStep DEF ReleaseTypeOK, jobVars
<1>4. \A d \in Calls : CallFits(d)'
  BY <1>1, <1>2, FitsStep, FitsFrame
<1>5. ASSUME NEW d \in Calls PROVE HeldIsOver(d)' /\ SentTrue(d)'
  <2>1. sends'[d] >= sends[d] /\ sends[d] \in Int /\ sends'[d] \in Int
    BY <1>1, <1>2, <1>3, SendsGrow DEF TypeOK, ReleaseTypeOK
  <2>2. CASE notifications'[d].status = notifications[d].status
    <3>1. HeldIsOver(d)'
      BY <1>1, <1>2, <2>2, EndsStay DEF HeldIsOver
    <3>2. SentTrue(d)'
      <4>1. sends[d] > 0 => sends'[d] > 0
        BY <2>1
      <4> QED
        BY <2>2, <4>1 DEF SentTrue
    <3> QED
      BY <3>1, <3>2
  <2>3. CASE notifications'[d].status # notifications[d].status
    <3>1. d = c
      BY <1>1, <1>2, <2>3, StepFrame
    <3>2. CASE pc[c] = "record"
      <4>1. notifications'[c].status = outcome[c].status /\ pc'[c] \in Ends
        BY <1>1, <1>2, <2>3, <3>1, <3>2, StatusStep
      <4>2. notifications'[c].status = "sent" /\ c \notin InApp => sends[c] = 1
        BY <3>2, <4>1 DEF CallFits, OutcomeTrue
      <4> QED
        BY <2>1, <3>1, <4>1, <4>2 DEF HeldIsOver, SentTrue, HasProvider, InApp
    <3>3. CASE pc[c] # "record"
      <4>1. /\ notifications'[c].status \in Lifecycle!First
            /\ notifications'[c].status = "held" => pc'[c] \in Ends
        BY <1>1, <1>2, <2>3, <3>1, <3>3, StatusStep
      <4> QED
        BY <3>1, <4>1 DEF HeldIsOver, SentTrue, Lifecycle!First
    <3> QED
      BY <3>2, <3>3
  <2> QED
    BY <2>2, <2>3
<1>6. ASSUME NEW j \in Runs PROVE RunFits(j)'
  <2>1. /\ jpc'[j] = jpc[j] /\ todo'[j] = todo[j]
        /\ row'[j] = row[j] /\ out'[j] = out[j]
    BY DEF jobVars
  <2>2. todo[j] \subseteq Calls
    BY DEF ReleaseTypeOK
  <2>3. \A d \in Calls : sends[d] > 0 => sends'[d] > 0
    <3> TAKE d \in Calls
    <3>1. sends'[d] >= sends[d] /\ sends[d] \in Int /\ sends'[d] \in Int
      BY <1>1, <1>2, <1>3, SendsGrow DEF TypeOK, ReleaseTypeOK
    <3> QED
      BY <3>1
  <2>4. \A d \in Calls : pc[d] \in Ends => pc'[d] \in Ends
    BY <1>1, <1>2, EndsStay
  <2> QED
    BY <2>1, <2>2, <2>3, <2>4 DEF RunFits
<1> QED
  BY <1>3, <1>4, <1>5, <1>6

(* The clock's and the API's.                                              *)
LEMMA ReleaseStore ==
    ASSUME ReleaseInv, StoreNext, UNCHANGED <<pipelineVars, jpc, todo, row, prefs, out>>,
           fired' \in BOOLEAN
    PROVE  ReleaseInv'
<1> USE DEF ReleaseInv
<1>1. TypeOK
  BY DEF ReleaseTypeOK
<1>2. ReleaseTypeOK'
  BY <1>1, TypeNext DEF Next, ReleaseTypeOK
<1>3. \A c \in Calls : CallFits(c)'
  BY <1>1, FitsStore DEF pipelineVars
<1>4. \A c \in Calls : notifications'[c].status = notifications[c].status
  BY <1>1, OlderRow DEF StoreNext, Tick, Edit, TypeOK, StoreTypeOK
<1> QED
  BY <1>2, <1>3, <1>4 DEF HeldIsOver, SentTrue, RunFits, InApp, pipelineVars

(* The job writes no row whose call is under way.                          *)
LEMMA ReleaseJob ==
    ASSUME ReleaseInv, NEW j \in Runs, SelectHeld(j) \/ JobStep(j) \/ JobThrow(j)
    PROVE  /\ \A c \in Calls : CallFits(c)' /\ HeldIsOver(c)' /\ SentTrue(c)'
           /\ pc' = pc
           /\ \A c \in Calls : sends'[c] >= sends[c]
           /\ \A i \in Runs \ {j} : /\ jpc'[i] = jpc[i] /\ todo'[i] = todo[i]
                                    /\ row'[i] = row[i] /\ out'[i] = out[i]
<1> USE DEF ReleaseInv
<1>1. pc' = pc /\ outcome' = outcome
  BY DEF SelectHeld, JobStep, CheckStillQuiet, Rerender, DispatchHeld, RecordHeld, JobThrow,
         vars, pipelineVars, callVars
<1>2. \A i \in Runs \ {j} : /\ jpc'[i] = jpc[i] /\ todo'[i] = todo[i]
                           /\ row'[i] = row[i] /\ out'[i] = out[i]
  <2>1. \A s : NextRow(j, s) => \A i \in Runs \ {j} :
                   /\ jpc'[i] = jpc[i] /\ todo'[i] = todo[i]
                   /\ row'[i] = row[i] /\ out'[i] = out[i]
    BY DEF NextRow, ReleaseTypeOK
  <2>2. CASE SelectHeld(j) \/ DispatchHeld(j)
    BY <2>2 DEF SelectHeld, DispatchHeld, ReleaseTypeOK
  <2>3. CASE CheckStillQuiet(j)
    BY <2>1, <2>3 DEF CheckStillQuiet, Abort, ReleaseTypeOK
  <2>4. CASE Rerender(j)
    BY <2>1, <2>4 DEF Rerender, Abort, ReleaseTypeOK
  <2>5. CASE RecordHeld(j) \/ JobThrow(j)
    BY <2>1, <2>5 DEF RecordHeld, JobThrow, Abort
  <2> QED
    BY <2>2, <2>3, <2>4, <2>5 DEF JobStep
<1>3. \A c \in Calls : sends[c] \in Int
  BY DEF ReleaseTypeOK, TypeOK
<1>4. CASE DispatchHeld(j)
  <2>1. row[j] \in Calls /\ pc[row[j]] \in Ends
    BY <1>4 DEF DispatchHeld, RunFits
  <2>2. PICK a \in HeldAnswers(Request[row[j]].channel) : CountSend(row[j], a.took)
    BY <1>4 DEF DispatchHeld
  <2>3. /\ \A c \in Calls : sends'[c] >= sends[c] /\ (c # row[j] => sends'[c] = sends[c])
        /\ sends' \in [Calls -> 0 .. 2]
    BY <2>1, <2>2, HeldAnswer, CountSendKeeps DEF ReleaseTypeOK, TypeOK
  <2>4. notifications' = notifications
    BY <1>4 DEF DispatchHeld, storeVars
  <2>5. ASSUME NEW c \in Calls PROVE CallFits(c)'
    <3>1. CASE c = row[j]
      BY <1>1, <2>1, <3>1 DEF CallFits, Unwritten, PlanIsFirst, RowPending, NotSentYet,
                              OutcomeTrue, BeforeInsert, Ends
    <3>2. CASE c # row[j]
      BY <1>1, <2>3, <2>4, <3>2 DEF CallFits, Unwritten, PlanIsFirst, RowPending, NotSentYet,
                                    OutcomeTrue, InApp
    <3> QED
      BY <3>1, <3>2
  <2>6. ASSUME NEW c \in Calls PROVE HeldIsOver(c)' /\ SentTrue(c)'
    <3>1. sends'[c] >= sends[c] /\ sends'[c] \in Int
      BY <2>3
    <3> QED
      BY <1>1, <1>3, <2>4, <3>1 DEF HeldIsOver, SentTrue, HasProvider
  <2> QED
    BY <1>1, <1>2, <2>3, <2>5, <2>6
<1>5. CASE RecordHeld(j)
  <2>1. row[j] \in Calls /\ pc[row[j]] \in Ends
    BY <1>5 DEF RecordHeld, RunFits
  <2>2. sends' = sends
    BY <1>5 DEF RecordHeld, pipelineVars
  <2>3. /\ out[j] \in {"sent", "failed"}
        /\ out[j] = "sent" /\ HasProvider(row[j]) => sends[row[j]] > 0
    BY <1>5 DEF RecordHeld, RunFits
  <2>4. \A c \in Calls \ {row[j]} : notifications'[c] = notifications[c]
    BY <1>5 DEF RecordHeld, UpdateNotification, ReleaseTypeOK, TypeOK, StoreTypeOK
  <2>5. notifications'[row[j]].status \in {"none", out[j]}
    BY <1>5, <2>1 DEF RecordHeld, UpdateNotification, Updated, ReleaseTypeOK, TypeOK,
                      StoreTypeOK, NotificationType
  <2>6. ASSUME NEW c \in Calls PROVE CallFits(c)'
    <3>1. CASE c = row[j]
      BY <1>1, <2>1, <3>1 DEF CallFits, Unwritten, PlanIsFirst, RowPending, NotSentYet,
                              OutcomeTrue, BeforeInsert, Ends
    <3>2. CASE c # row[j]
      BY <1>1, <2>2, <2>4, <3>2 DEF CallFits, Unwritten, PlanIsFirst, RowPending, NotSentYet,
                                    OutcomeTrue, InApp
    <3> QED
      BY <3>1, <3>2
  <2>7. ASSUME NEW c \in Calls PROVE HeldIsOver(c)' /\ SentTrue(c)'
    BY <1>1, <2>2, <2>3, <2>4, <2>5 DEF HeldIsOver, SentTrue, HasProvider
  <2> QED
    BY <1>1, <1>2, <1>3, <2>2, <2>6, <2>7
<1>6. CASE ~DispatchHeld(j) /\ ~RecordHeld(j)
  <2>1. notifications' = notifications /\ sends' = sends
    BY <1>6 DEF SelectHeld, JobStep, CheckStillQuiet, Rerender, JobThrow,
                vars, storeVars, pipelineVars
  <2> QED
    BY <1>1, <1>2, <1>3, <2>1 DEF CallFits, Unwritten, PlanIsFirst, RowPending, NotSentYet,
                                  OutcomeTrue, HeldIsOver, SentTrue, InApp
<1> QED
  BY <1>4, <1>5, <1>6

(* What a step of a run does to the run.                                   *)
LEMMA RunStep ==
    ASSUME ReleaseInv, NEW j \in Runs, SelectHeld(j) \/ JobStep(j) \/ JobThrow(j)
    PROVE  RunFits(j)'
<1> USE DEF ReleaseInv, ReleaseTypeOK
<1>0. pc' = pc /\ todo[j] \in SUBSET Calls
  BY ReleaseJob
<1>1. ASSUME NEW s \in SUBSET todo[j], NextRow(j, s) PROVE RunFits(j)'
  <2>1. todo'[j] = s /\ row'[j] = Nobody /\ jpc'[j] \in {"idle", "next"}
    BY <1>1 DEF NextRow
  <2> QED
    BY <1>0, <2>1, RunsAssumption DEF RunFits
<1>2. CASE Abort(j)
  BY <1>1, <1>2 DEF Abort
<1>3. CASE SelectHeld(j)
  <2>1. todo'[j] = Held /\ row'[j] = row[j] /\ jpc'[j] \in {"idle", "next"}
    BY <1>3 DEF SelectHeld
  <2>2. \A c \in Held : pc[c] \in Ends
    BY DEF Held, HeldIsOver
  <2> QED
    BY <1>0, <2>1, <2>2 DEF RunFits
<1>4. CASE CheckStillQuiet(j) /\ ~Abort(j)
  <2>1. PICK c \in todo[j] :
           \/ NextRow(j, todo[j] \ {c})
           \/ row' = [row EXCEPT ![j] = c] /\ jpc' = [jpc EXCEPT ![j] = "template"]
              /\ UNCHANGED <<todo, out>>
    BY <1>4 DEF CheckStillQuiet
  <2>2. CASE NextRow(j, todo[j] \ {c})
    BY <1>1, <2>2
  <2>3. CASE ~NextRow(j, todo[j] \ {c})
    <3>1. row'[j] = c /\ jpc'[j] = "template" /\ todo'[j] = todo[j] /\ c \in Calls
      BY <1>0, <2>1, <2>3
    <3> QED
      BY <1>0, <3>1 DEF RunFits
  <2> QED
    BY <2>2, <2>3
<1>5. CASE Rerender(j) /\ ~Abort(j)
  <2>1. /\ row'[j] = row[j] /\ todo'[j] = todo[j] /\ row[j] \in Calls
        /\ \/ jpc'[j] = "record" /\ out'[j] = "failed"
           \/ jpc'[j] = "dispatch"
    BY <1>5 DEF Rerender, RunFits
  <2> QED
    BY <1>0, <2>1 DEF RunFits
<1>6. CASE DispatchHeld(j)
  <2>1. row[j] \in Calls
    BY <1>6 DEF DispatchHeld, RunFits
  <2>2. PICK a \in HeldAnswers(Request[row[j]].channel) :
           CountSend(row[j], a.took) /\ out' = [out EXCEPT ![j] = a.status]
    BY <1>6 DEF DispatchHeld
  <2>3. a.took => sends'[row[j]] > 0
    BY <2>1, <2>2, HeldAnswer, CountSendKeeps DEF TypeOK
  <2>4. /\ row'[j] = row[j] /\ todo'[j] = todo[j] /\ jpc'[j] = "record"
        /\ out'[j] = a.status
    BY <1>6, <2>2 DEF DispatchHeld
  <2>5. a.status \in {"sent", "failed"} /\ (a.status = "sent" /\ HasProvider(row[j]) => a.took)
    BY <2>1, HeldAnswer
  <2> QED
    BY <1>0, <2>1, <2>3, <2>4, <2>5 DEF RunFits
<1>7. CASE RecordHeld(j)
  BY <1>1, <1>7 DEF RecordHeld
<1> QED
  BY <1>2, <1>3, <1>4, <1>5, <1>6, <1>7 DEF JobStep, JobThrow

LEMMA ReleaseCrash == ReleaseInv /\ ServerCrash => ReleaseInv'
<1> SUFFICES ASSUME ReleaseInv, ServerCrash PROVE ReleaseInv'
  OBVIOUS
<1> USE DEF ReleaseInv
<1>1. ReleaseTypeOK' /\ TypeOK
  BY TypeServerCrash DEF ReleaseTypeOK
<1>2. notifications' = notifications /\ sends' = sends /\ KillCalls
  BY DEF ServerCrash, storeVars
<1>3. \A c \in Calls : CallFits(c)'
  BY <1>1, <1>2, FitsCrash
<1>4. \A c \in Calls : pc[c] \in Ends => pc'[c] \in Ends
  BY <1>2 DEF KillCalls, Ends
<1>5. \A c \in Calls : HeldIsOver(c)' /\ SentTrue(c)'
  BY <1>2, <1>4 DEF HeldIsOver, SentTrue, HasProvider
<1>6. \A j \in Runs : RunFits(j)'
  BY RunsAssumption DEF ServerCrash, RunFits
<1> QED
  BY <1>1, <1>3, <1>5, <1>6

LEMMA ReleaseStep == ReleaseInv /\ [ReleaseNext]_releaseVars => ReleaseInv'
<1> SUFFICES ASSUME ReleaseInv, [ReleaseNext]_releaseVars PROVE ReleaseInv'
  OBVIOUS
<1> USE DEF ReleaseInv
<1>1. CASE CallNext /\ UNCHANGED jobVars
  BY <1>1, ReleaseCall
<1>2. CASE Edit /\ UNCHANGED <<pipelineVars, jobVars>>
  BY <1>2, ReleaseStore DEF StoreNext, jobVars, ReleaseTypeOK
<1>3. CASE TimerTick
  BY <1>3, ReleaseStore DEF StoreNext, TimerTick
<1>4. CASE ServerCrash
  BY <1>4, ReleaseCrash
<1>5. ASSUME NEW j \in Runs, SelectHeld(j) \/ JobStep(j) \/ JobThrow(j) PROVE ReleaseInv'
  <2>1. ReleaseTypeOK'
    BY <1>5, TypeJob
  <2>2. ASSUME NEW i \in Runs PROVE RunFits(i)'
    <3>1. CASE i = j
      BY <1>5, <3>1, RunStep
    <3>2. CASE i # j
      <4>1. /\ jpc'[i] = jpc[i] /\ todo'[i] = todo[i]
            /\ row'[i] = row[i] /\ out'[i] = out[i] /\ pc' = pc
        BY <1>5, <3>2, ReleaseJob
      <4>2. \A c \in Calls : sends[c] > 0 => sends'[c] > 0
        <5> TAKE c \in Calls
        <5>1. sends'[c] >= sends[c] /\ sends[c] \in Int /\ sends'[c] \in Int
          BY <1>5, <2>1, ReleaseJob DEF ReleaseTypeOK, TypeOK
        <5> QED
          BY <5>1
      <4> QED
        BY <4>1, <4>2 DEF RunFits
    <3> QED
      BY <3>1, <3>2
  <2> QED
    BY <1>5, <2>1, <2>2, ReleaseJob
<1>6. CASE UNCHANGED releaseVars
  BY <1>6 DEF releaseVars, jobVars, vars, storeVars, pipelineVars, ReleaseTypeOK, TypeOK,
              StoreTypeOK, CallTypeOK, CallFits, Unwritten, PlanIsFirst, RowPending,
              NotSentYet, OutcomeTrue, HeldIsOver, SentTrue, RunFits, InApp
<1> QED
  BY <1>1, <1>2, <1>3, <1>4, <1>5, <1>6 DEF ReleaseNext

LEMMA ReleaseInitially == ReleaseInit => ReleaseInv
<1> SUFFICES ASSUME ReleaseInit PROVE ReleaseInv
  OBVIOUS
<1>1. RowInv
  BY RowInit DEF ReleaseInit
<1>2. ReleaseTypeOK
  BY <1>1 DEF RowInv, ReleaseInit, ReleaseTypeOK, Statuses
<1>3. \A c \in Calls : notifications[c].status = "none"
  BY EmptyRow DEF ReleaseInit, Init, StoreInit
<1>4. \A j \in Runs : RunFits(j)
  BY RunsAssumption DEF ReleaseInit, RunFits
<1> QED
  BY <1>1, <1>2, <1>3, <1>4 DEF ReleaseInv, RowInv, HeldIsOver, SentTrue

(* The variables of the pipeline and the job keep their types, however     *)
(* many runs of the job overlap.                                           *)
THEOREM ReleaseKeepsTypes == ReleaseSpec => []ReleaseTypeOK
<1>1. ReleaseInv => ReleaseTypeOK
  BY DEF ReleaseInv
<1> QED
  BY ReleaseInitially, ReleaseStep, <1>1, PTL DEF ReleaseSpec

(* On a channel with a provider, a row that says "sent" stands for a       *)
(* message that was taken, also when runs of the job overlap and write     *)
(* over one another's rows.                                                *)
THEOREM SentWasTaken == ReleaseSpec => []SentMeansTaken
<1>1. ReleaseInv => SentMeansTaken
  BY DEF ReleaseInv, SentTrue, SentMeansTaken
<1> QED
  BY ReleaseInitially, ReleaseStep, <1>1, PTL DEF ReleaseSpec

-----------------------------------------------------------------------------
(* One run at a time.  A held row that was sent and not recorded is left   *)
(* behind only by a failure.                                               *)
LEMMA FaultsGrow ==
    ASSUME ReleaseInv, [ReleaseNext]_releaseVars
    PROVE  faults > 0 => faults' > 0
<1>1. faults' = faults \/ faults' = faults + 1
  <2>1. CASE CallNext
    <3>1. PICK c \in Calls : Start(c) \/ Step(c) \/ Throw(c)
      BY <2>1 DEF CallNext
    <3> QED
      BY <3>1 DEF Start, Step, Throw, ResolveDeliveryAddress, CheckDuplicate, CheckSuppression,
                  LookupTemplate, InsertRow, EnqueueDigest, FetchAttachments, Dispatch,
                  RecordOutcome
  <2>2. CASE \E j \in Runs : SelectHeld(j) \/ JobStep(j) \/ JobThrow(j)
    BY <2>2 DEF SelectHeld, JobStep, JobThrow, CheckStillQuiet, Rerender, DispatchHeld,
                RecordHeld, vars, pipelineVars
  <2> QED
    BY <2>1, <2>2 DEF ReleaseNext, ServerCrash, TimerTick, pipelineVars, releaseVars, vars
<1>2. faults \in Nat
  BY PipelineAssumption DEF ReleaseInv, ReleaseTypeOK, TypeOK
<1> QED
  BY <1>1, <1>2

LEMMA OnceCall ==
    ASSUME OnceInv, CallNext, UNCHANGED jobVars
    PROVE  SentOnceUnlessFailed' /\ (\A c \in Calls : HeldUnsent(c)')
           /\ (\A j \in Runs : SelectedHeld(j)')
<1> USE DEF OnceInv
<1>1. PICK c \in Calls : Start(c) \/ Step(c) \/ Throw(c)
  BY DEF CallNext
<1>2. TypeOK /\ CallFits(c)
  BY DEF ReleaseInv, ReleaseTypeOK
<1>3. faults > 0 => faults' > 0
  BY FaultsGrow DEF ReleaseNext
<1>4. ASSUME NEW d \in Calls
      PROVE  sends'[d] = sends[d] \/ (sends'[d] = 1 /\ notifications'[d].status = "pending")
  <2>1. CASE Dispatch(c)
    <3>1. pc[c] = "dispatch" /\ notifications' = notifications
      BY <2>1 DEF Dispatch, storeVars
    <3>2. sends[c] = 0 /\ notifications[c].status = "pending"
      BY <1>2, <3>1 DEF CallFits, NotSentYet, RowPending
    <3>3. sends' = sends \/ sends' = [sends EXCEPT ![c] = 1]
      BY <1>2, <2>1, <3>2, DispatchOutcome
    <3>4. sends \in [Calls -> 0 .. 2]
      BY <1>2 DEF TypeOK
    <3>5. d # c => sends'[d] = sends[d]
      BY <3>3, <3>4
    <3>6. sends' = sends \/ sends'[c] = 1
      BY <3>3, <3>4
    <3> QED
      BY <3>1, <3>2, <3>5, <3>6
  <2>2. CASE ~Dispatch(c)
    <3>1. sends' = sends
      BY <1>1, <1>2, <2>2, StepSends
    <3> QED
      BY <3>1
  <2> QED
    BY <2>1, <2>2
<1>5. ASSUME NEW d \in Calls, notifications'[d].status = "held"
      PROVE  notifications[d].status = "held" \/ sends[d] = 0
  <2>1. CASE d # c
    BY <1>1, <1>2, <1>5, <2>1, StepFrame
  <2>2. CASE d = c
    <3>1. \/ notifications'[c].status = notifications[c].status
          \/ pc[c] = "insert"
          \/ pc[c] = "record" /\ notifications'[c].status = outcome[c].status
      BY <1>1, <1>2, StatusStep
    <3>2. pc[c] = "insert" => sends[c] = 0
      BY <1>2, NoRowYet DEF BeforeInsert
    <3>3. pc[c] = "record" => outcome[c].status # "held"
      BY <1>2 DEF CallFits, OutcomeTrue, Lifecycle!Final
    <3> QED
      BY <1>5, <2>2, <3>1, <3>2, <3>3
  <2> QED
    BY <2>1, <2>2
<1>6. ASSUME NEW d \in Calls, notifications[d].status = "held"
      PROVE  notifications'[d].status = "held"
  <2>1. pc[d] \in Ends
    BY <1>6 DEF ReleaseInv, HeldIsOver
  <2>2. d # c
    BY <1>1, <1>2, <2>1, EndsStay
  <2> QED
    BY <1>1, <1>2, <1>6, <2>2, StepFrame
<1>7. SentOnceUnlessFailed'
  <2> SUFFICES ASSUME NEW d \in Calls, sends'[d] > 1 PROVE faults' > 0
    BY DEF SentOnceUnlessFailed
  <2>1. sends'[d] = sends[d]
    BY <1>4
  <2> QED
    BY <1>3, <2>1 DEF SentOnceUnlessFailed
<1>8. ASSUME NEW d \in Calls PROVE HeldUnsent(d)'
  <2> SUFFICES ASSUME notifications'[d].status = "held"
               PROVE  sends'[d] = 0 \/ faults' > 0 \/ Recording(d)'
    BY DEF HeldUnsent
  <2>1. sends'[d] = sends[d]
    BY <1>4
  <2>2. Recording(d)' <=> Recording(d)
    BY DEF Recording, jobVars
  <2> QED
    BY <1>3, <1>5, <2>1, <2>2 DEF HeldUnsent
<1>9. ASSUME NEW j \in Runs PROVE SelectedHeld(j)'
  <2>1. todo[j] \subseteq Calls
    BY DEF ReleaseInv, ReleaseTypeOK
  <2> QED
    BY <1>6, <2>1 DEF SelectedHeld, jobVars
<1> QED
  BY <1>7, <1>8, <1>9

LEMMA OnceJob ==
    ASSUME OneRun, OnceInv, NEW j \in Runs, SelectHeld(j) \/ JobStep(j) \/ JobThrow(j)
    PROVE  SentOnceUnlessFailed' /\ (\A c \in Calls : HeldUnsent(c)')
           /\ (\A i \in Runs : SelectedHeld(i)')
<1> USE DEF OnceInv
<1>0. \A i \in Runs : i = j
  BY DEF OneRun
<1>1. /\ ReleaseTypeOK /\ TypeOK /\ faults \in Nat /\ todo[j] \in SUBSET Calls
      /\ \A c \in Calls : sends[c] \in 0 .. 2
  BY PipelineAssumption DEF ReleaseInv, ReleaseTypeOK, TypeOK
<1>2. \A c \in Calls : Recording(c) <=> jpc[j] = "record" /\ row[j] = c
  BY <1>0 DEF Recording
<1>3. \A c \in Calls : Recording(c)' <=> jpc'[j] = "record" /\ row'[j] = c
  BY <1>0 DEF Recording
<1>4. CASE JobThrow(j)
  <2>1. faults' > 0 /\ notifications' = notifications /\ todo'[j] = {}
        /\ jpc'[j] = "idle"
    BY <1>1, <1>4 DEF JobThrow, Abort, NextRow, ReleaseTypeOK, storeVars
  <2> QED
    BY <1>0, <2>1 DEF SentOnceUnlessFailed, HeldUnsent, SelectedHeld
<1>5. CASE SelectHeld(j)
  <2>1. /\ jpc[j] = "idle" /\ jpc'[j] \in {"idle", "next"} /\ todo'[j] = Held
        /\ notifications' = notifications /\ sends' = sends /\ faults' = faults
    BY <1>1, <1>5 DEF SelectHeld, ReleaseTypeOK, vars, storeVars, pipelineVars
  <2>2. \A c \in Calls : HeldUnsent(c)'
    BY <1>2, <2>1 DEF HeldUnsent
  <2>3. SelectedHeld(j)'
    BY <2>1 DEF SelectedHeld, Held
  <2> QED
    BY <1>0, <2>1, <2>2, <2>3 DEF SentOnceUnlessFailed
<1>6. CASE CheckStillQuiet(j) \/ Rerender(j)
  <2>1. /\ jpc[j] # "record"
        /\ notifications' = notifications /\ sends' = sends /\ faults' = faults
    BY <1>6 DEF CheckStillQuiet, Rerender, vars, storeVars, pipelineVars
  <2>2. \A c \in Calls : HeldUnsent(c)'
    BY <1>2, <2>1 DEF HeldUnsent
  <2>3. SelectedHeld(j)'
    <3>1. todo'[j] \subseteq todo[j]
      BY <1>1, <1>6 DEF CheckStillQuiet, Rerender, Abort, NextRow, ReleaseTypeOK
    <3>2. jpc'[j] \in {"template", "dispatch", "record"} => row'[j] \in todo'[j]
      <4>1. CASE CheckStillQuiet(j)
        BY <1>1, <4>1 DEF CheckStillQuiet, Abort, NextRow, ReleaseTypeOK
      <4>2. CASE Rerender(j)
        BY <1>1, <4>2 DEF Rerender, Abort, NextRow, ReleaseTypeOK, SelectedHeld
      <4> QED
        BY <1>6, <4>1, <4>2
    <3> QED
      BY <2>1, <3>1, <3>2 DEF SelectedHeld
  <2> QED
    BY <1>0, <2>1, <2>2, <2>3 DEF SentOnceUnlessFailed
<1>7. CASE DispatchHeld(j)
  <2>1. row[j] \in Calls /\ notifications[row[j]].status = "held" /\ row[j] \in todo[j]
    BY <1>7 DEF DispatchHeld, ReleaseInv, RunFits, SelectedHeld
  <2>2. sends[row[j]] = 0 \/ faults > 0
    BY <1>2, <1>7, <2>1 DEF DispatchHeld, HeldUnsent
  <2>3. PICK a \in HeldAnswers(Request[row[j]].channel) : CountSend(row[j], a.took)
    BY <1>7 DEF DispatchHeld
  <2>4. /\ \A c \in Calls \ {row[j]} : sends'[c] = sends[c]
        /\ sends'[row[j]] > 1 => sends[row[j]] > 0
    <3>1. a.took \in BOOLEAN /\ sends \in [Calls -> 0 .. 2]
      BY <1>1, <2>1, HeldAnswer DEF TypeOK
    <3> QED
      BY <2>1, <2>3, <3>1, CountSendKeeps
  <2>5. /\ notifications' = notifications /\ faults' = faults
        /\ jpc'[j] = "record" /\ row'[j] = row[j] /\ todo'[j] = todo[j]
    BY <1>1, <1>7 DEF DispatchHeld, storeVars, ReleaseTypeOK
  <2>6. SentOnceUnlessFailed'
    BY <2>2, <2>4, <2>5 DEF SentOnceUnlessFailed
  <2>7. \A c \in Calls : HeldUnsent(c)'
    BY <1>2, <1>3, <1>7, <2>4, <2>5 DEF DispatchHeld, HeldUnsent
  <2>8. SelectedHeld(j)'
    BY <2>1, <2>5 DEF SelectedHeld
  <2> QED
    BY <1>0, <2>6, <2>7, <2>8
<1>8. CASE RecordHeld(j)
  <2>1. row[j] \in Calls /\ out[j] \in {"sent", "failed"}
    BY <1>8 DEF RecordHeld, ReleaseInv, RunFits
  <2>2. /\ \A c \in Calls \ {row[j]} : notifications'[c] = notifications[c]
        /\ notifications'[row[j]].status \in {"none", out[j]}
    BY <1>8, <2>1 DEF RecordHeld, UpdateNotification, Updated, ReleaseInv, ReleaseTypeOK,
                      TypeOK, StoreTypeOK, NotificationType
  <2>3. /\ sends' = sends /\ faults' = faults
        /\ jpc'[j] \in {"idle", "next"} /\ todo'[j] = todo[j] \ {row[j]}
    BY <1>1, <1>8 DEF RecordHeld, NextRow, pipelineVars, ReleaseTypeOK
  <2>4. ASSUME NEW c \in Calls PROVE HeldUnsent(c)'
    <3>1. CASE c = row[j]
      BY <2>1, <2>2, <3>1 DEF HeldUnsent
    <3>2. CASE c # row[j]
      BY <1>2, <2>2, <2>3, <3>2 DEF HeldUnsent
    <3> QED
      BY <3>1, <3>2
  <2>5. SelectedHeld(j)'
    BY <1>1, <2>2, <2>3 DEF SelectedHeld
  <2> QED
    BY <1>0, <2>3, <2>4, <2>5 DEF SentOnceUnlessFailed
<1> QED
  BY <1>4, <1>5, <1>6, <1>7, <1>8 DEF JobStep

LEMMA OnceStep == ASSUME OneRun PROVE OnceInv /\ [ReleaseNext]_releaseVars => OnceInv'
<1> SUFFICES ASSUME OnceInv, [ReleaseNext]_releaseVars PROVE OnceInv'
  OBVIOUS
<1>0. ReleaseInv'
  BY ReleaseStep DEF OnceInv
<1>1. CASE CallNext /\ UNCHANGED jobVars
  BY <1>0, <1>1, OnceCall DEF OnceInv
<1>2. CASE ServerCrash
  <2>1. faults' > 0
    BY <1>2, PipelineAssumption DEF ServerCrash, OnceInv, ReleaseInv, ReleaseTypeOK, TypeOK
  <2>2. \A j \in Runs : todo'[j] = {} /\ jpc'[j] = "idle"
    BY <1>2 DEF ServerCrash
  <2> QED
    BY <1>0, <2>1, <2>2 DEF OnceInv, SentOnceUnlessFailed, HeldUnsent, SelectedHeld
<1>3. ASSUME NEW j \in Runs, SelectHeld(j) \/ JobStep(j) \/ JobThrow(j) PROVE OnceInv'
  BY <1>0, <1>3, OnceJob DEF OnceInv
<1>4. CASE (Edit /\ UNCHANGED <<pipelineVars, jobVars>>) \/ TimerTick \/ UNCHANGED releaseVars
  <2>1. UNCHANGED <<sends, faults, jpc, todo, row>>
    BY <1>4 DEF TimerTick, pipelineVars, jobVars, releaseVars, vars
  <2>2. \A c \in Calls : notifications'[c].status = notifications[c].status
    BY <1>4, OlderRow DEF TimerTick, Tick, Edit, OnceInv, ReleaseInv, ReleaseTypeOK,
                          TypeOK, StoreTypeOK, releaseVars, vars, storeVars
  <2>3. \A j \in Runs : todo[j] \subseteq Calls
    BY DEF OnceInv, ReleaseInv, ReleaseTypeOK
  <2> QED
    BY <1>0, <2>1, <2>2, <2>3 DEF OnceInv, SentOnceUnlessFailed, HeldUnsent, Recording,
                                  SelectedHeld
<1> QED
  BY <1>1, <1>2, <1>3, <1>4 DEF ReleaseNext

(* With one run of the job at a time, a message goes out twice only after  *)
(* a failure: whatever the pipeline, the API and the clock do meanwhile.   *)
THEOREM SentOnce ==
    ASSUME OneRun
    PROVE  ReleaseSpec => []SentOnceUnlessFailed
<1>1. ReleaseInit => OnceInv
  <2> SUFFICES ASSUME ReleaseInit PROVE OnceInv
    OBVIOUS
  <2>1. \A c \in Calls : sends[c] = 0
    BY DEF ReleaseInit, Init
  <2>2. \A j \in Runs : todo[j] = {} /\ jpc[j] = "idle"
    BY DEF ReleaseInit
  <2> QED
    BY <2>1, <2>2, ReleaseInitially DEF OnceInv, SentOnceUnlessFailed, HeldUnsent, SelectedHeld
<1>2. OnceInv /\ [ReleaseNext]_releaseVars => OnceInv'
  BY OnceStep
<1>3. OnceInv => SentOnceUnlessFailed
  BY DEF OnceInv
<1> QED
  BY <1>1, <1>2, <1>3, PTL DEF ReleaseSpec
=============================================================================
