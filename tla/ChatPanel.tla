----------------------------- MODULE ChatPanel ------------------------------
(***************************************************************************)
(* The chat panel that drives the runs of module ChatRuns: sendMessage,    *)
(* waitForRunReady, handleApprovalDecision and streamPreparedRun of the    *)
(* panel, and the planner loop of the WASM service.  Each asynchronous     *)
(* call is a process; between two awaits it takes one atomic step, usually *)
(* one store command.  The panel's signals (streaming, current run, shown  *)
(* approvals, busy approval) are shared by all of them.                    *)
(***************************************************************************)
EXTENDS ChatRuns

CONSTANTS Clicks,   \* concurrent calls of handleApprovalDecision
          Nobody    \* no run, no approval

\* A driver is the call of sendMessage for one run or a click, never both.
ASSUME PanelAssumption ==
    /\ Runs \cap Clicks = {}
    /\ Nobody \notin Runs

VARIABLES planner,   \* per run: where chatProcessPlannerRunInternal is
          pc,        \* per driver: where the asynchronous call is
          target,    \* per driver: its run and, for a click, the approval
          held,      \* per driver: the host calls it is executing
          streaming, \* isStreaming
          current,   \* currentRunId
          shown,     \* pendingApprovals
          busy,      \* approvalBusy
          applied,   \* history: approvals whose edit is made and not yet reported
          redecided, \* history: runs with an approval decided twice
          left       \* history: runs the user left by switching threads

panelVars == <<planner, pc, target, held, streaming, current, shown, busy,
               applied, redecided, left>>
vars == <<run, pendingHost, approvals, session, planner, pc, target, held,
          streaming, current, shown, busy, applied, redecided, left>>
signals == <<streaming, current, shown, busy>>
history == <<applied, redecided, left>>

\* sendMessage starts one run, so its driver is named after the run.
Drivers == Runs \cup Clicks

Approval == [run : Runs, call : Calls, nth : 1..MaxApprovals]
Target == [run : Runs, approval : Approval \cup {Nobody}]

PanelInit ==
    /\ Init
    /\ planner = [r \in Runs |-> "idle"]
    /\ pc = [d \in Drivers |-> "idle"]
    /\ target = [d \in Drivers |-> Nobody]
    /\ held = [d \in Drivers |-> {}]
    /\ streaming = FALSE
    /\ current = Nobody
    /\ shown = {}
    /\ busy = Nobody
    /\ applied = {}
    /\ redecided = {}
    /\ left = {}

RunOf(d) == target[d].run
Goto(d, s) == pc' = [pc EXCEPT ![d] = s]

\* The approvals of run r still pending after the command of this step.
PendingNow(r) ==
    {a \in Approval : /\ a.run = r
                      /\ a.nth \in DOMAIN approvals'[r][a.call]
                      /\ approvals'[r][a.call][a.nth] = "pending"}

\* The call of d returns; the finally block of handleApprovalDecision frees the buttons.
Leave(d) ==
    /\ Goto(d, IF d \in Runs THEN "done" ELSE "idle")
    /\ busy' = IF d \in Clicks THEN Nobody ELSE busy
    /\ target' = [target EXCEPT ![d] = Nobody]

-----------------------------------------------------------------------------
(* sendMessage *)

SendMessage(r) ==
    /\ pc[r] = "idle"
    /\ ~streaming
    /\ ~(current # Nobody /\ shown # {})
    /\ streaming' = TRUE
    /\ shown' = {}
    /\ Goto(r, "sending")
    /\ target' = [target EXCEPT ![r] = [run |-> r, approval |-> Nobody]]
    /\ UNCHANGED <<chatVars, planner, held, current, busy, history>>

SendStarts(r) ==
    /\ pc[r] = "sending"
    /\ StartRun(r)
    /\ current' = r
    /\ Goto(r, "poll")
    /\ UNCHANGED <<planner, target, held, streaming, shown, busy, history>>

SendFails(r) ==
    /\ pc[r] = "sending"
    /\ streaming' = FALSE
    /\ Leave(r)
    /\ UNCHANGED <<chatVars, planner, held, current, shown, history>>

(* waitForRunReady *)

\* Mutant: streaming is left set while the user is asked.
ReadyStillStreaming(d, s) ==
    IF s = "awaiting_approval"
    THEN UNCHANGED <<streaming, current>> /\ Leave(d)
    ELSE IF s \in {"failed", "cancelled"} /\ d \in Runs
    THEN streaming' = FALSE /\ current' = Nobody /\ Leave(d)
    ELSE /\ streaming' = TRUE
         /\ Goto(d, "stream")
         /\ UNCHANGED <<current, busy, target>>

\* What the caller of waitForRunReady does with the status it returned.
Ready(d, s) ==
    IF s = "awaiting_approval"
    THEN /\ streaming' = FALSE
         /\ UNCHANGED current
         /\ Leave(d)
    ELSE IF d \in Runs
    THEN IF s \in {"failed", "cancelled"}
         THEN /\ streaming' = FALSE
              /\ current' = Nobody
              /\ Leave(d)
         ELSE /\ Goto(d, "stream")
              /\ UNCHANGED <<streaming, current, busy, target>>
    ELSE IF s \in {"ready_to_answer", "degraded"}
    THEN /\ streaming' = TRUE
         /\ Goto(d, "stream")
         /\ UNCHANGED <<current, busy, target>>
    ELSE /\ UNCHANGED <<streaming, current>>
         /\ Leave(d)

\* One turn of the loop.  Where the code only sleeps, the turn changes nothing
\* but the shown approvals, and the 80 turns end after the deadline.
Poll(d) ==
    /\ pc[d] = "poll"
    /\ UNCHANGED chatVars
    /\ LET r == RunOf(d)
           s == run[r].status
           waits == s = "streaming" \/ (s = "awaiting_tool_host" /\ pendingHost[r] = {})
       IN /\ shown' = PendingNow(r)
          /\ \/ /\ s = "planning"
                /\ planner' = [planner EXCEPT ![r] = IF @ = "idle" THEN "get" ELSE @]
                /\ Goto(d, "planner")
                /\ UNCHANGED <<held, target, streaming, current, busy>>
             \/ /\ s = "awaiting_tool_host" /\ pendingHost[r] # {}
                /\ held' = [held EXCEPT ![d] = pendingHost[r]]
                /\ Goto(d, "host")
                /\ UNCHANGED <<planner, target, streaming, current, busy>>
             \/ /\ waits /\ ~run[r].expired
                /\ UNCHANGED <<planner, pc, held, target, streaming, current, busy>>
             \/ /\ (waits /\ run[r].expired) \/ s \notin {"planning", "awaiting_tool_host", "streaming"}
                /\ Ready(d, s)
                /\ UNCHANGED <<planner, held>>
    /\ UNCHANGED history

\* executeCall has answered every call; a proposal tool may also fail, or apply
\* the edit at once when it matches the user's selection.
HostAnswers(d) ==
    /\ pc[d] = "host"
    /\ LET r == RunOf(d) IN
       \E props \in SUBSET (held[d] \cap Proposals) :
          /\ SubmitToolResults(r, held[d], props)
          /\ shown' = PendingNow(r)
          /\ IF run'[r].status \in {"planning", "awaiting_tool_host"}
             THEN Goto(d, "poll") /\ UNCHANGED <<target, streaming, current, busy>>
             ELSE Ready(d, run'[r].status)
    /\ held' = [held EXCEPT ![d] = {}]
    /\ UNCHANGED <<planner, history>>

(* streamPreparedRun *)

StreamStarts(d) ==
    /\ pc[d] = "stream"
    /\ MarkStreaming(RunOf(d))
    /\ Goto(d, "tokens")
    /\ UNCHANGED <<planner, target, held, signals, history>>

StreamRefused(d) ==
    /\ pc[d] = "stream"
    /\ streaming' = FALSE
    /\ current' = Nobody
    /\ Leave(d)
    /\ UNCHANGED <<chatVars, planner, held, shown, history>>

StreamEnds(d) ==
    /\ pc[d] = "tokens"
    /\ CompleteRun(RunOf(d))
    /\ shown' = {}
    /\ current' = Nobody
    /\ streaming' = FALSE
    /\ Leave(d)
    /\ UNCHANGED <<planner, held, history>>

(* handleApprovalDecision *)

\* A click on a shown approval whose button is not disabled; the decision will go
\* to the run that is current now.  Approving edits the note first (applyApproval),
\* which may find that the note has moved on.
Click(d) ==
    /\ pc[d] = "idle"
    /\ current # Nobody
    /\ \E a \in shown :
          /\ busy # a
          /\ target' = [target EXCEPT ![d] = [run |-> current, approval |-> a]]
          /\ busy' = a
          /\ \E edited \in {{}, {a}} : applied' = applied \cup edited
    /\ Goto(d, "decide")
    /\ UNCHANGED <<chatVars, planner, held, streaming, current, shown, redecided, left>>

Decide(d) ==
    /\ pc[d] = "decide"
    /\ LET r == RunOf(d)
           a == target[d].approval
       IN /\ SubmitApproval(r, a.run, a.call, a.nth)
          /\ redecided' = IF approvals[a.run][a.call][a.nth] = "pending"
                          THEN redecided ELSE redecided \cup {a.run}
          /\ IF ApprovalFound(r, a.run)
             THEN /\ shown' = PendingNow(r)
                  /\ applied' = applied \ {a}
                  /\ IF run'[r].status = "planning"
                     THEN Goto(d, "poll") /\ UNCHANGED <<target, busy>>
                     ELSE Leave(d)
             ELSE Leave(d) /\ UNCHANGED <<shown, applied>>
    /\ UNCHANGED <<planner, held, streaming, current, left>>

-----------------------------------------------------------------------------
(* chatProcessPlannerRunInternal: one loop per run, joined by every driver *)

\* The loop ends: every driver that awaited its promise polls again.
LoopEnds(r) ==
    /\ planner' = [planner EXCEPT ![r] = "idle"]
    /\ pc' = [d \in Drivers |-> IF pc[d] = "planner" /\ RunOf(d) = r THEN "poll" ELSE pc[d]]

\* The loop goes on with the step the command returned, if it returned one.
NextStep(r, returned) ==
    IF returned /\ session'[r] # NoSession
    THEN /\ planner' = [planner EXCEPT ![r] = IF session'[r].step = "model" THEN "fetch" ELSE "advance"]
         /\ UNCHANGED pc
    ELSE LoopEnds(r)

LoopFails(r) ==
    /\ planner' = [planner EXCEPT ![r] = "degrade"]
    /\ UNCHANGED pc

PlannerStarts(r) ==
    /\ planner[r] = "get"
    /\ GetStep(r)
    /\ NextStep(r, run[r].status = "planning")
    /\ UNCHANGED <<target, held, signals, history>>

\* The provider did not answer, or the API key is missing.
FetchFails(r) ==
    /\ planner[r] \in {"get", "fetch"}
    /\ LoopFails(r)
    /\ UNCHANGED <<chatVars, target, held, signals, history>>

ModelAnswers(r) ==
    /\ planner[r] = "fetch"
    /\ SubmitModelResponse(r)
    /\ IF session[r] = NoSession THEN LoopFails(r) ELSE NextStep(r, TRUE)
    /\ session'[r] # NoSession =>            \* fresh calls: no driver is still executing them
           \A d \in Drivers : held[d] # {} /\ RunOf(d) = r => held[d] \cap session'[r].round = {}
    /\ UNCHANGED <<target, held, signals, history>>

PlannerAdvances(r) ==
    /\ planner[r] = "advance"
    /\ \/ /\ Advance(r)
          /\ IF session[r] = NoSession THEN LoopFails(r) ELSE NextStep(r, TRUE)
       \/ /\ AdvanceFails(r)
          /\ LoopFails(r)
    /\ UNCHANGED <<target, held, signals, history>>

PlannerDegrades(r) ==
    /\ planner[r] = "degrade"
    /\ DegradeRun(r)
    /\ LoopEnds(r)
    /\ UNCHANGED <<target, held, signals, history>>

-----------------------------------------------------------------------------
(* The environment: time, the public cancelRun, another chat thread *)

Timeout(r) == DeadlinePasses(r) /\ UNCHANGED panelVars

Cancel(r) ==
    /\ run[r].status # "cancelled"
    /\ CancelRun(r)
    /\ UNCHANGED panelVars

\* selectSession, newSession and clearChat reset the signals, not the drivers.
LeaveThread ==
    /\ left # {r \in Runs : Started(r)}
    /\ left' = {r \in Runs : Started(r)}
    /\ shown' = {}
    /\ current' = Nobody
    /\ busy' = Nobody
    /\ UNCHANGED <<chatVars, planner, pc, target, held, streaming, applied, redecided>>

PlannerLoop(r) ==
    PlannerStarts(r) \/ FetchFails(r) \/ ModelAnswers(r) \/ PlannerAdvances(r) \/ PlannerDegrades(r)

Driver(d) ==
    Poll(d) \/ HostAnswers(d) \/ StreamStarts(d) \/ StreamRefused(d) \/ StreamEnds(d)

PanelNext ==
    \/ \E r \in Runs : \/ SendMessage(r) \/ SendStarts(r) \/ SendFails(r)
                       \/ PlannerLoop(r) \/ Timeout(r) \/ Cancel(r)
    \/ \E d \in Drivers : Driver(d)
    \/ \E d \in Clicks : Click(d) \/ Decide(d)
    \/ LeaveThread

PanelSpec == PanelInit /\ [][PanelNext]_vars

\* Timers fire, commands and requests are answered, and promises settle; the
\* user clicks only when he wants to.
PanelFairness ==
    /\ \A r \in Runs : /\ WF_vars(PlannerLoop(r))
                       /\ WF_vars(SendStarts(r) \/ SendFails(r))
                       /\ WF_vars(Timeout(r))
    /\ \A d \in Drivers : WF_vars(Driver(d))
    /\ \A d \in Clicks : WF_vars(Decide(d))

FairPanelSpec == PanelSpec /\ PanelFairness

-----------------------------------------------------------------------------
Driving == {"poll", "planner", "host", "stream", "tokens"}

PanelTypeOK ==
    /\ TypeOK
    /\ planner \in [Runs -> {"idle", "get", "fetch", "advance", "degrade"}]
    /\ pc \in [Drivers -> Driving \cup {"idle", "sending", "decide", "done"}]
    /\ target \in [Drivers -> Target \cup {Nobody}]
    /\ held \in [Drivers -> SUBSET Calls]
    /\ streaming \in BOOLEAN
    /\ current \in Runs \cup {Nobody}
    /\ shown \subseteq Approval
    /\ busy \in Approval \cup {Nobody}
    /\ applied \subseteq Approval
    /\ redecided \subseteq Runs
    /\ left \subseteq Runs

\* Every request the planner sends to the model has each tool call of the
\* transcript answered by exactly one tool message (a provider refuses the
\* others), across internal rounds, host results, approvals, cancellation and
\* sessions rebuilt from the stored run, unless an approval was decided twice.
EveryCallAnsweredOnce ==
    \A r \in Runs : session[r] # NoSession /\ session[r].step = "model" /\ r \notin redecided
        => \A c \in Calls : session[r].tr.answer[c] \in {"none", "once"}

\* At most one asynchronous call of the panel drives a run: sendMessage until an
\* approval is wanted, then the one decision after which none is pending.
OneDriverPerRun ==
    \A r \in Runs : r \notin redecided =>
        Cardinality({d \in Drivers : pc[d] \in Driving /\ RunOf(d) = r}) <= 1

\* A run that awaits approval is not stuck: one of its pending approvals is on
\* screen and its buttons reach this run, or a call of the panel is under way for
\* it.  Leaving the thread gives it up.
AwaitingIsDecidable ==
    \A r \in Runs \ (left \cup redecided) : run[r].status = "awaiting_approval" =>
        \/ current = r /\ \E a \in shown : a.run = r /\ approvals[r][a.call][a.nth] = "pending"
        \/ \E d \in Drivers : pc[d] \notin {"idle", "done"} /\ RunOf(d) = r

\* An edit made in the note is reported to the run that proposed it before its
\* decision returns: the planner is not left to wait for it.
AppliedIsReported ==
    \A a \in applied : \E d \in Clicks : pc[d] = "decide" /\ target[d].approval = a

\* The send button is locked only while some call of the panel is under way.
StreamingHasDriver ==
    streaming => \E d \in Drivers : pc[d] \in Driving \cup {"sending"}

\* No step reopens a completed or failed run, unless an approval was decided twice.
FinishedStaysFinished ==
    [][\A r \in Runs : run[r].status \in {"completed", "failed"} /\ r \notin redecided'
           => run'[r].status \in {"completed", "failed", "cancelled"}]_vars

\* Every sendMessage and every decision returns: neither the planner loop nor the
\* polling goes on for ever, whatever the model answers.
DriversReturn ==
    \A d \in Drivers : pc[d] # "idle" ~> pc[d] \in {"idle", "done"}
=============================================================================
