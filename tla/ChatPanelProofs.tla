-------------------------- MODULE ChatPanelProofs --------------------------
(***************************************************************************)
(* Theorems about the chat panel of module ChatPanel, for any number of    *)
(* tool calls, rounds, approvals and clicks and, but for the two about     *)
(* what is on screen, of runs.  The heart of the argument is Disciplined:  *)
(* a run whose approvals are decided once each is driven by one call at a  *)
(* time, by none while an approval is pending, and a call of a tool that   *)
(* is not answered yet is accounted for.                                   *)
(***************************************************************************)
EXTENDS ChatPanel, ChatRunsProofs, FiniteSetTheorems

Ended == {"ready_to_answer", "degraded", "streaming", "completed", "failed", "cancelled"}

DriversOf(r) == {d \in Drivers : pc[d] \in Driving /\ RunOf(d) = r}
AtHost(r) == {d \in Drivers : pc[d] = "host" /\ RunOf(d) = r}
Exists(a) == a \in Approval /\ a.nth \in DOMAIN approvals[a.run][a.call]
Asking(r) == AnyPending(approvals[r])

\* A call knows its run, and only a click decides.
TargetsOK ==
    /\ \A d \in Drivers : pc[d] \in Driving \cup {"sending", "decide"} => target[d] \in Target
    /\ \A d \in Runs : /\ pc[d] \in Driving \cup {"sending"} => RunOf(d) = d
                       /\ pc[d] # "decide"
    /\ \A d \in Clicks : pc[d] \notin {"sending", "done"}

\* Nothing is known of a run before it is started.
StartedOK ==
    /\ \A d \in Drivers : pc[d] \in Driving \cup {"decide"} => Started(RunOf(d))
    /\ current # Nobody => Started(current)
    /\ \A r \in Runs : ~Started(r) =>
          /\ pendingHost[r] = {} /\ session[r] = NoSession
          /\ \A c \in Calls : approvals[r][c] = <<>> /\ run[r].tr.answer[c] = "none"

\* What is shown or decided is a stored approval, and a run that awaits approval has one.
ApprovalsOK ==
    /\ \A r \in Runs : \A c \in Calls : Len(approvals[r][c]) <= MaxApprovals
    /\ \A a \in shown : Exists(a)
    /\ \A d \in Drivers : pc[d] = "decide" => Exists(target[d].approval)
    /\ \A r \in Runs : run[r].status = "awaiting_approval" => Asking(r)

\* A session in memory belongs to a planner loop that some call of the panel awaits.
LoopOK ==
    \A r \in Runs :
       /\ planner[r] # "idle" => \E d \in Drivers : pc[d] = "planner" /\ RunOf(d) = r
       /\ session[r] # NoSession =>
             \/ /\ session[r].step = "model" /\ session[r].round = {}
                /\ planner[r] \in {"fetch", "degrade"}
             \/ session[r].step = "tools" /\ planner[r] = "advance"

BaseInv == IInv /\ PanelTypeOK /\ TargetsOK /\ StartedOK /\ ApprovalsOK /\ LoopOK

-----------------------------------------------------------------------------
(* What a command does to the rows of its run, and to no other's. *)

SameRow(q) == /\ run'[q] = run[q] /\ pendingHost'[q] = pendingHost[q]
              /\ approvals'[q] = approvals[q] /\ session'[q] = session[q]

\* The run is there, its approvals are numbered on, and an approval is awaited only if
\* one is pending.
RowStep(r) ==
    /\ \A q \in Runs \ {r} : SameRow(q)
    /\ Started(r)'
    /\ \A c \in Calls : /\ DOMAIN approvals[r][c] \subseteq DOMAIN approvals'[r][c]
                        /\ Len(approvals'[r][c]) <= MaxApprovals
    /\ run'[r].status = "awaiting_approval" => AnyPending(approvals'[r])

LEMMA RowTypes ==
  ASSUME IInv
  PROVE  /\ run \in [Runs -> RunType]
         /\ pendingHost \in [Runs -> SUBSET Calls]
         /\ approvals \in [Runs -> [Calls -> Seq({"pending", "decided"})]]
         /\ session \in [Runs -> Session \cup {NoSession}]
  BY DEF IInv, TypeOK, RunType

LEMMA SameRowsStep ==
  ASSUME IInv, ApprovalsOK, NEW r \in Runs, Started(r), UNCHANGED chatVars
  PROVE  IInv' /\ RowStep(r)
  BY DEF chatVars, IInv, TypeOK, SessionMirrorsRun, ApprovalsOK, RowStep, SameRow, Started,
         Asking, AnyPending, PendingOf

LEMMA StatusStep ==
  ASSUME IInv, ApprovalsOK, NEW r \in Runs, NEW s, s # "none", s # "awaiting_approval",
         SetStatus(r, s), DropSession(r) \/ UNCHANGED session,
         UNCHANGED <<pendingHost, approvals>>
  PROVE  /\ RowStep(r)
         /\ run'[r] = [run[r] EXCEPT !.status = s]
<1>1. /\ run'[r] = [run[r] EXCEPT !.status = s]
      /\ \A q \in Runs \ {r} : run'[q] = run[q] /\ session'[q] = session[q]
  BY DEF SetStatus, DropSession, IInv, TypeOK
<1>2. run'[r].status = s
  BY <1>1, RowTypes DEF RunType
<1>. QED  BY <1>1, <1>2 DEF RowStep, SameRow, Started, ApprovalsOK

LEMMA StartRunStep ==
  ASSUME IInv, ApprovalsOK, NEW r \in Runs, StartRun(r)
  PROVE  IInv' /\ RowStep(r)
<1>1. IInv'
  BY StatusCommandsKeep
<1>. QED  BY <1>1, StatusStep DEF StartRun

LEMMA MarkStreamingStep ==
  ASSUME IInv, ApprovalsOK, NEW r \in Runs, MarkStreaming(r)
  PROVE  IInv' /\ RowStep(r)
<1>1. IInv'
  BY StatusCommandsKeep
<1>. QED  BY <1>1, StatusStep DEF MarkStreaming

LEMMA CompleteRunStep ==
  ASSUME IInv, ApprovalsOK, NEW r \in Runs, CompleteRun(r)
  PROVE  IInv' /\ RowStep(r)
<1>1. IInv'
  BY StatusCommandsKeep
<1>. QED  BY <1>1, StatusStep DEF CompleteRun

LEMMA CancelRunStep ==
  ASSUME IInv, ApprovalsOK, NEW r \in Runs, CancelRun(r)
  PROVE  IInv' /\ RowStep(r)
<1>1. IInv'
  BY StatusCommandsKeep
<1>. QED  BY <1>1, StatusStep DEF CancelRun

LEMMA DegradeRunStep ==
  ASSUME IInv, ApprovalsOK, NEW r \in Runs, DegradeRun(r)
  PROVE  IInv' /\ RowStep(r)
<1>1. IInv'
  BY StatusCommandsKeep
<1>. QED  BY <1>1, StatusStep DEF DegradeRun

LEMMA DeadlinePassesStep ==
  ASSUME IInv, ApprovalsOK, NEW r \in Runs, DeadlinePasses(r)
  PROVE  IInv' /\ RowStep(r)
<1>1. IInv'
  BY DeadlinePassesKeeps
<1>2. \A q \in Runs : run'[q].status = run[q].status /\ (q # r => run'[q] = run[q])
  BY DEF DeadlinePasses, IInv, TypeOK
<1>. QED  BY <1>1, <1>2
     DEF DeadlinePasses, RowStep, SameRow, Started, ApprovalsOK, Asking, AnyPending, PendingOf

\* A command that stores a run and touches no approval.
LEMMA StoreStep ==
  ASSUME IInv, ApprovalsOK, NEW r \in Runs, NEW s, NEW tr, s # "none", s # "awaiting_approval",
         SetRun(r, s, tr), UNCHANGED approvals,
         \A q \in Runs \ {r} : session'[q] = session[q] /\ pendingHost'[q] = pendingHost[q]
  PROVE  /\ RowStep(r)
         /\ run'[r].status = s /\ run'[r].tr = tr
<1>1. /\ run'[r].status = s /\ run'[r].tr = tr
      /\ \A q \in Runs \ {r} : run'[q] = run[q]
  BY DEF SetRun, IInv, TypeOK
<1>. QED  BY <1>1 DEF RowStep, SameRow, Started, ApprovalsOK

LEMMA GetStepStep ==
  ASSUME IInv, ApprovalsOK, NEW r \in Runs, GetStep(r)
  PROVE  IInv' /\ RowStep(r)
<1>1. IInv'
  BY GetStepKeeps
<1>2. CASE UNCHANGED <<run, session>>
  BY <1>2, SameRowsStep DEF GetStep, chatVars
<1>3. CASE SetStatus(r, "degraded") /\ DropSession(r)
  BY <1>1, <1>3, StatusStep DEF GetStep
<1>4. CASE /\ session' = [session EXCEPT ![r] =
                 IF @ # NoSession THEN @
                 ELSE [step |-> "model", round |-> {}, tr |-> run[r].tr]]
           /\ SetRun(r, "planning", session'[r].tr)
  <2>1. \A q \in Runs \ {r} : session'[q] = session[q] /\ pendingHost'[q] = pendingHost[q]
    BY <1>4 DEF GetStep, IInv, TypeOK
  <2>. QED  BY <1>1, <1>4, <2>1, StoreStep DEF GetStep
<1>. QED  BY <1>2, <1>3, <1>4 DEF GetStep

LEMMA SubmitToolResultsStep ==
  ASSUME IInv, ApprovalsOK, NEW r \in Runs, NEW H, NEW props \in SUBSET Calls,
         SubmitToolResults(r, H, props)
  PROVE  IInv' /\ RowStep(r)
<1>. DEFINE host == pendingHost[r] \ H
            app  == [c \in Calls |-> IF c \in props THEN Append(approvals[r][c], "pending")
                                                    ELSE approvals[r][c]]
            s    == IF host # {} THEN "awaiting_tool_host"
                    ELSE IF AnyPending(app) THEN "awaiting_approval"
                    ELSE "planning"
            tr   == AllAnswered(run[r].tr, H \ props)
<1>1. IInv'
  BY SubmitToolResultsKeeps
<1>2. /\ SetRun(r, s, tr) /\ DropSession(r)
      /\ pendingHost' = [pendingHost EXCEPT ![r] = host]
      /\ approvals' = [approvals EXCEPT ![r] = app]
      /\ \A c \in props : Len(approvals[r][c]) < MaxApprovals
  BY DEF SubmitToolResults
<1>3. /\ \A q \in Runs \ {r} : SameRow(q)
      /\ run'[r].status = s /\ approvals'[r] = app
  <2>. HIDE DEF s, tr, host, app
  <2>. QED  BY <1>2, RowTypes DEF SetRun, DropSession, SameRow, RunType
<1>4. Started(r)'
  BY <1>3 DEF Started
<1>5. \A c \in Calls : /\ DOMAIN approvals[r][c] \subseteq DOMAIN app[c]
                       /\ Len(app[c]) <= MaxApprovals
  <2>. SUFFICES ASSUME NEW c \in Calls
                PROVE  /\ DOMAIN approvals[r][c] \subseteq DOMAIN app[c]
                       /\ Len(app[c]) <= MaxApprovals
    OBVIOUS
  <2>1. approvals[r][c] \in Seq({"pending", "decided"}) /\ Len(approvals[r][c]) <= MaxApprovals
    BY RowTypes DEF ApprovalsOK
  <2>2. CASE c \in props
    <3>1. Len(Append(approvals[r][c], "pending")) = Len(approvals[r][c]) + 1
      BY <2>1
    <3>2. Len(approvals[r][c]) < MaxApprovals
      BY <1>2, <2>2
    <3>3. DOMAIN approvals[r][c] = 1..Len(approvals[r][c])
      BY <2>1
    <3>4. DOMAIN Append(approvals[r][c], "pending") = 1..(Len(approvals[r][c]) + 1)
      BY <2>1
    <3>. QED  BY <2>1, <2>2, <3>1, <3>2, <3>3, <3>4, ChatAssumption
  <2>. QED  BY <2>1, <2>2
<1>. QED  BY <1>1, <1>3, <1>4, <1>5 DEF RowStep

LEMMA SubmitApprovalStep ==
  ASSUME IInv, ApprovalsOK, NEW r \in Runs, NEW owner \in Runs, NEW c \in Calls,
         NEW k \in DOMAIN approvals[owner][c], SubmitApproval(r, owner, c, k)
  PROVE  IInv' /\ RowStep(r)
<1>1. IInv' /\ Started(r)
  BY SubmitApprovalKeeps DEF SubmitApproval
<1>2. CASE ~ApprovalFound(r, owner)
  <2>1. UNCHANGED <<run, pendingHost, approvals>> /\ DropSession(r)
    BY <1>2 DEF SubmitApproval
  <2>. QED  BY <1>1, <2>1, RowTypes
       DEF DropSession, RowStep, SameRow, Started, ApprovalsOK, Asking
<1>3. CASE ApprovalFound(r, owner)
  <2>. DEFINE app == [approvals[r] EXCEPT ![c][k] = "decided"]
              s   == IF AnyPending(app) THEN "awaiting_approval" ELSE "planning"
              tr  == IF approvals[r][c][k] = "pending" THEN Answered(run[r].tr, c)
                                                       ELSE Repeated(run[r].tr, c)
  <2>1. /\ SetRun(r, s, tr) /\ DropSession(r)
        /\ approvals' = [approvals EXCEPT ![r] = app]
        /\ pendingHost' = [pendingHost EXCEPT ![r] = @ \ {c}]
    BY <1>3 DEF SubmitApproval
  <2>2. /\ \A q \in Runs \ {r} : SameRow(q)
        /\ run'[r].status = s /\ approvals'[r] = app
    <3>. HIDE DEF s, tr, app
    <3>. QED  BY <2>1, RowTypes DEF SetRun, DropSession, SameRow, RunType
  <2>3. \A b \in Calls : DOMAIN app[b] = DOMAIN approvals[r][b]
    BY RowTypes
  <2>4. \A b \in Calls : app[b] \in Seq({"pending", "decided"})
    <3>. HIDE DEF app
    <3>1. approvals'[r] \in [Calls -> Seq({"pending", "decided"})]
      BY <1>1 DEF IInv, TypeOK
    <3>. QED  BY <2>2, <3>1
  <2>5. \A b \in Calls : Len(app[b]) = Len(approvals[r][b])
    <3>. SUFFICES ASSUME NEW b \in Calls
                  PROVE  Len(app[b]) = Len(approvals[r][b])
      OBVIOUS
    <3>. DEFINE new == app[b]
                old == approvals[r][b]
    <3>1. new \in Seq({"pending", "decided"}) /\ old \in Seq({"pending", "decided"})
      <4>. HIDE DEF app
      <4>. QED  BY <2>4, RowTypes
    <3>2. DOMAIN new = DOMAIN old
      BY <2>3
    <3>. HIDE DEF new, old
    <3>3. 1..Len(new) = 1..Len(old)
      BY <3>1, <3>2
    <3>4. Len(new) = Len(old)
      BY <3>1, <3>3
    <3>. QED  BY <3>4 DEF new, old
  <2>6. Started(r)'
    BY <2>2 DEF Started
  <2>. HIDE DEF app, tr
  <2>. QED  BY <1>1, <2>2, <2>3, <2>5, <2>6 DEF RowStep, ApprovalsOK
<1>. QED  BY <1>2, <1>3

LEMMA SubmitModelResponseStep ==
  ASSUME IInv, ApprovalsOK, NEW r \in Runs, SubmitModelResponse(r)
  PROVE  IInv' /\ RowStep(r)
<1>1. IInv' /\ Started(r)
  BY SubmitModelResponseKeeps DEF SubmitModelResponse
<1>2. CASE UNCHANGED chatVars
  BY <1>1, <1>2, SameRowsStep
<1>3. pendingHost' = pendingHost /\ approvals' = approvals
  BY DEF SubmitModelResponse, chatVars, ModelCalls
<1>. DEFINE tr == session[r].tr
<1>4. CASE GiveUp(r, tr) \/ (SetRun(r, "ready_to_answer", tr) /\ DropSession(r))
  <2>1. PICK s \in {"degraded", "ready_to_answer"} : SetRun(r, s, tr)
    BY <1>4 DEF GiveUp
  <2>2. \A q \in Runs \ {r} : session'[q] = session[q]
    BY <1>4, RowTypes DEF GiveUp, DropSession
  <2>. QED  BY <1>1, <1>3, <2>1, <2>2, StoreStep
<1>5. ASSUME NEW x, NEW y, run' = [run EXCEPT ![r].tr = x],
             session' = [session EXCEPT ![r] = y]
      PROVE  RowStep(r)
  <2>1. /\ run'[r].status = run[r].status
        /\ \A q \in Runs \ {r} : run'[q] = run[q] /\ session'[q] = session[q]
    BY <1>5, RowTypes DEF RunType
  <2>. QED  BY <1>1, <1>3, <2>1 DEF RowStep, SameRow, Started, ApprovalsOK, Asking
<1>6. CASE Request(r, [tr EXCEPT !.final = TRUE])
  BY <1>1, <1>5, <1>6 DEF Request
<1>7. ASSUME NEW T, ModelCalls(r, T) PROVE RowStep(r)
  BY <1>5, <1>7 DEF ModelCalls
<1>. QED  BY <1>1, <1>2, <1>4, <1>6, <1>7 DEF SubmitModelResponse

LEMMA AdvanceStep ==
  ASSUME IInv, ApprovalsOK, NEW r \in Runs, Advance(r)
  PROVE  IInv' /\ RowStep(r)
<1>1. IInv' /\ Started(r) /\ approvals' = approvals
  BY AdvanceKeeps DEF Advance
<1>2. CASE UNCHANGED <<run, pendingHost, session>>
  BY <1>1, <1>2, SameRowsStep DEF chatVars
<1>3. ASSUME NEW tr, NEW s \in {"degraded", "awaiting_tool_host"}, NEW h, SetRun(r, s, tr),
             DropSession(r), pendingHost' = pendingHost \/ pendingHost' = [pendingHost EXCEPT ![r] = h]
      PROVE  RowStep(r)
  <2>1. \A q \in Runs \ {r} : session'[q] = session[q] /\ pendingHost'[q] = pendingHost[q]
    BY <1>3, RowTypes DEF DropSession
  <2>. QED  BY <1>1, <1>3, <2>1, StoreStep
<1>4. CASE GiveUp(r, session[r].tr) /\ UNCHANGED pendingHost
  <2>1. SetRun(r, "degraded", session[r].tr) /\ DropSession(r)
    BY <1>4 DEF GiveUp
  <2>2. \A q \in Runs \ {r} : session'[q] = session[q] /\ pendingHost'[q] = pendingHost[q]
    BY <1>4, <2>1, RowTypes DEF DropSession
  <2>. QED  BY <1>1, <2>1, <2>2, StoreStep
<1>5. ASSUME NEW stalled \in BOOLEAN, ToolsRan(r, stalled) PROVE RowStep(r)
  <2>. DEFINE T  == session[r].round
              tr == AllAnswered(session[r].tr, T \ Host)
  <2>1. CASE T \cap Host # {}
    <3>1. /\ pendingHost' = [pendingHost EXCEPT ![r] = pendingHost[r] \cup (T \cap Host)]
          /\ SetRun(r, "awaiting_tool_host", tr) /\ DropSession(r)
      BY <1>5, <2>1, RowTypes DEF ToolsRan
    <3>. HIDE DEF tr, T
    <3>. QED  BY <1>3, <3>1
  <2>2. ASSUME NEW x, Request(r, x), pendingHost' = pendingHost PROVE RowStep(r)
    <3>1. /\ run'[r].status = run[r].status
          /\ \A q \in Runs \ {r} : run'[q] = run[q] /\ session'[q] = session[q]
      BY <2>2, RowTypes DEF RunType, Request
    <3>. QED  BY <1>1, <2>2, <3>1 DEF RowStep, SameRow, Started, ApprovalsOK, Asking
  <2>3. CASE T \cap Host = {}
    <3>1. /\ pendingHost' = pendingHost
          /\ GiveUp(r, tr) \/ Request(r, tr) \/ Request(r, [tr EXCEPT !.final = TRUE])
      BY <1>5, <2>3 DEF ToolsRan
    <3>. HIDE DEF tr, T
    <3>. QED  BY <1>3, <2>2, <3>1 DEF GiveUp
  <2>. QED  BY <2>1, <2>3
<1>. QED  BY <1>1, <1>2, <1>4, <1>5 DEF Advance

LEMMA AdvanceFailsStep ==
  ASSUME IInv, ApprovalsOK, NEW r \in Runs, AdvanceFails(r)
  PROVE  IInv' /\ RowStep(r)
<1>1. IInv' /\ Started(r) /\ approvals' = approvals /\ run' = run /\ DropSession(r)
  BY AdvanceFailsKeeps DEF AdvanceFails, ToolStoreError
<1>2. PICK done : pendingHost' = [pendingHost EXCEPT ![r] = pendingHost[r] \cup done]
  BY RowTypes DEF AdvanceFails, ToolStoreError
<1>. QED  BY <1>1, <1>2, RowTypes DEF DropSession, RowStep, SameRow, Started, ApprovalsOK, Asking

-----------------------------------------------------------------------------
(* What every step of the panel keeps of the rows. *)

RowsKept ==
    /\ IInv'
    /\ \A q \in Runs : Started(q) => Started(q)'
    /\ \A a \in Approval : Exists(a) => Exists(a)'
    /\ \A q \in Runs : ~Started(q)' =>
          /\ pendingHost'[q] = {} /\ session'[q] = NoSession
          /\ \A c \in Calls : approvals'[q][c] = <<>> /\ run'[q].tr.answer[c] = "none"
    /\ \A q \in Runs : \A c \in Calls : Len(approvals'[q][c]) <= MaxApprovals
    /\ \A q \in Runs : run'[q].status = "awaiting_approval" => AnyPending(approvals'[q])

LEMMA RowStepKeeps ==
  ASSUME BaseInv, NEW r \in Runs, IInv', RowStep(r)
  PROVE  RowsKept
<1>1. \A q \in Runs : q = r \/ SameRow(q)
  BY DEF RowStep
<1>2. \A q \in Runs : Started(q) => Started(q)'
  BY <1>1 DEF RowStep, SameRow, Started
<1>3. \A a \in Approval : Exists(a) => Exists(a)'
  BY <1>1 DEF RowStep, SameRow, Exists, Approval
<1>4. \A q \in Runs : ~Started(q)' =>
          /\ pendingHost'[q] = {} /\ session'[q] = NoSession
          /\ \A c \in Calls : approvals'[q][c] = <<>> /\ run'[q].tr.answer[c] = "none"
  BY <1>1 DEF RowStep, SameRow, Started, BaseInv, StartedOK
<1>5. \A q \in Runs : \A c \in Calls : Len(approvals'[q][c]) <= MaxApprovals
  BY <1>1 DEF RowStep, SameRow, BaseInv, ApprovalsOK
<1>6. \A q \in Runs : run'[q].status = "awaiting_approval" => AnyPending(approvals'[q])
  BY <1>1 DEF RowStep, SameRow, BaseInv, ApprovalsOK, Asking
<1>. QED  BY <1>2, <1>3, <1>4, <1>5, <1>6 DEF RowsKept

LEMMA SameRowsKeep ==
  ASSUME BaseInv, UNCHANGED chatVars
  PROVE  RowsKept
  BY DEF BaseInv, chatVars, IInv, TypeOK, SessionMirrorsRun, RowsKept, Started, Exists,
         StartedOK, ApprovalsOK, Asking, AnyPending, PendingOf

\* The runs and approvals that a call has in hand.
LEMMA InHand ==
  ASSUME BaseInv, NEW d \in Drivers
  PROVE  /\ pc[d] \in Driving \cup {"decide"} => target[d] \in Target /\ RunOf(d) \in Runs
         /\ pc[d] = "decide" => /\ target[d].approval \in Approval
                                /\ target[d].approval.run \in Runs
                                /\ target[d].approval.call \in Calls
                                /\ target[d].approval.nth \in
                                      DOMAIN approvals[target[d].approval.run][target[d].approval.call]
         /\ held[d] \subseteq Calls
  BY DEF BaseInv, TargetsOK, ApprovalsOK, Exists, Approval, Target, RunOf, PanelTypeOK

LEMMA RowsStep ==
  ASSUME BaseInv, [PanelNext]_vars
  PROVE  RowsKept
<1>1. ASSUME NEW r \in Runs, SendMessage(r) PROVE RowsKept
  BY <1>1, SameRowsKeep DEF SendMessage
<1>2. ASSUME NEW r \in Runs, SendStarts(r) PROVE RowsKept
  BY <1>2, StartRunStep, RowStepKeeps DEF SendStarts, BaseInv
<1>3. ASSUME NEW r \in Runs, SendFails(r) PROVE RowsKept
  BY <1>3, SameRowsKeep DEF SendFails
<1>4. ASSUME NEW r \in Runs, PlannerStarts(r) PROVE RowsKept
  BY <1>4, GetStepStep, RowStepKeeps DEF PlannerStarts, BaseInv
<1>5. ASSUME NEW r \in Runs, FetchFails(r) PROVE RowsKept
  BY <1>5, SameRowsKeep DEF FetchFails
<1>6. ASSUME NEW r \in Runs, ModelAnswers(r) PROVE RowsKept
  BY <1>6, SubmitModelResponseStep, RowStepKeeps DEF ModelAnswers, BaseInv
<1>7. ASSUME NEW r \in Runs, PlannerAdvances(r) PROVE RowsKept
  BY <1>7, AdvanceStep, AdvanceFailsStep, RowStepKeeps DEF PlannerAdvances, BaseInv
<1>8. ASSUME NEW r \in Runs, PlannerDegrades(r) PROVE RowsKept
  BY <1>8, DegradeRunStep, RowStepKeeps DEF PlannerDegrades, BaseInv
<1>9. ASSUME NEW r \in Runs, Timeout(r) PROVE RowsKept
  BY <1>9, DeadlinePassesStep, RowStepKeeps DEF Timeout, BaseInv
<1>10. ASSUME NEW r \in Runs, Cancel(r) PROVE RowsKept
  BY <1>10, CancelRunStep, RowStepKeeps DEF Cancel, BaseInv
<1>11. ASSUME NEW d \in Drivers, Poll(d) PROVE RowsKept
  BY <1>11, SameRowsKeep DEF Poll
<1>12. ASSUME NEW d \in Drivers, HostAnswers(d) PROVE RowsKept
  <2>1. PICK props \in SUBSET (held[d] \cap Proposals) : SubmitToolResults(RunOf(d), held[d], props)
    BY <1>12 DEF HostAnswers
  <2>2. props \in SUBSET Calls /\ RunOf(d) \in Runs
    BY <1>12, InHand DEF HostAnswers, Driving
  <2>. QED  BY <2>1, <2>2, SubmitToolResultsStep, RowStepKeeps DEF BaseInv
<1>13. ASSUME NEW d \in Drivers, StreamStarts(d) PROVE RowsKept
  BY <1>13, InHand, MarkStreamingStep, RowStepKeeps DEF StreamStarts, BaseInv, Driving
<1>14. ASSUME NEW d \in Drivers, StreamRefused(d) PROVE RowsKept
  BY <1>14, SameRowsKeep DEF StreamRefused
<1>15. ASSUME NEW d \in Drivers, StreamEnds(d) PROVE RowsKept
  BY <1>15, InHand, CompleteRunStep, RowStepKeeps DEF StreamEnds, BaseInv, Driving
<1>16. ASSUME NEW d \in Clicks, Click(d) PROVE RowsKept
  BY <1>16, SameRowsKeep DEF Click
<1>17. ASSUME NEW d \in Clicks, Decide(d) PROVE RowsKept
  <2>1. d \in Drivers /\ pc[d] = "decide"
    BY <1>17 DEF Decide, Drivers
  <2>2. SubmitApproval(RunOf(d), target[d].approval.run, target[d].approval.call,
                       target[d].approval.nth)
    BY <1>17 DEF Decide
  <2>. QED  BY <2>1, <2>2, InHand, SubmitApprovalStep, RowStepKeeps DEF BaseInv
<1>18. CASE LeaveThread
  BY <1>18, SameRowsKeep DEF LeaveThread
<1>19. CASE UNCHANGED vars
  BY <1>19, SameRowsKeep DEF vars, chatVars
<1>. QED
  BY <1>1, <1>2, <1>3, <1>4, <1>5, <1>6, <1>7, <1>8, <1>9, <1>10,
     <1>11, <1>12, <1>13, <1>14, <1>15, <1>16, <1>17, <1>18, <1>19 DEF PanelNext, PlannerLoop, Driver

-----------------------------------------------------------------------------
(* The panel's variables. *)

PanelTypes ==
    /\ planner \in [Runs -> {"idle", "get", "fetch", "advance", "degrade"}]
    /\ pc \in [Drivers -> Driving \cup {"idle", "sending", "decide", "done"}]
    /\ target \in [Drivers -> Target \cup {Nobody}]
    /\ held \in [Drivers -> SUBSET Calls]
    /\ streaming \in BOOLEAN
    /\ current \in Runs \cup {Nobody}
    /\ shown \subseteq Approval
    /\ busy \in Approval \cup {Nobody}
    /\ applied \subseteq Approval
    /\ redecided \subseteq Runs
    /\ left \subseteq Runs

LEMMA TypesSplit == PanelTypeOK <=> TypeOK /\ PanelTypes
  BY DEF PanelTypeOK, PanelTypes

LEMMA PendingNowIsShown ==
  ASSUME NEW r
  PROVE  PendingNow(r) \subseteq Approval
  BY DEF PendingNow

LEMMA TypesStep ==
  ASSUME BaseInv, PanelTypes, [PanelNext]_vars
  PROVE  PanelTypes'
<1>1. ASSUME NEW r \in Runs, SendMessage(r) PROVE PanelTypes'
  <2>1. [run |-> r, approval |-> Nobody] \in Target
    BY DEF Target
  <2>. QED  BY <1>1, <2>1 DEF SendMessage, Goto, PanelTypes, Driving, history
<1>2. ASSUME NEW r \in Runs, SendStarts(r) PROVE PanelTypes'
  BY <1>2 DEF SendStarts, PanelTypes, Drivers, Driving, signals, history, panelVars, Goto
<1>3. ASSUME NEW r \in Runs, SendFails(r) PROVE PanelTypes'
  BY <1>3 DEF SendFails, Leave, Goto, PanelTypes, Drivers, Driving, signals, history, panelVars
<1>4. ASSUME NEW r \in Runs, PlannerStarts(r) PROVE PanelTypes'
  BY <1>4
     DEF PlannerStarts, NextStep, LoopEnds, PanelTypes, Drivers, Driving, signals, history,
         panelVars, Goto
<1>5. ASSUME NEW r \in Runs, FetchFails(r) PROVE PanelTypes'
  BY <1>5 DEF FetchFails, LoopFails, PanelTypes, Drivers, Driving, signals, history, panelVars, Goto
<1>6. ASSUME NEW r \in Runs, ModelAnswers(r) PROVE PanelTypes'
  BY <1>6
     DEF ModelAnswers, NextStep, LoopFails, LoopEnds, PanelTypes, Drivers, Driving, signals,
         history, panelVars, Goto
<1>7. ASSUME NEW r \in Runs, PlannerAdvances(r) PROVE PanelTypes'
  BY <1>7
     DEF PlannerAdvances, NextStep, LoopFails, LoopEnds, PanelTypes, Drivers, Driving, signals,
         history, panelVars, Goto
<1>8. ASSUME NEW r \in Runs, PlannerDegrades(r) PROVE PanelTypes'
  BY <1>8 DEF PlannerDegrades, LoopEnds, PanelTypes, Drivers, Driving, signals, history, panelVars, Goto
<1>9. ASSUME NEW r \in Runs, Timeout(r) PROVE PanelTypes'
  BY <1>9 DEF Timeout, PanelTypes, Drivers, Driving, signals, history, panelVars, Goto
<1>10. ASSUME NEW r \in Runs, Cancel(r) PROVE PanelTypes'
  BY <1>10 DEF Cancel, PanelTypes, Drivers, Driving, signals, history, panelVars, Goto
<1>11. ASSUME NEW d \in Drivers, Poll(d) PROVE PanelTypes'
  <2>1. d \in Drivers /\ RunOf(d) \in Runs /\ pendingHost[RunOf(d)] \subseteq Calls
    BY <1>11, InHand, RowTypes DEF Poll, Driving, BaseInv
  <2>2. shown' \subseteq Approval /\ UNCHANGED <<applied, redecided, left>>
    BY <1>11, PendingNowIsShown DEF Poll, history
  <2>3. planner' \in [Runs -> {"idle", "get", "fetch", "advance", "degrade"}]
    BY <1>11, <2>1 DEF Poll, PanelTypes
  <2>4. held' \in [Drivers -> SUBSET Calls]
    BY <1>11, <2>1 DEF Poll, PanelTypes
  <2>5. /\ pc' \in [Drivers -> Driving \cup {"idle", "sending", "decide", "done"}]
        /\ target' \in [Drivers -> Target \cup {Nobody}]
        /\ streaming' \in BOOLEAN /\ current' \in Runs \cup {Nobody}
        /\ busy' \in Approval \cup {Nobody}
    BY <1>11 DEF Poll, Ready, Leave, Goto, PanelTypes, Driving
  <2>. QED  BY <2>2, <2>3, <2>4, <2>5 DEF PanelTypes
<1>12. ASSUME NEW d \in Drivers, HostAnswers(d) PROVE PanelTypes'
  <2>1. /\ shown' \subseteq Approval /\ held' = [held EXCEPT ![d] = {}]
        /\ UNCHANGED <<planner, applied, redecided, left>>
    BY <1>12, PendingNowIsShown DEF HostAnswers, history
  <2>2. /\ pc' \in [Drivers -> Driving \cup {"idle", "sending", "decide", "done"}]
        /\ target' \in [Drivers -> Target \cup {Nobody}]
        /\ streaming' \in BOOLEAN /\ current' \in Runs \cup {Nobody}
        /\ busy' \in Approval \cup {Nobody}
    BY <1>12 DEF HostAnswers, Ready, Leave, Goto, PanelTypes, Driving
  <2>. QED  BY <2>1, <2>2 DEF PanelTypes
<1>13. ASSUME NEW d \in Drivers, StreamStarts(d) PROVE PanelTypes'
  BY <1>13 DEF StreamStarts, Goto, PanelTypes, Drivers, Driving, signals, history, panelVars
<1>14. ASSUME NEW d \in Drivers, StreamRefused(d) PROVE PanelTypes'
  BY <1>14 DEF StreamRefused, Leave, Goto, PanelTypes, Drivers, Driving, signals, history, panelVars
<1>15. ASSUME NEW d \in Drivers, StreamEnds(d) PROVE PanelTypes'
  BY <1>15 DEF StreamEnds, Leave, Goto, PanelTypes, Drivers, Driving, signals, history, panelVars
<1>16. ASSUME NEW d \in Clicks, Click(d) PROVE PanelTypes'
  <2>1. PICK a \in shown : /\ target' = [target EXCEPT ![d] = [run |-> current, approval |-> a]]
                           /\ busy' = a
                           /\ \E edited \in {{}, {a}} : applied' = applied \cup edited
    BY <1>16 DEF Click
  <2>2. a \in Approval /\ current \in Runs
    BY <1>16 DEF Click, PanelTypes
  <2>3. [run |-> current, approval |-> a] \in Target
    BY <2>2 DEF Target
  <2>4. target' \in [Drivers -> Target \cup {Nobody}]
    BY <2>1, <2>3 DEF PanelTypes
  <2>5. pc' \in [Drivers -> Driving \cup {"idle", "sending", "decide", "done"}]
    BY <1>16 DEF Click, Goto, PanelTypes
  <2>. QED  BY <1>16, <2>1, <2>2, <2>4, <2>5 DEF Click, PanelTypes
<1>17. ASSUME NEW d \in Clicks, Decide(d) PROVE PanelTypes'
  <2>1. /\ d \in Drivers /\ pc[d] = "decide"
        /\ target[d].approval.run \in Runs
    BY <1>17, InHand DEF Decide, Drivers
  <2>2. shown' \subseteq Approval
    BY <1>17, PendingNowIsShown DEF Decide, PanelTypes
  <2>3. applied' \subseteq Approval /\ redecided' \subseteq Runs
    BY <1>17, <2>1 DEF Decide, PanelTypes
  <2>4. /\ pc' \in [Drivers -> Driving \cup {"idle", "sending", "decide", "done"}]
        /\ target' \in [Drivers -> Target \cup {Nobody}]
        /\ busy' \in Approval \cup {Nobody}
        /\ UNCHANGED <<planner, held, streaming, current, left>>
    BY <1>17 DEF Decide, Leave, Goto, PanelTypes, Driving
  <2>. QED  BY <2>2, <2>3, <2>4 DEF PanelTypes
<1>18. CASE LeaveThread
  BY <1>18 DEF LeaveThread, PanelTypes, Drivers, Driving, signals, history, panelVars, Goto
<1>19. CASE UNCHANGED vars
  BY <1>19 DEF PanelTypes, vars
<1>. QED
  BY <1>1, <1>2, <1>3, <1>4, <1>5, <1>6, <1>7, <1>8, <1>9, <1>10,
     <1>11, <1>12, <1>13, <1>14, <1>15, <1>16, <1>17, <1>18, <1>19 DEF PanelNext, PlannerLoop, Driver

\* Which run a call of the panel is about.
LEMMA TargetsStep ==
  ASSUME BaseInv, PanelTypes, [PanelNext]_vars
  PROVE  TargetsOK'
<1>1. ASSUME NEW r \in Runs, SendMessage(r) PROVE TargetsOK'
  BY <1>1, PanelAssumption
     DEF SendMessage, Goto, TargetsOK, PanelTypes, Driving, Drivers, RunOf, Target, BaseInv,
         signals, history, panelVars
<1>2. ASSUME NEW r \in Runs, SendStarts(r) PROVE TargetsOK'
  BY <1>2, PanelAssumption
     DEF SendStarts, Goto, TargetsOK, PanelTypes, Driving, Drivers, RunOf, Target, BaseInv,
         signals, history, panelVars
<1>3. ASSUME NEW r \in Runs, SendFails(r) PROVE TargetsOK'
  BY <1>3, PanelAssumption
     DEF SendFails, Leave, Goto, TargetsOK, PanelTypes, Driving, Drivers, RunOf, Target, BaseInv,
         signals, history, panelVars
<1>4. ASSUME NEW r \in Runs, PlannerStarts(r) PROVE TargetsOK'
  BY <1>4, PanelAssumption
     DEF PlannerStarts, NextStep, LoopEnds, Goto, TargetsOK, PanelTypes, Driving, Drivers, RunOf,
         Target, BaseInv, signals, history, panelVars
<1>5. ASSUME NEW r \in Runs, FetchFails(r) PROVE TargetsOK'
  BY <1>5, PanelAssumption
     DEF FetchFails, LoopFails, Goto, TargetsOK, PanelTypes, Driving, Drivers, RunOf, Target,
         BaseInv, signals, history, panelVars
<1>6. ASSUME NEW r \in Runs, ModelAnswers(r) PROVE TargetsOK'
  BY <1>6, PanelAssumption
     DEF ModelAnswers, NextStep, LoopFails, LoopEnds, Goto, TargetsOK, PanelTypes, Driving,
         Drivers, RunOf, Target, BaseInv, signals, history, panelVars
<1>7. ASSUME NEW r \in Runs, PlannerAdvances(r) PROVE TargetsOK'
  BY <1>7, PanelAssumption
     DEF PlannerAdvances, NextStep, LoopFails, LoopEnds, Goto, TargetsOK, PanelTypes, Driving,
         Drivers, RunOf, Target, BaseInv, signals, history, panelVars
<1>8. ASSUME NEW r \in Runs, PlannerDegrades(r) PROVE TargetsOK'
  BY <1>8, PanelAssumption
     DEF PlannerDegrades, LoopEnds, Goto, TargetsOK, PanelTypes, Driving, Drivers, RunOf, Target,
         BaseInv, signals, history, panelVars
<1>9. ASSUME NEW r \in Runs, Timeout(r) PROVE TargetsOK'
  BY <1>9, PanelAssumption
     DEF Timeout, Goto, TargetsOK, PanelTypes, Driving, Drivers, RunOf, Target, BaseInv, signals,
         history, panelVars
<1>10. ASSUME NEW r \in Runs, Cancel(r) PROVE TargetsOK'
  BY <1>10, PanelAssumption
     DEF Cancel, Goto, TargetsOK, PanelTypes, Driving, Drivers, RunOf, Target, BaseInv, signals,
         history, panelVars
<1>11. ASSUME NEW d \in Drivers, Poll(d) PROVE TargetsOK'
  BY <1>11, PanelAssumption
     DEF Poll, Ready, Leave, Goto, TargetsOK, PanelTypes, Driving, Drivers, RunOf, Target, BaseInv,
         signals, history, panelVars
<1>12. ASSUME NEW d \in Drivers, HostAnswers(d) PROVE TargetsOK'
  BY <1>12, PanelAssumption
     DEF HostAnswers, Ready, Leave, Goto, TargetsOK, PanelTypes, Driving, Drivers, RunOf, Target,
         BaseInv, signals, history, panelVars
<1>13. ASSUME NEW d \in Drivers, StreamStarts(d) PROVE TargetsOK'
  BY <1>13, PanelAssumption
     DEF StreamStarts, Goto, TargetsOK, PanelTypes, Driving, Drivers, RunOf, Target, BaseInv,
         signals, history, panelVars
<1>14. ASSUME NEW d \in Drivers, StreamRefused(d) PROVE TargetsOK'
  BY <1>14, PanelAssumption
     DEF StreamRefused, Leave, Goto, TargetsOK, PanelTypes, Driving, Drivers, RunOf, Target,
         BaseInv, signals, history, panelVars
<1>15. ASSUME NEW d \in Drivers, StreamEnds(d) PROVE TargetsOK'
  BY <1>15, PanelAssumption
     DEF StreamEnds, Leave, Goto, TargetsOK, PanelTypes, Driving, Drivers, RunOf, Target, BaseInv,
         signals, history, panelVars
<1>16. ASSUME NEW d \in Clicks, Click(d) PROVE TargetsOK'
  BY <1>16, PanelAssumption
     DEF Click, Goto, TargetsOK, PanelTypes, Driving, Drivers, RunOf, Target, BaseInv, signals,
         history, panelVars
<1>17. ASSUME NEW d \in Clicks, Decide(d) PROVE TargetsOK'
  BY <1>17, PanelAssumption
     DEF Decide, Leave, Goto, TargetsOK, PanelTypes, Driving, Drivers, RunOf, Target, BaseInv,
         signals, history, panelVars
<1>18. CASE LeaveThread
  BY <1>18, PanelAssumption
     DEF LeaveThread, Goto, TargetsOK, PanelTypes, Driving, Drivers, RunOf, Target, BaseInv,
         signals, history, panelVars
<1>19. CASE UNCHANGED vars
  BY <1>19, PanelAssumption DEF TargetsOK, PanelTypes, Driving, Drivers, RunOf, Target, BaseInv, vars
<1>. QED
  BY <1>1, <1>2, <1>3, <1>4, <1>5, <1>6, <1>7, <1>8, <1>9, <1>10,
     <1>11, <1>12, <1>13, <1>14, <1>15, <1>16, <1>17, <1>18, <1>19 DEF PanelNext, PlannerLoop, Driver

\* A call of the panel, once it is past the start, is about a run that is there, and the
\* approval it decides is stored.
CallsOK ==
    /\ \A d \in Drivers : pc[d] \in Driving \cup {"decide"} => Started(RunOf(d))
    /\ current # Nobody => Started(current)
    /\ \A a \in shown : Exists(a)
    /\ \A d \in Drivers : pc[d] = "decide" => Exists(target[d].approval)

LEMMA CallsSplit == BaseInv => CallsOK
  BY DEF BaseInv, StartedOK, ApprovalsOK, CallsOK

\* Pending approvals are stored ones.
LEMMA PendingExist ==
  ASSUME NEW r
  PROVE  \A a \in PendingNow(r) : Exists(a)'
  BY DEF PendingNow, Exists

LEMMA CallsStep ==
  ASSUME BaseInv, PanelTypes, RowsKept, TargetsOK', [PanelNext]_vars
  PROVE  CallsOK'
<1>1. ASSUME NEW r \in Runs, SendMessage(r) PROVE CallsOK'
  BY <1>1, PendingExist, CallsSplit, InHand
     DEF SendMessage, Goto, CallsOK, RowsKept, PanelTypes, Driving, Drivers, RunOf, Target,
         signals, history, panelVars
<1>2. ASSUME NEW r \in Runs, SendStarts(r) PROVE CallsOK'
  <2>1. Started(r)'
    BY <1>2, StartRunStep DEF SendStarts, BaseInv, RowStep
  <2>2. /\ pc' = [pc EXCEPT ![r] = "poll"] /\ current' = r /\ r \in Drivers /\ pc[r] = "sending"
        /\ UNCHANGED <<target, shown>>
    BY <1>2 DEF SendStarts, Goto, Drivers
  <2>3. RunOf(r) = r
    BY <2>2 DEF BaseInv, TargetsOK
  <2>4. \A d \in Drivers : pc'[d] \in Driving \cup {"decide"} => Started(RunOf(d))'
    <3>1. \A d \in Drivers \ {r} : pc'[d] = pc[d]
      BY <2>2 DEF PanelTypes
    <3>2. \A d \in Drivers : (pc[d] \in Driving \cup {"decide"} => Started(RunOf(d))') /\ RunOf(d)' = RunOf(d)
      BY <2>2, CallsSplit, InHand DEF CallsOK, RowsKept, RunOf
    <3>. QED  BY <2>1, <2>3, <3>1, <3>2 DEF Started, RunOf
  <2>5. \A a \in shown' : Exists(a)'
    BY <2>2, CallsSplit DEF CallsOK, RowsKept, PanelTypes
  <2>6. \A d \in Drivers : pc'[d] = "decide" => Exists(target[d].approval)'
    BY <2>2, CallsSplit, InHand DEF CallsOK, RowsKept, PanelTypes
  <2>. QED  BY <2>1, <2>2, <2>4, <2>5, <2>6 DEF CallsOK
<1>3. ASSUME NEW r \in Runs, SendFails(r) PROVE CallsOK'
  BY <1>3, PendingExist, CallsSplit, InHand
     DEF SendFails, Leave, Goto, CallsOK, RowsKept, PanelTypes, Driving, Drivers, RunOf, Target,
         signals, history, panelVars
<1>4. ASSUME NEW r \in Runs, PlannerStarts(r) PROVE CallsOK'
  BY <1>4, PendingExist, CallsSplit, InHand
     DEF PlannerStarts, NextStep, LoopEnds, Goto, CallsOK, RowsKept, PanelTypes, Driving, Drivers,
         RunOf, Target, signals, history, panelVars
<1>5. ASSUME NEW r \in Runs, FetchFails(r) PROVE CallsOK'
  BY <1>5, PendingExist, CallsSplit, InHand
     DEF FetchFails, LoopFails, Goto, CallsOK, RowsKept, PanelTypes, Driving, Drivers, RunOf,
         Target, signals, history, panelVars
<1>6. ASSUME NEW r \in Runs, ModelAnswers(r) PROVE CallsOK'
  BY <1>6, PendingExist, CallsSplit, InHand
     DEF ModelAnswers, NextStep, LoopFails, LoopEnds, Goto, CallsOK, RowsKept, PanelTypes, Driving,
         Drivers, RunOf, Target, signals, history, panelVars
<1>7. ASSUME NEW r \in Runs, PlannerAdvances(r) PROVE CallsOK'
  BY <1>7, PendingExist, CallsSplit, InHand
     DEF PlannerAdvances, NextStep, LoopFails, LoopEnds, Goto, CallsOK, RowsKept, PanelTypes,
         Driving, Drivers, RunOf, Target, signals, history, panelVars
<1>8. ASSUME NEW r \in Runs, PlannerDegrades(r) PROVE CallsOK'
  BY <1>8, PendingExist, CallsSplit, InHand
     DEF PlannerDegrades, LoopEnds, Goto, CallsOK, RowsKept, PanelTypes, Driving, Drivers, RunOf,
         Target, signals, history, panelVars
<1>9. ASSUME NEW r \in Runs, Timeout(r) PROVE CallsOK'
  BY <1>9, PendingExist, CallsSplit, InHand
     DEF Timeout, Goto, CallsOK, RowsKept, PanelTypes, Driving, Drivers, RunOf, Target, signals,
         history, panelVars
<1>10. ASSUME NEW r \in Runs, Cancel(r) PROVE CallsOK'
  BY <1>10, PendingExist, CallsSplit, InHand
     DEF Cancel, Goto, CallsOK, RowsKept, PanelTypes, Driving, Drivers, RunOf, Target, signals,
         history, panelVars
<1>11. ASSUME NEW d \in Drivers, Poll(d) PROVE CallsOK'
  BY <1>11, PendingExist, CallsSplit, InHand
     DEF Poll, Ready, Leave, Goto, CallsOK, RowsKept, PanelTypes, Driving, Drivers, RunOf, Target,
         signals, history, panelVars
<1>12. ASSUME NEW d \in Drivers, HostAnswers(d) PROVE CallsOK'
  BY <1>12, PendingExist, CallsSplit, InHand
     DEF HostAnswers, Ready, Leave, Goto, CallsOK, RowsKept, PanelTypes, Driving, Drivers, RunOf,
         Target, signals, history, panelVars
<1>13. ASSUME NEW d \in Drivers, StreamStarts(d) PROVE CallsOK'
  BY <1>13, PendingExist, CallsSplit, InHand
     DEF StreamStarts, Goto, CallsOK, RowsKept, PanelTypes, Driving, Drivers, RunOf, Target,
         signals, history, panelVars
<1>14. ASSUME NEW d \in Drivers, StreamRefused(d) PROVE CallsOK'
  BY <1>14, PendingExist, CallsSplit, InHand
     DEF StreamRefused, Leave, Goto, CallsOK, RowsKept, PanelTypes, Driving, Drivers, RunOf,
         Target, signals, history, panelVars
<1>15. ASSUME NEW d \in Drivers, StreamEnds(d) PROVE CallsOK'
  BY <1>15, PendingExist, CallsSplit, InHand
     DEF StreamEnds, Leave, Goto, CallsOK, RowsKept, PanelTypes, Driving, Drivers, RunOf, Target,
         signals, history, panelVars
<1>16. ASSUME NEW d \in Clicks, Click(d) PROVE CallsOK'
  BY <1>16, PendingExist, CallsSplit, InHand
     DEF Click, Goto, CallsOK, RowsKept, PanelTypes, Driving, Drivers, RunOf, Target, signals,
         history, panelVars
<1>17. ASSUME NEW d \in Clicks, Decide(d) PROVE CallsOK'
  BY <1>17, PendingExist, CallsSplit, InHand
     DEF Decide, Leave, Goto, CallsOK, RowsKept, PanelTypes, Driving, Drivers, RunOf, Target,
         signals, history, panelVars
<1>18. CASE LeaveThread
  BY <1>18, PendingExist, CallsSplit, InHand
     DEF LeaveThread, Goto, CallsOK, RowsKept, PanelTypes, Driving, Drivers, RunOf, Target,
         signals, history, panelVars
<1>19. CASE UNCHANGED vars
  BY <1>19, PendingExist, CallsSplit, InHand
     DEF CallsOK, RowsKept, PanelTypes, Driving, Drivers, RunOf, Target, vars
<1>. QED
  BY <1>1, <1>2, <1>3, <1>4, <1>5, <1>6, <1>7, <1>8, <1>9, <1>10,
     <1>11, <1>12, <1>13, <1>14, <1>15, <1>16, <1>17, <1>18, <1>19 DEF PanelNext, PlannerLoop, Driver

AwaitedOK == \A r \in Runs : planner[r] # "idle" => \E d \in Drivers : pc[d] = "planner" /\ RunOf(d) = r
SessionOK(q) ==
    session[q] # NoSession =>
        \/ session[q].step = "model" /\ session[q].round = {} /\ planner[q] \in {"fetch", "degrade"}
        \/ session[q].step = "tools" /\ planner[q] = "advance"

LEMMA LoopSplit == LoopOK <=> AwaitedOK /\ \A r \in Runs : SessionOK(r)
  BY DEF LoopOK, AwaitedOK, SessionOK

\* The loop of one run moves on; a call that awaits another's loop is not touched.
LEMMA LoopAwaited ==
  ASSUME BaseInv, PanelTypes, NEW r \in Runs, target' = target, planner[r] # "idle",
         \/ /\ UNCHANGED pc
            /\ \E s : planner' = [planner EXCEPT ![r] = s]
         \/ LoopEnds(r)
  PROVE  AwaitedOK'
<1>1. AwaitedOK
  BY LoopSplit DEF BaseInv
<1>2. CASE UNCHANGED pc /\ \E s : planner' = [planner EXCEPT ![r] = s]
  BY <1>1, <1>2 DEF AwaitedOK, PanelTypes, RunOf
<1>3. CASE LoopEnds(r)
  <2>. SUFFICES ASSUME NEW q \in Runs, planner'[q] # "idle"
                PROVE  \E d \in Drivers : pc'[d] = "planner" /\ RunOf(d)' = q
    BY DEF AwaitedOK
  <2>1. q # r /\ planner[q] # "idle"
    BY <1>3 DEF LoopEnds, PanelTypes
  <2>2. PICK d \in Drivers : pc[d] = "planner" /\ RunOf(d) = q
    BY <1>1, <2>1 DEF AwaitedOK
  <2>3. pc'[d] = "planner" /\ RunOf(d)' = q
    BY <1>3, <2>1, <2>2 DEF LoopEnds, RunOf
  <2>. QED  BY <2>3
<1>. QED  BY <1>2, <1>3

LEMMA AwaitedStep ==
  ASSUME BaseInv, PanelTypes, [PanelNext]_vars
  PROVE  AwaitedOK'
<1>1. ASSUME NEW r \in Runs, SendMessage(r) PROVE AwaitedOK'
  BY <1>1, LoopSplit
     DEF SendMessage, Goto, AwaitedOK, PanelTypes, Driving, Drivers, RunOf, BaseInv, signals,
         history, panelVars
<1>2. ASSUME NEW r \in Runs, SendStarts(r) PROVE AwaitedOK'
  BY <1>2, LoopSplit
     DEF SendStarts, Goto, AwaitedOK, PanelTypes, Driving, Drivers, RunOf, BaseInv, signals,
         history, panelVars
<1>3. ASSUME NEW r \in Runs, SendFails(r) PROVE AwaitedOK'
  BY <1>3, LoopSplit
     DEF SendFails, Leave, Goto, AwaitedOK, PanelTypes, Driving, Drivers, RunOf, BaseInv, signals,
         history, panelVars
<1>4. ASSUME NEW r \in Runs, PlannerStarts(r) PROVE AwaitedOK'
  BY <1>4, LoopAwaited DEF PlannerStarts, NextStep
<1>5. ASSUME NEW r \in Runs, FetchFails(r) PROVE AwaitedOK'
  BY <1>5, LoopAwaited DEF FetchFails, LoopFails
<1>6. ASSUME NEW r \in Runs, ModelAnswers(r) PROVE AwaitedOK'
  BY <1>6, LoopAwaited DEF ModelAnswers, NextStep, LoopFails
<1>7. ASSUME NEW r \in Runs, PlannerAdvances(r) PROVE AwaitedOK'
  BY <1>7, LoopAwaited DEF PlannerAdvances, NextStep, LoopFails
<1>8. ASSUME NEW r \in Runs, PlannerDegrades(r) PROVE AwaitedOK'
  BY <1>8, LoopAwaited DEF PlannerDegrades
<1>9. ASSUME NEW r \in Runs, Timeout(r) PROVE AwaitedOK'
  BY <1>9, LoopSplit
     DEF Timeout, Goto, AwaitedOK, PanelTypes, Driving, Drivers, RunOf, BaseInv, signals, history,
         panelVars
<1>10. ASSUME NEW r \in Runs, Cancel(r) PROVE AwaitedOK'
  BY <1>10, LoopSplit
     DEF Cancel, Goto, AwaitedOK, PanelTypes, Driving, Drivers, RunOf, BaseInv, signals, history,
         panelVars
<1>11. ASSUME NEW d \in Drivers, Poll(d) PROVE AwaitedOK'
  <2>. DEFINE q == RunOf(d)
  <2>1. /\ pc[d] = "poll" /\ q \in Runs /\ AwaitedOK
    BY <1>11, InHand, LoopSplit DEF Poll, Driving, BaseInv
  <2>2. \A e \in Drivers \ {d} : pc'[e] = pc[e] /\ RunOf(e)' = RunOf(e)
    BY <1>11 DEF Poll, Ready, Leave, Goto, PanelTypes, RunOf
  <2>3. \/ planner' = planner
        \/ /\ \E x : planner' = [planner EXCEPT ![q] = x]
           /\ Goto(d, "planner") /\ target' = target
    BY <1>11 DEF Poll
  <2>4. ASSUME NEW x, planner' = [planner EXCEPT ![q] = x], NEW p \in Runs, p # q
        PROVE  planner'[p] = planner[p]
    BY <2>1, <2>4 DEF PanelTypes
  <2>5. ASSUME Goto(d, "planner"), target' = target
        PROVE  pc'[d] = "planner" /\ RunOf(d)' = q
    BY <2>5 DEF Goto, PanelTypes, RunOf
  <2>. QED  BY <2>1, <2>2, <2>3, <2>4, <2>5 DEF AwaitedOK
<1>12. ASSUME NEW d \in Drivers, HostAnswers(d) PROVE AwaitedOK'
  <2>1. pc[d] = "host" /\ AwaitedOK /\ planner' = planner
    BY <1>12, LoopSplit DEF HostAnswers, BaseInv
  <2>2. \A e \in Drivers \ {d} : pc'[e] = pc[e] /\ RunOf(e)' = RunOf(e)
    BY <1>12 DEF HostAnswers, Ready, Leave, Goto, PanelTypes, RunOf
  <2>. QED  BY <2>1, <2>2 DEF AwaitedOK
<1>13. ASSUME NEW d \in Drivers, StreamStarts(d) PROVE AwaitedOK'
  BY <1>13, LoopSplit
     DEF StreamStarts, Goto, AwaitedOK, PanelTypes, Driving, Drivers, RunOf, BaseInv, signals,
         history, panelVars
<1>14. ASSUME NEW d \in Drivers, StreamRefused(d) PROVE AwaitedOK'
  BY <1>14, LoopSplit
     DEF StreamRefused, Leave, Goto, AwaitedOK, PanelTypes, Driving, Drivers, RunOf, BaseInv,
         signals, history, panelVars
<1>15. ASSUME NEW d \in Drivers, StreamEnds(d) PROVE AwaitedOK'
  BY <1>15, LoopSplit
     DEF StreamEnds, Leave, Goto, AwaitedOK, PanelTypes, Driving, Drivers, RunOf, BaseInv, signals,
         history, panelVars
<1>16. ASSUME NEW d \in Clicks, Click(d) PROVE AwaitedOK'
  BY <1>16, LoopSplit
     DEF Click, Goto, AwaitedOK, PanelTypes, Driving, Drivers, RunOf, BaseInv, signals, history,
         panelVars
<1>17. ASSUME NEW d \in Clicks, Decide(d) PROVE AwaitedOK'
  <2>1. pc[d] = "decide" /\ AwaitedOK /\ planner' = planner
    BY <1>17, LoopSplit DEF Decide, BaseInv
  <2>2. \A e \in Drivers \ {d} : pc'[e] = pc[e] /\ RunOf(e)' = RunOf(e)
    BY <1>17 DEF Decide, Leave, Goto, PanelTypes, RunOf
  <2>. QED  BY <2>1, <2>2 DEF AwaitedOK
<1>18. CASE LeaveThread
  BY <1>18, LoopSplit
     DEF LeaveThread, Goto, AwaitedOK, PanelTypes, Driving, Drivers, RunOf, BaseInv, signals,
         history, panelVars
<1>19. CASE UNCHANGED vars
  BY <1>19, LoopSplit DEF AwaitedOK, PanelTypes, Driving, Drivers, RunOf, BaseInv, vars
<1>. QED
  BY <1>1, <1>2, <1>3, <1>4, <1>5, <1>6, <1>7, <1>8, <1>9, <1>10,
     <1>11, <1>12, <1>13, <1>14, <1>15, <1>16, <1>17, <1>18, <1>19 DEF PanelNext, PlannerLoop, Driver

\* A command that hands out no session.
LEMMA SessionDropped ==
  ASSUME BaseInv, \A q \in Runs : session'[q] \in {session[q], NoSession} /\ planner'[q] = planner[q]
  PROVE  \A q \in Runs : SessionOK(q)'
  BY LoopSplit DEF BaseInv, SessionOK

LEMMA SessionOfOther ==
  ASSUME BaseInv, NEW r \in Runs, RowStep(r), \A q \in Runs \ {r} : planner'[q] = planner[q],
         SessionOK(r)'
  PROVE  \A q \in Runs : SessionOK(q)'
  BY LoopSplit DEF BaseInv, SessionOK, RowStep, SameRow

LEMMA PlannerMoves ==
  ASSUME PanelTypes, NEW r \in Runs
  PROVE  /\ LoopEnds(r) => \A q \in Runs \ {r} : planner'[q] = planner[q]
         /\ LoopFails(r) => /\ planner'[r] = "degrade"
                            /\ \A q \in Runs \ {r} : planner'[q] = planner[q]
         /\ \A returned : NextStep(r, returned) =>
               /\ \A q \in Runs \ {r} : planner'[q] = planner[q]
               /\ returned /\ session'[r] # NoSession =>
                     planner'[r] = IF session'[r].step = "model" THEN "fetch" ELSE "advance"
  BY DEF LoopEnds, LoopFails, NextStep, PanelTypes

LEMMA SessionsStep ==
  ASSUME BaseInv, PanelTypes, [PanelNext]_vars
  PROVE  \A q \in Runs : SessionOK(q)'
<1>1. ASSUME NEW r \in Runs, SendMessage(r) PROVE \A q \in Runs : SessionOK(q)'
  BY <1>1, SessionDropped, RowTypes, InHand
     DEF SendMessage, BaseInv, Driving, Drivers, DropSession, history, panelVars, chatVars
<1>2. ASSUME NEW r \in Runs, SendStarts(r) PROVE \A q \in Runs : SessionOK(q)'
  BY <1>2, SessionDropped, RowTypes, InHand
     DEF SendStarts, BaseInv, Driving, Drivers, DropSession, history, panelVars, chatVars, StartRun
<1>3. ASSUME NEW r \in Runs, SendFails(r) PROVE \A q \in Runs : SessionOK(q)'
  BY <1>3, SessionDropped, RowTypes, InHand
     DEF SendFails, BaseInv, Driving, Drivers, DropSession, history, panelVars, chatVars
<1>4. ASSUME NEW r \in Runs, PlannerStarts(r) PROVE \A q \in Runs : SessionOK(q)'
  <2>1. session[r] = NoSession /\ planner[r] = "get"
    BY <1>4, LoopSplit DEF BaseInv, SessionOK, PlannerStarts
  <2>2. RowStep(r)
    BY <1>4, GetStepStep DEF PlannerStarts, BaseInv
  <2>3. \/ session'[r] = NoSession
        \/ /\ run[r].status = "planning"
           /\ session'[r].step = "model" /\ session'[r].round = {}
    BY <1>4, <2>1, RowTypes DEF PlannerStarts, GetStep, DropSession, BaseInv
  <2>. QED  BY <1>4, <2>2, <2>3, PlannerMoves, SessionOfOther DEF PlannerStarts, SessionOK
<1>5. ASSUME NEW r \in Runs, FetchFails(r) PROVE \A q \in Runs : SessionOK(q)'
  <2>1. /\ planner[r] \in {"get", "fetch"} /\ session' = session /\ planner'[r] = "degrade"
        /\ \A q \in Runs \ {r} : planner'[q] = planner[q]
    BY <1>5, PlannerMoves DEF FetchFails, chatVars
  <2>. QED  BY <2>1, LoopSplit DEF BaseInv, SessionOK
<1>6. ASSUME NEW r \in Runs, ModelAnswers(r) PROVE \A q \in Runs : SessionOK(q)'
  <2>1. planner[r] = "fetch" /\ SubmitModelResponse(r) /\ SessionOK(r) /\ RowStep(r)
    BY <1>6, LoopSplit, SubmitModelResponseStep DEF BaseInv, ModelAnswers
  <2>2. CASE session[r] = NoSession
    <3>1. session' = session /\ LoopFails(r)
      BY <1>6, <2>1, <2>2 DEF ModelAnswers, SubmitModelResponse, chatVars
    <3>. QED  BY <2>1, <2>2, <3>1, PlannerMoves, SessionOfOther DEF SessionOK
  <2>3. CASE session[r] # NoSession
    <3>1. session[r].step = "model" /\ NextStep(r, TRUE)
      BY <1>6, <2>1, <2>3 DEF ModelAnswers, SessionOK
    <3>2. \/ session'[r] = NoSession
          \/ session'[r].step = "model" /\ session'[r].round = {}
          \/ session'[r].step = "tools"
      BY <2>1, <2>3, <3>1, RowTypes
         DEF SubmitModelResponse, GiveUp, DropSession, ModelCalls, Request, BaseInv
    <3>. QED  BY <2>1, <3>1, <3>2, PlannerMoves, SessionOfOther DEF SessionOK
  <2>. QED  BY <2>2, <2>3
<1>7. ASSUME NEW r \in Runs, PlannerAdvances(r) PROVE \A q \in Runs : SessionOK(q)'
  <2>1. planner[r] = "advance" /\ SessionOK(r) /\ RowStep(r)
    BY <1>7, LoopSplit, AdvanceStep, AdvanceFailsStep DEF BaseInv, PlannerAdvances
  <2>2. CASE AdvanceFails(r) /\ LoopFails(r)
    <3>1. session'[r] = NoSession
      BY <2>2, RowTypes DEF AdvanceFails, ToolStoreError, DropSession, BaseInv
    <3>. QED  BY <2>1, <2>2, <3>1, PlannerMoves, SessionOfOther DEF SessionOK
  <2>3. CASE Advance(r) /\ session[r] = NoSession
    <3>1. LoopFails(r) /\ (session' = session \/ session'[r] = NoSession)
      BY <1>7, <2>2, <2>3 DEF PlannerAdvances, Advance, AdvanceReady
    <3>. QED  BY <2>1, <2>3, <3>1, PlannerMoves, SessionOfOther DEF SessionOK
  <2>4. CASE Advance(r) /\ session[r] # NoSession
    <3>1. AdvanceReady(r) /\ (LoopFails(r) \/ NextStep(r, TRUE))
      BY <1>7, <2>1, <2>4 DEF PlannerAdvances, AdvanceReady, SessionOK
    <3>2. CASE NextStep(r, TRUE)
      <4>1. session'[r] = NoSession \/ (session'[r].step = "model" /\ session'[r].round = {})
        <5>1. GiveUp(r, session[r].tr) \/ \E stalled \in BOOLEAN : ToolsRan(r, stalled)
          BY <2>4, <3>1 DEF Advance
        <5>2. \/ DropSession(r)
              \/ \E tr : session' = [session EXCEPT ![r] = [step |-> "model", round |-> {}, tr |-> tr]]
          BY <5>1 DEF ToolsRan, GiveUp, Request
        <5>3. ASSUME DropSession(r) PROVE session'[r] = NoSession
          BY <5>3, RowTypes DEF DropSession, BaseInv
        <5>4. ASSUME NEW tr, session' = [session EXCEPT ![r] = [step |-> "model", round |-> {}, tr |-> tr]]
              PROVE  session'[r].step = "model" /\ session'[r].round = {}
          BY <5>4, RowTypes DEF BaseInv
        <5>. QED  BY <5>2, <5>3, <5>4
      <4>. QED  BY <2>1, <3>2, <4>1, PlannerMoves, SessionOfOther DEF SessionOK
    <3>3. CASE AdvanceFails(r) /\ LoopFails(r)
      BY <2>2, <3>3
    <3>. QED  BY <1>7, <2>4, <3>2, <3>3 DEF PlannerAdvances
  <2>. QED  BY <1>7, <2>2, <2>3, <2>4 DEF PlannerAdvances
<1>8. ASSUME NEW r \in Runs, PlannerDegrades(r) PROVE \A q \in Runs : SessionOK(q)'
  <2>1. session'[r] = NoSession
    BY <1>8, RowTypes DEF PlannerDegrades, DegradeRun, DropSession, BaseInv
  <2>2. RowStep(r)
    BY <1>8, DegradeRunStep DEF PlannerDegrades, BaseInv
  <2>. QED  BY <1>8, <2>1, <2>2, PlannerMoves, SessionOfOther DEF PlannerDegrades, SessionOK
<1>9. ASSUME NEW r \in Runs, Timeout(r) PROVE \A q \in Runs : SessionOK(q)'
  BY <1>9, SessionDropped, RowTypes, InHand
     DEF Timeout, BaseInv, Driving, Drivers, DropSession, history, panelVars, chatVars,
         DeadlinePasses
<1>10. ASSUME NEW r \in Runs, Cancel(r) PROVE \A q \in Runs : SessionOK(q)'
  BY <1>10, SessionDropped, RowTypes, InHand
     DEF Cancel, BaseInv, Driving, Drivers, DropSession, history, panelVars, chatVars, CancelRun
<1>11. ASSUME NEW d \in Drivers, Poll(d) PROVE \A q \in Runs : SessionOK(q)'
  <2>1. RunOf(d) \in Runs /\ session' = session
    BY <1>11, InHand DEF Poll, Driving, chatVars
  <2>2. \A q \in Runs : planner'[q] = planner[q] \/ (planner[q] = "idle" /\ planner'[q] = "get")
    BY <1>11, <2>1 DEF Poll, PanelTypes
  <2>. QED  BY <2>1, <2>2, LoopSplit DEF BaseInv, SessionOK
<1>12. ASSUME NEW d \in Drivers, HostAnswers(d) PROVE \A q \in Runs : SessionOK(q)'
  <2>1. PICK props : SubmitToolResults(RunOf(d), held[d], props)
    BY <1>12 DEF HostAnswers
  <2>2. DropSession(RunOf(d)) /\ planner' = planner
    BY <1>12, <2>1 DEF HostAnswers, SubmitToolResults
  <2>. QED  BY <2>2, SessionDropped, RowTypes DEF DropSession, BaseInv
<1>13. ASSUME NEW d \in Drivers, StreamStarts(d) PROVE \A q \in Runs : SessionOK(q)'
  BY <1>13, SessionDropped, RowTypes, InHand
     DEF StreamStarts, BaseInv, Driving, Drivers, DropSession, history, panelVars, chatVars,
         MarkStreaming
<1>14. ASSUME NEW d \in Drivers, StreamRefused(d) PROVE \A q \in Runs : SessionOK(q)'
  BY <1>14, SessionDropped, RowTypes, InHand
     DEF StreamRefused, BaseInv, Driving, Drivers, DropSession, history, panelVars, chatVars
<1>15. ASSUME NEW d \in Drivers, StreamEnds(d) PROVE \A q \in Runs : SessionOK(q)'
  BY <1>15, SessionDropped, RowTypes, InHand
     DEF StreamEnds, BaseInv, Driving, Drivers, DropSession, history, panelVars, chatVars,
         CompleteRun
<1>16. ASSUME NEW d \in Clicks, Click(d) PROVE \A q \in Runs : SessionOK(q)'
  BY <1>16, SessionDropped, RowTypes, InHand
     DEF Click, BaseInv, Driving, Drivers, DropSession, history, panelVars, chatVars
<1>17. ASSUME NEW d \in Clicks, Decide(d) PROVE \A q \in Runs : SessionOK(q)'
  <2>1. DropSession(RunOf(d)) /\ planner' = planner
    BY <1>17 DEF Decide, SubmitApproval
  <2>. QED  BY <2>1, SessionDropped, RowTypes DEF DropSession, BaseInv
<1>18. CASE LeaveThread
  BY <1>18, SessionDropped, RowTypes, InHand
     DEF LeaveThread, BaseInv, Driving, Drivers, DropSession, history, panelVars, chatVars
<1>19. CASE UNCHANGED vars
  BY <1>19, SessionDropped DEF vars
<1>. QED
  BY <1>1, <1>2, <1>3, <1>4, <1>5, <1>6, <1>7, <1>8, <1>9, <1>10,
     <1>11, <1>12, <1>13, <1>14, <1>15, <1>16, <1>17, <1>18, <1>19 DEF PanelNext, PlannerLoop, Driver

LEMMA BaseStep ==
  ASSUME BaseInv, [PanelNext]_vars
  PROVE  BaseInv'
<1>1. PanelTypes /\ CallsOK
  BY TypesSplit, CallsSplit DEF BaseInv
<1>2. RowsKept /\ PanelTypes' /\ TargetsOK' /\ AwaitedOK' /\ \A q \in Runs : SessionOK(q)'
  BY <1>1, RowsStep, TypesStep, TargetsStep, AwaitedStep, SessionsStep
<1>3. CallsOK'
  BY <1>1, <1>2, CallsStep
<1>4. PanelTypeOK'
  BY <1>2 DEF PanelTypes, PanelTypeOK, RowsKept, IInv
<1>5. StartedOK' /\ ApprovalsOK'
  BY <1>2, <1>3 DEF RowsKept, CallsOK, StartedOK, ApprovalsOK, Asking
<1>6. LoopOK'
  BY <1>2 DEF LoopOK, AwaitedOK, SessionOK
<1>. QED  BY <1>2, <1>4, <1>5, <1>6 DEF BaseInv, RowsKept

-----------------------------------------------------------------------------
(* A disciplined run: none of its approvals was decided twice. *)

\* Nothing will be asked of the planner for this run any more.
Settled(r) == /\ session[r] = NoSession /\ ~Asking(r)
              /\ planner[r] \in {"advance", "degrade"} \/ run[r].status \in Ended

\* No planner is at work on the run: it is settled, or waits for the host's results.
Quiet(r) == \/ Settled(r)
            \/ /\ session[r] = NoSession /\ ~Asking(r)
               /\ planner[r] = "idle" /\ run[r].status = "awaiting_tool_host"

InRound(r, c) == session[r] # NoSession /\ session[r].step = "tools" /\ c \in session[r].round

\* One call drives the run, and none while an approval is pending or when it is over.
DrivenOnce(r) ==
    /\ \A d, e \in DriversOf(r) : d = e
    /\ Asking(r) => DriversOf(r) = {}
    /\ run[r].status \in {"completed", "failed"} => DriversOf(r) = {} /\ ~Asking(r)

\* A call that executes host calls executes all there are, and nothing else goes on.
HostOK(r) ==
    /\ \A d \in AtHost(r) : held[d] = pendingHost[r]
    /\ pendingHost[r] # {} => Quiet(r)

\* A tool call that is not answered is with the host, with the user or with the planner,
\* unless the planner will not be asked again.
AskedOK(r) ==
    \A c \in Calls : run[r].tr.answer[c] = "asked" =>
        \/ c \in pendingHost[r]
        \/ PendingOf(approvals[r], c) # {}
        \/ InRound(r, c)
        \/ Settled(r) /\ AtHost(r) = {}

\* What is with one of them is not answered yet, and is with no other.
OnceOK(r) ==
    \A c \in Calls :
        /\ run[r].tr.answer[c] # "twice"
        /\ c \in pendingHost[r] \/ InRound(r, c) => run[r].tr.answer[c] = "asked"
        /\ PendingOf(approvals[r], c) # {} => run[r].tr.answer[c] = "asked" /\ c \notin pendingHost[r]
        /\ \A j, k \in PendingOf(approvals[r], c) : j = k

Disciplined(r) == DrivenOnce(r) /\ HostOK(r) /\ AskedOK(r) /\ OnceOK(r)

AllDisciplined == \A r \in Runs : r \notin redecided => Disciplined(r)

PanelInv == BaseInv /\ AllDisciplined

-----------------------------------------------------------------------------
(* Steps about another run. *)

\* The step leaves the run's rows and its planner alone, and no call comes to drive it.
Framed(q) ==
    /\ run'[q].status = run[q].status /\ run'[q].tr = run[q].tr
    /\ pendingHost'[q] = pendingHost[q] /\ approvals'[q] = approvals[q]
    /\ session'[q] = session[q] /\ planner'[q] = planner[q]
    /\ DriversOf(q)' \subseteq DriversOf(q)
    /\ \A d \in AtHost(q)' : d \in AtHost(q) /\ held'[d] = held[d]

LEMMA FrameKeeps ==
  ASSUME NEW q \in Runs, Disciplined(q), Framed(q)
  PROVE  Disciplined(q)'
<1>1. Asking(q)' = Asking(q)
  BY DEF Framed, Asking, AnyPending, PendingOf
<1>2. DrivenOnce(q)'
  BY <1>1 DEF Framed, Disciplined, DrivenOnce
<1>3. Settled(q)' = Settled(q) /\ Quiet(q)' = Quiet(q)
  BY <1>1 DEF Framed, Settled, Quiet
<1>4. HostOK(q)'
  BY <1>3 DEF Framed, Disciplined, HostOK
<1>5. \A c \in Calls : /\ InRound(q, c)' = InRound(q, c)
                       /\ PendingOf(approvals'[q], c) = PendingOf(approvals[q], c)
  BY DEF Framed, InRound
<1>6. AtHost(q)' \subseteq AtHost(q)
  BY DEF Framed
<1>7. AskedOK(q)'
  BY <1>3, <1>5, <1>6 DEF Framed, Disciplined, AskedOK
<1>8. OnceOK(q)'
  BY <1>5 DEF Framed, Disciplined, OnceOK
<1>. QED  BY <1>2, <1>4, <1>7, <1>8 DEF Disciplined

\* A call that does not move, or does not drive the run after the step, or is the one
\* that the step is about.
MovesFor(r) ==
    \A e \in Drivers : \/ pc'[e] = pc[e] /\ target'[e] = target[e] /\ held'[e] = held[e]
                       \/ pc'[e] \notin Driving
                       \/ RunOf(e)' = r

LEMMA OthersFramed ==
  ASSUME NEW r \in Runs, RowStep(r), MovesFor(r), \A q \in Runs \ {r} : planner'[q] = planner[q]
  PROVE  \A q \in Runs \ {r} : Framed(q)
<1>. SUFFICES ASSUME NEW q \in Runs \ {r} PROVE Framed(q)
  OBVIOUS
<1>1. SameRow(q) /\ planner'[q] = planner[q]
  BY DEF RowStep
<1>2. DriversOf(q)' \subseteq DriversOf(q)
  BY DEF MovesFor, DriversOf, RunOf
<1>3. \A d \in AtHost(q)' : d \in AtHost(q) /\ held'[d] = held[d]
  BY DEF MovesFor, AtHost, RunOf, Driving
<1>. QED  BY <1>1, <1>2, <1>3 DEF SameRow, Framed

LEMMA SameRowsFramed ==
  ASSUME IInv, UNCHANGED <<chatVars, planner>>,
         \A e \in Drivers : \/ pc'[e] = pc[e] /\ target'[e] = target[e] /\ held'[e] = held[e]
                            \/ pc'[e] \notin Driving
  PROVE  \A q \in Runs : Framed(q)
<1>. SUFFICES ASSUME NEW q \in Runs PROVE Framed(q)
  OBVIOUS
<1>1. DriversOf(q)' \subseteq DriversOf(q)
  BY DEF DriversOf, RunOf
<1>2. \A d \in AtHost(q)' : d \in AtHost(q) /\ held'[d] = held[d]
  BY DEF AtHost, RunOf, Driving
<1>. QED  BY <1>1, <1>2 DEF Framed, chatVars

\* What each step has to show.
LEMMA StepDisciplined ==
  ASSUME PanelInv, NEW r \in Runs, redecided \subseteq redecided',
         \A q \in Runs \ {r} : Framed(q),
         r \notin redecided' => Disciplined(r)'
  PROVE  AllDisciplined'
  BY FrameKeeps DEF PanelInv, AllDisciplined

LEMMA AllFramed ==
  ASSUME PanelInv, redecided \subseteq redecided', \A q \in Runs : Framed(q)
  PROVE  AllDisciplined'
  BY FrameKeeps DEF PanelInv, AllDisciplined

-----------------------------------------------------------------------------
(* The transcript operators, per call. *)

LEMMA AnswersOf ==
  ASSUME NEW tr \in Transcript, NEW c \in Calls
  PROVE  /\ \A C : AllAnswered(tr, C).answer[c] =
                IF c \notin C THEN tr.answer[c] ELSE IF tr.answer[c] = "asked" THEN "once" ELSE "twice"
         /\ \A T : Asked(tr, T).answer[c] = IF c \in T THEN "asked" ELSE tr.answer[c]
         /\ \A b \in Calls : Answered(tr, b).answer[c] =
                IF c # b THEN tr.answer[c] ELSE IF tr.answer[c] = "asked" THEN "once" ELSE "twice"
         /\ [tr EXCEPT !.final = TRUE].answer[c] = tr.answer[c]
  BY DEF AllAnswered, Answered, Asked, Transcript

-----------------------------------------------------------------------------
(* Steps that leave every row alone. *)

LEMMA PanelFacts ==
  ASSUME PanelInv
  PROVE  /\ IInv /\ PanelTypes /\ BaseInv /\ ApprovalsOK /\ TargetsOK /\ AwaitedOK
         /\ \A q \in Runs : SessionOK(q)
  BY TypesSplit, LoopSplit DEF PanelInv, BaseInv

LEMMA SendMessageDisciplined ==
  ASSUME PanelInv, NEW r \in Runs, SendMessage(r)
  PROVE  AllDisciplined'
<1>1. \A e \in Drivers : \/ pc'[e] = pc[e] /\ target'[e] = target[e] /\ held'[e] = held[e]
                         \/ pc'[e] \notin Driving
  BY PanelFacts DEF SendMessage, Goto, PanelTypes, Driving
<1>. QED  BY <1>1, PanelFacts, SameRowsFramed, AllFramed DEF SendMessage, history

\* A call that returns without having touched a row.
LEMMA LeaveDisciplined ==
  ASSUME PanelInv, NEW d \in Drivers, Leave(d), UNCHANGED <<chatVars, planner, held, redecided>>
  PROVE  AllDisciplined'
<1>1. \A e \in Drivers : \/ pc'[e] = pc[e] /\ target'[e] = target[e] /\ held'[e] = held[e]
                         \/ pc'[e] \notin Driving
  BY PanelFacts DEF Leave, Goto, PanelTypes, Driving
<1>. QED  BY <1>1, PanelFacts, SameRowsFramed, AllFramed

LEMMA ClickDisciplined ==
  ASSUME PanelInv, NEW d \in Clicks, Click(d)
  PROVE  AllDisciplined'
<1>1. \A e \in Drivers : \/ pc'[e] = pc[e] /\ target'[e] = target[e] /\ held'[e] = held[e]
                         \/ pc'[e] \notin Driving
  BY PanelFacts DEF Click, Goto, PanelTypes, Driving
<1>. QED  BY <1>1, PanelFacts, SameRowsFramed, AllFramed DEF Click

LEMMA LeaveThreadDisciplined ==
  ASSUME PanelInv, LeaveThread
  PROVE  AllDisciplined'
  BY PanelFacts, SameRowsFramed, AllFramed DEF LeaveThread

LEMMA StutterDisciplined ==
  ASSUME PanelInv, UNCHANGED vars
  PROVE  AllDisciplined'
  BY PanelFacts, SameRowsFramed, AllFramed DEF vars, chatVars

LEMMA TimeoutDisciplined ==
  ASSUME PanelInv, NEW r \in Runs, Timeout(r)
  PROVE  AllDisciplined'
<1>1. \A q \in Runs : run'[q].status = run[q].status /\ run'[q].tr = run[q].tr
  BY PanelFacts, RowTypes DEF Timeout, DeadlinePasses
<1>2. \A q \in Runs : Framed(q)
  BY <1>1 DEF Timeout, DeadlinePasses, panelVars, Framed, DriversOf, AtHost, RunOf
<1>. QED  BY <1>2, AllFramed DEF Timeout, panelVars

-----------------------------------------------------------------------------
(* The start of a run, its answer and its cancellation. *)

LEMMA SendStartsDisciplined ==
  ASSUME PanelInv, NEW r \in Runs, SendStarts(r)
  PROVE  AllDisciplined'
<1>1. /\ RowStep(r) /\ ~Started(r) /\ PanelTypes /\ r \in Drivers
      /\ pc' = [pc EXCEPT ![r] = "poll"] /\ UNCHANGED <<target, held, planner, redecided>>
      /\ UNCHANGED <<pendingHost, approvals, session>>
  BY PanelFacts, StartRunStep DEF SendStarts, StartRun, Goto, history, Drivers
<1>2. RunOf(r) = r
  BY PanelFacts DEF SendStarts, TargetsOK
<1>3. MovesFor(r)
  BY <1>1, <1>2 DEF MovesFor, PanelTypes, RunOf
<1>4. DriversOf(r)' \subseteq {r} /\ AtHost(r)' = {}
  <2>1. \A d \in Drivers : pc[d] \in Driving => RunOf(d) # r
    BY <1>1 DEF PanelInv, BaseInv, StartedOK
  <2>. QED  BY <1>1, <2>1 DEF PanelTypes, DriversOf, AtHost, RunOf, Driving
<1>5. /\ pendingHost'[r] = {} /\ session'[r] = NoSession
      /\ \A c \in Calls : approvals'[r][c] = <<>> /\ run'[r].tr.answer[c] = "none"
  <2>1. run'[r].tr = run[r].tr
    BY PanelFacts, RowTypes DEF SendStarts, StartRun, SetStatus, RunType
  <2>. QED  BY <1>1, <2>1 DEF PanelInv, BaseInv, StartedOK
<1>6. \A c \in Calls : PendingOf(approvals'[r], c) = {}
  BY <1>5 DEF PendingOf
<1>7. run'[r].status \notin {"completed", "failed"}
  BY PanelFacts, RowTypes DEF SendStarts, StartRun, SetStatus, RunType
<1>8. Disciplined(r)'
  BY <1>4, <1>5, <1>6, <1>7
     DEF Disciplined, DrivenOnce, HostOK, AskedOK, OnceOK, Asking, AnyPending, InRound
<1>. QED  BY <1>1, <1>3, <1>8, OthersFramed, StepDisciplined

\* While a session is in memory nothing of the run is with the host or the user.
LEMMA SessionAlone ==
  ASSUME PanelInv, NEW r \in Runs \ redecided, planner[r] # "idle"
  PROVE  /\ ~Asking(r) /\ AtHost(r) = {} /\ DriversOf(r) # {}
         /\ \A c \in Calls : PendingOf(approvals[r], c) = {}
         /\ run[r].status \notin {"completed", "failed"}
<1>1. PICK d \in Drivers : pc[d] = "planner" /\ RunOf(d) = r
  BY PanelFacts DEF AwaitedOK
<1>2. d \in DriversOf(r)
  BY <1>1 DEF DriversOf, Driving
<1>3. DrivenOnce(r)
  BY DEF PanelInv, AllDisciplined, Disciplined
<1>4. AtHost(r) \subseteq DriversOf(r)
  BY DEF AtHost, DriversOf, Driving
<1>5. AtHost(r) = {}
  BY <1>1, <1>2, <1>3, <1>4 DEF DrivenOnce, AtHost
<1>. QED  BY <1>2, <1>3, <1>5 DEF DrivenOnce, Asking, AnyPending

\* A command that only ends the planner's work: the status says so, the session is dropped.
LEMMA EndedDisciplined ==
  ASSUME PanelInv, NEW r \in Runs \ redecided, NEW s \in Ended,
         SetStatus(r, s), DropSession(r) \/ UNCHANGED session,
         UNCHANGED <<pendingHost, approvals>>, planner'[r] = planner[r],
         DrivenOnce(r)', AtHost(r)' \subseteq AtHost(r), \A d \in AtHost(r) : held'[d] = held[d]
  PROVE  Disciplined(r)'
<1>1. /\ run'[r].status = s /\ run'[r].tr = run[r].tr
      /\ session'[r] \in {session[r], NoSession}
      /\ DropSession(r) => session'[r] = NoSession
  BY PanelFacts, RowTypes DEF SetStatus, DropSession, RunType
<1>2. Disciplined(r) /\ SessionOK(r)
  BY PanelFacts DEF PanelInv, AllDisciplined
<1>3. Asking(r)' = Asking(r) /\ \A c \in Calls : PendingOf(approvals'[r], c) = PendingOf(approvals[r], c)
  BY DEF Asking, AnyPending, PendingOf
<1>4. session'[r] = NoSession /\ ~Asking(r) => Settled(r)'
  BY <1>1, <1>3 DEF Settled
<1>5. Settled(r) => Settled(r)'
  BY <1>1, <1>4 DEF Settled
<1>6. Quiet(r) => Quiet(r)'
  BY <1>1, <1>4 DEF Quiet, Settled
<1>7. HostOK(r)'
  BY <1>2, <1>6 DEF Disciplined, HostOK
<1>8. \A c \in Calls : InRound(r, c)' => InRound(r, c)
  BY <1>1 DEF InRound
<1>9. \A c \in Calls : InRound(r, c) /\ ~InRound(r, c)' => Settled(r)' /\ AtHost(r)' = {}
  <2>. SUFFICES ASSUME NEW c \in Calls, InRound(r, c), ~InRound(r, c)'
                PROVE  Settled(r)' /\ AtHost(r)' = {}
    OBVIOUS
  <2>1. session'[r] = NoSession /\ planner[r] # "idle"
    BY <1>1, <1>2 DEF InRound, SessionOK
  <2>. QED  BY <2>1, <1>4, SessionAlone
<1>10. AskedOK(r)'
  BY <1>1, <1>2, <1>3, <1>5, <1>9 DEF Disciplined, AskedOK
<1>11. OnceOK(r)'
  BY <1>1, <1>2, <1>3, <1>8 DEF Disciplined, OnceOK
<1>. QED  BY <1>7, <1>10, <1>11 DEF Disciplined

LEMMA CancelDisciplined ==
  ASSUME PanelInv, NEW r \in Runs, Cancel(r)
  PROVE  AllDisciplined'
<1>1. RowStep(r) /\ UNCHANGED <<planner, pc, target, held, redecided, pendingHost, approvals>>
  BY PanelFacts, CancelRunStep DEF Cancel, CancelRun, panelVars
<1>2. MovesFor(r)
  BY <1>1 DEF MovesFor
<1>3. ASSUME r \notin redecided PROVE Disciplined(r)'
  <2>1. run'[r].status = "cancelled"
    BY PanelFacts, RowTypes DEF Cancel, CancelRun, SetStatus, RunType
  <2>2. DriversOf(r)' = DriversOf(r) /\ AtHost(r)' = AtHost(r) /\ Asking(r)' = Asking(r)
    BY <1>1 DEF DriversOf, AtHost, RunOf, Asking, AnyPending, PendingOf
  <2>3. DrivenOnce(r)'
    BY <1>3, <2>1, <2>2 DEF PanelInv, AllDisciplined, Disciplined, DrivenOnce
  <2>. QED  BY <1>1, <1>3, <2>2, <2>3, EndedDisciplined DEF Cancel, CancelRun, Ended
<1>. QED  BY <1>1, <1>2, <1>3, OthersFramed, StepDisciplined

LEMMA StreamStartsDisciplined ==
  ASSUME PanelInv, NEW d \in Drivers, StreamStarts(d)
  PROVE  AllDisciplined'
<1>1. PICK r \in Runs : r = RunOf(d) /\ pc[d] = "stream"
  BY PanelFacts, InHand DEF StreamStarts, Driving
<1>2. /\ RowStep(r) /\ UNCHANGED <<planner, target, held, redecided, pendingHost, approvals, session>>
      /\ pc' = [pc EXCEPT ![d] = "tokens"] /\ SetStatus(r, "streaming")
  BY <1>1, PanelFacts, MarkStreamingStep DEF StreamStarts, MarkStreaming, Goto, history
<1>3. MovesFor(r)
  BY <1>1, <1>2, PanelFacts DEF MovesFor, PanelTypes, RunOf
<1>4. ASSUME r \notin redecided PROVE Disciplined(r)'
  <2>1. run'[r].status = "streaming"
    BY <1>1, <1>2, PanelFacts, RowTypes DEF SetStatus, RunType
  <2>2. DriversOf(r)' = DriversOf(r) /\ AtHost(r)' = AtHost(r) /\ Asking(r)' = Asking(r)
    BY <1>1, <1>2, PanelFacts
       DEF DriversOf, AtHost, RunOf, Asking, AnyPending, PendingOf, Driving, PanelTypes
  <2>3. DrivenOnce(r)'
    BY <1>1, <1>4, <2>1, <2>2 DEF PanelInv, AllDisciplined, Disciplined, DrivenOnce
  <2>. QED  BY <1>1, <1>2, <1>4, <2>2, <2>3, EndedDisciplined DEF Ended
<1>. QED  BY <1>1, <1>2, <1>3, <1>4, OthersFramed, StepDisciplined

LEMMA StreamEndsDisciplined ==
  ASSUME PanelInv, NEW d \in Drivers, StreamEnds(d)
  PROVE  AllDisciplined'
<1>1. PICK r \in Runs : r = RunOf(d) /\ pc[d] = "tokens"
  BY PanelFacts, InHand DEF StreamEnds, Driving
<1>2. /\ RowStep(r) /\ UNCHANGED <<planner, held, redecided, pendingHost, approvals>>
      /\ DropSession(r) /\ \E s \in {"completed", "failed"} : SetStatus(r, s)
      /\ Leave(d)
  BY <1>1, PanelFacts, CompleteRunStep DEF StreamEnds, CompleteRun, history
<1>3. /\ \A e \in Drivers \ {d} : pc'[e] = pc[e] /\ target'[e] = target[e]
      /\ pc'[d] \notin Driving
  BY <1>2, PanelFacts DEF Leave, Goto, PanelTypes, Driving
<1>4. MovesFor(r)
  BY <1>2, <1>3 DEF MovesFor
<1>5. ASSUME r \notin redecided PROVE Disciplined(r)'
  <2>1. d \in DriversOf(r)
    BY <1>1 DEF DriversOf, Driving
  <2>2. DrivenOnce(r)
    BY <1>1, <1>5 DEF PanelInv, AllDisciplined, Disciplined
  <2>3. DriversOf(r)' = {}
    <3>1. \A e \in DriversOf(r)' : e # d /\ e \in DriversOf(r)
      BY <1>3 DEF DriversOf, RunOf
    <3>. QED  BY <2>1, <2>2, <3>1 DEF DrivenOnce
  <2>4. AtHost(r)' = {}
    BY <2>3 DEF DriversOf, AtHost, Driving
  <2>5. ~Asking(r) /\ Asking(r)' = Asking(r)
    BY <1>2, <2>1, <2>2 DEF DrivenOnce, Asking, AnyPending, PendingOf
  <2>6. DrivenOnce(r)' /\ \A e \in AtHost(r) : held'[e] = held[e]
    BY <1>2, <2>3, <2>5 DEF DrivenOnce
  <2>. QED  BY <1>1, <1>2, <1>5, <2>4, <2>6, EndedDisciplined DEF Ended
<1>. QED  BY <1>1, <1>2, <1>4, <1>5, OthersFramed, StepDisciplined

-----------------------------------------------------------------------------
(* The polling, the host's results and the user's decisions. *)

\* What is known of a run that some call drives.
LEMMA DrivenAlone ==
  ASSUME PanelInv, NEW r \in Runs \ redecided, NEW d \in DriversOf(r)
  PROVE  /\ Disciplined(r) /\ ~Asking(r) /\ \A e \in DriversOf(r) : e = d
         /\ AtHost(r) = {} \/ (AtHost(r) = {d} /\ pc[d] = "host")
         /\ pc[d] # "host" => AtHost(r) = {}
         /\ pc[d] # "planner" => planner[r] = "idle" /\ session[r] = NoSession
         /\ run[r].status \notin {"completed", "failed"}
<1>1. Disciplined(r)
  BY DEF PanelInv, AllDisciplined
<1>2. ~Asking(r) /\ \A e \in DriversOf(r) : e = d
  BY <1>1 DEF Disciplined, DrivenOnce
<1>3. AtHost(r) \subseteq DriversOf(r) /\ \A e \in AtHost(r) : pc[e] = "host"
  BY DEF AtHost, DriversOf, Driving
<1>4. ASSUME pc[d] # "planner" PROVE planner[r] = "idle" /\ session[r] = NoSession
  <2>1. \A e \in Drivers : pc[e] = "planner" /\ RunOf(e) = r => e \in DriversOf(r)
    BY DEF DriversOf, Driving
  <2>2. planner[r] = "idle"
    BY <1>2, <1>4, <2>1, PanelFacts DEF AwaitedOK
  <2>. QED  BY <2>2, PanelFacts DEF SessionOK
<1>5. run[r].status \notin {"completed", "failed"}
  BY <1>1 DEF Disciplined, DrivenOnce
<1>. QED  BY <1>1, <1>2, <1>3, <1>4, <1>5

LEMMA GoOnDisciplined ==
  ASSUME PanelInv, NEW d \in Drivers, NEW s \in Driving \ {"host"}, pc[d] \in Driving, Goto(d, s),
         UNCHANGED <<chatVars, planner, target, held, redecided>>
  PROVE  AllDisciplined'
<1>1. \A q \in Runs : DriversOf(q)' = DriversOf(q) /\ AtHost(q)' \subseteq AtHost(q)
  BY PanelFacts DEF DriversOf, AtHost, Goto, RunOf, PanelTypes
<1>. QED  BY <1>1, AllFramed DEF Framed, chatVars

LEMMA PollPlannerDisciplined ==
  ASSUME PanelInv, NEW d \in Drivers, NEW r \in Runs, r = RunOf(d), pc[d] = "poll",
         run[r].status = "planning",
         planner' = [planner EXCEPT ![r] = IF planner[r] = "idle" THEN "get" ELSE planner[r]],
         Goto(d, "planner"), UNCHANGED <<chatVars, target, held, redecided>>
  PROVE  AllDisciplined'
<1>1. RowStep(r)
  BY PanelFacts, SameRowsStep DEF Started
<1>2. MovesFor(r) /\ \A q \in Runs \ {r} : planner'[q] = planner[q]
  BY PanelFacts DEF MovesFor, Goto, PanelTypes, RunOf
<1>3. ASSUME r \notin redecided PROVE Disciplined(r)'
  <2>1. Disciplined(r) /\ Asking(r)' = Asking(r)
    BY <1>3 DEF PanelInv, AllDisciplined, Asking, AnyPending, PendingOf, chatVars
  <2>2. DriversOf(r)' = DriversOf(r) /\ AtHost(r)' = AtHost(r)
    BY PanelFacts DEF DriversOf, AtHost, Goto, RunOf, PanelTypes, Driving
  <2>3. planner[r] \in {"advance", "degrade"} => planner'[r] = planner[r]
    BY PanelFacts DEF PanelTypes
  <2>4. Settled(r) => Settled(r)'
    BY <2>1, <2>3 DEF Settled, Ended, chatVars
  <2>5. Quiet(r) => Quiet(r)'
    BY <2>1, <2>4 DEF Quiet
  <2>6. DrivenOnce(r)' /\ HostOK(r)'
    BY <2>1, <2>2, <2>5 DEF Disciplined, DrivenOnce, HostOK, chatVars
  <2>7. \A c \in Calls : /\ InRound(r, c)' = InRound(r, c)
                         /\ PendingOf(approvals'[r], c) = PendingOf(approvals[r], c)
    BY DEF InRound, chatVars
  <2>8. AskedOK(r)' /\ OnceOK(r)'
    BY <2>1, <2>2, <2>4, <2>7 DEF Disciplined, AskedOK, OnceOK, chatVars
  <2>. QED  BY <2>6, <2>8 DEF Disciplined
<1>. QED  BY <1>1, <1>2, <1>3, OthersFramed, StepDisciplined

LEMMA PollHostDisciplined ==
  ASSUME PanelInv, NEW d \in Drivers, NEW r \in Runs, r = RunOf(d), pc[d] = "poll",
         run[r].status = "awaiting_tool_host",
         held' = [held EXCEPT ![d] = pendingHost[r]], Goto(d, "host"),
         UNCHANGED <<chatVars, planner, target, redecided>>
  PROVE  AllDisciplined'
<1>1. RowStep(r)
  BY PanelFacts, SameRowsStep DEF Started
<1>2. MovesFor(r)
  BY PanelFacts DEF MovesFor, Goto, PanelTypes, RunOf
<1>3. ASSUME r \notin redecided PROVE Disciplined(r)'
  <2>1. Asking(r)' = Asking(r) /\ d \in DriversOf(r)
    BY DEF Asking, AnyPending, PendingOf, chatVars, DriversOf, Driving
  <2>2. Disciplined(r) /\ AtHost(r) = {} /\ planner[r] = "idle"
    BY <1>3, <2>1, DrivenAlone
  <2>3. DriversOf(r)' = DriversOf(r) /\ AtHost(r)' \subseteq AtHost(r) \cup {d}
    BY PanelFacts DEF DriversOf, AtHost, Goto, RunOf, PanelTypes, Driving
  <2>4. held'[d] = pendingHost'[r]
    BY PanelFacts DEF PanelTypes, chatVars
  <2>5. Quiet(r)' = Quiet(r) /\ ~Settled(r)
    BY <2>1, <2>2 DEF Quiet, Settled, Ended, chatVars
  <2>6. DrivenOnce(r)' /\ HostOK(r)'
    BY <2>1, <2>2, <2>3, <2>4, <2>5 DEF Disciplined, DrivenOnce, HostOK, chatVars
  <2>7. \A c \in Calls : /\ InRound(r, c)' = InRound(r, c)
                         /\ PendingOf(approvals'[r], c) = PendingOf(approvals[r], c)
    BY DEF InRound, chatVars
  <2>8. AskedOK(r)' /\ OnceOK(r)'
    BY <2>2, <2>5, <2>7 DEF Disciplined, AskedOK, OnceOK, chatVars
  <2>. QED  BY <2>6, <2>8 DEF Disciplined
<1>. QED  BY <1>1, <1>2, <1>3, OthersFramed, StepDisciplined

LEMMA PollDisciplined ==
  ASSUME PanelInv, NEW d \in Drivers, Poll(d)
  PROVE  AllDisciplined'
<1>1. PICK r \in Runs : r = RunOf(d) /\ pc[d] = "poll"
  BY PanelFacts, InHand DEF Poll, Driving
<1>2. UNCHANGED chatVars /\ UNCHANGED redecided
  BY DEF Poll, history
<1>3. \/ /\ run[r].status = "planning"
         /\ planner' = [planner EXCEPT ![r] = IF planner[r] = "idle" THEN "get" ELSE planner[r]]
         /\ Goto(d, "planner") /\ UNCHANGED <<held, target>>
      \/ /\ run[r].status = "awaiting_tool_host"
         /\ held' = [held EXCEPT ![d] = pendingHost[r]]
         /\ Goto(d, "host") /\ UNCHANGED <<planner, target>>
      \/ UNCHANGED <<planner, pc, held, target>>
      \/ Ready(d, run[r].status) /\ UNCHANGED <<planner, held>>
  BY <1>1, PanelFacts DEF Poll, PanelTypes
<1>4. CASE /\ run[r].status = "planning"
           /\ planner' = [planner EXCEPT ![r] = IF planner[r] = "idle" THEN "get" ELSE planner[r]]
           /\ Goto(d, "planner") /\ UNCHANGED <<held, target>>
  BY <1>1, <1>2, <1>4, PollPlannerDisciplined
<1>5. CASE /\ run[r].status = "awaiting_tool_host"
           /\ held' = [held EXCEPT ![d] = pendingHost[r]]
           /\ Goto(d, "host") /\ UNCHANGED <<planner, target>>
  BY <1>1, <1>2, <1>5, PollHostDisciplined
<1>6. CASE UNCHANGED <<planner, pc, held, target>>
  BY <1>2, <1>6, PanelFacts, SameRowsFramed, AllFramed
<1>7. CASE Ready(d, run[r].status) /\ UNCHANGED <<planner, held>>
  <2>1. CASE Leave(d)
    BY <1>2, <1>7, <2>1, LeaveDisciplined
  <2>2. CASE Goto(d, "stream") /\ UNCHANGED target
    BY <1>1, <1>2, <1>7, <2>2, GoOnDisciplined DEF Driving
  <2>. QED  BY <1>7, <2>1, <2>2 DEF Ready
<1>. QED  BY <1>3, <1>4, <1>5, <1>6, <1>7

\* A fresh approval is the one pending of its call, a decided one was.
LEMMA PendingAppended ==
  ASSUME NEW s \in Seq({"pending", "decided"}), {k \in DOMAIN s : s[k] = "pending"} = {}
  PROVE  LET t == Append(s, "pending")
         IN  /\ {k \in DOMAIN t : t[k] = "pending"} # {}
             /\ \A j, k \in {k \in DOMAIN t : t[k] = "pending"} : j = k
<1>. DEFINE t == Append(s, "pending")
<1>1. /\ DOMAIN t = 1..(Len(s) + 1) /\ DOMAIN s = 1..Len(s) /\ Len(s) \in Nat
      /\ t[Len(s) + 1] = "pending"
      /\ \A k \in 1..Len(s) : t[k] = s[k]
  OBVIOUS
<1>. HIDE DEF t
<1>2. \A k \in DOMAIN t : t[k] = "pending" <=> k = Len(s) + 1
  <2>. SUFFICES ASSUME NEW k \in DOMAIN t PROVE t[k] = "pending" <=> k = Len(s) + 1
    OBVIOUS
  <2>1. k \in 1..Len(s) \/ k = Len(s) + 1
    BY <1>1
  <2>2. k \in 1..Len(s) => s[k] # "pending" /\ k # Len(s) + 1
    BY <1>1
  <2>. QED  BY <1>1, <2>1, <2>2
<1>3. Len(s) + 1 \in DOMAIN t
  BY <1>1
<1>. QED  BY <1>2, <1>3 DEF t

LEMMA HostAnswersDisciplined ==
  ASSUME PanelInv, NEW d \in Drivers, HostAnswers(d)
  PROVE  AllDisciplined'
<1>1. PICK r \in Runs : r = RunOf(d) /\ pc[d] = "host"
  BY PanelFacts, InHand DEF HostAnswers, Driving
<1>2. PICK H \in SUBSET Calls : H = held[d]
  BY PanelFacts, InHand
<1>3. PICK props \in SUBSET (H \cap Proposals) :
          /\ SubmitToolResults(r, H, props)
          /\ IF run'[r].status \in {"planning", "awaiting_tool_host"}
             THEN Goto(d, "poll") /\ UNCHANGED <<target, streaming, current, busy>>
             ELSE Ready(d, run'[r].status)
  BY <1>1, <1>2 DEF HostAnswers
<1>4. props \in SUBSET Calls /\ RowStep(r) /\ IInv'
  BY <1>3, PanelFacts, SubmitToolResultsStep
<1>5. UNCHANGED <<planner, redecided>> /\ held' = [held EXCEPT ![d] = {}]
  BY DEF HostAnswers, history
<1>6. /\ pc'[d] \notin Driving \ {"poll", "stream"}
      /\ pc'[d] \in Driving => RunOf(d)' = r
      /\ \A e \in Drivers \ {d} : pc'[e] = pc[e] /\ target'[e] = target[e] /\ held'[e] = held[e]
  BY <1>1, <1>3, <1>5, PanelFacts DEF Ready, Leave, Goto, PanelTypes, RunOf, Driving
<1>7. MovesFor(r)
  BY <1>6 DEF MovesFor
<1>8. ASSUME r \notin redecided PROVE Disciplined(r)'
  <2>1. d \in DriversOf(r) /\ d \in AtHost(r)
    BY <1>1 DEF DriversOf, AtHost, Driving
  <2>2. /\ Disciplined(r) /\ ~Asking(r) /\ \A e \in DriversOf(r) : e = d
        /\ session[r] = NoSession /\ H = pendingHost[r]
    <3>1. Disciplined(r) /\ ~Asking(r) /\ (\A e \in DriversOf(r) : e = d) /\ session[r] = NoSession
      BY <1>1, <1>8, <2>1, DrivenAlone
    <3>. QED  BY <1>2, <2>1, <3>1 DEF Disciplined, HostOK
  <2>. DEFINE app == [c \in Calls |-> IF c \in props THEN Append(approvals[r][c], "pending")
                                                     ELSE approvals[r][c]]
              s   == IF AnyPending(app) THEN "awaiting_approval" ELSE "planning"
              tr  == AllAnswered(run[r].tr, H \ props)
  <2>3. /\ pendingHost'[r] = {} /\ session'[r] = NoSession
        /\ approvals'[r] = app /\ run'[r].status = s /\ run'[r].tr = tr
    <3>1. pendingHost[r] \ H = {}
      BY <2>2
    <3>2. /\ pendingHost' = [pendingHost EXCEPT ![r] = {}] /\ DropSession(r)
          /\ approvals' = [approvals EXCEPT ![r] = app] /\ SetRun(r, s, tr)
      BY <1>3, <3>1 DEF SubmitToolResults
    <3>. HIDE DEF app, s, tr
    <3>. QED  BY <3>2, PanelFacts, RowTypes DEF SetRun, DropSession, RunType
  <2>4. \A c \in Calls : /\ PendingOf(app, c) # {} <=> c \in props
                         /\ \A j, k \in PendingOf(app, c) : j = k
    <3>. SUFFICES ASSUME NEW c \in Calls
                  PROVE  /\ PendingOf(app, c) # {} <=> c \in props
                         /\ \A j, k \in PendingOf(app, c) : j = k
      OBVIOUS
    <3>1. PendingOf(approvals[r], c) = {} /\ approvals[r][c] \in Seq({"pending", "decided"})
      BY <2>2, PanelFacts, RowTypes DEF Asking, AnyPending
    <3>2. CASE c \in props
      BY <3>1, <3>2, PendingAppended DEF PendingOf
    <3>3. CASE c \notin props
      BY <3>1, <3>3 DEF PendingOf
    <3>. QED  BY <3>2, <3>3
  <2>5. \A c \in Calls : tr.answer[c] =
            IF c \notin H \ props THEN run[r].tr.answer[c]
            ELSE IF run[r].tr.answer[c] = "asked" THEN "once" ELSE "twice"
    BY PanelFacts, RunTranscript, AnswersOf
  <2>6. \A c \in H : run[r].tr.answer[c] = "asked"
    BY <2>2 DEF Disciplined, OnceOK
  <2>7. \A c \in Calls : run[r].tr.answer[c] = "asked" => c \in H
    BY <2>1, <2>2 DEF Disciplined, AskedOK, InRound, Asking, AnyPending
  <2>8. \A c \in Calls : tr.answer[c] = "asked" <=> c \in props
    BY <2>5, <2>6, <2>7
  <2>9. \A c \in Calls : tr.answer[c] # "twice"
    BY <2>2, <2>5, <2>6 DEF Disciplined, OnceOK
  <2>10. Asking(r)' <=> AnyPending(app)
    BY <2>3 DEF Asking, AnyPending, PendingOf
  <2>11. \A c \in Calls : PendingOf(approvals'[r], c) = PendingOf(app, c) /\ ~InRound(r, c)'
    BY <2>3 DEF PendingOf, InRound
  <2>12. DriversOf(r)' \subseteq {d} /\ AtHost(r)' = {}
    <3>1. \A e \in DriversOf(r)' \cup AtHost(r)' : e = d \/ e \in DriversOf(r)
      BY <1>6 DEF DriversOf, AtHost, RunOf, Driving
    <3>2. d \notin AtHost(r)'
      BY <1>6 DEF AtHost, Driving
    <3>. QED  BY <2>2, <3>1, <3>2 DEF DriversOf, AtHost
  <2>13. AnyPending(app) => DriversOf(r)' = {}
    <3>. SUFFICES ASSUME AnyPending(app) PROVE DriversOf(r)' = {}
      OBVIOUS
    <3>1. run'[r].status = "awaiting_approval"
      BY <2>3
    <3>2. pc'[d] \notin Driving
      BY <1>3, <3>1, PanelFacts DEF Ready, Leave, Goto, PanelTypes, Driving
    <3>. QED  BY <2>12, <3>2 DEF DriversOf
  <2>. HIDE DEF app, tr
  <2>14. DrivenOnce(r)'
    BY <2>3, <2>10, <2>12, <2>13 DEF DrivenOnce
  <2>15. HostOK(r)' /\ AskedOK(r)' /\ OnceOK(r)'
    BY <2>3, <2>4, <2>8, <2>9, <2>11, <2>12 DEF HostOK, AskedOK, OnceOK
  <2>. QED  BY <2>14, <2>15 DEF Disciplined
<1>. QED  BY <1>4, <1>5, <1>7, <1>8, OthersFramed, StepDisciplined

\* The decision of another run's approval, sent to this run: its session is dropped.
LEMMA SessionLostDisciplined ==
  ASSUME PanelInv, NEW r \in Runs \ redecided, DropSession(r),
         UNCHANGED <<run, pendingHost, approvals, planner>>,
         DriversOf(r)' \subseteq DriversOf(r), AtHost(r)' \subseteq AtHost(r), held' = held
  PROVE  Disciplined(r)'
<1>1. session'[r] = NoSession
  BY PanelFacts, RowTypes DEF DropSession
<1>2. Disciplined(r) /\ SessionOK(r) /\ Asking(r)' = Asking(r)
  BY PanelFacts DEF PanelInv, AllDisciplined, Asking, AnyPending, PendingOf
<1>3. (Settled(r) => Settled(r)') /\ (Quiet(r) => Quiet(r)')
  BY <1>1, <1>2 DEF Quiet, Settled
<1>4. DrivenOnce(r)' /\ HostOK(r)'
  BY <1>2, <1>3 DEF Disciplined, DrivenOnce, HostOK
<1>5. \A c \in Calls : /\ ~InRound(r, c)'
                       /\ PendingOf(approvals'[r], c) = PendingOf(approvals[r], c)
  BY <1>1 DEF InRound
<1>6. \A c \in Calls : InRound(r, c) => Settled(r)' /\ AtHost(r)' = {}
  <2>. SUFFICES ASSUME NEW c \in Calls, InRound(r, c)
                PROVE  Settled(r)' /\ AtHost(r)' = {}
    OBVIOUS
  <2>1. planner[r] = "advance"
    BY <1>2 DEF InRound, SessionOK
  <2>2. ~Asking(r) /\ AtHost(r) = {}
    BY <2>1, SessionAlone
  <2>. QED  BY <1>1, <1>2, <2>1, <2>2 DEF Settled
<1>7. AskedOK(r)'
  BY <1>2, <1>3, <1>5, <1>6 DEF Disciplined, AskedOK
<1>8. OnceOK(r)'
  BY <1>2, <1>5 DEF Disciplined, OnceOK
<1>. QED  BY <1>4, <1>7, <1>8 DEF Disciplined

\* The first decision of an approval: its call is answered.
LEMMA DecidedDisciplined ==
  ASSUME PanelInv, NEW r \in Runs \ redecided, NEW c \in Calls, NEW k \in DOMAIN approvals[r][c],
         approvals[r][c][k] = "pending", SubmitApproval(r, r, c, k), UNCHANGED planner,
         IF run'[r].status = "planning" THEN \A d, e \in DriversOf(r)' : d = e
                                        ELSE DriversOf(r)' \subseteq DriversOf(r),
         AtHost(r)' \subseteq AtHost(r)
  PROVE  Disciplined(r)'
<1>. DEFINE app == [approvals[r] EXCEPT ![c][k] = "decided"]
            s   == IF AnyPending(app) THEN "awaiting_approval" ELSE "planning"
            tr  == Answered(run[r].tr, c)
<1>1. /\ pendingHost'[r] = pendingHost[r] \ {c} /\ session'[r] = NoSession
      /\ approvals'[r] = app /\ run'[r].status = s /\ run'[r].tr = tr
  <2>1. /\ pendingHost' = [pendingHost EXCEPT ![r] = pendingHost[r] \ {c}] /\ DropSession(r)
        /\ approvals' = [approvals EXCEPT ![r] = app] /\ SetRun(r, s, tr)
    BY DEF SubmitApproval, ApprovalFound
  <2>. HIDE DEF app, s, tr
  <2>. QED  BY <2>1, PanelFacts, RowTypes DEF SetRun, DropSession, RunType
<1>2. Disciplined(r) /\ Asking(r) /\ k \in PendingOf(approvals[r], c)
  BY DEF PanelInv, AllDisciplined, Asking, AnyPending, PendingOf
<1>3. DriversOf(r) = {} /\ AtHost(r) = {} /\ pendingHost[r] = {} /\ session[r] = NoSession
  <2>1. DriversOf(r) = {}
    BY <1>2 DEF Disciplined, DrivenOnce
  <2>2. AtHost(r) = {}
    BY <2>1 DEF AtHost, DriversOf, Driving
  <2>3. planner[r] = "idle"
    BY <1>2, SessionAlone
  <2>4. pendingHost[r] = {}
    BY <1>2 DEF Disciplined, HostOK, Quiet, Settled
  <2>. QED  BY <2>1, <2>2, <2>3, <2>4, PanelFacts DEF SessionOK
<1>4. \A b \in Calls : PendingOf(app, b) = IF b = c THEN {} ELSE PendingOf(approvals[r], b)
  <2>1. approvals[r] \in [Calls -> Seq({"pending", "decided"})]
    BY PanelFacts, RowTypes
  <2>2. \A j \in PendingOf(approvals[r], c) : j = k
    BY <1>2 DEF Disciplined, OnceOK
  <2>3. /\ DOMAIN app[c] = DOMAIN approvals[r][c] /\ app[c][k] = "decided"
        /\ \A j \in DOMAIN approvals[r][c] : j # k => app[c][j] = approvals[r][c][j]
    BY <2>1
  <2>4. PendingOf(app, c) = {}
    <3>. HIDE DEF app
    <3>. QED  BY <2>2, <2>3 DEF PendingOf
  <2>5. \A b \in Calls \ {c} : app[b] = approvals[r][b]
    BY <2>1
  <2>. HIDE DEF app
  <2>. QED  BY <2>4, <2>5 DEF PendingOf
<1>5. \A b \in Calls : tr.answer[b] =
          IF b # c THEN run[r].tr.answer[b]
          ELSE IF run[r].tr.answer[b] = "asked" THEN "once" ELSE "twice"
  BY PanelFacts, RunTranscript, AnswersOf
<1>6. \A b \in Calls : run[r].tr.answer[b] = "asked" <=> PendingOf(approvals[r], b) # {}
  BY <1>2, <1>3 DEF Disciplined, AskedOK, OnceOK, InRound, Settled
<1>7. \A b \in Calls : PendingOf(approvals'[r], b) = PendingOf(app, b) /\ ~InRound(r, b)'
  BY <1>1 DEF PendingOf, InRound
<1>8. Asking(r)' <=> AnyPending(app)
  BY <1>1 DEF Asking, AnyPending, PendingOf
<1>9. AnyPending(app) => DriversOf(r)' = {}
  BY <1>1, <1>3
<1>10. AtHost(r)' = {} /\ \A d, e \in DriversOf(r)' : d = e
  BY <1>1, <1>3
<1>. HIDE DEF app, tr
<1>11. DrivenOnce(r)'
  BY <1>1, <1>8, <1>9, <1>10 DEF DrivenOnce
<1>12. \A b \in Calls : /\ run[r].tr.answer[b] # "twice"
                        /\ \A j, l \in PendingOf(approvals[r], b) : j = l
  BY <1>2 DEF Disciplined, OnceOK
<1>13. HostOK(r)' /\ AskedOK(r)' /\ OnceOK(r)'
  BY <1>1, <1>2, <1>3, <1>4, <1>5, <1>6, <1>7, <1>10, <1>12 DEF HostOK, AskedOK, OnceOK
<1>. QED  BY <1>11, <1>13 DEF Disciplined

LEMMA DecideDisciplined ==
  ASSUME PanelInv, NEW d \in Clicks, Decide(d)
  PROVE  AllDisciplined'
<1>1. d \in Drivers /\ pc[d] = "decide"
  BY DEF Decide, Drivers
<1>2. PICK r \in Runs, a \in Approval : r = RunOf(d) /\ a = target[d].approval
  BY <1>1, PanelFacts, InHand
<1>3. a.run \in Runs /\ a.call \in Calls /\ a.nth \in DOMAIN approvals[a.run][a.call]
  BY <1>1, <1>2, PanelFacts, InHand
<1>4. /\ SubmitApproval(r, a.run, a.call, a.nth)
      /\ redecided' = IF approvals[a.run][a.call][a.nth] = "pending"
                      THEN redecided ELSE redecided \cup {a.run}
      /\ IF ApprovalFound(r, a.run) /\ run'[r].status = "planning"
         THEN Goto(d, "poll") /\ UNCHANGED <<target, busy>>
         ELSE Leave(d)
      /\ UNCHANGED <<planner, held>>
  BY <1>2 DEF Decide
<1>5. RowStep(r)
  BY <1>3, <1>4, PanelFacts, SubmitApprovalStep
<1>6. /\ \A e \in Drivers \ {d} : pc'[e] = pc[e] /\ target'[e] = target[e]
      /\ pc'[d] \in {"poll", "idle"}
      /\ pc'[d] = "poll" => ApprovalFound(r, a.run) /\ run'[r].status = "planning" /\ target' = target
  BY <1>1, <1>4, PanelFacts DEF Leave, Goto, PanelTypes, Drivers, PanelInv, BaseInv, TargetsOK
<1>7. MovesFor(r)
  BY <1>2, <1>4, <1>6 DEF MovesFor, RunOf, Driving
<1>8. AtHost(r)' \subseteq AtHost(r)
  BY <1>6 DEF AtHost, RunOf
<1>9. pc'[d] # "poll" => DriversOf(r)' \subseteq DriversOf(r)
  BY <1>6 DEF DriversOf, RunOf, Driving
<1>10. ASSUME r \notin redecided' PROVE Disciplined(r)'
  <2>1. r \notin redecided
    BY <1>4, <1>10
  <2>2. CASE ~ApprovalFound(r, a.run)
    <3>1. DropSession(r) /\ UNCHANGED <<run, pendingHost, approvals>>
      BY <1>4, <2>2 DEF SubmitApproval
    <3>. QED  BY <1>4, <1>6, <1>8, <1>9, <2>1, <2>2, <3>1, SessionLostDisciplined
  <2>3. CASE ApprovalFound(r, a.run)
    <3>1. a.run = r
      BY <2>3 DEF ApprovalFound
    <3>2. approvals[r][a.call][a.nth] = "pending"
      BY <1>4, <1>10, <3>1
    <3>3. Asking(r)
      BY <1>3, <3>1, <3>2 DEF Asking, AnyPending, PendingOf
    <3>4. DriversOf(r) = {}
      BY <2>1, <3>3 DEF PanelInv, AllDisciplined, Disciplined, DrivenOnce
    <3>5. \A e \in DriversOf(r)' : e = d \/ e \in DriversOf(r)
      BY <1>6 DEF DriversOf, RunOf
    <3>6. IF run'[r].status = "planning" THEN \A x, y \in DriversOf(r)' : x = y
                                         ELSE DriversOf(r)' \subseteq DriversOf(r)
      BY <1>6, <1>9, <3>4, <3>5
    <3>. QED  BY <1>3, <1>4, <1>8, <2>1, <3>1, <3>2, <3>6, DecidedDisciplined
  <2>. QED  BY <2>2, <2>3
<1>11. redecided \subseteq redecided'
  BY <1>4
<1>. QED  BY <1>4, <1>5, <1>7, <1>10, <1>11, OthersFramed, StepDisciplined

-----------------------------------------------------------------------------
(* The planner loop. *)

LEMMA LoopMoves ==
  ASSUME PanelInv, NEW r \in Runs, LoopEnds(r) \/ UNCHANGED pc, UNCHANGED <<target, held>>
  PROVE  /\ MovesFor(r) /\ AtHost(r)' = AtHost(r) /\ DriversOf(r)' = DriversOf(r)
         /\ LoopEnds(r) => planner'[r] = "idle"
<1>1. CASE UNCHANGED pc
  BY <1>1, PanelFacts DEF MovesFor, AtHost, DriversOf, RunOf, LoopEnds, PanelTypes
<1>2. CASE LoopEnds(r)
  <2>1. \A d \in Drivers : /\ pc'[d] = IF pc[d] = "planner" /\ RunOf(d) = r THEN "poll" ELSE pc[d]
                           /\ RunOf(d)' = RunOf(d)
    BY <1>2 DEF LoopEnds, RunOf
  <2>2. planner'[r] = "idle"
    BY <1>2, PanelFacts DEF LoopEnds, PanelTypes
  <2>. QED  BY <2>1, <2>2 DEF MovesFor, AtHost, DriversOf, RunOf, Driving
<1>. QED  BY <1>1, <1>2

\* Unless it is settled, a run at the planner has asked for the calls of its round only.
LEMMA AskedAtPlanner ==
  ASSUME PanelInv, NEW r \in Runs \ redecided, planner[r] # "idle",
         \/ session[r] # NoSession
         \/ planner[r] \notin {"advance", "degrade"} /\ run[r].status \notin Ended
  PROVE  /\ pendingHost[r] = {}
         /\ \A c \in Calls : /\ run[r].tr.answer[c] = "asked" <=> InRound(r, c)
                             /\ run[r].tr.answer[c] # "twice"
<1>1. Disciplined(r)
  BY DEF PanelInv, AllDisciplined
<1>2. ~Settled(r) /\ ~Quiet(r)
  BY DEF Settled, Quiet
<1>3. pendingHost[r] = {} /\ \A c \in Calls : PendingOf(approvals[r], c) = {}
  BY <1>1, <1>2, SessionAlone DEF Disciplined, HostOK
<1>. QED  BY <1>1, <1>2, <1>3 DEF Disciplined, AskedOK, OnceOK

\* The planner gives the run up, or has nothing more to ask.
LEMMA SettledDisciplined ==
  ASSUME PanelInv, NEW r \in Runs \ redecided, planner[r] # "idle",
         approvals' = approvals, AtHost(r)' = AtHost(r), DriversOf(r)' = DriversOf(r),
         session'[r] = NoSession, planner'[r] \in {"advance", "degrade"} \/ run'[r].status \in Ended,
         run'[r].status \notin {"completed", "failed"},
         \A c \in Calls : /\ run'[r].tr.answer[c] \in {run[r].tr.answer[c], "once"}
                          /\ c \in pendingHost'[r] => run'[r].tr.answer[c] = "asked",
         pendingHost'[r] \subseteq Calls
  PROVE  Disciplined(r)'
<1>1. Disciplined(r)
  BY DEF PanelInv, AllDisciplined
<1>2. /\ ~Asking(r)' /\ AtHost(r)' = {} /\ \A c \in Calls : PendingOf(approvals'[r], c) = {}
  BY SessionAlone DEF Asking, AnyPending, PendingOf
<1>3. Settled(r)'
  BY <1>2 DEF Settled
<1>4. DrivenOnce(r)'
  BY <1>1, <1>2 DEF Disciplined, DrivenOnce
<1>5. HostOK(r)' /\ AskedOK(r)'
  BY <1>2, <1>3 DEF HostOK, AskedOK, Quiet
<1>6. \A c \in Calls : run[r].tr.answer[c] # "twice" /\ ~InRound(r, c)'
  BY <1>1 DEF Disciplined, OnceOK, InRound
<1>7. OnceOK(r)'
  BY <1>2, <1>6 DEF OnceOK
<1>. QED  BY <1>4, <1>5, <1>7 DEF Disciplined

\* What is asked is with the host or in the planner's round.
LEMMA HeldDisciplined ==
  ASSUME PanelInv, NEW r \in Runs \ redecided, planner[r] # "idle",
         approvals' = approvals, AtHost(r)' = AtHost(r), DriversOf(r)' = DriversOf(r),
         pendingHost'[r] # {} => Quiet(r)', run'[r].status \notin {"completed", "failed"},
         \A c \in Calls : /\ run'[r].tr.answer[c] = "asked" <=> c \in pendingHost'[r] \/ InRound(r, c)'
                          /\ run'[r].tr.answer[c] # "twice"
  PROVE  Disciplined(r)'
<1>1. Disciplined(r)
  BY DEF PanelInv, AllDisciplined
<1>2. /\ ~Asking(r)' /\ AtHost(r)' = {} /\ \A c \in Calls : PendingOf(approvals'[r], c) = {}
  BY SessionAlone DEF Asking, AnyPending, PendingOf
<1>3. DrivenOnce(r)'
  BY <1>1, <1>2 DEF Disciplined, DrivenOnce
<1>4. HostOK(r)' /\ AskedOK(r)' /\ OnceOK(r)'
  BY <1>2 DEF HostOK, AskedOK, OnceOK
<1>. QED  BY <1>3, <1>4 DEF Disciplined

LEMMA PlannerStartsDisciplined ==
  ASSUME PanelInv, NEW r \in Runs, PlannerStarts(r)
  PROVE  AllDisciplined'
<1>1. /\ planner[r] = "get" /\ GetStep(r) /\ NextStep(r, run[r].status = "planning")
      /\ UNCHANGED <<target, held, redecided, approvals, pendingHost>>
  BY DEF PlannerStarts, history, GetStep
<1>2. session[r] = NoSession /\ RowStep(r) /\ IInv'
  BY <1>1, PanelFacts, GetStepStep DEF SessionOK
<1>3. /\ \A q \in Runs \ {r} : planner'[q] = planner[q]
      /\ LoopEnds(r) \/ UNCHANGED pc
  BY <1>1, PanelFacts, PlannerMoves DEF NextStep
<1>4. /\ MovesFor(r) /\ AtHost(r)' = AtHost(r) /\ DriversOf(r)' = DriversOf(r)
      /\ LoopEnds(r) => planner'[r] = "idle"
  BY <1>1, <1>3, LoopMoves
<1>5. ASSUME r \notin redecided PROVE Disciplined(r)'
  <2>1. ~Asking(r) /\ run[r].status \notin {"completed", "failed"}
    BY <1>1, <1>5, SessionAlone
  <2>2. run[r].status \in Ended \/ /\ pendingHost[r] = {}
                                   /\ \A c \in Calls : /\ run[r].tr.answer[c] # "asked"
                                                       /\ run[r].tr.answer[c] # "twice"
    BY <1>1, <1>2, <1>5, AskedAtPlanner DEF InRound
  <2>3. \A c \in Calls : c \in pendingHost[r] => run[r].tr.answer[c] = "asked"
    BY <1>5 DEF PanelInv, AllDisciplined, Disciplined, OnceOK
  <2>4. pendingHost'[r] = pendingHost[r] /\ pendingHost[r] \subseteq Calls
    BY <1>1, PanelFacts, RowTypes
  <2>5. CASE UNCHANGED <<run, session>>
    <3>1. \A c \in Calls : ~InRound(r, c)'
      BY <1>2, <2>5 DEF InRound
    <3>2. CASE run[r].status \in Ended
      BY <1>1, <1>2, <1>4, <1>5, <2>1, <2>3, <2>4, <2>5, <3>2, SettledDisciplined
    <3>3. CASE run[r].status \notin Ended
      BY <1>1, <1>2, <1>4, <1>5, <2>1, <2>2, <2>4, <2>5, <3>1, <3>3, HeldDisciplined
    <3>. QED  BY <3>2, <3>3
  <2>6. CASE SetStatus(r, "degraded") /\ DropSession(r)
    <3>1. /\ run'[r].status = "degraded" /\ run'[r].tr = run[r].tr /\ session'[r] = NoSession
      BY <2>6, PanelFacts, RowTypes DEF SetStatus, DropSession, RunType
    <3>. QED  BY <1>1, <1>4, <1>5, <2>3, <2>4, <3>1, SettledDisciplined DEF Ended
  <2>7. CASE /\ run[r].status = "planning"
             /\ session' = [session EXCEPT ![r] =
                    IF session[r] # NoSession THEN session[r]
                    ELSE [step |-> "model", round |-> {}, tr |-> run[r].tr]]
             /\ SetRun(r, "planning", session'[r].tr)
    <3>1. session'[r] = [step |-> "model", round |-> {}, tr |-> run[r].tr]
      BY <1>2, <2>7, PanelFacts, RowTypes
    <3>2. run'[r].status = "planning" /\ run'[r].tr = run[r].tr
      BY <2>7, <3>1, PanelFacts, RowTypes DEF SetRun, RunType
    <3>3. \A c \in Calls : ~InRound(r, c)'
      BY <3>1 DEF InRound
    <3>. QED  BY <1>1, <1>4, <1>5, <2>2, <2>4, <2>7, <3>2, <3>3, HeldDisciplined DEF Ended
  <2>. QED  BY <1>1, <2>5, <2>6, <2>7 DEF GetStep
<1>. QED  BY <1>1, <1>2, <1>3, <1>4, <1>5, OthersFramed, StepDisciplined

LEMMA FetchFailsDisciplined ==
  ASSUME PanelInv, NEW r \in Runs, FetchFails(r)
  PROVE  AllDisciplined'
<1>1. /\ planner[r] \in {"get", "fetch"} /\ LoopFails(r) /\ UNCHANGED pc
      /\ UNCHANGED <<chatVars, target, held, redecided, run, approvals, pendingHost, session>>
  BY DEF FetchFails, history, LoopFails, chatVars
<1>2. planner'[r] = "degrade" /\ \A q \in Runs \ {r} : planner'[q] = planner[q]
  BY <1>1, PanelFacts, PlannerMoves
<1>3. MovesFor(r) /\ AtHost(r)' = AtHost(r) /\ DriversOf(r)' = DriversOf(r)
  BY <1>1, LoopMoves
<1>4. RowStep(r)
  <2>1. Started(r)
    <3>1. PICK d \in Drivers : pc[d] = "planner" /\ RunOf(d) = r
      BY <1>1, PanelFacts DEF AwaitedOK
    <3>. QED  BY <3>1 DEF PanelInv, BaseInv, StartedOK, Driving
  <2>. QED  BY <1>1, <2>1, PanelFacts, SameRowsStep
<1>5. ASSUME r \notin redecided PROVE Disciplined(r)'
  <2>1. run[r].status \notin {"completed", "failed"} /\ planner[r] # "idle"
    BY <1>1, <1>5, SessionAlone
  <2>2. CASE session[r] = NoSession
    <3>1. \A c \in Calls : c \in pendingHost[r] => run[r].tr.answer[c] = "asked"
      BY <1>5 DEF PanelInv, AllDisciplined, Disciplined, OnceOK
    <3>. QED  BY <1>1, <1>2, <1>3, <1>5, <2>1, <2>2, <3>1, PanelFacts, RowTypes, SettledDisciplined
  <2>3. CASE session[r] # NoSession
    <3>1. \A c \in Calls : InRound(r, c)' = InRound(r, c)
      BY <1>1 DEF InRound
    <3>. QED  BY <1>1, <1>3, <1>5, <2>1, <2>3, <3>1, AskedAtPlanner, HeldDisciplined
  <2>. QED  BY <2>2, <2>3
<1>. QED  BY <1>1, <1>2, <1>3, <1>4, <1>5, OthersFramed, StepDisciplined

LEMMA PlannerDegradesDisciplined ==
  ASSUME PanelInv, NEW r \in Runs, PlannerDegrades(r)
  PROVE  AllDisciplined'
<1>1. /\ planner[r] = "degrade" /\ DegradeRun(r) /\ LoopEnds(r)
      /\ UNCHANGED <<target, held, redecided, approvals, pendingHost>>
  BY DEF PlannerDegrades, history, DegradeRun
<1>2. RowStep(r) /\ MovesFor(r) /\ AtHost(r)' = AtHost(r) /\ DriversOf(r)' = DriversOf(r)
  BY <1>1, PanelFacts, DegradeRunStep, LoopMoves
<1>3. \A q \in Runs \ {r} : planner'[q] = planner[q]
  BY <1>1, PanelFacts, PlannerMoves
<1>4. /\ run'[r].status = "degraded" /\ run'[r].tr = run[r].tr /\ session'[r] = NoSession
  BY <1>1, PanelFacts, RowTypes DEF DegradeRun, SetStatus, DropSession, RunType
<1>5. ASSUME r \notin redecided PROVE Disciplined(r)'
  <2>1. \A c \in Calls : c \in pendingHost[r] => run[r].tr.answer[c] = "asked"
    BY <1>5 DEF PanelInv, AllDisciplined, Disciplined, OnceOK
  <2>. QED  BY <1>1, <1>2, <1>4, <1>5, <2>1, PanelFacts, RowTypes, SettledDisciplined DEF Ended
<1>. QED  BY <1>1, <1>2, <1>3, <1>5, OthersFramed, StepDisciplined

LEMMA ModelAnswersDisciplined ==
  ASSUME PanelInv, NEW r \in Runs, ModelAnswers(r)
  PROVE  AllDisciplined'
<1>1. /\ planner[r] = "fetch" /\ SubmitModelResponse(r) /\ RowStep(r)
      /\ IF session[r] = NoSession THEN LoopFails(r) ELSE NextStep(r, TRUE)
      /\ UNCHANGED <<target, held, redecided>>
  BY PanelFacts, SubmitModelResponseStep DEF ModelAnswers, history
<1>2. UNCHANGED <<approvals, pendingHost>>
  BY <1>1 DEF SubmitModelResponse, chatVars, ModelCalls
<1>3. /\ \A q \in Runs \ {r} : planner'[q] = planner[q]
      /\ LoopEnds(r) \/ UNCHANGED pc
      /\ session[r] = NoSession => planner'[r] = "degrade"
  BY <1>1, PanelFacts, PlannerMoves DEF NextStep, LoopFails
<1>4. MovesFor(r) /\ AtHost(r)' = AtHost(r) /\ DriversOf(r)' = DriversOf(r)
  BY <1>1, <1>3, LoopMoves
<1>5. ASSUME r \notin redecided PROVE Disciplined(r)'
  <2>1. run[r].status \notin {"completed", "failed"} /\ planner[r] # "idle"
    BY <1>1, <1>5, SessionAlone
  <2>2. \A c \in Calls : c \in pendingHost[r] => run[r].tr.answer[c] = "asked"
    BY <1>5 DEF PanelInv, AllDisciplined, Disciplined, OnceOK
  <2>3. CASE session[r] = NoSession
    <3>1. UNCHANGED <<run, session>>
      BY <1>1, <2>3 DEF SubmitModelResponse, chatVars
    <3>. QED  BY <1>2, <1>3, <1>4, <1>5, <2>1, <2>2, <2>3, <3>1, PanelFacts, RowTypes,
                 SettledDisciplined
  <2>4. CASE session[r] # NoSession
    <3>1. /\ session[r].step = "model" /\ session[r].tr = run[r].tr /\ session[r].tr \in Transcript
          /\ \A c \in Calls : ~InRound(r, c)
      BY <1>1, <2>4, PanelFacts, SessionTranscript DEF SessionOK, InRound
    <3>2. /\ pendingHost[r] = {}
          /\ \A c \in Calls : run[r].tr.answer[c] # "asked" /\ run[r].tr.answer[c] # "twice"
      BY <1>5, <2>1, <2>4, <3>1, AskedAtPlanner
    <3>3. ASSUME NEW s \in {"degraded", "ready_to_answer"}, SetRun(r, s, session[r].tr), DropSession(r)
          PROVE  Disciplined(r)'
      <4>1. run'[r].status = s /\ run'[r].tr = run[r].tr /\ session'[r] = NoSession
        BY <3>1, <3>3, PanelFacts, RowTypes DEF SetRun, DropSession, RunType
      <4>. QED  BY <1>2, <1>4, <1>5, <2>1, <3>2, <4>1, SettledDisciplined DEF Ended
    <3>4. ASSUME NEW T \in SUBSET Calls, ModelCalls(r, T) PROVE Disciplined(r)'
      <4>. DEFINE tr == Asked(session[r].tr, T)
      <4>1. \A c \in Calls : tr.answer[c] = IF c \in T THEN "asked" ELSE run[r].tr.answer[c]
        BY <3>1, AnswersOf
      <4>2. /\ session' = [session EXCEPT ![r] = [step |-> "tools", round |-> T, tr |-> tr]]
            /\ run' = [run EXCEPT ![r].tr = tr]
        BY <3>4 DEF ModelCalls
      <4>. HIDE DEF tr
      <4>3. /\ session'[r].step = "tools" /\ session'[r].round = T
            /\ session'[r] = [step |-> "tools", round |-> T, tr |-> tr]
            /\ run'[r].status = run[r].status /\ run'[r].tr = tr
        BY <4>2, PanelFacts, RowTypes DEF RunType
      <4>4. session'[r] # NoSession
        <5>1. tr \in Transcript
          BY <3>1, AskedType DEF tr
        <5>. QED  BY <4>3, <5>1, NoSessionIsNone DEF Session
      <4>5. \A c \in Calls : InRound(r, c)' <=> c \in T
        BY <4>3, <4>4 DEF InRound
      <4>. QED  BY <1>2, <1>4, <1>5, <2>1, <3>2, <4>1, <4>3, <4>5, HeldDisciplined
    <3>5. ASSUME Request(r, [session[r].tr EXCEPT !.final = TRUE]) PROVE Disciplined(r)'
      <4>. DEFINE tr == [session[r].tr EXCEPT !.final = TRUE]
      <4>1. \A c \in Calls : tr.answer[c] = run[r].tr.answer[c]
        BY <3>1, AnswersOf
      <4>. HIDE DEF tr
      <4>2. /\ session'[r] = [step |-> "model", round |-> {}, tr |-> tr]
            /\ run'[r].status = run[r].status /\ run'[r].tr = tr
        BY <3>5, PanelFacts, RowTypes DEF Request, RunType, tr
      <4>3. \A c \in Calls : ~InRound(r, c)'
        BY <4>2 DEF InRound
      <4>. QED  BY <1>2, <1>4, <1>5, <2>1, <3>2, <4>1, <4>2, <4>3, HeldDisciplined
    <3>6. FreeCalls(r, session[r].tr) \subseteq Calls
      BY DEF FreeCalls
    <3>. QED  BY <1>1, <2>4, <3>1, <3>3, <3>4, <3>5, <3>6 DEF SubmitModelResponse, GiveUp
  <2>. QED  BY <2>3, <2>4
<1>. QED  BY <1>1, <1>3, <1>4, <1>5, OthersFramed, StepDisciplined

LEMMA PlannerAdvancesDisciplined ==
  ASSUME PanelInv, NEW r \in Runs, PlannerAdvances(r)
  PROVE  AllDisciplined'
<1>1. /\ planner[r] = "advance" /\ UNCHANGED <<target, held, redecided, approvals>>
      /\ \/ Advance(r) /\ (IF session[r] = NoSession THEN LoopFails(r) ELSE NextStep(r, TRUE))
         \/ AdvanceFails(r) /\ LoopFails(r)
  BY DEF PlannerAdvances, history, Advance, AdvanceFails
<1>2. RowStep(r)
  BY <1>1, PanelFacts, AdvanceStep, AdvanceFailsStep
<1>3. /\ \A q \in Runs \ {r} : planner'[q] = planner[q]
      /\ LoopEnds(r) \/ UNCHANGED pc
  BY <1>1, PanelFacts, PlannerMoves DEF NextStep, LoopFails
<1>4. /\ MovesFor(r) /\ AtHost(r)' = AtHost(r) /\ DriversOf(r)' = DriversOf(r)
      /\ LoopEnds(r) => planner'[r] = "idle"
  BY <1>1, <1>3, LoopMoves
<1>5. ASSUME r \notin redecided PROVE Disciplined(r)'
  <2>1. run[r].status \notin {"completed", "failed"} /\ planner[r] # "idle"
    BY <1>1, <1>5, SessionAlone
  <2>2. CASE session[r] = NoSession
    <3>1. Advance(r) /\ LoopFails(r) /\ ~AdvanceReady(r)
      BY <1>1, <2>2 DEF AdvanceFails, AdvanceReady
    <3>2. UNCHANGED <<run, pendingHost, session>> /\ planner'[r] = "degrade"
      BY <3>1, PanelFacts, PlannerMoves DEF Advance
    <3>3. \A c \in Calls : c \in pendingHost[r] => run[r].tr.answer[c] = "asked"
      BY <1>5 DEF PanelInv, AllDisciplined, Disciplined, OnceOK
    <3>. QED  BY <1>1, <1>4, <1>5, <2>1, <2>2, <3>2, <3>3, PanelFacts, RowTypes, SettledDisciplined
  <2>3. CASE session[r] # NoSession
    <3>1. PICK T \in SUBSET Calls : T = session[r].round
      BY <2>3, PanelFacts, SessionTranscript
    <3>2. /\ session[r].step = "tools" /\ session[r].tr = run[r].tr /\ session[r].tr \in Transcript
          /\ \A c \in Calls : InRound(r, c) <=> c \in T
      BY <1>1, <2>3, <3>1, PanelFacts, SessionTranscript DEF SessionOK, InRound
    <3>3. /\ pendingHost[r] = {}
          /\ \A c \in Calls : /\ run[r].tr.answer[c] = "asked" <=> c \in T
                              /\ run[r].tr.answer[c] # "twice"
      BY <1>5, <2>1, <2>3, <3>2, AskedAtPlanner
    <3>. DEFINE tr == AllAnswered(session[r].tr, T \ Host)
    <3>4. /\ tr \in Transcript
          /\ \A c \in Calls : tr.answer[c] = IF c \in T \ Host THEN "once" ELSE run[r].tr.answer[c]
      BY <3>2, <3>3, AnswersOf, AllAnsweredType
    <3>. HIDE DEF tr
    <3>5. ASSUME NEW t \in Transcript, GiveUp(r, t), UNCHANGED pendingHost,
                 \A c \in Calls : t.answer[c] \in {run[r].tr.answer[c], "once"}
          PROVE  Disciplined(r)'
      <4>1. run'[r].status = "degraded" /\ run'[r].tr = t /\ session'[r] = NoSession
        BY <3>5, PanelFacts, RowTypes DEF GiveUp, SetRun, DropSession, RunType
      <4>. QED  BY <1>1, <1>4, <1>5, <2>1, <3>3, <3>5, <4>1, SettledDisciplined DEF Ended
    <3>6. ASSUME NEW t \in Transcript, Request(r, t), UNCHANGED pendingHost,
                 \A c \in Calls : t.answer[c] # "asked" /\ t.answer[c] # "twice"
          PROVE  Disciplined(r)'
      <4>1. /\ session'[r] = [step |-> "model", round |-> {}, tr |-> t]
            /\ run'[r].status = run[r].status /\ run'[r].tr = t
        BY <3>6, PanelFacts, RowTypes DEF Request, RunType
      <4>2. \A c \in Calls : ~InRound(r, c)'
        BY <4>1 DEF InRound
      <4>. QED  BY <1>1, <1>4, <1>5, <2>1, <3>3, <3>6, <4>1, <4>2, HeldDisciplined
    <3>7. CASE AdvanceFails(r) /\ LoopFails(r)
      <4>1. planner'[r] = "degrade" /\ UNCHANGED run
        BY <3>7, PanelFacts, PlannerMoves DEF AdvanceFails, ToolStoreError
      <4>2. session'[r] = NoSession /\ pendingHost'[r] \subseteq T
        BY <3>1, <3>3, <3>7, PanelFacts, RowTypes DEF AdvanceFails, ToolStoreError, DropSession
      <4>. QED  BY <1>1, <1>4, <1>5, <2>1, <3>3, <4>1, <4>2, SettledDisciplined
    <3>8. CASE Advance(r) /\ NextStep(r, TRUE)
      <4>1. CASE GiveUp(r, session[r].tr) /\ UNCHANGED pendingHost
        BY <3>2, <3>5, <4>1
      <4>2. ASSUME NEW stalled \in BOOLEAN, ToolsRan(r, stalled) PROVE Disciplined(r)'
        <5>1. CASE T \cap Host # {}
          <6>1. /\ pendingHost' = [pendingHost EXCEPT ![r] = pendingHost[r] \cup (T \cap Host)]
                /\ SetRun(r, "awaiting_tool_host", tr) /\ DropSession(r)
            BY <3>1, <4>2, <5>1 DEF ToolsRan, tr
          <6>2. /\ pendingHost'[r] = T \cap Host /\ session'[r] = NoSession
                /\ run'[r].status = "awaiting_tool_host" /\ run'[r].tr = tr
            BY <3>3, <6>1, PanelFacts, RowTypes DEF SetRun, DropSession, RunType
          <6>3. planner'[r] = "idle"
            BY <1>4, <3>8, <6>2 DEF NextStep
          <6>4. ~Asking(r)' /\ \A c \in Calls : ~InRound(r, c)'
            BY <1>1, <1>5, <2>1, <6>2, SessionAlone DEF Asking, AnyPending, PendingOf, InRound
          <6>5. Quiet(r)'
            BY <6>2, <6>3, <6>4 DEF Quiet
          <6>. QED  BY <1>1, <1>4, <1>5, <2>1, <3>3, <3>4, <6>2, <6>4, <6>5, HeldDisciplined
        <5>2. CASE T \cap Host = {}
          <6>1. /\ UNCHANGED pendingHost
                /\ \/ GiveUp(r, tr) \/ Request(r, tr) \/ Request(r, [tr EXCEPT !.final = TRUE])
            BY <3>1, <4>2, <5>2 DEF ToolsRan, tr
          <6>2. \A c \in Calls : /\ tr.answer[c] # "asked" /\ tr.answer[c] # "twice"
                                 /\ tr.answer[c] \in {run[r].tr.answer[c], "once"}
                                 /\ [tr EXCEPT !.final = TRUE].answer[c] = tr.answer[c]
            BY <3>3, <3>4, <5>2, AnswersOf
          <6>3. CASE GiveUp(r, tr)
            BY <3>4, <3>5, <6>1, <6>2, <6>3
          <6>4. CASE Request(r, tr)
            BY <3>4, <3>6, <6>1, <6>2, <6>4
          <6>5. CASE Request(r, [tr EXCEPT !.final = TRUE])
            <7>. DEFINE t == [tr EXCEPT !.final = TRUE]
            <7>1. t \in Transcript /\ \A c \in Calls : t.answer[c] # "asked" /\ t.answer[c] # "twice"
              BY <3>4, <6>2, FinalType
            <7>2. Request(r, t)
              BY <6>5
            <7>. HIDE DEF t
            <7>. QED  BY <3>6, <6>1, <7>1, <7>2
          <6>. QED  BY <6>1, <6>3, <6>4, <6>5
        <5>. QED  BY <5>1, <5>2
      <4>. QED  BY <2>3, <3>2, <3>8, <4>1, <4>2 DEF Advance, AdvanceReady
    <3>. QED  BY <1>1, <2>3, <3>7, <3>8
  <2>. QED  BY <2>2, <2>3
<1>. QED  BY <1>1, <1>2, <1>3, <1>4, <1>5, OthersFramed, StepDisciplined

-----------------------------------------------------------------------------
(* The invariant, and what follows from it. *)

LEMMA InitPanelInv == PanelInit => PanelInv
<1>. SUFFICES ASSUME PanelInit PROVE PanelInv
  OBVIOUS
<1>1. IInv
  BY InitIInv DEF PanelInit
<1>2. /\ \A r \in Runs : /\ run[r] = NoRun /\ pendingHost[r] = {} /\ session[r] = NoSession
                         /\ planner[r] = "idle" /\ \A c \in Calls : approvals[r][c] = <<>>
      /\ \A d \in Drivers : pc[d] = "idle" /\ target[d] = Nobody /\ held[d] = {}
  BY DEF PanelInit, Init
<1>3. \A r \in Runs : run[r].status = "none" /\ \A c \in Calls : run[r].tr.answer[c] = "none"
  BY <1>2 DEF NoRun, FreshTranscript
<1>4. \A r \in Runs : ~Asking(r) /\ DriversOf(r) = {} /\ AtHost(r) = {}
  BY <1>2 DEF Asking, AnyPending, PendingOf, DriversOf, AtHost, Driving
<1>5. PanelTypeOK
  BY <1>1 DEF PanelInit, IInv, PanelTypeOK
<1>6. TargetsOK
  BY <1>2 DEF TargetsOK, Driving, Drivers
<1>7. StartedOK
  BY <1>2, <1>3 DEF StartedOK, Started, PanelInit, Driving
<1>8. ApprovalsOK
  BY <1>2, <1>3, ChatAssumption DEF ApprovalsOK, PanelInit
<1>9. LoopOK
  BY <1>2 DEF LoopOK
<1>10. AllDisciplined
  <2>. SUFFICES ASSUME NEW r \in Runs PROVE Disciplined(r)
    BY DEF AllDisciplined
  <2>1. \A c \in Calls : PendingOf(approvals[r], c) = {} /\ ~InRound(r, c)
    BY <1>2 DEF PendingOf, InRound
  <2>. QED  BY <1>2, <1>3, <1>4, <2>1 DEF Disciplined, DrivenOnce, HostOK, AskedOK, OnceOK
<1>. QED  BY <1>1, <1>5, <1>6, <1>7, <1>8, <1>9, <1>10 DEF PanelInv, BaseInv

LEMMA PanelInvStep ==
  ASSUME PanelInv, [PanelNext]_vars
  PROVE  PanelInv'
<1>1. BaseInv'
  BY BaseStep DEF PanelInv
<1>2. CASE UNCHANGED vars
  BY <1>1, <1>2, StutterDisciplined DEF PanelInv
<1>3. ASSUME NEW r \in Runs, SendMessage(r) \/ SendStarts(r) \/ Timeout(r) \/ Cancel(r)
      PROVE  AllDisciplined'
  BY <1>3, SendMessageDisciplined, SendStartsDisciplined, TimeoutDisciplined, CancelDisciplined
<1>4. ASSUME NEW r \in Runs, SendFails(r) PROVE AllDisciplined'
  BY <1>4, LeaveDisciplined DEF SendFails, Drivers, history
<1>5. ASSUME NEW r \in Runs, PlannerLoop(r) PROVE AllDisciplined'
  BY <1>5, PlannerStartsDisciplined, FetchFailsDisciplined, ModelAnswersDisciplined,
     PlannerAdvancesDisciplined, PlannerDegradesDisciplined DEF PlannerLoop
<1>6. ASSUME NEW d \in Drivers, StreamRefused(d) PROVE AllDisciplined'
  BY <1>6, LeaveDisciplined DEF StreamRefused, history
<1>7. ASSUME NEW d \in Drivers, Driver(d) PROVE AllDisciplined'
  BY <1>6, <1>7, PollDisciplined, HostAnswersDisciplined, StreamStartsDisciplined,
     StreamEndsDisciplined DEF Driver
<1>8. ASSUME NEW d \in Clicks, Click(d) \/ Decide(d) PROVE AllDisciplined'
  BY <1>8, ClickDisciplined, DecideDisciplined
<1>9. CASE PanelNext
  BY <1>1, <1>3, <1>4, <1>5, <1>7, <1>8, <1>9, LeaveThreadDisciplined DEF PanelNext, PanelInv
<1>. QED  BY <1>2, <1>9

\* The invariant of the panel: everything below follows from it.
THEOREM PanelInvariant == PanelSpec => []PanelInv
<1>1. PanelInv /\ [PanelNext]_vars => PanelInv'
  BY PanelInvStep
<1>. QED  BY InitPanelInv, <1>1, PTL DEF PanelSpec

\* Types, and the transcript of the session in memory, under the panel.
THEOREM PanelKeepsItsTypes == PanelSpec => [](PanelTypeOK /\ SessionMirrorsRun)
<1>1. PanelInv => PanelTypeOK /\ SessionMirrorsRun
  BY DEF PanelInv, BaseInv, IInv
<1>. QED  BY <1>1, PanelInvariant, PTL

\* While the planner waits for the model every call of the transcript is answered: none
\* is asked, for it would be with the host, the user or the planner, or the run settled;
\* and none is answered twice.
LEMMA AnsweredOnce == PanelInv => EveryCallAnsweredOnce
<1>. SUFFICES ASSUME PanelInv, NEW r \in Runs, session[r] # NoSession, session[r].step = "model",
                     r \notin redecided, NEW c \in Calls
              PROVE  session[r].tr.answer[c] \in {"none", "once"}
  BY DEF EveryCallAnsweredOnce
<1>1. planner[r] # "idle"
  BY PanelFacts DEF SessionOK
<1>2. session[r].tr = run[r].tr /\ session[r].tr \in Transcript
  BY PanelFacts, SessionTranscript
<1>3. run[r].tr.answer[c] # "asked" /\ run[r].tr.answer[c] # "twice"
  BY <1>1, AskedAtPlanner DEF InRound
<1>. QED  BY <1>2, <1>3 DEF Transcript

\* Every request the planner sends to the model has each tool call of the transcript
\* answered by exactly one tool message, however rounds, host results, decisions,
\* cancellations, timeouts and rebuilt sessions interleave.
THEOREM EveryCallIsAnsweredOnce == PanelSpec => []EveryCallAnsweredOnce
  BY AnsweredOnce, PanelInvariant, PTL

LEMMA DrivenByOne == PanelInv => OneDriverPerRun
<1>. SUFFICES ASSUME PanelInv, NEW r \in Runs, r \notin redecided
              PROVE  Cardinality(DriversOf(r)) <= 1
  BY DEF OneDriverPerRun, DriversOf
<1>1. \A d, e \in DriversOf(r) : d = e
  BY DEF PanelInv, AllDisciplined, Disciplined, DrivenOnce
<1>2. CASE DriversOf(r) = {}
  BY <1>2, FS_EmptySet
<1>3. CASE DriversOf(r) # {}
  <2>1. PICK d : DriversOf(r) = {d}
    BY <1>1, <1>3
  <2>. QED  BY <2>1, FS_Singleton
<1>. QED  BY <1>2, <1>3

\* At most one asynchronous call of the panel drives a run, for any number of runs and
\* clicks: sendMessage and the decisions hand the run over to each other.
THEOREM RunsAreDrivenOnce == PanelSpec => []OneDriverPerRun
  BY DrivenByOne, PanelInvariant, PTL

-----------------------------------------------------------------------------
(* A run that is over stays over. *)

LEMMA RedecidedGrows ==
  ASSUME [PanelNext]_vars
  PROVE  redecided \subseteq redecided'
<1>1. ASSUME NEW r \in Runs, SendMessage(r) \/ SendStarts(r) \/ SendFails(r) \/ Timeout(r) \/ Cancel(r)
      PROVE  UNCHANGED redecided
  BY <1>1 DEF SendMessage, SendStarts, SendFails, Timeout, Cancel, history, panelVars
<1>2. ASSUME NEW r \in Runs, PlannerLoop(r) PROVE UNCHANGED redecided
  BY <1>2 DEF PlannerLoop, PlannerStarts, FetchFails, ModelAnswers, PlannerAdvances, PlannerDegrades,
              history
<1>3. ASSUME NEW d \in Drivers, Driver(d) PROVE UNCHANGED redecided
  BY <1>3 DEF Driver, Poll, HostAnswers, StreamStarts, StreamRefused, StreamEnds, history
<1>4. ASSUME NEW d \in Clicks, Click(d) \/ Decide(d) PROVE redecided \subseteq redecided'
  BY <1>4 DEF Click, Decide
<1>5. CASE LeaveThread \/ UNCHANGED vars
  BY <1>5 DEF LeaveThread, vars
<1>. QED  BY <1>1, <1>2, <1>3, <1>4, <1>5 DEF PanelNext

\* Nobody drives the run and no decision finds a pending approval of it.
LEMMA FinishedStep ==
  ASSUME PanelInv, [PanelNext]_vars, NEW r \in Runs, r \notin redecided',
         run[r].status \in {"completed", "failed"}
  PROVE  run'[r].status \in {"completed", "failed", "cancelled"}
<1>1. r \notin redecided
  BY RedecidedGrows
<1>2. DriversOf(r) = {} /\ ~Asking(r) /\ planner[r] = "idle"
  BY <1>1, SessionAlone DEF PanelInv, AllDisciplined, Disciplined, DrivenOnce
<1>3. \A d \in Drivers : pc[d] \in Driving => RunOf(d) \in Runs \ {r}
  BY <1>2, PanelFacts, InHand DEF DriversOf
<1>4. ASSUME NEW q \in Runs \ {r}, RowStep(q) PROVE run'[r].status = run[r].status
  BY <1>4 DEF RowStep, SameRow
<1>5. ASSUME NEW q \in Runs, SendStarts(q) PROVE run'[r].status = run[r].status
  <2>1. q # r
    BY <1>5 DEF SendStarts, StartRun, Started
  <2>. QED  BY <1>4, <1>5, <2>1, PanelFacts, StartRunStep DEF SendStarts
<1>6. ASSUME NEW q \in Runs, PlannerLoop(q) PROVE run'[r].status = run[r].status
  <2>1. q # r
    BY <1>2, <1>6 DEF PlannerLoop, PlannerStarts, FetchFails, ModelAnswers, PlannerAdvances,
                      PlannerDegrades
  <2>2. RowStep(q) \/ UNCHANGED run
    BY <1>6, PanelFacts, GetStepStep, SubmitModelResponseStep, AdvanceStep, AdvanceFailsStep,
       DegradeRunStep
       DEF PlannerLoop, PlannerStarts, FetchFails, ModelAnswers, PlannerAdvances, PlannerDegrades,
           chatVars
  <2>. QED  BY <1>4, <2>1, <2>2
<1>7. ASSUME NEW q \in Runs, Timeout(q) PROVE run'[r].status = run[r].status
  BY <1>7, PanelFacts, RowTypes DEF Timeout, DeadlinePasses, RunType
<1>8. ASSUME NEW q \in Runs, Cancel(q) PROVE run'[r].status \in {run[r].status, "cancelled"}
  BY <1>8, PanelFacts, RowTypes DEF Cancel, CancelRun, SetStatus, RunType
<1>9. ASSUME NEW d \in Drivers, Driver(d) PROVE run'[r].status = run[r].status
  <2>1. PICK q \in Runs \ {r} : q = RunOf(d)
    BY <1>3, <1>9 DEF Driver, Poll, HostAnswers, StreamStarts, StreamRefused, StreamEnds, Driving
  <2>2. CASE HostAnswers(d)
    <3>1. PICK props \in SUBSET Calls : SubmitToolResults(q, held[d], props)
      BY <2>1, <2>2, PanelFacts, InHand DEF HostAnswers
    <3>. QED  BY <1>4, <3>1, PanelFacts, SubmitToolResultsStep
  <2>3. CASE StreamStarts(d)
    BY <1>4, <2>1, <2>3, PanelFacts, MarkStreamingStep DEF StreamStarts
  <2>4. CASE StreamEnds(d)
    BY <1>4, <2>1, <2>4, PanelFacts, CompleteRunStep DEF StreamEnds
  <2>. QED  BY <1>9, <2>2, <2>3, <2>4 DEF Driver, Poll, StreamRefused, chatVars
<1>10. ASSUME NEW d \in Clicks, Decide(d) PROVE run'[r].status = run[r].status
  <2>1. PICK q \in Runs, a \in Approval : /\ q = RunOf(d) /\ a = target[d].approval
                                          /\ a.run \in Runs /\ a.call \in Calls
                                          /\ a.nth \in DOMAIN approvals[a.run][a.call]
    BY <1>10, PanelFacts, InHand DEF Decide, Drivers
  <2>2. SubmitApproval(q, a.run, a.call, a.nth)
    BY <1>10, <2>1 DEF Decide
  <2>3. CASE q # r
    BY <1>4, <2>1, <2>2, <2>3, PanelFacts, SubmitApprovalStep
  <2>4. CASE q = r
    <3>1. ASSUME a.run = r PROVE FALSE
      <4>1. approvals[r][a.call][a.nth] # "pending"
        BY <1>2, <2>1, <3>1 DEF Asking, AnyPending, PendingOf
      <4>. QED  BY <1>10, <2>1, <3>1, <4>1 DEF Decide
    <3>. QED  BY <2>2, <2>4, <3>1 DEF SubmitApproval, ApprovalFound
  <2>. QED  BY <2>3, <2>4
<1>. QED
  BY <1>5, <1>6, <1>7, <1>8, <1>9, <1>10
     DEF PanelNext, SendMessage, SendFails, Click, LeaveThread, vars, chatVars

\* No step of the panel or of the planner reopens a completed or failed run.
THEOREM FinishedRunsStayFinished == PanelSpec => FinishedStaysFinished
<1>1. PanelInv /\ [PanelNext]_vars =>
        [\A r \in Runs : run[r].status \in {"completed", "failed"} /\ r \notin redecided'
             => run'[r].status \in {"completed", "failed", "cancelled"}]_vars
  BY FinishedStep
<1>. QED  BY <1>1, PanelInvariant, PTL DEF PanelSpec, FinishedStaysFinished

-----------------------------------------------------------------------------
(* The send button. *)

\* A click takes the lock when it streams, sendMessage holds it until it returns.
WhoStreams ==
    streaming => \/ \E d \in Runs : pc[d] \in Driving \cup {"sending"}
                 \/ \E d \in Clicks : pc[d] \in {"stream", "tokens"}

LEMMA ReadyStreams ==
  ASSUME WhoStreams, PanelTypes, NEW d \in Drivers, NEW s, Ready(d, s), pc[d] \in {"poll", "host"}
  PROVE  WhoStreams'
<1>1. \A e \in Drivers \ {d} : pc'[e] = pc[e]
  BY DEF Ready, Leave, Goto, PanelTypes
<1>2. \/ ~streaming'
      \/ pc'[d] = "stream"
      \/ d \notin Runs /\ UNCHANGED streaming
  BY DEF Ready, Leave, Goto, PanelTypes
<1>3. CASE d \notin Runs /\ UNCHANGED streaming
  BY <1>1, <1>3 DEF WhoStreams, Drivers
<1>4. CASE pc'[d] = "stream"
  BY <1>4 DEF WhoStreams, Drivers, Driving
<1>. QED  BY <1>2, <1>3, <1>4 DEF WhoStreams

\* The call that moves goes on, or was not the one that holds the lock.
LEMMA OneMoves ==
  ASSUME WhoStreams, NEW d \in Drivers, \A e \in Drivers \ {d} : pc'[e] = pc[e], UNCHANGED streaming,
         \/ pc'[d] = pc[d]
         \/ pc'[d] \in Driving \ {"stream"} /\ pc[d] \in {"poll", "host", "decide"}
         \/ pc'[d] = "tokens"
         \/ d \in Clicks \ Runs /\ pc[d] \in {"idle", "decide"}
  PROVE  WhoStreams'
  BY DEF WhoStreams, Drivers, Driving

\* The planner loop moves the calls that awaited it back to polling, and no other.
LEMMA PlannerPc ==
  ASSUME NEW r \in Runs, PlannerLoop(r), PanelTypes
  PROVE  \A e \in Drivers : pc'[e] = pc[e] \/ (pc[e] = "planner" /\ pc'[e] = "poll")
<1>1. UNCHANGED pc \/ LoopEnds(r)
  BY DEF PlannerLoop, PlannerStarts, FetchFails, ModelAnswers, PlannerAdvances, PlannerDegrades,
         NextStep, LoopFails
<1>. QED  BY <1>1 DEF LoopEnds

LEMMA WhoStreamsStep ==
  ASSUME PanelInv, WhoStreams, [PanelNext]_vars
  PROVE  WhoStreams'
<1>1. PanelTypes /\ TargetsOK
  BY PanelFacts
<1>2. ASSUME NEW r \in Runs, SendMessage(r) PROVE WhoStreams'
  <2>1. pc'[r] = "sending"
    BY <1>1, <1>2 DEF SendMessage, Goto, PanelTypes, Drivers
  <2>. QED  BY <2>1 DEF WhoStreams
<1>3. ASSUME NEW r \in Runs, SendStarts(r) PROVE WhoStreams'
  <2>1. pc'[r] = "poll"
    BY <1>1, <1>3 DEF SendStarts, Goto, PanelTypes, Drivers
  <2>. QED  BY <2>1 DEF WhoStreams, Driving
<1>4. ASSUME NEW r \in Runs, PlannerLoop(r) PROVE WhoStreams'
  <2>1. \A e \in Drivers : pc'[e] = pc[e] \/ (pc[e] = "planner" /\ pc'[e] = "poll")
    BY <1>1, <1>4, PlannerPc
  <2>2. UNCHANGED streaming
    BY <1>4 DEF PlannerLoop, PlannerStarts, FetchFails, ModelAnswers, PlannerAdvances,
                PlannerDegrades, signals
  <2>. QED  BY <2>1, <2>2 DEF WhoStreams, Drivers, Driving
<1>5. ASSUME NEW d \in Drivers, Poll(d) PROVE WhoStreams'
  <2>1. pc[d] = "poll"
    BY <1>5 DEF Poll
  <2>2. CASE \E s : Ready(d, s)
    BY <1>1, <2>1, <2>2, ReadyStreams
  <2>3. CASE /\ UNCHANGED streaming
             /\ Goto(d, "planner") \/ Goto(d, "host") \/ UNCHANGED pc
    <3>1. \A e \in Drivers \ {d} : pc'[e] = pc[e]
      BY <1>1, <2>3 DEF Goto, PanelTypes
    <3>2. pc'[d] \in {"planner", "host", pc[d]}
      BY <1>1, <2>3 DEF Goto, PanelTypes
    <3>. QED  BY <2>1, <2>3, <3>1, <3>2, OneMoves DEF Driving
  <2>. QED  BY <1>5, <2>2, <2>3 DEF Poll
<1>6. ASSUME NEW d \in Drivers, HostAnswers(d) PROVE WhoStreams'
  <2>1. pc[d] = "host"
    BY <1>6 DEF HostAnswers
  <2>2. CASE \E s : Ready(d, s)
    BY <1>1, <2>1, <2>2, ReadyStreams
  <2>3. CASE UNCHANGED streaming /\ Goto(d, "poll")
    BY <1>1, <2>1, <2>3, OneMoves DEF Goto, PanelTypes, Driving
  <2>. QED  BY <1>6, <2>2, <2>3 DEF HostAnswers
<1>7. ASSUME NEW d \in Drivers, StreamStarts(d) PROVE WhoStreams'
  BY <1>1, <1>7, OneMoves DEF StreamStarts, Goto, PanelTypes, Driving, signals
<1>8. ASSUME NEW d \in Clicks, Click(d) \/ Decide(d) PROVE WhoStreams'
  <2>1. d \in Drivers /\ d \in Clicks \ Runs
    BY PanelAssumption DEF Drivers
  <2>2. pc[d] \in {"idle", "decide"} /\ UNCHANGED streaming
    BY <1>8 DEF Click, Decide
  <2>3. \A e \in Drivers \ {d} : pc'[e] = pc[e]
    BY <1>1, <1>8 DEF Click, Decide, Leave, Goto, PanelTypes
  <2>. QED  BY <2>1, <2>2, <2>3, OneMoves
<1>9. CASE streaming' = FALSE
  BY <1>9 DEF WhoStreams
<1>10. CASE UNCHANGED <<streaming, pc>>
  BY <1>10 DEF WhoStreams
<1>. QED
  BY <1>2, <1>3, <1>4, <1>5, <1>6, <1>7, <1>8, <1>9, <1>10
     DEF PanelNext, Driver, SendFails, Timeout, Cancel, StreamRefused, StreamEnds, LeaveThread, vars,
         panelVars

LEMMA WhoStreamsInit == PanelInit => WhoStreams
  BY DEF PanelInit, WhoStreams

LEMMA SomeoneStreams == PanelInv /\ WhoStreams => StreamingHasDriver
  BY DEF WhoStreams, StreamingHasDriver, Drivers, Driving

\* The send button is locked only while some call of the panel is under way, for any
\* number of runs: a call that leaves frees it unless another one holds it.
THEOREM SendIsNotLocked == PanelSpec => []StreamingHasDriver
<1>1. PanelInv /\ WhoStreams /\ [PanelNext]_vars => WhoStreams'
  BY WhoStreamsStep
<1>. QED  BY <1>1, WhoStreamsInit, SomeoneStreams, PanelInvariant, PTL DEF PanelSpec

-----------------------------------------------------------------------------
(* What is on screen.  The panel keeps one list of approvals and one current run for all  *)
(* threads, so what follows holds for one run; with two it does not (run chat_second_run). *)

OneRun == \A r, q \in Runs : r = q

ApprovalOf(r, c, k) == [run |-> r, call |-> c, nth |-> k]

\* Unless the user left it, the run that asks or is driven is the current one, and what it
\* asks is shown.
OnScreenAt(r) ==
    /\ Asking(r) \/ DriversOf(r) # {} => current = r
    /\ \A c \in Calls : \A k \in PendingOf(approvals[r], c) : ApprovalOf(r, c, k) \in shown

OnScreen == \A r \in Runs : r \notin left \cup redecided => OnScreenAt(r)

LEMMA ScreenKept ==
  ASSUME NEW r \in Runs, OnScreenAt(r), approvals'[r] = approvals[r], UNCHANGED <<shown, current>>,
         DriversOf(r)' \subseteq DriversOf(r)
  PROVE  OnScreenAt(r)'
<1>1. Asking(r)' = Asking(r)
  BY DEF Asking, AnyPending, PendingOf
<1>. QED  BY <1>1 DEF OnScreenAt

LEMMA ScreenEmpty ==
  ASSUME NEW r \in Runs, ~Asking(r)', DriversOf(r)' = {}
  PROVE  OnScreenAt(r)'
<1>1. \A c \in Calls : PendingOf(approvals'[r], c) = {}
  BY DEF Asking, AnyPending
<1>. QED  BY <1>1 DEF OnScreenAt

\* The calls of the panel show all that the run asks.
LEMMA ScreenRefreshed ==
  ASSUME BaseInv', NEW r \in Runs, OnScreenAt(r), Asking(r) \/ DriversOf(r) # {},
         shown' = PendingNow(r), current' = current
  PROVE  OnScreenAt(r)'
<1>1. \A c \in Calls : \A k \in PendingOf(approvals'[r], c) : ApprovalOf(r, c, k) \in shown'
  <2>. SUFFICES ASSUME NEW c \in Calls, NEW k \in PendingOf(approvals'[r], c)
                PROVE  ApprovalOf(r, c, k) \in PendingNow(r)
    OBVIOUS
  <2>1. /\ approvals'[r][c] \in Seq({"pending", "decided"}) /\ Len(approvals'[r][c]) <= MaxApprovals
        /\ k \in DOMAIN approvals'[r][c] /\ approvals'[r][c][k] = "pending"
    BY DEF BaseInv, IInv, TypeOK, ApprovalsOK, PendingOf
  <2>2. k \in 1..MaxApprovals
    BY <2>1, ChatAssumption
  <2>. QED  BY <2>1, <2>2 DEF PendingNow, Approval, ApprovalOf
<1>. QED  BY <1>1 DEF OnScreenAt

\* The call that drives the run returns: nobody drives it and nothing is asked.
LEMMA ScreenLeft ==
  ASSUME PanelInv, NEW r \in Runs \ redecided, NEW d \in DriversOf(r), Leave(d),
         approvals'[r] = approvals[r]
  PROVE  OnScreenAt(r)'
<1>1. d \in Drivers /\ ~Asking(r) /\ \A e \in DriversOf(r) : e = d
  BY DrivenAlone DEF DriversOf
<1>2. \A e \in Drivers : /\ e # d => pc'[e] = pc[e] /\ RunOf(e)' = RunOf(e)
                         /\ e = d => pc'[e] \notin Driving
  BY <1>1, PanelFacts DEF Leave, Goto, PanelTypes, RunOf, Driving
<1>3. DriversOf(r)' = {}
  BY <1>1, <1>2 DEF DriversOf
<1>4. ~Asking(r)'
  BY <1>1 DEF Asking, AnyPending, PendingOf
<1>. QED  BY <1>3, <1>4, ScreenEmpty

LEMMA PollScreen ==
  ASSUME PanelInv, BaseInv', NEW r \in Runs \ redecided, OnScreenAt(r),
         NEW d \in Drivers, RunOf(d) = r, Poll(d)
  PROVE  OnScreenAt(r)'
<1>1. d \in DriversOf(r)
  BY DEF Poll, DriversOf, Driving
<1>2. shown' = PendingNow(r) /\ UNCHANGED chatVars
  BY DEF Poll
<1>3. current' = current \/ Leave(d)
  BY DEF Poll, Ready
<1>. QED  BY <1>1, <1>2, <1>3, ScreenRefreshed, ScreenLeft DEF chatVars

LEMMA HostScreen ==
  ASSUME PanelInv, BaseInv', NEW r \in Runs \ redecided, OnScreenAt(r),
         NEW d \in Drivers, RunOf(d) = r, HostAnswers(d)
  PROVE  OnScreenAt(r)'
<1>1. d \in DriversOf(r)
  BY DEF HostAnswers, DriversOf, Driving
<1>2. PICK props \in SUBSET (held[d] \cap Proposals) :
          /\ SubmitToolResults(r, held[d], props) /\ shown' = PendingNow(r)
          /\ IF run'[r].status \in {"planning", "awaiting_tool_host"}
             THEN Goto(d, "poll") /\ UNCHANGED <<target, streaming, current, busy>>
             ELSE Ready(d, run'[r].status)
  BY DEF HostAnswers
<1>3. run'[r].status \in {"planning", "awaiting_tool_host", "awaiting_approval"}
  <2>1. \E tr : \E s \in {"planning", "awaiting_tool_host", "awaiting_approval"} : SetRun(r, s, tr)
    BY <1>2 DEF SubmitToolResults
  <2>. QED  BY <2>1, PanelFacts, RowTypes DEF SetRun, RunType
<1>4. current' = current
  BY <1>2, <1>3 DEF Ready
<1>. QED  BY <1>1, <1>2, <1>4, ScreenRefreshed

LEMMA DecideScreen ==
  ASSUME OneRun, PanelInv, BaseInv', NEW r \in Runs, r \notin redecided', OnScreenAt(r),
         NEW d \in Clicks, RunOf(d) \in Runs, Decide(d)
  PROVE  OnScreenAt(r)'
<1>1. PICK a \in Approval : /\ a = target[d].approval /\ a.run \in Runs /\ a.call \in Calls
                            /\ a.nth \in DOMAIN approvals[a.run][a.call]
  BY PanelFacts, InHand DEF Decide, Drivers
<1>2. RunOf(d) = r /\ a.run = r
  BY <1>1 DEF OneRun
<1>3. approvals[r][a.call][a.nth] = "pending"
  BY <1>1, <1>2 DEF Decide
<1>4. Asking(r)
  BY <1>1, <1>2, <1>3 DEF Asking, AnyPending, PendingOf
<1>5. shown' = PendingNow(r) /\ current' = current
  BY <1>1, <1>2 DEF Decide, ApprovalFound
<1>. QED  BY <1>4, <1>5, ScreenRefreshed

LEMMA OnScreenStep ==
  ASSUME OneRun, PanelInv, OnScreen, [PanelNext]_vars
  PROVE  OnScreen'
<1>. SUFFICES ASSUME NEW r \in Runs, r \notin left' \cup redecided'
              PROVE  OnScreenAt(r)'
  BY DEF OnScreen
<1>1. /\ PanelTypes /\ TargetsOK /\ BaseInv' /\ r \notin redecided
      /\ \A d \in Drivers : pc[d] \in Driving \cup {"decide"} => RunOf(d) \in Runs
  BY PanelFacts, BaseStep, RedecidedGrows, InHand
<1>2. CASE LeaveThread
  <2>1. ~Started(r) /\ UNCHANGED <<pc, target, approvals>>
    BY <1>2 DEF LeaveThread, chatVars
  <2>2. ~Asking(r)' /\ DriversOf(r) = {}
    <3>1. \A c \in Calls : approvals[r][c] = <<>>
      BY <2>1 DEF PanelInv, BaseInv, StartedOK
    <3>2. DriversOf(r) = {}
      BY <2>1 DEF PanelInv, BaseInv, StartedOK, DriversOf
    <3>. QED  BY <2>1, <3>1, <3>2 DEF Asking, AnyPending, PendingOf
  <2>3. DriversOf(r)' = {}
    BY <2>1, <2>2 DEF DriversOf, RunOf
  <2>. QED  BY <2>2, <2>3, ScreenEmpty
<1>. SUFFICES ASSUME ~LeaveThread PROVE OnScreenAt(r)'
  BY <1>2
<1>3. ASSUME UNCHANGED left PROVE OnScreenAt(r)
  BY <1>1, <1>3 DEF OnScreen
<1>4. ASSUME NEW q \in Runs, SendMessage(q) PROVE OnScreenAt(r)'
  <2>1. OnScreenAt(r) /\ current' = current /\ UNCHANGED approvals
    BY <1>3, <1>4 DEF SendMessage, history, chatVars
  <2>2. ~Asking(r)
    <3>1. ASSUME Asking(r) PROVE FALSE
      <4>1. current = r /\ shown # {}
        BY <2>1, <3>1 DEF OnScreenAt, Asking, AnyPending
      <4>. QED  BY <1>4, <4>1, PanelAssumption DEF SendMessage
    <3>. QED  BY <3>1
  <2>3. DriversOf(r)' \subseteq DriversOf(r)
    BY <1>1, <1>4, <2>1 DEF SendMessage, Goto, PanelTypes, DriversOf, RunOf, Driving
  <2>4. \A c \in Calls : PendingOf(approvals'[r], c) = {}
    BY <2>1, <2>2 DEF Asking, AnyPending
  <2>. QED  BY <2>1, <2>3, <2>4 DEF OnScreenAt, Asking, AnyPending
<1>5. ASSUME NEW q \in Runs, SendStarts(q) PROVE OnScreenAt(r)'
  <2>1. q = r
    BY DEF OneRun
  <2>2. current' = r /\ ~Started(r) /\ UNCHANGED approvals
    BY <1>5, <2>1 DEF SendStarts, StartRun
  <2>3. \A c \in Calls : PendingOf(approvals'[r], c) = {}
    BY <2>2 DEF PanelInv, BaseInv, StartedOK, PendingOf
  <2>. QED  BY <2>2, <2>3 DEF OnScreenAt
<1>6. ASSUME NEW q \in Runs, SendFails(q) PROVE OnScreenAt(r)'
  <2>1. OnScreenAt(r) /\ UNCHANGED <<approvals, shown, current>> /\ Leave(q)
    BY <1>3, <1>6 DEF SendFails, history, chatVars
  <2>2. DriversOf(r)' \subseteq DriversOf(r)
    BY <1>1, <2>1 DEF Leave, Goto, PanelTypes, DriversOf, RunOf, Driving
  <2>. QED  BY <2>1, <2>2, ScreenKept
<1>7. ASSUME NEW q \in Runs, PlannerLoop(q) PROVE OnScreenAt(r)'
  <2>1. OnScreenAt(r) /\ UNCHANGED <<approvals, shown, current, target>>
    BY <1>3, <1>7 DEF PlannerLoop, PlannerStarts, FetchFails, ModelAnswers, PlannerAdvances,
                      PlannerDegrades, history, signals, GetStep, SubmitModelResponse, ModelCalls,
                      Advance, AdvanceFails, DegradeRun, chatVars
  <2>2. DriversOf(r)' \subseteq DriversOf(r)
    <3>1. \A e \in Drivers : pc'[e] \in Driving => pc[e] \in Driving
      BY <1>1, <1>7, PlannerPc DEF Driving
    <3>. QED  BY <2>1, <3>1 DEF DriversOf, RunOf
  <2>. QED  BY <2>1, <2>2, ScreenKept
<1>8. ASSUME NEW q \in Runs, Timeout(q) \/ Cancel(q) PROVE OnScreenAt(r)'
  <2>1. OnScreenAt(r) /\ UNCHANGED <<approvals, shown, current, target, pc>>
    BY <1>3, <1>8 DEF Timeout, Cancel, DeadlinePasses, CancelRun, panelVars
  <2>. QED  BY <2>1, ScreenKept DEF DriversOf, RunOf
<1>9. ASSUME NEW d \in Drivers, Driver(d) PROVE OnScreenAt(r)'
  <2>1. RunOf(d) = r
    BY <1>1, <1>9
       DEF OneRun, Driver, Poll, HostAnswers, StreamStarts, StreamRefused, StreamEnds, Driving
  <2>2. OnScreenAt(r)
    BY <1>3, <1>9
       DEF Driver, Poll, HostAnswers, StreamStarts, StreamRefused, StreamEnds, history
  <2>3. CASE StreamStarts(d)
    <3>1. UNCHANGED <<approvals, shown, current, target>> /\ pc[d] = "stream" /\ Goto(d, "tokens")
      BY <2>3 DEF StreamStarts, signals, MarkStreaming
    <3>2. DriversOf(r)' \subseteq DriversOf(r)
      BY <1>1, <3>1 DEF Goto, PanelTypes, DriversOf, RunOf, Driving
    <3>. QED  BY <2>2, <3>1, <3>2, ScreenKept
  <2>4. CASE StreamRefused(d) \/ StreamEnds(d)
    <3>1. Leave(d) /\ UNCHANGED approvals /\ d \in DriversOf(r)
      BY <2>1, <2>4 DEF StreamRefused, StreamEnds, CompleteRun, chatVars, DriversOf, Driving
    <3>. QED  BY <1>1, <3>1, ScreenLeft
  <2>. QED  BY <1>1, <1>9, <2>1, <2>2, <2>3, <2>4, PollScreen, HostScreen DEF Driver
<1>10. ASSUME NEW d \in Clicks, Click(d) PROVE OnScreenAt(r)'
  <2>1. OnScreenAt(r) /\ UNCHANGED <<approvals, shown, current>>
    BY <1>3, <1>10 DEF Click, chatVars
  <2>2. DriversOf(r)' \subseteq DriversOf(r)
    BY <1>1, <1>10 DEF Click, Goto, PanelTypes, DriversOf, RunOf, Driving, Drivers
  <2>. QED  BY <2>1, <2>2, ScreenKept
<1>11. ASSUME NEW d \in Clicks, Decide(d) PROVE OnScreenAt(r)'
  <2>1. OnScreenAt(r) /\ RunOf(d) \in Runs
    BY <1>1, <1>3, <1>11 DEF Decide, Drivers
  <2>. QED  BY <1>1, <1>11, <2>1, DecideScreen
<1>12. CASE UNCHANGED vars
  <2>1. OnScreenAt(r) /\ UNCHANGED <<approvals, shown, current, target, pc>>
    BY <1>3, <1>12 DEF vars
  <2>. QED  BY <2>1, ScreenKept DEF DriversOf, RunOf
<1>. QED
  BY <1>4, <1>5, <1>6, <1>7, <1>8, <1>9, <1>10, <1>11, <1>12 DEF PanelNext

LEMMA OnScreenInit == PanelInit => OnScreen
<1>. SUFFICES ASSUME PanelInit, NEW r \in Runs PROVE OnScreenAt(r)
  BY DEF OnScreen
<1>1. \A c \in Calls : PendingOf(approvals[r], c) = {}
  BY DEF PanelInit, Init, PendingOf
<1>2. DriversOf(r) = {}
  BY DEF PanelInit, DriversOf, Driving
<1>. QED  BY <1>1, <1>2 DEF OnScreenAt, Asking, AnyPending

LEMMA ShownIsDecidable == PanelInv /\ OnScreen => AwaitingIsDecidable
<1>. SUFFICES ASSUME PanelInv, OnScreen, NEW r \in Runs \ (left \cup redecided),
                     run[r].status = "awaiting_approval"
              PROVE  current = r /\ \E a \in shown : a.run = r /\ approvals[r][a.call][a.nth] = "pending"
  BY DEF AwaitingIsDecidable
<1>1. Asking(r) /\ OnScreenAt(r)
  BY PanelFacts DEF ApprovalsOK, OnScreen
<1>2. PICK c \in Calls : \E k \in PendingOf(approvals[r], c) : ApprovalOf(r, c, k) \in shown
  BY <1>1 DEF Asking, AnyPending, OnScreenAt
<1>3. PICK k \in PendingOf(approvals[r], c) : ApprovalOf(r, c, k) \in shown
  BY <1>2
<1>4. /\ ApprovalOf(r, c, k).run = r
      /\ approvals[r][ApprovalOf(r, c, k).call][ApprovalOf(r, c, k).nth] = "pending"
  BY <1>3 DEF ApprovalOf, PendingOf
<1>. QED  BY <1>1, <1>3, <1>4 DEF OnScreenAt, Asking

\* A run that awaits approval is not stuck, with any number of calls, approvals and clicks:
\* its pending approvals are on screen and their buttons reach it.
THEOREM AwaitedApprovalsAreOnScreen ==
  ASSUME OneRun
  PROVE  PanelSpec => []AwaitingIsDecidable
<1>1. PanelInv /\ OnScreen /\ [PanelNext]_vars => OnScreen'
  BY OnScreenStep
<1>. QED  BY <1>1, OnScreenInit, ShownIsDecidable, PanelInvariant, PTL DEF PanelSpec

LEMMA AppliedStep ==
  ASSUME OneRun, PanelInv, AppliedIsReported, [PanelNext]_vars
  PROVE  AppliedIsReported'
<1>1. PanelTypes /\ \A d \in Drivers : pc[d] = "decide" => RunOf(d) \in Runs
  BY PanelFacts, InHand
<1>2. CASE /\ UNCHANGED applied
           /\ \A e \in Clicks : pc[e] = "decide" => pc'[e] = "decide" /\ target'[e] = target[e]
  BY <1>2 DEF AppliedIsReported
<1>3. ASSUME NEW d \in Drivers, \A e \in Drivers \ {d} : pc'[e] = pc[e] /\ target'[e] = target[e],
             pc[d] # "decide", UNCHANGED applied
      PROVE  AppliedIsReported'
  BY <1>3 DEF AppliedIsReported, Drivers
<1>4. ASSUME NEW r \in Runs, SendMessage(r) \/ SendStarts(r) \/ SendFails(r) PROVE AppliedIsReported'
  <2>1. \A e \in Drivers \ {r} : pc'[e] = pc[e] /\ target'[e] = target[e]
    BY <1>1, <1>4 DEF SendMessage, SendStarts, SendFails, Leave, Goto, PanelTypes
  <2>. QED  BY <1>3, <1>4, <2>1 DEF SendMessage, SendStarts, SendFails, history, Drivers
<1>5. ASSUME NEW r \in Runs, PlannerLoop(r) PROVE AppliedIsReported'
  <2>1. UNCHANGED <<applied, target>>
    BY <1>5 DEF PlannerLoop, PlannerStarts, FetchFails, ModelAnswers, PlannerAdvances,
                PlannerDegrades, history
  <2>. QED  BY <1>1, <1>2, <1>5, <2>1, PlannerPc DEF Drivers
<1>6. ASSUME NEW d \in Drivers, Driver(d) PROVE AppliedIsReported'
  <2>1. \A e \in Drivers \ {d} : pc'[e] = pc[e] /\ target'[e] = target[e]
    BY <1>1, <1>6 DEF Driver, Poll, HostAnswers, StreamStarts, StreamRefused, StreamEnds, Ready,
                      Leave, Goto, PanelTypes
  <2>. QED  BY <1>3, <1>6, <2>1
            DEF Driver, Poll, HostAnswers, StreamStarts, StreamRefused, StreamEnds, history
<1>7. ASSUME NEW d \in Clicks, Click(d) PROVE AppliedIsReported'
  <2>1. PICK a \in shown : /\ target' = [target EXCEPT ![d] = [run |-> current, approval |-> a]]
                           /\ applied' \subseteq applied \cup {a}
    BY <1>7 DEF Click
  <2>2. /\ d \in Drivers /\ pc[d] = "idle" /\ pc'[d] = "decide" /\ target'[d].approval = a
        /\ \A e \in Drivers \ {d} : pc'[e] = pc[e] /\ target'[e] = target[e]
    BY <1>1, <1>7, <2>1 DEF Click, Goto, PanelTypes, Drivers
  <2>. QED  BY <2>1, <2>2 DEF AppliedIsReported, Drivers
<1>8. ASSUME NEW d \in Clicks, Decide(d) PROVE AppliedIsReported'
  <2>1. /\ d \in Drivers /\ pc[d] = "decide" /\ RunOf(d) = target[d].approval.run
    BY <1>1, <1>8, PanelFacts, InHand DEF Decide, Drivers, OneRun
  <2>2. applied' = applied \ {target[d].approval}
    BY <1>8, <2>1 DEF Decide, ApprovalFound
  <2>3. \A e \in Drivers \ {d} : pc'[e] = pc[e] /\ target'[e] = target[e]
    BY <1>1, <1>8 DEF Decide, Leave, Goto, PanelTypes
  <2>. QED  BY <2>2, <2>3 DEF AppliedIsReported, Drivers
<1>9. CASE LeaveThread
  BY <1>2, <1>9 DEF LeaveThread
<1>10. CASE UNCHANGED vars
  BY <1>2, <1>10 DEF vars
<1>11. ASSUME NEW r \in Runs, Timeout(r) \/ Cancel(r) PROVE AppliedIsReported'
  BY <1>2, <1>11 DEF Timeout, Cancel, panelVars
<1>. QED
  BY <1>4, <1>5, <1>6, <1>7, <1>8, <1>9, <1>10, <1>11 DEF PanelNext

LEMMA AppliedInit == PanelInit => AppliedIsReported
  BY DEF PanelInit, AppliedIsReported

\* An edit made in the note is reported to the run that proposed it before its decision
\* returns, with any number of calls, approvals and clicks.
THEOREM AppliedEditsAreReported ==
  ASSUME OneRun
  PROVE  PanelSpec => []AppliedIsReported
<1>1. PanelInv /\ AppliedIsReported /\ [PanelNext]_vars => AppliedIsReported'
  BY AppliedStep
<1>. QED  BY <1>1, AppliedInit, PanelInvariant, PTL DEF PanelSpec

-----------------------------------------------------------------------------
(* The panel uses the runtime as its specification allows: every step of the panel is a *)
(* command of module ChatRuns or leaves the rows alone.  What has to be shown is that   *)
(* the calls it answers and the approvals it decides are ones the runtime knows.        *)

KnownRow(r) ==
    /\ pendingHost[r] \subseteq Known(r)
    /\ \A c \in Calls : InRound(r, c) => run[r].tr.answer[c] # "none"

KnownOK ==
    /\ \A r \in Runs : KnownRow(r)
    /\ \A d \in Drivers : pc[d] = "host" => held[d] \subseteq Known(RunOf(d))

\* A call once asked stays known.
StaysKnown(r) ==
    \A c \in Calls : run'[r].tr.answer[c] = "none" => run[r].tr.answer[c] = "none"

LEMMA KnownKept ==
  ASSUME NEW r \in Runs, KnownRow(r), StaysKnown(r), pendingHost'[r] \subseteq Calls,
         \A c \in pendingHost'[r] : c \in pendingHost[r] \/ (c \in Host /\ InRound(r, c)),
         \A c \in Calls : InRound(r, c)' => InRound(r, c) \/ run'[r].tr.answer[c] # "none"
  PROVE  KnownRow(r)'
<1>1. \A c \in pendingHost'[r] : c \in Host /\ run'[r].tr.answer[c] # "none"
  BY DEF KnownRow, Known, StaysKnown
<1>2. \A c \in Calls : InRound(r, c)' => run'[r].tr.answer[c] # "none"
  BY DEF KnownRow, StaysKnown
<1>. QED  BY <1>1, <1>2 DEF KnownRow, Known

\* A command that stores the transcript tr and drops the session or leaves it.
LEMMA StoredKnown ==
  ASSUME IInv, IInv', NEW r \in Runs, KnownRow(r), session'[r] \in {session[r], NoSession},
         pendingHost'[r] \subseteq pendingHost[r], StaysKnown(r)
  PROVE  KnownRow(r)'
<1>1. pendingHost'[r] \subseteq Calls /\ \A c \in Calls : InRound(r, c)' => InRound(r, c)
  BY RowTypes DEF InRound
<1>. QED  BY <1>1, KnownKept

LEMMA RowStored ==
  ASSUME IInv, NEW r \in Runs, NEW s, NEW tr, SetRun(r, s, tr)
  PROVE  run'[r].tr = tr
  BY RowTypes DEF SetRun, RunType

\* The planner has the transcript tr, and asks the model again or gives up.
LEMMA RequestKnown ==
  ASSUME IInv, IInv', NEW r \in Runs, KnownRow(r), UNCHANGED pendingHost, NEW tr \in Transcript,
         \A c \in Calls : tr.answer[c] = "none" => run[r].tr.answer[c] = "none",
         Request(r, tr) \/ \E s : SetRun(r, s, tr) /\ DropSession(r)
  PROVE  StaysKnown(r) /\ KnownRow(r)'
<1>1. /\ run'[r].tr = tr
      /\ session'[r] = [step |-> "model", round |-> {}, tr |-> tr] \/ session'[r] = NoSession
  <2>1. CASE Request(r, tr)
    BY <2>1, RowTypes DEF Request, RunType
  <2>2. ASSUME NEW s, SetRun(r, s, tr) PROVE run'[r].tr = tr
    BY <2>2, RowStored
  <2>3. DropSession(r) => session'[r] = NoSession
    BY RowTypes DEF DropSession
  <2>. QED  BY <2>1, <2>2, <2>3
<1>2. StaysKnown(r) /\ pendingHost'[r] \subseteq Calls /\ \A c \in Calls : ~InRound(r, c)'
  BY <1>1, RowTypes DEF StaysKnown, InRound
<1>. QED  BY <1>2, KnownKept

LEMMA StatusKnown ==
  ASSUME IInv, ApprovalsOK, NEW r \in Runs, KnownRow(r),
         \/ StartRun(r) \/ MarkStreaming(r) \/ CompleteRun(r) \/ CancelRun(r) \/ DegradeRun(r)
         \/ DeadlinePasses(r)
  PROVE  RowStep(r) /\ StaysKnown(r) /\ KnownRow(r)'
<1>1. RowStep(r) /\ IInv'
  BY StartRunStep, MarkStreamingStep, CompleteRunStep, CancelRunStep, DegradeRunStep, DeadlinePassesStep
<1>2. (\E s : SetStatus(r, s)) \/ DeadlinePasses(r)
  BY DEF StartRun, MarkStreaming, CompleteRun, CancelRun, DegradeRun
<1>3. pendingHost' = pendingHost /\ (DropSession(r) \/ UNCHANGED session)
  BY DEF StartRun, MarkStreaming, CompleteRun, CancelRun, DegradeRun, DeadlinePasses
<1>4. run'[r].tr = run[r].tr /\ session'[r] \in {session[r], NoSession}
  BY <1>2, <1>3, RowTypes DEF SetStatus, DeadlinePasses, DropSession, RunType
<1>. QED  BY <1>1, <1>3, <1>4, StoredKnown DEF StaysKnown

LEMMA ResultsKnown ==
  ASSUME IInv, ApprovalsOK, NEW r \in Runs, KnownRow(r), SubmitAnyResults(r)
  PROVE  RowStep(r) /\ StaysKnown(r) /\ KnownRow(r)'
<1>1. PICK H \in SUBSET Known(r), props \in SUBSET Proposals : SubmitToolResults(r, H, props)
  BY DEF SubmitAnyResults
<1>2. RowStep(r) /\ IInv'
  BY <1>1, SubmitToolResultsStep, ChatAssumption
<1>3. PICK s, tr : SetRun(r, s, tr) /\ tr = AllAnswered(run[r].tr, H \ props)
  BY <1>1 DEF SubmitToolResults
<1>4. /\ run'[r].tr = tr /\ session'[r] = NoSession /\ pendingHost'[r] \subseteq pendingHost[r]
  BY <1>1, <1>3, RowTypes DEF SubmitToolResults, SetRun, DropSession, RunType
<1>5. StaysKnown(r)
  BY <1>3, <1>4, RunTranscript, AnswersOf DEF StaysKnown
<1>. QED  BY <1>2, <1>4, <1>5, StoredKnown

LEMMA ApprovalKnown ==
  ASSUME IInv, ApprovalsOK, NEW r \in Runs, KnownRow(r), SubmitAnyApproval(r)
  PROVE  RowStep(r) /\ StaysKnown(r) /\ KnownRow(r)'
<1>1. PICK owner \in Runs, c \in Calls :
          \E k \in DOMAIN approvals[owner][c] : SubmitApproval(r, owner, c, k)
  BY DEF SubmitAnyApproval
<1>2. PICK k \in DOMAIN approvals[owner][c] : SubmitApproval(r, owner, c, k)
  BY <1>1
<1>3. RowStep(r) /\ IInv'
  BY <1>2, SubmitApprovalStep
<1>4. /\ \/ UNCHANGED <<run, pendingHost>>
         \/ /\ \E s, tr : SetRun(r, s, tr) /\ tr \in {Answered(run[r].tr, c), Repeated(run[r].tr, c)}
            /\ pendingHost' = [pendingHost EXCEPT ![r] = pendingHost[r] \ {c}]
      /\ DropSession(r)
  BY <1>2 DEF SubmitApproval
<1>5. /\ run'[r].tr \in {run[r].tr, Answered(run[r].tr, c), Repeated(run[r].tr, c)}
      /\ session'[r] = NoSession /\ pendingHost'[r] \subseteq pendingHost[r]
  <2>1. session'[r] = NoSession
    BY <1>4, RowTypes DEF DropSession
  <2>2. ASSUME NEW s, NEW tr, SetRun(r, s, tr) PROVE run'[r].tr = tr
    BY <2>2, RowStored
  <2>3. pendingHost'[r] \subseteq pendingHost[r]
    BY <1>4, RowTypes
  <2>. QED  BY <1>4, <2>1, <2>2, <2>3
<1>6. StaysKnown(r)
  BY <1>5, RunTranscript DEF StaysKnown, Answered, Repeated, Transcript
<1>. QED  BY <1>3, <1>5, <1>6, StoredKnown

LEMMA GetStepKnown ==
  ASSUME IInv, ApprovalsOK, NEW r \in Runs, KnownRow(r), GetStep(r)
  PROVE  RowStep(r) /\ StaysKnown(r) /\ KnownRow(r)'
<1>1. RowStep(r) /\ IInv' /\ UNCHANGED pendingHost
  BY GetStepStep DEF GetStep
<1>2. /\ run'[r].tr = run[r].tr
      /\ \/ session'[r] \in {session[r], NoSession}
         \/ session'[r] = [step |-> "model", round |-> {}, tr |-> run[r].tr]
  <2>1. CASE UNCHANGED <<run, session>>
    BY <2>1
  <2>2. CASE SetStatus(r, "degraded") /\ DropSession(r)
    BY <2>2, RowTypes DEF SetStatus, DropSession, RunType
  <2>3. CASE /\ session' = [session EXCEPT ![r] =
                   IF session[r] # NoSession THEN session[r]
                   ELSE [step |-> "model", round |-> {}, tr |-> run[r].tr]]
             /\ SetRun(r, "planning", session'[r].tr)
    <3>1. session'[r] = IF session[r] # NoSession THEN session[r]
                        ELSE [step |-> "model", round |-> {}, tr |-> run[r].tr]
      BY <2>3, RowTypes
    <3>2. run'[r].tr = session'[r].tr
      BY <2>3, RowTypes DEF SetRun, RunType
    <3>3. session'[r].tr = run[r].tr
      BY <3>1, SessionTranscript
    <3>. QED  BY <3>1, <3>2, <3>3
  <2>. QED  BY <2>1, <2>2, <2>3 DEF GetStep
<1>3. StaysKnown(r) /\ pendingHost'[r] \subseteq Calls
  BY <1>1, <1>2, RowTypes DEF StaysKnown
<1>4. \A c \in Calls : InRound(r, c)' => InRound(r, c)
  BY <1>2 DEF InRound
<1>. QED  BY <1>1, <1>3, <1>4, KnownKept

LEMMA ModelResponseKnown ==
  ASSUME IInv, ApprovalsOK, NEW r \in Runs, KnownRow(r), SubmitModelResponse(r)
  PROVE  RowStep(r) /\ StaysKnown(r) /\ KnownRow(r)'
<1>1. RowStep(r) /\ IInv' /\ UNCHANGED pendingHost
  BY SubmitModelResponseStep DEF SubmitModelResponse, chatVars, ModelCalls
<1>2. CASE UNCHANGED chatVars
  <2>1. StaysKnown(r) /\ UNCHANGED <<session, pendingHost>>
    BY <1>2 DEF chatVars, StaysKnown
  <2>. QED  BY <1>1, <2>1, StoredKnown
<1>3. CASE session[r] # NoSession /\ session[r].step = "model"
  <2>. DEFINE t == [session[r].tr EXCEPT !.final = TRUE]
  <2>1. session[r].tr = run[r].tr /\ session[r].tr \in Transcript
    BY <1>3, SessionTranscript
  <2>2. t \in Transcript /\ \A c \in Calls : t.answer[c] = run[r].tr.answer[c]
    BY <2>1, FinalType, AnswersOf
  <2>3. ASSUME NEW T \in SUBSET Calls, ModelCalls(r, T) PROVE StaysKnown(r) /\ KnownRow(r)'
    <3>. DEFINE tr == Asked(session[r].tr, T)
    <3>1. \A c \in Calls : tr.answer[c] = IF c \in T THEN "asked" ELSE run[r].tr.answer[c]
      BY <2>1, AnswersOf
    <3>2. /\ session' = [session EXCEPT ![r] = [step |-> "tools", round |-> T, tr |-> tr]]
          /\ run' = [run EXCEPT ![r].tr = tr]
      BY <2>3 DEF ModelCalls
    <3>. HIDE DEF tr
    <3>3. session'[r].round = T /\ run'[r].tr = tr
      BY <3>2, RowTypes DEF RunType
    <3>4. StaysKnown(r) /\ pendingHost'[r] = pendingHost[r] /\ pendingHost'[r] \subseteq Calls
      BY <1>1, <3>1, <3>3, RowTypes DEF StaysKnown
    <3>5. \A c \in Calls : InRound(r, c)' => run'[r].tr.answer[c] # "none"
      BY <3>1, <3>3 DEF InRound
    <3>. QED  BY <3>4, <3>5, KnownKept
  <2>4. FreeCalls(r, session[r].tr) \subseteq Calls
    BY DEF FreeCalls
  <2>5. \/ \E T \in SUBSET Calls : ModelCalls(r, T)
        \/ \E s : SetRun(r, s, session[r].tr) /\ DropSession(r)
        \/ Request(r, t)
    BY <1>3, <2>4 DEF SubmitModelResponse, GiveUp
  <2>. HIDE DEF t
  <2>6. CASE \E s : SetRun(r, s, session[r].tr) /\ DropSession(r)
    BY <1>1, <2>1, <2>6, RequestKnown
  <2>7. CASE Request(r, t)
    BY <1>1, <2>2, <2>7, RequestKnown
  <2>. QED  BY <1>1, <2>3, <2>5, <2>6, <2>7
<1>. QED  BY <1>2, <1>3 DEF SubmitModelResponse

LEMMA AdvanceKnown ==
  ASSUME IInv, ApprovalsOK, NEW r \in Runs, KnownRow(r), Advance(r) \/ AdvanceFails(r)
  PROVE  RowStep(r) /\ StaysKnown(r) /\ KnownRow(r)'
<1>1. RowStep(r) /\ IInv'
  BY AdvanceStep, AdvanceFailsStep
<1>2. CASE UNCHANGED <<run, pendingHost, session>>
  <2>1. StaysKnown(r)
    BY <1>2 DEF StaysKnown
  <2>. QED  BY <1>1, <1>2, <2>1, StoredKnown
<1>3. CASE AdvanceReady(r)
  <2>1. PICK T \in SUBSET Calls : T = session[r].round
    BY <1>3, SessionTranscript DEF AdvanceReady
  <2>2. /\ session[r].tr = run[r].tr /\ session[r].tr \in Transcript
        /\ \A c \in T : InRound(r, c)
    BY <1>3, <2>1, SessionTranscript DEF AdvanceReady, InRound
  <2>. DEFINE tr == AllAnswered(session[r].tr, T \ Host)
              t  == [tr EXCEPT !.final = TRUE]
  <2>3. /\ tr \in Transcript /\ t \in Transcript
        /\ \A c \in Calls : tr.answer[c] = "none" => run[r].tr.answer[c] = "none"
        /\ \A c \in Calls : t.answer[c] = tr.answer[c]
    <3>1. tr \in Transcript
      BY <2>2, AllAnsweredType
    <3>2. \A c \in Calls : tr.answer[c] = "none" => run[r].tr.answer[c] = "none"
      BY <2>2, AnswersOf
    <3>. HIDE DEF tr
    <3>3. t \in Transcript /\ \A c \in Calls : t.answer[c] = tr.answer[c]
      BY <3>1, FinalType, AnswersOf
    <3>. QED  BY <3>1, <3>2, <3>3
  <2>4. \A c \in Calls : t.answer[c] = "none" => run[r].tr.answer[c] = "none"
    BY <2>3
  <2>5. ASSUME DropSession(r), StaysKnown(r), NEW D \in SUBSET (T \cap Host),
               pendingHost' = [pendingHost EXCEPT ![r] = pendingHost[r] \cup D]
        PROVE  KnownRow(r)'
    <3>1. session'[r] = NoSession /\ pendingHost'[r] = pendingHost[r] \cup D /\ pendingHost'[r] \subseteq Calls
      BY <2>5, RowTypes DEF DropSession
    <3>2. \A c \in Calls : ~InRound(r, c)'
      BY <3>1 DEF InRound
    <3>. QED  BY <2>2, <2>5, <3>1, <3>2, KnownKept
  <2>6. CASE AdvanceFails(r)
    <3>1. PICK D \in SUBSET (T \cap Host) : pendingHost' = [pendingHost EXCEPT ![r] = pendingHost[r] \cup D]
      BY <2>1, <2>6 DEF AdvanceFails, ToolStoreError
    <3>2. DropSession(r) /\ StaysKnown(r)
      BY <2>6 DEF AdvanceFails, ToolStoreError, StaysKnown
    <3>. QED  BY <1>1, <2>5, <3>1, <3>2
  <2>7. CASE GiveUp(r, session[r].tr) /\ UNCHANGED pendingHost
    BY <1>1, <2>2, <2>7, RequestKnown DEF GiveUp
  <2>8. ASSUME NEW stalled \in BOOLEAN, ToolsRan(r, stalled) PROVE StaysKnown(r) /\ KnownRow(r)'
    <3>1. CASE T \cap Host # {}
      <4>1. /\ pendingHost' = [pendingHost EXCEPT ![r] = pendingHost[r] \cup (T \cap Host)]
            /\ SetRun(r, "awaiting_tool_host", tr) /\ DropSession(r)
        BY <2>1, <2>8, <3>1 DEF ToolsRan
      <4>. HIDE DEF tr
      <4>2. StaysKnown(r)
        BY <2>3, <4>1, RowTypes DEF SetRun, RunType, StaysKnown
      <4>. QED  BY <2>5, <4>1, <4>2
    <3>2. CASE T \cap Host = {}
      <4>1. UNCHANGED pendingHost /\ (GiveUp(r, tr) \/ Request(r, tr) \/ Request(r, t))
        BY <2>1, <2>8, <3>2 DEF ToolsRan
      <4>. HIDE DEF tr, t
      <4>2. CASE GiveUp(r, tr) \/ Request(r, tr)
        BY <1>1, <2>3, <4>1, <4>2, RequestKnown DEF GiveUp
      <4>3. CASE Request(r, t)
        BY <1>1, <2>3, <2>4, <4>1, <4>3, RequestKnown
      <4>. QED  BY <4>1, <4>2, <4>3
    <3>. QED  BY <3>1, <3>2
  <2>. QED  BY <1>1, <1>3, <2>6, <2>7, <2>8, <1>2 DEF Advance
<1>. QED  BY <1>2, <1>3 DEF Advance, AdvanceFails

LEMMA CommandKnown ==
  ASSUME IInv, ApprovalsOK, NEW r \in Runs, \A q \in Runs : KnownRow(q), Command(r)
  PROVE  \A q \in Runs : StaysKnown(q) /\ KnownRow(q)'
<1>1. RowStep(r) /\ StaysKnown(r) /\ KnownRow(r)'
  BY StatusKnown, ResultsKnown, ApprovalKnown, GetStepKnown, ModelResponseKnown, AdvanceKnown DEF Command
<1>. SUFFICES ASSUME NEW q \in Runs \ {r} PROVE StaysKnown(q) /\ KnownRow(q)'
  BY <1>1
<1>2. SameRow(q)
  BY <1>1 DEF RowStep
<1>. QED  BY <1>2 DEF SameRow, StaysKnown, KnownRow, Known, InRound

LEMMA PanelStepIsCommand ==
  ASSUME PanelInv, KnownOK, [PanelNext]_vars
  PROVE  [Next]_chatVars
<1>1. ASSUME NEW r \in Runs,
             \/ SendStarts(r) \/ PlannerLoop(r) \/ Timeout(r) \/ Cancel(r)
      PROVE  Command(r) \/ UNCHANGED chatVars
  BY <1>1 DEF SendStarts, PlannerLoop, PlannerStarts, FetchFails, ModelAnswers, PlannerAdvances,
              PlannerDegrades, Timeout, Cancel, Command
<1>2. ASSUME NEW d \in Drivers, HostAnswers(d) PROVE Command(RunOf(d)) /\ RunOf(d) \in Runs
  <2>1. held[d] \in SUBSET Known(RunOf(d)) /\ RunOf(d) \in Runs
    BY <1>2, PanelFacts, InHand DEF HostAnswers, KnownOK, Driving
  <2>2. \E props \in SUBSET (held[d] \cap Proposals) : SubmitToolResults(RunOf(d), held[d], props)
    BY <1>2 DEF HostAnswers
  <2>. QED  BY <2>1, <2>2 DEF Command, SubmitAnyResults
<1>3. ASSUME NEW d \in Drivers, StreamStarts(d) \/ StreamEnds(d)
      PROVE  Command(RunOf(d)) /\ RunOf(d) \in Runs
  BY <1>3, PanelFacts, InHand DEF StreamStarts, StreamEnds, Driving, Command
<1>4. ASSUME NEW d \in Clicks, Decide(d) PROVE Command(RunOf(d)) /\ RunOf(d) \in Runs
  <2>1. PICK r \in Runs, a \in Approval : /\ r = RunOf(d) /\ a = target[d].approval
                                          /\ a.run \in Runs /\ a.call \in Calls
                                          /\ a.nth \in DOMAIN approvals[a.run][a.call]
    BY <1>4, PanelFacts, InHand DEF Decide, Drivers
  <2>2. SubmitApproval(r, a.run, a.call, a.nth)
    BY <1>4, <2>1 DEF Decide
  <2>. QED  BY <2>1, <2>2 DEF Command, SubmitAnyApproval
<1>5. (\E r \in Runs : Command(r)) \/ UNCHANGED chatVars
  BY <1>1, <1>2, <1>3, <1>4
     DEF PanelNext, Driver, SendMessage, SendFails, Poll, StreamRefused, Click, LeaveThread, vars,
         chatVars
<1>. QED  BY <1>5 DEF Next

\* A call that executes host calls has just taken them from the run, or had them.
LEMMA HostCallsTaken ==
  ASSUME PanelInv, [PanelNext]_vars, NEW e \in Drivers, pc'[e] = "host"
  PROVE  /\ RunOf(e)' = RunOf(e) /\ RunOf(e) \in Runs
         /\ \/ pc[e] = "host" /\ held'[e] = held[e]
            \/ held'[e] = pendingHost[RunOf(e)]
<1>1. PanelTypes
  BY PanelFacts
<1>2. pc[e] = "host" => RunOf(e) \in Runs
  BY PanelFacts, InHand DEF Driving
<1>3. ASSUME pc'[e] = pc[e], target'[e] = target[e], held'[e] = held[e]
      PROVE  /\ RunOf(e)' = RunOf(e) /\ RunOf(e) \in Runs
             /\ pc[e] = "host" /\ held'[e] = held[e]
  BY <1>2, <1>3 DEF RunOf
<1>4. ASSUME NEW r \in Runs, SendMessage(r) \/ SendStarts(r) \/ SendFails(r)
      PROVE  pc'[e] = pc[e] /\ target'[e] = target[e] /\ held'[e] = held[e]
  BY <1>1, <1>4 DEF SendMessage, SendStarts, SendFails, Leave, Goto, PanelTypes, Drivers
<1>5. ASSUME NEW r \in Runs, PlannerLoop(r)
      PROVE  pc'[e] = pc[e] /\ target'[e] = target[e] /\ held'[e] = held[e]
  <2>1. UNCHANGED <<target, held>>
    BY <1>5 DEF PlannerLoop, PlannerStarts, FetchFails, ModelAnswers, PlannerAdvances, PlannerDegrades
  <2>. QED  BY <1>1, <1>5, <2>1, PlannerPc
<1>6. ASSUME NEW d \in Drivers, Poll(d), d # e
      PROVE  pc'[e] = pc[e] /\ target'[e] = target[e] /\ held'[e] = held[e]
  BY <1>1, <1>6 DEF Poll, Ready, Leave, Goto, PanelTypes
<1>7. ASSUME Poll(e)
      PROVE  RunOf(e)' = RunOf(e) /\ RunOf(e) \in Runs /\ held'[e] = pendingHost[RunOf(e)]
  <2>1. pc[e] = "poll" /\ RunOf(e) \in Runs
    BY <1>7, PanelFacts, InHand DEF Poll, Driving
  <2>2. /\ held' = [held EXCEPT ![e] = pendingHost[RunOf(e)]] /\ target' = target
    BY <1>1, <1>7, <2>1 DEF Poll, Ready, Leave, Goto, PanelTypes
  <2>. QED  BY <1>1, <2>1, <2>2 DEF PanelTypes, RunOf
<1>8. ASSUME NEW d \in Drivers, HostAnswers(d) \/ StreamStarts(d) \/ StreamRefused(d) \/ StreamEnds(d)
      PROVE  pc'[e] = pc[e] /\ target'[e] = target[e] /\ held'[e] = held[e]
  BY <1>1, <1>8 DEF HostAnswers, StreamStarts, StreamRefused, StreamEnds, Ready, Leave, Goto, PanelTypes
<1>9. ASSUME NEW d \in Clicks, Click(d) \/ Decide(d)
      PROVE  pc'[e] = pc[e] /\ target'[e] = target[e] /\ held'[e] = held[e]
  BY <1>1, <1>9 DEF Click, Decide, Leave, Goto, PanelTypes, Drivers
<1>10. CASE UNCHANGED <<pc, target, held>>
  BY <1>3, <1>10
<1>. QED
  BY <1>3, <1>4, <1>5, <1>6, <1>7, <1>8, <1>9, <1>10
     DEF PanelNext, Driver, Timeout, Cancel, LeaveThread, vars, panelVars

LEMMA KnownStep ==
  ASSUME PanelInv, KnownOK, [PanelNext]_vars
  PROVE  KnownOK'
<1>1. \A q \in Runs : StaysKnown(q) /\ KnownRow(q)'
  <2>1. CASE UNCHANGED chatVars
    BY <2>1 DEF chatVars, StaysKnown, KnownOK, KnownRow, Known, InRound
  <2>. QED  BY <2>1, PanelStepIsCommand, PanelFacts, CommandKnown DEF Next, KnownOK
<1>2. \A q \in Runs : Known(q) \subseteq Known(q)'
  BY <1>1, ChatAssumption DEF StaysKnown, Known, Host
<1>3. ASSUME NEW e \in Drivers, pc'[e] = "host" PROVE held'[e] \subseteq Known(RunOf(e))'
  BY <1>2, <1>3, HostCallsTaken DEF KnownOK, KnownRow, Known
<1>. QED  BY <1>1, <1>3 DEF KnownOK

LEMMA InitKnown == PanelInit => KnownOK
  BY DEF PanelInit, Init, KnownOK, KnownRow, Known, InRound, Driving

\* The panel implements the runtime's specification: whatever module ChatRuns proves of any
\* client holds of this one.
THEOREM PanelUsesTheRuntime == PanelSpec => Spec
<1>1. PanelInit => Init
  BY DEF PanelInit
<1>2. PanelInv /\ KnownOK /\ [PanelNext]_vars => [Next]_chatVars /\ KnownOK'
  BY PanelStepIsCommand, KnownStep
<1>. QED  BY <1>1, <1>2, InitKnown, PanelInvariant, PTL DEF PanelSpec, Spec
=============================================================================
