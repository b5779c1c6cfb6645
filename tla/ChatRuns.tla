------------------------------ MODULE ChatRuns ------------------------------
(***************************************************************************)
(* The chat commands of the Phoenix runtime: the run records kept by the   *)
(* phoenix-chat crate and the planner sessions kept in memory by           *)
(* phoenix-runtime/planner.rs.  One action is one store command; the       *)
(* worker executes commands one at a time, so each is atomic.  Spec lets   *)
(* any client issue any command in any order: what it guarantees does not  *)
(* depend on the panel that drives it (module ChatPanel).                  *)
(*                                                                         *)
(* Calls are the tool-call slots of one run.  The ids of the code are      *)
(* fresh, so a slot may stand for a later call once its answer is in.      *)
(***************************************************************************)
EXTENDS Naturals, Sequences, FiniteSets

CONSTANTS Runs,           \* run identifiers
          Calls,          \* tool-call slots of a run
          HostReads,      \* calls the TypeScript host answers at once
          Proposals,      \* calls the TypeScript host turns into proposals
          MaxToolRounds,  \* PLANNER_MAX_TOOL_ROUNDS (4 in the code)
          MaxApprovals,   \* bound: approval records of one call
          NoSession       \* "no planner session in memory"

ASSUME ChatAssumption ==
    /\ MaxToolRounds \in Nat \ {0}
    /\ MaxApprovals \in Nat \ {0}
    /\ HostReads \cup Proposals \subseteq Calls
    /\ HostReads \cap Proposals = {}
    /\ NoSession \notin [step : {"model", "tools"}, round : SUBSET Calls,
                         tr : [answer : [Calls -> {"none", "asked", "once", "twice"}],
                               rounds : 0..MaxToolRounds, final : BOOLEAN]]

VARIABLES run,          \* row of chat_runs: status, stored transcript, deadline passed
          pendingHost,  \* chat_tool_calls rows in status pending_host
          approvals,    \* chat_approval_requests rows: status per call and number
                        \* (decided stands for approved and rejected)
          session       \* ChatPlannerRunner.sessions

chatVars == <<run, pendingHost, approvals, session>>

Host == HostReads \cup Proposals

Statuses == {"none", "planning", "awaiting_tool_host", "awaiting_approval",
             "ready_to_answer", "degraded", "streaming", "completed", "failed",
             "cancelled"}

(***************************************************************************)
(* The planner transcript, reduced to what the code and the model provider *)
(* tell apart: for the last call of each slot whether it was asked and how *)
(* often it was answered, the number of assistant messages with tool   *)
(* calls (counted up to MaxToolRounds), and the final prompt's presence.   *)
(***************************************************************************)
Transcript == [answer : [Calls -> {"none", "asked", "once", "twice"}],
               rounds : 0..MaxToolRounds,
               final  : BOOLEAN]

Session == [step : {"model", "tools"}, round : SUBSET Calls, tr : Transcript]

FreshTranscript == [answer |-> [c \in Calls |-> "none"], rounds |-> 0, final |-> FALSE]

\* A tool message for call c is appended to the transcript.
Answered(tr, c) ==
    [tr EXCEPT !.answer[c] = IF @ = "asked" THEN "once" ELSE "twice"]

AllAnswered(tr, C) ==
    [tr EXCEPT !.answer = [c \in Calls |-> IF c \in C THEN Answered(tr, c).answer[c]
                                                      ELSE tr.answer[c]]]

\* An assistant message asking for the calls T is appended.
Asked(tr, T) ==
    [answer |-> [c \in Calls |-> IF c \in T THEN "asked" ELSE tr.answer[c]],
     rounds |-> IF tr.rounds < MaxToolRounds THEN tr.rounds + 1 ELSE tr.rounds,
     final  |-> tr.final]

PendingOf(app, c) == {k \in DOMAIN app[c] : app[c][k] = "pending"}
\* Mutant: a decided approval counts as pending.
AnyPendingOrDecided(app) == \E c \in Calls : app[c] # <<>>

AnyPending(app) == \E c \in Calls : PendingOf(app, c) # {}

\* Slots a new assistant message may use: nothing about them is outstanding.
FreeCalls(r, tr) ==
    {c \in Calls : /\ tr.answer[c] \in {"none", "once"}
                   /\ c \notin pendingHost[r]
                   /\ PendingOf(approvals[r], c) = {}}

NoRun == [status |-> "none", tr |-> FreshTranscript, expired |-> FALSE]

Init == /\ run = [r \in Runs |-> NoRun]
        /\ pendingHost = [r \in Runs |-> {}]
        /\ approvals = [r \in Runs |-> [c \in Calls |-> <<>>]]
        /\ session = [r \in Runs |-> NoSession]

Started(r) == run[r].status # "none"

DropSession(r) == session' = [session EXCEPT ![r] = NoSession]
SetStatus(r, s) == run' = [run EXCEPT ![r].status = s]
SetRun(r, s, tr) == run' = [run EXCEPT ![r].status = s, ![r].tr = tr]

-----------------------------------------------------------------------------
(* Commands of phoenix-chat *)

\* Mutant: the gathering status is the last one stored.
StartRunGathering(r) ==
    /\ ~Started(r)
    /\ SetStatus(r, "gathering")
    /\ UNCHANGED <<pendingHost, approvals, session>>

\* queued and gathering are stored inside the same command and never seen.
StartRun(r) ==
    /\ ~Started(r)
    /\ \E s \in {"planning", "ready_to_answer", "degraded"} : SetStatus(r, s)
    /\ UNCHANGED <<pendingHost, approvals, session>>

MarkStreaming(r) ==
    /\ Started(r)
    /\ SetStatus(r, "streaming")
    /\ UNCHANGED <<pendingHost, approvals, session>>

CompleteRun(r) ==
    /\ Started(r)
    /\ \E s \in {"completed", "failed"} : SetStatus(r, s)
    /\ DropSession(r)
    /\ UNCHANGED <<pendingHost, approvals>>

CancelRun(r) ==
    /\ Started(r)
    /\ SetStatus(r, "cancelled")
    /\ DropSession(r)
    /\ UNCHANGED <<pendingHost, approvals>>

\* A tool message for c that answers nothing outstanding: the second one.
Repeated(tr, c) == [tr EXCEPT !.answer[c] = "twice"]

\* Mutant: a proposal is answered with a tool message at once, as any result.
SubmitToolResultsWithProposals(r, H, props) ==
    /\ Started(r)
    /\ \A c \in props : Len(approvals[r][c]) < MaxApprovals
    /\ LET host == pendingHost[r] \ H
           app  == [c \in Calls |-> IF c \in props THEN Append(approvals[r][c], "pending")
                                                   ELSE approvals[r][c]]
       IN /\ pendingHost' = [pendingHost EXCEPT ![r] = host]
          /\ approvals' = [approvals EXCEPT ![r] = app]
          /\ SetRun(r, IF host # {} THEN "awaiting_tool_host"
                       ELSE IF AnyPending(app) THEN "awaiting_approval"
                       ELSE "planning",
                    AllAnswered(run[r].tr, H))
    /\ DropSession(r)

\* The results of the calls H: props became proposals, the rest were answered
\* with a result or an error.
SubmitToolResults(r, H, props) ==
    /\ Started(r)
    /\ \A c \in props : Len(approvals[r][c]) < MaxApprovals
    /\ LET host == pendingHost[r] \ H
           app  == [c \in Calls |-> IF c \in props THEN Append(approvals[r][c], "pending")
                                                   ELSE approvals[r][c]]
       IN /\ pendingHost' = [pendingHost EXCEPT ![r] = host]
          /\ approvals' = [approvals EXCEPT ![r] = app]
          /\ SetRun(r, IF host # {} THEN "awaiting_tool_host"
                       ELSE IF AnyPending(app) THEN "awaiting_approval"
                       ELSE "planning",
                    AllAnswered(run[r].tr, H \ props))
    /\ DropSession(r)

\* Mutant: an approval is only found while the run still awaits one.
ApprovalFoundAwaiting(r, owner) == r = owner /\ run[r].status = "awaiting_approval"

\* get_approval looks among the approvals of run r.
ApprovalFound(r, owner) == r = owner

\* Mutant: every decision resumes the planner.
SubmitApprovalResumes(r, owner, c, k) ==
    /\ Started(r)
    /\ DropSession(r)
    /\ IF ApprovalFound(r, owner)
       THEN /\ approvals' = [approvals EXCEPT ![r][c][k] = "decided"]
            /\ SetRun(r, "planning",
                      IF approvals[r][c][k] = "pending" THEN Answered(run[r].tr, c)
                                                        ELSE Repeated(run[r].tr, c))
            /\ pendingHost' = [pendingHost EXCEPT ![r] = @ \ {c}]
       ELSE UNCHANGED <<run, pendingHost, approvals>>

\* The approval number k of call c of run owner is decided, submitted for run r.
\* The session of r is dropped before the approval is looked up.
SubmitApproval(r, owner, c, k) ==
    /\ Started(r)
    /\ DropSession(r)
    /\ IF ApprovalFound(r, owner)
       THEN LET app == [approvals[r] EXCEPT ![c][k] = "decided"]
            IN /\ approvals' = [approvals EXCEPT ![r] = app]
               /\ SetRun(r, IF AnyPending(app) THEN "awaiting_approval" ELSE "planning",
                         IF approvals[r][c][k] = "pending" THEN Answered(run[r].tr, c)
                                                           ELSE Repeated(run[r].tr, c))
               /\ pendingHost' = [pendingHost EXCEPT ![r] = @ \ {c}]
       ELSE UNCHANGED <<run, pendingHost, approvals>>

-----------------------------------------------------------------------------
(* Commands of the planner *)

\* Every planner command but degrade loads the run first.
GetStep(r) ==
    /\ Started(r)
    /\ \/ /\ run[r].status # "planning"
          /\ UNCHANGED <<run, session>>
       \/ /\ run[r].status = "planning"
          /\ run[r].expired
          /\ SetStatus(r, "degraded")
          /\ DropSession(r)
       \/ /\ run[r].status = "planning"
          /\ ~run[r].expired
          /\ session' = [session EXCEPT ![r] =
                 IF @ # NoSession THEN @
                 ELSE [step |-> "model", round |-> {}, tr |-> run[r].tr]]
          /\ SetRun(r, "planning", session'[r].tr)
    /\ UNCHANGED <<pendingHost, approvals>>

DegradeRun(r) ==
    /\ Started(r)
    /\ SetStatus(r, "degraded")
    /\ DropSession(r)
    /\ UNCHANGED <<pendingHost, approvals>>

\* A planner step that ends by degrading the run; the taken session is not put back.
GiveUp(r, tr) ==
    /\ SetRun(r, "degraded", tr)
    /\ DropSession(r)

\* The planner's next request, with the transcript tr, is stored and handed out.
Request(r, tr) ==
    /\ session' = [session EXCEPT ![r] = [step |-> "model", round |-> {}, tr |-> tr]]
    /\ run' = [run EXCEPT ![r].tr = tr]

\* Mutant: the assistant message is kept in memory only.
ModelCallsUnsaved(r, T) ==
    /\ session' = [session EXCEPT ![r] =
           [step |-> "tools", round |-> T, tr |-> Asked(session[r].tr, T)]]
    /\ UNCHANGED <<run, pendingHost, approvals>>

\* Without a session, or with one that is not waiting for the model, nothing changes.
ModelCalls(r, T) ==
    LET tr == Asked(session[r].tr, T)
    IN /\ session' = [session EXCEPT ![r] = [step |-> "tools", round |-> T, tr |-> tr]]
       /\ run' = [run EXCEPT ![r].tr = tr]
       /\ UNCHANGED <<pendingHost, approvals>>

SubmitModelResponse(r) ==
    /\ Started(r)
    /\ \/ /\ \/ session[r] = NoSession
             \/ session[r] # NoSession /\ session[r].step # "model"
          /\ UNCHANGED chatVars
       \/ /\ session[r] # NoSession
          /\ session[r].step = "model"
          /\ \/ /\ run[r].expired
                /\ GiveUp(r, session[r].tr)
                /\ UNCHANGED <<pendingHost, approvals>>
             \/ /\ ~run[r].expired
                /\ \E T \in SUBSET FreeCalls(r, session[r].tr) \ {{}} : ModelCalls(r, T)
             \/ /\ ~run[r].expired            \* a summary: the planner is done
                /\ SetRun(r, "ready_to_answer", session[r].tr)
                /\ DropSession(r)
                /\ UNCHANGED <<pendingHost, approvals>>
             \/ /\ ~run[r].expired            \* an empty answer
                /\ IF session[r].tr.final
                   THEN GiveUp(r, session[r].tr)
                   ELSE Request(r, [session[r].tr EXCEPT !.final = TRUE])
                /\ UNCHANGED <<pendingHost, approvals>>

\* stalled: a repeated round, a tool error, or too many artifacts.
ToolsRan(r, stalled) ==
    LET T   == session[r].round
        tr  == AllAnswered(session[r].tr, T \ Host)
    IN IF T \cap Host # {}
       THEN /\ pendingHost' = [pendingHost EXCEPT ![r] = @ \cup (T \cap Host)]
            /\ SetRun(r, "awaiting_tool_host", tr)
            /\ DropSession(r)
       ELSE /\ UNCHANGED pendingHost
            /\ IF stalled \/ tr.rounds >= MaxToolRounds
               THEN IF tr.final THEN GiveUp(r, tr)
                                ELSE Request(r, [tr EXCEPT !.final = TRUE])
               ELSE Request(r, tr)

\* A store error in an internal tool returns early: calls already handed to the
\* host stay pending, the session is not put back, the run is not saved.
ToolStoreError(r) ==
    /\ session[r].round \ Host # {}
    /\ \E done \in SUBSET (session[r].round \cap Host) :
           pendingHost' = [pendingHost EXCEPT ![r] = @ \cup done]
    /\ DropSession(r)
    /\ UNCHANGED run

AdvanceReady(r) == session[r] # NoSession /\ session[r].step = "tools"

Advance(r) ==
    /\ Started(r)
    /\ UNCHANGED approvals
    /\ \/ /\ ~AdvanceReady(r)
          /\ UNCHANGED <<run, pendingHost, session>>
       \/ /\ AdvanceReady(r) /\ run[r].expired
          /\ GiveUp(r, session[r].tr)
          /\ UNCHANGED pendingHost
       \/ /\ AdvanceReady(r) /\ ~run[r].expired
          /\ \E stalled \in BOOLEAN : ToolsRan(r, stalled)

AdvanceFails(r) ==
    /\ Started(r)
    /\ AdvanceReady(r) /\ ~run[r].expired
    /\ ToolStoreError(r)
    /\ UNCHANGED approvals

\* Mutant: the deadline is stored as 0, which means none.
DeadlinePassesNever(r) == FALSE /\ UNCHANGED chatVars

\* Time: deadline_at is 8 s after the start of the run.
DeadlinePasses(r) ==
    /\ Started(r)
    /\ ~run[r].expired
    /\ run' = [run EXCEPT ![r].expired = TRUE]
    /\ UNCHANGED <<pendingHost, approvals, session>>

-----------------------------------------------------------------------------
\* Only calls with a chat_tool_calls row are resolved, those once given to the host.
Known(r) == {c \in Host : run[r].tr.answer[c] # "none"}

SubmitAnyResults(r) ==
    \E H \in SUBSET Known(r) : \E props \in SUBSET (H \cap Proposals) :
        SubmitToolResults(r, H, props)

SubmitAnyApproval(r) ==
    \E owner \in Runs, c \in Calls :
        \E k \in DOMAIN approvals[owner][c] : SubmitApproval(r, owner, c, k)

Command(r) ==
    \/ StartRun(r) \/ MarkStreaming(r) \/ CompleteRun(r) \/ CancelRun(r)
    \/ SubmitAnyResults(r) \/ SubmitAnyApproval(r)
    \/ GetStep(r) \/ SubmitModelResponse(r) \/ Advance(r) \/ AdvanceFails(r)
    \/ DegradeRun(r) \/ DeadlinePasses(r)

Next == \E r \in Runs : Command(r)

Spec == Init /\ [][Next]_chatVars

-----------------------------------------------------------------------------
(* Properties of the runtime, whatever the client does. *)

TypeOK ==
    /\ run \in [Runs -> [status : Statuses, tr : Transcript, expired : BOOLEAN]]
    /\ pendingHost \in [Runs -> SUBSET Calls]
    /\ approvals \in [Runs -> [Calls -> Seq({"pending", "decided"})]]
    /\ session \in [Runs -> Session \cup {NoSession}]

\* The planner's session in memory never holds a transcript other than the one
\* stored with the run: results and decisions go to the stored one only, so
\* every command that writes there must drop the session.
SessionMirrorsRun ==
    \A r \in Runs : session[r] # NoSession => session[r].tr = run[r].tr

=============================================================================
