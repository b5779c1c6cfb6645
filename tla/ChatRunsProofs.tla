--------------------------- MODULE ChatRunsProofs ---------------------------
(***************************************************************************)
(* Theorems about the chat commands of module ChatRuns, for any number of  *)
(* runs, calls, rounds and approvals and for any client.                   *)
(***************************************************************************)
EXTENDS ChatRuns, SequenceTheorems, TLAPS

RunType == [status : Statuses, tr : Transcript, expired : BOOLEAN]

IInv == TypeOK /\ SessionMirrorsRun

-----------------------------------------------------------------------------
(* What the transcript operators return. *)

LEMMA FreshTranscriptType == FreshTranscript \in Transcript
  BY ChatAssumption DEF FreshTranscript, Transcript

LEMMA AnsweredType ==
  ASSUME NEW tr \in Transcript, NEW c
  PROVE  /\ Answered(tr, c) \in Transcript
         /\ Repeated(tr, c) \in Transcript
  BY DEF Answered, Repeated, Transcript

LEMMA AllAnsweredType ==
  ASSUME NEW tr \in Transcript, NEW C
  PROVE  AllAnswered(tr, C) \in Transcript
<1>1. \A c \in Calls : Answered(tr, c).answer[c] \in {"none", "asked", "once", "twice"}
  BY AnsweredType DEF Transcript
<1>. QED  BY <1>1 DEF AllAnswered, Transcript

LEMMA AskedType ==
  ASSUME NEW tr \in Transcript, NEW T
  PROVE  Asked(tr, T) \in Transcript
  BY ChatAssumption DEF Asked, Transcript

LEMMA FinalType ==
  ASSUME NEW tr \in Transcript
  PROVE  [tr EXCEPT !.final = TRUE] \in Transcript
  BY DEF Transcript

LEMMA NoSessionIsNone == NoSession \notin Session
  BY ChatAssumption DEF Session, Transcript

-----------------------------------------------------------------------------
(* The shapes in which the commands change a run and its session. *)

\* A command that stores the run and drops the session keeps the invariant.
LEMMA StoreAndDrop ==
  ASSUME IInv, NEW r \in Runs, NEW s \in Statuses, NEW tr \in Transcript,
         SetRun(r, s, tr), DropSession(r)
  PROVE  /\ run' \in [Runs -> RunType]
         /\ session' \in [Runs -> Session \cup {NoSession}]
         /\ SessionMirrorsRun'
<1>1. run' \in [Runs -> RunType]
  BY DEF IInv, TypeOK, SetRun, RunType
<1>2. session' \in [Runs -> Session \cup {NoSession}]
  BY DEF IInv, TypeOK, DropSession
<1>3. \A q \in Runs \ {r} : session'[q] = session[q] /\ run'[q] = run[q]
  BY DEF IInv, TypeOK, SetRun, DropSession
<1>4. session'[r] = NoSession
  BY DEF IInv, TypeOK, DropSession
<1>. QED  BY <1>1, <1>2, <1>3, <1>4 DEF IInv, SessionMirrorsRun

\* So does one that changes the status only, whether or not the session is dropped.
LEMMA StatusChanges ==
  ASSUME IInv, NEW r \in Runs, NEW s \in Statuses, SetStatus(r, s),
         DropSession(r) \/ UNCHANGED session
  PROVE  /\ run' \in [Runs -> RunType]
         /\ session' \in [Runs -> Session \cup {NoSession}]
         /\ SessionMirrorsRun'
<1>1. run' \in [Runs -> RunType]
  BY DEF IInv, TypeOK, SetStatus, RunType
<1>2. session' \in [Runs -> Session \cup {NoSession}]
  BY DEF IInv, TypeOK, DropSession
<1>3. \A q \in Runs : run'[q].tr = run[q].tr
  BY DEF IInv, TypeOK, SetStatus
<1>4. \A q \in Runs : session'[q] \in {session[q], NoSession}
  BY DEF IInv, TypeOK, DropSession
<1>. QED  BY <1>1, <1>2, <1>3, <1>4 DEF IInv, SessionMirrorsRun

\* So does one that gives the session and the run the same transcript.
LEMMA StoreBoth ==
  ASSUME IInv, NEW r \in Runs, NEW tr \in Transcript, NEW T \in SUBSET Calls,
         NEW step \in {"model", "tools"},
         run' = [run EXCEPT ![r].tr = tr],
         session' = [session EXCEPT ![r] = [step |-> step, round |-> T, tr |-> tr]]
  PROVE  /\ run' \in [Runs -> RunType]
         /\ session' \in [Runs -> Session \cup {NoSession}]
         /\ SessionMirrorsRun'
<1>1. run' \in [Runs -> RunType]
  BY DEF IInv, TypeOK, RunType
<1>2. session' \in [Runs -> Session \cup {NoSession}]
  BY DEF IInv, TypeOK, Session
<1>3. \A q \in Runs \ {r} : session'[q] = session[q] /\ run'[q] = run[q]
  BY DEF IInv, TypeOK
<1>4. session'[r].tr = tr /\ run'[r].tr = tr
  BY DEF IInv, TypeOK
<1>. QED  BY <1>1, <1>2, <1>3, <1>4 DEF IInv, SessionMirrorsRun

LEMMA RequestKeeps ==
  ASSUME IInv, NEW r \in Runs, NEW tr \in Transcript, Request(r, tr)
  PROVE  /\ run' \in [Runs -> RunType]
         /\ session' \in [Runs -> Session \cup {NoSession}]
         /\ SessionMirrorsRun'
<1>. {} \in SUBSET Calls /\ "model" \in {"model", "tools"}
  OBVIOUS
<1>. QED  BY StoreBoth DEF Request

LEMMA GiveUpKeeps ==
  ASSUME IInv, NEW r \in Runs, NEW tr \in Transcript, GiveUp(r, tr)
  PROVE  /\ run' \in [Runs -> RunType]
         /\ session' \in [Runs -> Session \cup {NoSession}]
         /\ SessionMirrorsRun'
<1>. "degraded" \in Statuses
  BY DEF Statuses
<1>. QED  BY StoreAndDrop DEF GiveUp

-----------------------------------------------------------------------------
(* One lemma per command that stores a transcript. *)

LEMMA SessionTranscript ==
  ASSUME IInv, NEW r \in Runs, session[r] # NoSession
  PROVE  /\ session[r].tr \in Transcript
         /\ session[r].tr = run[r].tr
         /\ session[r].round \in SUBSET Calls
  BY DEF IInv, TypeOK, Session, SessionMirrorsRun

LEMMA RunTranscript ==
  ASSUME IInv, NEW r \in Runs
  PROVE  run[r].tr \in Transcript
  BY DEF IInv, TypeOK

LEMMA StatusNames ==
  {"planning", "awaiting_tool_host", "awaiting_approval", "ready_to_answer",
   "degraded", "streaming", "completed", "failed", "cancelled"} \subseteq Statuses
  BY DEF Statuses

LEMMA SubmitToolResultsKeeps ==
  ASSUME IInv, NEW r \in Runs, NEW H, NEW props \in SUBSET Calls,
         SubmitToolResults(r, H, props)
  PROVE  IInv'
<1>. DEFINE host == pendingHost[r] \ H
            app  == [c \in Calls |-> IF c \in props THEN Append(approvals[r][c], "pending")
                                                    ELSE approvals[r][c]]
            s    == IF host # {} THEN "awaiting_tool_host"
                    ELSE IF AnyPending(app) THEN "awaiting_approval"
                    ELSE "planning"
            tr   == AllAnswered(run[r].tr, H \ props)
<1>1. SetRun(r, s, tr) /\ DropSession(r)
  BY DEF SubmitToolResults
<1>2. s \in Statuses /\ tr \in Transcript
  BY StatusNames, RunTranscript, AllAnsweredType
<1>3. /\ run' \in [Runs -> RunType]
      /\ session' \in [Runs -> Session \cup {NoSession}]
      /\ SessionMirrorsRun'
  <2>. HIDE DEF s, tr
  <2>. QED  BY <1>1, <1>2, StoreAndDrop
<1>4. pendingHost' \in [Runs -> SUBSET Calls]
  BY DEF SubmitToolResults, IInv, TypeOK
<1>5. approvals' \in [Runs -> [Calls -> Seq({"pending", "decided"})]]
  <2>1. app \in [Calls -> Seq({"pending", "decided"})]
    <3>1. approvals[r] \in [Calls -> Seq({"pending", "decided"})]
      BY DEF IInv, TypeOK
    <3>2. \A c \in Calls : Append(approvals[r][c], "pending") \in Seq({"pending", "decided"})
      BY <3>1
    <3>. QED  BY <3>1, <3>2
  <2>2. approvals' = [approvals EXCEPT ![r] = app]
    BY DEF SubmitToolResults
  <2>. HIDE DEF app
  <2>. QED  BY <2>1, <2>2 DEF IInv, TypeOK
<1>. QED  BY <1>3, <1>4, <1>5 DEF IInv, TypeOK, RunType

LEMMA SubmitApprovalKeeps ==
  ASSUME IInv, NEW r \in Runs, NEW owner \in Runs, NEW c \in Calls,
         NEW k \in DOMAIN approvals[owner][c], SubmitApproval(r, owner, c, k)
  PROVE  IInv'
<1>1. CASE ~ApprovalFound(r, owner)
  <2>1. run' = run /\ pendingHost' = pendingHost /\ approvals' = approvals /\ DropSession(r)
    BY <1>1 DEF SubmitApproval
  <2>2. session' \in [Runs -> Session \cup {NoSession}]
    BY <2>1 DEF IInv, TypeOK, DropSession
  <2>3. \A q \in Runs : session'[q] \in {session[q], NoSession}
    BY <2>1 DEF IInv, TypeOK, DropSession
  <2>. QED  BY <2>1, <2>2, <2>3 DEF IInv, TypeOK, SessionMirrorsRun
<1>2. CASE ApprovalFound(r, owner)
  <2>. DEFINE app == [approvals[r] EXCEPT ![c][k] = "decided"]
              s   == IF AnyPending(app) THEN "awaiting_approval" ELSE "planning"
              tr  == IF approvals[r][c][k] = "pending" THEN Answered(run[r].tr, c)
                                                       ELSE Repeated(run[r].tr, c)
  <2>1. SetRun(r, s, tr) /\ DropSession(r)
    BY <1>2 DEF SubmitApproval
  <2>2. s \in Statuses /\ tr \in Transcript
    BY StatusNames, RunTranscript, AnsweredType
  <2>3. /\ run' \in [Runs -> RunType]
        /\ session' \in [Runs -> Session \cup {NoSession}]
        /\ SessionMirrorsRun'
    <3>. HIDE DEF s, tr
    <3>. QED  BY <2>1, <2>2, StoreAndDrop
  <2>4. pendingHost' \in [Runs -> SUBSET Calls]
    BY <1>2 DEF SubmitApproval, IInv, TypeOK
  <2>5. app \in [Calls -> Seq({"pending", "decided"})]
    <3>1. approvals[r] \in [Calls -> Seq({"pending", "decided"})]
      BY DEF IInv, TypeOK
    <3>2. k \in DOMAIN approvals[r][c]
      BY <1>2 DEF ApprovalFound
    <3>3. [approvals[r][c] EXCEPT ![k] = "decided"] \in Seq({"pending", "decided"})
      BY <3>1, <3>2, ExceptSeq
    <3>. QED  BY <3>1, <3>3
  <2>6. approvals' = [approvals EXCEPT ![r] = app]
    BY <1>2 DEF SubmitApproval
  <2>7. approvals' \in [Runs -> [Calls -> Seq({"pending", "decided"})]]
    <3>. HIDE DEF app
    <3>. QED  BY <2>5, <2>6 DEF IInv, TypeOK
  <2>. QED  BY <2>3, <2>4, <2>7 DEF IInv, TypeOK, RunType
<1>. QED  BY <1>1, <1>2

LEMMA GetStepKeeps ==
  ASSUME IInv, NEW r \in Runs, GetStep(r)
  PROVE  IInv'
<1>1. pendingHost' = pendingHost /\ approvals' = approvals
  BY DEF GetStep
<1>2. CASE UNCHANGED <<run, session>>
  BY <1>1, <1>2 DEF IInv, TypeOK, SessionMirrorsRun
<1>3. CASE SetStatus(r, "degraded") /\ DropSession(r)
  BY <1>1, <1>3, StatusChanges, StatusNames DEF IInv, TypeOK, RunType
<1>4. CASE /\ session' = [session EXCEPT ![r] =
                 IF @ # NoSession THEN @
                 ELSE [step |-> "model", round |-> {}, tr |-> run[r].tr]]
           /\ SetRun(r, "planning", session'[r].tr)
  <2>1. session'[r].tr \in Transcript /\ session'[r] \in Session /\ session'[r].tr = run[r].tr
    <3>1. CASE session[r] # NoSession
      BY <3>1, <1>4, SessionTranscript DEF IInv, TypeOK
    <3>2. CASE session[r] = NoSession
      BY <3>2, <1>4, RunTranscript DEF IInv, TypeOK, Session
    <3>. QED  BY <3>1, <3>2
  <2>2. session' \in [Runs -> Session \cup {NoSession}]
    BY <2>1, <1>4 DEF IInv, TypeOK
  <2>3. run' \in [Runs -> RunType]
    <3>. DEFINE tr == session'[r].tr
    <3>1. tr \in Transcript /\ SetRun(r, "planning", tr)
      BY <2>1, <1>4
    <3>. HIDE DEF tr
    <3>. QED  BY <3>1, StatusNames DEF IInv, TypeOK, SetRun, RunType
  <2>4. \A q \in Runs \ {r} : session'[q] = session[q] /\ run'[q] = run[q]
    BY <1>4 DEF IInv, TypeOK, SetRun
  <2>5. run'[r].tr = session'[r].tr
    BY <1>4 DEF IInv, TypeOK, SetRun
  <2>6. SessionMirrorsRun'
    BY <2>4, <2>5 DEF IInv, SessionMirrorsRun
  <2>. QED  BY <1>1, <2>2, <2>3, <2>6 DEF IInv, TypeOK, RunType
<1>. QED  BY <1>2, <1>3, <1>4 DEF GetStep

LEMMA SubmitModelResponseKeeps ==
  ASSUME IInv, NEW r \in Runs, SubmitModelResponse(r)
  PROVE  IInv'
<1>1. pendingHost' = pendingHost /\ approvals' = approvals
  BY DEF SubmitModelResponse, chatVars, ModelCalls
<1>2. CASE UNCHANGED chatVars
  BY <1>2 DEF chatVars, IInv, TypeOK, SessionMirrorsRun
<1>3. CASE session[r] # NoSession
  <2>. DEFINE tr == session[r].tr
  <2>1. tr \in Transcript /\ tr = run[r].tr
    BY <1>3, SessionTranscript
  <2>2. CASE GiveUp(r, tr)
    BY <1>1, <2>1, <2>2, GiveUpKeeps DEF IInv, TypeOK, RunType
  <2>3. ASSUME NEW T \in SUBSET FreeCalls(r, tr) \ {{}}, ModelCalls(r, T)
        PROVE  IInv'
    <3>1. T \in SUBSET Calls /\ Asked(tr, T) \in Transcript
      BY <2>1, AskedType DEF FreeCalls
    <3>2. /\ run' = [run EXCEPT ![r].tr = Asked(tr, T)]
          /\ session' = [session EXCEPT ![r] = [step |-> "tools", round |-> T, tr |-> Asked(tr, T)]]
      BY <2>3 DEF ModelCalls
    <3>. HIDE DEF tr
    <3>. QED  BY <3>1, <3>2, <1>1, StoreBoth DEF IInv, TypeOK, RunType
  <2>4. CASE SetRun(r, "ready_to_answer", tr) /\ DropSession(r)
    BY <1>1, <2>1, <2>4, StoreAndDrop, StatusNames DEF IInv, TypeOK, RunType
  <2>5. CASE Request(r, [tr EXCEPT !.final = TRUE])
    BY <1>1, <2>1, <2>5, FinalType, RequestKeeps DEF IInv, TypeOK, RunType
  <2>. QED  BY <1>2, <2>2, <2>3, <2>4, <2>5 DEF SubmitModelResponse
<1>. QED  BY <1>2, <1>3 DEF SubmitModelResponse

LEMMA AdvanceKeeps ==
  ASSUME IInv, NEW r \in Runs, Advance(r)
  PROVE  IInv'
<1>1. approvals' = approvals
  BY DEF Advance
<1>2. CASE UNCHANGED <<run, pendingHost, session>>
  BY <1>1, <1>2 DEF IInv, TypeOK, SessionMirrorsRun
<1>3. CASE AdvanceReady(r) /\ GiveUp(r, session[r].tr) /\ UNCHANGED pendingHost
  BY <1>1, <1>3, SessionTranscript, GiveUpKeeps DEF AdvanceReady, IInv, TypeOK, RunType
<1>4. ASSUME AdvanceReady(r), NEW stalled \in BOOLEAN, ToolsRan(r, stalled)
      PROVE  IInv'
  <2>. DEFINE T  == session[r].round
              tr == AllAnswered(session[r].tr, T \ Host)
  <2>1. tr \in Transcript /\ T \in SUBSET Calls
    BY <1>4, SessionTranscript, AllAnsweredType DEF AdvanceReady
  <2>2. CASE T \cap Host # {}
    <3>1. /\ pendingHost' = [pendingHost EXCEPT ![r] = @ \cup (T \cap Host)]
          /\ SetRun(r, "awaiting_tool_host", tr)
          /\ DropSession(r)
      BY <1>4, <2>2 DEF ToolsRan
    <3>2. pendingHost' \in [Runs -> SUBSET Calls]
      BY <3>1, <2>1 DEF IInv, TypeOK
    <3>. HIDE DEF tr, T
    <3>. QED  BY <1>1, <2>1, <3>1, <3>2, StoreAndDrop, StatusNames DEF IInv, TypeOK, RunType
  <2>3. CASE T \cap Host = {}
    <3>1. /\ pendingHost' = pendingHost
          /\ GiveUp(r, tr) \/ Request(r, tr) \/ Request(r, [tr EXCEPT !.final = TRUE])
      BY <1>4, <2>3 DEF ToolsRan
    <3>. HIDE DEF tr, T
    <3>. QED  BY <1>1, <2>1, <3>1, FinalType, GiveUpKeeps, RequestKeeps
              DEF IInv, TypeOK, RunType
  <2>. QED  BY <2>2, <2>3
<1>. QED  BY <1>2, <1>3, <1>4 DEF Advance

LEMMA AdvanceFailsKeeps ==
  ASSUME IInv, NEW r \in Runs, AdvanceFails(r)
  PROVE  IInv'
<1>1. run' = run /\ approvals' = approvals /\ DropSession(r)
  BY DEF AdvanceFails, ToolStoreError
<1>2. pendingHost' \in [Runs -> SUBSET Calls]
  <2>1. PICK done \in SUBSET (session[r].round \cap Host) :
            pendingHost' = [pendingHost EXCEPT ![r] = @ \cup done]
    BY DEF AdvanceFails, ToolStoreError
  <2>2. done \in SUBSET Calls
    BY ChatAssumption DEF Host
  <2>. QED  BY <2>1, <2>2 DEF IInv, TypeOK
<1>3. session' \in [Runs -> Session \cup {NoSession}]
  BY <1>1 DEF IInv, TypeOK, DropSession
<1>4. \A q \in Runs : session'[q] \in {session[q], NoSession}
  BY <1>1 DEF IInv, TypeOK, DropSession
<1>. QED  BY <1>1, <1>2, <1>3, <1>4 DEF IInv, TypeOK, SessionMirrorsRun

LEMMA StatusCommandsKeep ==
  ASSUME IInv, NEW r \in Runs,
         StartRun(r) \/ MarkStreaming(r) \/ CompleteRun(r) \/ CancelRun(r) \/ DegradeRun(r)
  PROVE  IInv'
<1>1. pendingHost' = pendingHost /\ approvals' = approvals
  BY DEF StartRun, MarkStreaming, CompleteRun, CancelRun, DegradeRun
<1>2. PICK s \in Statuses : SetStatus(r, s)
  BY StatusNames DEF StartRun, MarkStreaming, CompleteRun, CancelRun, DegradeRun
<1>3. DropSession(r) \/ UNCHANGED session
  BY DEF StartRun, MarkStreaming, CompleteRun, CancelRun, DegradeRun
<1>. QED  BY <1>1, <1>2, <1>3, StatusChanges DEF IInv, TypeOK, RunType

LEMMA DeadlinePassesKeeps ==
  ASSUME IInv, NEW r \in Runs, DeadlinePasses(r)
  PROVE  IInv'
<1>1. run' \in [Runs -> RunType]
  BY DEF DeadlinePasses, IInv, TypeOK, RunType
<1>2. \A q \in Runs : run'[q].tr = run[q].tr
  BY DEF DeadlinePasses, IInv, TypeOK
<1>. QED  BY <1>1, <1>2 DEF DeadlinePasses, IInv, TypeOK, SessionMirrorsRun, RunType

-----------------------------------------------------------------------------
(* The invariant *)

LEMMA InitIInv == Init => IInv
<1>. SUFFICES ASSUME Init PROVE IInv
  OBVIOUS
<1>1. run \in [Runs -> [status : Statuses, tr : Transcript, expired : BOOLEAN]]
  BY FreshTranscriptType DEF Init, NoRun, Statuses
<1>2. \A c \in Calls : << >> \in Seq({"pending", "decided"})
  OBVIOUS
<1>. QED  BY <1>1, <1>2 DEF Init, IInv, TypeOK, SessionMirrorsRun

LEMMA CommandKeeps ==
  ASSUME IInv, NEW r \in Runs, Command(r)
  PROVE  IInv'
<1>1. CASE SubmitAnyResults(r)
  <2>1. PICK H \in SUBSET Known(r) : \E props \in SUBSET (H \cap Proposals) :
            SubmitToolResults(r, H, props)
    BY <1>1 DEF SubmitAnyResults
  <2>2. PICK props \in SUBSET (H \cap Proposals) : SubmitToolResults(r, H, props)
    BY <2>1
  <2>3. props \in SUBSET Calls
    BY ChatAssumption DEF Host
  <2>. QED  BY <2>2, <2>3, SubmitToolResultsKeeps
<1>2. CASE SubmitAnyApproval(r)
  BY <1>2, SubmitApprovalKeeps DEF SubmitAnyApproval
<1>3. CASE StartRun(r) \/ MarkStreaming(r) \/ CompleteRun(r) \/ CancelRun(r) \/ DegradeRun(r)
  BY <1>3, StatusCommandsKeep
<1>4. CASE GetStep(r)
  BY <1>4, GetStepKeeps
<1>5. CASE SubmitModelResponse(r)
  BY <1>5, SubmitModelResponseKeeps
<1>6. CASE Advance(r)
  BY <1>6, AdvanceKeeps
<1>7. CASE AdvanceFails(r)
  BY <1>7, AdvanceFailsKeeps
<1>8. CASE DeadlinePasses(r)
  BY <1>8, DeadlinePassesKeeps
<1>. QED  BY <1>1, <1>2, <1>3, <1>4, <1>5, <1>6, <1>7, <1>8 DEF Command

\* Inductive: whichever command any client issues next, the session in memory and
\* the stored run stay in step and every row keeps its type.
LEMMA NextIInv == IInv /\ [Next]_chatVars => IInv'
<1>. SUFFICES ASSUME IInv, [Next]_chatVars PROVE IInv'
  OBVIOUS
<1>1. CASE Next
  BY <1>1, CommandKeeps DEF Next
<1>2. CASE UNCHANGED chatVars
  BY <1>2 DEF chatVars, IInv, TypeOK, SessionMirrorsRun
<1>. QED  BY <1>1, <1>2

LEMMA SpecIInv == Spec => []IInv
  BY InitIInv, NextIInv, PTL DEF Spec

\* The rows of the chat tables and the planner's sessions keep their types under
\* every sequence of commands.
THEOREM RowsKeepTheirTypes == Spec => []TypeOK
<1>1. IInv => TypeOK
  BY DEF IInv
<1>. QED  BY <1>1, SpecIInv, PTL

\* A planner session never holds a transcript other than the stored one, so
\* dropping it, as every result and decision does, loses nothing.
THEOREM SessionNeverDiverges == Spec => []SessionMirrorsRun
<1>1. IInv => SessionMirrorsRun
  BY DEF IInv
<1>. QED  BY <1>1, SpecIInv, PTL
=============================================================================
