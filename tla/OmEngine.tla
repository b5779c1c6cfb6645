------------------------------ MODULE OmEngine ------------------------------
(***************************************************************************)
(* Observational memory of one chat thread: the OmEngine and its reflector *)
(* runner (phoenix-om), the message commands of phoenix-chat that race     *)
(* with it, and the loop that prepares an action, asks the model and       *)
(* applies the answer (chatProcessOm over the WASM commands; natively      *)
(* process_thread_with_transport, which only tests call).  Chat commands   *)
(* run while the loop waits for the model, so what was read may be stale   *)
(* when it is applied.                                                     *)
(*                                                                         *)
(* A message's content is a version number, 0 when it is empty; the memory *)
(* is the set of message contents its text was made from.                  *)
(***************************************************************************)
EXTENDS Integers, Sequences, FiniteSets

CONSTANTS Messages,          \* message slots of the thread
          Callers,           \* concurrent calls of the processing loop
          ObserveThreshold,  \* in tokens; every message counts one
          ReflectThreshold,
          MaxObservation,    \* bound: tokens of a memory
          MaxPasses,         \* passes of the loop (4 in the code)
          MaxToolRounds,     \* reflector_max_tool_rounds (2 in the code)
          MaxContent,        \* bound: changes of one message
          MaxGenerations,    \* bound: then no memory is too long any more
          UnofferedCalls     \* the model may call tools it was not offered

ASSUME OmAssumption ==
    /\ {ObserveThreshold, ReflectThreshold, MaxObservation, MaxPasses, MaxToolRounds,
        MaxContent, MaxGenerations} \subseteq Nat \ {0}
    /\ ReflectThreshold < MaxObservation
    /\ UnofferedCalls \in BOOLEAN

VARIABLES messages,     \* rows of thread_messages
          clock,        \* created_at of the newest message
          record,       \* the om_records row; a missing one counts as empty
          generations,  \* rows of om_generations, in the order they were added
          active,       \* the thread is in active_threads
          pc,           \* per caller: what it waits for
          passes,       \* per caller: passes left
          action,       \* per caller: the pending action
          sessions,     \* per caller: its reflector session, or NoSession
          overtaken     \* history: messages edited after an observation had read
                        \* them, or older than the record and marked without it

vars == <<messages, clock, record, generations, active, pc, passes, action, sessions, overtaken>>
chatVars == <<messages, clock, overtaken>>
storeVars == <<messages, record, generations>>

Row(here, created, streaming, content, observed) ==
    [here |-> here, created |-> created, streaming |-> streaming, content |-> content,
     observed |-> observed]

Contents == [message : Messages, content : 1..MaxContent]

EmptyRecord == [memory |-> {}, last |-> 0, tokens |-> 0, generation |-> 0]
NoAction == [memory |-> {}, read |-> {}]
NoSession == [open |-> FALSE, rounds |-> 0, final |-> FALSE, waiting |-> FALSE, offered |-> FALSE]
NewSession == [open |-> TRUE, rounds |-> 0, final |-> FALSE, waiting |-> FALSE, offered |-> TRUE]

Init == /\ messages = [m \in Messages |-> Row(FALSE, 0, FALSE, 0, FALSE)]
        /\ clock = 0
        /\ record = EmptyRecord
        /\ generations = <<>>
        /\ active = FALSE
        /\ pc = [d \in Callers |-> "idle"]
        /\ passes = [d \in Callers |-> 0]
        /\ action = [d \in Callers |-> NoAction]
        /\ sessions = [d \in Callers |-> NoSession]
        /\ overtaken = {}

-----------------------------------------------------------------------------
(* Message commands of phoenix-chat *)

Fresh(m) == messages[m].created = 0
Here(m) == messages[m].here

CreateMessage(m, streaming, content) ==
    /\ Fresh(m)
    /\ clock' = clock + 1
    /\ messages' = [messages EXCEPT ![m] = Row(TRUE, clock + 1, streaming, content, FALSE)]
    /\ UNCHANGED overtaken

ReadOtherwise(m, content) ==
    \E d \in Callers : \E r \in action[d].read : r.message = m /\ r.content # content

\* A message that no longer streams is given another content than was read of it.
EditOvertakes(m, content) ==
    overtaken' = IF ~messages[m].streaming /\ ReadOtherwise(m, content)
                 THEN overtaken \cup {m} ELSE overtaken

\* Any change of a message makes it unobserved.
ChangeMessage(m, streaming, content) ==
    /\ messages' = [messages EXCEPT ![m] =
                        Row(Here(m), messages[m].created, streaming, content, FALSE)]
    /\ EditOvertakes(m, content)
    /\ UNCHANGED clock

AddMessage(m) == CreateMessage(m, FALSE, 1)
StartStreamingMessage(m) == CreateMessage(m, TRUE, 0)

AppendMessage(m) ==
    /\ messages[m].content < MaxContent
    /\ ChangeMessage(m, TRUE, messages[m].content + 1)

UpdateMessage(m) ==
    /\ messages[m].content < MaxContent
    /\ ChangeMessage(m, FALSE, messages[m].content + 1)

\* complete_run with the response the message already holds.
CompleteMessage(m) == ChangeMessage(m, FALSE, messages[m].content)

\* The record and the generations of the thread stay.
ClearThread ==
    /\ messages' = [m \in Messages |-> Row(FALSE, messages[m].created, FALSE, 0, FALSE)]
    /\ overtaken' = {}
    /\ UNCHANGED clock

\* Any message of the thread may change, in any order: several stream at once
\* when sends overlap.  The chat screens change a content only while it streams,
\* the commands ask for nothing of the kind.
ChatCommand ==
    /\ \/ \E m \in Messages : AddMessage(m) \/ StartStreamingMessage(m)
       \/ \E m \in {n \in Messages : Here(n)} :
             AppendMessage(m) \/ UpdateMessage(m) \/ CompleteMessage(m)
       \/ (\E m \in Messages : Here(m)) /\ ClearThread
    /\ UNCHANGED <<record, generations, active, pc, passes, action, sessions>>

-----------------------------------------------------------------------------
(* Preparing an action *)

\* Mutant: a message that still streams is observed, too.
EligibleStreaming(m) ==
    /\ Here(m)
    /\ ~messages[m].observed \/ messages[m].created > record.last
    /\ messages[m].content > 0

Eligible(m) ==
    /\ Here(m)
    /\ ~messages[m].streaming
    /\ ~messages[m].observed \/ messages[m].created > record.last
    /\ messages[m].content > 0

EligibleMessages == {m \in Messages : Eligible(m)}

\* observe_threshold * max(1 - tokens / reflect_threshold, 1/2), rounded; never
\* more than half of it is given up as the memory fills.
EffectiveObserveThreshold(tokens) ==
    LET kept == IF 2 * tokens < ReflectThreshold THEN 2 * (ReflectThreshold - tokens)
                                                 ELSE ReflectThreshold
    IN (ObserveThreshold * kept + ReflectThreshold) \div (2 * ReflectThreshold)

Return(d) ==
    /\ pc' = [pc EXCEPT ![d] = "idle"]
    /\ active' = FALSE
    /\ passes' = [passes EXCEPT ![d] = 0]
    /\ action' = [action EXCEPT ![d] = NoAction]
    /\ sessions' = [sessions EXCEPT ![d] = NoSession]

\* Mutant: nothing keeps a second caller out.
ProcessThreadUnguarded(d) ==
    /\ pc[d] = "idle"
    /\ active' = TRUE
    /\ pc' = [pc EXCEPT ![d] = "prepare"]
    /\ passes' = [passes EXCEPT ![d] = MaxPasses]
    /\ UNCHANGED <<chatVars, record, generations, action, sessions>>

\* Mutant: the range of passes includes its end.
ProcessThreadInclusive(d) ==
    /\ pc[d] = "idle"
    /\ ~active
    /\ active' = TRUE
    /\ pc' = [pc EXCEPT ![d] = "prepare"]
    /\ passes' = [passes EXCEPT ![d] = MaxPasses + 1]
    /\ UNCHANGED <<chatVars, record, generations, action, sessions>>

\* A caller that finds the thread active returns at once.
ProcessThread(d) ==
    /\ pc[d] = "idle"
    /\ ~active
    /\ active' = TRUE
    /\ pc' = [pc EXCEPT ![d] = "prepare"]
    /\ passes' = [passes EXCEPT ![d] = MaxPasses]
    /\ UNCHANGED <<chatVars, record, generations, action, sessions>>

PendingReflection == record.tokens > ReflectThreshold

PendingObservation ==
    /\ ~PendingReflection
    /\ EligibleMessages # {}
    /\ Cardinality(EligibleMessages) >= EffectiveObserveThreshold(record.tokens)

\* One pass begins: what the record says goes into the prompt.
PreparePendingAction(d) ==
    /\ pc[d] = "prepare"
    /\ passes[d] > 0
    /\ \/ /\ PendingReflection
          /\ pc' = [pc EXCEPT ![d] = "reflect"]
          /\ action' = [action EXCEPT ![d] = [memory |-> record.memory, read |-> {}]]
          /\ sessions' = [sessions EXCEPT ![d] = NewSession]
          /\ passes' = [passes EXCEPT ![d] = @ - 1]
          /\ UNCHANGED <<active, overtaken>>
       \/ /\ PendingObservation
          /\ pc' = [pc EXCEPT ![d] = "observe"]
          /\ action' = [action EXCEPT ![d] =
                 [memory |-> record.memory,
                  read |-> {[message |-> m, content |-> messages[m].content] :
                                m \in EligibleMessages}]]
          /\ passes' = [passes EXCEPT ![d] = @ - 1]
          /\ overtaken' = overtaken \ EligibleMessages
          /\ UNCHANGED <<active, sessions>>
       \/ /\ ~PendingReflection /\ ~PendingObservation
          /\ Return(d)
          /\ UNCHANGED overtaken
    /\ UNCHANGED <<messages, clock, record, generations>>

PassesUsed(d) ==
    /\ pc[d] = "prepare"
    /\ passes[d] = 0
    /\ Return(d)
    /\ UNCHANGED <<chatVars, record, generations>>

-----------------------------------------------------------------------------
(* Observing *)

\* Mutant: a finished session stays in the map.
NextPassKeepingSession(d) ==
    /\ pc' = [pc EXCEPT ![d] = "prepare"]
    /\ action' = [action EXCEPT ![d] = NoAction]
    /\ UNCHANGED <<passes, active, sessions>>

NextPass(d) ==
    /\ pc' = [pc EXCEPT ![d] = "prepare"]
    /\ action' = [action EXCEPT ![d] = NoAction]
    /\ sessions' = [sessions EXCEPT ![d] = NoSession]
    /\ UNCHANGED <<passes, active>>

\* Lengths a new memory may have.
Lengths(gens) ==
    IF Len(gens) < MaxGenerations THEN 1..MaxObservation ELSE 1..ReflectThreshold

\* The messages the action names that still exist.
Covered(d) == {m \in Messages : Here(m) /\ \E r \in action[d].read : r.message = m}

MarkObserved(d) ==
    messages' = [m \in Messages |->
        Row(Here(m), messages[m].created, messages[m].streaming, messages[m].content,
            messages[m].observed \/ m \in Covered(d))]

\* The answer incorporates what was read into the memory of the prompt.
RewriteMemory(d) ==
    \E n \in Lengths(generations), t \in {record.last} \cup {messages[m].created : m \in Covered(d)} :
        /\ t >= record.last
        /\ \A m \in Covered(d) : t >= messages[m].created
        /\ record' = [record EXCEPT !.memory = action[d].memory \cup action[d].read,
                                    !.last = t, !.tokens = n]

ApplyObservation(d) ==
    /\ pc[d] = "observe"
    /\ \/ UNCHANGED storeVars                      \* no observations in the answer
       \/ Covered(d) = {} /\ UNCHANGED storeVars
       \/ /\ Covered(d) # {}
          /\ MarkObserved(d)
          /\ RewriteMemory(d)
          /\ UNCHANGED generations
    /\ NextPass(d)
    /\ UNCHANGED <<clock, overtaken>>

\* The messages are saved, the record is not: the call ends with the store's error.
ObservationHalfSaved(d) ==
    /\ pc[d] = "observe"
    /\ Covered(d) # {}
    /\ MarkObserved(d)
    /\ overtaken' = overtaken \cup {m \in Covered(d) : messages[m].created <= record.last}
    /\ Return(d)
    /\ UNCHANGED <<clock, record, generations>>

\* The store fails to prepare, or the model does not answer: an open reflector
\* session is dropped.
CallFails(d) ==
    /\ pc[d] # "idle"
    /\ Return(d)
    /\ UNCHANGED <<chatVars, record, generations>>

-----------------------------------------------------------------------------
(* Reflecting *)

ReflectorAnswers(d) == pc[d] = "reflect" /\ sessions[d].open /\ ~sessions[d].waiting

ReflectorCallsTools(d) ==
    /\ ReflectorAnswers(d)
    /\ sessions[d].offered \/ UnofferedCalls
    /\ sessions' = [sessions EXCEPT ![d].waiting = TRUE]
    /\ UNCHANGED <<chatVars, record, generations, active, pc, passes, action>>

\* Mutant: the rounds are counted and not looked at.
AllowToolsAlways(s) == ~s.final

AllowTools(s) == ~s.final /\ s.rounds < MaxToolRounds

\* Rounds are counted up to MaxToolRounds, more make no difference.
SubmitToolResults(d) ==
    /\ pc[d] = "reflect" /\ sessions[d].waiting
    /\ LET s == [sessions[d] EXCEPT !.waiting = FALSE,
                                    !.rounds = IF @ < MaxToolRounds THEN @ + 1 ELSE @]
       IN sessions' = [sessions EXCEPT ![d] =
              [s EXCEPT !.offered = AllowTools(s), !.final = ~AllowTools(s)]]
    /\ UNCHANGED <<chatVars, record, generations, active, pc, passes, action>>

\* An answer without XML: asked for once more, then the session is given up.
ReflectorWithoutXml(d) ==
    /\ ReflectorAnswers(d)
    /\ IF sessions[d].final
       THEN Return(d)
       ELSE /\ sessions' = [sessions EXCEPT ![d].final = TRUE, ![d].offered = FALSE]
            /\ UNCHANGED <<active, pc, passes, action>>
    /\ UNCHANGED <<chatVars, record, generations>>

\* Mutant: the record is rewritten before its text is kept as the input.
GenerationOfOutput(d) ==
    [generation |-> record.generation + 1, input |-> {}, prompted |-> action[d].memory]

\* prompted is history: the memory the reflector was shown.
Generation(d) ==
    [generation |-> record.generation + 1, input |-> record.memory, prompted |-> action[d].memory]

\* The reflection takes the place of the memory of the prompt.
ReflectMemory(d) ==
    \E n \in Lengths(generations') :
        record' = [record EXCEPT !.memory = action[d].memory, !.tokens = n,
                                 !.generation = record.generation + 1]

\* The XML is there: the session ends and the reflection is applied.
ApplyReflection(d) ==
    /\ ReflectorAnswers(d)
    /\ \/ UNCHANGED <<record, generations>>        \* no observations in the answer
       \/ /\ generations' = Append(generations, Generation(d))
          /\ ReflectMemory(d)
    /\ NextPass(d)
    /\ UNCHANGED chatVars

\* The generation is saved, the record is not.
ReflectionHalfSaved(d) ==
    /\ ReflectorAnswers(d)
    /\ Len(generations) < MaxGenerations
    /\ generations' = Append(generations, Generation(d))
    /\ Return(d)
    /\ UNCHANGED <<chatVars, record>>

Pass(d) ==
    \/ PreparePendingAction(d) \/ PassesUsed(d)
    \/ ApplyObservation(d) \/ ObservationHalfSaved(d) \/ CallFails(d)
    \/ ReflectorCallsTools(d) \/ SubmitToolResults(d) \/ ReflectorWithoutXml(d)
    \/ ApplyReflection(d) \/ ReflectionHalfSaved(d)

Next == ChatCommand \/ \E d \in Callers : ProcessThread(d) \/ Pass(d)

Spec == Init /\ [][Next]_vars

\* The loop keeps running: answers, failures and store results come.
FairSpec == Spec /\ \A d \in Callers : WF_vars(Pass(d))

-----------------------------------------------------------------------------
MessageType == [here : BOOLEAN, created : 0..clock, streaming : BOOLEAN,
                content : 0..MaxContent, observed : BOOLEAN]

TypeOK ==
    /\ clock \in Nat
    /\ messages \in [Messages -> MessageType]
    /\ record \in [memory : SUBSET Contents, last : 0..clock, tokens : 0..MaxObservation,
                   generation : Nat]
    /\ generations \in Seq([generation : Nat, input : SUBSET Contents, prompted : SUBSET Contents])
    /\ active \in BOOLEAN
    /\ pc \in [Callers -> {"idle", "prepare", "observe", "reflect"}]
    /\ passes \in [Callers -> 0..MaxPasses]
    /\ action \in [Callers -> [memory : SUBSET Contents, read : SUBSET Contents]]
    /\ sessions \in [Callers -> [open : BOOLEAN, rounds : 0..MaxToolRounds, final : BOOLEAN,
                                 waiting : BOOLEAN, offered : BOOLEAN]]
    /\ overtaken \subseteq Messages

Remembered(m) == [message |-> m, content |-> messages[m].content] \in record.memory

\* A message marked as observed has its present content in the memory, although
\* it may have changed or been cleared while the model was asked, or is newer
\* than the record says and will be observed again.  Only two windows break
\* this: the message is edited between the prompt and the mark, or the store
\* fails between the mark and the record, and the record has passed the message.
\* A message that goes on streaming is never caught in the first.
ForgottenIsOvertaken ==
    \A m \in Messages : Here(m) /\ messages[m].observed =>
        Remembered(m) \/ Eligible(m) \/ m \in overtaken

\* What a generation keeps as its input is the memory its reflection was made
\* from: no observation came between the prompt and the answer.
GenerationsAreReflections ==
    \A i \in DOMAIN generations : generations[i].input = generations[i].prompted

\* Reflector sessions do not outlive the call that opened them, however it ends.
NoSessionLeak == \A d \in Callers : sessions[d].open => pc[d] = "reflect"

\* No step loses what the memory already holds: an answer computed from an older
\* memory never overwrites a newer one.
MemoryNotLost == [][record.memory \subseteq record'.memory]_vars

\* Every call of the loop returns, unless the model calls tools it was not offered.
ProcessingEnds == \A d \in Callers : pc[d] # "idle" ~> pc[d] = "idle"
=============================================================================
