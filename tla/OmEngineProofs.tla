--------------------------- MODULE OmEngineProofs ---------------------------
(***************************************************************************)
(* Theorems about the observational memory of module OmEngine, for any     *)
(* number of messages, callers, passes and rounds and any thresholds.      *)
(***************************************************************************)
EXTENDS OmEngine, SequenceTheorems, TLAPS

RecordType == [memory : SUBSET Contents, last : 0..clock, tokens : 0..MaxObservation,
               generation : Nat]
ActionType == [memory : SUBSET Contents, read : SUBSET Contents]
SessionType == [open : BOOLEAN, rounds : 0..MaxToolRounds, final : BOOLEAN,
                waiting : BOOLEAN, offered : BOOLEAN]

Reading(m) == [message |-> m, content |-> messages[m].content]
Marked(m) == Here(m) /\ messages[m].observed /\ m \notin overtaken

Stamped == \A m \in Messages : Here(m) => messages[m].created > 0

\* One caller at a time works on the thread.
Exclusive ==
    /\ \A d \in Callers : pc[d] # "idle" => active
    /\ \A d, e \in Callers : pc[d] # "idle" /\ pc[e] # "idle" => d = e
    /\ NoSessionLeak

\* A marked message is done, and remembered or still newer than the record.
MarkedIsKnown ==
    \A m \in Messages : Marked(m) =>
        /\ ~messages[m].streaming /\ messages[m].content > 0
        /\ Remembered(m) \/ messages[m].created > record.last

\* The prompt a caller waits an answer for is still what the store says, but for
\* messages cleared or edited since; it has read what was marked without it.
PromptIsCurrent ==
    \A d \in Callers :
        /\ pc[d] \in {"observe", "reflect"} => action[d].memory = record.memory
        /\ pc[d] = "observe" =>
              /\ \A r \in action[d].read :
                    /\ messages[r.message].created > 0
                    /\ Here(r.message) /\ r.message \notin overtaken =>
                          /\ ~messages[r.message].streaming /\ messages[r.message].content > 0
                          /\ r = Reading(r.message)
              /\ \A m \in Messages : Marked(m) => Remembered(m) \/ Reading(m) \in action[d].read

IInv == /\ TypeOK /\ Stamped /\ Exclusive /\ MarkedIsKnown /\ PromptIsCurrent
        /\ GenerationsAreReflections

others == <<record, generations, active, pc, passes, action, sessions>>

-----------------------------------------------------------------------------
(* The message commands *)

\* A command that leaves messages unobserved disturbs only what an observation
\* under way has read of them.
LEMMA CommandKeeps ==
  ASSUME IInv, NEW Changed \in SUBSET Messages,
         messages' \in [Messages -> MessageType'], clock' \in Nat, clock' >= clock,
         overtaken' \in SUBSET Messages,
         \A n \in Messages \ Changed : messages'[n] = messages[n] /\ (n \in overtaken' <=> n \in overtaken),
         \A m \in Changed : ~messages'[m].observed,
         \A m \in Messages : messages'[m].here => messages'[m].created > 0,
         \A d \in Callers : pc[d] = "observe" =>
             \A r \in action[d].read : r.message \in Changed =>
                 /\ messages'[r.message].created > 0
                 /\ messages'[r.message].here /\ r.message \notin overtaken' =>
                       /\ ~messages'[r.message].streaming /\ messages'[r.message].content > 0
                       /\ r.content = messages'[r.message].content,
         UNCHANGED others
  PROVE  IInv'
<1>1. TypeOK'
  <2>1. clock \in Nat /\ record.last \in 0..clock
    BY DEF IInv, TypeOK
  <2>2. record'.last \in 0..clock'
    BY <2>1 DEF others
  <2>3. record' \in RecordType'
    BY <2>2 DEF others, IInv, TypeOK, RecordType
  <2>. QED  BY <2>3 DEF others, IInv, TypeOK, RecordType
<1>2. Stamped'
  BY DEF Stamped, Here
<1>3. \A n \in Messages : Marked(n)' => n \notin Changed
  BY DEF Marked
<1>4. \A n \in Messages \ Changed :
         /\ Here(n)' <=> Here(n)
         /\ Marked(n)' <=> Marked(n)
         /\ Reading(n)' = Reading(n)
         /\ Remembered(n)' <=> Remembered(n)
         /\ messages'[n] = messages[n]
  BY DEF Here, Marked, Reading, Remembered, others
<1>5. MarkedIsKnown'
  BY <1>3, <1>4 DEF IInv, MarkedIsKnown, others
<1>6. PromptIsCurrent'
  <2>. SUFFICES ASSUME NEW d \in Callers
                PROVE /\ pc[d] \in {"observe", "reflect"} => action[d].memory = record.memory
                      /\ pc[d] = "observe" =>
                           /\ \A r \in action[d].read :
                                /\ messages'[r.message].created > 0
                                /\ Here(r.message)' /\ r.message \notin overtaken' =>
                                     /\ ~messages'[r.message].streaming /\ messages'[r.message].content > 0
                                     /\ r = Reading(r.message)'
                           /\ \A m \in Messages : Marked(m)' =>
                                 Remembered(m)' \/ Reading(m)' \in action[d].read
    BY DEF PromptIsCurrent, others
  <2>1. pc[d] \in {"observe", "reflect"} => action[d].memory = record.memory
    BY DEF IInv, PromptIsCurrent
  <2>2. ASSUME pc[d] = "observe", NEW r \in action[d].read
        PROVE  /\ messages'[r.message].created > 0
               /\ Here(r.message)' /\ r.message \notin overtaken' =>
                    /\ ~messages'[r.message].streaming /\ messages'[r.message].content > 0
                    /\ r = Reading(r.message)'
    <3>1. r \in Contents
      BY DEF IInv, TypeOK
    <3>2. CASE r.message \in Changed
      BY <2>2, <3>1, <3>2 DEF Here, Reading, Contents
    <3>3. CASE r.message \notin Changed
      BY <2>2, <3>1, <3>3, <1>4 DEF IInv, PromptIsCurrent, Contents
    <3>. QED  BY <3>2, <3>3
  <2>3. ASSUME pc[d] = "observe", NEW m \in Messages, Marked(m)'
        PROVE  Remembered(m)' \/ Reading(m)' \in action[d].read
    BY <2>3, <1>3, <1>4 DEF IInv, PromptIsCurrent
  <2>. QED  BY <2>1, <2>2, <2>3
<1>7. Exclusive' /\ GenerationsAreReflections'
  BY DEF IInv, Exclusive, NoSessionLeak, GenerationsAreReflections, others
<1>. QED  BY <1>1, <1>2, <1>5, <1>6, <1>7 DEF IInv

\* What an observation has read exists, so it is no new message.
LEMMA CreateKeeps ==
  ASSUME IInv, NEW m \in Messages, NEW s \in BOOLEAN, NEW c \in 0..MaxContent,
         CreateMessage(m, s, c), UNCHANGED others
  PROVE  IInv'
<1>1. /\ messages'[m] = [here |-> TRUE, created |-> clock + 1, streaming |-> s,
                         content |-> c, observed |-> FALSE]
      /\ \A n \in Messages \ {m} : messages'[n] = messages[n]
      /\ clock' = clock + 1
      /\ messages[m].created = 0
      /\ UNCHANGED overtaken
  BY DEF CreateMessage, Row, Fresh, IInv, TypeOK, MessageType
<1>2. /\ clock \in Nat /\ overtaken \in SUBSET Messages
      /\ \A n \in Messages : messages[n].created \in 0..clock
  BY DEF IInv, TypeOK, MessageType
<1>3. messages' \in [Messages -> MessageType']
  <2>1. messages'[m] \in MessageType'
    BY <1>1, <1>2 DEF MessageType
  <2>2. \A n \in Messages \ {m} : messages'[n] \in MessageType'
    BY <1>1, <1>2 DEF MessageType, IInv, TypeOK
  <2>3. messages' = [n \in Messages |-> messages'[n]]
    BY DEF CreateMessage, IInv, TypeOK
  <2>. QED  BY <2>1, <2>2, <2>3
<1>4. clock' \in Nat /\ clock' >= clock /\ overtaken' \in SUBSET Messages
  BY <1>1, <1>2
<1>5. \A n \in Messages : messages'[n].here => messages'[n].created > 0
  BY <1>1, <1>2 DEF IInv, Stamped, Here
<1>6. \A d \in Callers : pc[d] = "observe" => \A r \in action[d].read : r.message \notin {m}
  BY <1>1 DEF IInv, PromptIsCurrent
<1>7. ~messages'[m].observed
  BY <1>1
<1>. QED  BY <1>1, <1>3, <1>4, <1>5, <1>6, <1>7, CommandKeeps

\* A change leaves what was read current, or overtakes it.
LEMMA ChangeKeeps ==
  ASSUME IInv, NEW m \in Messages, Here(m), NEW s \in BOOLEAN, NEW c \in 0..MaxContent,
         s => c # messages[m].content, ChangeMessage(m, s, c), UNCHANGED others
  PROVE  IInv'
<1>1. /\ messages' = [messages EXCEPT ![m] = [here |-> messages[m].here,
                         created |-> messages[m].created, streaming |-> s,
                         content |-> c, observed |-> FALSE]]
      /\ clock' = clock
      /\ overtaken' = IF ~messages[m].streaming /\ ReadOtherwise(m, c)
                      THEN overtaken \cup {m} ELSE overtaken
  BY DEF ChangeMessage, EditOvertakes, Row, Here
<1>2. /\ messages'[m] = [here |-> messages[m].here, created |-> messages[m].created,
                         streaming |-> s, content |-> c, observed |-> FALSE]
      /\ \A n \in Messages \ {m} : messages'[n] = messages[n]
  BY <1>1 DEF IInv, TypeOK
<1>3. /\ clock \in Nat /\ overtaken \in SUBSET Messages
      /\ messages[m].created \in 0..clock /\ messages[m].here \in BOOLEAN
      /\ messages[m].created > 0
  BY DEF IInv, TypeOK, MessageType, Stamped
<1>4. messages' \in [Messages -> MessageType']
  <2>1. messages'[m] \in MessageType
    BY <1>2, <1>3 DEF MessageType
  <2>2. MessageType' = MessageType
    BY <1>1 DEF MessageType
  <2>. QED  BY <1>1, <1>2, <2>1, <2>2 DEF IInv, TypeOK
<1>5. /\ clock' \in Nat /\ clock' >= clock /\ overtaken' \in SUBSET Messages
      /\ \A n \in Messages \ {m} : n \in overtaken' <=> n \in overtaken
      /\ ~messages'[m].observed
  BY <1>1, <1>2, <1>3
<1>6. \A n \in Messages : messages'[n].here => messages'[n].created > 0
  BY <1>2, <1>3 DEF IInv, Stamped, Here
<1>7. ASSUME NEW d \in Callers, pc[d] = "observe", NEW r \in action[d].read, r.message = m,
             m \notin overtaken'
      PROVE  ~s /\ c > 0 /\ r.content = c
  <2>1. m \notin overtaken
    BY <1>1, <1>7
  <2>2. ~messages[m].streaming /\ messages[m].content > 0 /\ r.content = messages[m].content
    BY <1>7, <2>1 DEF IInv, PromptIsCurrent, Reading
  <2>3. ~ReadOtherwise(m, c)
    BY <1>1, <1>7, <2>2
  <2>4. r.content = c
    BY <1>7, <2>3 DEF ReadOtherwise
  <2>. QED  BY <2>2, <2>4
<1>8. \A d \in Callers : pc[d] = "observe" =>
          \A r \in action[d].read : r.message \in {m} =>
              /\ messages'[r.message].created > 0
              /\ messages'[r.message].here /\ r.message \notin overtaken' =>
                    /\ ~messages'[r.message].streaming /\ messages'[r.message].content > 0
                    /\ r.content = messages'[r.message].content
  BY <1>2, <1>3, <1>7
<1>. QED  BY <1>2, <1>4, <1>5, <1>6, <1>8, CommandKeeps

LEMMA ClearKeeps ==
  ASSUME IInv, ClearThread, UNCHANGED others
  PROVE  IInv'
<1>1. /\ clock \in Nat
      /\ \A n \in Messages : messages[n].created \in 0..clock
  BY DEF IInv, TypeOK, MessageType
<1>2. \A n \in Messages : messages'[n] = [here |-> FALSE, created |-> messages[n].created,
                               streaming |-> FALSE, content |-> 0, observed |-> FALSE]
  BY DEF ClearThread, Row
<1>3. clock' = clock /\ overtaken' = {} /\ messages' = [n \in Messages |-> messages'[n]]
  BY DEF ClearThread
<1>4. messages' \in [Messages -> MessageType']
  <2>1. 0 \in 0..MaxContent
    BY OmAssumption DEF OmAssumption
  <2>2. \A n \in Messages : messages'[n] \in MessageType'
    <3>. SUFFICES ASSUME NEW n \in Messages PROVE messages'[n] \in MessageType'
      OBVIOUS
    <3>1. MessageType' = MessageType
      BY <1>3 DEF MessageType
    <3>2. messages[n].created \in 0..clock /\ FALSE \in BOOLEAN
      BY <1>1
    <3>3. [here |-> FALSE, created |-> messages[n].created, streaming |-> FALSE,
           content |-> 0, observed |-> FALSE] \in MessageType
      BY <2>1, <3>2 DEF MessageType
    <3>. QED  BY <1>2, <3>1, <3>3
  <2>. QED  BY <1>3, <2>2
<1>5. \A d \in Callers : pc[d] = "observe" =>
          \A r \in action[d].read : /\ r.message \in Messages
                                    /\ messages[r.message].created > 0
  BY DEF IInv, TypeOK, Contents, PromptIsCurrent
<1>. QED  BY <1>1, <1>2, <1>3, <1>4, <1>5, CommandKeeps

LEMMA ChatKeeps ==
  ASSUME IInv, ChatCommand
  PROVE  IInv'
<1>. USE OmAssumption
<1>1. UNCHANGED others
  BY DEF ChatCommand, others
<1>2. ASSUME NEW m \in Messages, AddMessage(m) \/ StartStreamingMessage(m)
      PROVE  IInv'
  <2>1. 0 \in 0..MaxContent /\ 1 \in 0..MaxContent
    BY DEF OmAssumption
  <2>2. CASE AddMessage(m)
    <3>1. CreateMessage(m, FALSE, 1)
      BY <2>2 DEF AddMessage
    <3>2. FALSE \in BOOLEAN
      OBVIOUS
    <3>. QED  BY <1>1, <2>1, <3>1, <3>2, CreateKeeps, Zenon
  <2>3. CASE StartStreamingMessage(m)
    BY <1>1, <2>1, <2>3, CreateKeeps, TRUE \in BOOLEAN DEF StartStreamingMessage
  <2>. QED  BY <1>2, <2>2, <2>3
<1>3. ASSUME NEW m \in Messages, Here(m), AppendMessage(m) \/ UpdateMessage(m)
      PROVE  IInv'
  <2>1. /\ messages[m].content + 1 \in 0..MaxContent
        /\ messages[m].content + 1 # messages[m].content
    <3>1. messages[m].content \in 0..MaxContent
      BY DEF IInv, TypeOK, MessageType
    <3>2. messages[m].content < MaxContent
      BY <1>3 DEF AppendMessage, UpdateMessage
    <3>3. MaxContent \in Nat
      BY DEF OmAssumption
    <3>. QED  BY <3>1, <3>2, <3>3
  <2>. QED  BY <1>1, <1>3, <2>1, ChangeKeeps DEF AppendMessage, UpdateMessage
<1>4. ASSUME NEW m \in Messages, Here(m), CompleteMessage(m)
      PROVE  IInv'
  <2>1. messages[m].content \in 0..MaxContent
    BY DEF IInv, TypeOK, MessageType
  <2>. QED  BY <1>1, <1>4, <2>1, ChangeKeeps DEF CompleteMessage
<1>. QED  BY <1>1, <1>2, <1>3, <1>4, ClearKeeps DEF ChatCommand

-----------------------------------------------------------------------------
(* What the loop leaves in the store *)

StoreTypeOK ==
    /\ clock \in Nat
    /\ messages \in [Messages -> MessageType]
    /\ record \in RecordType
    /\ generations \in Seq([generation : Nat, input : SUBSET Contents, prompted : SUBSET Contents])
    /\ overtaken \subseteq Messages

StoreInv == StoreTypeOK /\ Stamped /\ MarkedIsKnown /\ GenerationsAreReflections

LEMMA IInvStore == IInv => StoreInv
BY DEF IInv, StoreInv, StoreTypeOK, TypeOK, RecordType

LEMMA StoreUnchanged ==
  ASSUME IInv, UNCHANGED <<messages, clock, record, generations, overtaken>>
  PROVE  StoreInv'
<1>1. StoreInv
  BY IInvStore
<1>. QED
  BY <1>1 DEF StoreInv, StoreTypeOK, Stamped, MarkedIsKnown, GenerationsAreReflections,
              Here, Marked, Reading, Remembered, MessageType, RecordType

\* A call that returns, or goes on with its next pass, keeps no prompt.
LEMMA ReturnKeeps ==
  ASSUME IInv, NEW d \in Callers, pc[d] # "idle", Return(d), StoreInv'
  PROVE  IInv'
<1>1. \A e \in Callers : pc'[e] = "idle" /\ (e # d => ~sessions[e].open)
  BY DEF Return, IInv, TypeOK, Exclusive, NoSessionLeak
<1>2. TypeOK'
  <2>1. NoAction \in ActionType
    BY DEF NoAction, ActionType
  <2>2. NoSession \in SessionType
    BY OmAssumption DEF NoSession, SessionType, OmAssumption
  <2>3. 0 \in 0..MaxPasses
    BY OmAssumption DEF OmAssumption
  <2>4. /\ active' \in BOOLEAN
        /\ pc' \in [Callers -> {"idle", "prepare", "observe", "reflect"}]
        /\ passes' \in [Callers -> 0..MaxPasses]
    BY <2>3 DEF Return, IInv, TypeOK
  <2>5. action' \in [Callers -> ActionType] /\ sessions' \in [Callers -> SessionType]
    BY <2>1, <2>2 DEF Return, IInv, TypeOK, ActionType, SessionType
  <2>. QED
    BY <2>4, <2>5 DEF StoreInv, StoreTypeOK, TypeOK, RecordType, ActionType, SessionType
<1>3. Exclusive'
  <2>1. ~NoSession.open
    BY DEF NoSession
  <2>2. \A e \in Callers : ~sessions'[e].open
    BY <1>1, <2>1 DEF Return, IInv, TypeOK
  <2>. QED  BY <1>1, <2>2 DEF Exclusive, NoSessionLeak
<1>4. PromptIsCurrent'
  BY <1>1 DEF PromptIsCurrent
<1>. QED  BY <1>2, <1>3, <1>4 DEF IInv, StoreInv

LEMMA NextPassKeeps ==
  ASSUME IInv, NEW d \in Callers, pc[d] # "idle", NextPass(d), StoreInv'
  PROVE  IInv'
<1>1. \A e \in Callers : /\ e # d => pc'[e] = "idle" /\ ~sessions[e].open
                         /\ pc'[e] \in {"idle", "prepare"}
  BY DEF NextPass, IInv, TypeOK, Exclusive, NoSessionLeak
<1>2. TypeOK'
  <2>1. NoAction \in ActionType
    BY DEF NoAction, ActionType
  <2>2. NoSession \in SessionType
    BY OmAssumption DEF NoSession, SessionType, OmAssumption
  <2>3. /\ active' \in BOOLEAN
        /\ pc' \in [Callers -> {"idle", "prepare", "observe", "reflect"}]
        /\ passes' \in [Callers -> 0..MaxPasses]
    BY DEF NextPass, IInv, TypeOK
  <2>4. action' \in [Callers -> ActionType] /\ sessions' \in [Callers -> SessionType]
    BY <2>1, <2>2 DEF NextPass, IInv, TypeOK, ActionType, SessionType
  <2>. QED
    BY <2>3, <2>4 DEF StoreInv, StoreTypeOK, TypeOK, RecordType, ActionType, SessionType
<1>3. Exclusive'
  <2>1. ~NoSession.open
    BY DEF NoSession
  <2>2. \A e \in Callers : ~sessions'[e].open
    BY <1>1, <2>1 DEF NextPass, IInv, TypeOK
  <2>3. active'
    BY DEF NextPass, IInv, Exclusive
  <2>. QED  BY <1>1, <2>2, <2>3 DEF Exclusive, NoSessionLeak
<1>4. PromptIsCurrent'
  BY <1>1 DEF PromptIsCurrent
<1>. QED  BY <1>2, <1>3, <1>4 DEF IInv, StoreInv

-----------------------------------------------------------------------------
(* Starting a call and a pass *)

LEMMA ProcessKeeps ==
  ASSUME IInv, NEW d \in Callers, ProcessThread(d)
  PROVE  IInv'
<1>1. StoreInv'
  BY StoreUnchanged DEF ProcessThread, chatVars
<1>2. \A e \in Callers : /\ pc[e] = "idle" /\ ~sessions[e].open
                         /\ e # d => pc'[e] = "idle"
                         /\ pc'[e] \in {"idle", "prepare"}
  BY DEF ProcessThread, IInv, TypeOK, Exclusive, NoSessionLeak
<1>3. TypeOK'
  <2>1. MaxPasses \in 0..MaxPasses
    BY OmAssumption DEF OmAssumption
  <2>2. /\ active' \in BOOLEAN
        /\ pc' \in [Callers -> {"idle", "prepare", "observe", "reflect"}]
        /\ passes' \in [Callers -> 0..MaxPasses]
        /\ UNCHANGED <<action, sessions>>
    BY <2>1 DEF ProcessThread, IInv, TypeOK
  <2>. QED  BY <1>1, <2>2 DEF IInv, StoreInv, StoreTypeOK, TypeOK, RecordType
<1>4. Exclusive'
  BY <1>2 DEF ProcessThread, Exclusive, NoSessionLeak
<1>5. PromptIsCurrent'
  BY <1>2 DEF PromptIsCurrent
<1>. QED  BY <1>1, <1>3, <1>4, <1>5 DEF IInv, StoreInv

LEMMA PrepareKeeps ==
  ASSUME IInv, NEW d \in Callers, PreparePendingAction(d)
  PROVE  IInv'
<1>1. UNCHANGED <<messages, clock, record, generations>>
  BY DEF PreparePendingAction
<1>12. ASSUME UNCHANGED overtaken PROVE StoreInv'
  BY <1>1, <1>12, StoreUnchanged
<1>2. \A e \in Callers : e # d => pc[e] = "idle" /\ ~sessions[e].open
  BY DEF PreparePendingAction, IInv, TypeOK, Exclusive, NoSessionLeak
<1>3. active /\ pc[d] = "prepare" /\ ~sessions[d].open
  BY DEF PreparePendingAction, IInv, Exclusive, NoSessionLeak
<1>4. passes[d] - 1 \in 0..MaxPasses
  <2>1. passes[d] \in 0..MaxPasses /\ MaxPasses \in Nat
    BY OmAssumption DEF IInv, TypeOK, OmAssumption
  <2>. QED  BY <2>1 DEF PreparePendingAction
<1>5. ASSUME NEW a \in ActionType, a.memory = record.memory,
             action' = [action EXCEPT ![d] = a],
             UNCHANGED active, StoreInv',
             passes' = [passes EXCEPT ![d] = @ - 1],
             \/ /\ pc' = [pc EXCEPT ![d] = "reflect"]
                /\ sessions' = [sessions EXCEPT ![d] = NewSession]
             \/ /\ pc' = [pc EXCEPT ![d] = "observe"]
                /\ UNCHANGED sessions
      PROVE  /\ TypeOK' /\ Exclusive'
             /\ \A e \in Callers : e # d => pc'[e] = "idle"
             /\ pc'[d] \in {"observe", "reflect"}
             /\ action'[d] = a
  <2>1. NewSession \in SessionType
    BY OmAssumption DEF NewSession, NoSession, SessionType, OmAssumption
  <2>2. /\ active' \in BOOLEAN
        /\ pc' \in [Callers -> {"idle", "prepare", "observe", "reflect"}]
        /\ passes' \in [Callers -> 0..MaxPasses]
    BY <1>4, <1>5 DEF IInv, TypeOK
  <2>10. action' \in [Callers -> ActionType]
    <3>1. action \in [Callers -> ActionType]
      BY DEF IInv, TypeOK, ActionType
    <3>. QED  BY <1>5, <3>1
  <2>11. sessions' \in [Callers -> SessionType]
    <3>1. sessions \in [Callers -> SessionType]
      BY DEF IInv, TypeOK, SessionType
    <3>. QED  BY <1>5, <2>1, <3>1
  <2>3. action' \in [Callers -> ActionType] /\ sessions' \in [Callers -> SessionType]
    BY <2>10, <2>11
  <2>4. TypeOK'
    BY <1>5, <2>2, <2>3 DEF StoreInv, StoreTypeOK, TypeOK, RecordType, ActionType, SessionType
  <2>5. /\ \A e \in Callers : e # d => pc'[e] = "idle"
        /\ pc'[d] \in {"observe", "reflect"}
        /\ action'[d] = a
    BY <1>2, <1>5 DEF IInv, TypeOK
  <2>6. \A e \in Callers : e # d => ~sessions'[e].open
    BY <1>2, <1>5 DEF IInv, TypeOK
  <2>7. sessions'[d].open => pc'[d] = "reflect"
    BY <1>3, <1>5 DEF IInv, TypeOK
  <2>8. Exclusive'
    BY <1>3, <1>5, <2>5, <2>6, <2>7 DEF Exclusive, NoSessionLeak
  <2>. QED  BY <2>4, <2>5, <2>8
<1>6. CASE /\ PendingReflection
           /\ pc' = [pc EXCEPT ![d] = "reflect"]
           /\ action' = [action EXCEPT ![d] = [memory |-> record.memory, read |-> {}]]
           /\ sessions' = [sessions EXCEPT ![d] = NewSession]
           /\ passes' = [passes EXCEPT ![d] = @ - 1]
           /\ UNCHANGED <<active, overtaken>>
  <2>1. [memory |-> record.memory, read |-> {}] \in ActionType
    BY DEF ActionType, IInv, TypeOK
  <2>2. StoreInv'
    BY <1>6, <1>12
  <2>3. /\ TypeOK' /\ Exclusive'
        /\ \A e \in Callers : e # d => pc'[e] = "idle"
        /\ action'[d] = [memory |-> record.memory, read |-> {}]
    BY <1>5, <1>6, <2>1, <2>2
  <2>4. pc'[d] = "reflect"
    BY <1>6 DEF IInv, TypeOK
  <2>5. PromptIsCurrent'
    BY <1>1, <2>3, <2>4 DEF PromptIsCurrent
  <2>. QED  BY <2>2, <2>3, <2>5 DEF IInv, StoreInv
<1>7. CASE /\ PendingObservation
           /\ pc' = [pc EXCEPT ![d] = "observe"]
           /\ action' = [action EXCEPT ![d] =
                  [memory |-> record.memory,
                   read |-> {[message |-> m, content |-> messages[m].content] :
                                 m \in EligibleMessages}]]
           /\ passes' = [passes EXCEPT ![d] = @ - 1]
           /\ overtaken' = overtaken \ EligibleMessages
           /\ UNCHANGED <<active, sessions>>
  <2>. DEFINE read == {Reading(m) : m \in EligibleMessages}
              a == [memory |-> record.memory, read |-> read]
  <2>1. \A m \in EligibleMessages :
            /\ m \in Messages /\ messages[m].created > 0 /\ ~messages[m].streaming
            /\ messages[m].content \in 1..MaxContent
    BY OmAssumption DEF EligibleMessages, Eligible, Here, IInv, TypeOK, MessageType,
                        Stamped, OmAssumption
  <2>2. read \subseteq Contents
    BY <2>1 DEF Reading, Contents
  <2>3. a \in ActionType
    BY <2>2 DEF ActionType, IInv, TypeOK
  <2>4. \A m \in Messages :
            Marked(m)' => \/ Marked(m) /\ (Remembered(m) \/ m \in EligibleMessages)
                          \/ m \in EligibleMessages /\ messages[m].observed
    <3>1. \A m \in Messages : Marked(m) /\ ~Remembered(m) => m \in EligibleMessages
      BY DEF IInv, MarkedIsKnown, Marked, EligibleMessages, Eligible
    <3>2. \A m \in Messages : Marked(m)' => Here(m) /\ messages[m].observed
      BY <1>1 DEF Marked, Here
    <3>3. \A m \in Messages : Marked(m)' => Marked(m) \/ m \in EligibleMessages
      BY <1>1, <1>7 DEF Marked, Here
    <3>. QED  BY <3>1, <3>2, <3>3
  <2>5. \A m \in EligibleMessages : messages[m].observed => messages[m].created > record.last
    BY DEF EligibleMessages, Eligible
  <2>6. StoreInv'
    <3>1. MarkedIsKnown'
      <4>1. \A m \in Messages : Marked(m)' =>
                /\ ~messages[m].streaming /\ messages[m].content > 0
                /\ Remembered(m) \/ messages[m].created > record.last
        BY <2>1, <2>4, <2>5 DEF IInv, MarkedIsKnown
      <4>2. \A m \in Messages : Remembered(m)' <=> Remembered(m)
        BY <1>1 DEF Remembered
      <4>. QED  BY <1>1, <4>1, <4>2 DEF MarkedIsKnown
    <3>2. StoreTypeOK'
      <4>1. StoreTypeOK
        BY IInvStore DEF StoreInv
      <4>. QED  BY <1>1, <1>7, <4>1 DEF StoreTypeOK, MessageType, RecordType
    <3>3. Stamped' /\ GenerationsAreReflections'
      BY <1>1 DEF IInv, Stamped, Here, GenerationsAreReflections
    <3>. QED  BY <3>1, <3>2, <3>3 DEF StoreInv
  <2>7. action' = [action EXCEPT ![d] = a] /\ a.memory = record.memory /\ a.read = read
    BY <1>7 DEF Reading
  <2>. HIDE DEF a
  <2>8. /\ TypeOK' /\ Exclusive'
        /\ \A e \in Callers : e # d => pc'[e] = "idle"
        /\ action'[d] = a
    BY <1>5, <1>7, <2>3, <2>6, <2>7
  <2>9. \A r \in read : /\ messages[r.message].created > 0
                        /\ ~messages[r.message].streaming /\ messages[r.message].content > 0
                        /\ r = Reading(r.message)
    BY <2>1 DEF Reading
  <2>10. \A m \in Messages : Marked(m)' => Remembered(m) \/ Reading(m) \in read
    BY <2>4
  <2>11. PromptIsCurrent'
    <3>1. /\ \A m \in Messages : Remembered(m)' <=> Remembered(m)
          /\ \A m : Reading(m)' = Reading(m)
      BY <1>1 DEF Remembered, Reading
    <3>2. /\ action'[d].memory = record'.memory /\ action'[d].read = read
          /\ \A r \in read : /\ messages'[r.message].created > 0
                             /\ ~messages'[r.message].streaming /\ messages'[r.message].content > 0
                             /\ r = Reading(r.message)'
          /\ \A m \in Messages : Marked(m)' => Remembered(m)' \/ Reading(m)' \in read
      BY <1>1, <2>7, <2>8, <2>9, <2>10, <3>1
    <3>. HIDE DEF read
    <3>. QED  BY <2>8, <3>2 DEF PromptIsCurrent
  <2>. QED  BY <2>6, <2>8, <2>11 DEF IInv, StoreInv
<1>8. CASE Return(d)
  <2>1. UNCHANGED overtaken
    BY <1>3, <1>8 DEF PreparePendingAction, Return, IInv, TypeOK
  <2>. QED  BY <1>3, <1>8, <1>12, <2>1, ReturnKeeps
<1>. QED  BY <1>6, <1>7, <1>8 DEF PreparePendingAction

-----------------------------------------------------------------------------
(* Observing *)

\* What marking leaves alone, and what the action read of the messages it marks.
LEMMA MarkFacts ==
  ASSUME IInv, NEW d \in Callers, pc[d] = "observe", MarkObserved(d), UNCHANGED clock
  PROVE  /\ messages' \in [Messages -> MessageType]
         /\ \A m \in Messages : /\ messages'[m].here <=> messages[m].here
                                /\ messages'[m].streaming <=> messages[m].streaming
                                /\ messages'[m].created = messages[m].created
                                /\ messages'[m].content = messages[m].content
         /\ \A m \in Messages : messages'[m].observed => messages[m].observed \/ m \in Covered(d)
         /\ \A m \in Covered(d) : m \notin overtaken =>
                /\ ~messages[m].streaming /\ messages[m].content > 0
                /\ Reading(m) \in action[d].read
         /\ Stamped'
<1>1. \A m \in Messages :
        messages'[m] = Row(Here(m), messages[m].created, messages[m].streaming,
                           messages[m].content, messages[m].observed \/ m \in Covered(d))
  BY DEF MarkObserved
<1>2. \A m \in Messages : /\ messages'[m].here <=> messages[m].here
                          /\ messages'[m].streaming <=> messages[m].streaming
                          /\ messages'[m].created = messages[m].created
                          /\ messages'[m].content = messages[m].content
                          /\ messages'[m].observed <=> messages[m].observed \/ m \in Covered(d)
                          /\ messages'[m] \in MessageType
  <2>. SUFFICES ASSUME NEW m \in Messages
                PROVE  /\ messages'[m].here <=> messages[m].here
                       /\ messages'[m].streaming <=> messages[m].streaming
                       /\ messages'[m].created = messages[m].created
                       /\ messages'[m].content = messages[m].content
                       /\ messages'[m].observed <=> messages[m].observed \/ m \in Covered(d)
                       /\ messages'[m] \in MessageType
    OBVIOUS
  <2>1. /\ messages[m].created \in 0..clock /\ messages[m].streaming \in BOOLEAN
        /\ messages[m].content \in 0..MaxContent /\ messages[m].observed \in BOOLEAN
        /\ messages[m].here \in BOOLEAN
    BY DEF IInv, TypeOK, MessageType
  <2>. DEFINE o == messages[m].observed \/ m \in Covered(d)
  <2>2. o \in BOOLEAN
    OBVIOUS
  <2>5. messages'[m] = Row(Here(m), messages[m].created, messages[m].streaming,
                           messages[m].content, o)
    BY <1>1
  <2>6. o <=> messages[m].observed \/ m \in Covered(d)
    OBVIOUS
  <2>. HIDE DEF o
  <2>7. messages'[m] \in MessageType
    BY <2>1, <2>2, <2>5 DEF Row, MessageType, Here
  <2>3. /\ messages'[m].here <=> messages[m].here
        /\ messages'[m].streaming <=> messages[m].streaming
        /\ messages'[m].created = messages[m].created
        /\ messages'[m].content = messages[m].content
    BY <2>1, <2>2, <2>5 DEF Row, Here
  <2>4. messages'[m].observed <=> o
    BY <2>1, <2>2, <2>5 DEF Row
  <2>. QED  BY <2>3, <2>4, <2>6, <2>7
<1>3. \A m \in Covered(d) : m \notin overtaken =>
          /\ ~messages[m].streaming /\ messages[m].content > 0
          /\ Reading(m) \in action[d].read
  BY DEF Covered, IInv, PromptIsCurrent
<1>4. Stamped'
  BY <1>2 DEF IInv, Stamped, Here
<1>5. messages' \in [Messages -> MessageType]
  BY <1>2 DEF MarkObserved
<1>. QED  BY <1>2, <1>3, <1>4, <1>5

LEMMA ObservationHalfSavedKeeps ==
  ASSUME IInv, NEW d \in Callers, ObservationHalfSaved(d)
  PROVE  IInv'
<1>1. /\ pc[d] = "observe" /\ MarkObserved(d) /\ UNCHANGED <<clock, record, generations>>
      /\ overtaken' = overtaken \cup {m \in Covered(d) : messages[m].created <= record.last}
  BY DEF ObservationHalfSaved
<1>2. /\ clock \in Nat /\ record.last \in 0..clock
      /\ \A m \in Messages : messages[m].created \in 0..clock
  BY DEF IInv, TypeOK, MessageType
<1>3. StoreTypeOK'
  <2>1. overtaken' \subseteq Messages
    BY <1>1 DEF Covered, IInv, TypeOK
  <2>. QED
    BY <1>1, <2>1, MarkFacts, IInvStore DEF StoreInv, StoreTypeOK, MessageType, RecordType
<1>4. MarkedIsKnown'
  <2>. SUFFICES ASSUME NEW m \in Messages, Marked(m)'
                PROVE  /\ ~messages'[m].streaming /\ messages'[m].content > 0
                       /\ Remembered(m)' \/ messages'[m].created > record'.last
    BY DEF MarkedIsKnown
  <2>1. /\ m \notin overtaken /\ Here(m) /\ (messages[m].observed \/ m \in Covered(d))
        /\ Remembered(m)' <=> Remembered(m)
        /\ messages'[m].streaming <=> messages[m].streaming
        /\ messages'[m].content = messages[m].content
        /\ messages'[m].created = messages[m].created
    BY <1>1, MarkFacts DEF Marked, Here, Remembered
  <2>2. CASE m \in Covered(d)
    <3>1. messages[m].created > record.last
      BY <1>1, <1>2, <2>2 DEF Marked
    <3>. QED  BY <1>1, <2>1, <2>2, <3>1, MarkFacts
  <2>3. CASE messages[m].observed
    BY <1>1, <2>1, <2>3 DEF IInv, MarkedIsKnown, Marked
  <2>. QED  BY <2>1, <2>2, <2>3
<1>5. StoreInv'
  BY <1>1, <1>3, <1>4, MarkFacts DEF IInv, StoreInv, GenerationsAreReflections
<1>. QED  BY <1>1, <1>5, ReturnKeeps DEF ObservationHalfSaved

LEMMA RewriteFacts ==
  ASSUME IInv, NEW d \in Callers, pc[d] = "observe", MarkObserved(d), RewriteMemory(d),
         UNCHANGED <<clock, generations, overtaken>>
  PROVE  StoreInv' /\ record.memory \subseteq record'.memory
<1>1. PICK n \in Lengths(generations),
           t \in {record.last} \cup {messages[m].created : m \in Covered(d)} :
        /\ t >= record.last
        /\ \A m \in Covered(d) : t >= messages[m].created
        /\ record' = [record EXCEPT !.memory = action[d].memory \cup action[d].read,
                                    !.last = t, !.tokens = n]
  BY DEF RewriteMemory
<1>2. action[d].memory = record.memory /\ action[d].read \subseteq Contents
  BY DEF IInv, PromptIsCurrent, TypeOK
<1>3. record'.memory = record.memory \cup action[d].read
  BY <1>1, <1>2 DEF IInv, TypeOK
<1>4. /\ \A m \in Messages : messages[m].created \in 0..clock
      /\ clock \in Nat /\ record.last \in 0..clock /\ t \in 0..clock
  BY <1>1 DEF IInv, TypeOK, MessageType, Covered
<1>5. StoreTypeOK'
  <2>1. n \in 0..MaxObservation
    BY <1>1, OmAssumption DEF Lengths, OmAssumption
  <2>2. record' \in RecordType
    BY <1>1, <1>2, <1>4, <2>1 DEF RecordType, IInv, TypeOK
  <2>. QED
    BY <2>2, MarkFacts, IInvStore DEF StoreInv, StoreTypeOK, MessageType, RecordType
<1>6. MarkedIsKnown'
  <2>. SUFFICES ASSUME NEW m \in Messages, Marked(m)'
                PROVE  /\ ~messages'[m].streaming /\ messages'[m].content > 0
                       /\ Remembered(m)'
    BY DEF MarkedIsKnown
  <2>1. /\ m \notin overtaken /\ Here(m) /\ (messages[m].observed \/ m \in Covered(d))
        /\ Reading(m)' = Reading(m)
        /\ messages'[m].streaming <=> messages[m].streaming
        /\ messages'[m].content = messages[m].content
    BY MarkFacts DEF Marked, Here, Reading
  <2>2. /\ ~messages[m].streaming /\ messages[m].content > 0
        /\ Remembered(m) \/ Reading(m) \in action[d].read
    <3>1. CASE m \in Covered(d)
      BY <2>1, <3>1, MarkFacts
    <3>2. CASE messages[m].observed
      BY <2>1, <3>2 DEF IInv, MarkedIsKnown, PromptIsCurrent, Marked
    <3>. QED  BY <2>1, <3>1, <3>2
  <2>3. Remembered(m)'
    BY <1>3, <2>1, <2>2 DEF Remembered, Reading
  <2>. QED  BY <2>1, <2>2, <2>3
<1>. QED
  BY <1>3, <1>5, <1>6, MarkFacts DEF IInv, StoreInv, GenerationsAreReflections

LEMMA ApplyObservationKeeps ==
  ASSUME IInv, NEW d \in Callers, ApplyObservation(d)
  PROVE  IInv' /\ record.memory \subseteq record'.memory
<1>1. pc[d] = "observe" /\ NextPass(d) /\ UNCHANGED <<clock, overtaken>>
  BY DEF ApplyObservation
<1>2. StoreInv' /\ record.memory \subseteq record'.memory
  <2>1. CASE UNCHANGED storeVars
    BY <1>1, <2>1, StoreUnchanged DEF storeVars
  <2>2. CASE MarkObserved(d) /\ RewriteMemory(d) /\ UNCHANGED generations
    BY <1>1, <2>2, RewriteFacts
  <2>. QED  BY <2>1, <2>2 DEF ApplyObservation
<1>. QED  BY <1>1, <1>2, NextPassKeeps

-----------------------------------------------------------------------------
(* Reflecting *)

LEMMA SessionStepKeeps ==
  ASSUME IInv, NEW d \in Callers, pc[d] = "reflect", NEW s \in SessionType,
         sessions' = [sessions EXCEPT ![d] = s],
         UNCHANGED <<messages, clock, overtaken, record, generations, active, pc, passes, action>>
  PROVE  IInv'
<1>1. StoreInv'
  BY StoreUnchanged
<1>2. TypeOK'
  <2>1. sessions' \in [Callers -> SessionType]
    BY DEF IInv, TypeOK, SessionType
  <2>. QED
    BY <1>1, <2>1 DEF IInv, StoreInv, StoreTypeOK, TypeOK, RecordType, SessionType
<1>3. Exclusive'
  BY DEF IInv, Exclusive, NoSessionLeak, TypeOK
<1>4. PromptIsCurrent'
  BY DEF IInv, PromptIsCurrent, Marked, Here, Reading, Remembered
<1>. QED  BY <1>1, <1>2, <1>3, <1>4 DEF IInv, StoreInv

LEMMA GenerationKeeps ==
  ASSUME IInv, NEW d \in Callers, pc[d] = "reflect",
         generations' = Append(generations, Generation(d)),
         UNCHANGED <<messages, clock, overtaken>>,
         UNCHANGED record \/ ReflectMemory(d)
  PROVE  StoreInv' /\ record'.memory = record.memory
<1>. DEFINE Gen == [generation : Nat, input : SUBSET Contents, prompted : SUBSET Contents]
<1>1. action[d].memory = record.memory
  BY DEF IInv, PromptIsCurrent
<1>2. record'.memory = record.memory /\ record'.last = record.last
  BY <1>1 DEF ReflectMemory, IInv, TypeOK
<1>3. record' \in RecordType
  <2>1. record \in RecordType /\ action[d].memory \subseteq Contents
    BY DEF IInv, TypeOK, RecordType
  <2>4. record.generation \in Nat
    BY DEF IInv, TypeOK
  <2>2. ASSUME NEW n \in Lengths(generations'),
               record' = [record EXCEPT !.memory = action[d].memory, !.tokens = n,
                                        !.generation = record.generation + 1]
        PROVE  record' \in RecordType
    <3>1. ReflectThreshold \in Nat /\ MaxObservation \in Nat /\ ReflectThreshold < MaxObservation
      BY OmAssumption DEF OmAssumption
    <3>2. n \in 1..MaxObservation \/ n \in 1..ReflectThreshold
      BY DEF Lengths
    <3>3. n \in 0..MaxObservation
      BY <3>1, <3>2
    <3>4. record.generation + 1 \in Nat
      BY <2>4
    <3>. QED  BY <2>1, <2>2, <3>3, <3>4 DEF RecordType
  <2>. QED  BY <2>1, <2>2 DEF ReflectMemory, RecordType
<1>4. Generation(d) \in Gen /\ Generation(d).input = Generation(d).prompted
  <2>1. record.memory \in SUBSET Contents /\ record.generation \in Nat
    BY DEF IInv, TypeOK
  <2>2. record.generation + 1 \in Nat
    BY <2>1
  <2>. QED  BY <1>1, <2>1, <2>2 DEF Generation
<1>5. generations \in Seq(Gen)
  BY DEF IInv, TypeOK
<1>6. generations' \in Seq(Gen) /\ GenerationsAreReflections'
  <2>. DEFINE g == Generation(d)
  <2>1. g \in Gen /\ g.input = g.prompted /\ generations' = Append(generations, g)
    BY <1>4
  <2>. HIDE DEF g, Gen
  <2>2. /\ generations' \in Seq(Gen)
        /\ Len(generations') = Len(generations) + 1 /\ Len(generations) \in Nat
        /\ \A i \in 1..Len(generations) : generations'[i] = generations[i]
        /\ generations'[Len(generations) + 1] = g
    BY <1>5, <2>1, AppendProperties, LenProperties
  <2>3. DOMAIN generations = 1..Len(generations) /\ DOMAIN generations' = 1..Len(generations')
    BY <1>5, <2>2, LenProperties
  <2>4. \A i \in 1..Len(generations) : generations[i].input = generations[i].prompted
    BY <2>3 DEF IInv, GenerationsAreReflections
  <2>5. ASSUME NEW i \in 1..(Len(generations) + 1)
        PROVE  generations'[i].input = generations'[i].prompted
    BY <2>1, <2>2, <2>4
  <2>. QED  BY <2>2, <2>3, <2>5 DEF GenerationsAreReflections
<1>7. MarkedIsKnown' /\ Stamped'
  BY <1>2 DEF IInv, MarkedIsKnown, Stamped, Marked, Here, Remembered
<1>8. StoreTypeOK'
  BY <1>3, <1>6 DEF StoreTypeOK, IInv, TypeOK, MessageType, RecordType
<1>. QED  BY <1>2, <1>6, <1>7, <1>8 DEF StoreInv

LEMMA ReflectKeeps ==
  ASSUME IInv, NEW d \in Callers,
         \/ ReflectorCallsTools(d) \/ SubmitToolResults(d) \/ ReflectorWithoutXml(d)
         \/ ApplyReflection(d) \/ ReflectionHalfSaved(d)
  PROVE  IInv' /\ record.memory \subseteq record'.memory
<1>1. pc[d] = "reflect" /\ sessions[d] \in SessionType
  BY DEF ReflectorCallsTools, SubmitToolResults, ReflectorWithoutXml, ApplyReflection,
         ReflectionHalfSaved, ReflectorAnswers, IInv, TypeOK, SessionType
<1>2. CASE ReflectorCallsTools(d)
  <2>. DEFINE s == [sessions[d] EXCEPT !.waiting = TRUE]
  <2>1. s \in SessionType
    BY <1>1 DEF SessionType
  <2>2. sessions' = [sessions EXCEPT ![d] = s]
    BY <1>2 DEF ReflectorCallsTools
  <2>. HIDE DEF s
  <2>. QED  BY <1>1, <1>2, <2>1, <2>2, SessionStepKeeps DEF ReflectorCallsTools, chatVars
<1>3. CASE SubmitToolResults(d)
  <2>. DEFINE u == [sessions[d] EXCEPT !.waiting = FALSE,
                                       !.rounds = IF @ < MaxToolRounds THEN @ + 1 ELSE @]
              s == [u EXCEPT !.offered = AllowTools(u), !.final = ~AllowTools(u)]
  <2>1. u \in SessionType
    <3>1. MaxToolRounds \in Nat /\ sessions[d].rounds \in 0..MaxToolRounds
      BY <1>1, OmAssumption DEF SessionType, OmAssumption
    <3>2. (IF sessions[d].rounds < MaxToolRounds THEN sessions[d].rounds + 1
                                                 ELSE sessions[d].rounds) \in 0..MaxToolRounds
      BY <3>1
    <3>. QED  BY <1>1, <3>2 DEF SessionType
  <2>2. s \in SessionType
    BY <2>1 DEF SessionType, AllowTools
  <2>3. sessions' = [sessions EXCEPT ![d] = s]
    BY <1>3 DEF SubmitToolResults
  <2>. HIDE DEF s
  <2>. QED  BY <1>1, <1>3, <2>2, <2>3, SessionStepKeeps DEF SubmitToolResults, chatVars
<1>4. CASE ReflectorWithoutXml(d)
  <2>1. UNCHANGED <<messages, clock, overtaken, record, generations>>
    BY <1>4 DEF ReflectorWithoutXml, chatVars
  <2>2. CASE Return(d)
    BY <1>1, <2>1, <2>2, StoreUnchanged, ReturnKeeps
  <2>3. CASE /\ sessions' = [sessions EXCEPT ![d].final = TRUE, ![d].offered = FALSE]
             /\ UNCHANGED <<active, pc, passes, action>>
    <3>. DEFINE s == [sessions[d] EXCEPT !.final = TRUE, !.offered = FALSE]
    <3>1. s \in SessionType
      BY <1>1 DEF SessionType
    <3>2. sessions' = [sessions EXCEPT ![d] = s]
      BY <1>1, <2>3 DEF IInv, TypeOK, SessionType
    <3>. HIDE DEF s
    <3>. QED  BY <1>1, <2>1, <2>3, <3>1, <3>2, SessionStepKeeps
  <2>. QED  BY <1>4, <2>2, <2>3 DEF ReflectorWithoutXml
<1>5. CASE ApplyReflection(d)
  <2>1. NextPass(d) /\ UNCHANGED <<messages, clock, overtaken>>
    BY <1>5 DEF ApplyReflection, chatVars
  <2>2. StoreInv' /\ record'.memory = record.memory
    <3>1. CASE UNCHANGED <<record, generations>>
      BY <2>1, <3>1, StoreUnchanged
    <3>2. CASE ~UNCHANGED <<record, generations>>
      BY <1>1, <1>5, <2>1, <3>2, GenerationKeeps DEF ApplyReflection
    <3>. QED  BY <3>1, <3>2
  <2>. QED  BY <1>1, <2>1, <2>2, NextPassKeeps
<1>6. CASE ReflectionHalfSaved(d)
  <2>1. Return(d) /\ UNCHANGED <<messages, clock, overtaken, record>>
    BY <1>6 DEF ReflectionHalfSaved, chatVars
  <2>2. StoreInv'
    BY <1>1, <1>6, <2>1, GenerationKeeps DEF ReflectionHalfSaved
  <2>. QED  BY <1>1, <2>1, <2>2, ReturnKeeps
<1>. QED  BY <1>2, <1>3, <1>4, <1>5, <1>6

-----------------------------------------------------------------------------
(* The theorems *)

LEMMA InitIInv == Init => IInv
<1>. SUFFICES ASSUME Init PROVE IInv
  OBVIOUS
<1>1. TypeOK
  <2>1. Row(FALSE, 0, FALSE, 0, FALSE) \in MessageType
    BY OmAssumption DEF Row, MessageType, Init, OmAssumption
  <2>2. messages \in [Messages -> MessageType] /\ clock \in Nat
    BY <2>1 DEF Init
  <2>3. record \in RecordType
    BY OmAssumption DEF Init, EmptyRecord, RecordType, OmAssumption
  <2>4. NoAction \in ActionType /\ NoSession \in SessionType /\ 0 \in 0..MaxPasses
    BY OmAssumption DEF NoAction, ActionType, NoSession, SessionType, OmAssumption
  <2>5. action \in [Callers -> ActionType] /\ sessions \in [Callers -> SessionType]
    BY <2>4 DEF Init
  <2>6. /\ active \in BOOLEAN /\ generations = <<>>
        /\ pc \in [Callers -> {"idle", "prepare", "observe", "reflect"}]
        /\ passes \in [Callers -> 0..MaxPasses]
        /\ overtaken \subseteq Messages
    BY <2>4 DEF Init
  <2>. QED
    BY <2>2, <2>3, <2>5, <2>6 DEF TypeOK, RecordType, ActionType, SessionType
<1>2. \A m \in Messages : ~Here(m) /\ messages[m].created = 0
  BY DEF Init, Row, Here
<1>3. Stamped /\ MarkedIsKnown
  BY <1>2 DEF Stamped, MarkedIsKnown, Marked
<1>4. \A d \in Callers : pc[d] = "idle" /\ ~sessions[d].open
  BY DEF Init, NoSession
<1>5. Exclusive /\ PromptIsCurrent
  BY <1>4 DEF Exclusive, NoSessionLeak, PromptIsCurrent
<1>. QED
  BY <1>1, <1>3, <1>5 DEF IInv, GenerationsAreReflections, Init

LEMMA NextKeeps ==
  ASSUME IInv, [Next]_vars
  PROVE  IInv' /\ record.memory \subseteq record'.memory
<1>1. CASE ChatCommand
  BY <1>1, ChatKeeps DEF ChatCommand
<1>2. ASSUME NEW d \in Callers, ProcessThread(d)
      PROVE  IInv' /\ record.memory \subseteq record'.memory
  BY <1>2, ProcessKeeps DEF ProcessThread
<1>3. ASSUME NEW d \in Callers, Pass(d)
      PROVE  IInv' /\ record.memory \subseteq record'.memory
  <2>1. CASE PreparePendingAction(d)
    BY <2>1, PrepareKeeps DEF PreparePendingAction
  <2>2. CASE PassesUsed(d) \/ CallFails(d)
    <3>1. /\ pc[d] # "idle" /\ Return(d)
          /\ UNCHANGED <<messages, clock, overtaken, record, generations>>
      BY <2>2 DEF PassesUsed, CallFails, chatVars
    <3>. QED  BY <3>1, StoreUnchanged, ReturnKeeps
  <2>3. CASE ApplyObservation(d)
    BY <2>3, ApplyObservationKeeps
  <2>4. CASE ObservationHalfSaved(d)
    BY <2>4, ObservationHalfSavedKeeps DEF ObservationHalfSaved
  <2>5. CASE \/ ReflectorCallsTools(d) \/ SubmitToolResults(d) \/ ReflectorWithoutXml(d)
             \/ ApplyReflection(d) \/ ReflectionHalfSaved(d)
    BY <2>5, ReflectKeeps
  <2>. QED  BY <1>3, <2>1, <2>2, <2>3, <2>4, <2>5 DEF Pass
<1>4. CASE UNCHANGED vars
  <2>1. UNCHANGED <<messages, clock, overtaken, record, generations, active, pc, passes, action,
                    sessions>>
    BY <1>4 DEF vars
  <2>2. StoreInv'
    BY <2>1, StoreUnchanged
  <2>3. TypeOK' /\ Exclusive' /\ PromptIsCurrent'
    BY <2>1, <2>2 DEF IInv, StoreInv, StoreTypeOK, TypeOK, RecordType, Exclusive, NoSessionLeak,
                      PromptIsCurrent, Marked, Here, Reading, Remembered
  <2>. QED  BY <2>1, <2>2, <2>3 DEF IInv, StoreInv
<1>. QED  BY <1>1, <1>2, <1>3, <1>4 DEF Next

LEMMA SpecIInv == Spec => []IInv
<1>1. IInv /\ [Next]_vars => IInv'
  BY NextKeeps
<1>. QED  BY InitIInv, <1>1, PTL DEF Spec

\* The rows of thread_messages, om_records and om_generations, the prompts and
\* the reflector sessions keep their types: passes and tool rounds stay in their
\* bounds and the memory within what the model may answer.
THEOREM EngineKeepsItsTypes == Spec => []TypeOK
<1>1. IInv => TypeOK
  BY DEF IInv
<1>. QED  BY <1>1, SpecIInv, PTL

\* Whatever messages change, in any order and while the model is asked, a marked
\* message is in the memory or will be read again, unless an edit or a half-saved
\* observation overtook it.
THEOREM OnlyOvertakenContentIsForgotten == Spec => []ForgottenIsOvertaken
<1>1. IInv => ForgottenIsOvertaken
  BY DEF IInv, ForgottenIsOvertaken, MarkedIsKnown, Marked, Eligible
<1>. QED  BY <1>1, SpecIInv, PTL

\* A reflector session is closed by every way a call can end.
THEOREM SessionsEndWithTheirCall == Spec => []NoSessionLeak
<1>1. IInv => NoSessionLeak
  BY DEF IInv, Exclusive
<1>. QED  BY <1>1, SpecIInv, PTL

\* A generation records the memory that its reflection was made from, although the
\* model is asked in between and the rows are read again.
THEOREM GenerationsKeepTheirInput == Spec => []GenerationsAreReflections
<1>1. IInv => GenerationsAreReflections
  BY DEF IInv
<1>. QED  BY <1>1, SpecIInv, PTL

\* The answer to a stale prompt never replaces what was remembered since.
THEOREM MemoryIsNeverLost == Spec => MemoryNotLost
<1>1. IInv /\ [Next]_vars => [record.memory \subseteq record'.memory]_vars
  BY NextKeeps
<1>. QED  BY <1>1, SpecIInv, PTL DEF Spec, MemoryNotLost

=============================================================================
