------------------------- MODULE PlayerClientProofs -------------------------
(***************************************************************************)
(* What holds of PlayerClient whatever base times and states the server    *)
(* comes to, whatever its network does and however many packets wait.      *)
(***************************************************************************)
EXTENDS PlayerClient, PipelineProofs

\* update() runs only with a media open.
Inv == TypeOK /\ (at # "out" => Opened)

LEMMA StateFacts ==
  /\ {NULL, READY, PAUSED, PLAYING} \subseteq States
  /\ TRUE \in BOOLEAN
  BY DEF States, NULL, READY, PAUSED, PLAYING

LEMMA BaseFacts == None \notin Bases
  BY BasesAssumption DEF None

\* What is taken from the bus can only have come from a pipeline.
LEMMA OpenedType == TypeOK /\ Opened => pipe \in Pipelines
  BY DEF TypeOK, Opened

LEMMA NoBus == NoPipeline \notin Pipelines
<1>1. NoPipeline.cur = VOID
  BY DEF NoPipeline, Launched
<1>2. VOID \notin States
  BY DEF VOID, States, NULL, PLAYING
<1> QED
  BY <1>1, <1>2 DEF Pipelines

\* A pipeline that goes somewhere keeps the types, and the media open.
LEMMA GoesType ==
  ASSUME TypeOK, NEW q \in Pipelines, Goes(q)
  PROVE  pipe' \in Pipelines /\ Opened' /\ told' \in Bases \union {None}
<1>1. pipe' = q
  BY DEF Goes
<1>2. told' \in {None, told, base}
  BY DEF Goes
<1> QED
  BY <1>1, <1>2, NoBus DEF TypeOK, Opened

LEMMA StoppedType ==
  ASSUME NEW p \in Pipelines
  PROVE  Stopped(p) \in Pipelines
  BY StateFacts, SetStateType DEF Stopped

LEMMA PrerolledType ==
  Preroll(SetState(SetState(Launched, READY, TRUE), PAUSED, TRUE))
    \in Pipelines
<1>1. Launched \in Pipelines
  BY StateFacts DEF Launched, Pipelines
<1> QED
  BY <1>1, StateFacts, SetStateType, PrerollType

\* A query: the pipeline found, and its state.
LEMMA QueriedType ==
  ASSUME NEW p \in Pipelines, NEW q \in Awaited(p)
  PROVE  q \in Pipelines /\ q.cur \in States
  BY AwaitedType DEF Pipelines

-----------------------------------------------------------------------------
LEMMA InitInv == Init => Inv
<1> SUFFICES ASSUME Init PROVE Inv
  OBVIOUS
<1>1. inbox \in Seq(Packets) /\ Len(inbox) <= MaxInbox
  BY BoundsAssumption DEF Init
<1> QED
  BY <1>1, StateFacts DEF Init, Inv, TypeOK

LEMMA NetworkInv ==
  ASSUME Inv, ServerMoves \/ LateIsLost \/ HeartbeatComes \/ LateComes
  PROVE  Inv'
<1>1. CASE ServerMoves
  BY <1>1 DEF ServerMoves, Inv, TypeOK, Opened
<1>2. CASE LateIsLost
  BY <1>2 DEF LateIsLost, Inv, TypeOK, Opened
<1>3. ASSUME NEW packet \in Packets, Receive(packet) PROVE Inv'
  <2>1. inbox' \in Seq(Packets) /\ Len(inbox') <= MaxInbox
    BY <1>3, BoundsAssumption DEF Receive, Inv, TypeOK
  <2> QED
    BY <1>3, <2>1 DEF Receive, net, Inv, TypeOK, Opened
<1>4. CASE HeartbeatComes \/ LateComes
  BY <1>3, <1>4 DEF HeartbeatComes, LateComes, Inv, TypeOK
<1> QED
  BY <1>1, <1>2, <1>4

LEMMA UserInv ==
  ASSUME Inv, UserCall
  PROVE  Inv'
<1>0. NULL \in States
  BY StateFacts
<1>1. CASE UserOpen
  BY <1>0, <1>1, PrerolledType DEF UserOpen, net, Inv, TypeOK
<1>2. CASE UserOpenFails \/ UserClose
  BY <1>0, <1>2 DEF UserOpenFails, UserClose, net, Inv, TypeOK
<1>3. ASSUME NEW s \in UserSets, UserSetState(s) PROVE Inv'
  <2>1. PICK held \in BOOLEAN : Goes(SetState(pipe, s, held))
    BY <1>3 DEF UserSetState
  <2>2. SetState(pipe, s, held) \in Pipelines
    BY <1>3, OpenedType, SetStateType, UserSetsAssumption
       DEF UserSetState, Call, Inv
  <2>3. pipe' \in Pipelines /\ Opened' /\ told' \in Bases \union {None}
    BY <2>1, <2>2, GoesType DEF Inv
  <2> QED
    BY <1>3, <2>3 DEF UserSetState, net, Inv, TypeOK
<1>4. CASE UserStop
  <2>1. Stopped(pipe) \in Pipelines
    BY <1>4, OpenedType, StoppedType DEF UserStop, Call, Inv
  <2>2. pipe' \in Pipelines /\ Opened' /\ told' \in Bases \union {None}
    BY <1>4, <2>1, GoesType DEF UserStop, Inv
  <2> QED
    BY <1>4, <2>2 DEF UserStop, net, Inv, TypeOK
<1>5. CASE UserQueryState
  <2>1. PICK q \in Awaited(pipe) : Goes(q) /\ mState' = q.cur
    BY <1>5 DEF UserQueryState
  <2>2. q \in Pipelines /\ q.cur \in States
    BY <1>5, OpenedType, QueriedType DEF UserQueryState, Call, Inv
  <2>3. pipe' \in Pipelines /\ Opened' /\ told' \in Bases \union {None}
    BY <2>1, <2>2, GoesType DEF Inv
  <2> QED
    BY <1>5, <2>1, <2>2, <2>3 DEF UserQueryState, net, Inv, TypeOK
<1> QED
  BY <1>1, <1>2, <1>3, <1>4, <1>5 DEF UserCall

\* A packet that is taken from the socket.
LEMMA HeadType ==
  ASSUME TypeOK, inbox # <<>>
  PROVE  /\ Head(inbox) \in Packets
         /\ Tail(inbox) \in Seq(Packets) /\ Len(Tail(inbox)) <= MaxInbox
<1>1. inbox \in Seq(Packets) /\ Len(inbox) <= MaxInbox /\ MaxInbox \in Nat
  BY BoundsAssumption DEF TypeOK
<1>2. Len(Tail(inbox)) = Len(inbox) - 1 /\ Len(inbox) \in Nat
  BY <1>1
<1> QED
  BY <1>1, <1>2

LEMMA TakeStateType ==
  ASSUME TypeOK, Opened, NEW s \in States, TakeState(s)
  PROVE  /\ pipe' \in Pipelines /\ Opened' /\ told' \in Bases \union {None}
         /\ mState' \in States
<1>1. PICK q \in Awaited(pipe), held \in BOOLEAN :
        /\ mState' = q.cur
        /\ Goes(IF q.cur = s THEN q ELSE SetState(q, s, held))
  BY DEF TakeState
<1>2. q \in Pipelines /\ q.cur \in States
  BY OpenedType, QueriedType
<1>3. (IF q.cur = s THEN q ELSE SetState(q, s, held)) \in Pipelines
  BY <1>2, SetStateType
<1> QED
  BY <1>1, <1>2, <1>3, GoesType

LEMMA BeforeUpdateInv ==
  ASSUME Inv, OnBeforeUpdate
  PROVE  Inv'
<1>0. at = "iterate" /\ Opened
  BY DEF OnBeforeUpdate, OnMessage, NothingPending, GoDown, SetupClock,
         Iterated, Inv
<1>1. CASE OnMessage
  <2>1. /\ inbox' \in Seq(Packets) /\ Len(inbox') <= MaxInbox
        /\ Head(inbox) \in Packets
    BY <1>1, HeadType DEF OnMessage, Inv
  <2>2. Head(inbox).state \in States
    BY <2>1, StateFacts, ServerStatesAssumption DEF Packets
  <2>3. mBaseTime' \in Bases \union {None}
    BY <1>1, <2>1 DEF OnMessage, Pending, Packets, Inv, TypeOK
  <2>4. CASE UNCHANGED <<pipe, told, mState>>
    BY <1>1, <2>1, <2>3, <2>4 DEF OnMessage, net, Inv, TypeOK, Opened
  <2>5. CASE TakeState(Head(inbox).state)
    <3>1. /\ pipe' \in Pipelines /\ Opened' /\ told' \in Bases \union {None}
          /\ mState' \in States
      BY <1>0, <2>2, <2>5, TakeStateType DEF Inv
    <3> QED
      BY <1>1, <2>1, <2>3, <3>1 DEF OnMessage, net, Inv, TypeOK
  <2> QED
    BY <1>1, <2>4, <2>5 DEF OnMessage
<1>2. CASE NothingPending
  BY <1>0, <1>2 DEF NothingPending, Iterated, net, Inv, TypeOK, Opened
<1>3. CASE GoDown
  <2>1. SetState(pipe, READY, TRUE) \in Pipelines
    BY <1>0, OpenedType, StateFacts, SetStateType DEF Inv
  <2>2. pipe' \in Pipelines /\ Opened' /\ told' \in Bases \union {None}
    BY <1>3, <2>1, GoesType DEF GoDown, Inv
  <2> QED
    BY <1>3, <2>2 DEF GoDown, Iterated, net, Inv, TypeOK
<1>4. CASE SetupClock
  BY <1>0, <1>4 DEF SetupClock, Iterated, net, Inv, TypeOK, Opened
<1> QED
  BY <1>1, <1>2, <1>3, <1>4 DEF OnBeforeUpdate

LEMMA HandleInv ==
  ASSUME Inv, Handle
  PROVE  Inv'
<1>0. /\ at = "bus" /\ pipe \in Pipelines /\ pipe.bus # <<>>
      /\ Pop(pipe) \in Pipelines /\ Head(pipe.bus) \in Messages
  <2>1. at = "bus" /\ pipe.bus # <<>>
    BY DEF Handle, HandleStateChanged, HandleAsyncDone, HandleEos, Popped
  <2>2. pipe \in Pipelines
    BY <2>1, OpenedType DEF Inv
  <2> QED
    BY <2>1, <2>2, PopType
<1>1. CASE HandleStateChanged
  <2>1. Head(pipe.bus).new \in States
    BY <1>0, <1>1
       DEF HandleStateChanged, Popped, Messages, StateMsg, AsyncDone, Eos,
           DurationChanged, Msg
  <2>2. pipe' \in Pipelines /\ Opened' /\ told' \in Bases \union {None}
    BY <1>0, <1>1, GoesType DEF HandleStateChanged, Inv
  <2> QED
    BY <1>1, <2>1, <2>2 DEF HandleStateChanged, net, Inv, TypeOK
<1>2. CASE HandleAsyncDone
  <2>1. pipe' \in Pipelines /\ Opened' /\ told' \in Bases \union {None}
    BY <1>0, <1>2, GoesType DEF HandleAsyncDone, Inv
  <2> QED
    BY <1>2, <2>1 DEF HandleAsyncDone, net, Inv, TypeOK
<1>3. CASE HandleEos
  <2>1. \E q \in Pipelines : Goes(q)
    BY <1>0, <1>3, StateFacts, StoppedType, SetStateType DEF HandleEos
  <2>2. pipe' \in Pipelines /\ Opened' /\ told' \in Bases \union {None}
    BY <2>1, GoesType DEF Inv
  <2> QED
    BY <1>3, <2>2 DEF HandleEos, net, Inv, TypeOK
<1> QED
  BY <1>1, <1>2, <1>3 DEF Handle

LEMMA PipelineInv ==
  ASSUME Inv, PipelinePrerolls \/ PipelineAdvances \/ PipelineEnds
  PROVE  Inv'
<1>1. pipe \in Pipelines
  BY OpenedType
     DEF PipelinePrerolls, PipelineAdvances, PipelineEnds, PipelineGoes, Inv
<1>2. \E q \in Pipelines : Goes(q)
  BY <1>1, PrerollType, AdvanceType, EndType
     DEF PipelinePrerolls, PipelineAdvances, PipelineEnds, PipelineGoes
<1>3. pipe' \in Pipelines /\ Opened' /\ told' \in Bases \union {None}
  BY <1>2, GoesType DEF Inv
<1> QED
  BY <1>3 DEF PipelinePrerolls, PipelineAdvances, PipelineEnds, PipelineGoes,
              net, Inv, TypeOK

LEMMA StepInv == Inv /\ [Next]_vars => Inv'
<1> SUFFICES ASSUME Inv, [Next]_vars PROVE Inv'
  OBVIOUS
<1>1. CASE UpdateBegin
  BY <1>1 DEF UpdateBegin, net, Inv, TypeOK, Opened
<1>2. CASE UpdateEnd
  BY <1>2 DEF UpdateEnd, net, Inv, TypeOK, Opened
<1>3. CASE UNCHANGED vars
  BY <1>3 DEF vars, net, Inv, TypeOK, Opened
<1> QED
  BY <1>1, <1>2, <1>3, NetworkInv, UserInv, BeforeUpdateInv, HandleInv,
     PipelineInv
     DEF Next, Update

\* Types, for any server, network and user: what is pending, noted or told is
\* always a base time the server has had.
THEOREM TypeCorrect == Spec => []TypeOK
<1>1. Inv => TypeOK
  BY DEF Inv
<1> QED
  BY <1>1, InitInv, StepInv, PTL DEF Spec, SafeSpec

-----------------------------------------------------------------------------
\* Inside iterate() only onMessage() reads a packet.
LEMMA OnlyOnMessageReads ==
  ASSUME [Next]_vars, at = "iterate", inbox' # inbox
  PROVE  OnMessage
  BY DEF Next, vars, net, ServerMoves, LateIsLost, HeartbeatComes, LateComes,
         Receive, UserCall, UserOpen, UserOpenFails, UserClose, UserSetState,
         UserStop, UserQueryState, Call, Update, UpdateBegin, UpdateEnd,
         OnBeforeUpdate, NothingPending, GoDown, SetupClock, Handle,
         HandleStateChanged, HandleAsyncDone, HandleEos, Popped,
         PipelinePrerolls, PipelineAdvances, PipelineEnds, PipelineGoes

LEMMA StateStep ==
  ASSUME Inv, [Next]_vars, at = "iterate", inbox' # inbox, pipe'.tgt # pipe.tgt
  PROVE  Head(inbox).base = base /\ mBaseTime' = None
<1>1. OnMessage
  BY OnlyOnMessageReads
<1>2. mBaseTime' = None /\ Pending(Head(inbox)) = None
  BY <1>1 DEF OnMessage
<1>3. Head(inbox).base # None
  BY <1>1, HeadType, BaseFacts DEF OnMessage, Packets, Inv
<1> QED
  BY <1>2, <1>3 DEF Pending

\* A heartbeat changes the state only of a client that is on its base time and
\* is not about to leave it, whatever is lost, repeated or overtaken
\* (nsvr_player_client.cpp:38-42).
THEOREM StateOnlyWithBase == Spec => StateGoesWithBase
<1>1. Inv /\ [Next]_vars
        => [at = "iterate" /\ inbox' # inbox /\ pipe'.tgt # pipe.tgt
              => Head(inbox).base = base /\ mBaseTime' = None]_vars
  BY StateStep
<1> QED
  BY <1>1, InitInv, StepInv, PTL DEF Spec, SafeSpec, StateGoesWithBase

-----------------------------------------------------------------------------
(* The cached state                                                        *)

\* Whoever reads the bus to its end has cached the actual state.
Honest == Opened => TellsState(pipe, mState)

LEMMA StoppedTells ==
  ASSUME NEW p \in Pipelines, NEW c, TellsState(p, c)
  PROVE  TellsState(Stopped(p), c)
<1> DEFINE q == SetState(p, NULL, TRUE)
<1>1. q \in Pipelines /\ TellsState(q, c)
  BY StateFacts, SetStateType, SetStateTells
<1> HIDE DEF q
<1>2. TellsState(SetState(q, READY, TRUE), c)
  BY <1>1, StateFacts, SetStateTells
<1> QED
  BY <1>2 DEF Stopped, q

LEMMA UserHonest ==
  ASSUME Inv, Honest, UserCall
  PROVE  Honest'
<1>0. Call => pipe \in Pipelines /\ TellsState(pipe, mState)
  BY OpenedType DEF Call, Honest, Inv
<1>1. CASE UserOpen
  <2> DEFINE p == SetState(SetState(Launched, READY, TRUE), PAUSED, TRUE)
  <2>1. p \in Pipelines
    <3>1. Launched \in Pipelines
      BY StateFacts DEF Launched, Pipelines
    <3> QED
      BY <3>1, StateFacts, SetStateType
  <2>2. pipe' = Preroll(p)
    BY <1>1 DEF UserOpen
  <2> HIDE DEF p
  <2>3. TellsState(Preroll(p), mState')
    BY <2>1, PrerollTells
  <2> QED
    BY <2>2, <2>3 DEF Honest, TellsState
<1>2. CASE UserOpenFails \/ UserClose
  BY <1>2 DEF UserOpenFails, UserClose, Honest, Opened
<1>3. ASSUME NEW s \in UserSets, UserSetState(s) PROVE Honest'
  <2>1. PICK held \in BOOLEAN : pipe' = SetState(pipe, s, held)
    BY <1>3 DEF UserSetState, Goes
  <2>2. TellsState(SetState(pipe, s, held), mState)
    BY <1>0, <1>3, UserSetsAssumption, SetStateTells DEF UserSetState
  <2> QED
    BY <1>3, <2>1, <2>2 DEF UserSetState, Honest, TellsState
<1>4. CASE UserStop
  <2>1. TellsState(Stopped(pipe), mState)
    BY <1>0, <1>4, StoppedTells DEF UserStop
  <2> QED
    BY <1>4, <2>1 DEF UserStop, Goes, Honest, TellsState
<1>5. CASE UserQueryState
  <2>1. PICK q \in Awaited(pipe) : pipe' = q /\ mState' = q.cur
    BY <1>5 DEF UserQueryState, Goes
  <2>2. TellsState(q, q.cur)
    BY <1>0, <1>5, AwaitedTells DEF UserQueryState
  <2> QED
    BY <2>1, <2>2 DEF Honest, TellsState
<1> QED
  BY <1>1, <1>2, <1>3, <1>4, <1>5 DEF UserCall

LEMMA BeforeUpdateHonest ==
  ASSUME Inv, Honest, OnBeforeUpdate
  PROVE  Honest'
<1>0. pipe \in Pipelines /\ TellsState(pipe, mState)
  BY OpenedType DEF OnBeforeUpdate, OnMessage, NothingPending, GoDown,
                    SetupClock, Iterated, Inv, Honest
<1>1. CASE OnMessage
  <2>1. CASE UNCHANGED <<pipe, told, mState>>
    BY <2>1 DEF Honest, Opened, TellsState
  <2>2. CASE TakeState(Head(inbox).state)
    <3> DEFINE s == Head(inbox).state
    <3>1. s \in States
      BY <1>1, HeadType, StateFacts, ServerStatesAssumption
      DEF OnMessage, Packets, Inv
    <3> HIDE DEF s
    <3>2. PICK q \in Awaited(pipe), held \in BOOLEAN :
            /\ mState' = q.cur
            /\ pipe' = IF q.cur = s THEN q ELSE SetState(q, s, held)
      BY <2>2 DEF TakeState, Goes, s
    <3>3. q \in Pipelines /\ TellsState(q, q.cur)
      BY <1>0, QueriedType, AwaitedTells
    <3>4. TellsState(SetState(q, s, held), q.cur)
      BY <3>1, <3>3, SetStateTells
    <3> QED
      BY <3>2, <3>3, <3>4 DEF Honest, TellsState
  <2> QED
    BY <1>1, <2>1, <2>2 DEF OnMessage
<1>2. CASE NothingPending \/ SetupClock
  BY <1>2 DEF NothingPending, SetupClock, Honest, Opened, TellsState
<1>3. CASE GoDown
  <2>1. TellsState(SetState(pipe, READY, TRUE), mState)
    BY <1>0, StateFacts, SetStateTells
  <2> QED
    BY <1>3, <2>1 DEF GoDown, Goes, Honest, TellsState
<1> QED
  BY <1>1, <1>2, <1>3 DEF OnBeforeUpdate

LEMMA HandleHonest ==
  ASSUME Inv, Honest, Handle
  PROVE  Honest'
<1>1. /\ pipe \in Pipelines /\ TellsState(pipe, mState) /\ pipe.bus # <<>>
      /\ Pop(pipe) \in Pipelines
  <2>1. Opened /\ pipe.bus # <<>>
    BY DEF Handle, HandleStateChanged, HandleAsyncDone, HandleEos, Popped, Inv
  <2> QED
    BY <2>1, OpenedType, PopType DEF Inv, Honest
<1>2. TellsState(Pop(pipe), IF IsState(Head(pipe.bus))
                            THEN Head(pipe.bus).new ELSE mState)
  BY <1>1, PopTells
<1>3. CASE HandleStateChanged
  BY <1>2, <1>3
  DEF HandleStateChanged, Popped, Goes, IsState, Honest, TellsState
<1>4. CASE HandleAsyncDone
  BY <1>2, <1>4
  DEF HandleAsyncDone, Popped, Goes, IsState, Honest, TellsState
<1>5. CASE HandleEos
  <2>1. TellsState(Pop(pipe), mState)
    BY <1>2, <1>5 DEF HandleEos, Popped, IsState
  <2> DEFINE p == Pop(pipe)
  <2>2. p \in Pipelines /\ TellsState(p, mState)
    BY <1>1, <2>1
  <2>3. \/ pipe' = SetState(Stopped(p), PLAYING, TRUE)
        \/ \E held \in BOOLEAN : pipe' = SetState(p, PAUSED, held)
    BY <1>5 DEF HandleEos, Goes
  <2> HIDE DEF p
  <2>4. TellsState(SetState(Stopped(p), PLAYING, TRUE), mState)
    BY <2>2, StateFacts, StoppedType, StoppedTells, SetStateTells
  <2>5. TellsState(pipe', mState)
    BY <2>2, <2>3, <2>4, StateFacts, SetStateTells
  <2> QED
    BY <1>5, <2>5 DEF HandleEos, Honest, TellsState
<1> QED
  BY <1>3, <1>4, <1>5 DEF Handle

LEMMA StepHonest == Inv /\ Honest /\ [Next]_vars => Honest'
<1> SUFFICES ASSUME Inv, Honest, [Next]_vars PROVE Honest'
  OBVIOUS
<1>1. CASE ServerMoves \/ LateIsLost \/ HeartbeatComes \/ LateComes
  BY <1>1 DEF ServerMoves, LateIsLost, HeartbeatComes, LateComes, Receive,
              Honest, Opened, TellsState
<1>2. CASE UpdateBegin \/ UpdateEnd
  BY <1>2 DEF UpdateBegin, UpdateEnd, Honest, Opened, TellsState
<1>3. CASE PipelinePrerolls \/ PipelineAdvances \/ PipelineEnds
  <2>1. pipe \in Pipelines /\ TellsState(pipe, mState)
    BY <1>3, OpenedType DEF PipelinePrerolls, PipelineAdvances, PipelineEnds,
                            PipelineGoes, Honest, Inv
  <2>2. TellsState(pipe', mState) /\ mState' = mState
    BY <1>3, <2>1, PrerollTells, AdvanceTells, EndTells
    DEF PipelinePrerolls, PipelineAdvances, PipelineEnds, PipelineGoes, Goes
  <2> QED
    BY <2>2 DEF Honest, TellsState
<1>4. CASE UNCHANGED vars
  BY <1>4 DEF vars, Honest, Opened, TellsState
<1> QED
  BY <1>1, <1>2, <1>3, <1>4, UserHonest, BeforeUpdateHonest, HandleHonest
  DEF Next, Update

\* For any server, network, user and bus: when the bus is drained and nothing
\* is under way, the cached state is the actual one, so that a client taken
\* down to READY for a base time finds out and puts it on
\* (nsvr_player_client.cpp:74-86).
THEOREM CachedStateSettles == Spec => []StateSettles
<1>1. Init => Honest
  BY DEF Init, Honest, Opened
<1>2. Honest => StateSettles
  <2> SUFFICES ASSUME Honest, Opened, pipe.bus = <<>>, pipe.cur # NULL
               PROVE  mState = pipe.cur
    BY DEF StateSettles
  <2>1. Tells(<<>>, mState, pipe.cur)
    BY DEF Honest, TellsState
  <2>2. 1 .. Len(<<>>) = {}
    OBVIOUS
  <2> QED
    BY <2>1, <2>2 DEF Tells
<1> QED
  BY <1>1, <1>2, InitInv, StepInv, StepHonest, PTL DEF Spec, SafeSpec

=============================================================================
