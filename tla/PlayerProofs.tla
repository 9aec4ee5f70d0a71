---------------------------- MODULE PlayerProofs ----------------------------
(***************************************************************************)
(* What holds of Player whatever the media, the requests and the messages  *)
(* left on the bus.                                                        *)
(***************************************************************************)
EXTENDS Player, PipelineProofs

\* reset() leaves no message behind.
LEMMA NoBus == NoPipeline.bus = <<>> /\ NoPipeline.cur <= READY
                 /\ NoPipeline.pos = 0
  BY DEF NoPipeline, Launched, VOID, READY

\* A message can only have come from a pipeline.
LEMMA PoppedOpened ==
  ASSUME TypeOK, NEW type, Popped(type)
  PROVE  /\ mPipeline \in Pipelines
         /\ mPipeline.bus # <<>>
         /\ Head(mPipeline.bus) \in Messages
         /\ Pop(mPipeline) \in Pipelines
  BY NoBus, PopType DEF TypeOK, Popped

\* The times the pipeline is given are positions of the media.
LEMMA ClampType ==
  ASSUME NEW t \in Int
  PROVE  Clamp(t) \in 0 .. Duration /\ Clamp(t) \in Nat
  BY DurationAssumption DEF Clamp

LEMMA ClampIdentity == Clamp(0) = 0
  BY DurationAssumption DEF Clamp

\* stop() and replay().
LEMMA RestartType ==
  ASSUME NEW p \in Pipelines
  PROVE  /\ Stopped(p) \in Pipelines /\ Replayed(p) \in Pipelines
         /\ Stopped(p).pos = 0 /\ Replayed(p).pos = 0
         /\ Awaiting(Stopped(p)) /\ Awaiting(Replayed(p))
<1>1. /\ NULL \in States /\ READY \in States /\ PLAYING \in States
      /\ TRUE \in BOOLEAN
      /\ NULL <= READY /\ READY <= READY /\ ~(PLAYING <= READY)
  BY DEF States, NULL, READY, PLAYING
<1> DEFINE q == SetState(p, NULL, TRUE)
<1>2. q \in Pipelines
  BY <1>1, SetStateType
<1>3. Stopped(p) \in Pipelines /\ Stopped(p).pos = 0
  <2>1. SetState(q, READY, TRUE) \in Pipelines
    BY <1>1, <1>2, SetStateType
  <2>2. SetState(q, READY, TRUE).pos = 0
    BY <1>1, <1>2, SetStatePos
  <2> QED
    BY <2>1, <2>2 DEF Stopped
<1>4. Stopped(p).cur = READY
  BY <1>2 DEF Stopped, SetState, Rewind, Pipelines, READY
<1>5. Awaiting(Stopped(p))
  BY <1>4 DEF Awaiting, READY
<1> QED
  BY <1>1, <1>3, <1>4, <1>5, SetStateType, SetStatePos, SetStateAwaiting
     DEF Replayed

\* The pipeline open() leaves.
LEMMA OpenedType ==
  LET p == Preroll(SetState(SetState(Launched, READY, TRUE), PAUSED, TRUE))
  IN  p \in Pipelines /\ p.pos = 0
<1>1. Launched \in Pipelines /\ Launched.pos = 0
  BY DEF Launched, Pipelines, States, NULL, PLAYING
<1>2. {READY, PAUSED} \subseteq States /\ TRUE \in BOOLEAN
  BY DEF States, NULL, READY, PAUSED, PLAYING
<1>3. /\ SetState(Launched, READY, TRUE) \in Pipelines
      /\ SetState(Launched, READY, TRUE).pos = 0
  BY <1>1, <1>2, SetStateType, SetStatePos
<1>4. /\ SetState(SetState(Launched, READY, TRUE), PAUSED, TRUE) \in Pipelines
      /\ SetState(SetState(Launched, READY, TRUE), PAUSED, TRUE).pos = 0
  BY <1>2, <1>3, SetStateType, SetStatePos
<1> QED
  BY <1>4, PrerollType, StepPos

-----------------------------------------------------------------------------
(* Types                                                                   *)

\* A seek given, put off or refused leaves values of the right kind.
LEMMA SeekStepType ==
  ASSUME NEW t \in Requests, NEW p \in Pipelines, NEW locked \in BOOLEAN,
         TypeOK,
         SeekNow(t, p, locked) \/ SeekLater(t, p, locked)
           \/ SeekRefused(t, p, locked)
  PROVE  /\ mPipeline' \in Pipelines
         /\ mPendingSeek' \in Requests \union {NoSeek}
         /\ mSeekingLock' \in BOOLEAN
<1>1. Clamp(t) \in Nat
  BY RequestsAssumption, ClampType
<1>2. Seek(p, Clamp(t)) \in Pipelines
  BY <1>1, SeekType
<1> QED
  BY <1>2 DEF SeekNow, SeekLater, SeekRefused, TypeOK

\* Every step keeps the types.
LEMMA TypeStep == TypeOK /\ [Next]_vars => TypeOK'
<1> SUFFICES ASSUME TypeOK, [Next]_vars PROVE TypeOK'
  OBVIOUS
<1> USE DEF TypeOK, seekVars
<1>1. CASE Close
  <2>1. NULL \in States /\ FALSE \in BOOLEAN
    BY DEF States, NULL, PLAYING
  <2> QED
    BY <1>1, <2>1 DEF Close, Reset
<1>2. ASSUME NEW outcome \in Outcomes, Open(outcome) PROVE TypeOK'
  <2>1. NULL \in States /\ FALSE \in BOOLEAN
    BY DEF States, NULL, PLAYING
  <2>2. /\ mPipeline' \in Pipelines \union {NoPipeline}
        /\ mDuration' \in {0, Duration}
    BY <1>2, OpenedType, DiscoveredAssumption DEF Open
  <2> QED
    BY <1>2, <2>1, <2>2 DEF Open, Reset
<1>3. ASSUME NEW s \in States, UserSetState(s) PROVE TypeOK'
  BY <1>3, SetStateType DEF UserSetState, Call, Opened
<1>4. CASE Stop \/ Replay
  BY <1>4, RestartType DEF Stop, Replay, Call, Opened
<1>5. CASE QueryState
  <2>1. mPipeline' \in Pipelines
    BY <1>5, AwaitedType DEF QueryState, Call, Opened
  <2> QED
    BY <1>5, <2>1 DEF QueryState, Pipelines
<1>6. CASE SetLoop
  BY <1>6 DEF SetLoop
<1>7. ASSUME NEW t \in Requests, SetTime(t) PROVE TypeOK'
  <2>1. /\ mPipeline' \in Pipelines
        /\ mPendingSeek' \in Requests \union {NoSeek}
        /\ mSeekingLock' \in BOOLEAN
    BY <1>7, SeekStepType DEF SetTime, Call, Opened
  <2> QED
    BY <1>7, <2>1 DEF SetTime
<1>8. CASE UpdateBegin \/ UpdateEnd
  BY <1>8 DEF UpdateBegin, UpdateEnd
<1>9. CASE HandleStateChanged
  <2>1. Head(mPipeline.bus).new \in States
    BY <1>9, PoppedOpened
       DEF HandleStateChanged, Popped, Messages, StateMsg, AsyncDone, Eos,
           DurationChanged, Msg
  <2> QED
    BY <1>9, <2>1, PoppedOpened DEF HandleStateChanged
<1>10. CASE HandleAsyncDone
  <2>1. /\ mPipeline' \in Pipelines
        /\ mPendingSeek' \in Requests \union {NoSeek}
        /\ mSeekingLock' \in BOOLEAN
    <3>1. Pop(mPipeline) \in Pipelines /\ FALSE \in BOOLEAN
      BY <1>10, PoppedOpened DEF HandleAsyncDone
    <3>2. CASE mPendingSeek < 0
      <4>1. ~(mPendingSeek >= 0)
        BY <3>2, RequestsAssumption DEF NoSeek
      <4> QED
        BY <1>10, <3>1, <4>1 DEF HandleAsyncDone
    <3>3. CASE mPendingSeek >= 0
      <4>1. mPendingSeek \in Requests
        BY <3>3 DEF NoSeek
      <4> QED
        BY <1>10, <3>1, <3>3, <4>1, RequestsAssumption, SeekStepType
           DEF HandleAsyncDone
    <3> QED
      BY <3>2, <3>3, RequestsAssumption DEF NoSeek
  <2> QED
    BY <1>10, <2>1 DEF HandleAsyncDone
<1>11. CASE HandleDurationChanged
  BY <1>11, PoppedOpened DEF HandleDurationChanged
<1>12. CASE HandleEos
  <2>1. PAUSED \in States
    BY DEF States, NULL, PAUSED, PLAYING
  <2>2. mPipeline' \in Pipelines
    BY <1>12, <2>1, PoppedOpened, RestartType, SetStateType DEF HandleEos
  <2> QED
    BY <1>12, <2>2 DEF HandleEos
<1>13. CASE PipelineStep
  <2>1. mPipeline \in Pipelines
    BY <1>13 DEF PipelineStep, PipelinePrerolls, PipelineAdvances,
                 PipelineEnds, LearnsDuration, PipelineGoes,
                 Opened
  <2>2. mPipeline' \in Pipelines
    BY <1>13, <2>1, PrerollType, AdvanceType, EndType, DurationType
       DEF PipelineStep, PipelinePrerolls, PipelineAdvances,
           PipelineEnds, LearnsDuration, PipelineGoes
  <2> QED
    BY <1>13, <2>2
       DEF PipelineStep, PipelinePrerolls, PipelineAdvances,
           PipelineEnds, LearnsDuration, PipelineGoes
<1>14. CASE UNCHANGED vars
  BY <1>14 DEF vars
<1> QED
  BY <1>1, <1>2, <1>3, <1>4, <1>5, <1>6, <1>7, <1>8, <1>9, <1>10, <1>11,
     <1>12, <1>13, <1>14
     DEF Next, UserCall, Update, Handle

\* The player keeps to its types whatever is called, and a request that waits
\* is one that was made.
THEOREM TypeCorrect == Spec => []TypeOK
<1>1. Init => TypeOK
  <2>1. NULL \in States /\ FALSE \in BOOLEAN
    BY DEF States, NULL, PLAYING
  <2> QED
    BY <2>1 DEF Init, TypeOK
<1> QED
  BY <1>1, TypeStep, PTL DEF Spec, SafeSpec

-----------------------------------------------------------------------------
(* The message that ends a wait                                            *)

\* A seek that sinks report brings its message.
LEMMA SeekAwaiting ==
  ASSUME NEW p \in Pipelines, NEW t \in Nat, SinksPreroll = TRUE
  PROVE  Awaiting(Seek(p, t))
  BY DEF Seek, Post, Awaiting, AsyncDoneDue, Pipelines

LEMMA AppendedOne ==
  ASSUME NEW bus \in Seq(Messages), NEW msg \in Messages
  PROVE  bus \o <<msg>> = Append(bus, msg)
  BY AppendIsConcat

\* Nor does waiting for a state lose it.
LEMMA AwaitedAwaiting ==
  ASSUME NEW p \in Pipelines, Awaiting(p), NEW q \in Awaited(p)
  PROVE  Awaiting(q)
<1> USE DEF READY, PAUSED, PLAYING
<1>1. Awaiting(Preroll(p)) /\ Preroll(p) \in Pipelines
  BY PrerollAwaiting, PrerollType DEF Awaiting
<1>2. ASSUME NEW r \in Pipelines, Awaiting(r), CanAdvance(r)
      PROVE  Awaiting(Advance(r))
  <2>1. /\ Advance(r).bus = Append(r.bus, StateMsg(PAUSED, PLAYING))
        /\ Advance(r).prerolling = r.prerolling
        /\ r.cur > READY
    BY <1>2 DEF Advance, CanAdvance, Pipelines
  <2>2. StateMsg(PAUSED, PLAYING) \in Messages
    BY StateMsgType DEF States, NULL
  <2> QED
    BY <1>2, <2>1, <2>2, AdvanceType, AppendAwaiting
<1> QED
  BY <1>1, <1>2 DEF Awaited

\* The steps after which a wait goes on as it was: all but setTime, the message
\* itself, open() and close().
Waits ==
  \/ \E s \in States : UserSetState(s)
  \/ Stop \/ Replay \/ QueryState \/ SetLoop
  \/ UpdateBegin \/ UpdateEnd
  \/ HandleStateChanged \/ HandleDurationChanged \/ HandleEos
  \/ PipelineStep

\* None of them loses the message that is due.
LEMMA WaitsStep ==
  ASSUME TypeOK, Awaiting(mPipeline), Waits
  PROVE  Awaiting(mPipeline') /\ UNCHANGED seekVars
<1>1. CASE \E s \in States : UserSetState(s)
  BY <1>1, SetStateAwaiting DEF UserSetState, Call, Opened, TypeOK
<1>2. CASE Stop \/ Replay
  BY <1>2, RestartType DEF Stop, Replay, Call, Opened, TypeOK
<1>3. CASE QueryState
  BY <1>3, AwaitedAwaiting DEF QueryState, Call, Opened, TypeOK
<1>4. CASE SetLoop \/ UpdateBegin \/ UpdateEnd
  BY <1>4 DEF SetLoop, UpdateBegin, UpdateEnd
<1>5. ASSUME NEW type \in {"state_changed", "duration_changed", "eos"},
             Popped(type)
      PROVE  Awaiting(Pop(mPipeline)) /\ Pop(mPipeline) \in Pipelines
  <2>1. Head(mPipeline.bus) # AsyncDone
    BY <1>5 DEF Popped, AsyncDone, Msg
  <2> QED
    BY <1>5, <2>1, PoppedOpened, PopAwaiting
<1>6. CASE HandleStateChanged \/ HandleDurationChanged
  BY <1>5, <1>6 DEF HandleStateChanged, HandleDurationChanged
<1>7. CASE HandleEos
  <2>1. PAUSED \in States
    BY DEF States, NULL, PAUSED, PLAYING
  <2>2. Awaiting(Pop(mPipeline)) /\ Pop(mPipeline) \in Pipelines
    BY <1>5, <1>7 DEF HandleEos
  <2> QED
    BY <1>7, <2>1, <2>2, RestartType, SetStateAwaiting DEF HandleEos
<1>8. CASE PipelineStep
  <2>1. mPipeline \in Pipelines /\ UNCHANGED seekVars
    BY <1>8 DEF PipelineStep, PipelinePrerolls, PipelineAdvances,
                PipelineEnds, LearnsDuration, PipelineGoes,
                Opened, TypeOK
  <2>2. CASE PipelinePrerolls
    BY <2>1, <2>2, PrerollAwaiting
       DEF PipelinePrerolls, PipelineGoes, Awaiting
  <2>3. CASE PipelineAdvances
    <3>1. mPipeline' \in Awaited(mPipeline)
      BY <2>3 DEF PipelineAdvances, PipelineGoes, Awaited, CanAdvance,
                  CanPreroll
    <3> QED
      BY <2>1, <3>1, AwaitedAwaiting
  <2>4. ASSUME NEW msg \in Messages, mPipeline.cur > READY,
               mPipeline'.bus = Append(mPipeline.bus, msg),
               mPipeline'.prerolling = mPipeline.prerolling,
               mPipeline' \in Pipelines
        PROVE  Awaiting(mPipeline')
    BY <2>1, <2>4, AppendAwaiting
  <2>5. CASE PipelineEnds
    <3>1. /\ mPipeline' = End(mPipeline) /\ mPipeline.cur > READY
          /\ End(mPipeline) \in Pipelines
      BY <2>1, <2>5, EndType
         DEF PipelineEnds, PipelineGoes, CanEnd, READY, PLAYING
    <3>2. /\ End(mPipeline).bus = mPipeline.bus \o <<Eos>>
          /\ End(mPipeline).prerolling = mPipeline.prerolling
      BY <2>1 DEF End, Post, Pipelines
    <3>3. mPipeline.bus \o <<Eos>> = Append(mPipeline.bus, Eos)
      BY <2>1, AppendedOne DEF Pipelines, Messages
    <3> QED
      BY <2>1, <2>4, <3>1, <3>2, <3>3 DEF Messages
  <2>6. CASE LearnsDuration
    <3>1. /\ mPipeline' = Post(mPipeline, <<DurationChanged>>)
          /\ mPipeline.cur > READY
          /\ Post(mPipeline, <<DurationChanged>>) \in Pipelines
      BY <2>1, <2>6, DurationType DEF LearnsDuration, PipelineGoes
    <3>2. /\ Post(mPipeline, <<DurationChanged>>).bus
               = mPipeline.bus \o <<DurationChanged>>
          /\ Post(mPipeline, <<DurationChanged>>).prerolling
               = mPipeline.prerolling
      BY <2>1 DEF Post, Pipelines
    <3>3. mPipeline.bus \o <<DurationChanged>>
            = Append(mPipeline.bus, DurationChanged)
      BY <2>1, AppendedOne DEF Pipelines, Messages
    <3>4. DurationChanged \in Messages
      BY DEF Messages
    <3> QED
      BY <2>1, <2>4, <3>1, <3>2, <3>3, <3>4
  <2> QED
    BY <1>8, <2>1, <2>2, <2>3, <2>5, <2>6 DEF PipelineStep
<1> QED
  BY <1>1, <1>2, <1>3, <1>4, <1>6, <1>7, <1>8
     DEF Waits, UserSetState, Stop, Replay, QueryState, SetLoop, UpdateBegin,
         UpdateEnd, HandleStateChanged, HandleDurationChanged, HandleEos

\* What the lock and a waiting request need of the pipeline.  The second is not
\* inductive by itself: a request is put off because of the lock, so what the
\* lock waits for is what the request will be served by.
LockWaits == mSeekingLock => Awaiting(mPipeline)
RequestWaits ==
  /\ Opened => mDuration = Duration
  /\ mPendingSeek >= 0 => Awaiting(mPipeline)

\* open() and close() forget lock and request.
LEMMA ForgetStep ==
  ASSUME Close \/ \E outcome \in Outcomes : Open(outcome)
  PROVE  mSeekingLock' = FALSE /\ mPendingSeek' = NoSeek
  BY DEF Close, Open, Reset

\* What setTime does to the lock and to the pipeline.
LEMMA SeekStepWaits ==
  ASSUME SinksPreroll = TRUE,
         NEW t \in Requests, NEW p \in Pipelines, NEW locked \in BOOLEAN,
         locked => Awaiting(p),
         SeekNow(t, p, locked) \/ SeekLater(t, p, locked)
           \/ SeekRefused(t, p, locked)
  PROVE  mSeekingLock' => Awaiting(mPipeline')
<1>1. Clamp(t) \in Nat
  BY RequestsAssumption, ClampType
<1>2. Awaiting(Seek(p, Clamp(t)))
  BY <1>1, SeekAwaiting
<1> QED
  BY <1>2 DEF SeekNow, SeekLater, SeekRefused

\* The lock always waits for a message that is due.
LEMMA LockStep ==
  ASSUME SinksPreroll = TRUE, TypeOK, LockWaits, [Next]_vars
  PROVE  LockWaits'
<1>1. CASE Waits
  <2>1. CASE Awaiting(mPipeline)
    BY <1>1, <2>1, WaitsStep DEF LockWaits
  <2>2. CASE ~Awaiting(mPipeline)
    <3>1. ~mSeekingLock /\ UNCHANGED mSeekingLock
      BY <1>1, <2>2
         DEF LockWaits, Waits, UserSetState, Stop, Replay, QueryState,
             SetLoop, UpdateBegin, UpdateEnd, HandleStateChanged,
             HandleDurationChanged, HandleEos, PipelineStep,
             PipelinePrerolls, PipelineAdvances, PipelineEnds,
             LearnsDuration, PipelineGoes, seekVars
    <3> QED
      BY <3>1 DEF LockWaits
  <2> QED
    BY <2>1, <2>2
<1>2. CASE Close \/ \E outcome \in Outcomes : Open(outcome)
  BY <1>2, ForgetStep DEF LockWaits
<1>3. ASSUME NEW t \in Requests, SetTime(t) PROVE LockWaits'
  <2>1. mPipeline \in Pipelines /\ mSeekingLock \in BOOLEAN
    BY <1>3 DEF SetTime, Call, Opened, TypeOK
  <2> QED
    BY <1>3, <2>1, SeekStepWaits DEF SetTime, LockWaits
<1>4. CASE HandleAsyncDone
  <2>1. CASE mPendingSeek < 0
    <3>1. ~(mPendingSeek >= 0)
      BY <2>1, RequestsAssumption DEF TypeOK, NoSeek
    <3> QED
      BY <1>4, <3>1 DEF HandleAsyncDone, LockWaits
  <2>2. CASE mPendingSeek >= 0
    <3>1. Pop(mPipeline) \in Pipelines /\ mPendingSeek \in Requests
      BY <1>4, <2>2, PoppedOpened DEF HandleAsyncDone, TypeOK, NoSeek
    <3>2. ~(mPendingSeek < 0)
      BY <2>2, RequestsAssumption DEF TypeOK, NoSeek
    <3> QED
      BY <1>4, <3>1, <3>2, SeekStepWaits
         DEF HandleAsyncDone, LockWaits
  <2> QED
    BY <2>1, <2>2, RequestsAssumption DEF TypeOK, NoSeek
<1>5. CASE UNCHANGED vars
  BY <1>5 DEF vars, seekVars, LockWaits
<1> QED
  BY <1>1, <1>2, <1>3, <1>4, <1>5
     DEF Next, UserCall, Update, Handle, Waits

\* While the lock of setTime is held and the media is not stopped, the
\* ASYNC_DONE that releases it is on its way or on the bus (nsvr_player.cpp:
\* 278-283, 401), for any media, requests and refusals, if the sinks report.
THEOREM LockReleased ==
  ASSUME SinksPreroll = TRUE
  PROVE  Spec => []LockHasReleaser
<1>1. Init => LockWaits
  BY DEF Init, LockWaits
<1>2. TypeOK /\ LockWaits /\ [Next]_vars => LockWaits'
  BY LockStep
<1>3. LockWaits => LockHasReleaser
  BY DEF LockWaits, LockHasReleaser, Awaiting
<1> QED
  BY <1>1, <1>2, <1>3, TypeCorrect, PTL DEF Spec, SafeSpec

\* The duration open() discovered stays known.
LEMMA DurationKnown ==
  ASSUME Discovered = {Duration}, TypeOK, [Next]_vars,
         Opened => mDuration = Duration
  PROVE  Opened' => mDuration' = Duration
<1>1. CASE UNCHANGED mDuration /\ (Opened' => Opened)
  BY <1>1
<1>2. ASSUME NEW type, Popped(type) PROVE Opened
  BY <1>2, NoBus DEF Popped, Opened
<1>3. CASE Close \/ \E outcome \in Outcomes : Open(outcome)
  BY <1>3 DEF Close, Open, Opened
<1>4. CASE HandleDurationChanged
  BY <1>2, <1>4 DEF HandleDurationChanged
<1>5. CASE HandleStateChanged \/ HandleAsyncDone \/ HandleEos
  BY <1>1, <1>2, <1>5 DEF HandleStateChanged, HandleAsyncDone, HandleEos
<1>6. CASE \/ \E s \in States : UserSetState(s)
           \/ Stop \/ Replay \/ QueryState \/ PipelineStep
           \/ \E t \in Requests : SetTime(t)
  BY <1>1, <1>6
     DEF UserSetState, Stop, Replay, QueryState, SetTime, Call, PipelineStep,
         PipelinePrerolls, PipelineAdvances, PipelineEnds, LearnsDuration,
         PipelineGoes
<1>7. CASE SetLoop \/ UpdateBegin \/ UpdateEnd \/ UNCHANGED vars
  BY <1>1, <1>7 DEF SetLoop, UpdateBegin, UpdateEnd, vars, Opened
<1> QED
  BY <1>3, <1>4, <1>5, <1>6, <1>7 DEF Next, UserCall, Update, Handle

\* A request that waits is served by the message the lock waits for.
LEMMA RequestStep ==
  ASSUME SinksPreroll = TRUE, SeekMayFail = FALSE, Discovered = {Duration},
         TypeOK, LockWaits, RequestWaits, [Next]_vars
  PROVE  RequestWaits'
<1>1. Opened' => mDuration' = Duration
  BY DurationKnown DEF RequestWaits
<1> SUFFICES mPendingSeek' >= 0 => Awaiting(mPipeline')
  BY <1>1 DEF RequestWaits, Opened
<1>2. CASE Waits
  <2>1. UNCHANGED mPendingSeek
    BY <1>2
       DEF Waits, UserSetState, Stop, Replay, QueryState, SetLoop,
           UpdateBegin, UpdateEnd, HandleStateChanged,
           HandleDurationChanged, HandleEos, PipelineStep,
           PipelinePrerolls, PipelineAdvances, PipelineEnds,
           LearnsDuration, PipelineGoes, seekVars
  <2> QED
    BY <1>2, <2>1, WaitsStep DEF RequestWaits
<1>3. CASE Close \/ \E outcome \in Outcomes : Open(outcome)
  <2>1. mPendingSeek' = NoSeek
    BY <1>3, ForgetStep
  <2>2. ~(NoSeek >= 0)
    BY DEF NoSeek
  <2> QED
    BY <2>1, <2>2
<1>4. ASSUME NEW t \in Requests, SetTime(t)
      PROVE  mPendingSeek' >= 0 => Awaiting(mPipeline')
  <2>1. mDuration # 0
    BY <1>4, DurationAssumption DEF SetTime, Call, RequestWaits
  <2>2. CASE SeekNow(t, mPipeline, mSeekingLock)
    BY <2>2 DEF SeekNow, NoSeek
  <2>3. CASE SeekLater(t, mPipeline, mSeekingLock)
    BY <2>1, <2>3 DEF SeekLater, LockWaits
  <2>4. CASE SeekRefused(t, mPipeline, mSeekingLock)
    BY <2>4 DEF SeekRefused, RequestWaits
  <2> QED
    BY <1>4, <2>2, <2>3, <2>4 DEF SetTime
<1>5. CASE HandleAsyncDone
  <2>1. CASE mPendingSeek < 0
    <3>1. ~(mPendingSeek >= 0)
      BY <2>1, RequestsAssumption DEF TypeOK, NoSeek
    <3> QED
      BY <1>5, <3>1 DEF HandleAsyncDone
  <2>2. CASE ~(mPendingSeek < 0)
    <3>1. mDuration # 0
      BY <1>5, NoBus, DurationAssumption
         DEF HandleAsyncDone, Popped, Opened, RequestWaits
    <3>2. CASE SeekNow(mPendingSeek, Pop(mPipeline), FALSE)
      BY <3>2 DEF SeekNow, NoSeek
    <3>3. ~SeekLater(mPendingSeek, Pop(mPipeline), FALSE)
      BY <3>1 DEF SeekLater
    <3>4. CASE SeekRefused(mPendingSeek, Pop(mPipeline), FALSE)
      BY <3>4 DEF SeekRefused, CanSeek, Awaiting
    <3> QED
      BY <1>5, <2>2, <3>2, <3>3, <3>4 DEF HandleAsyncDone
  <2> QED
    BY <2>1, <2>2
<1>6. CASE UNCHANGED vars
  BY <1>6 DEF vars, seekVars, RequestWaits
<1> QED
  BY <1>2, <1>3, <1>4, <1>5, <1>6
     DEF Next, UserCall, Update, Handle, Waits

\* A request that waits for a media that plays is never stranded: an
\* ASYNC_DONE that serves it is due (nsvr_player.cpp:285-288).  Each of the
\* assumptions excludes one way to strand it: sinks that report nothing, a
\* duration learned later (the run unknown_duration), and a seek that the
\* pipeline refuses after the message has been popped.
THEOREM RequestServerDue ==
  ASSUME SinksPreroll = TRUE, SeekMayFail = FALSE, Discovered = {Duration}
  PROVE  Spec => []PendingHasServer
<1>1. Init => LockWaits /\ RequestWaits
  BY DEF Init, LockWaits, RequestWaits, Opened, NoSeek
<1>2. TypeOK /\ LockWaits /\ RequestWaits /\ [Next]_vars
        => LockWaits' /\ RequestWaits'
  BY LockStep, RequestStep
<1>3. RequestWaits => PendingHasServer
  BY DEF RequestWaits, PendingHasServer, Awaiting
<1> QED
  BY <1>1, <1>2, <1>3, TypeCorrect, PTL DEF Spec, SafeSpec

-----------------------------------------------------------------------------
(* setTime() implements SeekRequests                                       *)

\* What waits is what was asked for last: every call that is not refused
\* either puts its time in mPendingSeek or clears it.
LatestWaits == mPendingSeek >= 0 => asked = mPendingSeek

LEMMA LatestStep ==
  ASSUME TypeOK, LatestWaits, [Next]_vars
  PROVE  LatestWaits'
<1>0. ~(NoSeek >= 0)
  BY DEF NoSeek
<1>1. CASE Waits
  BY <1>1
     DEF Waits, UserSetState, Stop, Replay, QueryState, SetLoop,
         UpdateBegin, UpdateEnd, HandleStateChanged,
         HandleDurationChanged, HandleEos, PipelineStep,
         PipelinePrerolls, PipelineAdvances, PipelineEnds,
         LearnsDuration, PipelineGoes, seekVars,
         LatestWaits
<1>2. CASE Close \/ \E outcome \in Outcomes : Open(outcome)
  BY <1>0, <1>2, ForgetStep DEF LatestWaits
<1>3. ASSUME NEW t \in Requests, SetTime(t) PROVE LatestWaits'
  BY <1>0, <1>3
     DEF SetTime, SeekNow, SeekLater, SeekRefused, LatestWaits
<1>4. CASE HandleAsyncDone
  BY <1>0, <1>4
     DEF HandleAsyncDone, SeekNow, SeekLater, SeekRefused, LatestWaits
<1>5. CASE UNCHANGED vars
  BY <1>5 DEF vars, seekVars, LatestWaits
<1> QED
  BY <1>1, <1>2, <1>3, <1>4, <1>5
     DEF Next, UserCall, Update, Handle, Waits

\* Steps that seek nothing: the media starts over, or plays on.
LEMMA PlainStep ==
  ASSUME TypeOK, Waits
  PROVE  /\ mPipeline'.pos \in {0, mPipeline.pos}
         /\ UNCHANGED mPendingSeek
         /\ Clamp(asked') = Clamp(asked)
<1>1. UNCHANGED <<mPendingSeek, asked>>
  BY DEF Waits, UserSetState, Stop, Replay, QueryState, SetLoop,
         UpdateBegin, UpdateEnd, HandleStateChanged,
         HandleDurationChanged, HandleEos, PipelineStep,
         PipelinePrerolls, PipelineAdvances, PipelineEnds,
         LearnsDuration, PipelineGoes, seekVars
<1> SUFFICES mPipeline'.pos \in {0, mPipeline.pos}
  BY <1>1
<1>2. CASE \E s \in States : UserSetState(s)
  BY <1>2, SetStatePos DEF UserSetState, Call, Opened, TypeOK
<1>3. CASE Stop \/ Replay
  BY <1>3, RestartType DEF Stop, Replay, Call, Opened, TypeOK
<1>4. CASE QueryState
  BY <1>4, AwaitedPos DEF QueryState, Call, Opened, TypeOK
<1>5. CASE SetLoop \/ UpdateBegin \/ UpdateEnd
  BY <1>5 DEF SetLoop, UpdateBegin, UpdateEnd
<1>6. ASSUME NEW type, Popped(type)
      PROVE  Pop(mPipeline).pos = mPipeline.pos
               /\ Pop(mPipeline) \in Pipelines
  BY <1>6, PoppedOpened, StepPos
<1>7. CASE HandleStateChanged \/ HandleDurationChanged
  BY <1>6, <1>7 DEF HandleStateChanged, HandleDurationChanged
<1>8. CASE HandleEos
  <2>1. PAUSED \in States
    BY DEF States, NULL, PAUSED, PLAYING
  <2> QED
    BY <1>6, <1>8, <2>1, RestartType, SetStatePos DEF HandleEos
<1>9. CASE PipelineStep
  BY <1>9, StepPos
     DEF PipelineStep, PipelinePrerolls, PipelineAdvances,
         PipelineEnds, LearnsDuration, PipelineGoes,
         Opened, TypeOK
<1> QED
  BY <1>1, <1>2, <1>3, <1>4, <1>5, <1>7, <1>8, <1>9 DEF Waits

\* Every step of the player is one of the register's, or none.
LEMMA SeekRefines ==
  ASSUME Requests \subseteq Nat, TypeOK, LatestWaits, [Next]_vars
  PROVE  [Requested!Next]_Requested!vars
<1> USE DEF Requested!vars
<1>0. ~(NoSeek >= 0) /\ Clamp(0) = 0
  BY ClampIdentity DEF NoSeek
<1>1. CASE Waits
  BY <1>1, PlainStep DEF Requested!Next, Requested!Restart
<1>2. CASE Close \/ \E outcome \in Outcomes : Open(outcome)
  <2>1. asked' = 0 /\ mPipeline'.pos = 0
    BY <1>2, OpenedType, NoBus DEF Close, Open, Reset
  <2>2. mPendingSeek' = NoSeek
    BY <1>2, ForgetStep
  <2>3. ~(mPendingSeek' >= 0) /\ Clamp(asked') = 0
    BY <1>0, <2>1, <2>2
  <2> QED
    BY <2>1, <2>3 DEF Requested!Next, Requested!Forget
<1>3. ASSUME NEW t \in Requests, SetTime(t)
      PROVE  [Requested!Next]_Requested!vars
  <2>1. /\ mPipeline \in Pipelines /\ t >= 0
        /\ Clamp(t) \in 0 .. Duration /\ Clamp(t) \in Nat
    BY <1>3, ClampType DEF SetTime, Call, Opened, TypeOK
  <2>2. CASE SeekNow(t, mPipeline, mSeekingLock) /\ asked' = t
    BY <1>0, <2>1, <2>2, SeekPos
       DEF SeekNow, Requested!Next, Requested!SeekNow
  <2>3. CASE SeekLater(t, mPipeline, mSeekingLock) /\ asked' = t
    BY <2>1, <2>3 DEF SeekLater, Requested!Next, Requested!Ask
  <2>4. CASE SeekRefused(t, mPipeline, mSeekingLock) /\ UNCHANGED asked
    BY <2>4 DEF SeekRefused
  <2> QED
    BY <1>3, <2>2, <2>3, <2>4 DEF SetTime
<1>4. CASE HandleAsyncDone
  <2>1. /\ Pop(mPipeline) \in Pipelines
        /\ Pop(mPipeline).pos = mPipeline.pos
        /\ asked' = asked
    BY <1>4, PoppedOpened, StepPos DEF HandleAsyncDone
  <2>2. CASE mPipeline' = Pop(mPipeline) /\ UNCHANGED mPendingSeek
    BY <2>1, <2>2
  <2>3. CASE mPendingSeek >= 0 /\ SeekNow(mPendingSeek, Pop(mPipeline), FALSE)
    <3>1. asked = mPendingSeek /\ Clamp(asked) \in Nat
      BY <2>3, RequestsAssumption, ClampType
         DEF LatestWaits, TypeOK, NoSeek
    <3>2. mPipeline'.pos = Clamp(asked) /\ mPendingSeek' = NoSeek
      BY <2>1, <2>3, <3>1, SeekPos DEF SeekNow
    <3> QED
      BY <1>0, <2>1, <2>3, <3>2 DEF Requested!Next, Requested!Serve
  <2> QED
    BY <1>4, <2>2, <2>3
       DEF HandleAsyncDone, SeekLater, SeekRefused
<1>5. CASE UNCHANGED vars
  BY <1>5 DEF vars, seekVars
<1> QED
  BY <1>1, <1>2, <1>3, <1>4, <1>5
     DEF Next, UserCall, Update, Handle, Waits

\* With requests that are times of a media (0 or more), setTime() is the
\* register of SeekRequests whatever the media, its duration, the sinks and
\* the refusals: the latest request is sought, once, and never one that a
\* later request replaced.  The assumption is needed: a request below 0 that
\* has to wait is forgotten, with the one that waited before it.
THEOREM SeeksImplementRequests ==
  ASSUME Requests \subseteq Nat
  PROVE  Spec => ImplementsSeekRequests
<1>1. Init => LatestWaits /\ Requested!Init
  BY ClampIdentity, NoBus DEF Init, LatestWaits, NoSeek, Requested!Init
<1>2. TypeOK /\ LatestWaits /\ [Next]_vars => LatestWaits'
  BY LatestStep
<1>3. TypeOK /\ LatestWaits /\ [Next]_vars
        => [Requested!Next]_Requested!vars
  BY SeekRefines
<1> QED
  BY <1>1, <1>2, <1>3, TypeCorrect, PTL
     DEF Spec, SafeSpec, ImplementsSeekRequests, Requested!Spec

-----------------------------------------------------------------------------
(* The cached state                                                        *)

\* Whoever reads the bus to its end has cached the actual state.
Told == Opened => TellsState(mPipeline, mState)

LEMMA RestartTells ==
  ASSUME NEW p \in Pipelines, NEW c, TellsState(p, c)
  PROVE  TellsState(Stopped(p), c) /\ TellsState(Replayed(p), c)
<1>1. {NULL, READY, PLAYING} \subseteq States /\ TRUE \in BOOLEAN
  BY DEF States, NULL, READY, PLAYING
<1> DEFINE q == SetState(p, NULL, TRUE)
<1>2. q \in Pipelines /\ TellsState(q, c)
  BY <1>1, SetStateType, SetStateTells
<1> HIDE DEF q
<1>3. SetState(q, READY, TRUE) \in Pipelines
        /\ TellsState(SetState(q, READY, TRUE), c)
  BY <1>1, <1>2, SetStateType, SetStateTells
<1>4. Stopped(p) \in Pipelines /\ TellsState(Stopped(p), c)
  BY <1>3 DEF Stopped, q
<1>5. TellsState(SetState(Stopped(p), PLAYING, TRUE), c)
  BY <1>1, <1>4, SetStateTells
<1> QED
  BY <1>4, <1>5 DEF Replayed

\* What a message that is popped leaves to tell.
LEMMA PoppedTells ==
  ASSUME TypeOK, Told, NEW type, Popped(type)
  PROVE  TellsState(Pop(mPipeline),
                    IF type = "state_changed" THEN Head(mPipeline.bus).new
                                              ELSE mState)
<1>1. mPipeline \in Pipelines /\ mPipeline.bus # <<>>
  BY PoppedOpened
<1>2. TellsState(mPipeline, mState)
  <2>1. NoPipeline.bus = <<>>
    BY NoBus
  <2> QED
    BY <1>1, <2>1 DEF Told, Opened
<1>3. IsState(Head(mPipeline.bus)) <=> type = "state_changed"
  BY DEF Popped, IsState
<1> QED
  BY <1>1, <1>2, <1>3, PopTells

LEMMA ToldStep == TypeOK /\ Told /\ [Next]_vars => Told'
<1> SUFFICES ASSUME TypeOK, Told, [Next]_vars PROVE Told'
  OBVIOUS
<1>0. Opened => mPipeline \in Pipelines /\ TellsState(mPipeline, mState)
  BY DEF TypeOK, Told, Opened
<1>1. CASE Close
  BY <1>1 DEF Close, Told, Opened
<1>2. ASSUME NEW outcome \in Outcomes, Open(outcome) PROVE Told'
  <2>1. CASE outcome = "opened"
    <3> DEFINE p == SetState(SetState(Launched, READY, TRUE), PAUSED, TRUE)
    <3>1. /\ Launched \in Pipelines /\ TRUE \in BOOLEAN
          /\ {READY, PAUSED} \subseteq States
      BY DEF Launched, Pipelines, States, NULL, READY, PAUSED, PLAYING
    <3>2. p \in Pipelines
      BY <3>1, SetStateType
    <3>3. mPipeline' = Preroll(p)
      BY <1>2, <2>1 DEF Open
    <3> HIDE DEF p
    <3>4. TellsState(Preroll(p), mState')
      BY <3>2, PrerollTells
    <3> QED
      BY <3>3, <3>4 DEF Told, TellsState
  <2>2. CASE outcome # "opened"
    BY <1>2, <2>2 DEF Open, Told, Opened
  <2> QED
    BY <2>1, <2>2
<1>3. ASSUME NEW s \in States, UserSetState(s) PROVE Told'
  <2>1. PICK held \in BOOLEAN : mPipeline' = SetState(mPipeline, s, held)
    BY <1>3 DEF UserSetState
  <2>2. TellsState(SetState(mPipeline, s, held), mState)
    BY <1>0, <1>3, SetStateTells DEF UserSetState, Call
  <2> QED
    BY <1>3, <2>1, <2>2 DEF UserSetState, Told, TellsState
<1>4. CASE Stop \/ Replay
  <2>1. TellsState(Stopped(mPipeline), mState)
          /\ TellsState(Replayed(mPipeline), mState)
    BY <1>0, <1>4, RestartTells DEF Stop, Replay, Call
  <2> QED
    BY <1>4, <2>1 DEF Stop, Replay, Told, TellsState
<1>5. CASE QueryState
  <2>1. PICK q \in Awaited(mPipeline) : mPipeline' = q
    BY <1>5 DEF QueryState
  <2>2. TellsState(q, q.cur)
    BY <1>0, <1>5, AwaitedTells DEF QueryState, Call
  <2> QED
    BY <1>5, <2>1, <2>2 DEF QueryState, Told, TellsState
<1>6. ASSUME NEW t \in Int, NEW p \in Pipelines, NEW locked,
             TellsState(p, mState),
             SeekNow(t, p, locked) \/ SeekLater(t, p, locked)
               \/ SeekRefused(t, p, locked)
      PROVE  TellsState(mPipeline', mState)
  <2>1. TellsState(Seek(p, Clamp(t)), mState)
    BY <1>6, ClampType, SeekTells
  <2> QED
    BY <1>6, <2>1 DEF SeekNow, SeekLater, SeekRefused
<1>7. ASSUME NEW t \in Requests, SetTime(t) PROVE Told'
  <2>1. t \in Int
    BY RequestsAssumption
  <2>2. TellsState(mPipeline', mState)
    BY <1>0, <1>6, <1>7, <2>1 DEF SetTime, Call
  <2> QED
    BY <1>7, <2>2 DEF SetTime, Told, TellsState
<1>8. CASE UpdateBegin \/ UpdateEnd \/ SetLoop
  BY <1>8 DEF UpdateBegin, UpdateEnd, SetLoop, Told, Opened, TellsState
<1>9. CASE HandleStateChanged
  <2>1. TellsState(Pop(mPipeline), Head(mPipeline.bus).new)
    BY <1>9, PoppedTells DEF HandleStateChanged
  <2> QED
    BY <1>9, <2>1 DEF HandleStateChanged, Told, TellsState
<1>10. CASE HandleAsyncDone
  <2> DEFINE p == Pop(mPipeline)
  <2>1. p \in Pipelines /\ TellsState(p, mState)
    BY <1>10, PoppedOpened, PoppedTells DEF HandleAsyncDone
  <2>2. mPendingSeek \in Int
    BY RequestsAssumption DEF TypeOK, NoSeek
  <2>3. \/ mPipeline' = p
        \/ SeekNow(mPendingSeek, p, FALSE) \/ SeekLater(mPendingSeek, p, FALSE)
             \/ SeekRefused(mPendingSeek, p, FALSE)
    BY <1>10 DEF HandleAsyncDone
  <2> HIDE DEF p
  <2>4. TellsState(mPipeline', mState)
    BY <1>6, <2>1, <2>2, <2>3
  <2> QED
    BY <1>10, <2>4 DEF HandleAsyncDone, Told, TellsState
<1>11. CASE HandleDurationChanged
  <2>1. TellsState(Pop(mPipeline), mState)
    BY <1>11, PoppedTells DEF HandleDurationChanged
  <2> QED
    BY <1>11, <2>1 DEF HandleDurationChanged, Told, TellsState
<1>12. CASE HandleEos
  <2> DEFINE p == Pop(mPipeline)
  <2>1. p \in Pipelines /\ TellsState(p, mState)
    BY <1>12, PoppedOpened, PoppedTells DEF HandleEos
  <2>2. PAUSED \in States
    BY DEF States, NULL, PAUSED, PLAYING
  <2>3. \/ mPipeline' = Replayed(p)
        \/ \E held \in BOOLEAN : mPipeline' = SetState(p, PAUSED, held)
    BY <1>12 DEF HandleEos
  <2> HIDE DEF p
  <2>4. TellsState(mPipeline', mState)
    BY <2>1, <2>2, <2>3, RestartTells, SetStateTells
  <2> QED
    BY <1>12, <2>4 DEF HandleEos, Told, TellsState
<1>13. CASE PipelineStep
  <2>1. mPipeline \in Pipelines /\ TellsState(mPipeline, mState)
    BY <1>0, <1>13 DEF PipelineStep, PipelinePrerolls, PipelineAdvances,
                       PipelineEnds, LearnsDuration, PipelineGoes
  <2>2. TellsState(mPipeline', mState) /\ mState' = mState
    BY <1>13, <2>1, PrerollTells, AdvanceTells, EndTells, DurationTells
       DEF PipelineStep, PipelinePrerolls, PipelineAdvances,
           PipelineEnds, LearnsDuration, PipelineGoes
  <2> QED
    BY <2>2 DEF Told, TellsState
<1>14. CASE UNCHANGED vars
  BY <1>14 DEF vars, Told, Opened, TellsState
<1> QED
  BY <1>1, <1>2, <1>3, <1>4, <1>5, <1>7, <1>8, <1>9, <1>10, <1>11, <1>12,
     <1>13, <1>14
     DEF Next, UserCall, Update, Handle

\* Whatever was called, queried, sought or left on the bus, for any sinks and
\* any media: when the bus is drained and nothing is under way, the cached
\* state is the actual one (nsvr_player.cpp:186-208, 263-276).
THEOREM CachedStateSettles == Spec => []StateSettles
<1>1. Init => TypeOK /\ Told
  <2>1. NULL \in States /\ FALSE \in BOOLEAN
    BY DEF States, NULL, PLAYING
  <2> QED
    BY <2>1 DEF Init, TypeOK, Told, Opened
<1>2. TypeOK /\ Told => StateSettles
  <2> SUFFICES ASSUME Told, Opened, mPipeline.bus = <<>>, mPipeline.cur # NULL
               PROVE  mState = mPipeline.cur
    BY DEF StateSettles
  <2>1. Tells(<<>>, mState, mPipeline.cur)
    BY DEF Told, TellsState
  <2>2. 1 .. Len(<<>>) = {}
    OBVIOUS
  <2> QED
    BY <2>1, <2>2 DEF Tells
<1> QED
  BY <1>1, <1>2, TypeStep, ToldStep, PTL DEF Spec, SafeSpec

=============================================================================
