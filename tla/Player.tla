------------------------------- MODULE Player -------------------------------
(***************************************************************************)
(* The control side of class Player: opening and closing a media, state    *)
(* changes, seeking, looping, and the loop of update() that pops the       *)
(* messages of the pipeline's bus.  All of it runs on one thread; the      *)
(* pipeline changes state and posts messages by itself meanwhile.          *)
(*                                                                         *)
(* A call is one step, except update(), which handles one message a step.  *)
(* The callbacks of the base class do nothing, so they have no action.     *)
(***************************************************************************)
EXTENDS Pipeline

CONSTANTS
  Requests,       \* the times given to setTime, some below 0 perhaps
  Duration,       \* of the media
  Discovered,     \* what Discoverer may say of it: Duration, or 0
  SeekMayFail,    \* whether the pipeline may refuse a seek
  MaxBus          \* bound on the messages left on the bus

ASSUME RequestsAssumption == Requests \subseteq Int
ASSUME DurationAssumption == Duration \in Nat \ {0}
ASSUME DiscoveredAssumption == Discovered \subseteq {0, Duration}
ASSUME SeekMayFailAssumption == SeekMayFail \in BOOLEAN
ASSUME MaxBusAssumption == MaxBus \in Nat

NoSeek == -1
NoPipeline == [Launched EXCEPT !.cur = VOID, !.tgt = VOID]

VARIABLES
  mPipeline,      \* with its bus; NoPipeline for a null pointer
  mState,         \* the cached state
  mPendingSeek,   \* a time at which to seek later; none if below 0
  mSeekingLock,
  mDuration,      \* 0 if not known
  mLoop,
  updating,       \* inside the loop of update()
  asked           \* history: the last request of setTime not refused

seekVars == <<mPendingSeek, mSeekingLock>>
vars == <<mPipeline, mState, seekVars, mDuration, mLoop, updating, asked>>

Opened == mPipeline # NoPipeline
Clamp(pos) == IF pos < 0 THEN 0 ELSE IF pos > Duration THEN Duration ELSE pos

\* The constructor, and reset() at the end of close().
Init ==
  /\ mPipeline = NoPipeline
  /\ mState = NULL
  /\ mPendingSeek = NoSeek
  /\ mSeekingLock = FALSE
  /\ mDuration = 0
  /\ mLoop = FALSE
  /\ updating = FALSE
  /\ asked = 0

-----------------------------------------------------------------------------
(* Calls of the user: open() and close()                                   *)

Reset ==
  /\ mState' = NULL
  /\ mPendingSeek' = NoSeek
  /\ mSeekingLock' = FALSE
  /\ asked' = 0

Close ==
  /\ ~updating
  /\ Reset
  /\ mPipeline' = NoPipeline
  /\ mDuration' = 0
  /\ UNCHANGED <<mLoop, updating>>

\* open() begins with close().  Then it fails (nothing to play, a media that
\* cannot be discovered, a pipeline that does not reach READY or PAUSED and is
\* closed), or the pipeline prerolls.
Outcomes == {"failed", "opened"}

Open(outcome) ==
  /\ ~updating
  /\ Reset
  /\ IF outcome = "opened"
     THEN /\ mPipeline' = Preroll(SetState(SetState(Launched, READY, TRUE),
                                           PAUSED, TRUE))
          /\ mDuration' \in Discovered
     ELSE /\ mPipeline' = NoPipeline
          /\ mDuration' = 0
  /\ UNCHANGED <<mLoop, updating>>

-----------------------------------------------------------------------------
(* Calls of the user: states and seeking                                   *)

Busy == Len(mPipeline.bus) >= MaxBus
Call == ~updating /\ Opened /\ ~Busy

\* setState(), and play() and pause() that call it.
UserSetState(s) ==
  /\ Call
  /\ \E held \in BOOLEAN : mPipeline' = SetState(mPipeline, s, held)
  /\ UNCHANGED <<mState, seekVars, mDuration, mLoop, updating, asked>>

Stopped(p) == SetState(SetState(p, NULL, TRUE), READY, TRUE)
Replayed(p) == SetState(Stopped(p), PLAYING, TRUE)

Stop ==
  /\ Call
  /\ mPipeline' = Stopped(mPipeline)
  /\ UNCHANGED <<mState, seekVars, mDuration, mLoop, updating, asked>>

Replay ==
  /\ Call
  /\ mPipeline' = Replayed(mPipeline)
  /\ UNCHANGED <<mState, seekVars, mDuration, mLoop, updating, asked>>

\* gst_element_get_state waits for at most a second: a change under way may
\* or may not complete meanwhile.
QueryState ==
  /\ Call
  /\ mPipeline' \in Awaited(mPipeline)
  /\ mState' = mPipeline'.cur
  /\ UNCHANGED <<seekVars, mDuration, mLoop, updating, asked>>

SetLoop ==
  /\ ~updating
  /\ mLoop' = ~mLoop
  /\ UNCHANGED <<mPipeline, mState, seekVars, mDuration, updating, asked>>

\* Mutant: the request that waits is not cancelled by the seek.
SeekKeepsPending(t, p, locked) ==
  /\ ~locked
  /\ mDuration > 0
  /\ CanSeek(p)
  /\ mPipeline' = Seek(p, Clamp(t))
  /\ mSeekingLock' = TRUE
  /\ UNCHANGED mPendingSeek

SeekNow(t, p, locked) ==
  /\ ~locked
  /\ mDuration > 0
  /\ CanSeek(p)
  /\ mPipeline' = Seek(p, Clamp(t))
  /\ mSeekingLock' = TRUE
  /\ mPendingSeek' = NoSeek

SeekLater(t, p, locked) ==
  /\ locked \/ mDuration = 0
  /\ mPipeline' = p
  /\ mSeekingLock' = locked
  /\ mPendingSeek' = t

\* Mutant: the lock is taken before the pipeline has answered.
SeekRefusedLocked(t, p, locked) ==
  /\ ~locked
  /\ mDuration > 0
  /\ SeekMayFail \/ ~CanSeek(p)
  /\ mPipeline' = p
  /\ mSeekingLock' = TRUE
  /\ UNCHANGED mPendingSeek

SeekRefused(t, p, locked) ==
  /\ ~locked
  /\ mDuration > 0
  /\ SeekMayFail \/ ~CanSeek(p)
  /\ mPipeline' = p
  /\ mSeekingLock' = locked
  /\ UNCHANGED mPendingSeek

SetTime(t) ==
  /\ Call
  /\ \/ /\ \/ SeekNow(t, mPipeline, mSeekingLock)
           \/ SeekLater(t, mPipeline, mSeekingLock)
        /\ asked' = t
     \/ /\ SeekRefused(t, mPipeline, mSeekingLock)
        /\ UNCHANGED asked
  /\ UNCHANGED <<mState, mDuration, mLoop, updating>>

UserCall ==
  \/ Close
  \/ \E outcome \in Outcomes : Open(outcome)
  \/ \E s \in States : UserSetState(s)
  \/ Stop
  \/ Replay
  \/ QueryState
  \/ SetLoop
  \/ \E t \in Requests : SetTime(t)

-----------------------------------------------------------------------------
(* update(): the messages on the bus, one a step                           *)

UpdateBegin ==
  /\ ~updating
  /\ Opened
  /\ updating' = TRUE
  /\ UNCHANGED <<mPipeline, mState, seekVars, mDuration, mLoop, asked>>

UpdateEnd ==
  /\ updating
  /\ mPipeline.bus = <<>>
  /\ updating' = FALSE
  /\ UNCHANGED <<mPipeline, mState, seekVars, mDuration, mLoop, asked>>

Popped(type) ==
  /\ updating
  /\ mPipeline.bus # <<>>
  /\ Head(mPipeline.bus).type = type

\* Mutant: the two states of the message are mixed up.
HandleStateChangedSwapped ==
  /\ Popped("state_changed")
  /\ mState' = Head(mPipeline.bus).old
  /\ mPipeline' = Pop(mPipeline)
  /\ UNCHANGED <<seekVars, mDuration, mLoop, updating, asked>>

HandleStateChanged ==
  /\ Popped("state_changed")
  /\ mState' = Head(mPipeline.bus).new
  /\ mPipeline' = Pop(mPipeline)
  /\ UNCHANGED <<seekVars, mDuration, mLoop, updating, asked>>

\* Mutant: a pending request is looked at only if no seek was under way.
HandleAsyncDoneElse ==
  /\ Popped("async_done")
  /\ \/ /\ mSeekingLock \/ mPendingSeek < 0
        /\ mSeekingLock' = FALSE
        /\ mPipeline' = Pop(mPipeline)
        /\ UNCHANGED mPendingSeek
     \/ /\ ~mSeekingLock /\ mPendingSeek >= 0
        /\ \/ SeekNow(mPendingSeek, Pop(mPipeline), FALSE)
           \/ SeekLater(mPendingSeek, Pop(mPipeline), FALSE)
           \/ SeekRefused(mPendingSeek, Pop(mPipeline), FALSE)
  /\ UNCHANGED <<mState, mDuration, mLoop, updating, asked>>

\* The lock is released, and setTime called for the request that waits.
HandleAsyncDone ==
  /\ Popped("async_done")
  /\ \/ /\ mPendingSeek < 0
        /\ mSeekingLock' = FALSE
        /\ mPipeline' = Pop(mPipeline)
        /\ UNCHANGED mPendingSeek
     \/ /\ mPendingSeek >= 0
        /\ \/ SeekNow(mPendingSeek, Pop(mPipeline), FALSE)
           \/ SeekLater(mPendingSeek, Pop(mPipeline), FALSE)
           \/ SeekRefused(mPendingSeek, Pop(mPipeline), FALSE)
  /\ UNCHANGED <<mState, mDuration, mLoop, updating, asked>>

\* Mutant: a failed query is stored.
HandleDurationChangedFailed ==
  /\ Popped("duration_changed")
  /\ mDuration' \in {-1, Duration}
  /\ mPipeline' = Pop(mPipeline)
  /\ UNCHANGED <<mState, seekVars, mLoop, updating, asked>>

\* queryDuration(): the query may fail.
HandleDurationChanged ==
  /\ Popped("duration_changed")
  /\ mDuration' \in {mDuration, Duration}
  /\ mPipeline' = Pop(mPipeline)
  /\ UNCHANGED <<mState, seekVars, mLoop, updating, asked>>

HandleEos ==
  /\ Popped("eos")
  /\ IF mLoop
     THEN mPipeline' = Replayed(Pop(mPipeline))
     ELSE \E held \in BOOLEAN :
            mPipeline' = SetState(Pop(mPipeline), PAUSED, held)
  /\ UNCHANGED <<mState, seekVars, mDuration, mLoop, updating, asked>>

Handle ==
  \/ HandleStateChanged
  \/ HandleAsyncDone
  \/ HandleDurationChanged
  \/ HandleEos

Update == UpdateBegin \/ Handle \/ UpdateEnd

-----------------------------------------------------------------------------
(* The pipeline by itself                                                  *)

PipelineGoes(can, next) ==
  /\ Opened
  /\ can
  /\ mPipeline' = next
  /\ UNCHANGED <<mState, seekVars, mDuration, mLoop, updating, asked>>

PipelinePrerolls == PipelineGoes(CanPreroll(mPipeline), Preroll(mPipeline))
PipelineAdvances == PipelineGoes(CanAdvance(mPipeline), Advance(mPipeline))
PipelineEnds     == PipelineGoes(CanEnd(mPipeline), End(mPipeline))

LearnsDuration ==
  /\ mDuration = 0
  /\ PipelineGoes(mPipeline.cur > READY /\ ~Busy,
                  Post(mPipeline, <<DurationChanged>>))

PipelineStep ==
  \/ PipelinePrerolls
  \/ PipelineAdvances
  \/ PipelineEnds
  \/ LearnsDuration

Next == UserCall \/ Update \/ PipelineStep

(***************************************************************************)
(* Fairness: update() is called again and again and its loop goes on while *)
(* there are messages (nsvr_player.hpp:54); a pipeline that waits for data *)
(* gets it, and then does not put off PLAYING for ever.  Nothing obliges   *)
(* the user to make any other call, or the media to end.                   *)
(***************************************************************************)
Fairness ==
  /\ WF_vars(UpdateEnd)
  /\ WF_vars(Handle)
  /\ SF_vars(UpdateBegin)
  /\ WF_vars(PipelinePrerolls)
  /\ SF_vars(PipelineAdvances)

SafeSpec == Init /\ [][Next]_vars
Spec == SafeSpec /\ Fairness

-----------------------------------------------------------------------------
(* Properties                                                              *)

(* Types; a request that waits is one of the user's.                       *)
TypeOK ==
  /\ mPipeline \in Pipelines \union {NoPipeline}
  /\ mState \in States
  /\ mPendingSeek \in Requests \union {NoSeek}
  /\ mSeekingLock \in BOOLEAN
  /\ mDuration \in {0, Duration}
  /\ mLoop \in BOOLEAN
  /\ updating \in BOOLEAN
  /\ asked \in Requests \union {0}

(* The lock of setTime is never left behind: while it is held, and the     *)
(* media has not been stopped, the message that releases it is due         *)
(* (nsvr_player.cpp:278-283, 401).  Requires sinks that report preroll.    *)
LockHasReleaser ==
  mSeekingLock /\ mPipeline.cur > READY => AsyncDoneDue(mPipeline)

(* A request that waits is not stranded either (nsvr_player.cpp:285-288).  *)
(* Requires a duration known from the start and seeks that work.           *)
PendingHasServer ==
  mPendingSeek >= 0 /\ mPipeline.cur > READY => AsyncDoneDue(mPipeline)

(* Once the bus is drained and nothing changes, the cached state is the    *)
(* actual one, whatever calls and queries came in between                  *)
(* (nsvr_player.cpp:186-208, 263-276).  A pipeline put in NULL is silent.  *)
StateSettles ==
  (/\ Opened
   /\ mPipeline.bus = <<>>
   /\ ~mPipeline.prerolling
   /\ mPipeline.cur # NULL) => mState = mPipeline.cur

(* setTime implements the register of SeekRequests: the latest request is  *)
(* sought, once.                                                           *)
Requested == INSTANCE SeekRequests
               WITH asked     <- Clamp(asked),
                    waiting   <- mPendingSeek >= 0,
                    at        <- mPipeline.pos,
                    Positions <- 0 .. Duration
ImplementsSeekRequests == Requested!Spec

(* A request that waits for a media of known duration is sought, unless    *)
(* the media is stopped or closed (nsvr_player.hpp:75).                    *)
SeekServed ==
  (mPendingSeek >= 0 /\ mDuration > 0)
    ~> (mPendingSeek < 0 \/ mPipeline.cur <= READY)

(* A user who has stopped asking for states finally reads the one he asked *)
(* for last from getState().                                               *)
StateReported ==
  \A s \in {READY, PAUSED, PLAYING} :
    (<>[](mPipeline.tgt = s) /\ <>[][~Replay]_vars) => []<>(mState = s)

=============================================================================
