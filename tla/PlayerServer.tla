---------------------------- MODULE PlayerServer ----------------------------
(***************************************************************************)
(* The control side of class PlayerServer: what its overrides of setTime,  *)
(* onBeforeSetState, onStateChanged and onBeforeUpdate make of Player.  A  *)
(* seek is not given to the pipeline: the pipeline is taken down to READY, *)
(* its base time is moved, and it is put back into its old state.          *)
(*                                                                         *)
(* The calls nest (update() handles a message, that calls onStateChanged,  *)
(* that calls queryState and setTime, ...), so the player is one record,   *)
(* and a call is an operator from a player to the set of players it may    *)
(* return with.  The base time is not computed: it is base + ((captured -  *)
(* base) - seek), so what it says is that the media was at "seek" at the   *)
(* moment the seek was asked for.  If the media has been meant to play     *)
(* since then, that position is the model's origin; if not, the clock has  *)
(* gone on meanwhile, and the media plays from wherever that has led to:   *)
(* the origin is then None.                                                *)
(***************************************************************************)
EXTENDS Pipeline

CONSTANTS
  Duration,            \* of the media
  HeartbeatFrequency,  \* mHeartbeatFrequency, in updates
  WaitsForChanges,     \* whether the user waits for a state change to end
  WaitsForSeeks,       \* whether the user waits for a seek to be carried out
  SeeksPaused,         \* whether the user seeks in a media that does not play
  PausesStopped,       \* whether the user pauses a media that is stopped
  ConversionWraps,     \* whether a negative double converts to GstClockTime
                       \* modulo 2^64, as on x86-64, or to 0, as on ARM
  MayEnd,              \* whether the media may come to its end
  MaxBus               \* bound on the messages left on the bus

ASSUME ConstantsAssumption ==
  /\ Duration \in Nat \ {0}
  /\ HeartbeatFrequency \in Nat
  /\ {WaitsForChanges, WaitsForSeeks, SeeksPaused, PausesStopped}
       \subseteq BOOLEAN
  /\ {ConversionWraps, MayEnd} \subseteq BOOLEAN
  /\ MaxBus \in Nat

Times == 0 .. Duration
None == -1

VARIABLES
  player,     \* [pipe, mState, mTime, mPendingSeek, mPendingState,
              \*  mPendingStateSeek, mHeartbeatCounter, origin]
  mLoop,
  updating,   \* inside the loop of update()
  wanted,     \* history: the state last asked for
  position    \* history: the position last asked for, or paused at; None in
              \* the first media until then

history == <<wanted, position>>
vars == <<player, mLoop, updating, history>>

NoPipeline == [Launched EXCEPT !.cur = VOID, !.tgt = VOID]
Opened == player.pipe # NoPipeline

\* The constructor.  mPendingStateSeek is not part of Player::reset().
Closed ==
  [pipe |-> NoPipeline, mState |-> NULL, mTime |-> 0, mPendingSeek |-> None,
   mPendingState |-> NULL, mPendingStateSeek |-> None,
   mHeartbeatCounter |-> 0, origin |-> None]

Init ==
  /\ player = Closed
  /\ mLoop = FALSE
  /\ updating = FALSE
  /\ wanted = NULL
  /\ position = None

-----------------------------------------------------------------------------
(* The calls, each from a player to the players it may return with         *)

QueryState(p) ==
  {[p EXCEPT !.pipe = q, !.mState = q.cur] : q \in Awaited(p.pipe)}

\* Below PAUSED the position cannot be queried: the last answer is repeated.
GetTime(p) ==
  {[p EXCEPT !.mTime = t] :
     t \in IF p.pipe.cur <= READY THEN {p.mTime}
           ELSE IF p.pipe.tgt = PLAYING THEN Times ELSE {p.pipe.pos}}

SetTime(p, t) ==
  {[q EXCEPT !.mPendingSeek = t, !.mPendingState = q.mState] :
     q \in QueryState(p)}

\* Mutant: pausing does not note the position.
OnBeforeSetStateStop(p, s) ==
  IF s = NULL THEN {[p EXCEPT !.mPendingStateSeek = 0]} ELSE {p}

OnBeforeSetState(p, s) ==
  CASE s = NULL   -> {[p EXCEPT !.mPendingStateSeek = 0]}
    [] s = PAUSED -> {[q EXCEPT !.mPendingStateSeek = q.mTime] :
                        q \in GetTime(p)}
    [] OTHER      -> {p}

OnStateChanged(p) ==
  UNION {IF q.mState = PLAYING /\ q.mPendingStateSeek >= 0
         THEN {[r EXCEPT !.mPendingStateSeek = None] :
                 r \in SetTime(q, q.mPendingStateSeek)}
         ELSE {q} : q \in QueryState(p)}

\* The clock goes on while a media does not play, and leaves its base time behind.
LeftBehind(p, s) == IF s = PLAYING THEN p ELSE [p EXCEPT !.origin = None]

\* Player::setState.  A paused media stays where it is.
ToState(p, s) ==
  UNION {LET q == [SetState(b.pipe, s, held) EXCEPT
                     !.pos = IF s = PAUSED /\ b.pipe.cur = PLAYING
                             THEN b.mTime ELSE @]
             r == [b EXCEPT !.pipe = q]
         IN  IF Succeeded(q) THEN OnStateChanged(r) ELSE {r} :
         b \in OnBeforeSetState(LeftBehind(p, s), s), held \in BOOLEAN}

Stop(p) == UNION {ToState(q, READY) : q \in ToState(p, NULL)}
Replay(p) == UNION {ToState(q, PLAYING) : q \in Stop(p)}

-----------------------------------------------------------------------------
(* The user                                                                *)

Still(p) ==
  /\ p.pipe.bus = <<>>
  /\ ~CanPreroll(p.pipe)
  /\ ~CanAdvance(p.pipe)

Settled(p) == Still(p) /\ p.mPendingSeek = None

Call ==
  /\ ~updating
  /\ Opened
  /\ Len(player.pipe.bus) < MaxBus
  /\ WaitsForChanges => Still(player)
  /\ WaitsForSeeks => player.mPendingSeek = None

\* close(), with stop() if there is a pipeline; mPendingState stays.
Reset(p) ==
  [p EXCEPT !.pipe = NoPipeline, !.mState = NULL, !.mTime = 0,
            !.mPendingSeek = None, !.origin = None,
            !.mPendingStateSeek = IF p.pipe = NoPipeline THEN @ ELSE 0]

\* A media is to begin at 0; but of the first one no position is noted.
PositionReset == IF Opened THEN 0 ELSE position

UserClose ==
  /\ ~updating
  /\ player' = Reset(player)
  /\ wanted' = NULL
  /\ position' = PositionReset
  /\ UNCHANGED <<mLoop, updating>>

\* open() that succeeds: setupClock(), whose base time is the moment of opening,
\* READY, PAUSED.  One that fails leaves what close() leaves.
UserOpen ==
  /\ ~updating
  /\ player' = [Reset(player) EXCEPT
                  !.pipe = Preroll(SetState(SetState(Launched, READY, TRUE),
                                            PAUSED, TRUE))]
  /\ wanted' = PAUSED
  /\ position' = PositionReset
  /\ UNCHANGED <<mLoop, updating>>

UserPlay ==
  /\ Call
  /\ player' \in ToState(player, PLAYING)
  /\ wanted' = PLAYING
  /\ UNCHANGED <<mLoop, updating, position>>

UserPause ==
  /\ Call
  /\ PausesStopped \/ wanted # READY
  /\ player' \in ToState(player, PAUSED)
  /\ wanted' = PAUSED
  /\ position' = IF \/ wanted = PLAYING /\ player.pipe.cur > READY
                    \/ position = None
                 THEN player'.mTime ELSE position
  /\ UNCHANGED <<mLoop, updating>>

UserStop ==
  /\ Call
  /\ player' \in Stop(player)
  /\ wanted' = READY
  /\ position' = 0
  /\ UNCHANGED <<mLoop, updating>>

UserReplay ==
  /\ Call
  /\ player' \in Replay(player)
  /\ wanted' = PLAYING
  /\ position' = 0
  /\ UNCHANGED <<mLoop, updating>>

UserSetTime(t) ==
  /\ Call
  /\ SeeksPaused \/ wanted = PLAYING
  /\ player' \in SetTime(player, t)
  /\ position' = t
  /\ UNCHANGED <<mLoop, updating, wanted>>

UserQueryState ==
  /\ Call
  /\ player' \in QueryState(player)
  /\ UNCHANGED <<mLoop, updating, history>>

UserSetLoop ==
  /\ ~updating
  /\ mLoop' = ~mLoop
  /\ UNCHANGED <<player, updating, history>>

UserCall ==
  \/ UserOpen \/ UserClose
  \/ UserPlay \/ UserPause \/ UserStop \/ UserReplay
  \/ \E t \in Times : UserSetTime(t)
  \/ UserQueryState \/ UserSetLoop

-----------------------------------------------------------------------------
(* onBeforeUpdate() and the loop of Player::update()                       *)

\* Mutant: the counter is not reset.
HeartbeatOnAndOn(p) ==
  IF p.mHeartbeatCounter > HeartbeatFrequency THEN GetTime(p) ELSE {p}

Heartbeat(p) ==
  IF p.mHeartbeatCounter > HeartbeatFrequency
  THEN {[q EXCEPT !.mHeartbeatCounter = 0] : q \in GetTime(p)}
  ELSE {p}

\* Mutant: the base time is computed and not set.
MovedNot(p) == {p.origin}

\* Line 141 converts how far the media is past the position sought.  That is
\* negative if it is not there yet, and then undefined in C++.  Of a media that
\* is not put back to PLAYING the clock leaves the base time behind.
Moved(p) ==
  IF p.mPendingState = PLAYING
  THEN {p.mPendingSeek}
         \union {o \in {p.origin} : /\ ~ConversionWraps
                                   /\ p.mPendingSeek > 0
                                   /\ p.mPendingSeek > o}
  ELSE {None}

\* Mutant: the old state is not restored.
ApplySeekPaused(p) ==
  {[p EXCEPT !.origin = o,
             !.pipe = SetState(@, PAUSED, TRUE),
             !.mPendingSeek = None,
             !.mPendingState = NULL] : o \in Moved(p)}

\* Mutant: the seek stays pending.
ApplySeekAgain(p) ==
  {[p EXCEPT !.origin = o,
             !.pipe = SetState(@, p.mPendingState, TRUE)] : o \in Moved(p)}

\* The pipeline is in READY, says the cached state: move its base time and
\* restore its old state.
ApplySeek(p) ==
  {[p EXCEPT !.origin = o,
             !.pipe = SetState(@, p.mPendingState, TRUE),
             !.mPendingSeek = None,
             !.mPendingState = NULL] : o \in Moved(p)}

\* Mutant: the pipeline is not taken down first.
PendingSeekAtOnce(p) == IF p.mPendingSeek < 0 THEN {p} ELSE ApplySeek(p)

PendingSeek(p) ==
  CASE p.mPendingSeek < 0    -> {p}
    [] p.mPendingSeek >= 0 /\ p.mState # READY ->
         {[p EXCEPT !.pipe = SetState(@, READY, TRUE)]}
    [] OTHER                 -> ApplySeek(p)

UpdateBegin ==
  /\ ~updating
  /\ Opened
  /\ updating' = TRUE
  /\ \E p \in Heartbeat(player) :
       \E q \in PendingSeek(p) :
         player' = [q EXCEPT !.mHeartbeatCounter = @ + 1]
  /\ UNCHANGED <<mLoop, history>>

UpdateEnd ==
  /\ updating
  /\ player.pipe.bus = <<>>
  /\ updating' = FALSE
  /\ UNCHANGED <<player, mLoop, history>>

Popped(type) ==
  /\ updating
  /\ player.pipe.bus # <<>>
  /\ Head(player.pipe.bus).type = type

Rest == [player EXCEPT !.pipe = Pop(@)]

\* Mutant: the new state of the message is not noted, only compared.
HandleStateChangedCompared ==
  /\ Popped("state_changed")
  /\ player' \in IF Head(player.pipe.bus).old # player.mState
                 THEN OnStateChanged(Rest) ELSE {Rest}
  /\ UNCHANGED <<mLoop, updating, history>>

HandleStateChanged ==
  /\ Popped("state_changed")
  /\ LET msg == Head(player.pipe.bus)
         p == [Rest EXCEPT !.mState = msg.new]
     IN  player' \in IF msg.old # msg.new THEN OnStateChanged(p) ELSE {p}
  /\ UNCHANGED <<mLoop, updating, history>>

\* Player::update calls setTime for a pending seek, and the override answers.
HandleAsyncDone ==
  /\ Popped("async_done")
  /\ player' \in IF player.mPendingSeek >= 0
                 THEN SetTime(Rest, player.mPendingSeek) ELSE {Rest}
  /\ UNCHANGED <<mLoop, updating, history>>

HandleEos ==
  /\ Popped("eos")
  /\ \/ /\ mLoop
        /\ player' \in Replay(Rest)
        /\ wanted' = PLAYING
        /\ position' = 0
     \/ /\ ~mLoop
        /\ player' \in ToState(Rest, PAUSED)
        /\ wanted' = PAUSED
        /\ position' = player'.mTime
  /\ UNCHANGED <<mLoop, updating>>

Handle == HandleStateChanged \/ HandleAsyncDone \/ HandleEos
Update == UpdateBegin \/ Handle \/ UpdateEnd

-----------------------------------------------------------------------------
(* The pipeline by itself                                                  *)

PipelineGoes(can, next) ==
  /\ Opened
  /\ can
  /\ player' = [player EXCEPT !.pipe = next]
  /\ UNCHANGED <<mLoop, updating, history>>

PipelinePrerolls == PipelineGoes(CanPreroll(player.pipe), Preroll(player.pipe))
PipelineAdvances == PipelineGoes(CanAdvance(player.pipe), Advance(player.pipe))
PipelineEnds ==
  PipelineGoes(MayEnd /\ CanEnd(player.pipe), End(player.pipe))

Next ==
  \/ UserCall
  \/ Update
  \/ PipelinePrerolls \/ PipelineAdvances \/ PipelineEnds

\* As for Player.
Fairness ==
  /\ WF_vars(UpdateEnd)
  /\ WF_vars(Handle)
  /\ SF_vars(UpdateBegin)
  /\ WF_vars(PipelinePrerolls)
  /\ SF_vars(PipelineAdvances)

SafeSpec == Init /\ [][Next]_vars
Spec == SafeSpec /\ Fairness

-----------------------------------------------------------------------------
(* Properties                                                              *)

TypeOK ==
  /\ player \in
       [pipe : Pipelines \union {NoPipeline}, mState : States, mTime : Times,
        mPendingSeek : Times \union {None}, mPendingState : States,
        mPendingStateSeek : Times \union {None},
        mHeartbeatCounter : 0 .. HeartbeatFrequency + 1,
        origin : Times \union {None}]
  /\ mLoop \in BOOLEAN
  /\ updating \in BOOLEAN
  /\ wanted \in States
  /\ position \in Times \union {None}

(* Once the bus is read to its end and nothing changes, the cached state   *)
(* is the actual one, whoever called setTime or setState from inside       *)
(* update().  So a media that was taken down for a seek is known to be in  *)
(* READY at the next update(), which carries the seek out                  *)
(* (nsvr_player_server.cpp:130-137).                                       *)
StateSettles ==
  (/\ Opened
   /\ player.pipe.bus = <<>>
   /\ ~player.pipe.prerolling
   /\ player.pipe.cur # NULL) => player.mState = player.pipe.cur

(* A network seek ends where it began: when nothing is left to do, the     *)
(* pipeline is in the state the user asked for last, READY, PAUSED or      *)
(* PLAYING (nsvr_player_server.cpp:145).                                   *)
StateRestored == Opened /\ Settled(player) => player.pipe.tgt = wanted

(* The base time is moved only while the pipeline is down                  *)
(* (nsvr_player_server.cpp:132-143): a running pipeline has told it to its *)
(* elements already.                                                       *)
MovedAtRest ==
  [][UpdateBegin /\ player.mPendingSeek >= 0 /\ player'.mPendingSeek < 0
       => player.pipe.cur <= READY]_vars

(* A media that plays, plays from where the user asked for last, by a seek *)
(* or by pausing there or by stopping: "resumes playback from its current  *)
(* time" and "stops playback (setting time to 0)", nsvr_player.hpp:42-45.  *)
(* A later media begins at 0.  Of the first one nothing is said before it  *)
(* is paused, stopped or sought: its base time is the moment of opening,   *)
(* and play() makes no seek (nsvr_player_server.cpp:15, 56-61, 75).        *)
PlaysWhereAsked ==
  (Opened /\ Settled(player) /\ wanted = PLAYING /\ position # None)
    => player.origin = position

(* The state and the place the media is to come to are at any moment in    *)
(* the fields of the player, and only the user's calls change them: taking *)
(* the pipeline down, moving its base time, restoring its state and every  *)
(* message handled meanwhile keep both (nsvr_player_server.cpp:39-145).    *)
Goal ==
  CASE ~Opened                              -> NULL
    [] Opened /\ player.mPendingSeek >= 0   -> player.mPendingState
    [] OTHER                                -> player.pipe.tgt

Place ==
  CASE player.mPendingSeek >= 0          -> player.mPendingSeek
    [] /\ player.mPendingSeek < 0
       /\ player.mPendingStateSeek >= 0  -> player.mPendingStateSeek
    [] OTHER                             -> player.origin

Intended == INSTANCE Playback
              WITH state <- Goal, place <- Place,
                   Positions <- Times, Beginning <- 0, Nowhere <- None,
                   Closed <- NULL, Stopped <- READY,
                   Paused <- PAUSED, Playing <- PLAYING
ImplementsPlayback == Intended!Spec

(* Whatever seeks, stops, loops and late answers have come to overlap, the *)
(* pending seek is carried out, or the media closed, once the user leaves  *)
(* the player alone and the media runs on without ending again.            *)
SeekApplied ==
  <>[][~UserCall /\ ~PipelineEnds]_vars
    => (player.mPendingSeek >= 0 ~> player.mPendingSeek < 0)

=============================================================================
