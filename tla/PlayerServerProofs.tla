------------------------- MODULE PlayerServerProofs -------------------------
(***************************************************************************)
(* What holds of PlayerServer for any media, heartbeats and bus: its types *)
(* whatever its user does; and, if the user waits for each change to end   *)
(* and the media goes on, that its base time moves at rest, that a seek    *)
(* comes back to the state it began in, and that a media of which a place  *)
(* was asked plays from there.                                             *)
(***************************************************************************)
EXTENDS PlayerServer, PipelineProofs

\* A player with a media open.
Rec ==
  [pipe : Pipelines, mState : States, mTime : Times,
   mPendingSeek : Times \union {None}, mPendingState : States,
   mPendingStateSeek : Times \union {None},
   mHeartbeatCounter : 0 .. HeartbeatFrequency + 1,
   origin : Times \union {None}]

Typed(p) == p \in Rec /\ p.pipe.pos \in Times

LEMMA Facts ==
  /\ {NULL, READY, PAUSED, PLAYING} \subseteq States
  /\ TRUE \in BOOLEAN /\ FALSE \in BOOLEAN
  /\ 0 \in Times /\ Times \subseteq Nat /\ None \notin Times
  /\ NoPipeline \notin Pipelines /\ NoPipeline.bus = <<>>
  /\ NoPipeline.cur <= READY
<1>1. /\ {NULL, READY, PAUSED, PLAYING} \subseteq States
      /\ VOID \notin States /\ VOID <= READY
  BY DEF States, VOID, NULL, READY, PAUSED, PLAYING
<1>2. 0 \in Times /\ Times \subseteq Nat /\ None \notin Times
  BY ConstantsAssumption DEF Times, None
<1>3. NoPipeline.cur = VOID /\ NoPipeline.bus = <<>>
  BY DEF NoPipeline, Launched
<1>4. NoPipeline \notin Pipelines
  BY <1>1, <1>3 DEF Pipelines
<1> QED
  BY <1>1, <1>2, <1>3, <1>4

-----------------------------------------------------------------------------
(* The records the operators of PlayerServer return                        *)

Queried(p, r) == [p EXCEPT !.pipe = r, !.mState = r.cur]
Asking(p, t) == [p EXCEPT !.mPendingSeek = t, !.mPendingState = p.mState]
Noted(p, t) == [p EXCEPT !.mPendingStateSeek = t]
Timed(p, t) == [p EXCEPT !.mTime = t]

\* The pipeline that setState() leaves, and the player with it.
SetTo(b, s, held) ==
  [SetState(b.pipe, s, held) EXCEPT
     !.pos = IF s = PAUSED /\ b.pipe.cur = PLAYING THEN b.mTime ELSE @]
With(b, pipe) == [b EXCEPT !.pipe = pipe]

\* Nothing of what a seek goes back to, or comes from, is touched.
SameGoal(q, p) ==
  /\ q.mPendingState = p.mPendingState
  /\ q.mPendingStateSeek = p.mPendingStateSeek
  /\ q.origin = p.origin

LEMMA QueryStateIs ==
  \A p : QueryState(p) = {Queried(p, r) : r \in Awaited(p.pipe)}
  BY DEF QueryState, Queried

LEMMA SetTimeIs ==
  \A p, t : SetTime(p, t) = {Asking(r, t) : r \in QueryState(p)}
  BY DEF SetTime, Asking

LEMMA GetTimeIs ==
  \A p : GetTime(p) = {Timed(p, t) : t \in
           IF p.pipe.cur <= READY THEN {p.mTime}
           ELSE IF p.pipe.tgt = PLAYING THEN Times ELSE {p.pipe.pos}}
  BY DEF GetTime, Timed

\* What setState() starts from: a base time left behind, a position noted.
Left(p) == [p EXCEPT !.origin = None]
Before(p, s) == OnBeforeSetState(LeftBehind(p, s), s)

LEMMA BeforeIs ==
  \A p, s : Before(p, s) =
    CASE s = NULL    -> {Noted(Left(p), 0)}
      [] s = PAUSED  -> {Noted(q, q.mTime) : q \in GetTime(Left(p))}
      [] s = PLAYING -> {p}
      [] OTHER       -> {Left(p)}
<1> TAKE p, s
<1>1. NULL # PAUSED /\ NULL # PLAYING /\ PAUSED # PLAYING
  BY DEF NULL, PAUSED, PLAYING
<1>2. LeftBehind(p, s) = IF s = PLAYING THEN p ELSE Left(p)
  BY DEF LeftBehind, Left
<1>3. CASE s = NULL
  BY <1>1, <1>2, <1>3 DEF Before, OnBeforeSetState, Noted
<1>4. CASE s = PAUSED
  BY <1>1, <1>2, <1>4 DEF Before, OnBeforeSetState, Noted
<1>5. CASE s \notin {NULL, PAUSED}
  BY <1>1, <1>2, <1>5 DEF Before, OnBeforeSetState
<1> QED
  BY <1>3, <1>4, <1>5

\* What the comparison of the state leads to.
Answered(r) ==
  IF r.mState = PLAYING /\ r.mPendingStateSeek >= 0
  THEN {Noted(u, None) : u \in SetTime(r, r.mPendingStateSeek)}
  ELSE {r}

LEMMA OnStateChangedIs ==
  \A p : OnStateChanged(p) = UNION {Answered(r) : r \in QueryState(p)}
  BY DEF OnStateChanged, Answered, Noted

\* What a change of the state leads to.
Reached(b, pipe) ==
  IF Succeeded(pipe) THEN OnStateChanged(With(b, pipe)) ELSE {With(b, pipe)}

LEMMA ToStateIs ==
  \A p, s : ToState(p, s) =
    UNION {Reached(b, SetTo(b, s, held)) : b \in Before(p, s),
                                           held \in BOOLEAN}
  BY DEF ToState, Reached, With, SetTo, Before

-----------------------------------------------------------------------------
(* Types                                                                   *)

LEMMA QueriedTyped ==
  ASSUME NEW p, Typed(p), NEW r \in Pipelines, r.pos \in Times
  PROVE  /\ Typed(Queried(p, r))
         /\ Queried(p, r).pipe = r
         /\ Queried(p, r).mState = r.cur
         /\ Queried(p, r).mPendingSeek = p.mPendingSeek
         /\ Queried(p, r).mPendingStateSeek = p.mPendingStateSeek
         /\ Queried(p, r).mTime = p.mTime
         /\ SameGoal(Queried(p, r), p)
  BY DEF Queried, Typed, Rec, Pipelines, SameGoal

LEMMA AskingTyped ==
  ASSUME NEW p, Typed(p), NEW t \in Times
  PROVE  /\ Typed(Asking(p, t))
         /\ Asking(p, t).pipe = p.pipe
         /\ Asking(p, t).mState = p.mState
         /\ Asking(p, t).mPendingSeek = t
         /\ Asking(p, t).mPendingState = p.mState
         /\ Asking(p, t).mPendingStateSeek = p.mPendingStateSeek
         /\ Asking(p, t).mTime = p.mTime
         /\ Asking(p, t).origin = p.origin
  BY DEF Asking, Typed, Rec

LEMMA NotedTyped ==
  ASSUME NEW p, Typed(p), NEW t \in Times \union {None}
  PROVE  /\ Typed(Noted(p, t))
         /\ Noted(p, t).pipe = p.pipe
         /\ Noted(p, t).mState = p.mState
         /\ Noted(p, t).mPendingSeek = p.mPendingSeek
         /\ Noted(p, t).mPendingState = p.mPendingState
         /\ Noted(p, t).mPendingStateSeek = t
         /\ Noted(p, t).mTime = p.mTime
         /\ Noted(p, t).origin = p.origin
  BY DEF Noted, Typed, Rec

LEMMA TimedTyped ==
  ASSUME NEW p, Typed(p), NEW t \in Times
  PROVE  /\ Typed(Timed(p, t))
         /\ Timed(p, t).pipe = p.pipe
         /\ Timed(p, t).mState = p.mState
         /\ Timed(p, t).mPendingSeek = p.mPendingSeek
         /\ Timed(p, t).mTime = t
         /\ SameGoal(Timed(p, t), p)
  BY DEF Timed, Typed, Rec, SameGoal

LEMMA WithTyped ==
  ASSUME NEW p, Typed(p), NEW r \in Pipelines, r.pos \in Times
  PROVE  /\ Typed(With(p, r))
         /\ With(p, r).pipe = r
         /\ With(p, r).mState = p.mState
         /\ With(p, r).mPendingSeek = p.mPendingSeek
         /\ With(p, r).mTime = p.mTime
         /\ SameGoal(With(p, r), p)
  BY DEF With, Typed, Rec, SameGoal

LEMMA PipeTyped ==
  ASSUME NEW p, Typed(p)
  PROVE  p.pipe \in Pipelines /\ p.pipe.pos \in Times /\ p.mTime \in Times
  BY DEF Typed, Rec

LEMMA QueryStateTyped ==
  ASSUME NEW p, Typed(p), NEW q \in QueryState(p)
  PROVE  /\ Typed(q) /\ q.mState = q.pipe.cur
         /\ q.pipe \in Awaited(p.pipe)
         /\ q.mPendingSeek = p.mPendingSeek
         /\ q.mPendingStateSeek = p.mPendingStateSeek
         /\ q.mTime = p.mTime /\ SameGoal(q, p)
<1>1. PICK r \in Awaited(p.pipe) : q = Queried(p, r)
  BY QueryStateIs
<1>2. r \in Pipelines /\ r.pos \in Times
  BY PipeTyped, AwaitedType, AwaitedPos
<1> QED
  BY <1>1, <1>2, QueriedTyped

LEMMA GetTimeTyped ==
  ASSUME NEW p, Typed(p), NEW q \in GetTime(p)
  PROVE  /\ Typed(q) /\ q.pipe = p.pipe /\ q.mState = p.mState
         /\ q.mPendingSeek = p.mPendingSeek /\ SameGoal(q, p)
<1>1. PICK t \in Times : q = Timed(p, t)
  BY PipeTyped, GetTimeIs
<1> QED
  BY <1>1, TimedTyped

LEMMA SetTimeTyped ==
  ASSUME NEW p, Typed(p), NEW t \in Times, NEW q \in SetTime(p, t)
  PROVE  /\ Typed(q) /\ q.mState = q.pipe.cur
         /\ q.pipe \in Awaited(p.pipe) /\ q.mPendingSeek = t
<1>1. PICK r \in QueryState(p) : q = Asking(r, t)
  BY SetTimeIs
<1> QED
  BY <1>1, QueryStateTyped, AskingTyped

LEMMA LeftTyped ==
  ASSUME NEW p, Typed(p)
  PROVE  /\ Typed(Left(p))
         /\ Left(p).pipe = p.pipe /\ Left(p).mState = p.mState
         /\ Left(p).mTime = p.mTime
         /\ Left(p).mPendingSeek = p.mPendingSeek
         /\ Left(p).mPendingState = p.mPendingState
         /\ Left(p).mPendingStateSeek = p.mPendingStateSeek
  BY DEF Left, Typed, Rec

\* It notes a position, leaves the base time behind, and touches nothing else
\* but the time last answered.
LEMMA BeforeTyped ==
  ASSUME NEW p, Typed(p), NEW s, NEW q \in Before(p, s)
  PROVE  /\ Typed(q) /\ q.pipe = p.pipe /\ q.mState = p.mState
         /\ q.mPendingSeek = p.mPendingSeek
<1>1. CASE s = NULL
  <2>1. q = Noted(Left(p), 0)
    BY <1>1, BeforeIs DEF NULL, PAUSED, PLAYING
  <2> QED
    BY <2>1, Facts, LeftTyped, NotedTyped
<1>2. CASE s # NULL /\ s = PAUSED
  <2>1. PICK r \in GetTime(Left(p)) : q = Noted(r, r.mTime)
    BY <1>2, BeforeIs DEF NULL, PAUSED, PLAYING
  <2> QED
    BY <2>1, LeftTyped, GetTimeTyped, PipeTyped, NotedTyped
<1>3. CASE s # NULL /\ s # PAUSED
  BY <1>3, BeforeIs, LeftTyped
<1> QED
  BY <1>1, <1>2, <1>3

\* Either the query is all, or a seek was noted and is asked for.
LEMMA OnStateChangedTyped ==
  ASSUME NEW p, Typed(p), NEW q \in OnStateChanged(p)
  PROVE  /\ Typed(q)
         /\ \/ q \in QueryState(p)
            \/ \E r \in QueryState(p), t \in Times :
                 /\ r.mState = PLAYING
                 /\ \E u \in SetTime(r, t) : q = Noted(u, None)
<1>1. PICK r \in QueryState(p) : q \in Answered(r)
  BY OnStateChangedIs
<1>2. Typed(r)
  BY QueryStateTyped
<1>3. CASE r.mState = PLAYING /\ r.mPendingStateSeek >= 0
  <2>1. r.mPendingStateSeek \in Times
    BY <1>2, <1>3 DEF Typed, Rec, None
  <2>2. PICK u \in SetTime(r, r.mPendingStateSeek) : q = Noted(u, None)
    BY <1>1, <1>3 DEF Answered
  <2>3. Typed(q)
    BY <1>2, <2>1, <2>2, SetTimeTyped, NotedTyped
  <2> QED
    BY <1>3, <2>1, <2>2, <2>3
<1>4. CASE ~(r.mState = PLAYING /\ r.mPendingStateSeek >= 0)
  BY <1>1, <1>2, <1>4 DEF Answered
<1> QED
  BY <1>3, <1>4

LEMMA SetToTyped ==
  ASSUME NEW b, Typed(b), NEW s \in States, NEW held \in BOOLEAN
  PROVE  LET p == SetTo(b, s, held)
             q == SetState(b.pipe, s, held)
         IN  /\ p \in Pipelines /\ p.pos \in Times
             /\ p.cur = q.cur /\ p.bus = q.bus /\ p.prerolling = q.prerolling
<1> DEFINE q == SetState(b.pipe, s, held)
<1>1. q \in Pipelines /\ q.pos \in Times
  BY PipeTyped, Facts, SetStateType, SetStatePos
<1>2. SetTo(b, s, held)
        = [q EXCEPT !.pos = IF s = PAUSED /\ b.pipe.cur = PLAYING
                            THEN b.mTime ELSE @]
  BY DEF SetTo
<1> HIDE DEF q
<1>3. b.mTime \in Times /\ Times \subseteq Nat
  BY PipeTyped, Facts
<1>4. /\ SetTo(b, s, held) \in Pipelines
      /\ SetTo(b, s, held).pos \in Times
      /\ SetTo(b, s, held).cur = q.cur /\ SetTo(b, s, held).bus = q.bus
      /\ SetTo(b, s, held).prerolling = q.prerolling
  BY <1>1, <1>2, <1>3 DEF Pipelines
<1> QED
  BY <1>4 DEF q

\* From p, by the pipeline of b, to a player that may look at its state.
LEMMA ToStateTyped ==
  ASSUME NEW p, Typed(p), NEW s \in States, NEW q \in ToState(p, s)
  PROVE  /\ Typed(q)
         /\ \E b \in Before(p, s), held \in BOOLEAN :
              /\ Typed(b) /\ b.pipe = p.pipe
              /\ b.mPendingSeek = p.mPendingSeek
              /\ Typed(With(b, SetTo(b, s, held)))
              /\ q \in Reached(b, SetTo(b, s, held))
<1>1. PICK b \in Before(p, s), held \in BOOLEAN :
        q \in Reached(b, SetTo(b, s, held))
  BY ToStateIs
<1> DEFINE pipe == SetTo(b, s, held)
<1>2. Typed(b) /\ b.pipe = p.pipe /\ b.mPendingSeek = p.mPendingSeek
  BY BeforeTyped
<1>3. Typed(With(b, pipe))
  BY <1>2, SetToTyped, WithTyped
<1>4. Typed(q)
  BY <1>1, <1>3, OnStateChangedTyped DEF Reached
<1> QED
  BY <1>1, <1>2, <1>3, <1>4

LEMMA StopTyped ==
  ASSUME NEW p, Typed(p)
  PROVE  \A q \in Stop(p) \union Replay(p) : Typed(q)
<1>1. \A r \in Stop(p) : Typed(r)
  BY Facts, ToStateTyped DEF Stop
<1>2. \A q \in Replay(p) : Typed(q)
  BY <1>1, Facts, ToStateTyped DEF Replay
<1> QED
  BY <1>1, <1>2

-----------------------------------------------------------------------------
(* Types of the variables                                                  *)

Inv ==
  /\ TypeOK
  /\ Opened => player.pipe.pos \in Times
  /\ updating => Opened
  /\ ~Opened => /\ wanted = NULL /\ player.mPendingSeek = None
                /\ player.mPendingStateSeek = position
                /\ position \in {0, None} /\ player.origin = None

LEMMA OpenedTyped == Inv /\ Opened => Typed(player)
  BY DEF Inv, TypeOK, Opened, Typed, Rec

\* A step to a player with a media open.
LEMMA TypedInv ==
  ASSUME Typed(player'), mLoop' \in BOOLEAN, updating' \in BOOLEAN,
         wanted' \in States, position' \in Times \union {None}
  PROVE  Inv'
  BY Facts DEF Inv, TypeOK, Opened, Typed, Rec

LEMMA InitInv == Init => Inv
<1> SUFFICES ASSUME Init PROVE Inv
  OBVIOUS
<1>1. 0 \in 0 .. HeartbeatFrequency + 1
  BY ConstantsAssumption
<1>2. Closed \in
        [pipe : Pipelines \union {NoPipeline}, mState : States, mTime : Times,
         mPendingSeek : Times \union {None}, mPendingState : States,
         mPendingStateSeek : Times \union {None},
         mHeartbeatCounter : 0 .. HeartbeatFrequency + 1,
         origin : Times \union {None}]
  BY <1>1, Facts DEF Closed
<1>3. /\ Closed.pipe = NoPipeline /\ Closed.mPendingSeek = None
      /\ Closed.mPendingStateSeek = None /\ Closed.origin = None
  BY DEF Closed
<1> QED
  BY <1>2, <1>3, Facts DEF Init, Inv, TypeOK, Opened

\* open(), on what close() leaves.
LEMMA OpenTyped ==
  ASSUME TypeOK, NEW pipe \in Pipelines, pipe.pos \in Times
  PROVE  LET q == [Reset(player) EXCEPT !.pipe = pipe]
         IN  /\ Typed(q) /\ q.pipe = pipe
             /\ q.mPendingSeek = None /\ q.origin = None
<1> DEFINE q == [Reset(player) EXCEPT !.pipe = pipe]
           note == IF player.pipe = NoPipeline
                   THEN player.mPendingStateSeek ELSE 0
<1>1. /\ note \in Times \union {None}
      /\ player.mPendingState \in States
      /\ player.mHeartbeatCounter \in 0 .. HeartbeatFrequency + 1
  BY Facts DEF TypeOK
<1>2. /\ q.pipe = pipe /\ q.mState = NULL /\ q.mTime = 0
      /\ q.mPendingSeek = None /\ q.mPendingState = player.mPendingState
      /\ q.mPendingStateSeek = note /\ q.origin = None
      /\ q.mHeartbeatCounter = player.mHeartbeatCounter
      /\ q = [pipe |-> q.pipe, mState |-> q.mState, mTime |-> q.mTime,
              mPendingSeek |-> q.mPendingSeek,
              mPendingState |-> q.mPendingState,
              mPendingStateSeek |-> q.mPendingStateSeek,
              mHeartbeatCounter |-> q.mHeartbeatCounter, origin |-> q.origin]
  <2> DEFINE fields == {"pipe", "mState", "mTime", "mPendingSeek",
                        "mPendingState", "mPendingStateSeek",
                        "mHeartbeatCounter", "origin"}
  <2>1. DOMAIN player = fields /\ player = [x \in fields |-> player[x]]
    BY DEF TypeOK
  <2>2. q = [[player EXCEPT
            !.pipe = NoPipeline, !.mState = NULL, !.mTime = 0,
            !.mPendingSeek = None, !.origin = None,
            !.mPendingStateSeek = note] EXCEPT !.pipe = pipe]
    BY DEF Reset
  <2> HIDE DEF note, q
  <2> QED
    BY <2>1, <2>2
<1> HIDE DEF q, note
<1>3. q \in Rec
  BY <1>1, <1>2, Facts DEF Rec
<1>4. /\ Typed(q) /\ q.pipe = pipe
      /\ q.mPendingSeek = None /\ q.origin = None
  BY <1>2, <1>3 DEF Typed
<1> QED
  BY <1>4 DEF q

LEMMA UserInv ==
  ASSUME Inv, UserCall
  PROVE  Inv'
<1>0. ASSUME Call PROVE Typed(player)
  BY <1>0, OpenedTyped DEF Call
<1>1. CASE UserClose
  <2>1. player' = Reset(player)
    BY <1>1 DEF UserClose
  <2>2. /\ Reset(player).pipe = NoPipeline
        /\ Reset(player).mPendingSeek = None /\ Reset(player).origin = None
        /\ Reset(player).mPendingStateSeek
             = IF Opened THEN 0 ELSE player.mPendingStateSeek
    BY DEF Reset, Inv, TypeOK, Opened
  <2>3. position' = player'.mPendingStateSeek /\ position' \in {0, None}
    BY <1>1, <2>1, <2>2 DEF UserClose, PositionReset, Inv
  <2>4. TypeOK'
    BY <1>1, <2>1, <2>3, Facts DEF UserClose, Reset, Inv, TypeOK
  <2> QED
    BY <1>1, <2>1, <2>2, <2>3, <2>4 DEF UserClose, Inv, Opened
<1>2. CASE UserOpen
  <2> DEFINE pipe == Preroll(SetState(SetState(Launched, READY, TRUE),
                                      PAUSED, TRUE))
  <2>1. Launched \in Pipelines /\ Launched.pos = 0
    BY Facts DEF Launched, Pipelines
  <2>2. /\ SetState(Launched, READY, TRUE) \in Pipelines
        /\ SetState(Launched, READY, TRUE).pos = 0
    BY <2>1, Facts, SetStateType, SetStatePos
  <2>3. pipe \in Pipelines /\ pipe.pos = 0
    <3> DEFINE up == SetState(SetState(Launched, READY, TRUE), PAUSED, TRUE)
    <3>1. up \in Pipelines
      BY <2>2, Facts, SetStateType
    <3>2. up.pos = 0
      BY <2>2, Facts, SetStatePos
    <3> HIDE DEF up
    <3>3. Preroll(up) \in Pipelines /\ Preroll(up).pos = 0
      BY <3>1, <3>2, PrerollType, StepPos
    <3> QED
      BY <3>3 DEF up
  <2>4. player' = [Reset(player) EXCEPT !.pipe = pipe]
    BY <1>2 DEF UserOpen
  <2> HIDE DEF pipe
  <2>5. Typed(player')
    BY <2>3, <2>4, OpenTyped, Facts DEF Inv
  <2>6. position' \in Times \union {None}
    BY <1>2, Facts DEF UserOpen, PositionReset, Inv, TypeOK
  <2> QED
    BY <1>2, <2>5, <2>6, TypedInv, Facts DEF UserOpen, Inv, TypeOK
<1>3. CASE UserPlay
  <2>1. Typed(player')
    BY <1>0, <1>3, Facts, ToStateTyped DEF UserPlay
  <2> QED
    BY <1>3, <2>1, TypedInv, Facts DEF UserPlay, Inv, TypeOK
<1>4. CASE UserPause
  <2>1. Typed(player')
    BY <1>0, <1>4, Facts, ToStateTyped DEF UserPause
  <2>2. position' \in Times \union {None}
    BY <1>4, <2>1, PipeTyped DEF UserPause, Inv, TypeOK
  <2> QED
    BY <1>4, <2>1, <2>2, TypedInv, Facts DEF UserPause, Inv, TypeOK
<1>5. CASE UserStop \/ UserReplay
  <2>1. Typed(player')
    BY <1>0, <1>5, StopTyped DEF UserStop, UserReplay
  <2> QED
    BY <1>5, <2>1, TypedInv, Facts DEF UserStop, UserReplay, Inv, TypeOK
<1>6. ASSUME NEW t \in Times, UserSetTime(t) PROVE Inv'
  <2>1. Typed(player')
    BY <1>0, <1>6, SetTimeTyped DEF UserSetTime
  <2> QED
    BY <1>6, <2>1, TypedInv DEF UserSetTime, Inv, TypeOK
<1>7. CASE UserQueryState
  <2>1. Typed(player')
    BY <1>0, <1>7, QueryStateTyped DEF UserQueryState
  <2> QED
    BY <1>7, <2>1, TypedInv DEF UserQueryState, history, Inv, TypeOK
<1>8. CASE UserSetLoop
  BY <1>8 DEF UserSetLoop, history, Inv, TypeOK, Opened
<1> QED
  BY <1>1, <1>2, <1>3, <1>4, <1>5, <1>6, <1>7, <1>8 DEF UserCall

-----------------------------------------------------------------------------
(* onBeforeUpdate()                                                        *)

Beaten(p) == [p EXCEPT !.mHeartbeatCounter = 0]
Counted(p) == [p EXCEPT !.mHeartbeatCounter = @ + 1]
Applied(p, o) ==
  [p EXCEPT !.origin = o, !.pipe = SetState(@, p.mPendingState, TRUE),
            !.mPendingSeek = None, !.mPendingState = NULL]

LEMMA HeartbeatTyped ==
  ASSUME NEW p, Typed(p), NEW q \in Heartbeat(p)
  PROVE  /\ Typed(q) /\ q.mHeartbeatCounter \in 0 .. HeartbeatFrequency
         /\ q.pipe = p.pipe /\ q.mState = p.mState
         /\ q.mPendingSeek = p.mPendingSeek /\ SameGoal(q, p)
<1>0. /\ p.mHeartbeatCounter \in 0 .. HeartbeatFrequency + 1
      /\ HeartbeatFrequency \in Nat
  BY ConstantsAssumption DEF Typed, Rec
<1>1. CASE p.mHeartbeatCounter > HeartbeatFrequency
  <2>1. PICK r \in GetTime(p) : q = Beaten(r)
    BY <1>1 DEF Heartbeat, Beaten
  <2>2. /\ Typed(r) /\ r.pipe = p.pipe /\ r.mState = p.mState
        /\ r.mPendingSeek = p.mPendingSeek /\ SameGoal(r, p)
    BY GetTimeTyped
  <2> QED
    BY <1>0, <2>1, <2>2 DEF Beaten, Typed, Rec, SameGoal
<1>2. CASE ~(p.mHeartbeatCounter > HeartbeatFrequency)
  BY <1>0, <1>2 DEF Heartbeat, SameGoal
<1> QED
  BY <1>1, <1>2

LEMMA CountedTyped ==
  ASSUME NEW p, Typed(p), p.mHeartbeatCounter \in 0 .. HeartbeatFrequency
  PROVE  /\ Typed(Counted(p))
         /\ Counted(p).pipe = p.pipe /\ Counted(p).mState = p.mState
         /\ Counted(p).mPendingSeek = p.mPendingSeek
         /\ SameGoal(Counted(p), p)
<1>1. p.mHeartbeatCounter + 1 \in 0 .. HeartbeatFrequency + 1
  BY ConstantsAssumption
<1> QED
  BY <1>1 DEF Counted, Typed, Rec, SameGoal

LEMMA AppliedTyped ==
  ASSUME NEW p, Typed(p), NEW o \in Times \union {None}
  PROVE  /\ Typed(Applied(p, o))
         /\ Applied(p, o).mHeartbeatCounter = p.mHeartbeatCounter
         /\ Applied(p, o).pipe = SetState(p.pipe, p.mPendingState, TRUE)
         /\ Applied(p, o).mPendingSeek = None
         /\ Applied(p, o).mPendingStateSeek = p.mPendingStateSeek
         /\ Applied(p, o).origin = o
<1> DEFINE r == SetState(p.pipe, p.mPendingState, TRUE)
<1>1. p.mPendingState \in States
  BY DEF Typed, Rec
<1>2. r \in Pipelines /\ r.pos \in Times
  BY <1>1, PipeTyped, Facts, SetStateType, SetStatePos
<1>3. Applied(p, o) = [p EXCEPT !.origin = o, !.pipe = r,
                                !.mPendingSeek = None, !.mPendingState = NULL]
  BY DEF Applied, Typed, Rec
<1> HIDE DEF r
<1>4. /\ Typed(Applied(p, o))
      /\ Applied(p, o).mHeartbeatCounter = p.mHeartbeatCounter
      /\ Applied(p, o).pipe = r
      /\ Applied(p, o).mPendingSeek = None
      /\ Applied(p, o).mPendingStateSeek = p.mPendingStateSeek
      /\ Applied(p, o).origin = o
  BY <1>2, <1>3, Facts DEF Typed, Rec
<1> QED
  BY <1>4 DEF r

\* Nothing is pending; or the pipeline is taken down; or the base time moves.
LEMMA PendingSeekIs ==
  ASSUME NEW p, p.mPendingSeek \in Int
  PROVE  /\ p.mPendingSeek < 0 => PendingSeek(p) = {p}
         /\ p.mPendingSeek >= 0 /\ p.mState # READY
              => PendingSeek(p) = {With(p, SetState(p.pipe, READY, TRUE))}
         /\ p.mPendingSeek >= 0 /\ p.mState = READY
              => PendingSeek(p) = ApplySeek(p)
<1>1. p.mPendingSeek < 0 <=> ~(p.mPendingSeek >= 0)
  OBVIOUS
<1>2. ASSUME p.mPendingSeek < 0 PROVE PendingSeek(p) = {p}
  BY <1>1, <1>2 DEF PendingSeek
<1>3. ASSUME p.mPendingSeek >= 0, p.mState # READY
      PROVE  PendingSeek(p) = {With(p, SetState(p.pipe, READY, TRUE))}
  BY <1>1, <1>3 DEF PendingSeek, With
<1>4. ASSUME p.mPendingSeek >= 0, p.mState = READY
      PROVE  PendingSeek(p) = ApplySeek(p)
  BY <1>1, <1>4 DEF PendingSeek
<1> QED
  BY <1>2, <1>3, <1>4

LEMMA PendingSeekTyped ==
  ASSUME NEW p, Typed(p), NEW q \in PendingSeek(p)
  PROVE  /\ Typed(q) /\ q.mHeartbeatCounter = p.mHeartbeatCounter
         /\ \/ p.mPendingSeek < 0 /\ q = p
            \/ /\ p.mPendingSeek >= 0 /\ p.mState # READY
               /\ q.pipe = SetState(p.pipe, READY, TRUE)
               /\ q.mState = p.mState /\ q.mPendingSeek = p.mPendingSeek
               /\ SameGoal(q, p)
            \/ /\ p.mPendingSeek >= 0 /\ p.mState = READY
               /\ q.pipe = SetState(p.pipe, p.mPendingState, TRUE)
               /\ q.mPendingSeek = None /\ q.origin \in Moved(p)
               /\ q.mPendingStateSeek = p.mPendingStateSeek
<1>0. /\ p.mPendingSeek \in Times \union {None} /\ p.mPendingSeek \in Int
      /\ p.origin \in Times \union {None}
  <2>1. /\ p.mPendingSeek \in Times \union {None}
        /\ p.origin \in Times \union {None}
    BY DEF Typed, Rec
  <2>2. Times \subseteq Int /\ None \in Int
    BY Facts DEF None
  <2> QED
    BY <2>1, <2>2
<1>1. CASE p.mPendingSeek < 0
  <2>1. q = p
    BY <1>0, <1>1, PendingSeekIs
  <2> QED
    BY <1>1, <2>1
<1>2. CASE p.mPendingSeek >= 0 /\ p.mState # READY
  <2> DEFINE r == SetState(p.pipe, READY, TRUE)
  <2>1. q = With(p, r)
    BY <1>0, <1>2, PendingSeekIs
  <2>2. r \in Pipelines /\ r.pos \in Times
    BY PipeTyped, Facts, SetStateType, SetStatePos
  <2> HIDE DEF r
  <2>3. /\ Typed(With(p, r)) /\ With(p, r).pipe = r
        /\ With(p, r).mState = p.mState
        /\ With(p, r).mPendingSeek = p.mPendingSeek
        /\ SameGoal(With(p, r), p)
    BY <2>2, WithTyped
  <2>4. With(p, r).mHeartbeatCounter = p.mHeartbeatCounter
    BY DEF With, Typed, Rec
  <2> QED
    BY <1>2, <2>1, <2>3, <2>4 DEF r
<1>3. CASE p.mPendingSeek >= 0 /\ p.mState = READY
  <2>1. q \in ApplySeek(p)
    BY <1>0, <1>3, PendingSeekIs
  <2>2. PICK o \in Moved(p) : q = Applied(p, o)
    BY <2>1 DEF ApplySeek, Applied
  <2>3. p.mPendingSeek \in Times
    BY <1>0, <1>3 DEF None
  <2>4. o \in Times \union {None}
    BY <1>0, <2>3 DEF Moved
  <2> QED
    BY <1>3, <2>2, <2>4, AppliedTyped
<1>4. p.mPendingSeek < 0 \/ p.mPendingSeek >= 0
  BY <1>0
<1> QED
  BY <1>1, <1>2, <1>3, <1>4

\* What an update begins with.
LEMMA UpdateBeginIs ==
  ASSUME Inv, UpdateBegin
  PROVE  \E p \in Heartbeat(player) : \E q \in PendingSeek(p) :
           /\ player' = Counted(q)
           /\ Typed(p) /\ Typed(q) /\ Typed(Counted(q))
           /\ p.pipe = player.pipe /\ p.mState = player.mState
           /\ p.mPendingSeek = player.mPendingSeek
           /\ player'.pipe = q.pipe /\ player'.mState = q.mState
           /\ player'.mPendingSeek = q.mPendingSeek
           /\ SameGoal(p, player) /\ SameGoal(player', q)
<1>1. PICK p \in Heartbeat(player) : \E q \in PendingSeek(p) :
        player' = Counted(q)
  BY DEF UpdateBegin, Counted
<1>2. PICK q \in PendingSeek(p) : player' = Counted(q)
  BY <1>1
<1>3. /\ Typed(p) /\ p.mHeartbeatCounter \in 0 .. HeartbeatFrequency
      /\ p.pipe = player.pipe /\ p.mState = player.mState
      /\ p.mPendingSeek = player.mPendingSeek /\ SameGoal(p, player)
  BY OpenedTyped, HeartbeatTyped DEF UpdateBegin
<1>4. Typed(q) /\ q.mHeartbeatCounter = p.mHeartbeatCounter
  BY <1>3, PendingSeekTyped
<1> QED
  BY <1>2, <1>3, <1>4, CountedTyped

-----------------------------------------------------------------------------
(* The messages, and the pipeline by itself                                *)

\* What is left when a message is popped.
LEMMA RestTyped ==
  ASSUME Inv, updating, player.pipe.bus # <<>>
  PROVE  /\ Typed(Rest) /\ Rest.pipe = Pop(player.pipe)
         /\ Rest.mState = player.mState
         /\ Rest.mPendingSeek = player.mPendingSeek
         /\ SameGoal(Rest, player)
         /\ Typed(player) /\ Head(player.pipe.bus) \in Messages
<1>1. Typed(player)
  BY OpenedTyped DEF Inv
<1>2. /\ Pop(player.pipe) \in Pipelines /\ Pop(player.pipe).pos \in Times
      /\ Head(player.pipe.bus) \in Messages
  BY <1>1, PipeTyped, PopType, StepPos
<1>3. Rest = With(player, Pop(player.pipe))
  BY DEF Rest, With
<1> QED
  BY <1>1, <1>2, <1>3, WithTyped

\* A message of a state change is noted, and compared if the state changed.
Told(p, s) == [p EXCEPT !.mState = s]

LEMMA ToldTyped ==
  ASSUME NEW p, Typed(p), NEW s \in States
  PROVE  /\ Typed(Told(p, s)) /\ Told(p, s).pipe = p.pipe
         /\ Told(p, s).mState = s
         /\ Told(p, s).mPendingSeek = p.mPendingSeek
         /\ SameGoal(Told(p, s), p)
  BY DEF Told, Typed, Rec, SameGoal

LEMMA HandleStateChangedIs ==
  ASSUME Inv, HandleStateChanged
  PROVE  \E msg \in Messages :
           /\ msg = Head(player.pipe.bus) /\ msg.type = "state_changed"
           /\ msg.old \in States /\ msg.new \in States
           /\ Typed(Told(Rest, msg.new))
           /\ player' \in IF msg.old # msg.new
                          THEN OnStateChanged(Told(Rest, msg.new))
                          ELSE {Told(Rest, msg.new)}
<1> DEFINE msg == Head(player.pipe.bus)
<1>1. /\ Typed(Rest) /\ msg \in Messages /\ msg.type = "state_changed"
  BY RestTyped DEF HandleStateChanged, Popped
<1>2. msg.old \in States /\ msg.new \in States
  <2>1. AsyncDone.type # "state_changed" /\ Eos.type # "state_changed"
        /\ DurationChanged.type # "state_changed"
    BY DEF AsyncDone, Eos, DurationChanged, Msg
  <2>2. PICK old \in States, new \in States : msg = StateMsg(old, new)
    BY <1>1, <2>1 DEF Messages
  <2> QED
    BY <2>2 DEF StateMsg
<1>3. player' \in IF msg.old # msg.new
                  THEN OnStateChanged(Told(Rest, msg.new))
                  ELSE {Told(Rest, msg.new)}
  BY DEF HandleStateChanged, Told
<1> HIDE DEF msg
<1>4. Typed(Told(Rest, msg.new))
  BY <1>1, <1>2, ToldTyped
<1> QED
  BY <1>1, <1>2, <1>3, <1>4 DEF msg

LEMMA UpdateInv ==
  ASSUME Inv, Update
  PROVE  Inv'
<1>1. CASE UpdateBegin
  <2>1. Typed(player')
    BY <1>1, UpdateBeginIs
  <2> QED
    BY <1>1, <2>1, TypedInv DEF UpdateBegin, history, Inv, TypeOK
<1>2. CASE UpdateEnd
  BY <1>2 DEF UpdateEnd, history, Inv, TypeOK, Opened
<1>3. CASE HandleStateChanged
  <2>1. Typed(player')
    BY <1>3, HandleStateChangedIs, OnStateChangedTyped
  <2> QED
    BY <1>3, <2>1, TypedInv
    DEF HandleStateChanged, history, Inv, TypeOK
<1>4. CASE HandleAsyncDone
  <2>1. Typed(Rest) /\ Typed(player)
    BY <1>4, RestTyped DEF HandleAsyncDone, Popped
  <2>2. player.mPendingSeek >= 0 => player.mPendingSeek \in Times
    BY <2>1 DEF Typed, Rec, None
  <2>3. Typed(player')
    BY <1>4, <2>1, <2>2, SetTimeTyped DEF HandleAsyncDone
  <2> QED
    BY <1>4, <2>3, TypedInv DEF HandleAsyncDone, history, Inv, TypeOK
<1>5. CASE HandleEos
  <2>1. Typed(Rest)
    BY <1>5, RestTyped DEF HandleEos, Popped
  <2>2. Typed(player') /\ wanted' \in States /\ position' \in Times
    <3>1. CASE mLoop
      BY <1>5, <2>1, <3>1, StopTyped, Facts DEF HandleEos
    <3>2. CASE ~mLoop
      <4>1. Typed(player')
        BY <1>5, <2>1, <3>2, ToStateTyped, Facts DEF HandleEos
      <4> QED
        BY <1>5, <3>2, <4>1, PipeTyped, Facts DEF HandleEos
    <3> QED
      BY <3>1, <3>2
  <2> QED
    BY <1>5, <2>2, TypedInv DEF HandleEos, Inv, TypeOK
<1> QED
  BY <1>1, <1>2, <1>3, <1>4, <1>5 DEF Update, Handle

\* The three steps of the pipeline.
LEMMA PipelineIs ==
  ASSUME Inv, PipelinePrerolls \/ PipelineAdvances \/ PipelineEnds
  PROVE  /\ Opened /\ Typed(player) /\ Typed(player')
         /\ \/ /\ CanPreroll(player.pipe)
               /\ player' = With(player, Preroll(player.pipe))
            \/ /\ CanAdvance(player.pipe)
               /\ player' = With(player, Advance(player.pipe))
            \/ MayEnd /\ player' = With(player, End(player.pipe))
         /\ UNCHANGED <<mLoop, updating, history>>
<1>1. Opened /\ UNCHANGED <<mLoop, updating, history>>
  BY DEF PipelinePrerolls, PipelineAdvances, PipelineEnds, PipelineGoes
<1>2. Typed(player)
  BY <1>1, OpenedTyped
<1>3. \/ /\ CanPreroll(player.pipe)
         /\ player' = With(player, Preroll(player.pipe))
      \/ /\ CanAdvance(player.pipe)
         /\ player' = With(player, Advance(player.pipe))
      \/ MayEnd /\ player' = With(player, End(player.pipe))
  BY DEF PipelinePrerolls, PipelineAdvances, PipelineEnds, PipelineGoes, With
<1>4. \A r \in {Preroll(player.pipe), Advance(player.pipe),
                End(player.pipe)} : r \in Pipelines /\ r.pos \in Times
  <2>1. player.pipe \in Pipelines /\ player.pipe.pos \in Times
    BY <1>2, PipeTyped
  <2>2. /\ Preroll(player.pipe) \in Pipelines
        /\ Advance(player.pipe) \in Pipelines
        /\ End(player.pipe) \in Pipelines
    BY <2>1, PrerollType, AdvanceType, EndType
  <2>3. /\ Preroll(player.pipe).pos \in Times
        /\ Advance(player.pipe).pos \in Times
        /\ End(player.pipe).pos \in Times
    BY <2>1, StepPos
  <2> QED
    BY <2>2, <2>3
<1>5. Typed(player')
  BY <1>2, <1>3, <1>4, WithTyped
<1> QED
  BY <1>1, <1>2, <1>3, <1>5

LEMMA StepInv ==
  ASSUME Inv, [Next]_vars
  PROVE  Inv'
<1>1. CASE PipelinePrerolls \/ PipelineAdvances \/ PipelineEnds
  <2>1. Typed(player') /\ UNCHANGED <<mLoop, updating, history>>
    BY <1>1, PipelineIs
  <2> QED
    BY <2>1, TypedInv DEF history, Inv, TypeOK
<1>2. CASE UNCHANGED vars
  BY <1>2 DEF vars, history, Inv, TypeOK, Opened
<1> QED
  BY <1>1, <1>2, UserInv, UpdateInv DEF Next

\* Every call, message and step of the pipeline leaves the pending seek, the
\* noted state and position, the counter of heartbeats and the base time
\* within their ranges (nsvr_player_server.cpp:92-151), whatever the user does.
THEOREM TypeCorrect == Spec => []TypeOK
<1>1. Inv => TypeOK
  BY DEF Inv
<1> QED
  BY InitInv, StepInv, <1>1, PTL DEF Spec, SafeSpec

-----------------------------------------------------------------------------
(* Which messages wait on the bus                                          *)

\* No message of a set is on the bus, from the nth on.
Free(bus, n, set) == \A i \in n .. Len(bus) : bus[i] \notin set

ReadySaid == {StateMsg(old, READY) : old \in States}

LEMMA FreeAppend ==
  ASSUME NEW bus \in Seq(Messages), NEW msg \in Messages, NEW set,
         msg \notin set, NEW n \in {1, 2}, Free(bus, n, set)
  PROVE  Free(Append(bus, msg), n, set)
<1> DEFINE longer == Append(bus, msg)
<1>1. /\ Len(longer) = Len(bus) + 1 /\ Len(bus) \in Nat
      /\ \A i \in 1 .. Len(bus) : longer[i] = bus[i]
      /\ longer[Len(bus) + 1] = msg
  OBVIOUS
<1> HIDE DEF longer
<1>2. ASSUME NEW i \in n .. Len(longer) PROVE longer[i] \notin set
  <2>1. i \in n .. Len(bus) \/ i = Len(bus) + 1
    BY <1>1
  <2> QED
    BY <1>1, <2>1 DEF Free
<1> QED
  BY <1>2 DEF Free, longer

LEMMA FreeTail ==
  ASSUME NEW bus \in Seq(Messages), bus # <<>>, NEW set, NEW n \in Nat,
         n >= 1, Free(bus, n, set) \/ Free(bus, n + 1, set)
  PROVE  Free(Tail(bus), n, set)
<1> DEFINE rest == Tail(bus)
<1>1. /\ Len(rest) = Len(bus) - 1 /\ Len(bus) \in Nat \ {0}
      /\ \A i \in 1 .. Len(rest) : rest[i] = bus[i + 1]
  OBVIOUS
<1> HIDE DEF rest
<1>2. ASSUME NEW i \in n .. Len(rest) PROVE rest[i] \notin set
  <2>1. i + 1 \in n + 1 .. Len(bus) /\ i + 1 \in n .. Len(bus)
    BY <1>1
  <2> QED
    BY <1>1, <2>1 DEF Free
<1> QED
  BY <1>2 DEF Free, rest

LEMMA FreeShort ==
  ASSUME NEW bus \in Seq(Messages), NEW set
  PROVE  /\ bus = <<>> => Free(bus, 1, set)
         /\ Free(bus, 1, set) => Free(bus, 2, set)
         /\ Len(bus) <= 1 => Free(bus, 2, set)
  BY DEF Free

LEMMA FreeHead ==
  ASSUME NEW bus \in Seq(Messages), NEW set, bus # <<>>, Free(bus, 1, set)
  PROVE  Head(bus) \notin set
  BY DEF Free

\* The sets in question, and the messages that are in neither.
Watched(set) == set = ReadySaid \/ set = {Eos}

LEMMA Others ==
  ASSUME NEW set, Watched(set)
  PROVE  /\ AsyncDone \in Messages \ set
         /\ \A old \in States, new \in States : new # READY =>
              StateMsg(old, new) \in Messages \ set
         /\ \A old \in States : StateMsg(old, READY) \in Messages \ {Eos}
<1> USE DEF StateMsg, AsyncDone, Eos, Msg
<1>1. /\ AsyncDone.type = "async_done" /\ Eos.type = "eos"
      /\ \A old, new \in States : /\ StateMsg(old, new).type = "state_changed"
                                /\ StateMsg(old, new).new = new
  OBVIOUS
<1> HIDE DEF StateMsg, AsyncDone, Eos, Msg
<1>2. READY \in States /\ AsyncDone \in Messages
  BY Facts DEF Messages
<1>3. \A old \in States, new \in States : StateMsg(old, new) \in Messages
  BY StateMsgType
<1>4. AsyncDone \notin ReadySaid /\ AsyncDone # Eos
  BY <1>1, <1>2 DEF ReadySaid
<1>5. \A old \in States, new \in States :
        /\ StateMsg(old, new) # Eos
        /\ new # READY => StateMsg(old, new) \notin ReadySaid
  BY <1>1, <1>2 DEF ReadySaid
<1> QED
  BY <1>2, <1>3, <1>4, <1>5 DEF Watched

LEMMA PrerollFree ==
  ASSUME NEW p \in Pipelines, NEW set, Watched(set), NEW n \in {1, 2},
         Free(p.bus, n, set)
  PROVE  Free(Preroll(p).bus, n, set)
<1> DEFINE first == StateMsg(p.cur, PAUSED)
<1>1. p.bus \in Seq(Messages) /\ p.cur \in States
  BY DEF Pipelines
<1>2. first \in Messages \ set /\ AsyncDone \in Messages \ set
  BY <1>1, Others, Facts DEF READY, PAUSED
<1> HIDE DEF first
<1> DEFINE longer == Append(p.bus, first)
<1>3. longer \in Seq(Messages) /\ Free(longer, n, set)
  BY <1>1, <1>2, FreeAppend
<1> HIDE DEF longer
<1>4. Free(Append(longer, AsyncDone), n, set)
  BY <1>2, <1>3, FreeAppend
<1> USE DEF longer
<1>5. Append(Append(p.bus, first), AsyncDone) = p.bus \o <<first, AsyncDone>>
  BY <1>1, <1>2
<1>6. Preroll(p).bus = p.bus \o <<first, AsyncDone>>
  BY DEF Preroll, Pipelines, first
<1> QED
  BY <1>4, <1>5, <1>6

LEMMA AdvanceFree ==
  ASSUME NEW p \in Pipelines, NEW set, Watched(set), NEW n \in {1, 2},
         Free(p.bus, n, set)
  PROVE  Free(Advance(p).bus, n, set)
<1>1. p.bus \in Seq(Messages)
  BY DEF Pipelines
<1>2. StateMsg(PAUSED, PLAYING) \in Messages \ set
  BY Others, Facts DEF READY, PLAYING
<1>3. Advance(p).bus = Append(p.bus, StateMsg(PAUSED, PLAYING))
  BY DEF Advance, Pipelines
<1> QED
  BY <1>1, <1>2, <1>3, FreeAppend

\* A wait says nothing of READY; at rest there is nothing to wait for.
LEMMA AwaitedFree ==
  ASSUME NEW p \in Pipelines, NEW q \in Awaited(p)
  PROVE  /\ Free(p.bus, 1, {Eos}) => Free(q.bus, 1, {Eos})
         /\ Free(p.bus, 1, ReadySaid) => Free(q.bus, 1, ReadySaid)
         /\ Free(p.bus, 2, ReadySaid) => Free(q.bus, 2, ReadySaid)
         /\ p.cur > READY => q.cur > READY
         /\ p.cur <= READY /\ ~p.prerolling => q = p
<1>1. \/ q = p
      \/ q = Preroll(p) /\ p.prerolling
      \/ q = Advance(Preroll(p)) /\ p.prerolling
      \/ q = Advance(p) /\ p.cur = PAUSED
  BY DEF Awaited, CanPreroll, CanAdvance
<1>2. Preroll(p) \in Pipelines
  BY PrerollType
<1>3. /\ Preroll(p).cur > READY /\ Advance(p).cur > READY
      /\ Advance(Preroll(p)).cur > READY
  BY <1>2 DEF Preroll, Advance, Pipelines, READY, PAUSED, PLAYING
<1>4. ASSUME NEW set, NEW n \in {1, 2}, Watched(set), Free(p.bus, n, set)
      PROVE  Free(q.bus, n, set)
  <2>1. Free(Preroll(p).bus, n, set) /\ Free(Advance(p).bus, n, set)
    BY <1>4, PrerollFree, AdvanceFree
  <2>2. Free(Advance(Preroll(p)).bus, n, set)
    BY <1>2, <1>4, <2>1, AdvanceFree
  <2> QED
    BY <1>1, <1>4, <2>1, <2>2
<1>5. p.cur <= READY /\ ~p.prerolling => q = p
  BY <1>1 DEF READY, PAUSED
<1>6. p.cur > READY => q.cur > READY
  BY <1>1, <1>3
<1>7. Watched({Eos}) /\ Watched(ReadySaid)
  BY DEF Watched
<1> QED
  BY <1>4, <1>5, <1>6, <1>7

\* The way down tells of nothing but changes of the state.
LEMMA DescentFree ==
  ASSUME NEW p \in Pipelines, NEW set, Free(p.bus, 1, set),
         \A old \in States, new \in States : StateMsg(old, new) \notin set
  PROVE  Free(p.bus \o Descent(p.cur), 1, set)
<1> DEFINE down == Descent(p.cur)
<1>1. p.bus \in Seq(Messages) /\ p.cur \in States /\ down \in Seq(Messages)
  BY DescentType DEF Pipelines
<1>2. \A i \in 1 .. Len(down) : down[i] \notin set
  <2>1. CASE p.cur = NULL
    BY <2>1, Facts DEF Descent
  <2>2. CASE p.cur # NULL
    <3>1. \A i \in 1 .. p.cur - READY :
            p.cur - i + 1 \in States /\ p.cur - i \in States
      BY <1>1, <2>2 DEF States, NULL, READY, PLAYING
    <3>2. p.cur - READY \in Nat
      BY <1>1, <2>2 DEF States, NULL, READY, PLAYING
    <3>3. down = [i \in 1 .. p.cur - READY |->
                    StateMsg(p.cur - i + 1, p.cur - i)]
      BY <2>2 DEF Descent
    <3>4. Len(down) = p.cur - READY
      BY <1>1, <3>2, <3>3
    <3>5. ASSUME NEW i \in 1 .. p.cur - READY PROVE down[i] \notin set
      BY <3>1, <3>3
    <3> QED
      BY <3>4, <3>5
  <2> QED
    BY <2>1, <2>2
<1> HIDE DEF down
<1>3. \A i \in 1 .. Len(p.bus \o down) :
        \/ i \in 1 .. Len(p.bus) /\ (p.bus \o down)[i] = p.bus[i]
        \/ /\ i - Len(p.bus) \in 1 .. Len(down)
           /\ (p.bus \o down)[i] = down[i - Len(p.bus)]
  BY <1>1
<1>4. Free(p.bus \o down, 1, set)
  BY <1>2, <1>3 DEF Free
<1> QED
  BY <1>4 DEF down

\* Down to READY or NULL: at once, and not to the end of the media.
LEMMA DownIs ==
  ASSUME NEW p \in Pipelines, NEW s \in {NULL, READY}, NEW held \in BOOLEAN,
         Free(p.bus, 1, {Eos})
  PROVE  LET q == SetState(p, s, held)
         IN  /\ q.cur = s /\ ~q.prerolling /\ Free(q.bus, 1, {Eos})
             /\ s = NULL => q.bus = <<>>
             /\ s = READY => q.bus = p.bus \o Descent(p.cur)
<1> DEFINE q == SetState(p, s, held)
<1>1. /\ q.cur = s /\ q.prerolling = FALSE
      /\ q.bus = IF s = NULL THEN <<>> ELSE p.bus \o Descent(p.cur)
  BY DEF SetState, Rewind, Pipelines, NULL, READY
<1>2. Free(p.bus \o Descent(p.cur), 1, {Eos})
  <2>1. \A old \in States, new \in States : StateMsg(old, new) \notin {Eos}
    BY DEF StateMsg, Eos, Msg
  <2> QED
    BY <2>1, DescentFree
<1>3. Free(<<>>, 1, {Eos})
  BY DEF Free
<1> HIDE DEF q
<1>5. READY # NULL
  BY DEF READY, NULL
<1>6. /\ q.cur = s /\ ~q.prerolling /\ Free(q.bus, 1, {Eos})
      /\ s = NULL => q.bus = <<>>
      /\ s = READY => q.bus = p.bus \o Descent(p.cur)
  BY <1>1, <1>2, <1>3, <1>5
<1> QED
  BY <1>6 DEF q

\* Up from READY or NULL the sinks are waited for; from above it is at once,
\* or they are waited for, and READY is not entered.
LEMMA UpIs ==
  ASSUME NEW p \in Pipelines, NEW s \in {PAUSED, PLAYING},
         NEW held \in BOOLEAN, Free(p.bus, 1, {Eos})
  PROVE  LET q == SetState(p, s, held)
         IN  /\ Free(q.bus, 1, {Eos})
             /\ p.cur = NULL =>
                  q.prerolling /\ q.bus = Append(p.bus, StateMsg(NULL, READY))
             /\ p.cur = READY => q.prerolling /\ q.bus = p.bus
             /\ p.cur > READY => q.cur > READY
             /\ p.cur > READY /\ Free(p.bus, 1, ReadySaid)
                  => Free(q.bus, 1, ReadySaid)
<1> DEFINE q == SetState(p, s, held)
<1> USE DEF NULL, READY, PAUSED, PLAYING
<1>1. p.bus \in Seq(Messages) /\ p.cur \in States
        /\ s \in States /\ s # READY
  BY Facts DEF Pipelines
<1>2. p.cur = NULL => /\ q.prerolling = TRUE
                      /\ q.bus = Append(p.bus, StateMsg(NULL, READY))
  BY DEF SetState, Start, Pipelines
<1>3. p.cur = READY => q.prerolling = TRUE /\ q.bus = p.bus
  BY DEF SetState, Start, Pipelines
<1>4. p.cur > READY => /\ q.cur > READY
                       /\ \/ q.bus = p.bus
                          \/ q.bus = Append(p.bus, StateMsg(p.cur, s))
  <2>1. p.cur > READY => q = Change(p, s, held)
    BY <1>1 DEF SetState, States
  <2>2. /\ Change(p, s, held).cur = p.cur \/ Change(p, s, held).cur = s
        /\ \/ Change(p, s, held).bus = p.bus
           \/ Change(p, s, held).bus = Append(p.bus, StateMsg(p.cur, s))
    BY DEF Change, Pipelines
  <2> QED
    BY <1>1, <2>1, <2>2
<1> HIDE DEF q
<1>5. ASSUME p.cur > READY, NEW set, NEW n \in {1, 2},
             Watched(set), Free(p.bus, n, set)
      PROVE  Free(q.bus, n, set)
  <2>1. StateMsg(p.cur, s) \in Messages \ set
    BY <1>1, <1>5, Others
  <2>2. Free(Append(p.bus, StateMsg(p.cur, s)), n, set)
    BY <1>1, <1>5, <2>1, FreeAppend
  <2> QED
    BY <1>4, <1>5, <2>2
<1>6. Watched({Eos}) /\ StateMsg(NULL, READY) \in Messages \ {Eos}
  BY Others, Facts DEF Watched
<1>7. Free(q.bus, 1, {Eos})
  <2>1. CASE p.cur = NULL
    <3>1. Free(Append(p.bus, StateMsg(NULL, READY)), 1, {Eos})
      BY <1>1, <1>6, FreeAppend
    <3> QED
      BY <1>2, <2>1, <3>1
  <2>2. CASE p.cur = READY
    BY <1>3, <2>2
  <2>3. CASE p.cur > READY
    BY <1>5, <1>6, <2>3
  <2> QED
    BY <1>1, <2>1, <2>2, <2>3 DEF States
<1>8. /\ Free(q.bus, 1, {Eos})
      /\ p.cur = NULL =>
           q.prerolling /\ q.bus = Append(p.bus, StateMsg(NULL, READY))
      /\ p.cur = READY => q.prerolling /\ q.bus = p.bus
      /\ p.cur > READY => q.cur > READY
      /\ p.cur > READY /\ Free(p.bus, 1, ReadySaid)
           => Free(q.bus, 1, ReadySaid)
  <2>1. Watched(ReadySaid)
    BY DEF Watched
  <2> QED
    BY <2>1, <1>2, <1>3, <1>4, <1>5, <1>7
<1> QED
  BY <1>8 DEF q

-----------------------------------------------------------------------------
(* The base time moves at rest, if the user waits and the media goes on    *)

NoEos(p) == Free(p.pipe.bus, 1, {Eos})

\* Down, nothing goes on by itself; up, no news of READY is left.
Clean(p) ==
  /\ p.pipe.cur <= READY => ~p.pipe.prerolling
  /\ p.pipe.cur > READY => Free(p.pipe.bus, 1, ReadySaid)

\* While a seek is pending, READY in the cache or on the bus is the truth.
\* Before one is, at most the message popped next tells of READY: so when its
\* handler notes a seek, none is left.
Sane(p) ==
  /\ Typed(p) /\ NoEos(p)
  /\ p.mPendingSeek >= 0
       => Clean(p) /\ (p.mState = READY => p.pipe.cur <= READY)
  /\ p.mPendingSeek < 0 => Free(p.pipe.bus, 2, ReadySaid)

LEMMA SaneFacts ==
  ASSUME NEW p, Typed(p)
  PROVE  /\ p.mPendingSeek = None <=> p.mPendingSeek < 0
         /\ p.mPendingSeek # None <=> p.mPendingSeek >= 0
         /\ p.mPendingSeek \in Int
         /\ p.pipe \in Pipelines /\ p.pipe.bus \in Seq(Messages)
         /\ p.pipe.cur \in {NULL, READY} <=> p.pipe.cur <= READY
         /\ p.pipe.cur > READY <=> ~(p.pipe.cur <= READY)
         /\ p.pipe.prerolling \in BOOLEAN
<1>1. p.mPendingSeek \in Times \union {None} /\ Times \subseteq Nat
  BY Facts DEF Typed, Rec
<1>2. p.pipe \in Pipelines
  BY PipeTyped
<1>3. p.pipe.cur \in States /\ p.pipe.bus \in Seq(Messages)
        /\ p.pipe.prerolling \in BOOLEAN
  BY <1>2 DEF Pipelines
<1>4. /\ p.mPendingSeek = None <=> p.mPendingSeek < 0
      /\ p.mPendingSeek # None <=> p.mPendingSeek >= 0
      /\ p.mPendingSeek \in Int
  <2>1. CASE p.mPendingSeek = None
    BY <2>1 DEF None
  <2>2. CASE p.mPendingSeek \in Nat
    BY <2>2 DEF None
  <2> QED
    BY <1>1, <2>1, <2>2
<1>5. /\ p.pipe.cur \in {NULL, READY} <=> p.pipe.cur <= READY
      /\ p.pipe.cur > READY <=> ~(p.pipe.cur <= READY)
  BY <1>3 DEF States, NULL, READY, PLAYING
<1> QED
  BY <1>2, <1>3, <1>4, <1>5

\* queryState() tells what it found.
LEMMA QuerySane ==
  ASSUME NEW p, Typed(p), NEW q \in QueryState(p), NoEos(p)
  PROVE  /\ NoEos(q)
         /\ Clean(p) => Clean(q)
         /\ Sane(p) => Sane(q)
         /\ Free(p.pipe.bus, 1, ReadySaid) => Free(q.pipe.bus, 1, ReadySaid)
         /\ p.pipe.cur > READY => q.pipe.cur > READY
         /\ p.pipe.cur <= READY /\ ~p.pipe.prerolling => q.pipe = p.pipe
<1>1. /\ Typed(q) /\ q.mState = q.pipe.cur /\ q.pipe \in Awaited(p.pipe)
      /\ q.mPendingSeek = p.mPendingSeek
  BY QueryStateTyped
<1>2. /\ Free(p.pipe.bus, 1, {Eos}) => Free(q.pipe.bus, 1, {Eos})
      /\ Free(p.pipe.bus, 1, ReadySaid) => Free(q.pipe.bus, 1, ReadySaid)
      /\ Free(p.pipe.bus, 2, ReadySaid) => Free(q.pipe.bus, 2, ReadySaid)
      /\ p.pipe.cur > READY => q.pipe.cur > READY
      /\ p.pipe.cur <= READY /\ ~p.pipe.prerolling => q.pipe = p.pipe
  BY <1>1, PipeTyped, AwaitedFree
<1>3. /\ p.pipe.cur > READY <=> ~(p.pipe.cur <= READY)
      /\ q.pipe.cur > READY <=> ~(q.pipe.cur <= READY)
  BY <1>1, SaneFacts
<1>4. NoEos(q)
  BY <1>2, <1>3 DEF NoEos
<1>5. Clean(p) => Clean(q)
  BY <1>2, <1>3 DEF Clean
<1>6. Sane(p) => Sane(q)
  <2>1. READY <= READY
    BY DEF READY
  <2> QED
    BY <1>1, <1>2, <1>3, <1>4, <1>5, <2>1 DEF Sane
<1> QED
  BY <1>2, <1>3, <1>4, <1>5, <1>6

LEMMA AskSane ==
  ASSUME NEW p, Typed(p), NoEos(p), Clean(p),
         NEW t \in Times, NEW u \in SetTime(p, t)
  PROVE  /\ Sane(u) /\ u.mPendingSeek = t
         /\ p.pipe.cur > READY => u.pipe.cur > READY
         /\ p.pipe.cur <= READY => u.pipe = p.pipe
<1>1. PICK r \in QueryState(p) : u = Asking(r, t)
  BY SetTimeIs
<1>2. /\ Typed(r) /\ r.mState = r.pipe.cur /\ NoEos(r) /\ Clean(r)
      /\ p.pipe.cur > READY => r.pipe.cur > READY
      /\ p.pipe.cur <= READY => r.pipe = p.pipe
  BY QueryStateTyped, QuerySane DEF Clean
<1>3. /\ Typed(u) /\ u.pipe = r.pipe /\ u.mState = r.mState
      /\ u.mPendingSeek = t
  BY <1>1, <1>2, AskingTyped
<1>4. t >= 0 /\ ~(t < 0) /\ READY <= READY
  BY Facts DEF READY
<1>5. Sane(u)
  BY <1>2, <1>3, <1>4 DEF Sane, NoEos, Clean
<1> QED
  BY <1>2, <1>3, <1>5

\* onStateChanged() may note a seek: then the media plays.
LEMMA AnswerSane ==
  ASSUME NEW p, Sane(p), NEW q \in OnStateChanged(p),
         p.mPendingSeek < 0 => Free(p.pipe.bus, 1, ReadySaid)
  PROVE  /\ Sane(q)
         /\ q.mPendingSeek = p.mPendingSeek \/ q.pipe.cur > READY
<1>0. Typed(p) /\ NoEos(p)
  BY DEF Sane
<1>1. CASE q \in QueryState(p)
  BY <1>0, <1>1, QueryStateTyped, QuerySane
<1>2. ASSUME NEW r \in QueryState(p), NEW t \in Times, r.mState = PLAYING,
             NEW u \in SetTime(r, t), q = Noted(u, None)
      PROVE  Sane(q) /\ q.pipe.cur > READY
  <2>1. /\ Typed(r) /\ r.pipe.cur = PLAYING /\ NoEos(r) /\ Sane(r)
        /\ r.mPendingSeek = p.mPendingSeek
    BY <1>0, <1>2, QueryStateTyped, QuerySane
  <2>2. PLAYING > READY /\ ~(PLAYING <= READY)
    BY DEF PLAYING, READY
  <2>3. Clean(r)
    <3>1. CASE p.mPendingSeek < 0
      <4>1. Free(r.pipe.bus, 1, ReadySaid)
        BY <1>0, <3>1, QuerySane
      <4> QED
        BY <2>1, <2>2, <4>1 DEF Clean
    <3>2. CASE p.mPendingSeek >= 0
      BY <2>1, <3>2 DEF Sane
    <3> QED
      BY <1>0, <3>1, <3>2, SaneFacts
  <2>4. Sane(u) /\ u.pipe.cur > READY
    BY <1>2, <2>1, <2>2, <2>3, AskSane
  <2>5. /\ Typed(q) /\ q.pipe = u.pipe /\ q.mState = u.mState
        /\ q.mPendingSeek = u.mPendingSeek
    BY <1>2, <2>4, NotedTyped DEF Sane
  <2> QED
    BY <2>4, <2>5 DEF Sane, NoEos, Clean
<1> QED
  BY <1>0, <1>1, <1>2, OnStateChangedTyped

\* setState() down to NULL or READY notes no seek.
LEMMA DownSane ==
  ASSUME NEW p, Typed(p), NoEos(p), NEW s \in {NULL, READY},
         NEW q \in ToState(p, s)
  PROVE  /\ Typed(q) /\ NoEos(q) /\ q.mPendingSeek = p.mPendingSeek
         /\ q.pipe.cur = s
         /\ s = NULL => q.pipe.bus = <<>>
         /\ s = READY => q.pipe.bus = p.pipe.bus \o Descent(p.pipe.cur)
<1>0. s \in States /\ s <= READY /\ s # PLAYING /\ s # PAUSED
  BY Facts DEF NULL, READY, PAUSED, PLAYING
<1>1. PICK b \in Before(p, s), held \in BOOLEAN :
        /\ Typed(b) /\ b.pipe = p.pipe /\ b.mPendingSeek = p.mPendingSeek
        /\ Typed(With(b, SetTo(b, s, held)))
        /\ q \in Reached(b, SetTo(b, s, held))
  BY <1>0, ToStateTyped
<1> DEFINE pipe == SetTo(b, s, held)
           r == With(b, pipe)
<1>2. /\ pipe \in Pipelines /\ pipe.pos \in Times
      /\ pipe.cur = s /\ ~pipe.prerolling /\ Free(pipe.bus, 1, {Eos})
      /\ s = NULL => pipe.bus = <<>>
      /\ s = READY => pipe.bus = p.pipe.bus \o Descent(p.pipe.cur)
  <2> DEFINE set == SetState(p.pipe, s, held)
  <2>1. /\ pipe \in Pipelines /\ pipe.pos \in Times
        /\ pipe.cur = set.cur /\ pipe.bus = set.bus
        /\ pipe.prerolling = set.prerolling
    BY <1>0, <1>1, SetToTyped
  <2>2. p.pipe \in Pipelines /\ Free(p.pipe.bus, 1, {Eos})
    BY PipeTyped DEF NoEos
  <2>3. /\ set.cur = s /\ ~set.prerolling /\ Free(set.bus, 1, {Eos})
        /\ s = NULL => set.bus = <<>>
        /\ s = READY => set.bus = p.pipe.bus \o Descent(p.pipe.cur)
    BY <2>2, DownIs
  <2> HIDE DEF set, pipe
  <2> QED
    BY <2>1, <2>3
<1> HIDE DEF pipe
<1>3. /\ r.pipe = pipe /\ r.mPendingSeek = p.mPendingSeek
      /\ Typed(r)
  BY <1>1, <1>2, WithTyped DEF pipe
<1>4. q \in OnStateChanged(r)
  BY <1>1, <1>2 DEF Reached, Succeeded, pipe
<1> HIDE DEF r
<1>5. \A u \in QueryState(r) : u.pipe = pipe /\ u.mState = s
  BY <1>0, <1>2, <1>3, QuerySane, QueryStateTyped DEF NoEos
<1>6. q \in QueryState(r)
  BY <1>0, <1>3, <1>4, <1>5, OnStateChangedTyped
<1>7. /\ q.pipe = pipe /\ Typed(q)
      /\ q.mPendingSeek = r.mPendingSeek
  BY <1>3, <1>5, <1>6, QueryStateTyped
<1> QED
  BY <1>2, <1>3, <1>7 DEF NoEos

\* setState() up to PAUSED or PLAYING notes a seek only in a media that plays.
LEMMA UpSane ==
  ASSUME NEW p, Sane(p), p.mPendingSeek < 0, NEW s \in {PAUSED, PLAYING},
         p.pipe.cur > READY => Free(p.pipe.bus, 1, ReadySaid),
         p.pipe.cur = NULL => p.pipe.bus = <<>>,
         NEW q \in ToState(p, s)
  PROVE  Sane(q) /\ (q.mPendingSeek < 0 \/ q.pipe.cur > READY)
<1>0. /\ s \in States /\ Typed(p) /\ NoEos(p)
      /\ p.pipe \in Pipelines /\ p.pipe.bus \in Seq(Messages)
      /\ Free(p.pipe.bus, 2, ReadySaid)
  BY Facts, SaneFacts DEF Sane
<1>1. PICK b \in Before(p, s), held \in BOOLEAN :
        /\ Typed(b) /\ b.pipe = p.pipe /\ b.mPendingSeek = p.mPendingSeek
        /\ Typed(With(b, SetTo(b, s, held)))
        /\ q \in Reached(b, SetTo(b, s, held))
  BY <1>0, ToStateTyped
<1> DEFINE pipe == SetTo(b, s, held)
           r == With(b, pipe)
<1>2. /\ pipe \in Pipelines /\ pipe.pos \in Times
      /\ Free(pipe.bus, 1, {Eos})
      /\ p.pipe.cur = NULL =>
           /\ pipe.prerolling
           /\ pipe.bus = Append(p.pipe.bus, StateMsg(NULL, READY))
      /\ p.pipe.cur = READY => pipe.prerolling /\ pipe.bus = p.pipe.bus
      /\ p.pipe.cur > READY =>
           pipe.cur > READY /\ Free(pipe.bus, 1, ReadySaid)
  <2> DEFINE set == SetState(p.pipe, s, held)
  <2>1. /\ pipe \in Pipelines /\ pipe.pos \in Times
        /\ pipe.cur = set.cur /\ pipe.bus = set.bus
        /\ pipe.prerolling = set.prerolling
    BY <1>0, <1>1, SetToTyped
  <2>2. Free(p.pipe.bus, 1, {Eos})
    BY <1>0 DEF NoEos
  <2>3. /\ Free(set.bus, 1, {Eos})
        /\ p.pipe.cur = NULL =>
             /\ set.prerolling
             /\ set.bus = Append(p.pipe.bus, StateMsg(NULL, READY))
        /\ p.pipe.cur = READY => set.prerolling /\ set.bus = p.pipe.bus
        /\ p.pipe.cur > READY => set.cur > READY
        /\ p.pipe.cur > READY /\ Free(p.pipe.bus, 1, ReadySaid)
             => Free(set.bus, 1, ReadySaid)
    BY <1>0, <2>2, UpIs
  <2> HIDE DEF set, pipe
  <2> QED
    BY <2>1, <2>3
<1> HIDE DEF pipe
<1>3. /\ r.pipe = pipe /\ r.mPendingSeek = p.mPendingSeek
      /\ Typed(r)
  BY <1>1, <1>2, WithTyped DEF pipe
<1>4. Free(pipe.bus, 2, ReadySaid)
  <2>1. CASE p.pipe.cur = NULL
    <3>1. pipe.bus = Append(<<>>, StateMsg(NULL, READY))
      BY <1>2, <2>1
    <3>2. StateMsg(NULL, READY) \in Messages /\ <<>> \in Seq(Messages)
      BY Facts, StateMsgType
    <3>3. Len(pipe.bus) = 1 /\ pipe.bus \in Seq(Messages)
      BY <3>1, <3>2
    <3> QED
      BY <3>3 DEF Free
  <2>2. CASE p.pipe.cur = READY
    BY <1>0, <1>2, <2>2
  <2>3. CASE p.pipe.cur > READY
    BY <1>2, <2>3, FreeShort DEF Pipelines
  <2>4. p.pipe.cur \in {NULL, READY} \/ p.pipe.cur > READY
    BY <1>0, SaneFacts
  <2> QED
    BY <2>1, <2>2, <2>3, <2>4
<1>5. Sane(r) /\ r.mPendingSeek < 0
  <2>1. ~(r.mPendingSeek >= 0)
    BY <1>0, <1>3, SaneFacts
  <2> QED
    BY <1>2, <1>3, <1>4, <2>1 DEF Sane, NoEos
<1>6. \/ q = r
      \/ pipe.prerolling = FALSE /\ q \in OnStateChanged(r)
  BY <1>1, <1>2 DEF Reached, Succeeded, pipe, Pipelines
<1>7. CASE q = r
  BY <1>5, <1>7
<1>8. CASE pipe.prerolling = FALSE /\ q \in OnStateChanged(r)
  <2>1. p.pipe.cur > READY
    BY <1>0, <1>2, <1>8, SaneFacts
  <2>2. Free(r.pipe.bus, 1, ReadySaid)
    BY <1>2, <1>3, <2>1
  <2>3. Sane(q) /\ (q.mPendingSeek = r.mPendingSeek \/ q.pipe.cur > READY)
    BY <1>5, <1>8, <2>2, AnswerSane
  <2> QED
    BY <1>5, <2>3
<1> QED
  BY <1>6, <1>7, <1>8

LEMMA StopSane ==
  ASSUME NEW p, Sane(p), p.mPendingSeek < 0
  PROVE  /\ \A q \in Stop(p) : /\ Sane(q) /\ q.mPendingSeek < 0
                               /\ q.pipe.cur = READY
         /\ \A q \in Replay(p) :
              Sane(q) /\ (q.mPendingSeek < 0 \/ q.pipe.cur > READY)
<1>0. Typed(p) /\ NoEos(p) /\ READY # NULL /\ ~(READY > READY)
  BY DEF Sane, READY, NULL
<1>1. ASSUME NEW q \in Stop(p)
      PROVE  Sane(q) /\ q.mPendingSeek < 0 /\ q.pipe.cur = READY
  <2>1. PICK r \in ToState(p, NULL) : q \in ToState(r, READY)
    BY <1>1 DEF Stop
  <2>2. /\ Typed(r) /\ NoEos(r) /\ r.mPendingSeek = p.mPendingSeek
        /\ r.pipe.cur = NULL /\ r.pipe.bus = <<>>
    BY <1>0, <2>1, DownSane
  <2>3. /\ Typed(q) /\ NoEos(q) /\ q.mPendingSeek = p.mPendingSeek
        /\ q.pipe.cur = READY
        /\ q.pipe.bus = r.pipe.bus \o Descent(r.pipe.cur)
    BY <1>0, <2>1, <2>2, DownSane
  <2>4. q.pipe.bus = <<>> \o <<StateMsg(NULL, READY)>>
    BY <2>2, <2>3 DEF Descent
  <2>5. q.pipe.bus \in Seq(Messages) /\ Len(q.pipe.bus) <= 1
    <3>1. StateMsg(NULL, READY) \in Messages
      BY Facts, StateMsgType
    <3> QED
      BY <2>4, <3>1
  <2>6. Free(q.pipe.bus, 2, ReadySaid) /\ ~(q.mPendingSeek >= 0)
    BY <2>3, <2>5, FreeShort, SaneFacts
  <2> QED
    BY <2>3, <2>6 DEF Sane
<1>2. ASSUME NEW q \in Replay(p)
      PROVE  Sane(q) /\ (q.mPendingSeek < 0 \/ q.pipe.cur > READY)
  <2>1. PICK r \in Stop(p) : q \in ToState(r, PLAYING)
    BY <1>2 DEF Replay
  <2>2. Sane(r) /\ r.mPendingSeek < 0 /\ r.pipe.cur = READY
    BY <1>1, <2>1
  <2> QED
    BY <1>0, <2>1, <2>2, UpSane
<1> QED
  BY <1>1, <1>2

\* Between updates a seek that finds the media down finds no message left.
Safe ==
  Opened =>
    /\ Sane(player)
    /\ ~updating /\ player.mPendingSeek >= 0 /\ player.pipe.cur <= READY
         => player.pipe.bus = <<>>

\* The user waits for a change or a seek to end; the media does not end.
Calm == WaitsForChanges = TRUE /\ WaitsForSeeks = TRUE /\ MayEnd = FALSE

LEMMA SaneSame ==
  ASSUME NEW p, NEW q, Sane(p), Typed(q), q.pipe = p.pipe,
         q.mState = p.mState, q.mPendingSeek = p.mPendingSeek
  PROVE  Sane(q)
  BY DEF Sane, NoEos, Clean

LEMMA CallSane ==
  ASSUME Calm, Inv, Safe, Call
  PROVE  /\ Typed(player) /\ Sane(player) /\ NoEos(player) /\ Clean(player)
         /\ player.mPendingSeek < 0 /\ player.pipe.bus = <<>>
         /\ ~player.pipe.prerolling /\ Awaited(player.pipe) = {player.pipe}
         /\ Free(player.pipe.bus, 1, ReadySaid)
<1>1. /\ Sane(player) /\ player.pipe.bus = <<>>
      /\ ~CanPreroll(player.pipe) /\ ~CanAdvance(player.pipe)
      /\ player.mPendingSeek = None
  BY DEF Calm, Call, Safe, Still
<1>2. Typed(player) /\ NoEos(player)
  BY <1>1 DEF Sane
<1>3. player.mPendingSeek < 0 /\ Free(player.pipe.bus, 1, ReadySaid)
  BY <1>1, <1>2, SaneFacts, FreeShort
<1>4. Awaited(player.pipe) = {player.pipe} /\ ~player.pipe.prerolling
  BY <1>1 DEF Awaited, CanPreroll
<1> QED
  BY <1>1, <1>2, <1>3, <1>4 DEF Clean

\* It is enough that no seek is pending, or that the media is up.
LEMMA SafeUp ==
  ASSUME Sane(player'), player'.mPendingSeek < 0 \/ player'.pipe.cur > READY
  PROVE  Safe'
<1>1. Typed(player')
  BY DEF Sane
<1>2. /\ player'.mPendingSeek < 0 => ~(player'.mPendingSeek >= 0)
      /\ player'.pipe.cur > READY => ~(player'.pipe.cur <= READY)
  BY <1>1, SaneFacts
<1> QED
  BY <1>2 DEF Safe

LEMMA UserSafe ==
  ASSUME Calm, Inv, Safe, UserCall
  PROVE  Safe'
<1> USE DEF Calm
<1>1. CASE UserClose
  <2>1. player'.pipe = NoPipeline
    BY <1>1, Facts DEF UserClose, Reset, Inv, TypeOK
  <2> QED
    BY <2>1 DEF Safe, Opened
<1>2. CASE UserOpen
  <2> DEFINE first == SetState(Launched, READY, TRUE)
             up == SetState(first, PAUSED, TRUE)
             pipe == Preroll(up)
  <2>1. Launched \in Pipelines /\ Launched.pos = 0 /\ Launched.bus = <<>>
          /\ Launched.cur = NULL
    BY Facts DEF Launched, Pipelines
  <2>2. /\ first \in Pipelines /\ first.pos = 0 /\ first.cur = READY
        /\ first.bus = <<StateMsg(NULL, READY)>>
        /\ Free(first.bus, 1, {Eos})
    <3>1. Free(Launched.bus, 1, {Eos})
      BY <2>1 DEF Free
    <3>2. /\ first.cur = READY /\ Free(first.bus, 1, {Eos})
          /\ first.bus = <<>> \o Descent(Launched.cur)
      BY <2>1, <3>1, DownIs
    <3>3. <<>> \o Descent(Launched.cur) = <<StateMsg(NULL, READY)>>
      BY <2>1, Facts, StateMsgType DEF Descent
    <3>4. first \in Pipelines
      BY <2>1, Facts, SetStateType
    <3>5. first.pos = 0
      BY <2>1, Facts, SetStatePos
    <3> QED
      BY <3>2, <3>3, <3>4, <3>5
  <2> HIDE DEF first
  <2>3. up \in Pipelines /\ up.pos = 0 /\ up.bus = <<StateMsg(NULL, READY)>>
    <3>1. up.bus = first.bus
      BY <2>2, UpIs
    <3>2. up \in Pipelines
      BY <2>2, Facts, SetStateType
    <3>3. up.pos = 0
      BY <2>2, Facts, SetStatePos
    <3> QED
      BY <2>2, <3>1, <3>2, <3>3
  <2> HIDE DEF up
  <2>4. Free(up.bus, 1, {Eos}) /\ Free(up.bus, 2, ReadySaid)
    <3>1. StateMsg(NULL, READY) \in Messages
      BY Facts, StateMsgType
    <3>2. Len(up.bus) = 1 /\ up.bus[1] = StateMsg(NULL, READY)
      BY <2>3, <3>1
    <3>3. StateMsg(NULL, READY) # Eos
      BY DEF StateMsg, Eos, Msg
    <3> QED
      BY <3>2, <3>3 DEF Free
  <2>5. Watched({Eos}) /\ Watched(ReadySaid)
    BY DEF Watched
  <2>6. Free(pipe.bus, 1, {Eos}) /\ Free(pipe.bus, 2, ReadySaid)
    BY <2>3, <2>4, <2>5, PrerollFree
  <2>7. pipe \in Pipelines /\ pipe.pos = 0
    BY <2>3, PrerollType, StepPos
  <2>8. player' = [Reset(player) EXCEPT !.pipe = pipe]
    BY <1>2 DEF UserOpen, up, first
  <2> HIDE DEF pipe
  <2>9. Typed(player') /\ player'.pipe = pipe /\ player'.mPendingSeek = None
    BY <2>7, <2>8, OpenTyped, Facts DEF Inv
  <2>10. player'.mPendingSeek < 0 /\ ~(player'.mPendingSeek >= 0)
    BY <2>9, SaneFacts
  <2>11. Sane(player')
    BY <2>6, <2>9, <2>10 DEF Sane, NoEos
  <2> QED
    BY <2>10, <2>11, SafeUp
<1>3. CASE UserPlay \/ UserPause
  <2>1. /\ Sane(player) /\ player.mPendingSeek < 0
        /\ player.pipe.bus = <<>> /\ Free(player.pipe.bus, 1, ReadySaid)
    BY <1>3, CallSane DEF UserPlay, UserPause
  <2>2. PICK s \in {PAUSED, PLAYING} : player' \in ToState(player, s)
    BY <1>3 DEF UserPlay, UserPause
  <2>3. Sane(player') /\ (player'.mPendingSeek < 0 \/ player'.pipe.cur > READY)
    BY <2>1, <2>2, UpSane
  <2> QED
    BY <2>3, SafeUp
<1>4. CASE UserStop \/ UserReplay
  <2>1. Sane(player) /\ player.mPendingSeek < 0
    BY <1>4, CallSane DEF UserStop, UserReplay
  <2>2. player' \in Stop(player) \/ player' \in Replay(player)
    BY <1>4 DEF UserStop, UserReplay
  <2>3. Sane(player') /\ (player'.mPendingSeek < 0 \/ player'.pipe.cur > READY)
    BY <2>1, <2>2, StopSane
  <2> QED
    BY <2>3, SafeUp
<1>5. ASSUME NEW t \in Times, UserSetTime(t) PROVE Safe'
  <2>1. /\ Typed(player) /\ NoEos(player) /\ Clean(player)
        /\ player.pipe.bus = <<>> /\ Awaited(player.pipe) = {player.pipe}
    BY <1>5, CallSane DEF UserSetTime
  <2>2. player' \in SetTime(player, t)
    BY <1>5 DEF UserSetTime
  <2>3. Sane(player') /\ player'.pipe = player.pipe
    BY <2>1, <2>2, AskSane, SetTimeTyped
  <2> QED
    BY <2>1, <2>3 DEF Safe
<1>6. CASE UserQueryState
  <2>1. Typed(player) /\ NoEos(player) /\ Sane(player)
          /\ player.mPendingSeek < 0
    BY <1>6, CallSane DEF UserQueryState
  <2>2. player' \in QueryState(player)
    BY <1>6 DEF UserQueryState
  <2>3. Sane(player') /\ player'.mPendingSeek = player.mPendingSeek
    BY <2>1, <2>2, QueryStateTyped, QuerySane
  <2> QED
    BY <2>1, <2>3, SafeUp
<1>7. CASE UserSetLoop
  BY <1>7 DEF UserSetLoop, Safe, Opened
<1> QED
  BY <1>1, <1>2, <1>3, <1>4, <1>5, <1>6, <1>7 DEF UserCall

LEMMA UpdateBeginSafe ==
  ASSUME Inv, Safe, UpdateBegin
  PROVE  /\ Safe'
         /\ player.mPendingSeek >= 0 /\ player'.mPendingSeek < 0
              => player.pipe.cur <= READY
<1>0. Sane(player) /\ Typed(player) /\ ~updating /\ updating' = TRUE
  BY DEF UpdateBegin, Safe, Sane
<1>1. PICK p \in Heartbeat(player) : \E q \in PendingSeek(p) :
        /\ player' = Counted(q)
        /\ Typed(p) /\ Typed(q) /\ Typed(Counted(q))
        /\ p.pipe = player.pipe /\ p.mState = player.mState
        /\ p.mPendingSeek = player.mPendingSeek
        /\ player'.pipe = q.pipe /\ player'.mState = q.mState
        /\ player'.mPendingSeek = q.mPendingSeek
  BY UpdateBeginIs
<1>2. PICK q \in PendingSeek(p) :
        /\ Typed(p) /\ Typed(player')
        /\ p.pipe = player.pipe /\ p.mState = player.mState
        /\ p.mPendingSeek = player.mPendingSeek
        /\ player'.pipe = q.pipe /\ player'.mState = q.mState
        /\ player'.mPendingSeek = q.mPendingSeek
  BY <1>1
<1>3. \/ p.mPendingSeek < 0 /\ q = p
      \/ /\ p.mPendingSeek >= 0 /\ p.mState # READY
         /\ q.pipe = SetState(p.pipe, READY, TRUE)
         /\ q.mState = p.mState /\ q.mPendingSeek = p.mPendingSeek
      \/ /\ p.mPendingSeek >= 0 /\ p.mState = READY
         /\ q.pipe = SetState(p.pipe, p.mPendingState, TRUE)
         /\ q.mPendingSeek = None
  BY <1>2, PendingSeekTyped
<1>4. Sane(p) /\ p.pipe \in Pipelines /\ Free(p.pipe.bus, 1, {Eos})
  <2>1. Sane(p)
    BY <1>0, <1>2, SaneSame
  <2> QED
    BY <2>1, SaneFacts DEF Sane, NoEos
<1>5. Sane(player') => Safe'
  BY <1>0 DEF Safe
<1>6. CASE p.mPendingSeek < 0 /\ q = p
  <2>1. Sane(player')
    BY <1>2, <1>4, <1>6, SaneSame
  <2> QED
    BY <1>0, <1>2, <1>5, <1>6, <2>1, SaneFacts
<1>7. CASE /\ p.mPendingSeek >= 0 /\ p.mState # READY
           /\ q.pipe = SetState(p.pipe, READY, TRUE)
           /\ q.mState = p.mState /\ q.mPendingSeek = p.mPendingSeek
  <2>1. /\ q.pipe.cur = READY /\ ~q.pipe.prerolling
        /\ Free(q.pipe.bus, 1, {Eos})
    BY <1>4, <1>7, DownIs
  <2>2. ~(player'.mPendingSeek < 0) /\ READY <= READY /\ ~(READY > READY)
    BY <1>2, <1>7, SaneFacts DEF READY
  <2>3. Sane(player')
    BY <1>2, <2>1, <2>2 DEF Sane, NoEos, Clean
  <2> QED
    BY <1>5, <2>2, <2>3
<1>8. CASE /\ p.mPendingSeek >= 0 /\ p.mState = READY
           /\ q.pipe = SetState(p.pipe, p.mPendingState, TRUE)
           /\ q.mPendingSeek = None
  <2>1. player.pipe.cur <= READY
    BY <1>0, <1>2, <1>8 DEF Sane
  <2>2. p.pipe.bus = <<>>
    BY <1>0, <1>2, <1>8, <2>1 DEF Safe, UpdateBegin
  <2>3. p.pipe.cur \in {NULL, READY} /\ p.mPendingState \in States
    BY <1>2, <2>1, SaneFacts DEF Typed, Rec
  <2>4. /\ Descent(NULL) = <<StateMsg(NULL, READY)>>
        /\ Descent(READY) = <<>>
    BY DEF Descent, NULL, READY
  <2>5. Free(q.pipe.bus, 1, {Eos}) /\ Len(q.pipe.bus) <= 1
          /\ q.pipe.bus \in Seq(Messages)
    <3> DEFINE one == StateMsg(NULL, READY)
    <3>0. /\ one \in Messages
          /\ <<>> \in Seq(Messages) /\ <<one>> \in Seq(Messages)
          /\ Len(<<>>) <= 1 /\ Len(<<one>>) <= 1
          /\ Append(<<>>, one) = <<one>> /\ <<>> \o <<one>> = <<one>>
          /\ <<>> \o <<>> = <<>>
      <4>1. one \in Messages
        BY Facts, StateMsgType
      <4> HIDE DEF one
      <4> QED
        BY <4>1
    <3>1. CASE p.mPendingState \in {NULL, READY}
      <4>1. /\ Free(q.pipe.bus, 1, {Eos})
            /\ q.pipe.bus = <<>> \/ q.pipe.bus = <<>> \o Descent(p.pipe.cur)
        BY <1>4, <1>8, <2>2, <3>1, DownIs
      <4>2. q.pipe.bus = <<>> \/ q.pipe.bus = <<StateMsg(NULL, READY)>>
        BY <2>3, <2>4, <3>0, <4>1
      <4> HIDE DEF one
      <4> QED
        BY <3>0, <4>1, <4>2 DEF one
    <3>2. CASE p.mPendingState \in {PAUSED, PLAYING}
      <4> DEFINE up == SetState(p.pipe, p.mPendingState, TRUE)
      <4>1. /\ Free(up.bus, 1, {Eos})
            /\ p.pipe.cur = NULL => up.bus = Append(p.pipe.bus, one)
            /\ p.pipe.cur = READY => up.bus = p.pipe.bus
        BY <1>4, <3>2, UpIs
      <4> HIDE DEF up, one
      <4>2. up.bus = <<>> \/ up.bus = <<one>>
        BY <2>2, <2>3, <3>0, <4>1
      <4>3. q.pipe = up
        BY <1>8 DEF up
      <4> QED
        BY <3>0, <4>1, <4>2, <4>3
    <3> QED
      BY <2>3, <3>1, <3>2 DEF States, NULL, READY, PAUSED, PLAYING
  <2>6. Free(q.pipe.bus, 2, ReadySaid)
    BY <2>5, FreeShort
  <2>7. player'.mPendingSeek < 0 /\ ~(player'.mPendingSeek >= 0)
    BY <1>2, <1>8, SaneFacts
  <2>8. Sane(player')
    BY <1>2, <2>5, <2>6, <2>7 DEF Sane, NoEos
  <2> QED
    BY <1>5, <2>1, <2>8
<1> QED
  BY <1>3, <1>6, <1>7, <1>8

\* Popping a message tells nothing new.
LEMMA RestSane ==
  ASSUME Inv, Safe, updating, player.pipe.bus # <<>>
  PROVE  /\ Sane(Rest) /\ Rest.pipe.cur = player.pipe.cur
         /\ Free(player.pipe.bus, 1, {Eos}) /\ Sane(player)
         /\ Rest.mPendingSeek = player.mPendingSeek
         /\ player.mPendingSeek < 0 => Free(Rest.pipe.bus, 1, ReadySaid)
<1>1. /\ Sane(player) /\ Typed(player)
      /\ player.pipe \in Pipelines /\ player.pipe.bus \in Seq(Messages)
      /\ Free(player.pipe.bus, 1, {Eos})
  BY SaneFacts DEF Inv, Safe, Sane, NoEos
<1>2. /\ Typed(Rest) /\ Rest.pipe = Pop(player.pipe)
      /\ Rest.mState = player.mState
      /\ Rest.mPendingSeek = player.mPendingSeek
  BY RestTyped
<1>3. /\ Pop(player.pipe).cur = player.pipe.cur
      /\ Pop(player.pipe).prerolling = player.pipe.prerolling
      /\ Pop(player.pipe).bus = Tail(player.pipe.bus)
  BY <1>1 DEF Pop, Pipelines
<1>4. /\ Free(Tail(player.pipe.bus), 1, {Eos})
      /\ Free(player.pipe.bus, 1, ReadySaid)
           => Free(Tail(player.pipe.bus), 1, ReadySaid)
      /\ Free(player.pipe.bus, 2, ReadySaid)
           => Free(Tail(player.pipe.bus), 1, ReadySaid)
      /\ Free(player.pipe.bus, 2, ReadySaid)
           => Free(Tail(player.pipe.bus), 2, ReadySaid)
  <2>1. 1 \in Nat /\ 2 \in Nat /\ 1 + 1 = 2
    OBVIOUS
  <2> QED
    BY <1>1, <2>1, FreeTail
<1>5. Sane(Rest)
  BY <1>1, <1>2, <1>3, <1>4 DEF Sane, NoEos, Clean
<1> QED
  BY <1>1, <1>2, <1>3, <1>4, <1>5 DEF Sane

LEMMA HandleSafe ==
  ASSUME Inv, Safe, Handle
  PROVE  Safe'
<1>0. updating /\ player.pipe.bus # <<>>
  BY DEF Handle, HandleStateChanged, HandleAsyncDone, HandleEos, Popped
<1>1. /\ Sane(Rest) /\ Rest.pipe.cur = player.pipe.cur
      /\ Sane(player) /\ Free(player.pipe.bus, 1, {Eos})
      /\ Rest.mPendingSeek = player.mPendingSeek
      /\ player.mPendingSeek < 0 => Free(Rest.pipe.bus, 1, ReadySaid)
      /\ Typed(player) /\ Typed(Rest) /\ Head(player.pipe.bus) \in Messages
      /\ player.pipe.bus \in Seq(Messages)
      /\ Rest.pipe = Pop(player.pipe)
  BY <1>0, RestSane, RestTyped, SaneFacts
<1>2. ASSUME Sane(player'), updating' PROVE Safe'
  BY <1>2 DEF Safe
<1>3. CASE HandleStateChanged
  <2>1. PICK msg \in Messages :
          /\ msg = Head(player.pipe.bus) /\ msg.type = "state_changed"
          /\ msg.old \in States /\ msg.new \in States
          /\ Typed(Told(Rest, msg.new))
          /\ player' \in IF msg.old # msg.new
                         THEN OnStateChanged(Told(Rest, msg.new))
                         ELSE {Told(Rest, msg.new)}
    BY <1>3, HandleStateChangedIs
  <2> DEFINE told == Told(Rest, msg.new)
  <2>2. /\ told.pipe = Rest.pipe /\ told.mState = msg.new
        /\ told.mPendingSeek = Rest.mPendingSeek
    BY <1>1, <2>1, ToldTyped
  <2>3. msg.new = READY => msg \in ReadySaid
    <3>1. PICK old \in States, new \in States : msg = StateMsg(old, new)
      <4>1. /\ AsyncDone.type # "state_changed" /\ Eos.type # "state_changed"
            /\ DurationChanged.type # "state_changed"
        BY DEF AsyncDone, Eos, DurationChanged, Msg
      <4> QED
        BY <2>1, <4>1 DEF Messages
    <3>2. msg.new = new
      BY <3>1 DEF StateMsg
    <3> QED
      BY <3>1, <3>2 DEF ReadySaid
  <2>4. msg.new = READY /\ player.mPendingSeek >= 0
          => player.pipe.cur <= READY
    <3>1. ~(player.pipe.cur > READY) \/ Free(player.pipe.bus, 1, ReadySaid)
            \/ ~(player.mPendingSeek >= 0)
      BY <1>1 DEF Sane, Clean
    <3>2. Free(player.pipe.bus, 1, ReadySaid) => msg \notin ReadySaid
      BY <1>0, <1>1, <2>1, FreeHead
    <3> QED
      BY <1>1, <2>3, <3>1, <3>2, SaneFacts
  <2> HIDE DEF told
  <2>5. Sane(told)
    BY <1>1, <2>1, <2>2, <2>4 DEF Sane, NoEos, Clean, told
  <2>6. player' = told \/ player' \in OnStateChanged(told)
    BY <2>1 DEF told
  <2>7. told.mPendingSeek < 0 => Free(told.pipe.bus, 1, ReadySaid)
    BY <1>1, <2>2
  <2>8. Sane(player')
    BY <2>5, <2>6, <2>7, AnswerSane
  <2> QED
    BY <1>0, <1>2, <1>3, <2>8 DEF HandleStateChanged
<1>4. CASE HandleAsyncDone
  <2>1. CASE player.mPendingSeek >= 0
    <3>1. player.mPendingSeek \in Times
      BY <1>1, <2>1, SaneFacts DEF Typed, Rec
    <3>2. player' \in SetTime(Rest, player.mPendingSeek)
      BY <1>4, <2>1 DEF HandleAsyncDone
    <3>3. NoEos(Rest) /\ Clean(Rest)
      BY <1>1, <2>1 DEF Sane
    <3>4. Sane(player')
      BY <1>1, <3>1, <3>2, <3>3, AskSane
    <3> QED
      BY <1>0, <1>2, <1>4, <3>4 DEF HandleAsyncDone
  <2>2. CASE ~(player.mPendingSeek >= 0)
    <3>1. Sane(player')
      BY <1>1, <1>4, <2>2 DEF HandleAsyncDone
    <3> QED
      BY <1>0, <1>2, <1>4, <3>1 DEF HandleAsyncDone
  <2> QED
    BY <2>1, <2>2
<1>5. CASE HandleEos
  <2>1. Head(player.pipe.bus).type = "eos"
    BY <1>5 DEF HandleEos, Popped
  <2>2. Head(player.pipe.bus) # Eos
    BY <1>0, <1>1, FreeHead
  <2> QED
    BY <1>1, <2>1, <2>2
    DEF Messages, StateMsg, AsyncDone, DurationChanged, Msg
<1> QED
  BY <1>3, <1>4, <1>5 DEF Handle

LEMMA PipelineSafe ==
  ASSUME Calm, Inv, Safe, PipelinePrerolls \/ PipelineAdvances \/ PipelineEnds
  PROVE  Safe'
<1>1. /\ Opened /\ Typed(player) /\ Typed(player')
      /\ \/ /\ CanPreroll(player.pipe)
            /\ player' = With(player, Preroll(player.pipe))
         \/ /\ CanAdvance(player.pipe)
            /\ player' = With(player, Advance(player.pipe))
  BY PipelineIs DEF Calm
<1>2. PICK pipe : /\ player' = With(player, pipe)
                  /\ \/ CanPreroll(player.pipe) /\ pipe = Preroll(player.pipe)
                     \/ CanAdvance(player.pipe) /\ pipe = Advance(player.pipe)
  BY <1>1
<1>3. player.pipe \in Pipelines /\ player.pipe.pos \in Times
  BY <1>1, PipeTyped
<1>4. pipe \in Awaited(player.pipe)
  BY <1>2, <1>3 DEF Awaited, CanPreroll, CanAdvance, Pipelines
<1>5. pipe \in Pipelines /\ pipe.pos \in Times
  BY <1>3, <1>4, AwaitedType, AwaitedPos
<1>6. /\ player'.pipe = pipe /\ player'.mState = player.mState
      /\ player'.mPendingSeek = player.mPendingSeek
  BY <1>1, <1>2, <1>5, WithTyped
<1>7. /\ Free(player.pipe.bus, 1, {Eos}) => Free(pipe.bus, 1, {Eos})
      /\ Free(player.pipe.bus, 1, ReadySaid) => Free(pipe.bus, 1, ReadySaid)
      /\ Free(player.pipe.bus, 2, ReadySaid) => Free(pipe.bus, 2, ReadySaid)
      /\ player.pipe.cur > READY => pipe.cur > READY
  BY <1>3, <1>4, AwaitedFree
<1>8. pipe.cur > READY
  <2>1. Preroll(player.pipe).cur = PAUSED /\ Advance(player.pipe).cur = PLAYING
    BY <1>3 DEF Preroll, Advance, Pipelines
  <2> QED
    BY <1>2, <2>1 DEF READY, PAUSED, PLAYING
<1>9. player.pipe.cur <= READY => player.pipe.prerolling
  BY <1>2 DEF CanPreroll, CanAdvance, READY, PAUSED
<1>10. Sane(player)
  BY <1>1 DEF Safe
<1>11. player.mPendingSeek >= 0
        => player.pipe.cur > READY /\ player.mState # READY
  BY <1>1, <1>9, <1>10, SaneFacts DEF Sane, Clean
<1>12. Sane(player')
  <2>1. ~(pipe.cur <= READY)
    BY <1>1, <1>6, <1>8, SaneFacts
  <2> QED
    BY <1>1, <1>6, <1>7, <1>10, <1>11, <2>1 DEF Sane, NoEos, Clean
<1> QED
  BY <1>6, <1>8, <1>12, SafeUp

LEMMA StepSafe ==
  ASSUME Calm, Inv, Safe, [Next]_vars
  PROVE  Safe'
<1>1. CASE UpdateEnd
  BY <1>1 DEF UpdateEnd, history, Safe, Opened
<1>2. CASE UNCHANGED vars
  BY <1>2 DEF vars, history, Safe, Opened
<1> QED
  BY <1>1, <1>2, UserSafe, UpdateBeginSafe, HandleSafe, PipelineSafe
  DEF Next, Update

\* If the user waits for each change and seek to end, and the media goes on,
\* the base time is moved only while the pipeline is down
\* (nsvr_player_server.cpp:132-143): the cached state READY that lets it be
\* moved is never a late message of a pipeline that runs again.
THEOREM BaseMovesAtRest ==
  ASSUME Calm
  PROVE  Spec => MovedAtRest
<1>1. Init => Safe
  BY DEF Init, Closed, Safe, Opened
<1>2. Inv /\ Safe /\ [Next]_vars => Safe'
  BY StepSafe
<1>3. Inv /\ Safe /\ [Next]_vars
        => [UpdateBegin /\ player.mPendingSeek >= 0 /\ player'.mPendingSeek < 0
              => player.pipe.cur <= READY]_vars
  BY UpdateBeginSafe
<1> QED
  BY InitInv, StepInv, <1>1, <1>2, <1>3, PTL DEF Spec, SafeSpec, MovedAtRest

-----------------------------------------------------------------------------
(* The pipeline between two calls of set_state                             *)

\* It is on its way to PAUSED or PLAYING, or there; a media that plays is
\* taken to PAUSED by nothing that an update has not been told of.
Shaped(pipe) ==
  /\ pipe.prerolling => pipe.tgt \in {PAUSED, PLAYING}
  /\ ~pipe.prerolling =>
       pipe.cur = pipe.tgt \/ (pipe.cur = PAUSED /\ pipe.tgt = PLAYING)
  /\ pipe.prerolling /\ pipe.cur = PLAYING => pipe.bus = <<>>

\* A message on the bus tells of a change, and the state will be compared.
ChangeTold(bus) ==
  \E i \in 1 .. Len(bus) :
    bus[i].type = "state_changed" /\ bus[i].old # bus[i].new

LEMMA ChangeAppended ==
  ASSUME NEW bus \in Seq(Messages)
  PROVE  ChangeTold(Append(bus, StateMsg(PAUSED, PLAYING)))
<1> DEFINE msg == StateMsg(PAUSED, PLAYING)
           longer == Append(bus, msg)
<1>1. msg.type = "state_changed" /\ msg.old # msg.new
  BY DEF StateMsg, PAUSED, PLAYING
<1>2. msg \in Messages
  BY Facts, StateMsgType
<1> HIDE DEF msg
<1>3. Len(longer) \in 1 .. Len(longer) /\ longer[Len(longer)] = msg
  BY <1>2
<1> HIDE DEF longer
<1>4. ChangeTold(longer)
  BY <1>1, <1>3 DEF ChangeTold
<1> QED
  BY <1>4 DEF longer, msg

LEMMA ChangeTail ==
  ASSUME NEW bus \in Seq(Messages), bus # <<>>, ChangeTold(bus),
         ~(Head(bus).type = "state_changed" /\ Head(bus).old # Head(bus).new)
  PROVE  ChangeTold(Tail(bus))
<1> DEFINE rest == Tail(bus)
<1>1. PICK i \in 1 .. Len(bus) :
        bus[i].type = "state_changed" /\ bus[i].old # bus[i].new
  BY DEF ChangeTold
<1>2. i # 1 /\ Len(bus) \in Nat
  BY <1>1
<1>3. i - 1 \in 1 .. Len(rest) /\ rest[i - 1] = bus[i]
  BY <1>2
<1> HIDE DEF rest
<1>4. ChangeTold(rest)
  BY <1>1, <1>3 DEF ChangeTold
<1> QED
  BY <1>4 DEF rest

LEMMA NothingTold == ~ChangeTold(<<>>)
  BY DEF ChangeTold

LEMMA AwaitedShaped ==
  ASSUME NEW p \in Pipelines, Shaped(p), NEW q \in Awaited(p)
  PROVE  /\ Shaped(q) /\ q.tgt = p.tgt /\ q.pos = p.pos
         /\ q.prerolling => q = p
         /\ q = p \/ q.cur # PLAYING \/ ChangeTold(q.bus)
         /\ ~p.prerolling /\ (p.cur # PAUSED \/ p.tgt # PLAYING) => q = p
<1> USE DEF READY, PAUSED, PLAYING
<1>1. \/ q = p
      \/ p.prerolling /\ q = Preroll(p)
      \/ p.prerolling /\ q = Advance(Preroll(p)) /\ CanAdvance(Preroll(p))
      \/ CanAdvance(p) /\ q = Advance(p)
  BY DEF Awaited, CanPreroll
<1>2. \A r \in Pipelines :
        /\ Preroll(r).cur = PAUSED /\ Preroll(r).prerolling = FALSE
        /\ Preroll(r).tgt = r.tgt /\ Preroll(r).pos = r.pos
        /\ Advance(r).cur = PLAYING /\ Advance(r).prerolling = r.prerolling
        /\ Advance(r).tgt = r.tgt /\ Advance(r).pos = r.pos
        /\ Advance(r).bus = Append(r.bus, StateMsg(PAUSED, PLAYING))
  BY DEF Preroll, Advance, Pipelines
<1>3. Preroll(p) \in Pipelines
  BY PrerollType
<1>4. \A r \in Pipelines : ChangeTold(Advance(r).bus)
  BY <1>2, ChangeAppended DEF Pipelines
<1>5. CASE q = p
  BY <1>5
<1>6. CASE p.prerolling /\ q = Preroll(p)
  BY <1>2, <1>6 DEF Shaped
<1>7. CASE p.prerolling /\ q = Advance(Preroll(p)) /\ CanAdvance(Preroll(p))
  BY <1>2, <1>3, <1>4, <1>7 DEF Shaped, CanAdvance
<1>8. CASE CanAdvance(p) /\ q = Advance(p)
  BY <1>2, <1>4, <1>8 DEF Shaped, CanAdvance
<1> QED
  BY <1>1, <1>5, <1>6, <1>7, <1>8

\* set_state: down at once, up by way of READY, and in between at once unless
\* the sinks have no data to show.
LEMMA SetToDown ==
  ASSUME NEW b, Typed(b), NEW s \in {NULL, READY}, NEW held \in BOOLEAN,
         NEW r, r = SetTo(b, s, held)
  PROVE  r.cur = s /\ r.tgt = s /\ ~r.prerolling /\ r.pos = 0
<1>1. b.pipe \in Pipelines
  BY PipeTyped
<1>2. s <= READY /\ s # PAUSED
  BY DEF NULL, READY, PAUSED
<1> QED
  BY <1>1, <1>2 DEF SetTo, SetState, Rewind, Pipelines

LEMMA SetToStart ==
  ASSUME NEW b, Typed(b), b.pipe.cur <= READY, NEW s \in {PAUSED, PLAYING},
         NEW held \in BOOLEAN, NEW r, r = SetTo(b, s, held)
  PROVE  r.cur = READY /\ r.tgt = s /\ r.prerolling
<1> DEFINE q == SetState(b.pipe, s, held)
<1>1. b.pipe \in Pipelines /\ q \in Pipelines
  BY PipeTyped, SetStateType, Facts
<1>2. q = Start(b.pipe, s)
  BY DEF SetState, READY, PAUSED, PLAYING
<1>3. r = [q EXCEPT !.pos = IF s = PAUSED /\ b.pipe.cur = PLAYING
                            THEN b.mTime ELSE @]
  BY DEF SetTo
<1> HIDE DEF q
<1>4. q.cur = READY /\ q.tgt = s /\ q.prerolling = TRUE
  BY <1>1, <1>2 DEF Start, Pipelines
<1> QED
  BY <1>1, <1>3, <1>4 DEF Pipelines

LEMMA SetToChange ==
  ASSUME NEW b, Typed(b), b.pipe.cur > READY, ~b.pipe.prerolling,
         NEW s \in {PAUSED, PLAYING}, NEW held \in BOOLEAN,
         NEW r, r = SetTo(b, s, held)
  PROVE  /\ r.tgt = s
         /\ r.pos = IF s = PAUSED /\ b.pipe.cur = PLAYING
                    THEN b.mTime ELSE b.pipe.pos
         /\ IF s = PAUSED /\ b.pipe.cur = PLAYING /\ ~held
            THEN r.prerolling /\ r.cur = PLAYING /\ r.bus = b.pipe.bus
            ELSE /\ ~r.prerolling /\ r.cur = s
                 /\ r.bus = IF b.pipe.cur = s THEN b.pipe.bus
                            ELSE Append(b.pipe.bus, StateMsg(b.pipe.cur, s))
<1> DEFINE p == b.pipe
           q == SetState(p, s, held)
<1>1. p \in Pipelines /\ q \in Pipelines
  BY PipeTyped, SetStateType, Facts
<1>2. q = Change(p, s, held)
  BY <1>1 DEF SetState, Pipelines, States, READY, PAUSED, PLAYING
<1>3. r = [q EXCEPT !.pos = IF s = PAUSED /\ p.cur = PLAYING
                            THEN b.mTime ELSE @]
  BY DEF SetTo
<1> HIDE DEF q
<1>4. /\ r.cur = q.cur /\ r.tgt = q.tgt /\ r.prerolling = q.prerolling
      /\ r.bus = q.bus
      /\ r.pos = IF s = PAUSED /\ p.cur = PLAYING THEN b.mTime ELSE q.pos
  BY <1>1, <1>3 DEF Pipelines
<1>5. CASE s = PAUSED /\ p.cur = PLAYING /\ ~held
  <2>1. /\ q.cur = PLAYING /\ q.tgt = s /\ q.prerolling = TRUE
        /\ q.bus = p.bus
    BY <1>1, <1>2, <1>5 DEF Change, Pipelines
  <2> QED
    BY <1>4, <1>5, <2>1
<1>6. CASE ~(s = PAUSED /\ p.cur = PLAYING /\ ~held)
  <2>1. /\ q.cur = s /\ q.tgt = s /\ q.prerolling = FALSE
        /\ q.bus = IF p.cur = s THEN p.bus
                   ELSE Append(p.bus, StateMsg(p.cur, s))
        /\ q.pos = p.pos
    BY <1>1, <1>2, <1>6 DEF Change, Pipelines
  <2> QED
    BY <1>4, <1>6, <2>1
<1> QED
  BY <1>5, <1>6

-----------------------------------------------------------------------------
(* A seek ends where it began, and the media plays from where it was asked *)

\* What onStateChanged() makes of p: in a media that plays, the position that
\* was noted is sought, to play on from there.
Sought(q, p) ==
  /\ q.mTime = p.mTime /\ q.origin = p.origin
  /\ IF q.pipe.cur = PLAYING /\ ~q.pipe.prerolling /\ p.mPendingStateSeek >= 0
     THEN /\ q.mPendingSeek = p.mPendingStateSeek
          /\ q.mPendingState = PLAYING /\ q.mPendingStateSeek = None
     ELSE /\ q.mPendingSeek = p.mPendingSeek
          /\ q.mPendingState = p.mPendingState
          /\ q.mPendingStateSeek = p.mPendingStateSeek

LEMMA AnswerSought ==
  ASSUME NEW p, Typed(p), Shaped(p.pipe),
         p.pipe.cur = PLAYING => ~p.pipe.prerolling,
         NEW q \in OnStateChanged(p)
  PROVE  Typed(q) /\ q.pipe \in Awaited(p.pipe) /\ Sought(q, p)
<1>1. PICK r \in QueryState(p) : q \in Answered(r)
  BY OnStateChangedIs
<1>2. /\ Typed(r) /\ r.mState = r.pipe.cur /\ r.pipe \in Awaited(p.pipe)
      /\ r.mPendingSeek = p.mPendingSeek /\ r.mTime = p.mTime
      /\ r.mPendingState = p.mPendingState /\ r.origin = p.origin
      /\ r.mPendingStateSeek = p.mPendingStateSeek
  BY QueryStateTyped DEF SameGoal
<1>3. p.pipe \in Pipelines /\ r.pipe \in Pipelines
  BY <1>2, PipeTyped
<1>4. r.pipe.cur = PLAYING => ~r.pipe.prerolling /\ Shaped(r.pipe)
  BY <1>2, <1>3, AwaitedShaped
<1>5. CASE r.mState = PLAYING /\ r.mPendingStateSeek >= 0
  <2>1. r.mPendingStateSeek \in Times
    BY <1>2, <1>5 DEF Typed, Rec, None
  <2>2. PICK u \in SetTime(r, r.mPendingStateSeek) : q = Noted(u, None)
    BY <1>1, <1>5 DEF Answered
  <2>3. PICK v \in QueryState(r) : u = Asking(v, r.mPendingStateSeek)
    BY <2>2, SetTimeIs
  <2>4. /\ Typed(v) /\ v.pipe = r.pipe /\ v.mState = PLAYING
        /\ v.mTime = r.mTime /\ v.origin = r.origin
    <3>1. PLAYING # PAUSED
      BY DEF PLAYING, PAUSED
    <3>2. /\ Typed(v) /\ v.pipe \in Awaited(r.pipe)
          /\ v.mState = v.pipe.cur
          /\ v.mTime = r.mTime /\ v.origin = r.origin
      BY <1>2, <2>3, QueryStateTyped DEF SameGoal
    <3>3. v.pipe = r.pipe
      BY <1>2, <1>3, <1>4, <1>5, <3>1, <3>2, AwaitedShaped
    <3> QED
      BY <1>2, <1>5, <3>2, <3>3
  <2>5. /\ Typed(u) /\ u.pipe = r.pipe /\ u.mTime = r.mTime
        /\ u.origin = r.origin /\ u.mPendingSeek = r.mPendingStateSeek
        /\ u.mPendingState = PLAYING
    BY <2>1, <2>3, <2>4, AskingTyped
  <2>6. /\ Typed(q) /\ q.pipe = u.pipe /\ q.mTime = u.mTime
        /\ q.origin = u.origin /\ q.mPendingSeek = u.mPendingSeek
        /\ q.mPendingState = u.mPendingState /\ q.mPendingStateSeek = None
    BY <2>2, <2>5, NotedTyped
  <2> QED
    BY <1>2, <1>4, <1>5, <2>5, <2>6 DEF Sought
<1>6. CASE ~(r.mState = PLAYING /\ r.mPendingStateSeek >= 0)
  <2>1. q = r
    BY <1>1, <1>6 DEF Answered
  <2> QED
    BY <1>2, <1>4, <1>6, <2>1 DEF Sought
<1> QED
  BY <1>5, <1>6

\* setState() in a pipeline that waits for nothing.
LEMMA ToStateSought ==
  ASSUME NEW p, Typed(p), ~p.pipe.prerolling, NEW s \in States,
         NEW q \in ToState(p, s)
  PROVE  \E b \in Before(p, s), held \in BOOLEAN :
           /\ Typed(b) /\ b.pipe = p.pipe /\ b.mPendingSeek = p.mPendingSeek
           /\ Typed(q) /\ q.pipe = SetTo(b, s, held) /\ Sought(q, b)
<1>1. PICK b \in Before(p, s), held \in BOOLEAN :
        /\ Typed(b) /\ b.pipe = p.pipe /\ b.mPendingSeek = p.mPendingSeek
        /\ Typed(With(b, SetTo(b, s, held)))
        /\ q \in Reached(b, SetTo(b, s, held))
  BY ToStateTyped
<1>2. PICK r : r = SetTo(b, s, held)
  OBVIOUS
<1>3. /\ r.tgt = s /\ (~r.prerolling => r.cur = s)
      /\ r.prerolling => s \in {PAUSED, PLAYING}
  <2>1. CASE s \in {NULL, READY}
    BY <1>1, <1>2, <2>1, SetToDown
  <2>2. CASE s \in {PAUSED, PLAYING} /\ p.pipe.cur <= READY
    BY <1>1, <1>2, <2>2, SetToStart
  <2>3. CASE s \in {PAUSED, PLAYING} /\ p.pipe.cur > READY
    <3>1. /\ r.tgt = s
          /\ IF s = PAUSED /\ b.pipe.cur = PLAYING /\ ~held
             THEN r.prerolling ELSE ~r.prerolling /\ r.cur = s
      BY <1>1, <1>2, <2>3, SetToChange
    <3> QED
      BY <2>3, <3>1
  <2>4. s \in {NULL, READY} \/ s \in {PAUSED, PLAYING}
    BY DEF States, NULL, READY, PAUSED, PLAYING
  <2> QED
    BY <1>1, <2>1, <2>2, <2>3, <2>4, SaneFacts
<1> DEFINE w == With(b, r)
<1>4. /\ Typed(w) /\ w.pipe = r /\ w.mTime = b.mTime
      /\ w.mPendingSeek = b.mPendingSeek /\ w.origin = b.origin
      /\ w.mPendingState = b.mPendingState
      /\ w.mPendingStateSeek = b.mPendingStateSeek
  <2>1. r \in Pipelines /\ r.pos \in Times
    BY <1>1, <1>2, SetToTyped
  <2> QED
    BY <1>1, <2>1, WithTyped DEF SameGoal
<1>5. q \in IF r.prerolling THEN {w} ELSE OnStateChanged(w)
  BY <1>1, <1>2 DEF Reached, Succeeded
<1> HIDE DEF w
<1>6. Typed(q) /\ q.pipe = r /\ Sought(q, b)
  <2>1. CASE r.prerolling
    BY <1>4, <1>5, <2>1 DEF Sought
  <2>2. CASE ~r.prerolling
    <3>1. Shaped(r) /\ Awaited(r) = {r}
      <4>1. PAUSED # PLAYING
        BY DEF PAUSED, PLAYING
      <4> QED
        BY <1>3, <2>2, <4>1 DEF Shaped, Awaited, CanPreroll, CanAdvance
    <3>2. Typed(q) /\ q.pipe \in Awaited(r) /\ Sought(q, w)
      BY <1>4, <1>5, <2>2, <3>1, AnswerSought
    <3> QED
      BY <1>4, <3>1, <3>2 DEF Sought
  <2> QED
    BY <2>1, <2>2
<1> QED
  BY <1>1, <1>2, <1>6

\* Nothing is pending: the pipeline is on its way to the state asked for.  A
\* seek is pending: that state is the one to come back to, and the pipeline is
\* there still, or down.
Aimed(p, w) ==
  /\ w # NULL
  /\ p.mPendingSeek < 0 => p.pipe.tgt = w
  /\ p.mPendingSeek >= 0 =>
       /\ p.mPendingState = w /\ ~p.pipe.prerolling
       /\ p.pipe.cur <= READY \/ (p.pipe.cur = w /\ p.pipe.tgt = w)

\* Then no message makes update() ask for the seek again when the pipeline is
\* down: it would note READY as the state to go back to.
Quiet(p, upd) ==
  p.mPendingSeek >= 0 /\ (p.pipe.cur <= READY \/ ~upd)
    => Free(p.pipe.bus, 1, {AsyncDone})

\* The position asked for is pending, or noted, or the origin of the media; and
\* a media that plays from elsewhere is about to be told of it.  In the first
\* media none may have been asked for: then none is noted.
Placed(p, w, x) ==
  /\ p.mPendingSeek >= 0 =>
       w = PLAYING /\ p.mPendingSeek = x /\ p.mPendingStateSeek = None
  /\ p.mPendingSeek < 0 =>
       /\ IF p.mPendingStateSeek = None THEN p.origin = x
                                        ELSE p.mPendingStateSeek = x
       /\ p.mPendingStateSeek # None
            /\ p.pipe.cur = PLAYING /\ ~p.pipe.prerolling
            => ChangeTold(p.pipe.bus)
  /\ w = PAUSED /\ x # None => p.pipe.pos = x

\* What the position also depends on: seeks only in a media that plays, no
\* pause of a stopped one, and the conversion of x86-64.
Exact ==
  SeeksPaused = FALSE /\ PausesStopped = FALSE /\ ConversionWraps = TRUE

Bound(p, w, x, upd) ==
  Shaped(p.pipe) /\ Aimed(p, w) /\ Quiet(p, upd) /\ (Exact => Placed(p, w, x))

Restorable ==
  Opened => Bound(player, wanted, position, updating)

\* Typed players compare with None as they should.
LEMMA NoneFacts ==
  ASSUME NEW p, Typed(p)
  PROVE  /\ p.mPendingSeek >= 0 <=> p.mPendingSeek # None
         /\ p.mPendingSeek < 0 <=> p.mPendingSeek = None
         /\ p.mPendingStateSeek >= 0 <=> p.mPendingStateSeek # None
<1>1. p.mPendingStateSeek \in Times \union {None} /\ Times \subseteq Nat
  BY Facts DEF Typed, Rec
<1>2. p.mPendingStateSeek >= 0 <=> p.mPendingStateSeek # None
  <2>1. CASE p.mPendingStateSeek = None
    BY <2>1 DEF None
  <2>2. CASE p.mPendingStateSeek \in Nat
    BY <2>2 DEF None
  <2> QED
    BY <1>1, <2>1, <2>2
<1> QED
  BY <1>2, SaneFacts

\* The two ways to be bound: no seek is pending, or one just was asked for.
LEMMA BoundIdle ==
  ASSUME NEW p, Typed(p), p.mPendingSeek = None, Shaped(p.pipe),
         NEW w, w # NULL, p.pipe.tgt = w, NEW x, NEW upd,
         Exact =>
           /\ IF p.mPendingStateSeek = None THEN p.origin = x
                                            ELSE p.mPendingStateSeek = x
           /\ \/ p.mPendingStateSeek = None
              \/ p.pipe.cur # PLAYING \/ p.pipe.prerolling
              \/ ChangeTold(p.pipe.bus)
           /\ w = PAUSED /\ x # None => p.pipe.pos = x
  PROVE  Bound(p, w, x, upd)
<1>1. p.mPendingSeek < 0 /\ ~(p.mPendingSeek >= 0)
  BY NoneFacts
<1> QED
  BY <1>1 DEF Bound, Aimed, Quiet, Placed

LEMMA BoundAsked ==
  ASSUME NEW p, Typed(p), p.mPendingSeek # None,
         NEW w \in {READY, PAUSED, PLAYING}, p.mPendingState = w,
         p.pipe.cur = w, p.pipe.tgt = w, ~p.pipe.prerolling,
         NEW x, NEW upd,
         Free(p.pipe.bus, 1, {AsyncDone}) \/ (upd /\ w # READY),
         Exact => /\ w = PLAYING /\ p.mPendingSeek = x
                  /\ p.mPendingStateSeek = None
  PROVE  Bound(p, w, x, upd)
<1>1. p.mPendingSeek >= 0 /\ ~(p.mPendingSeek < 0)
  BY NoneFacts
<1>2. w # NULL /\ PLAYING # PAUSED /\ (w # READY => ~(w <= READY))
  BY DEF NULL, READY, PAUSED, PLAYING
<1>3. Shaped(p.pipe)
  BY DEF Shaped
<1> QED
  BY <1>1, <1>2, <1>3 DEF Bound, Aimed, Quiet, Placed

LEMMA CallBound ==
  ASSUME Calm, Inv, Safe, Restorable, Call
  PROVE  /\ Typed(player) /\ player.pipe.bus = <<>>
         /\ ~player.pipe.prerolling /\ player.mPendingSeek = None
         /\ Awaited(player.pipe) = {player.pipe} /\ Shaped(player.pipe)
         /\ player.pipe.tgt = wanted /\ player.pipe.cur = wanted
         /\ wanted \in {READY, PAUSED, PLAYING}
         /\ Exact =>
              /\ IF player.mPendingStateSeek = None
                 THEN player.origin = position
                 ELSE /\ player.mPendingStateSeek = position
                      /\ player.pipe.cur # PLAYING
              /\ wanted = PAUSED /\ position # None
                   => player.pipe.pos = position
<1>1. /\ Typed(player) /\ player.mPendingSeek < 0 /\ player.pipe.bus = <<>>
      /\ ~player.pipe.prerolling /\ Awaited(player.pipe) = {player.pipe}
  BY CallSane
<1>2. Bound(player, wanted, position, updating) /\ ~CanAdvance(player.pipe)
  BY DEF Call, Restorable, Calm, Still
<1>3. Shaped(player.pipe) /\ player.pipe.tgt = wanted /\ wanted # NULL
  BY <1>1, <1>2 DEF Bound, Aimed
<1>4. player.pipe.cur = wanted
  BY <1>1, <1>2, <1>3 DEF Shaped, CanAdvance
<1>5. wanted \in {READY, PAUSED, PLAYING}
  BY <1>3 DEF Inv, TypeOK, States, NULL, READY, PAUSED, PLAYING
<1>6. ASSUME Exact
      PROVE  /\ IF player.mPendingStateSeek = None
                THEN player.origin = position
                ELSE /\ player.mPendingStateSeek = position
                     /\ player.pipe.cur # PLAYING
             /\ wanted = PAUSED /\ position # None
                  => player.pipe.pos = position
  BY <1>1, <1>2, <1>6, NothingTold DEF Bound, Placed
<1> QED
  BY <1>1, <1>3, <1>4, <1>5, <1>6, NoneFacts

\* stop(), from a pipeline that waits for nothing: READY, and 0 is noted.
LEMMA StopIs ==
  ASSUME NEW p, Typed(p), ~p.pipe.prerolling, p.mPendingSeek = None,
         NEW q \in Stop(p)
  PROVE  /\ Typed(q) /\ q.mPendingSeek = None /\ q.mPendingStateSeek = 0
         /\ q.pipe.cur = READY /\ q.pipe.tgt = READY /\ ~q.pipe.prerolling
<1>0. /\ NULL \in States /\ READY \in States /\ 0 \in Times
      /\ READY # NULL /\ NULL # PLAYING /\ READY # PLAYING /\ READY # PAUSED
  BY Facts DEF NULL, READY, PAUSED, PLAYING
<1>1. PICK n \in ToState(p, NULL) : q \in ToState(n, READY)
  BY DEF Stop
<1>2. PICK b \in Before(p, NULL), held \in BOOLEAN :
        /\ Typed(b) /\ b.pipe = p.pipe /\ b.mPendingSeek = None
        /\ Typed(n) /\ n.pipe = SetTo(b, NULL, held) /\ Sought(n, b)
  BY <1>0, <1>1, ToStateSought
<1>3. b.mPendingStateSeek = 0
  <2>1. b = Noted(Left(p), 0)
    BY <1>2, BeforeIs DEF NULL, PAUSED, PLAYING
  <2> QED
    BY <1>0, <2>1, LeftTyped, NotedTyped
<1>4. /\ n.pipe.cur = NULL /\ ~n.pipe.prerolling
      /\ n.mPendingSeek = None /\ n.mPendingStateSeek = 0
  <2>1. n.pipe.cur = NULL /\ ~n.pipe.prerolling
    BY <1>2, SetToDown
  <2> QED
    BY <1>0, <1>2, <1>3, <2>1 DEF Sought
<1>5. PICK c \in Before(n, READY), held2 \in BOOLEAN :
        /\ Typed(c) /\ c.pipe = n.pipe
        /\ Typed(q) /\ q.pipe = SetTo(c, READY, held2) /\ Sought(q, c)
  BY <1>0, <1>1, <1>2, <1>4, ToStateSought
<1>6. c = Left(n)
  BY <1>0, <1>5, BeforeIs
<1>7. q.pipe.cur = READY /\ q.pipe.tgt = READY /\ ~q.pipe.prerolling
  BY <1>5, SetToDown
<1> QED
  BY <1>0, <1>2, <1>4, <1>5, <1>6, <1>7, LeftTyped DEF Sought

\* play(), from READY.
LEMMA StartIs ==
  ASSUME NEW p, Typed(p), ~p.pipe.prerolling, p.pipe.cur = READY,
         p.mPendingSeek = None, NEW q \in ToState(p, PLAYING)
  PROVE  /\ Typed(q) /\ q.mPendingSeek = None /\ Shaped(q.pipe)
         /\ q.mPendingStateSeek = p.mPendingStateSeek /\ q.origin = p.origin
         /\ q.pipe.tgt = PLAYING /\ q.pipe.prerolling
<1>0. /\ PLAYING \in States /\ PLAYING # NULL /\ PLAYING # PAUSED
      /\ READY # PLAYING /\ READY <= READY
  BY Facts DEF NULL, READY, PAUSED, PLAYING
<1>1. PICK b \in Before(p, PLAYING), held \in BOOLEAN :
        /\ Typed(b) /\ b.pipe = p.pipe /\ b.mPendingSeek = None
        /\ Typed(q) /\ q.pipe = SetTo(b, PLAYING, held) /\ Sought(q, b)
  BY <1>0, ToStateSought
<1>2. b = p
  BY <1>0, <1>1, BeforeIs
<1>3. q.pipe.cur = READY /\ q.pipe.tgt = PLAYING /\ q.pipe.prerolling
  BY <1>0, <1>1, SetToStart
<1>4. Shaped(q.pipe)
  BY <1>0, <1>3 DEF Shaped
<1> QED
  BY <1>0, <1>1, <1>2, <1>3, <1>4 DEF Sought

\* play(), from PAUSED or PLAYING: what was noted is sought at once.
LEMMA PlayOnIs ==
  ASSUME NEW p, Typed(p), ~p.pipe.prerolling,
         p.pipe.cur \in {PAUSED, PLAYING}, p.pipe.bus = <<>>,
         p.mPendingSeek = None, NEW q \in ToState(p, PLAYING)
  PROVE  /\ Typed(q) /\ Shaped(q.pipe) /\ Sought(q, p)
         /\ q.pipe.cur = PLAYING /\ q.pipe.tgt = PLAYING /\ ~q.pipe.prerolling
         /\ Free(q.pipe.bus, 1, {AsyncDone})
<1>0. /\ PLAYING \in States /\ PAUSED \in States
      /\ PLAYING # NULL /\ PLAYING # PAUSED /\ PAUSED > READY /\ PLAYING > READY
  BY Facts DEF NULL, READY, PAUSED, PLAYING
<1>1. PICK b \in Before(p, PLAYING), held \in BOOLEAN :
        /\ Typed(b) /\ b.pipe = p.pipe
        /\ Typed(q) /\ q.pipe = SetTo(b, PLAYING, held) /\ Sought(q, b)
  BY <1>0, ToStateSought
<1>2. b = p
  BY <1>0, <1>1, BeforeIs
<1>3. /\ q.pipe.cur = PLAYING /\ q.pipe.tgt = PLAYING /\ ~q.pipe.prerolling
      /\ \/ q.pipe.bus = <<>>
         \/ q.pipe.bus = Append(<<>>, StateMsg(p.pipe.cur, PLAYING))
  <2>1. b.pipe.cur > READY /\ ~b.pipe.prerolling /\ b.pipe.bus = <<>>
    BY <1>0, <1>1
  <2>2. /\ q.pipe.tgt = PLAYING
        /\ ~q.pipe.prerolling /\ q.pipe.cur = PLAYING
        /\ q.pipe.bus = IF b.pipe.cur = PLAYING THEN b.pipe.bus
                        ELSE Append(b.pipe.bus,
                                    StateMsg(b.pipe.cur, PLAYING))
    BY <1>0, <1>1, <2>1, SetToChange
  <2> QED
    BY <1>1, <2>1, <2>2
<1>4. Shaped(q.pipe)
  BY <1>3 DEF Shaped
<1>5. Free(<<>>, 1, {AsyncDone})
  BY DEF Free
<1>6. Free(Append(<<>>, StateMsg(p.pipe.cur, PLAYING)), 1, {AsyncDone})
  <2>1. StateMsg(p.pipe.cur, PLAYING) \in Messages /\ <<>> \in Seq(Messages)
    BY <1>0, StateMsgType
  <2>2. StateMsg(p.pipe.cur, PLAYING) # AsyncDone
    BY DEF StateMsg, AsyncDone, Msg
  <2> QED
    BY <1>5, <2>1, <2>2, FreeAppend
<1> QED
  BY <1>1, <1>2, <1>3, <1>4, <1>5, <1>6

\* pause(), from PAUSED or PLAYING: what is noted is where the media stays.
LEMMA PauseIs ==
  ASSUME NEW p, Typed(p), ~p.pipe.prerolling,
         p.pipe.cur \in {PAUSED, PLAYING}, p.pipe.tgt = p.pipe.cur,
         p.pipe.bus = <<>>, p.mPendingSeek = None,
         NEW q \in ToState(p, PAUSED)
  PROVE  /\ Typed(q) /\ Shaped(q.pipe) /\ q.mPendingSeek = None
         /\ q.pipe.tgt = PAUSED
         /\ q.pipe.cur = PAUSED \/ q.pipe.prerolling
         /\ q.mPendingStateSeek = q.pipe.pos /\ q.mPendingStateSeek # None
         /\ q.pipe.pos = q.mTime
         /\ p.pipe.cur = PAUSED => q.pipe.pos = p.pipe.pos
<1>0. /\ PAUSED \in States /\ PAUSED # NULL /\ PAUSED # PLAYING
      /\ PAUSED > READY /\ PLAYING > READY /\ ~(PAUSED <= READY)
      /\ ~(PLAYING <= READY)
  BY Facts DEF NULL, READY, PAUSED, PLAYING
<1>1. PICK b \in Before(p, PAUSED), held \in BOOLEAN :
        /\ Typed(b) /\ b.pipe = p.pipe /\ b.mPendingSeek = None
        /\ Typed(q) /\ q.pipe = SetTo(b, PAUSED, held) /\ Sought(q, b)
  BY <1>0, ToStateSought
<1>2. PICK c \in GetTime(Left(p)) : b = Noted(c, c.mTime)
  BY <1>0, <1>1, BeforeIs
<1>3. PICK t \in IF p.pipe.tgt = PLAYING THEN Times ELSE {p.pipe.pos} :
        c = Timed(Left(p), t)
  BY <1>0, <1>2, GetTimeIs, LeftTyped
<1>4. t \in Times /\ (p.pipe.cur = PAUSED => t = p.pipe.pos)
  BY <1>0, <1>3, PipeTyped
<1>5. Typed(c) /\ c.mTime = t
  BY <1>3, <1>4, LeftTyped, TimedTyped
<1>6. b.mPendingStateSeek = t /\ b.mTime = t
  BY <1>2, <1>4, <1>5, NotedTyped
<1>7. /\ q.pipe.tgt = PAUSED
      /\ q.pipe.pos = IF p.pipe.cur = PLAYING THEN b.mTime ELSE p.pipe.pos
      /\ \/ ~q.pipe.prerolling /\ q.pipe.cur = PAUSED
         \/ q.pipe.prerolling /\ q.pipe.bus = <<>>
  BY <1>0, <1>1, SetToChange
<1>8. Shaped(q.pipe)
  BY <1>0, <1>7 DEF Shaped
<1>9. /\ q.mPendingSeek = None /\ q.mPendingStateSeek = t /\ q.mTime = t
  BY <1>0, <1>1, <1>6, <1>7 DEF Sought
<1> QED
  BY <1>0, <1>1, <1>4, <1>6, <1>7, <1>8, <1>9, Facts

LEMMA BoundRestorable ==
  ASSUME Typed(player'), Bound(player', wanted', position', updating')
  PROVE  Restorable'
<1>1. Opened'
  BY PipeTyped, Facts DEF Opened
<1> QED
  BY <1>1 DEF Restorable

LEMMA OpenBound ==
  ASSUME Inv, Restorable, UserOpen
  PROVE  Restorable'
<1> USE DEF NULL, READY, PAUSED, PLAYING
<1> DEFINE first == SetState(Launched, READY, TRUE)
           up == SetState(first, PAUSED, TRUE)
           pipe == Preroll(up)
<1>1. Launched \in Pipelines /\ Launched.pos = 0
  BY Facts DEF Launched, Pipelines
<1>2. first \in Pipelines /\ first.pos = 0 /\ first.cur = READY
  <2>1. first \in Pipelines
    BY <1>1, Facts, SetStateType
  <2>2. first.pos = 0
    BY <1>1, Facts, SetStatePos
  <2>3. first.cur = READY
    BY <1>1 DEF SetState, Rewind, Pipelines
  <2> QED
    BY <2>1, <2>2, <2>3
<1> HIDE DEF first
<1>3. up \in Pipelines /\ up.pos = 0 /\ up.tgt = PAUSED
  <2>1. up \in Pipelines
    BY <1>2, Facts, SetStateType
  <2>2. up.pos = 0
    BY <1>2, Facts, SetStatePos
  <2>3. up.tgt = PAUSED
    BY <1>2 DEF SetState, Start, Pipelines
  <2> QED
    BY <2>1, <2>2, <2>3
<1> HIDE DEF up
<1>4. /\ pipe \in Pipelines /\ pipe.pos = 0
      /\ pipe.cur = PAUSED /\ pipe.tgt = PAUSED /\ pipe.prerolling = FALSE
  <2>1. pipe \in Pipelines /\ pipe.pos = 0
    BY <1>3, PrerollType, StepPos
  <2> QED
    BY <1>3, <2>1 DEF Preroll, Pipelines
<1>5. /\ player' = [Reset(player) EXCEPT !.pipe = pipe]
      /\ wanted' = PAUSED /\ position' = PositionReset
  BY DEF UserOpen, up, first
<1> HIDE DEF pipe
<1>6. /\ Typed(player') /\ player'.pipe = pipe
      /\ player'.mPendingSeek = None /\ player'.origin = None
  BY <1>4, <1>5, OpenTyped, Facts DEF Inv
<1>7. player'.mPendingStateSeek = IF Opened THEN 0
                                  ELSE player.mPendingStateSeek
  BY <1>5 DEF Reset, Inv, TypeOK, Opened
<1>8. player'.mPendingStateSeek = position' /\ position' \in {0, None}
  BY <1>5, <1>7 DEF PositionReset, Inv
<1>9. Shaped(pipe)
  BY <1>4 DEF Shaped
<1>10. Bound(player', PAUSED, position', updating')
  <2>1. PAUSED # NULL /\ PAUSED # PLAYING
    OBVIOUS
  <2> QED
    BY <1>4, <1>6, <1>8, <1>9, <2>1, BoundIdle
<1> QED
  BY <1>5, <1>6, <1>10, BoundRestorable

LEMMA PlayBound ==
  ASSUME Calm, Inv, Safe, Restorable, UserPlay
  PROVE  Restorable'
<1>1. /\ Typed(player) /\ player.pipe.bus = <<>>
      /\ ~player.pipe.prerolling /\ player.mPendingSeek = None
      /\ player.pipe.tgt = wanted /\ player.pipe.cur = wanted
      /\ wanted \in {READY, PAUSED, PLAYING}
      /\ Exact => IF player.mPendingStateSeek = None
                  THEN player.origin = position
                  ELSE /\ player.mPendingStateSeek = position
                       /\ player.pipe.cur # PLAYING
  BY CallBound DEF UserPlay
<1>2. /\ player' \in ToState(player, PLAYING) /\ wanted' = PLAYING
      /\ position' = position /\ updating' = updating
  BY DEF UserPlay
<1>3. PLAYING # NULL /\ PLAYING # PAUSED
  BY DEF NULL, PAUSED, PLAYING
<1>4. CASE player.pipe.cur = READY
  <2>1. /\ Typed(player') /\ player'.mPendingSeek = None
        /\ Shaped(player'.pipe)
        /\ player'.mPendingStateSeek = player.mPendingStateSeek
        /\ player'.origin = player.origin
        /\ player'.pipe.tgt = PLAYING /\ player'.pipe.prerolling
    BY <1>1, <1>2, <1>4, StartIs
  <2>2. Bound(player', PLAYING, position, updating)
    BY <1>1, <1>3, <2>1, BoundIdle
  <2> QED
    BY <1>2, <2>1, <2>2, BoundRestorable
<1>5. CASE player.pipe.cur \in {PAUSED, PLAYING}
  <2>1. /\ Typed(player') /\ Shaped(player'.pipe) /\ Sought(player', player)
        /\ player'.pipe.cur = PLAYING /\ player'.pipe.tgt = PLAYING
        /\ ~player'.pipe.prerolling
        /\ Free(player'.pipe.bus, 1, {AsyncDone})
    BY <1>1, <1>2, <1>5, PlayOnIs
  <2>2. CASE player.mPendingStateSeek = None
    <3>1. /\ player'.mPendingSeek = None /\ player'.mPendingStateSeek = None
          /\ player'.origin = player.origin
      BY <1>1, <2>1, <2>2, NoneFacts DEF Sought
    <3>2. Bound(player', PLAYING, position, updating)
      BY <1>1, <1>3, <2>1, <2>2, <3>1, BoundIdle
    <3> QED
      BY <1>2, <2>1, <3>2, BoundRestorable
  <2>3. CASE player.mPendingStateSeek # None
    <3>1. /\ player'.mPendingSeek = player.mPendingStateSeek
          /\ player'.mPendingState = PLAYING
          /\ player'.mPendingStateSeek = None
      BY <1>1, <2>1, <2>3, NoneFacts DEF Sought
    <3>2. Bound(player', PLAYING, position, updating)
      BY <1>1, <2>1, <2>3, <3>1, BoundAsked DEF PLAYING
    <3> QED
      BY <1>2, <2>1, <3>2, BoundRestorable
  <2> QED
    BY <2>2, <2>3
<1> QED
  BY <1>1, <1>4, <1>5

LEMMA PauseBound ==
  ASSUME Calm, Inv, Safe, Restorable, UserPause
  PROVE  Restorable'
<1>1. /\ Typed(player) /\ player.pipe.bus = <<>>
      /\ ~player.pipe.prerolling /\ player.mPendingSeek = None
      /\ player.pipe.tgt = wanted /\ player.pipe.cur = wanted
      /\ wanted \in {READY, PAUSED, PLAYING}
      /\ Exact => (wanted = PAUSED /\ position # None
                     => player.pipe.pos = position)
  BY CallBound DEF UserPause
<1>2. /\ player' \in ToState(player, PAUSED) /\ wanted' = PAUSED
      /\ position' = IF \/ wanted = PLAYING /\ player.pipe.cur > READY
                        \/ position = None
                     THEN player'.mTime ELSE position
      /\ PausesStopped \/ wanted # READY
  BY DEF UserPause
<1>3. /\ PAUSED # NULL /\ PAUSED # PLAYING /\ PLAYING > READY
      /\ READY <= READY /\ PAUSED \in States
  BY Facts DEF NULL, READY, PAUSED, PLAYING
<1>4. CASE player.pipe.cur = READY
  <2>1. PICK b \in Before(player, PAUSED), held \in BOOLEAN :
          /\ Typed(b) /\ b.pipe = player.pipe /\ b.mPendingSeek = None
          /\ Typed(player') /\ player'.pipe = SetTo(b, PAUSED, held)
          /\ Sought(player', b)
    BY <1>1, <1>2, <1>3, ToStateSought
  <2>2. /\ player'.pipe.cur = READY /\ player'.pipe.tgt = PAUSED
        /\ player'.pipe.prerolling
    BY <1>3, <1>4, <2>1, SetToStart
  <2>3. READY # PLAYING
    BY DEF READY, PLAYING
  <2>4. Shaped(player'.pipe) /\ player'.mPendingSeek = None
    BY <1>3, <2>1, <2>2, <2>3 DEF Shaped, Sought
  <2>5. ~Exact
    BY <1>1, <1>2, <1>4 DEF Exact
  <2>6. Bound(player', PAUSED, position', updating')
    BY <1>3, <2>1, <2>2, <2>4, <2>5, BoundIdle
  <2> QED
    BY <1>2, <2>1, <2>6, BoundRestorable
<1>5. CASE player.pipe.cur \in {PAUSED, PLAYING}
  <2>1. /\ Typed(player') /\ Shaped(player'.pipe)
        /\ player'.mPendingSeek = None /\ player'.pipe.tgt = PAUSED
        /\ player'.pipe.cur = PAUSED \/ player'.pipe.prerolling
        /\ player'.mPendingStateSeek = player'.pipe.pos
        /\ player'.mPendingStateSeek # None
        /\ player'.pipe.pos = player'.mTime
        /\ player.pipe.cur = PAUSED => player'.pipe.pos = player.pipe.pos
    BY <1>1, <1>2, <1>5, PauseIs
  <2>2. Exact => player'.pipe.pos = position'
    BY <1>1, <1>2, <1>3, <1>5, <2>1
  <2>3. Bound(player', PAUSED, position', updating')
    BY <1>3, <2>1, <2>2, BoundIdle
  <2> QED
    BY <1>2, <2>1, <2>3, BoundRestorable
<1> QED
  BY <1>1, <1>4, <1>5

LEMMA StopBound ==
  ASSUME Calm, Inv, Safe, Restorable, UserStop \/ UserReplay
  PROVE  Restorable'
<1>1. /\ Typed(player) /\ ~player.pipe.prerolling
      /\ player.mPendingSeek = None /\ position' = 0
  BY CallBound DEF UserStop, UserReplay
<1>2. /\ 0 # None /\ READY # NULL /\ READY # PLAYING /\ READY # PAUSED
      /\ PLAYING # NULL /\ PLAYING # PAUSED
  BY Facts DEF NULL, READY, PAUSED, PLAYING
<1>3. CASE UserStop
  <2>1. /\ Typed(player') /\ player'.mPendingSeek = None
        /\ player'.mPendingStateSeek = 0
        /\ player'.pipe.cur = READY /\ player'.pipe.tgt = READY
        /\ ~player'.pipe.prerolling
    BY <1>1, <1>3, StopIs DEF UserStop
  <2>2. Shaped(player'.pipe)
    BY <2>1 DEF Shaped
  <2>3. Bound(player', READY, 0, updating')
    BY <1>2, <2>1, <2>2, BoundIdle
  <2> QED
    BY <1>1, <1>3, <2>1, <2>3, BoundRestorable DEF UserStop
<1>4. CASE UserReplay
  <2>1. PICK p \in Stop(player) : player' \in ToState(p, PLAYING)
    BY <1>4 DEF UserReplay, Replay
  <2>2. /\ Typed(p) /\ p.mPendingSeek = None /\ p.mPendingStateSeek = 0
        /\ p.pipe.cur = READY /\ ~p.pipe.prerolling
    BY <1>1, StopIs
  <2>3. /\ Typed(player') /\ player'.mPendingSeek = None
        /\ Shaped(player'.pipe) /\ player'.mPendingStateSeek = 0
        /\ player'.pipe.tgt = PLAYING /\ player'.pipe.prerolling
    BY <2>1, <2>2, StartIs
  <2>4. Bound(player', PLAYING, 0, updating')
    BY <1>2, <2>3, BoundIdle
  <2> QED
    BY <1>1, <1>4, <2>3, <2>4, BoundRestorable DEF UserReplay
<1> QED
  BY <1>3, <1>4

LEMMA UserBound ==
  ASSUME Calm, Inv, Safe, Restorable, UserCall
  PROVE  Restorable'
<1>1. CASE UserClose
  <2>1. player' = Reset(player)
    BY <1>1 DEF UserClose
  <2>2. player'.pipe = NoPipeline
    BY <2>1 DEF Reset, Inv, TypeOK
  <2> QED
    BY <2>2 DEF Restorable, Opened
<1>2. ASSUME NEW t \in Times, UserSetTime(t) PROVE Restorable'
  <2>1. /\ Typed(player) /\ player.pipe.bus = <<>>
        /\ ~player.pipe.prerolling /\ Awaited(player.pipe) = {player.pipe}
        /\ player.pipe.tgt = wanted /\ player.pipe.cur = wanted
        /\ wanted \in {READY, PAUSED, PLAYING}
        /\ Exact => (player.pipe.cur = PLAYING
                       => player.mPendingStateSeek = None)
    BY <1>2, CallBound DEF UserSetTime
  <2>2. /\ player' \in SetTime(player, t) /\ position' = t
        /\ wanted' = wanted /\ updating' = updating
        /\ Exact => wanted = PLAYING
    BY <1>2 DEF UserSetTime, Exact
  <2>3. PICK r \in QueryState(player) : player' = Asking(r, t)
    BY <2>2, SetTimeIs
  <2>4. /\ Typed(r) /\ r.pipe = player.pipe /\ r.mState = wanted
        /\ r.mPendingStateSeek = player.mPendingStateSeek
    BY <2>1, <2>2, <2>3, QueryStateTyped
  <2>5. /\ Typed(player') /\ player'.pipe = player.pipe
        /\ player'.mPendingSeek = t /\ player'.mPendingState = wanted
        /\ player'.mPendingStateSeek = player.mPendingStateSeek
    BY <2>3, <2>4, AskingTyped
  <2>6. Free(player'.pipe.bus, 1, {AsyncDone})
    BY <2>1, <2>5 DEF Free
  <2>7. Bound(player', wanted, t, updating')
    <3>1. player'.mPendingSeek # None
      BY <2>5, Facts
    <3> QED
      BY <2>1, <2>2, <2>5, <2>6, <3>1, BoundAsked
  <2> QED
    BY <2>2, <2>5, <2>7, BoundRestorable
<1>3. CASE UserQueryState
  <2>1. /\ Typed(player) /\ Awaited(player.pipe) = {player.pipe}
        /\ Bound(player, wanted, position, updating)
    BY <1>3, CallBound DEF UserQueryState, Call, Restorable
  <2>2. player' \in QueryState(player)
        /\ UNCHANGED <<updating, wanted, position>>
    BY <1>3 DEF UserQueryState, history
  <2>3. /\ Typed(player') /\ player'.pipe = player.pipe
        /\ player'.mPendingSeek = player.mPendingSeek
        /\ SameGoal(player', player)
    BY <2>1, <2>2, QueryStateTyped
  <2>4. Bound(player', wanted, position, updating)
    BY <2>1, <2>3 DEF Bound, Aimed, Quiet, Placed, SameGoal
  <2> QED
    BY <2>2, <2>3, <2>4, BoundRestorable
<1>4. CASE UserSetLoop
  BY <1>4 DEF UserSetLoop, history, Restorable, Opened
<1> QED
  BY <1>1, <1>2, <1>3, <1>4, OpenBound, PlayBound, PauseBound, StopBound
  DEF UserCall

LEMMA UpdateBeginBound ==
  ASSUME Inv, Safe, Restorable, UpdateBegin
  PROVE  Restorable'
<1>0. /\ Typed(player) /\ Sane(player) /\ ~updating /\ updating' = TRUE
      /\ wanted' = wanted /\ position' = position
      /\ Bound(player, wanted, position, FALSE)
  BY DEF UpdateBegin, Safe, Sane, Restorable, history, Inv, TypeOK
<1>1. PICK p \in Heartbeat(player) : \E q \in PendingSeek(p) :
        /\ player' = Counted(q)
        /\ Typed(p) /\ Typed(q) /\ Typed(Counted(q))
        /\ p.pipe = player.pipe /\ p.mState = player.mState
        /\ p.mPendingSeek = player.mPendingSeek
        /\ player'.pipe = q.pipe /\ player'.mState = q.mState
        /\ player'.mPendingSeek = q.mPendingSeek
        /\ SameGoal(p, player) /\ SameGoal(player', q)
  BY UpdateBeginIs
<1>2. PICK q \in PendingSeek(p) :
        /\ Typed(p) /\ Typed(player')
        /\ p.pipe = player.pipe /\ p.mState = player.mState
        /\ p.mPendingSeek = player.mPendingSeek
        /\ player'.pipe = q.pipe /\ player'.mPendingSeek = q.mPendingSeek
        /\ SameGoal(p, player) /\ SameGoal(player', q)
  BY <1>1
<1>3. \/ p.mPendingSeek < 0 /\ q = p
      \/ /\ p.mPendingSeek >= 0 /\ p.mState # READY
         /\ q.pipe = SetState(p.pipe, READY, TRUE)
         /\ q.mPendingSeek = p.mPendingSeek /\ SameGoal(q, p)
      \/ /\ p.mPendingSeek >= 0 /\ p.mState = READY
         /\ q.pipe = SetState(p.pipe, p.mPendingState, TRUE)
         /\ q.mPendingSeek = None /\ q.origin \in Moved(p)
         /\ q.mPendingStateSeek = p.mPendingStateSeek
  BY <1>2, PendingSeekTyped
<1>4. p.pipe \in Pipelines
  BY <1>2, PipeTyped
<1>5. ASSUME Bound(player', wanted, position, TRUE) PROVE Restorable'
  BY <1>0, <1>2, <1>5, BoundRestorable
<1>6. CASE p.mPendingSeek < 0 /\ q = p
  <2>1. ~(player'.mPendingSeek >= 0)
    BY <1>2, <1>6, SaneFacts
  <2>2. Bound(player', wanted, position, TRUE)
    BY <1>0, <1>2, <1>6, <2>1 DEF Bound, Aimed, Quiet, Placed, SameGoal
  <2> QED
    BY <1>5, <2>2
<1>7. CASE /\ p.mPendingSeek >= 0 /\ p.mState # READY
           /\ q.pipe = SetState(p.pipe, READY, TRUE)
           /\ q.mPendingSeek = p.mPendingSeek /\ SameGoal(q, p)
  <2>1. ~(player'.mPendingSeek < 0) /\ ~(player.mPendingSeek < 0)
    BY <1>0, <1>2, <1>7, SaneFacts
  <2>2. /\ q.pipe.cur = READY /\ q.pipe.tgt = READY /\ q.pipe.prerolling = FALSE
        /\ q.pipe.bus = p.pipe.bus \o Descent(p.pipe.cur)
    <3>1. q.pipe = Rewind(p.pipe, READY)
      BY <1>7 DEF SetState, READY
    <3>2. \A r \in Pipelines :
            /\ Rewind(r, READY).cur = READY /\ Rewind(r, READY).tgt = READY
            /\ Rewind(r, READY).prerolling = FALSE
            /\ Rewind(r, READY).bus = r.bus \o Descent(r.cur)
      BY DEF Rewind, Pipelines, NULL, READY
    <3> QED
      BY <1>4, <3>1, <3>2
  <2>3. Free(p.pipe.bus, 1, {AsyncDone})
    BY <1>0, <1>2, <1>7 DEF Bound, Quiet
  <2>4. \A old \in States, new \in States : StateMsg(old, new) \notin {AsyncDone}
    BY DEF StateMsg, AsyncDone, Msg
  <2>5. Free(q.pipe.bus, 1, {AsyncDone})
    BY <1>4, <2>2, <2>3, <2>4, DescentFree
  <2>6. Shaped(q.pipe) /\ READY <= READY /\ PLAYING # PAUSED
    BY <2>2 DEF Shaped, READY, PAUSED, PLAYING
  <2>7. Aimed(player', wanted) /\ Quiet(player', TRUE) /\ Shaped(player'.pipe)
    BY <1>0, <1>2, <1>7, <2>1, <2>2, <2>5, <2>6
    DEF Bound, Aimed, Quiet, SameGoal
  <2>8. Exact => Placed(player', wanted, position)
    BY <1>0, <1>2, <1>7, <2>1, <2>6 DEF Bound, Aimed, Placed, SameGoal
  <2> QED
    BY <1>5, <2>7, <2>8 DEF Bound
<1>8. CASE /\ p.mPendingSeek >= 0 /\ p.mState = READY
           /\ q.pipe = SetState(p.pipe, p.mPendingState, TRUE)
           /\ q.mPendingSeek = None /\ q.origin \in Moved(p)
           /\ q.mPendingStateSeek = p.mPendingStateSeek
  <2>1. player.pipe.cur <= READY
    BY <1>0, <1>2, <1>8 DEF Sane
  <2>2. p.mPendingState = wanted /\ wanted \in {READY, PAUSED, PLAYING}
    <3>1. p.mPendingState = wanted /\ wanted # NULL
      BY <1>0, <1>2, <1>8 DEF Bound, Aimed, SameGoal
    <3> QED
      BY <3>1 DEF Inv, TypeOK, States, NULL, READY, PAUSED, PLAYING
  <2>3. q.pipe.tgt = wanted /\ Shaped(q.pipe)
    <3>1. \/ wanted = READY /\ q.pipe = Rewind(p.pipe, READY)
          \/ wanted # READY /\ q.pipe = Start(p.pipe, wanted)
      BY <1>2, <1>8, <2>1, <2>2 DEF SetState, READY, PAUSED, PLAYING
    <3>2. \A r \in Pipelines :
            /\ Rewind(r, READY).cur = READY /\ Rewind(r, READY).tgt = READY
            /\ Rewind(r, READY).prerolling = FALSE
            /\ Start(r, wanted).cur = READY /\ Start(r, wanted).tgt = wanted
            /\ Start(r, wanted).prerolling = TRUE
      BY DEF Rewind, Start, Pipelines
    <3> QED
      BY <1>4, <2>2, <3>1, <3>2 DEF Shaped, READY, PAUSED, PLAYING
  <2>4. wanted # NULL
    BY <2>2 DEF NULL, READY, PAUSED, PLAYING
  <2>5. ASSUME Exact
        PROVE  /\ player'.mPendingStateSeek = None
               /\ player'.origin = position /\ wanted # PAUSED
    <3>0. PAUSED # PLAYING
      BY DEF PAUSED, PLAYING
    <3>1. /\ p.mPendingSeek = position /\ p.mPendingStateSeek = None
          /\ wanted = PLAYING
      BY <1>0, <1>2, <1>8, <2>5 DEF Bound, Placed, SameGoal
    <3>2. q.origin = p.mPendingSeek
      BY <1>8, <2>2, <2>5, <3>1 DEF Exact, Moved
    <3> QED
      BY <1>2, <1>8, <3>0, <3>1, <3>2 DEF SameGoal
  <2>6. Bound(player', wanted, position, TRUE)
    BY <1>2, <1>8, <2>3, <2>4, <2>5, BoundIdle
  <2> QED
    BY <1>5, <2>6
<1> QED
  BY <1>3, <1>6, <1>7, <1>8

LEMMA HandleBound ==
  ASSUME Inv, Safe, Restorable, Handle
  PROVE  Restorable'
<1> DEFINE msg == Head(player.pipe.bus)
<1>0. updating /\ player.pipe.bus # <<>> /\ Opened
  BY DEF Handle, HandleStateChanged, HandleAsyncDone, HandleEos, Popped, Inv
<1>1. /\ Typed(Rest) /\ Typed(player) /\ msg \in Messages
      /\ Rest.pipe = Pop(player.pipe)
      /\ Rest.mPendingSeek = player.mPendingSeek /\ SameGoal(Rest, player)
      /\ player.pipe \in Pipelines /\ player.pipe.bus \in Seq(Messages)
      /\ Free(player.pipe.bus, 1, {Eos})
  BY <1>0, RestTyped, RestSane, PipeTyped DEF Pipelines
<1>2. /\ Shaped(player.pipe) /\ Aimed(player, wanted) /\ Quiet(player, TRUE)
      /\ Exact => Placed(player, wanted, position)
  BY <1>0 DEF Restorable, Bound
<1>3. /\ Rest.pipe \in Pipelines
      /\ Rest.pipe.cur = player.pipe.cur /\ Rest.pipe.tgt = player.pipe.tgt
      /\ Rest.pipe.pos = player.pipe.pos
      /\ Rest.pipe.prerolling = player.pipe.prerolling
      /\ Rest.pipe.bus = Tail(player.pipe.bus)
  <2>1. \A r \in Pipelines :
          /\ Pop(r).cur = r.cur /\ Pop(r).tgt = r.tgt /\ Pop(r).pos = r.pos
          /\ Pop(r).prerolling = r.prerolling /\ Pop(r).bus = Tail(r.bus)
    BY DEF Pop, Pipelines
  <2> QED
    BY <1>1, <2>1, PipeTyped
<1>4. ~(player.pipe.prerolling /\ player.pipe.cur = PLAYING)
  BY <1>0, <1>2 DEF Shaped
<1>5. Shaped(Rest.pipe)
  BY <1>2, <1>3, <1>4 DEF Shaped
<1>6. Quiet(Rest, TRUE)
  <2>1. Free(player.pipe.bus, 1, {AsyncDone})
          => Free(Tail(player.pipe.bus), 1, {AsyncDone})
    BY <1>0, <1>1, FreeTail
  <2> QED
    BY <1>1, <1>2, <1>3, <2>1 DEF Quiet
<1>7. Aimed(Rest, wanted)
  BY <1>1, <1>2, <1>3 DEF Aimed, SameGoal
\* A message that does not lead to a comparison of the state.
<1>8. ASSUME Exact, ~(msg.type = "state_changed" /\ msg.old # msg.new)
      PROVE  Placed(Rest, wanted, position)
  <2>1. ChangeTold(player.pipe.bus) => ChangeTold(Rest.pipe.bus)
    BY <1>0, <1>1, <1>3, <1>8, ChangeTail
  <2> QED
    BY <1>1, <1>2, <1>3, <1>8, <2>1 DEF Placed, SameGoal
<1> HIDE DEF msg
<1>9. CASE HandleStateChanged
  <2>0. UNCHANGED <<updating, wanted, position>>
    BY <1>9 DEF HandleStateChanged, history
  <2>1. PICK new \in States :
          /\ msg.type = "state_changed"
          /\ Typed(Told(Rest, new))
          /\ player' \in IF msg.old # msg.new
                         THEN OnStateChanged(Told(Rest, new))
                         ELSE {Told(Rest, new)}
    BY <1>9, HandleStateChangedIs DEF msg
  <2> DEFINE told == Told(Rest, new)
  <2>2. /\ Typed(told) /\ told.pipe = Rest.pipe
        /\ told.mPendingSeek = Rest.mPendingSeek
        /\ SameGoal(told, Rest)
    BY <1>1, <2>1, ToldTyped
  <2>3. /\ player' \in IF msg.old # msg.new THEN OnStateChanged(told)
                       ELSE {told}
    BY <2>1
  <2> HIDE DEF told
  <2>4. CASE msg.old = msg.new
    <3>1. player' = told
      BY <2>3, <2>4
    <3>2. Exact => Placed(Rest, wanted, position)
      BY <1>8, <2>4
    <3>3. Bound(told, wanted, position, TRUE)
      BY <1>5, <1>6, <1>7, <2>2, <3>2
      DEF Bound, Aimed, Quiet, Placed, SameGoal
    <3> QED
      BY <1>0, <2>0, <2>2, <3>1, <3>3, BoundRestorable
  <2>5. CASE msg.old # msg.new
    <3>1. /\ Typed(player') /\ player'.pipe \in Awaited(Rest.pipe)
          /\ Sought(player', told)
      BY <1>3, <1>4, <1>5, <2>2, <2>3, <2>5, AnswerSought
    <3>2. /\ Shaped(player'.pipe) /\ player'.pipe.tgt = Rest.pipe.tgt
          /\ player'.pipe.pos = Rest.pipe.pos
          /\ ~Rest.pipe.prerolling
               /\ (Rest.pipe.cur # PAUSED \/ Rest.pipe.tgt # PLAYING)
               => player'.pipe = Rest.pipe
      BY <1>3, <1>5, <3>1, AwaitedShaped
    <3>3. /\ PLAYING # PAUSED /\ READY # PAUSED /\ ~(PAUSED <= READY)
          /\ ~(PLAYING <= READY)
      BY DEF READY, PAUSED, PLAYING
    \* A position noted is sought now.
    <3>4. CASE /\ player'.pipe.cur = PLAYING /\ ~player'.pipe.prerolling
               /\ told.mPendingStateSeek >= 0
      <4>1. /\ player'.mPendingSeek = told.mPendingStateSeek
            /\ player'.mPendingState = PLAYING
            /\ player'.mPendingStateSeek = None
        BY <3>1, <3>4 DEF Sought
      <4>2. wanted = PLAYING /\ player'.pipe.tgt = PLAYING
        <5>1. player'.pipe.tgt = PLAYING
          BY <3>2, <3>3, <3>4 DEF Shaped
        <5>2. player.mPendingSeek < 0 \/ player.mPendingSeek >= 0
          BY <1>1, SaneFacts
        <5>3. CASE player.mPendingSeek >= 0 /\ player.pipe.cur <= READY
          BY <1>2, <1>3, <3>2, <3>3, <3>4, <5>3 DEF Aimed
        <5> QED
          BY <1>2, <1>3, <3>2, <5>1, <5>2, <5>3 DEF Aimed
      <4>3. player'.mPendingSeek # None
        BY <2>2, <3>4, <4>1, NoneFacts
      <4>4. Exact => player'.mPendingSeek = position
        <5>1. told.mPendingStateSeek = player.mPendingStateSeek
              /\ player.mPendingStateSeek # None
          BY <1>1, <2>2, <4>1, <4>3 DEF SameGoal
        <5>2. player.mPendingSeek < 0 \/ player.mPendingSeek >= 0
          BY <1>1, SaneFacts
        <5> QED
          BY <1>2, <4>1, <5>1, <5>2 DEF Placed
      <4>5. Bound(player', PLAYING, position, TRUE)
        <5>1. PLAYING # READY /\ PLAYING \in {READY, PAUSED, PLAYING}
          BY DEF READY, PLAYING
        <5>2. Exact => /\ PLAYING = PLAYING /\ player'.mPendingSeek = position
                       /\ player'.mPendingStateSeek = None
          BY <4>1, <4>4
        <5> QED
          BY <3>1, <3>4, <4>1, <4>2, <4>3, <5>1, <5>2, BoundAsked
      <4> QED
        BY <1>0, <2>0, <3>1, <4>2, <4>5, BoundRestorable
    \* Otherwise the query is all.
    <3>5. CASE ~(/\ player'.pipe.cur = PLAYING /\ ~player'.pipe.prerolling
                 /\ told.mPendingStateSeek >= 0)
      <4>1. /\ player'.mPendingSeek = player.mPendingSeek
            /\ player'.mPendingState = player.mPendingState
            /\ player'.mPendingStateSeek = player.mPendingStateSeek
            /\ player'.origin = player.origin
        BY <1>1, <2>2, <3>1, <3>5 DEF Sought, SameGoal
      <4>2. CASE player.mPendingSeek = None
        <5>1. player'.mPendingSeek = None /\ player.mPendingSeek < 0
                /\ wanted # NULL /\ player'.pipe.tgt = wanted
          BY <1>1, <1>2, <1>3, <3>2, <4>1, <4>2, NoneFacts DEF Aimed
        <5>2. \/ player'.mPendingStateSeek = None
              \/ player'.pipe.cur # PLAYING \/ player'.pipe.prerolling
          BY <2>2, <3>1, <3>5, <4>1, NoneFacts, <1>1 DEF SameGoal
        <5>3. Exact =>
                /\ IF player'.mPendingStateSeek = None
                   THEN player'.origin = position
                   ELSE player'.mPendingStateSeek = position
                /\ wanted = PAUSED /\ position # None
                     => player'.pipe.pos = position
          BY <1>2, <1>3, <3>2, <4>1, <5>1 DEF Placed
        <5>4. Bound(player', wanted, position, TRUE)
          BY <3>1, <3>2, <5>1, <5>2, <5>3, BoundIdle
        <5> QED
          BY <1>0, <2>0, <3>1, <5>4, BoundRestorable
      <4>3. CASE player.mPendingSeek # None
        <5>1. player.mPendingSeek >= 0 /\ ~(player.mPendingSeek < 0)
          BY <1>1, <4>3, NoneFacts
        <5>2. player'.pipe = Rest.pipe
          BY <1>2, <1>3, <3>2, <3>3, <5>1 DEF Aimed
        <5>3. Aimed(player', wanted) /\ Quiet(player', TRUE)
          BY <1>1, <1>6, <1>7, <4>1, <5>1, <5>2 DEF Aimed, Quiet, SameGoal
        <5>4. Exact => Placed(player', wanted, position)
          BY <1>2, <1>3, <4>1, <5>1, <5>2 DEF Placed
        <5>5. Bound(player', wanted, position, TRUE)
          BY <3>2, <5>3, <5>4 DEF Bound
        <5> QED
          BY <1>0, <2>0, <3>1, <5>5, BoundRestorable
      <4> QED
        BY <4>2, <4>3
    <3> QED
      BY <3>4, <3>5
  <2> QED
    BY <2>4, <2>5
<1>10. CASE HandleAsyncDone
  <2>0. /\ UNCHANGED <<updating, wanted, position>>
        /\ msg.type = "async_done"
    BY <1>10 DEF HandleAsyncDone, Popped, history, msg
  <2>1. Exact => Placed(Rest, wanted, position)
    BY <1>8, <2>0
  <2>2. CASE ~(player.mPendingSeek >= 0)
    <3>1. player' = Rest
      BY <1>10, <2>2 DEF HandleAsyncDone
    <3>2. Bound(Rest, wanted, position, TRUE)
      BY <1>5, <1>6, <1>7, <2>1 DEF Bound
    <3> QED
      BY <1>0, <1>1, <2>0, <3>1, <3>2, BoundRestorable
  <2>3. CASE player.mPendingSeek >= 0
    <3>1. player' \in SetTime(Rest, player.mPendingSeek)
      BY <1>10, <2>3 DEF HandleAsyncDone
    <3>2. player.mPendingSeek \in Times /\ player.mPendingSeek # None
      BY <1>1, <2>3, NoneFacts DEF Typed, Rec
    <3>3. ~(player.pipe.cur <= READY)
      <4>1. msg \in {AsyncDone}
        BY <1>1, <2>0
        DEF Messages, StateMsg, AsyncDone, Eos, DurationChanged, Msg
      <4>2. ~Free(player.pipe.bus, 1, {AsyncDone})
        BY <1>0, <1>1, <4>1, FreeHead DEF msg
      <4> QED
        BY <1>2, <2>3, <4>2 DEF Quiet
    <3>4. /\ Rest.pipe.cur = wanted /\ Rest.pipe.tgt = wanted
          /\ ~Rest.pipe.prerolling /\ wanted \in {PAUSED, PLAYING}
      <4>1. /\ Rest.pipe.cur = wanted /\ Rest.pipe.tgt = wanted
            /\ ~Rest.pipe.prerolling /\ ~(wanted <= READY)
        BY <1>2, <1>3, <2>3, <3>3 DEF Aimed
      <4> QED
        BY <4>1 DEF Inv, TypeOK, States, NULL, READY, PAUSED, PLAYING
    <3>5. PICK r \in QueryState(Rest) : player' = Asking(r, player.mPendingSeek)
      BY <3>1, SetTimeIs
    <3>6. /\ Typed(r) /\ r.pipe \in Awaited(Rest.pipe) /\ r.mState = r.pipe.cur
          /\ r.mPendingStateSeek = Rest.mPendingStateSeek
      BY <1>1, <3>5, QueryStateTyped
    <3>7. r.pipe = Rest.pipe
      <4>1. Rest.pipe.cur # PAUSED \/ Rest.pipe.tgt # PLAYING
        BY <3>4 DEF PLAYING, PAUSED
      <4> QED
        BY <1>3, <1>5, <3>4, <3>6, <4>1, AwaitedShaped
    <3>8. /\ Typed(player') /\ player'.pipe = Rest.pipe
          /\ player'.mPendingSeek = player.mPendingSeek
          /\ player'.mPendingState = wanted
          /\ player'.mPendingStateSeek = player.mPendingStateSeek
      BY <1>1, <3>2, <3>4, <3>5, <3>6, <3>7, AskingTyped DEF SameGoal
    <3>9. Exact => /\ wanted = PLAYING /\ player.mPendingSeek = position
                   /\ player.mPendingStateSeek = None
      BY <1>2, <2>3 DEF Placed
    <3>10. Bound(player', wanted, position, TRUE)
      <4>1. wanted # READY
        BY <3>4 DEF READY, PAUSED, PLAYING
      <4> QED
        BY <3>2, <3>4, <3>8, <3>9, <4>1, BoundAsked
    <3> QED
      BY <1>0, <2>0, <3>8, <3>10, BoundRestorable
  <2> QED
    BY <2>2, <2>3
<1>11. CASE HandleEos
  <2>1. msg.type = "eos"
    BY <1>11 DEF HandleEos, Popped, msg
  <2>2. msg # Eos
    BY <1>0, <1>1, FreeHead DEF msg
  <2> QED
    BY <1>1, <2>1, <2>2
    DEF Messages, StateMsg, AsyncDone, DurationChanged, Msg
<1> QED
  BY <1>9, <1>10, <1>11 DEF Handle

LEMMA PipelineBound ==
  ASSUME Calm, Inv, Restorable,
         PipelinePrerolls \/ PipelineAdvances \/ PipelineEnds
  PROVE  Restorable'
<1>1. /\ Opened /\ Typed(player) /\ Typed(player')
      /\ \/ /\ CanPreroll(player.pipe)
            /\ player' = With(player, Preroll(player.pipe))
         \/ /\ CanAdvance(player.pipe)
            /\ player' = With(player, Advance(player.pipe))
      /\ UNCHANGED <<updating, wanted, position>>
  BY PipelineIs DEF Calm, history
<1>2. PICK pipe : /\ player' = With(player, pipe)
                  /\ \/ CanPreroll(player.pipe) /\ pipe = Preroll(player.pipe)
                     \/ CanAdvance(player.pipe) /\ pipe = Advance(player.pipe)
  BY <1>1
<1>3. player.pipe \in Pipelines /\ player.pipe.pos \in Times
  BY <1>1, PipeTyped
<1>4. pipe \in Awaited(player.pipe)
  BY <1>2, <1>3 DEF Awaited, CanPreroll, CanAdvance, Pipelines
<1>5. pipe \in Pipelines /\ pipe.pos \in Times
  BY <1>3, <1>4, AwaitedType, AwaitedPos
<1>6. /\ player'.pipe = pipe /\ player'.mPendingSeek = player.mPendingSeek
      /\ SameGoal(player', player)
  BY <1>1, <1>2, <1>5, WithTyped
<1>7. /\ Shaped(player.pipe) /\ Aimed(player, wanted)
      /\ Exact => Placed(player, wanted, position)
  BY <1>1 DEF Restorable, Bound
<1>8. /\ Shaped(pipe) /\ pipe.tgt = player.pipe.tgt
      /\ pipe.pos = player.pipe.pos
      /\ pipe = player.pipe \/ pipe.cur # PLAYING \/ ChangeTold(pipe.bus)
  BY <1>3, <1>4, <1>7, AwaitedShaped
<1>9. player.mPendingSeek = None /\ player.mPendingSeek < 0
  <2>1. ~(player.mPendingSeek >= 0)
    BY <1>2, <1>7 DEF Aimed, CanPreroll, CanAdvance, READY, PAUSED, PLAYING
  <2> QED
    BY <1>1, <2>1, NoneFacts
<1>10. wanted # NULL /\ pipe.tgt = wanted
  BY <1>7, <1>8, <1>9 DEF Aimed
<1>11. pipe # player.pipe
  <2>1. Preroll(player.pipe).prerolling = FALSE /\ Advance(player.pipe).cur = PLAYING
    BY <1>3 DEF Preroll, Advance, Pipelines
  <2> QED
    BY <1>2, <2>1 DEF CanPreroll, CanAdvance, PAUSED, PLAYING
<1>12. Exact =>
         /\ IF player'.mPendingStateSeek = None THEN player'.origin = position
            ELSE player'.mPendingStateSeek = position
         /\ wanted = PAUSED /\ position # None => pipe.pos = position
  BY <1>6, <1>7, <1>8, <1>9 DEF Placed, SameGoal
<1>13. Bound(player', wanted, position, updating)
  BY <1>1, <1>6, <1>8, <1>9, <1>10, <1>11, <1>12, BoundIdle
<1> QED
  BY <1>1, <1>13, BoundRestorable

LEMMA StepBound ==
  ASSUME Calm, Inv, Safe, Restorable, [Next]_vars
  PROVE  Restorable'
<1>1. CASE UpdateEnd
  <2>1. /\ UNCHANGED <<player, wanted, position>> /\ player.pipe.bus = <<>>
    BY <1>1 DEF UpdateEnd, history
  <2>2. Free(player.pipe.bus, 1, {AsyncDone})
    BY <2>1 DEF Free
  <2> QED
    BY <2>1, <2>2 DEF Restorable, Bound, Quiet, Opened
<1>2. CASE UNCHANGED vars
  BY <1>2 DEF vars, history, Restorable, Opened
<1> QED
  BY <1>1, <1>2, UserBound, UpdateBeginBound, HandleBound, PipelineBound
  DEF Next, Update

LEMMA RestorableAlways ==
  ASSUME Calm
  PROVE  SafeSpec => [](Inv /\ Safe /\ Restorable)
<1>1. Init => Inv /\ Safe /\ Restorable
  <2>1. Init => Safe /\ Restorable
    BY DEF Init, Closed, Safe, Restorable, Opened
  <2> QED
    BY <2>1, InitInv
<1>2. Inv /\ Safe /\ Restorable /\ [Next]_vars => (Inv /\ Safe /\ Restorable)'
  BY StepInv, StepSafe, StepBound
<1> QED
  BY <1>1, <1>2, PTL DEF SafeSpec

\* If the user waits for each change and seek to end, and the media goes on,
\* the state that a seek left behind is the one it comes back to
\* (nsvr_player_server.cpp:92-145): no message that is popped while the
\* pipeline is down for a seek makes the player note READY as the state to
\* restore.
THEOREM SeekComesBack ==
  ASSUME Calm
  PROVE  Spec => []StateRestored
<1>1. Inv /\ Safe /\ Restorable => StateRestored
  <2> SUFFICES ASSUME Inv, Restorable, Opened, Settled(player)
               PROVE  player.pipe.tgt = wanted
    BY DEF StateRestored
  <2>1. Typed(player) /\ player.mPendingSeek = None
    BY OpenedTyped DEF Settled, Still
  <2>2. player.mPendingSeek < 0
    BY <2>1, NoneFacts
  <2> QED
    BY <2>2 DEF Restorable, Bound, Aimed
<1> QED
  BY RestorableAlways, <1>1, PTL DEF Spec

\* If moreover the user seeks only while the media plays and pauses no media
\* that is stopped, and the conversion of line 141 wraps, a media that plays
\* plays from where the user last sought, paused or stopped it, and a media
\* opened after another one from 0 (nsvr_player_server.cpp:106-145).  Of the
\* first media nothing follows until it is sought, paused or stopped: its base
\* time is the moment of opening and play() makes no seek (15, 56-61).
THEOREM SeekFound ==
  ASSUME Calm, Exact
  PROVE  Spec => []PlaysWhereAsked
<1>1. Inv /\ Safe /\ Restorable => PlaysWhereAsked
  <2> SUFFICES ASSUME Inv, Restorable, Opened, Settled(player),
                      wanted = PLAYING, position # None
               PROVE  player.origin = position
    BY DEF PlaysWhereAsked
  <2>1. /\ Typed(player) /\ player.mPendingSeek = None
        /\ player.pipe.bus = <<>>
        /\ ~player.pipe.prerolling /\ ~CanAdvance(player.pipe)
    BY OpenedTyped DEF Settled, Still, CanPreroll
  <2>2. player.mPendingSeek < 0
    BY <2>1, NoneFacts
  <2>3. Shaped(player.pipe) /\ player.pipe.tgt = PLAYING
    BY <2>2 DEF Restorable, Bound, Aimed
  <2>4. player.pipe.cur = PLAYING
    BY <2>1, <2>3 DEF Shaped, CanAdvance
  <2>5. Placed(player, wanted, position)
    BY DEF Restorable, Bound
  <2> QED
    BY <2>1, <2>2, <2>4, <2>5, NothingTold DEF Placed
<1> QED
  BY RestorableAlways, <1>1, PTL DEF Spec

-----------------------------------------------------------------------------
(* The player is a Playback                                                *)

LEMMA NoEosHandled ==
  ASSUME Inv, Safe, HandleEos
  PROVE  FALSE
<1> DEFINE msg == Head(player.pipe.bus)
<1>1. updating /\ player.pipe.bus # <<>> /\ Opened /\ msg.type = "eos"
  BY DEF HandleEos, Popped, Inv
<1>2. /\ msg \in Messages /\ player.pipe.bus \in Seq(Messages)
      /\ Free(player.pipe.bus, 1, {Eos})
  BY <1>1, RestTyped, RestSane, OpenedTyped, PipeTyped DEF Pipelines
<1>3. msg # Eos
  BY <1>1, <1>2, FreeHead DEF msg
<1> QED
  BY <1>1, <1>2, <1>3
  DEF Messages, StateMsg, AsyncDone, DurationChanged, Eos, Msg

\* Its fields say what the user asked for.
LEMMA FieldsTell ==
  Exact /\ Inv /\ Restorable => Goal = wanted /\ Place = position
<1> SUFFICES ASSUME Exact, Inv, Restorable
             PROVE  Goal = wanted /\ Place = position
  OBVIOUS
<1>1. CASE ~Opened
  <2>1. /\ wanted = NULL /\ player.mPendingSeek = None
        /\ player.mPendingStateSeek = position
        /\ position \in {0, None} /\ player.origin = None
    BY <1>1 DEF Inv
  <2>2. None < 0 /\ ~(None >= 0)
    BY DEF None
  <2> QED
    BY <1>1, <2>1, <2>2 DEF Goal, Place
<1>2. CASE Opened
  <2>1. Typed(player)
    BY <1>2, OpenedTyped
  <2>2. /\ player.mPendingSeek >= 0 <=> player.mPendingSeek # None
        /\ player.mPendingSeek < 0 <=> player.mPendingSeek = None
        /\ player.mPendingStateSeek >= 0 <=> player.mPendingStateSeek # None
    BY <2>1, NoneFacts
  <2>3. Aimed(player, wanted) /\ Placed(player, wanted, position)
    BY <1>2 DEF Restorable, Bound
  <2>4. Goal = wanted
    BY <1>2, <2>2, <2>3 DEF Goal, Aimed
  <2>5. Place = position
    BY <1>2, <2>2, <2>3 DEF Place, Placed
  <2> QED
    BY <2>4, <2>5
<1> QED
  BY <1>1, <1>2

\* What was asked for is changed by calls only.
Asked == INSTANCE Playback
           WITH state <- wanted, place <- position,
                Positions <- Times, Beginning <- 0, Nowhere <- None,
                Closed <- NULL, Stopped <- READY,
                Paused <- PAUSED, Playing <- PLAYING

LEMMA AskedByUser ==
  ASSUME Exact, Inv, Restorable, UserCall
  PROVE  [Asked!Next]_Asked!vars
<1>0. /\ ~updating /\ UNCHANGED updating
      /\ Asked!Call => Asked!Next
      /\ (UNCHANGED <<wanted, position>>) => UNCHANGED Asked!vars
  BY DEF UserCall, UserOpen, UserClose, UserPlay, UserPause, UserStop,
         UserReplay, UserSetTime, UserQueryState, UserSetLoop, Call,
         Asked!Next, Asked!vars
<1>1. Call => wanted # NULL
  BY DEF Call, Restorable, Bound, Aimed
<1>2. CASE UserOpen \/ UserClose
  <2>1. wanted' \in {NULL, PAUSED} /\ position' = PositionReset
    BY <1>2 DEF UserOpen, UserClose
  <2>2. CASE Opened
    <3>1. wanted # NULL /\ position' = 0
      BY <2>1, <2>2 DEF Restorable, Bound, Aimed, PositionReset
    <3> QED
      BY <1>0, <2>1, <3>1 DEF Asked!Call, Asked!StartOver
  <2>3. CASE ~Opened
    <3>1. wanted = NULL /\ position' = position
      BY <2>1, <2>3 DEF Inv, PositionReset
    <3> QED
      BY <1>0, <2>1, <3>1 DEF Asked!Call, Asked!Open
  <2> QED
    BY <2>2, <2>3
<1>3. CASE UserStop \/ UserReplay
  BY <1>0, <1>1, <1>3 DEF UserStop, UserReplay, Asked!Call, Asked!StartOver
<1>4. CASE UserPlay
  BY <1>0, <1>1, <1>4 DEF UserPlay, Asked!Call, Asked!ChangeState
<1>5. CASE UserPause
  <2>0. position' \in {position, player'.mTime} /\ player'.mTime \in Times
    <3>1. player' \in ToState(player, PAUSED) /\ Typed(player)
      BY <1>5, OpenedTyped DEF UserPause, Call
    <3>2. player'.mTime \in Times
      BY <3>1, Facts, ToStateTyped, PipeTyped
    <3> QED
      BY <1>5, <3>2 DEF UserPause
  <2>1. CASE wanted = PLAYING \/ position = None
    <3>1. position' \in Times
      BY <1>5, <2>0, <2>1 DEF UserPause, Inv, TypeOK
    <3> QED
      BY <1>0, <1>1, <1>5, <2>1, <3>1
      DEF UserPause, Asked!Call, Asked!PauseHere
  <2>2. CASE wanted # PLAYING /\ position # None
    BY <1>0, <1>1, <1>5, <2>2
    DEF UserPause, Asked!Call, Asked!ChangeState
  <2> QED
    BY <2>1, <2>2
<1>6. ASSUME NEW t \in Times, UserSetTime(t) PROVE Asked!Call
  BY <1>0, <1>6 DEF UserSetTime, Exact, Asked!Call, Asked!Seek
<1>7. CASE UserQueryState \/ UserSetLoop
  BY <1>0, <1>7 DEF UserQueryState, UserSetLoop, history
<1> QED
  BY <1>0, <1>2, <1>3, <1>4, <1>5, <1>6, <1>7 DEF UserCall

LEMMA AskedStep ==
  ASSUME Calm, Exact, Inv, Safe, Restorable, [Next]_vars
  PROVE  [Asked!Next]_Asked!vars
<1>1. CASE UserCall
  BY <1>1, AskedByUser
<1>2. CASE UpdateBegin \/ UpdateEnd
  BY <1>2
  DEF UpdateBegin, UpdateEnd, history, Inv, TypeOK, Asked!Next, Asked!Update
<1>3. CASE HandleStateChanged \/ HandleAsyncDone
  BY <1>3 DEF HandleStateChanged, HandleAsyncDone, history, Asked!vars
<1>4. CASE PipelinePrerolls \/ PipelineAdvances \/ PipelineEnds
  BY <1>4 DEF PipelinePrerolls, PipelineAdvances, PipelineEnds, PipelineGoes,
              history, Asked!vars
<1>5. CASE UNCHANGED vars
  BY <1>5 DEF vars, history, Asked!vars
<1> QED
  BY <1>1, <1>2, <1>3, <1>4, <1>5, NoEosHandled DEF Next, Update, Handle

\* Under the assumptions of SeekFound the player implements Playback: the
\* state the media comes to and the place it is promised to play from are in
\* its fields at any moment, and nothing but the user's calls changes them
\* (nsvr_player_server.cpp:39-152); update(), with its messages, and the
\* pipeline change neither.  The first media is promised no place until it is
\* sought, paused or stopped.
THEOREM ServerImplementsPlayback ==
  ASSUME Calm, Exact
  PROVE  Spec => ImplementsPlayback
<1> DEFINE J == Inv /\ Safe /\ Restorable
<1>1. Init => Intended!Init
  BY DEF Init, Closed, Goal, Place, Opened, None, Intended!Init
<1>2. J => Goal = wanted /\ Place = position
  BY FieldsTell
<1>3. J /\ [Next]_vars => [Asked!Next]_Asked!vars
  BY AskedStep
<1>4. /\ Goal = wanted /\ Place = position
      /\ (Goal = wanted /\ Place = position)'
      /\ [Asked!Next]_Asked!vars
      => [Intended!Next]_Intended!vars
  BY DEF Asked!Next, Asked!vars, Asked!Call, Asked!Update, Asked!Open,
         Asked!StartOver, Asked!ChangeState, Asked!PauseHere, Asked!Seek,
         Intended!Next, Intended!vars, Intended!Call, Intended!Update,
         Intended!Open, Intended!StartOver, Intended!ChangeState, Intended!PauseHere,
         Intended!Seek
<1> QED
  BY RestorableAlways, <1>1, <1>2, <1>3, <1>4, PTL
  DEF Spec, SafeSpec, ImplementsPlayback, Intended!Spec

-----------------------------------------------------------------------------
(* The cached state                                                        *)

\* Whoever reads the bus of a player to its end has cached the actual state.
Honest(p) == TellsState(p.pipe, p.mState)

LEMMA QueryHonest ==
  ASSUME NEW p, Typed(p), Honest(p), NEW q \in QueryState(p)
  PROVE  Honest(q)
<1>1. q.pipe \in Awaited(p.pipe) /\ q.mState = q.pipe.cur
  BY QueryStateTyped
<1> QED
  BY <1>1, PipeTyped, AwaitedTells DEF Honest

LEMMA SetTimeHonest ==
  ASSUME NEW p, Typed(p), Honest(p), NEW t \in Times, NEW q \in SetTime(p, t)
  PROVE  Honest(q)
<1>1. q.pipe \in Awaited(p.pipe) /\ q.mState = q.pipe.cur
  BY SetTimeTyped
<1> QED
  BY <1>1, PipeTyped, AwaitedTells DEF Honest

LEMMA ChangedHonest ==
  ASSUME NEW p, Typed(p), Honest(p), NEW q \in OnStateChanged(p)
  PROVE  Honest(q)
<1>1. CASE q \in QueryState(p)
  BY <1>1, QueryHonest
<1>2. ASSUME NEW r \in QueryState(p), NEW t \in Times,
             NEW u \in SetTime(r, t), q = Noted(u, None)
      PROVE  Honest(q)
  <2>1. Typed(r) /\ Honest(r)
    BY QueryStateTyped, QueryHonest
  <2>2. Typed(u) /\ Honest(u)
    BY <2>1, SetTimeTyped, SetTimeHonest
  <2>3. q.pipe = u.pipe /\ q.mState = u.mState
    BY <1>2, <2>2, NotedTyped
  <2> QED
    BY <2>2, <2>3 DEF Honest
<1> QED
  BY <1>1, <1>2, OnStateChangedTyped

LEMMA ToStateHonest ==
  ASSUME NEW p, Typed(p), Honest(p), NEW s \in States, NEW q \in ToState(p, s)
  PROVE  Honest(q)
<1>1. PICK b \in Before(p, s), held \in BOOLEAN :
        /\ Typed(b) /\ b.pipe = p.pipe
        /\ Typed(With(b, SetTo(b, s, held)))
        /\ q \in Reached(b, SetTo(b, s, held))
  BY ToStateTyped
<1> DEFINE pipe == SetTo(b, s, held)
           r == SetState(b.pipe, s, held)
<1>2. b.mState = p.mState /\ b.pipe \in Pipelines
  BY <1>1, BeforeTyped, PipeTyped
<1>3. TellsState(r, b.mState)
  BY <1>1, <1>2, SetStateTells DEF Honest
<1>4. /\ pipe \in Pipelines /\ pipe.pos \in Times
      /\ pipe.cur = r.cur /\ pipe.bus = r.bus
  BY <1>1, SetToTyped
<1> HIDE DEF pipe, r
<1>5. With(b, pipe).pipe = pipe /\ With(b, pipe).mState = b.mState
  BY <1>1, <1>4, WithTyped
<1>6. Honest(With(b, pipe))
  BY <1>3, <1>4, <1>5 DEF Honest, TellsState
<1>7. q = With(b, pipe) \/ q \in OnStateChanged(With(b, pipe))
  BY <1>1 DEF Reached, pipe
<1> QED
  BY <1>1, <1>6, <1>7, ChangedHonest DEF pipe

LEMMA StopHonest ==
  ASSUME NEW p, Typed(p), Honest(p)
  PROVE  \A q \in Stop(p) \union Replay(p) : Honest(q)
<1>1. \A r \in ToState(p, NULL) : Typed(r) /\ Honest(r)
  BY Facts, ToStateTyped, ToStateHonest
<1>2. \A r \in Stop(p) : Typed(r) /\ Honest(r)
  BY <1>1, Facts, ToStateTyped, ToStateHonest DEF Stop
<1>3. \A q \in Replay(p) : Honest(q)
  BY <1>2, Facts, ToStateTyped, ToStateHonest DEF Replay
<1> QED
  BY <1>2, <1>3

LEMMA PendingSeekHonest ==
  ASSUME NEW p, Typed(p), Honest(p), NEW q \in PendingSeek(p)
  PROVE  Honest(q)
<1>1. \A s \in States : TellsState(SetState(p.pipe, s, TRUE), p.mState)
  BY PipeTyped, Facts, SetStateTells DEF Honest
<1>2. CASE q = p
  BY <1>2
<1>3. CASE q.pipe = SetState(p.pipe, READY, TRUE) /\ q.mState = p.mState
  BY <1>1, <1>3, Facts DEF Honest
<1>4. CASE /\ p.mState = READY /\ p.mPendingSeek >= 0 /\ q \in ApplySeek(p)
  <2>1. PICK o \in Moved(p) : q = Applied(p, o)
    BY <1>4 DEF ApplySeek, Applied
  <2>2. q.mState = p.mState /\ q.pipe = SetState(p.pipe, p.mPendingState, TRUE)
    BY <2>1 DEF Applied, Typed, Rec
  <2>3. p.mPendingState \in States
    BY DEF Typed, Rec
  <2> QED
    BY <1>1, <2>2, <2>3 DEF Honest
<1>5. p.mPendingSeek \in Int
  <2>1. p.mPendingSeek \in Times \union {None}
    BY DEF Typed, Rec
  <2>2. Times \subseteq Int /\ None \in Int
    BY Facts DEF None
  <2> QED
    BY <2>1, <2>2
<1> QED
  BY <1>2, <1>3, <1>4, <1>5, PendingSeekTyped, PendingSeekIs

\* What is left when a message is popped: a change of state is noted.
LEMMA RestHonest ==
  ASSUME Inv, Opened => Honest(player), NEW type, Popped(type)
  PROVE  /\ Opened /\ Typed(Rest)
         /\ IF type = "state_changed"
            THEN TellsState(Rest.pipe, Head(player.pipe.bus).new)
            ELSE Honest(Rest)
<1>1. /\ updating /\ Opened /\ player.pipe.bus # <<>>
      /\ IsState(Head(player.pipe.bus)) <=> type = "state_changed"
  BY DEF Popped, Inv, IsState
<1>2. /\ Typed(Rest) /\ Typed(player) /\ Rest.pipe = Pop(player.pipe)
      /\ Rest.mState = player.mState
  BY <1>1, RestTyped
<1>3. TellsState(Pop(player.pipe),
                 IF type = "state_changed" THEN Head(player.pipe.bus).new
                                           ELSE player.mState)
  BY <1>1, <1>2, PipeTyped, PopTells DEF Honest
<1> QED
  BY <1>1, <1>2, <1>3 DEF Honest

AlwaysHonest == Opened => Honest(player)

LEMMA UserHonest ==
  ASSUME Inv, AlwaysHonest, UserCall
  PROVE  AlwaysHonest'
<1>0. Call => Typed(player) /\ Honest(player)
  BY OpenedTyped DEF Call, AlwaysHonest
<1>1. CASE UserClose
  BY <1>1 DEF UserClose, Reset, Inv, TypeOK, AlwaysHonest, Opened
<1>2. CASE UserOpen
  <2> DEFINE up == SetState(SetState(Launched, READY, TRUE), PAUSED, TRUE)
  <2>1. Launched \in Pipelines /\ Launched.pos = 0
    BY Facts DEF Launched, Pipelines
  <2>2. /\ SetState(Launched, READY, TRUE) \in Pipelines
        /\ SetState(Launched, READY, TRUE).pos = 0
    BY <2>1, Facts, SetStateType, SetStatePos
  <2>3. up \in Pipelines /\ up.pos = 0
    BY <2>2, Facts, SetStateType, SetStatePos
  <2>4. player' = [Reset(player) EXCEPT !.pipe = Preroll(up)]
    BY <1>2 DEF UserOpen
  <2> HIDE DEF up
  <2>5. /\ Preroll(up) \in Pipelines /\ Preroll(up).pos \in Times
        /\ \A c : TellsState(Preroll(up), c)
    BY <2>3, PrerollType, PrerollTells, StepPos, Facts
  <2>6. player'.pipe = Preroll(up)
    BY <2>4, <2>5, OpenTyped DEF Inv
  <2>7. TellsState(player'.pipe, player'.mState)
    BY <2>5, <2>6
  <2> QED
    BY <2>7 DEF AlwaysHonest, Honest
<1>3. CASE UserPlay \/ UserPause
  <2>1. Honest(player')
    BY <1>0, <1>3, Facts, ToStateHonest DEF UserPlay, UserPause
  <2> QED
    BY <2>1 DEF AlwaysHonest
<1>4. CASE UserStop \/ UserReplay
  <2>1. Honest(player')
    BY <1>0, <1>4, StopHonest DEF UserStop, UserReplay
  <2> QED
    BY <2>1 DEF AlwaysHonest
<1>5. ASSUME NEW t \in Times, UserSetTime(t) PROVE AlwaysHonest'
  <2>1. Honest(player')
    BY <1>0, <1>5, SetTimeHonest DEF UserSetTime
  <2> QED
    BY <2>1 DEF AlwaysHonest
<1>6. CASE UserQueryState
  <2>1. Honest(player')
    BY <1>0, <1>6, QueryHonest DEF UserQueryState
  <2> QED
    BY <2>1 DEF AlwaysHonest
<1>7. CASE UserSetLoop
  BY <1>7 DEF UserSetLoop, AlwaysHonest, Opened
<1> QED
  BY <1>1, <1>2, <1>3, <1>4, <1>5, <1>6, <1>7 DEF UserCall

LEMMA UpdateHonest ==
  ASSUME Inv, AlwaysHonest, Update
  PROVE  AlwaysHonest'
<1> SUFFICES ASSUME ~UpdateEnd PROVE Honest(player')
  BY DEF UpdateEnd, AlwaysHonest, Honest, Opened
<1>1. CASE UpdateBegin
  <2>1. PICK p \in Heartbeat(player) : \E q \in PendingSeek(p) :
          /\ Typed(p) /\ p.pipe = player.pipe /\ p.mState = player.mState
          /\ player'.pipe = q.pipe /\ player'.mState = q.mState
    BY <1>1, UpdateBeginIs
  <2>2. Honest(p)
    BY <1>1, <2>1 DEF UpdateBegin, AlwaysHonest, Honest
  <2>3. \A q \in PendingSeek(p) : Honest(q)
    BY <2>1, <2>2, PendingSeekHonest
  <2> QED
    BY <2>1, <2>3 DEF Honest
<1>2. CASE HandleStateChanged
  <2>1. PICK msg \in Messages :
          /\ msg = Head(player.pipe.bus) /\ msg.new \in States
          /\ Typed(Told(Rest, msg.new))
          /\ player' \in IF msg.old # msg.new
                         THEN OnStateChanged(Told(Rest, msg.new))
                         ELSE {Told(Rest, msg.new)}
    BY <1>2, HandleStateChangedIs
  <2>2. Typed(Rest) /\ TellsState(Rest.pipe, msg.new)
    BY <1>2, <2>1, RestHonest DEF HandleStateChanged, AlwaysHonest
  <2>3. Honest(Told(Rest, msg.new))
    BY <2>1, <2>2, ToldTyped DEF Honest
  <2> QED
    BY <2>1, <2>3, ChangedHonest
<1>3. CASE HandleAsyncDone
  <2>1. Opened /\ Typed(Rest) /\ Honest(Rest)
    BY <1>3, RestHonest DEF HandleAsyncDone, AlwaysHonest
  <2>2. player.mPendingSeek >= 0 => player.mPendingSeek \in Times
    BY <2>1, OpenedTyped DEF Typed, Rec, None
  <2> QED
    BY <1>3, <2>1, <2>2, SetTimeHonest DEF HandleAsyncDone
<1>4. CASE HandleEos
  <2>1. Typed(Rest) /\ Honest(Rest)
    BY <1>4, RestHonest DEF HandleEos, AlwaysHonest
  <2>2. player' \in Replay(Rest) \/ player' \in ToState(Rest, PAUSED)
    BY <1>4 DEF HandleEos
  <2> QED
    BY <2>1, <2>2, Facts, StopHonest, ToStateHonest
<1> QED
  BY <1>1, <1>2, <1>3, <1>4 DEF Update, Handle

LEMMA StepHonest ==
  ASSUME Inv, AlwaysHonest, [Next]_vars
  PROVE  AlwaysHonest'
<1>1. CASE PipelinePrerolls \/ PipelineAdvances \/ PipelineEnds
  <2>1. /\ Opened /\ Typed(player)
        /\ \/ player' = With(player, Preroll(player.pipe))
           \/ player' = With(player, Advance(player.pipe))
           \/ player' = With(player, End(player.pipe))
    BY <1>1, PipelineIs
  <2>2. player.pipe \in Pipelines /\ player.pipe.pos \in Times
    BY <2>1, PipeTyped
  <2>3. \A r \in {Preroll(player.pipe), Advance(player.pipe),
                  End(player.pipe)} :
          TellsState(r, player.mState)
    BY <2>1, <2>2, PrerollTells, AdvanceTells, EndTells
    DEF AlwaysHonest, Honest
  <2>4. \A r : /\ With(player, r).pipe = r
               /\ With(player, r).mState = player.mState
    BY <2>1 DEF With, Typed, Rec
  <2>5. TellsState(player'.pipe, player'.mState)
    BY <2>1, <2>3, <2>4
  <2> QED
    BY <2>5 DEF AlwaysHonest, Honest
<1>2. CASE UNCHANGED vars
  BY <1>2 DEF vars, AlwaysHonest, Opened
<1> QED
  BY <1>1, <1>2, UserHonest, UpdateHonest DEF Next

\* For any user, media and bus, and whatever is called from inside update():
\* when the bus is drained and nothing is under way, the cached state is the
\* actual one, so that a pending seek that has the media in READY is carried
\* out by the next update() (nsvr_player_server.cpp:130-137).
THEOREM CachedStateSettles == Spec => []StateSettles
<1>1. Init => Inv /\ AlwaysHonest
  <2>1. Init => AlwaysHonest
    BY DEF Init, Closed, AlwaysHonest, Opened
  <2> QED
    BY <2>1, InitInv
<1>2. Inv /\ AlwaysHonest /\ [Next]_vars => (Inv /\ AlwaysHonest)'
  BY StepInv, StepHonest
<1>3. AlwaysHonest => StateSettles
  <2> SUFFICES ASSUME Honest(player), player.pipe.bus = <<>>,
                      player.pipe.cur # NULL
               PROVE  player.mState = player.pipe.cur
    BY DEF AlwaysHonest, StateSettles
  <2>1. Tells(<<>>, player.mState, player.pipe.cur)
    BY DEF Honest, TellsState
  <2>2. 1 .. Len(<<>>) = {}
    OBVIOUS
  <2> QED
    BY <2>1, <2>2 DEF Tells
<1> QED
  BY <1>1, <1>2, <1>3, PTL DEF Spec, SafeSpec

=============================================================================
