--------------------------- MODULE PipelineProofs ---------------------------
(***************************************************************************)
(* What the operators of Pipeline return: a pipeline, where it starts, and *)
(* whether the message that ends a wait is due.                            *)
(***************************************************************************)
EXTENDS Pipeline, SequenceTheorems, TLAPS

-----------------------------------------------------------------------------
(* They return pipelines                                                   *)

\* The messages a pipeline posts are messages.
LEMMA StateMsgType ==
  ASSUME NEW old \in States, NEW new \in States
  PROVE  StateMsg(old, new) \in Messages
  BY DEF Messages

\* On the way down from a state, one message per state.
LEMMA DescentType ==
  ASSUME NEW cur \in States
  PROVE  Descent(cur) \in Seq(Messages)
<1> USE DEF NULL, READY, PAUSED, PLAYING, States
<1>1. CASE cur = NULL
  BY <1>1, StateMsgType DEF Descent
<1>2. CASE cur # NULL
  <2>1. \A i \in 1 .. cur - READY :
          StateMsg(cur - i + 1, cur - i) \in Messages
    BY <1>2, StateMsgType
  <2>2. cur - READY \in Nat
    BY <1>2
  <2>3. [i \in 1 .. cur - READY |-> StateMsg(cur - i + 1, cur - i)]
          \in Seq(Messages)
    BY <2>1, <2>2, SeqDef
  <2> QED
    BY <1>2, <2>3 DEF Descent
<1> QED
  BY <1>1, <1>2

\* gst_element_set_state
LEMMA SetStateType ==
  ASSUME NEW p \in Pipelines, NEW s \in States, NEW held \in BOOLEAN
  PROVE  SetState(p, s, held) \in Pipelines
<1>1. Rewind(p, s) \in Pipelines
  <2>1. <<>> \in Seq(Messages) /\ p.bus \o Descent(p.cur) \in Seq(Messages)
    BY DescentType DEF Pipelines
  <2> QED
    BY <2>1 DEF Rewind, Pipelines
<1>2. Start(p, s) \in Pipelines
  <2>1. READY \in States /\ NULL \in States
    BY DEF States, NULL, READY, PLAYING
  <2>2. Append(p.bus, StateMsg(NULL, READY)) \in Seq(Messages)
    BY <2>1, StateMsgType DEF Pipelines
  <2> QED
    BY <2>1, <2>2 DEF Start, Pipelines
<1>3. Change(p, s, held) \in Pipelines
  <2>1. Append(p.bus, StateMsg(p.cur, s)) \in Seq(Messages)
    BY StateMsgType DEF Pipelines
  <2> QED
    BY <2>1 DEF Change, Pipelines
<1> QED
  BY <1>1, <1>2, <1>3 DEF SetState

\* A pipeline that goes by itself.
LEMMA PrerollType ==
  ASSUME NEW p \in Pipelines
  PROVE  Preroll(p) \in Pipelines
<1>1. PAUSED \in States
  BY DEF States, NULL, PAUSED, PLAYING
<1>2. <<StateMsg(p.cur, PAUSED), AsyncDone>> \in Seq(Messages)
  BY <1>1, StateMsgType DEF Pipelines, Messages
<1>3. p.bus \o <<StateMsg(p.cur, PAUSED), AsyncDone>> \in Seq(Messages)
  BY <1>2 DEF Pipelines
<1> QED
  BY <1>1, <1>3 DEF Preroll, Pipelines

LEMMA AdvanceType ==
  ASSUME NEW p \in Pipelines
  PROVE  Advance(p) \in Pipelines
<1>1. PAUSED \in States /\ PLAYING \in States
  BY DEF States, NULL, PAUSED, PLAYING
<1>2. Append(p.bus, StateMsg(PAUSED, PLAYING)) \in Seq(Messages)
  BY <1>1, StateMsgType DEF Pipelines
<1> QED
  BY <1>1, <1>2 DEF Advance, Pipelines

LEMMA AwaitedType ==
  ASSUME NEW p \in Pipelines, NEW q \in Awaited(p)
  PROVE  q \in Pipelines
  BY PrerollType, AdvanceType DEF Awaited

LEMMA EndType ==
  ASSUME NEW p \in Pipelines
  PROVE  End(p) \in Pipelines
<1>1. p.bus \o <<Eos>> \in Seq(Messages)
  BY DEF Pipelines, Messages
<1> QED
  BY <1>1 DEF End, Post, Pipelines

LEMMA DurationType ==
  ASSUME NEW p \in Pipelines
  PROVE  Post(p, <<DurationChanged>>) \in Pipelines
<1>1. p.bus \o <<DurationChanged>> \in Seq(Messages)
  BY DEF Pipelines, Messages
<1> QED
  BY <1>1 DEF Post, Pipelines

LEMMA SeekType ==
  ASSUME NEW p \in Pipelines, NEW t \in Nat
  PROVE  Seek(p, t) \in Pipelines
<1>1. PAUSED \in States
  BY DEF States, NULL, PAUSED, PLAYING
<1>2. p.bus \o <<StateMsg(PAUSED, PAUSED)>> \in Seq(Messages)
  BY <1>1, StateMsgType DEF Pipelines
<1> QED
  BY <1>1, <1>2 DEF Seek, Post, Pipelines

LEMMA PopType ==
  ASSUME NEW p \in Pipelines, p.bus # <<>>
  PROVE  /\ Pop(p) \in Pipelines
         /\ Head(p.bus) \in Messages
<1>1. p.bus \in Seq(Messages)
  BY DEF Pipelines
<1>2. Head(p.bus) \in Messages /\ Tail(p.bus) \in Seq(Messages)
  BY <1>1
<1> QED
  BY <1>2 DEF Pop, Pipelines

-----------------------------------------------------------------------------
(* Where playback was last started from                                    *)

\* READY and NULL start the media over, PAUSED and PLAYING leave it.
LEMMA SetStatePos ==
  ASSUME NEW p \in Pipelines, NEW s \in States, NEW held \in BOOLEAN
  PROVE  SetState(p, s, held).pos = IF s <= READY THEN 0 ELSE p.pos
  BY DEF SetState, Rewind, Start, Change, Pipelines

\* Nothing the pipeline does by itself moves it.
LEMMA StepPos ==
  ASSUME NEW p \in Pipelines
  PROVE  /\ Preroll(p).pos = p.pos
         /\ Advance(p).pos = p.pos
         /\ End(p).pos = p.pos
         /\ Pop(p).pos = p.pos
         /\ Post(p, <<DurationChanged>>).pos = p.pos
  BY DEF Preroll, Advance, End, Pop, Post, Pipelines

LEMMA AwaitedPos ==
  ASSUME NEW p \in Pipelines, NEW q \in Awaited(p)
  PROVE  q.pos = p.pos
  BY PrerollType, StepPos DEF Awaited

LEMMA SeekPos ==
  ASSUME NEW p \in Pipelines, NEW t \in Nat
  PROVE  Seek(p, t).pos = t
  BY DEF Seek, Post, Pipelines

-----------------------------------------------------------------------------
(* Whether the message that ends a wait is due                             *)

\* What the lock and a waiting request rely on.
Awaiting(p) == p.cur > READY => AsyncDoneDue(p)

LEMMA SetStateAwaiting ==
  ASSUME NEW p \in Pipelines, NEW s \in States, NEW held \in BOOLEAN,
         Awaiting(p)
  PROVE  Awaiting(SetState(p, s, held))
<1> USE DEF NULL, READY, PAUSED, PLAYING, States
<1>1. CASE s <= READY \/ p.cur <= READY
  BY <1>1 DEF SetState, Rewind, Start, Awaiting, Pipelines
<1>2. CASE s > READY /\ p.cur > READY
  <2>1. SetState(p, s, held) = Change(p, s, held)
    BY <1>2 DEF SetState, Pipelines
  <2>2. AsyncDoneDue(p)
    BY <1>2 DEF Awaiting
  <2>3. CASE p.prerolling
    BY <2>1, <2>3 DEF Change, Awaiting, AsyncDoneDue, Pipelines
  <2>4. CASE ~p.prerolling
    <3>1. PICK i \in 1 .. Len(p.bus) : p.bus[i] = AsyncDone
      BY <2>2, <2>4 DEF AsyncDoneDue
    <3>2. Append(p.bus, StateMsg(p.cur, s))[i] = AsyncDone
      BY <3>1, StateMsgType DEF Pipelines
    <3>3. i \in 1 .. Len(Append(p.bus, StateMsg(p.cur, s)))
      BY <3>1, StateMsgType DEF Pipelines
    <3> QED
      BY <2>1, <3>1, <3>2, <3>3
         DEF Change, Awaiting, AsyncDoneDue, Pipelines
  <2> QED
    BY <2>3, <2>4
<1> QED
  BY <1>1, <1>2 DEF Pipelines

\* Whatever preceded, a preroll leaves its message on the bus.
LEMMA PrerollAwaiting ==
  ASSUME NEW p \in Pipelines
  PROVE  AsyncDoneDue(Preroll(p))
<1> DEFINE bus == p.bus \o <<StateMsg(p.cur, PAUSED), AsyncDone>>
<1>1. Preroll(p).bus = bus
  BY DEF Preroll, Pipelines
<1>2. /\ Len(p.bus) + 2 \in 1 .. Len(bus)
      /\ bus[Len(p.bus) + 2] = AsyncDone
  BY DEF Pipelines
<1> QED
  BY <1>1, <1>2 DEF AsyncDoneDue

\* A message more on the bus changes nothing.
LEMMA AppendAwaiting ==
  ASSUME NEW p \in Pipelines, NEW q \in Pipelines, Awaiting(p),
         NEW msg \in Messages,
         q.bus = Append(p.bus, msg), q.prerolling = p.prerolling,
         p.cur > READY
  PROVE  Awaiting(q)
<1>1. CASE p.prerolling
  BY <1>1 DEF Awaiting, AsyncDoneDue
<1>2. CASE ~p.prerolling
  <2>1. PICK i \in 1 .. Len(p.bus) : p.bus[i] = AsyncDone
    BY <1>2 DEF Awaiting, AsyncDoneDue
  <2>2. i \in 1 .. Len(q.bus) /\ q.bus[i] = AsyncDone
    BY <2>1 DEF Pipelines
  <2> QED
    BY <2>2 DEF Awaiting, AsyncDoneDue
<1> QED
  BY <1>1, <1>2

\* Popping another message does not lose it.
LEMMA PopAwaiting ==
  ASSUME NEW p \in Pipelines, Awaiting(p), p.bus # <<>>,
         Head(p.bus) # AsyncDone
  PROVE  Awaiting(Pop(p))
<1>1. Pop(p).bus = Tail(p.bus) /\ Pop(p).cur = p.cur
        /\ Pop(p).prerolling = p.prerolling
  BY DEF Pop, Pipelines
<1>2. SUFFICES ASSUME p.cur > READY, ~p.prerolling
               PROVE  AsyncDoneDue(Pop(p))
  BY <1>1 DEF Awaiting, AsyncDoneDue
<1>3. PICK i \in 1 .. Len(p.bus) : p.bus[i] = AsyncDone
  BY <1>2 DEF Awaiting, AsyncDoneDue
<1>4. i # 1
  BY <1>3 DEF Pipelines
<1>5. i - 1 \in 1 .. Len(Tail(p.bus)) /\ Tail(p.bus)[i - 1] = AsyncDone
  BY <1>3, <1>4 DEF Pipelines
<1> QED
  BY <1>1, <1>5 DEF AsyncDoneDue

-----------------------------------------------------------------------------
(* What the messages on the bus say of the state                           *)

IsState(msg) == msg.type = "state_changed"

\* Who has cached s and reads the bus to its end, has cached c.
Tells(bus, s, c) ==
  \/ \E i \in 1 .. Len(bus) :
       /\ IsState(bus[i]) /\ bus[i].new = c
       /\ \A j \in i + 1 .. Len(bus) : ~IsState(bus[j])
  \/ /\ \A j \in 1 .. Len(bus) : ~IsState(bus[j])
     /\ s = c

\* The actual state is what one reads; NULL is entered silently.
TellsState(p, s) == p.cur # NULL => Tells(p.bus, s, p.cur)

LEMMA MessageKinds ==
  /\ \A old, new \in States : /\ IsState(StateMsg(old, new))
                              /\ StateMsg(old, new).new = new
  /\ ~IsState(AsyncDone) /\ ~IsState(Eos) /\ ~IsState(DurationChanged)
  BY DEF IsState, StateMsg, AsyncDone, Eos, DurationChanged, Msg

LEMMA AppendStateTells ==
  ASSUME NEW bus \in Seq(Messages), NEW msg \in Messages, NEW s, IsState(msg)
  PROVE  Tells(Append(bus, msg), s, msg.new)
<1> DEFINE longer == Append(bus, msg)
<1>1. /\ Len(longer) \in 1 .. Len(longer)
      /\ longer[Len(longer)] = msg
      /\ Len(longer) + 1 .. Len(longer) = {}
  OBVIOUS
<1> QED
  BY <1>1 DEF Tells

LEMMA AppendChangeTells ==
  ASSUME NEW bus \in Seq(Messages), NEW old \in States, NEW new \in States,
         NEW s
  PROVE  Tells(Append(bus, StateMsg(old, new)), s, new)
<1> DEFINE msg == StateMsg(old, new)
<1>1. msg \in Messages /\ IsState(msg) /\ msg.new = new
  BY StateMsgType, MessageKinds
<1> HIDE DEF msg
<1>2. Tells(Append(bus, msg), s, msg.new)
  BY <1>1, AppendStateTells
<1> QED
  BY <1>1, <1>2 DEF msg

LEMMA AppendOtherTells ==
  ASSUME NEW bus \in Seq(Messages), NEW msg \in Messages, NEW s, NEW c,
         ~IsState(msg), Tells(bus, s, c)
  PROVE  Tells(Append(bus, msg), s, c)
<1> DEFINE longer == Append(bus, msg)
<1>1. /\ Len(longer) = Len(bus) + 1 /\ Len(bus) \in Nat
      /\ \A i \in 1 .. Len(bus) : longer[i] = bus[i]
      /\ longer[Len(bus) + 1] = msg
  OBVIOUS
<1> HIDE DEF longer
<1>2. \A j \in 1 .. Len(longer) : j \in 1 .. Len(bus) \/ j = Len(bus) + 1
  BY <1>1
<1>3. ASSUME NEW i \in 1 .. Len(bus), IsState(bus[i]), bus[i].new = c,
             \A j \in i + 1 .. Len(bus) : ~IsState(bus[j])
      PROVE  Tells(longer, s, c)
  <2>1. i \in 1 .. Len(longer) /\ longer[i] = bus[i]
    BY <1>1
  <2>2. \A j \in i + 1 .. Len(longer) : ~IsState(longer[j])
    BY <1>1, <1>3
  <2> QED
    BY <1>3, <2>1, <2>2 DEF Tells
<1>4. CASE (\A j \in 1 .. Len(bus) : ~IsState(bus[j])) /\ s = c
  BY <1>1, <1>2, <1>4 DEF Tells
<1> QED
  BY <1>3, <1>4 DEF Tells, longer

\* update() reads the next message.
LEMMA TailTells ==
  ASSUME NEW bus \in Seq(Messages), NEW s, NEW c, bus # <<>>,
         Tells(bus, s, c)
  PROVE  Tells(Tail(bus), IF IsState(Head(bus)) THEN Head(bus).new ELSE s, c)
<1> DEFINE rest == Tail(bus)
           t == IF IsState(Head(bus)) THEN Head(bus).new ELSE s
<1>1. /\ Len(rest) = Len(bus) - 1 /\ Len(bus) \in Nat \ {0}
      /\ \A i \in 1 .. Len(rest) : rest[i] = bus[i + 1]
      /\ Head(bus) = bus[1]
  OBVIOUS
<1> HIDE DEF rest, t
<1>2. ASSUME NEW i \in 2 .. Len(bus), IsState(bus[i]), bus[i].new = c,
             \A j \in i + 1 .. Len(bus) : ~IsState(bus[j])
      PROVE  Tells(rest, t, c)
  <2>1. i - 1 \in 1 .. Len(rest) /\ rest[i - 1] = bus[i]
    BY <1>1
  <2>2. ASSUME NEW j \in (i - 1) + 1 .. Len(rest) PROVE ~IsState(rest[j])
    <3>1. j \in 1 .. Len(rest) /\ j + 1 \in i + 1 .. Len(bus)
      BY <1>1
    <3> QED
      BY <1>1, <1>2, <3>1
  <2> QED
    BY <1>2, <2>1, <2>2 DEF Tells
<1>3. ASSUME \A j \in 2 .. Len(bus) : ~IsState(bus[j])
      PROVE  \A j \in 1 .. Len(rest) : ~IsState(rest[j])
  <2> SUFFICES ASSUME NEW j \in 1 .. Len(rest) PROVE ~IsState(rest[j])
    OBVIOUS
  <2>1. j + 1 \in 2 .. Len(bus)
    BY <1>1
  <2> QED
    BY <1>1, <1>3, <2>1
<1>4. CASE /\ IsState(bus[1]) /\ bus[1].new = c
           /\ \A j \in 2 .. Len(bus) : ~IsState(bus[j])
  <2>1. t = c
    BY <1>1, <1>4 DEF t
  <2> QED
    BY <1>3, <1>4, <2>1 DEF Tells
<1>5. CASE (\A j \in 1 .. Len(bus) : ~IsState(bus[j])) /\ s = c
  <2>1. 1 \in 1 .. Len(bus) /\ 2 .. Len(bus) \subseteq 1 .. Len(bus)
    BY <1>1
  <2>2. t = c
    BY <1>1, <1>5, <2>1 DEF t
  <2> QED
    BY <1>3, <1>5, <2>1, <2>2 DEF Tells
<1>6. \A i \in 1 .. Len(bus) : i = 1 \/ i \in 2 .. Len(bus)
  BY <1>1
<1>7. \/ \E i \in 2 .. Len(bus) :
           /\ IsState(bus[i]) /\ bus[i].new = c
           /\ \A j \in i + 1 .. Len(bus) : ~IsState(bus[j])
      \/ /\ IsState(bus[1]) /\ bus[1].new = c
         /\ \A j \in 2 .. Len(bus) : ~IsState(bus[j])
      \/ (\A j \in 1 .. Len(bus) : ~IsState(bus[j])) /\ s = c
  <2>1. 1 + 1 = 2
    OBVIOUS
  <2> QED
    BY <1>6, <2>1 DEF Tells
<1> QED
  BY <1>2, <1>4, <1>5, <1>7 DEF rest, t

\* On the way down one reads READY last.
LEMMA DescentTells ==
  ASSUME NEW bus \in Seq(Messages), NEW s, NEW cur \in States,
         cur = READY => Tells(bus, s, READY)
  PROVE  Tells(bus \o Descent(cur), s, READY)
<1> USE DEF NULL, READY, PAUSED, PLAYING, States
<1>1. CASE cur = READY
  <2>1. Descent(cur) = <<>>
    BY <1>1 DEF Descent
  <2>2. bus \o <<>> = bus
    OBVIOUS
  <2> QED
    BY <1>1, <2>1, <2>2
<1>2. CASE cur = NULL
  <2>1. Descent(cur) = <<StateMsg(NULL, READY)>>
    BY <1>2 DEF Descent
  <2>2. bus \o Descent(cur) = Append(bus, StateMsg(NULL, READY))
    BY <2>1, StateMsgType
  <2> QED
    BY <2>2, AppendChangeTells
<1>3. CASE cur > READY
  <2> DEFINE down == Descent(cur)
             n == cur - READY
             bus2 == bus \o down
  <2>1. n \in Nat \ {0} /\ down = [i \in 1 .. n |-> StateMsg(cur - i + 1, cur - i)]
    BY <1>3 DEF Descent
  <2>2. down \in Seq(Messages) /\ Len(down) = n
    BY <2>1, DescentType
  <2>3. down[n] = StateMsg(READY + 1, READY)
    <3>1. n \in 1 .. n /\ cur - n + 1 = READY + 1 /\ cur - n = READY
      BY <2>1
    <3> QED
      BY <2>1, <3>1
  <2> HIDE DEF down, n
  <2>4. Len(bus2) = Len(bus) + n /\ bus2[Len(bus) + n] = down[n]
    BY <2>1, <2>2
  <2>5. Len(bus) + n \in 1 .. Len(bus2) /\ Len(bus) + n + 1 .. Len(bus2) = {}
    BY <2>1, <2>4
  <2>6. IsState(down[n]) /\ down[n].new = READY
    BY <2>3, MessageKinds
  <2> HIDE DEF bus2
  <2>7. Tells(bus2, s, READY)
    BY <2>4, <2>5, <2>6 DEF Tells
  <2> QED
    BY <2>7 DEF bus2, down
<1> QED
  BY <1>1, <1>2, <1>3

\* Whatever is done to a pipeline, its bus goes on telling the state.
LEMMA SetStateTells ==
  ASSUME NEW p \in Pipelines, NEW s \in States, NEW held \in BOOLEAN, NEW c,
         TellsState(p, c)
  PROVE  TellsState(SetState(p, s, held), c)
<1> DEFINE q == SetState(p, s, held)
<1>0. p.bus \in Seq(Messages) /\ p.cur \in States /\ NULL # READY
        /\ NULL \in States /\ READY \in States
  BY DEF Pipelines, States, NULL, READY, PLAYING
<1>1. CASE s = NULL
  <2>1. q.cur = NULL
    BY <1>1 DEF SetState, Rewind, Pipelines, NULL, READY
  <2> QED
    BY <2>1 DEF TellsState
<1>2. CASE s = READY
  <2>1. q.cur = READY /\ q.bus = p.bus \o Descent(p.cur)
    BY <1>2 DEF SetState, Rewind, Pipelines, NULL, READY
  <2>2. Tells(p.bus \o Descent(p.cur), c, READY)
    BY <1>0, DescentTells DEF TellsState
  <2> QED
    BY <2>1, <2>2 DEF TellsState
<1>3. CASE ~(s <= READY) /\ p.cur = NULL
  <2>1. q.cur = READY /\ q.bus = Append(p.bus, StateMsg(NULL, READY))
    BY <1>3 DEF SetState, Start, Pipelines, NULL, READY
  <2> QED
    BY <1>0, <2>1, AppendChangeTells DEF TellsState
<1>4. CASE ~(s <= READY) /\ p.cur = READY
  <2>1. q.cur = READY /\ q.bus = p.bus
    BY <1>4 DEF SetState, Start, Pipelines, NULL, READY
  <2> QED
    BY <1>0, <1>4, <2>1 DEF TellsState
<1>5. CASE ~(s <= READY) /\ p.cur > READY
  <2>1. \/ q.cur = p.cur /\ q.bus = p.bus
        \/ q.cur = s /\ q.bus = Append(p.bus, StateMsg(p.cur, s))
    BY <1>5 DEF SetState, Change, Pipelines, States, NULL, READY, PLAYING
  <2>2. CASE q.cur = p.cur /\ q.bus = p.bus
    BY <2>2 DEF TellsState
  <2>3. CASE q.cur = s /\ q.bus = Append(p.bus, StateMsg(p.cur, s))
    BY <1>0, <2>3, AppendChangeTells DEF TellsState
  <2> QED
    BY <2>1, <2>2, <2>3
<1>6. /\ s = NULL \/ s = READY \/ ~(s <= READY)
      /\ p.cur = NULL \/ p.cur = READY \/ p.cur > READY
  BY <1>0 DEF States, NULL, READY, PLAYING
<1> QED
  BY <1>1, <1>2, <1>3, <1>4, <1>5, <1>6

LEMMA PrerollTells ==
  ASSUME NEW p \in Pipelines, NEW c
  PROVE  TellsState(Preroll(p), c)
<1> DEFINE first == Append(p.bus, StateMsg(p.cur, PAUSED))
<1>1. PAUSED \in States /\ p.cur \in States /\ p.bus \in Seq(Messages)
  BY DEF Pipelines, States, NULL, PAUSED, PLAYING
<1>2. StateMsg(p.cur, PAUSED) \in Messages /\ AsyncDone \in Messages
  BY <1>1, StateMsgType DEF Messages
<1>3. first \in Seq(Messages) /\ Tells(first, c, PAUSED)
  BY <1>1, <1>2, AppendChangeTells
<1>4. Tells(Append(first, AsyncDone), c, PAUSED)
  BY <1>2, <1>3, MessageKinds, AppendOtherTells
<1>5. Append(first, AsyncDone)
        = p.bus \o <<StateMsg(p.cur, PAUSED), AsyncDone>>
  BY <1>1, <1>2
<1>6. /\ Preroll(p).cur = PAUSED
      /\ Preroll(p).bus = p.bus \o <<StateMsg(p.cur, PAUSED), AsyncDone>>
  BY DEF Preroll, Pipelines
<1> QED
  BY <1>4, <1>5, <1>6 DEF TellsState

LEMMA AdvanceTells ==
  ASSUME NEW p \in Pipelines, NEW c
  PROVE  TellsState(Advance(p), c)
<1>1. /\ PAUSED \in States /\ PLAYING \in States /\ p.bus \in Seq(Messages)
  BY DEF Pipelines, States, NULL, PAUSED, PLAYING
<1>2. /\ Advance(p).cur = PLAYING
      /\ Advance(p).bus = Append(p.bus, StateMsg(PAUSED, PLAYING))
  BY DEF Advance, Pipelines
<1> QED
  BY <1>1, <1>2, AppendChangeTells DEF TellsState

\* A query caches the state it finds.
LEMMA AwaitedTells ==
  ASSUME NEW p \in Pipelines, NEW q \in Awaited(p), NEW c, TellsState(p, c)
  PROVE  TellsState(q, q.cur)
<1>1. CASE q = p
  BY <1>1 DEF TellsState, Tells
<1>2. CASE q # p
  BY <1>2, PrerollType, PrerollTells, AdvanceTells DEF Awaited
<1> QED
  BY <1>1, <1>2

LEMMA EndTells ==
  ASSUME NEW p \in Pipelines, NEW c, TellsState(p, c)
  PROVE  TellsState(End(p), c)
<1>1. p.bus \in Seq(Messages) /\ Eos \in Messages
  BY DEF Pipelines, Messages
<1>2. End(p).cur = p.cur /\ End(p).bus = Append(p.bus, Eos)
  BY <1>1 DEF End, Post, Pipelines
<1> QED
  BY <1>1, <1>2, MessageKinds, AppendOtherTells DEF TellsState

LEMMA DurationTells ==
  ASSUME NEW p \in Pipelines, NEW c, TellsState(p, c)
  PROVE  TellsState(Post(p, <<DurationChanged>>), c)
<1> DEFINE q == Post(p, <<DurationChanged>>)
<1>1. p.bus \in Seq(Messages) /\ DurationChanged \in Messages
  BY DEF Pipelines, Messages
<1>2. q.cur = p.cur /\ q.bus = Append(p.bus, DurationChanged)
  BY <1>1 DEF Post, Pipelines
<1> QED
  BY <1>1, <1>2, MessageKinds, AppendOtherTells DEF TellsState

LEMMA SeekTells ==
  ASSUME NEW p \in Pipelines, NEW t \in Nat, NEW c, TellsState(p, c)
  PROVE  TellsState(Seek(p, t), c)
<1> DEFINE q == Seek(p, t)
<1>1. PAUSED \in States /\ p.bus \in Seq(Messages)
  BY DEF Pipelines, States, NULL, PAUSED, PLAYING
<1>2. \/ q.cur = p.cur /\ q.bus = p.bus
      \/ q.cur = PAUSED /\ q.bus = Append(p.bus, StateMsg(PAUSED, PAUSED))
  BY <1>1 DEF Seek, Post, Pipelines
<1>3. CASE q.cur = p.cur /\ q.bus = p.bus
  BY <1>3 DEF TellsState
<1>4. CASE q.cur = PAUSED /\ q.bus = Append(p.bus, StateMsg(PAUSED, PAUSED))
  BY <1>1, <1>4, AppendChangeTells DEF TellsState
<1> QED
  BY <1>2, <1>3, <1>4

LEMMA PopTells ==
  ASSUME NEW p \in Pipelines, NEW c, TellsState(p, c), p.bus # <<>>
  PROVE  TellsState(Pop(p), IF IsState(Head(p.bus)) THEN Head(p.bus).new
                                                    ELSE c)
<1>1. /\ p.bus \in Seq(Messages)
      /\ Pop(p).cur = p.cur /\ Pop(p).bus = Tail(p.bus)
  BY DEF Pop, Pipelines
<1> QED
  BY <1>1, TailTells DEF TellsState

=============================================================================
