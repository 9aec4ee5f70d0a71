------------------------------ MODULE Pipeline ------------------------------
(***************************************************************************)
(* The playbin pipeline of a Player, as far as the code in src/ relies on  *)
(* it: its states, its asynchronous state changes, flushing seeks and the  *)
(* messages it leaves on its bus.  GStreamer is not part of the            *)
(* repository.  A pipeline is a record and every operator here maps one to *)
(* the next; the modules that EXTEND this one have the variables.          *)
(*   cur         the state reached                                         *)
(*   tgt         the state asked for                                       *)
(*   prerolling  the sinks wait for data: the change is ASYNC              *)
(*   ended       the media has been played to its end                      *)
(*   pos         where playback was last started from                      *)
(*   bus         messages not popped yet, oldest first                     *)
(***************************************************************************)
EXTENDS Integers, Sequences

CONSTANT SinksPreroll
  \* whether some sink reports the preroll that follows a seek: an audio sink
  \* does, the video appsink of nsvr_player.cpp:59 is made with async=no

ASSUME SinksPrerollAssumption == SinksPreroll \in BOOLEAN

\* GstState
VOID == 0
NULL == 1
READY == 2
PAUSED == 3
PLAYING == 4
States == NULL .. PLAYING

StateMsg(old, new) == [type |-> "state_changed", old |-> old, new |-> new]
Msg(type) == [type |-> type, old |-> VOID, new |-> VOID]
AsyncDone == Msg("async_done")
Eos == Msg("eos")
DurationChanged == Msg("duration_changed")

Messages == {AsyncDone, Eos, DurationChanged}
              \union {StateMsg(old, new) : old \in States, new \in States}

Pipelines ==
  [cur : States, tgt : States, prerolling : BOOLEAN, ended : BOOLEAN,
   pos : Nat, bus : Seq(Messages)]

\* gst_parse_launch
Launched ==
  [cur |-> NULL, tgt |-> NULL, prerolling |-> FALSE, ended |-> FALSE,
   pos |-> 0, bus |-> <<>>]

Post(p, msgs) == [p EXCEPT !.bus = @ \o msgs]
Pop(p) == [p EXCEPT !.bus = Tail(@)]

\* Down to READY or NULL: at once, and the media is started over.  Entering
\* NULL flushes the bus.
Descent(from) ==
  IF from = NULL
  THEN <<StateMsg(NULL, READY)>>
  ELSE [i \in 1 .. from - READY |-> StateMsg(from - i + 1, from - i)]

Rewind(p, s) ==
  [p EXCEPT !.cur = s, !.tgt = s, !.prerolling = FALSE,
            !.ended = FALSE, !.pos = 0,
            !.bus = IF s = NULL THEN <<>> ELSE @ \o Descent(p.cur)]

\* Up from there: the sinks have to see data first.
Start(p, s) ==
  [p EXCEPT !.cur = READY, !.tgt = s, !.prerolling = TRUE,
            !.bus = IF p.cur = NULL
                    THEN Append(@, StateMsg(NULL, READY)) ELSE @]

\* Between PAUSED and PLAYING.  held: whether the sinks have data to show, so
\* that PAUSED need not wait for any.
Change(p, s, held) ==
  IF p.prerolling \/ (s = PAUSED /\ p.cur = PLAYING /\ ~held)
  THEN [p EXCEPT !.tgt = s, !.prerolling = TRUE]
  ELSE [p EXCEPT !.cur = s, !.tgt = s,
                 !.bus = IF p.cur = s THEN @
                         ELSE Append(@, StateMsg(p.cur, s))]

\* gst_element_set_state
SetState(p, s, held) ==
  IF s <= READY THEN Rewind(p, s)
  ELSE IF p.cur <= READY THEN Start(p, s)
  ELSE Change(p, s, held)

\* set_state answered GST_STATE_CHANGE_SUCCESS: nothing is waited for.
Succeeded(p) == ~p.prerolling

\* The sinks have data: the state change or the seek completes.
CanPreroll(p) == p.prerolling
Preroll(p) ==
  [p EXCEPT !.cur = PAUSED, !.prerolling = FALSE,
            !.bus = @ \o <<StateMsg(p.cur, PAUSED), AsyncDone>>]

\* ... and if PLAYING was asked for, the pipeline goes on to it.
CanAdvance(p) == p.cur = PAUSED /\ p.tgt = PLAYING /\ ~p.prerolling
Advance(p) ==
  [p EXCEPT !.cur = PLAYING, !.bus = Append(@, StateMsg(PAUSED, PLAYING))]

\* What gst_element_get_state may find, waiting a while for a change under way.
Awaited(p) ==
  {p} \union (IF CanPreroll(p)
              THEN {Preroll(p)} \union (IF CanAdvance(Preroll(p))
                                       THEN {Advance(Preroll(p))} ELSE {})
              ELSE IF CanAdvance(p) THEN {Advance(p)} ELSE {})

CanEnd(p) == p.cur = PLAYING /\ ~p.prerolling /\ ~p.ended
End(p) == [Post(p, <<Eos>>) EXCEPT !.ended = TRUE]

\* The message that ends a wait is still to come, or to be popped.
AsyncDoneDue(p) ==
  p.prerolling \/ \E i \in 1 .. Len(p.bus) : p.bus[i] = AsyncDone

\* A flushing seek: the sinks lose their data and the pipeline its state,
\* unless no sink tells.  Below PAUSED there is nothing to seek in.
CanSeek(p) == p.cur > READY
Seek(p, t) ==
  LET sought == [p EXCEPT !.pos = t, !.ended = FALSE] IN
  IF ~SinksPreroll \/ p.prerolling
  THEN sought
  ELSE [Post(sought, <<StateMsg(PAUSED, PAUSED)>>)
          EXCEPT !.cur = PAUSED, !.prerolling = TRUE]

=============================================================================
