------------------------------ MODULE Playback ------------------------------
(***************************************************************************)
(* What a PlayerServer promises the user who waits for it: a media has a   *)
(* state it is to be in and a place it is to play from, and only the       *)
(* user's calls change them.  What update() does to carry a network seek   *)
(* out, it does in between.                                                *)
(*                                                                         *)
(* No place is promised for the first media of a server until it is        *)
(* paused, stopped or sought: it plays from wherever the clock has got to. *)
(***************************************************************************)
CONSTANTS
  Positions,                        \* places to play from, Beginning included
  Beginning,
  Nowhere,                          \* no place is promised
  Closed, Stopped, Paused, Playing  \* the states a media may be wanted in

VARIABLES
  state,      \* the state the media is to be in
  place,      \* where it is to play from
  updating    \* inside update()

vars == <<state, place, updating>>

Init ==
  /\ state = Closed
  /\ place = Nowhere
  /\ updating = FALSE

\* open() where no media is open.
Open ==
  /\ state = Closed
  /\ state' = Paused
  /\ UNCHANGED place

\* open(), stop(), replay() and close() of an open media start over.
StartOver(s) ==
  /\ state # Closed
  /\ state' = s
  /\ place' = Beginning

\* play(), and pause() of a media that does not play.
ChangeState(s) ==
  /\ state # Closed
  /\ state' = s
  /\ UNCHANGED place

\* pause(): the media is to go on from where it is.
PauseHere ==
  /\ state = Playing \/ (state # Closed /\ place = Nowhere)
  /\ state' = Paused
  /\ place' \in Positions

\* setTime()
Seek ==
  /\ state = Playing
  /\ place' \in Positions
  /\ UNCHANGED state

Call ==
  /\ ~updating
  /\ \/ Open
     \/ \E s \in {Closed, Stopped, Paused, Playing} : StartOver(s)
     \/ \E s \in {Paused, Playing} : ChangeState(s)
     \/ PauseHere
     \/ Seek
  /\ UNCHANGED updating

\* update() begins or ends; it changes nothing the user asked for.
Update ==
  /\ updating' = ~updating
  /\ UNCHANGED <<state, place>>

Next == Call \/ Update

Spec == Init /\ [][Next]_vars

=============================================================================
