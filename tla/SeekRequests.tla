---------------------------- MODULE SeekRequests ----------------------------
(***************************************************************************)
(* What Player::setTime promises: of the positions asked for while one     *)
(* cannot be sought yet only the latest is remembered, it is sought once,  *)
(* and a seek never goes to a position that a later request replaced.      *)
(***************************************************************************)
EXTENDS Integers

CONSTANT Positions   \* where the media may be asked to continue

VARIABLES
  asked,      \* the last position asked for
  waiting,    \* whether it is still to be sought
  at          \* where playback was last started from

vars == <<asked, waiting, at>>

Init ==
  /\ asked = 0
  /\ waiting = FALSE
  /\ at = 0

\* A request that has to wait replaces the one waiting.
Ask(t) ==
  /\ asked' = t
  /\ waiting' = TRUE
  /\ UNCHANGED at

\* A request sought at once cancels the one waiting.
SeekNow(t) ==
  /\ asked' = t
  /\ waiting' = FALSE
  /\ at' = t

Serve ==
  /\ waiting
  /\ waiting' = FALSE
  /\ at' = asked
  /\ UNCHANGED asked

\* The media starts over; a request that waits goes on waiting.
Restart ==
  /\ at' = 0
  /\ UNCHANGED <<asked, waiting>>

Forget ==
  /\ asked' = 0
  /\ waiting' = FALSE
  /\ at' = 0

Next ==
  \/ \E t \in Positions : Ask(t) \/ SeekNow(t)
  \/ Serve
  \/ Restart
  \/ Forget

Spec == Init /\ [][Next]_vars

=============================================================================
