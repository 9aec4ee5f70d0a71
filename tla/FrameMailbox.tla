---------------------------- MODULE FrameMailbox ----------------------------
(***************************************************************************)
(* What Player promises about video frames, without threads: a mailbox for *)
(* one frame.  The streaming thread may put a frame in when the mailbox is *)
(* empty; the thread that calls Player::update() takes it out and shows    *)
(* it; closing the media may throw it away.  Frames are numbered in the    *)
(* order in which the pipeline hands them over.                            *)
(***************************************************************************)
EXTENDS Naturals

CONSTANTS
  Frames,     \* the samples the pipeline may produce, positive numbers
  None        \* no frame: 0

VARIABLES
  slot,       \* the frame waiting to be shown, or None
  shown       \* the last frame handed to onVideoFrame, or None

vars == <<slot, shown>>

Init ==
  /\ slot = None
  /\ shown = None

Put(f) ==
  /\ slot = None
  /\ f > shown
  /\ slot' = f
  /\ UNCHANGED shown

Show ==
  /\ slot # None
  /\ shown' = slot
  /\ slot' = None

Discard ==
  /\ slot # None
  /\ slot' = None
  /\ UNCHANGED shown

Next ==
  \/ \E f \in Frames : Put(f)
  \/ Show
  \/ Discard

SafeSpec == Init /\ [][Next]_vars

\* A frame does not wait for ever: it is shown, or its media is closed.
Spec == SafeSpec /\ WF_vars(Show \/ Discard)

=============================================================================
