------------------------- MODULE FrameHandoffProofs -------------------------
(***************************************************************************)
(* What holds of FrameHandoff whatever the number of samples.  Inv is the  *)
(* inductive invariant; its parts say who may touch the slot, when the     *)
(* streaming thread is at rest, what the slot holds, in which order the    *)
(* frames are, and who holds each reference.                               *)
(***************************************************************************)
EXTENDS FrameHandoff, TLAPS

\* The flag hands the slot from one thread to the other.
Turns ==
  /\ StreamOwnsSlot => ~mBufferDirty
  /\ uiPC \in {"show"} \union Releasing => mBufferDirty

\* Without a pipeline, and after the waits of stop() and close(), the
\* streaming thread is not running.
Quiet ==
  /\ ~mPipeline => ~streaming /\ streamPC = "idle"
  /\ uiPC \in {"closeUnmap", "closeUnref", "reset", "launch"} => ~mPipeline
  /\ uiPC \in {"stopWait", "closeWait"} => ~streaming

\* What the three pointers hold at each point of either thread.
Contents ==
  /\ mBufferDirty /\ uiPC # "signal" =>
       /\ mCurrentSample \in Frames
       /\ mCurrentBuffer = mCurrentSample
       /\ mCurrentMapInfo = mCurrentSample
  /\ \/ uiPC = "signal"
     \/ ~mBufferDirty /\ streamPC \in {"idle", "check", "sample"}
     => mCurrentSample = None /\ mCurrentBuffer = None
  /\ streamPC \in {"buffer", "map", "publish"} => mCurrentSample = sample
  /\ streamPC = "buffer" => mCurrentBuffer = None
  /\ streamPC \in {"map", "publish"} => mCurrentBuffer = sample
  /\ streamPC = "publish" => mCurrentMapInfo = sample

\* The sample in the callback's hand is the newest, the waiting frame is
\* newer than the last one shown.
Order ==
  /\ shown <= pulled
  /\ mCurrentSample <= pulled
  /\ streamPC = "idle" => sample = None
  /\ streamPC # "idle" =>
       sample = pulled /\ sample \in Frames /\ shown < sample
  /\ streamPC = "check" => mCurrentSample < sample
  /\ mBufferDirty /\ uiPC \notin Releasing => shown < mCurrentSample

\* The callback holds the sample in its hand, the slot the frame waiting.
HoldsSample(f) ==
  \/ streamPC # "idle" /\ f = sample
  \/ /\ mBufferDirty
     /\ uiPC \notin {"forget", "signal", "reset"}
     /\ f = mCurrentSample

HoldsMap(f) ==
  \/ streamPC = "publish" /\ f = sample
  \/ /\ mBufferDirty
     /\ uiPC \notin {"unref", "forget", "signal", "closeUnref", "reset"}
     /\ f = mCurrentBuffer

Accounts ==
  \A f \in Frames :
    /\ sampleRefs[f] = IF HoldsSample(f) THEN 1 ELSE 0
    /\ bufferMaps[f] = IF HoldsMap(f) THEN 1 ELSE 0

Inv == TypeOK /\ Turns /\ Quiet /\ Contents /\ Order /\ Accounts


-----------------------------------------------------------------------------
\* Nothing is referenced, mapped, waiting or running at first.
LEMMA InitInv == Init => Inv
<1> SUFFICES ASSUME Init PROVE Inv
  OBVIOUS
<1>1. TypeOK
  <2>1. /\ sampleRefs \in [Frames -> {0, 1}]
        /\ bufferMaps \in [Frames -> {0, 1}]
    BY DEF Init
  <2>2. pulled \in 0 .. MaxFrame
    BY MaxFrameAssumption DEF Init
  <2>3. streamPC \in StreamPCs /\ uiPC \in UiPCs
    BY DEF Init, StreamPCs, UiPCs
  <2> QED
    BY <2>1, <2>2, <2>3 DEF Init, TypeOK
<1>2. Turns /\ Quiet /\ Contents
  BY DEF Init, Turns, Quiet, Contents, StreamOwnsSlot, Releasing, None
<1>3. Order
  BY DEF Init, Order, Releasing, None
<1>4. Accounts
  BY DEF Init, Accounts, HoldsSample, HoldsMap, Frames, None
<1> QED
  BY <1>1, <1>2, <1>3, <1>4 DEF Inv

\* Every statement of either thread keeps Inv.  Those that disturb several parts
\* of it are taken apart; for the others one look at the whole is enough.
LEMMA StepInv == Inv /\ [Next]_vars => Inv'
<1> SUFFICES ASSUME Inv, [Next]_vars PROVE Inv'
  OBVIOUS
<1> USE MaxFrameAssumption
    DEF Inv, TypeOK, Turns, Quiet, Contents, Order, Accounts,
        HoldsSample, HoldsMap, Frames, None, StreamPCs, UiPCs, Releasing,
        StreamOwnsSlot, slotVars, streamVars, uiVars, StreamGoes, UiGoes,
        Ref, Unref, Map, Unmap, others, UiOnly, Unmapping, Unreferencing,
        Flush
<1>1. CASE OnPreroll
  <2>1. TypeOK'
    <3>1. mDims' \in BOOLEAN
      BY <1>1 DEF OnPreroll
    <3> HIDE DEF Turns, Quiet, Contents
    <3>2. QED
      BY <1>1, <3>1 DEF OnPreroll, Pull
  <2>2. Turns' /\ Quiet' /\ Contents'
    BY <1>1 DEF OnPreroll, Pull
  <2>3. Order'
    BY <1>1 DEF OnPreroll, Pull
  <2>4. Accounts'
    BY <1>1 DEF OnPreroll, Pull
  <2> QED
    BY <2>1, <2>2, <2>3, <2>4
<1>2. CASE OnSample
  BY <1>2 DEF OnSample, Pull
<1>3. CASE SkipSample
  BY <1>3 DEF SkipSample
<1>4. CASE AcceptSample
  BY <1>4 DEF AcceptSample
<1>5. CASE StoreSample
  BY <1>5 DEF StoreSample
<1>6. CASE StoreBuffer
  BY <1>6 DEF StoreBuffer
<1>7. CASE MapBuffer
  BY <1>7 DEF MapBuffer
<1>8. CASE Publish
  BY <1>8 DEF Publish
<1>9. CASE TakeFrame
  BY <1>9 DEF TakeFrame
<1>10. CASE OnVideoFrame
  BY <1>10 DEF OnVideoFrame
<1>11. CASE UnmapFrame
  <2>1. TypeOK'
    BY <1>11 DEF UnmapFrame
  <2>2. Turns' /\ Quiet' /\ Contents'
    BY <1>11 DEF UnmapFrame
  <2>3. Order'
    BY <1>11 DEF UnmapFrame
  <2>4. Accounts'
    BY <1>11 DEF UnmapFrame
  <2> QED
    BY <2>1, <2>2, <2>3, <2>4
<1>12. CASE UnrefFrame
  <2>1. TypeOK'
    BY <1>12 DEF UnrefFrame
  <2>2. Turns' /\ Quiet' /\ Contents'
    BY <1>12 DEF UnrefFrame
  <2>3. Order'
    BY <1>12 DEF UnrefFrame
  <2>4. Accounts'
    BY <1>12 DEF UnrefFrame
  <2> QED
    BY <2>1, <2>2, <2>3, <2>4
<1>13. CASE ForgetFrame
  BY <1>13 DEF ForgetFrame
<1>14. CASE SignalProducer
  <2>1. TypeOK'
    BY <1>14 DEF SignalProducer
  <2>2. Turns' /\ Quiet' /\ Contents'
    BY <1>14 DEF SignalProducer
  <2>3. Order'
    BY <1>14 DEF SignalProducer
  <2>4. Accounts'
    BY <1>14 DEF SignalProducer
  <2> QED
    BY <2>1, <2>2, <2>3, <2>4
<1>15. CASE BeginStop
  <2>1. TypeOK'
    BY <1>15 DEF BeginStop
  <2>2. Turns' /\ Quiet' /\ Contents'
    BY <1>15 DEF BeginStop
  <2>3. Order'
    BY <1>15 DEF BeginStop
  <2>4. Accounts'
    BY <1>15 DEF BeginStop
  <2> QED
    BY <2>1, <2>2, <2>3, <2>4
<1>16. CASE EndStop
  BY <1>16 DEF EndStop
<1>17. CASE Play
  <2>1. TypeOK'
    BY <1>17 DEF Play
  <2>2. Turns' /\ Quiet' /\ Contents'
    BY <1>17 DEF Play
  <2>3. Order'
    BY <1>17 DEF Play
  <2>4. Accounts'
    BY <1>17 DEF Play
  <2> QED
    BY <2>1, <2>2, <2>3, <2>4
<1>18. ASSUME NEW forOpen \in BOOLEAN, BeginClose(forOpen) PROVE Inv'
  <2>1. TypeOK'
    BY <1>18 DEF BeginClose
  <2>2. Turns' /\ Quiet' /\ Contents'
    BY <1>18 DEF BeginClose
  <2>3. Order'
    BY <1>18 DEF BeginClose
  <2>4. Accounts'
    BY <1>18 DEF BeginClose
  <2> QED
    BY <2>1, <2>2, <2>3, <2>4
<1>19. CASE DropPipeline
  BY <1>19 DEF DropPipeline
<1>20. CASE CloseUnmap
  BY <1>20 DEF CloseUnmap
<1>21. CASE CloseUnref
  BY <1>21 DEF CloseUnref
<1>22. CASE Reset
  <2>1. TypeOK'
    BY <1>22 DEF Reset
  <2>2. Turns' /\ Quiet' /\ Contents'
    BY <1>22 DEF Reset
  <2>3. Order'
    BY <1>22 DEF Reset
  <2>4. Accounts'
    BY <1>22 DEF Reset
  <2> QED
    BY <2>1, <2>2, <2>3, <2>4
<1>23. CASE LaunchNothing
  BY <1>23 DEF LaunchNothing
<1>24. CASE Launch
  <2>1. TypeOK'
    BY <1>24 DEF Launch
  <2>2. Turns' /\ Quiet' /\ Contents'
    BY <1>24 DEF Launch
  <2>3. Order'
    BY <1>24 DEF Launch
  <2>4. Accounts'
    BY <1>24 DEF Launch
  <2> QED
    BY <2>1, <2>2, <2>3, <2>4
<1>25. CASE OpenSucceeds
  BY <1>25 DEF OpenSucceeds
<1>26. CASE OpenFails
  <2>1. TypeOK'
    BY <1>26 DEF OpenFails
  <2>2. Turns' /\ Quiet' /\ Contents'
    BY <1>26 DEF OpenFails
  <2>3. Order'
    BY <1>26 DEF OpenFails
  <2>4. Accounts'
    BY <1>26 DEF OpenFails
  <2> QED
    BY <2>1, <2>2, <2>3, <2>4
<1>27. CASE UNCHANGED vars
  BY <1>27 DEF vars
<1> QED
  BY <1>1, <1>2, <1>3, <1>4, <1>5, <1>6, <1>7, <1>8, <1>9, <1>10, <1>11,
     <1>12, <1>13, <1>14, <1>15, <1>16, <1>17, <1>18, <1>19, <1>20, <1>21,
     <1>22, <1>23, <1>24, <1>25, <1>26, <1>27
     DEF Next, Streaming, ProcessSample, Update, Control, Closing, Opening

-----------------------------------------------------------------------------
\* Inv holds in every reachable state.
LEMMA Invariance == SafeSpec => []Inv
  BY InitInv, StepInv, PTL DEF SafeSpec

\* In every behaviour every count stays 0 or 1: no sample is unreferenced and
\* no buffer unmapped twice (nsvr_player.cpp:180-181, 357-361).
THEOREM TypeCorrect == Spec => []TypeOK
<1>1. Inv => TypeOK
  BY DEF Inv
<1> QED
  BY Invariance, <1>1, PTL DEF Spec

\* The slot behind mBufferDirty is never touched by both threads at once
\* (nsvr_player.cpp:547-560, 350-365, 176-183).
THEOREM SlotIsExclusive == Spec => []SlotExclusive
<1>1. Inv => SlotExclusive
  BY DEF Inv, Turns, Quiet, SlotExclusive, StreamOwnsSlot, UiOwnsSlot
<1> QED
  BY Invariance, <1>1, PTL DEF Spec

\* onVideoFrame never sees released data (nsvr_player.cpp:352).
THEOREM ShownIsIntact == Spec => []ShownIntact
<1>1. Inv => ShownIntact
  BY DEF Inv, Turns, Contents, Accounts, HoldsSample, HoldsMap, ShownIntact,
         Frames, None
<1> QED
  BY Invariance, <1>1, PTL DEF Spec

\* A skipped, a shown and a closed frame have all been given back.
THEOREM NoLeaks == Spec => []NothingLeaks
<1>1. Inv => NothingLeaks
  BY DEF Inv, Turns, Contents, Accounts, HoldsSample, HoldsMap, NothingLeaks
<1> QED
  BY Invariance, <1>1, PTL DEF Spec

\* A buffer is unmapped before its sample is given back, in update() and in
\* close() (nsvr_player.cpp:180-181, 357-358).
THEOREM MappedStaysReferenced == Spec => []MappedIsReferenced
<1>1. Inv => MappedIsReferenced
  BY DEF Inv, TypeOK, Turns, Quiet, Contents, Accounts, HoldsSample, HoldsMap,
         MappedIsReferenced
<1> QED
  BY Invariance, <1>1, PTL DEF Spec

\* Frames are shown at most once, and in the order of production.
THEOREM FramesInOrder == Spec => ShownOnceInOrder
<1>1. Inv /\ [Next]_vars => [OnVideoFrame => shown' > shown]_vars
  <2> SUFFICES ASSUME Inv, OnVideoFrame PROVE shown' > shown
    OBVIOUS
  <2> QED
    BY MaxFrameAssumption
       DEF Inv, TypeOK, Turns, Contents, Order, OnVideoFrame, UiGoes,
           Releasing, Frames, None
<1> QED
  BY Invariance, <1>1, PTL DEF Spec, SafeSpec, ShownOnceInOrder

\* What either thread does to the slot is a step of the one-frame mailbox, or
\* no step of it.
LEMMA StepRefines == Inv /\ Inv' /\ [Next]_vars => [Mailbox!Next]_Mailbox!vars
<1> SUFFICES ASSUME Inv, Inv', [Next]_vars PROVE [Mailbox!Next]_Mailbox!vars
  OBVIOUS
<1> USE DEF others, UiOnly, Unmapping, Unreferencing, Flush
<1>1. CASE Publish
  <2>1. WaitingFrame = None /\ WaitingFrame' = sample
    BY <1>1 DEF Publish, StreamGoes, Inv, Turns, Contents, StreamOwnsSlot,
                Releasing, uiVars, WaitingFrame
  <2>2. sample \in Frames /\ sample > shown /\ shown' = shown
    BY <1>1, MaxFrameAssumption
       DEF Publish, StreamGoes, Inv, TypeOK, Order, uiVars, Frames, None
  <2> QED
    BY <2>1, <2>2 DEF Mailbox!Next, Mailbox!Put
<1>2. CASE OnVideoFrame
  <2>1. WaitingFrame # None /\ WaitingFrame' = None /\ shown' = WaitingFrame
    BY <1>2 DEF OnVideoFrame, UiGoes, Inv, Turns, Contents, Releasing,
                WaitingFrame, Frames, None
  <2> QED
    BY <2>1 DEF Mailbox!Next, Mailbox!Show
<1>3. CASE Reset
  <2>1. WaitingFrame' = None /\ shown' = shown
    BY <1>3 DEF Reset, WaitingFrame
  <2> QED
    BY <2>1 DEF Mailbox!Next, Mailbox!Discard, Mailbox!vars
<1>4. CASE StoreSample \/ StoreBuffer \/ MapBuffer
  BY <1>4 DEF StoreSample, StoreBuffer, MapBuffer, StreamGoes, Inv, Turns,
              StreamOwnsSlot, WaitingFrame, uiVars, Mailbox!vars
<1>5. CASE ForgetFrame \/ SignalProducer
  BY <1>5 DEF ForgetFrame, SignalProducer, UiGoes, Releasing, WaitingFrame,
              Mailbox!vars
<1>6. CASE OnPreroll \/ OnSample \/ SkipSample \/ AcceptSample
  <2>1. UNCHANGED <<slotVars, uiVars>>
    BY <1>6 DEF OnPreroll, OnSample, Pull, SkipSample, AcceptSample
  <2> QED
    BY <2>1 DEF slotVars, uiVars, WaitingFrame, Mailbox!vars
<1>7. CASE TakeFrame \/ UnmapFrame \/ UnrefFrame
  BY <1>7 DEF TakeFrame, UnmapFrame, UnrefFrame, UiGoes, Releasing, slotVars,
              WaitingFrame, Mailbox!vars
<1>8. CASE BeginStop \/ EndStop \/ Play \/ DropPipeline \/ CloseUnmap
             \/ CloseUnref
  BY <1>8 DEF BeginStop, EndStop, Play, DropPipeline, CloseUnmap, CloseUnref,
              UiGoes, Releasing, slotVars, uiVars, WaitingFrame, Mailbox!vars
<1>9. CASE LaunchNothing \/ Launch \/ OpenSucceeds \/ OpenFails
             \/ \E forOpen \in BOOLEAN : BeginClose(forOpen)
  BY <1>9 DEF LaunchNothing, Launch, OpenSucceeds, OpenFails, BeginClose,
              UiGoes, Releasing, slotVars, WaitingFrame, Mailbox!vars
<1>10. CASE UNCHANGED vars
  BY <1>10 DEF vars, slotVars, uiVars, WaitingFrame, Mailbox!vars
<1> QED
  BY <1>1, <1>2, <1>3, <1>4, <1>5, <1>6, <1>7, <1>8, <1>9, <1>10
     DEF Next, Streaming, ProcessSample, Update, Control, Closing, Opening

\* The handoff implements the mailbox: the two unsynchronised threads behave
\* like one that puts, shows and discards whole frames.
THEOREM HandoffImplementsMailbox == Spec => ImplementsMailbox
<1>1. Init => Mailbox!Init
  BY DEF Init, Mailbox!Init, WaitingFrame, None
<1> QED
  BY Invariance, <1>1, StepRefines, PTL
     DEF Spec, SafeSpec, ImplementsMailbox, Mailbox!SafeSpec

=============================================================================
