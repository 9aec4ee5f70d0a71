---------------------------- MODULE FrameHandoff ----------------------------
(***************************************************************************)
(* How a video frame goes from GStreamer's streaming thread to the thread  *)
(* that owns the Player (the "UI thread"): Player::onPreroll, onSample and *)
(* processSample on one side, the end of Player::update, stop(), close()   *)
(* and open() on the other.  The two threads share mCurrentSample,         *)
(* mCurrentBuffer, mCurrentMapInfo and the atomic mBufferDirty and take no *)
(* lock, so every access to one of them is a step of its own.              *)
(*                                                                         *)
(* A sample is a positive number, given out in the order of production.    *)
(*   streamPC  "idle"    not in a callback                                 *)
(*             "check"   has pulled a sample, about to read mBufferDirty   *)
(*             "sample", "buffer", "map", "publish"  lines 555 to 560      *)
(*   uiPC      "idle"    outside the library                               *)
(*             "show", "unmap", "unref", "forget", "signal"  update()      *)
(*             "stopWait"                            inside stop()         *)
(*             "closeWait", "closeUnmap", "closeUnref", "reset"  close()   *)
(*             "launch", "openWait"                  inside open()         *)
(***************************************************************************)
EXTENDS Naturals

CONSTANT MaxFrame   \* bound on the samples pulled in a behaviour

ASSUME MaxFrameAssumption == MaxFrame \in Nat

None == 0
Frames == 1 .. MaxFrame

VARIABLES
  mPipeline,        \* whether the player owns a pipeline
  mBufferDirty,     \* a frame is ready for the UI thread
  mCurrentSample,
  mCurrentBuffer,   \* the buffer, named by the sample it belongs to
  mCurrentMapInfo,  \* the mapped data, named likewise; never reset
  mDims,            \* whether mWidth and mHeight have been read off a sample
  streaming,        \* the pipeline may call back: above READY, not flushing
  streamPC,
  sample,           \* the sample in the streaming thread's hand
  uiPC,
  opening,          \* the close() in progress is the one open() begins with
  pulled,           \* samples pulled so far
  sampleRefs,       \* references to each sample held by the library
  bufferMaps,       \* mappings of each buffer held by the library
  shown             \* the last frame handed to onVideoFrame

slotVars == <<mBufferDirty, mCurrentSample, mCurrentBuffer, mCurrentMapInfo>>
streamVars == <<streamPC, sample, pulled>>
uiVars == <<uiPC, opening, shown>>
vars == <<mPipeline, slotVars, mDims, streaming, streamVars, uiVars,
          sampleRefs, bufferMaps>>

Init ==
  /\ mPipeline = FALSE
  /\ mBufferDirty = FALSE
  /\ mCurrentSample = None
  /\ mCurrentBuffer = None
  /\ mCurrentMapInfo = None
  /\ mDims = FALSE
  /\ streaming = FALSE
  /\ streamPC = "idle"
  /\ sample = None
  /\ uiPC = "idle"
  /\ opening = FALSE
  /\ pulled = 0
  /\ sampleRefs = [f \in Frames |-> 0]
  /\ bufferMaps = [f \in Frames |-> 0]
  /\ shown = None

-----------------------------------------------------------------------------
(* The streaming thread                                                    *)

others == <<mPipeline, streaming, uiVars>>

StreamGoes(from, to) ==
  /\ streamPC = from
  /\ streamPC' = to

Ref(f)   == sampleRefs' = [sampleRefs EXCEPT ![f] = @ + 1]
Unref(f) == sampleRefs' = [sampleRefs EXCEPT ![f] = @ - 1]
Map(f)   == bufferMaps' = [bufferMaps EXCEPT ![f] = @ + 1]
Unmap(f) == bufferMaps' = [bufferMaps EXCEPT ![f] = @ - 1]

\* gst_app_sink_pull_preroll / pull_sample give the callback a reference.
Pull ==
  /\ streaming
  /\ pulled < MaxFrame
  /\ StreamGoes("idle", "check")
  /\ pulled' = pulled + 1
  /\ sample' = pulled + 1
  /\ Ref(pulled + 1)
  /\ UNCHANGED <<others, slotVars, bufferMaps>>

\* onPreroll also reads the dimensions, if the caps are fixed and carry them.
OnPreroll ==
  /\ Pull
  /\ mDims' \in {mDims, TRUE}

OnSample ==
  /\ Pull
  /\ UNCHANGED mDims

\* Mutant: the skipped sample is not given back.
SkipSampleLeaks ==
  /\ mBufferDirty
  /\ StreamGoes("check", "idle")
  /\ sample' = None
  /\ UNCHANGED <<others, slotVars, mDims, pulled, sampleRefs, bufferMaps>>

\* Mutant: the callback waits for the UI thread instead of skipping.
SkipSampleWaits ==
  /\ mBufferDirty
  /\ streamPC = "check"
  /\ UNCHANGED vars

\* The UI thread has not consumed the last frame: drop this one.
SkipSample ==
  /\ mBufferDirty
  /\ StreamGoes("check", "idle")
  /\ sample' = None
  /\ Unref(sample)
  /\ UNCHANGED <<others, slotVars, mDims, pulled, bufferMaps>>

\* Mutant: the flag is not consulted.
AcceptAlways ==
  /\ StreamGoes("check", "sample")
  /\ UNCHANGED <<others, slotVars, mDims, sample, pulled, sampleRefs,
                 bufferMaps>>

AcceptSample ==
  /\ ~mBufferDirty
  /\ StreamGoes("check", "sample")
  /\ UNCHANGED <<others, slotVars, mDims, sample, pulled, sampleRefs,
                 bufferMaps>>

StoreSample ==
  /\ StreamGoes("sample", "buffer")
  /\ mCurrentSample' = sample
  /\ UNCHANGED <<others, mBufferDirty, mCurrentBuffer, mCurrentMapInfo,
                 mDims, sample, pulled, sampleRefs, bufferMaps>>

\* Mutant: the frame is announced before it is mapped.
StoreBufferAnnounced ==
  /\ StreamGoes("buffer", "map")
  /\ mCurrentBuffer' = sample
  /\ mBufferDirty' = TRUE
  /\ UNCHANGED <<others, mCurrentSample, mCurrentMapInfo, mDims, sample,
                 pulled, sampleRefs, bufferMaps>>

StoreBuffer ==
  /\ StreamGoes("buffer", "map")
  /\ mCurrentBuffer' = sample
  /\ UNCHANGED <<others, mBufferDirty, mCurrentSample, mCurrentMapInfo,
                 mDims, sample, pulled, sampleRefs, bufferMaps>>

MapBuffer ==
  /\ StreamGoes("map", "publish")
  /\ mCurrentMapInfo' = mCurrentBuffer
  /\ Map(mCurrentBuffer)
  /\ UNCHANGED <<others, mBufferDirty, mCurrentSample, mCurrentBuffer, mDims,
                 sample, pulled, sampleRefs>>

Publish ==
  /\ StreamGoes("publish", "idle")
  /\ mBufferDirty' = TRUE
  /\ sample' = None
  /\ UNCHANGED <<others, mCurrentSample, mCurrentBuffer, mCurrentMapInfo,
                 mDims, pulled, sampleRefs, bufferMaps>>

ProcessSample ==
  \/ SkipSample
  \/ AcceptSample
  \/ StoreSample
  \/ StoreBuffer
  \/ MapBuffer
  \/ Publish

Streaming == OnPreroll \/ OnSample \/ ProcessSample

-----------------------------------------------------------------------------
(* The UI thread: the last part of update()                                *)

UiGoes(from, to) ==
  /\ uiPC = from
  /\ uiPC' = to

\* A step that does nothing but go on.
UiOnly(from, to) ==
  /\ UiGoes(from, to)
  /\ UNCHANGED <<mPipeline, slotVars, mDims, streaming, streamVars, opening,
                 shown, sampleRefs, bufferMaps>>

\* The two releases, which update() and close() guard alike.
Unmapping(from, to) ==
  /\ UiGoes(from, to)
  /\ IF mCurrentBuffer # None THEN Unmap(mCurrentBuffer)
                              ELSE UNCHANGED bufferMaps
  /\ UNCHANGED <<mPipeline, slotVars, mDims, streaming, streamVars, opening,
                 shown, sampleRefs>>

Unreferencing(from, to) ==
  /\ UiGoes(from, to)
  /\ IF mCurrentSample # None THEN Unref(mCurrentSample)
                              ELSE UNCHANGED sampleRefs
  /\ UNCHANGED <<mPipeline, slotVars, mDims, streaming, streamVars, opening,
                 shown, bufferMaps>>

\* Mutant: frames are shown only while the media plays.
TakeFrameWhileStreaming ==
  mBufferDirty /\ streaming /\ UiOnly("idle", "show")

TakeFrame == mBufferDirty /\ UiOnly("idle", "show")

OnVideoFrame ==
  /\ UiGoes("show", "unmap")
  /\ shown' = mCurrentMapInfo
  /\ UNCHANGED <<mPipeline, slotVars, mDims, streaming, streamVars, opening,
                 sampleRefs, bufferMaps>>

UnmapFrame == Unmapping("unmap", "unref")
UnrefFrame == Unreferencing("unref", "forget")

\* Mutant: the pointers keep naming the frame just released.
KeepFrame == UiOnly("forget", "signal")

ForgetFrame ==
  /\ UiGoes("forget", "signal")
  /\ mCurrentBuffer' = None
  /\ mCurrentSample' = None
  /\ UNCHANGED <<mPipeline, mBufferDirty, mCurrentMapInfo, mDims, streaming,
                 streamVars, opening, shown, sampleRefs, bufferMaps>>

\* Mutant: the frame is not taken off the flag, update() shows it again.
SignalNothing == UiOnly("signal", "idle")

SignalProducer ==
  /\ UiGoes("signal", "idle")
  /\ mBufferDirty' = FALSE
  /\ UNCHANGED <<mPipeline, mCurrentSample, mCurrentBuffer, mCurrentMapInfo,
                 mDims, streaming, streamVars, opening, shown, sampleRefs,
                 bufferMaps>>

Update ==
  \/ TakeFrame
  \/ OnVideoFrame
  \/ UnmapFrame
  \/ UnrefFrame
  \/ ForgetFrame
  \/ SignalProducer

-----------------------------------------------------------------------------
(* The UI thread: stop(), play(), close() and open()                       *)

\* setState(NULL) makes the pipeline flush, then waits for its threads.
Flush(from, to) ==
  /\ UiGoes(from, to)
  /\ streaming' = FALSE
  /\ UNCHANGED <<mPipeline, slotVars, mDims, streamVars, shown, sampleRefs,
                 bufferMaps>>

BeginStop == mPipeline /\ Flush("idle", "stopWait") /\ UNCHANGED opening
EndStop   == streamPC = "idle" /\ UiOnly("stopWait", "idle")

\* play() and pause() after a stop() bring the pipeline above READY again.
Play ==
  /\ mPipeline
  /\ uiPC = "idle"
  /\ streaming' = TRUE
  /\ UNCHANGED <<mPipeline, slotVars, mDims, streamVars, uiVars, sampleRefs,
                 bufferMaps>>

\* close(), called by the user (forOpen = FALSE) or by open().
BeginClose(forOpen) == Flush("idle", "closeWait") /\ opening' = forOpen

\* Mutant: close() does not wait for the streaming thread.
DropPipelineAtOnce ==
  /\ UiGoes("closeWait", "closeUnmap")
  /\ mPipeline' = FALSE
  /\ UNCHANGED <<slotVars, mDims, streaming, streamVars, opening, shown,
                 sampleRefs, bufferMaps>>

\* stop() returns once no callback is running; the pipeline is given back.
DropPipeline ==
  /\ streamPC = "idle"
  /\ UiGoes("closeWait", "closeUnmap")
  /\ mPipeline' = FALSE
  /\ UNCHANGED <<slotVars, mDims, streaming, streamVars, opening, shown,
                 sampleRefs, bufferMaps>>

\* Mutant: the sample is given back where the buffer should be unmapped.
CloseUnrefFirst == Unreferencing("closeUnmap", "closeUnref")

CloseUnmap == Unmapping("closeUnmap", "closeUnref")
CloseUnref == Unreferencing("closeUnref", "reset")

Reset ==
  /\ UiGoes("reset", IF opening THEN "launch" ELSE "idle")
  /\ opening' = FALSE
  /\ mBufferDirty' = FALSE
  /\ mCurrentBuffer' = None
  /\ mCurrentSample' = None
  /\ mDims' = FALSE
  /\ UNCHANGED <<mPipeline, mCurrentMapInfo, streaming, streamVars, shown,
                 sampleRefs, bufferMaps>>

\* open() after its close(): nothing is launched (empty path, undiscoverable
\* media, a bad pipeline description) ...
LaunchNothing == UiOnly("launch", "idle")

\* ... or callbacks are installed and PAUSED is asked for.
Launch ==
  /\ UiGoes("launch", "openWait")
  /\ mPipeline' = TRUE
  /\ streaming' = TRUE
  /\ UNCHANGED <<slotVars, mDims, streamVars, opening, shown, sampleRefs,
                 bufferMaps>>

\* PAUSED is reached.  The appsink is launched with async=no: its first
\* sample is not waited for.
OpenSucceeds == UiOnly("openWait", "idle")

\* READY or PAUSED is refused, or not reached in ten seconds: close().
OpenFails == Flush("openWait", "closeWait") /\ UNCHANGED opening

Closing == DropPipeline \/ CloseUnmap \/ CloseUnref \/ Reset
Opening == LaunchNothing \/ Launch \/ OpenSucceeds \/ OpenFails

Control ==
  \/ BeginStop \/ EndStop \/ Play
  \/ \E forOpen \in BOOLEAN : BeginClose(forOpen)
  \/ Closing
  \/ Opening

Next == Streaming \/ Update \/ Control

(***************************************************************************)
(* Fairness: a callback that has started finishes, a call into the library *)
(* that has started finishes, and whatever else the user does update() is  *)
(* called again and again (nsvr_player.hpp:54, "MUST be called often").    *)
(* The pipeline need not produce samples and the user need not open, stop  *)
(* or close anything.                                                      *)
(***************************************************************************)
Fairness ==
  /\ WF_vars(ProcessSample)
  /\ SF_vars(TakeFrame)
  /\ WF_vars(OnVideoFrame \/ UnmapFrame \/ UnrefFrame \/ ForgetFrame
               \/ SignalProducer)
  /\ WF_vars(EndStop \/ Closing \/ Opening)

SafeSpec == Init /\ [][Next]_vars
Spec == SafeSpec /\ Fairness

-----------------------------------------------------------------------------
(* Properties                                                              *)

StreamPCs == {"idle", "check", "sample", "buffer", "map", "publish"}
Releasing == {"unmap", "unref", "forget", "signal"}
UiPCs == {"idle", "show", "stopWait", "closeWait", "closeUnmap",
          "closeUnref", "reset", "launch", "openWait"} \union Releasing

(* Types.  A sample unreferenced twice, or a buffer unmapped twice, would  *)
(* take a count below 0.                                                   *)
TypeOK ==
  /\ mPipeline \in BOOLEAN
  /\ mBufferDirty \in BOOLEAN
  /\ mCurrentSample \in Frames \union {None}
  /\ mCurrentBuffer \in Frames \union {None}
  /\ mCurrentMapInfo \in Frames \union {None}
  /\ mDims \in BOOLEAN
  /\ streaming \in BOOLEAN
  /\ streamPC \in StreamPCs
  /\ sample \in Frames \union {None}
  /\ uiPC \in UiPCs
  /\ opening \in BOOLEAN
  /\ pulled \in 0 .. MaxFrame
  /\ sampleRefs \in [Frames -> {0, 1}]
  /\ bufferMaps \in [Frames -> {0, 1}]
  /\ shown \in Frames \union {None}

StreamOwnsSlot == streamPC \in {"sample", "buffer", "map", "publish"}
UiOwnsSlot == uiPC \in {"show", "closeUnmap", "closeUnref", "reset"}
                         \union Releasing

(* The three plain pointers behind mBufferDirty are never touched by both  *)
(* threads at once, in update() or in close(): the flag, and the wait for  *)
(* the streaming thread inside stop(), are all the mutual exclusion there  *)
(* is (nsvr_player.cpp:547-560, 350-365, 176-183).                         *)
SlotExclusive == ~(StreamOwnsSlot /\ UiOwnsSlot)

(* onVideoFrame is given the mapped data of a frame whose sample is still  *)
(* referenced and whose buffer is still mapped (nsvr_player.cpp:352).      *)
ShownIntact ==
  uiPC = "show" =>
    /\ mCurrentSample # None
    /\ mCurrentBuffer = mCurrentSample
    /\ mCurrentMapInfo = mCurrentSample
    /\ sampleRefs[mCurrentSample] = 1
    /\ bufferMaps[mCurrentSample] = 1

(* Outside the library, and between callbacks, the references held are     *)
(* exactly the one of the frame waiting to be shown: a skipped, a shown    *)
(* and a closed frame have all been given back, once.                      *)
NothingLeaks ==
  (uiPC = "idle" /\ streamPC = "idle") =>
    \A f \in Frames :
      /\ sampleRefs[f] = 1 <=> mBufferDirty /\ f = mCurrentSample
      /\ bufferMaps[f] = sampleRefs[f]

(* A buffer is never still mapped when its sample has been given back.     *)
MappedIsReferenced ==
  \A f \in Frames : bufferMaps[f] = 1 => sampleRefs[f] = 1

(* No frame is shown twice, or after a later one, across any number of     *)
(* stops, closes and reopenings.                                           *)
ShownOnceInOrder == [][OnVideoFrame => shown' > shown]_vars

(* close() and open() return: the streaming thread never waits for the UI  *)
(* thread, so waiting for it inside stop() cannot deadlock.                *)
CallsReturn == (uiPC # "idle") ~> (uiPC = "idle")

(* The frame waiting to be shown, as the mailbox sees it.                  *)
WaitingFrame ==
  IF mBufferDirty /\ uiPC \notin Releasing THEN mCurrentSample ELSE None

Mailbox == INSTANCE FrameMailbox WITH slot <- WaitingFrame

(* The two threads together implement the one-frame mailbox: what a step   *)
(* of either does is a put, a show, a discard or nothing.                  *)
ImplementsMailbox == Mailbox!SafeSpec

(* ... and no accepted frame waits for ever.                               *)
MailboxServed == Mailbox!Spec

(* nsvr_player.hpp:93: "answers width of the video, 0 if audio is being    *)
(* played. Valid after open()", with nsvr_player.cpp:121.  The user has    *)
(* the thread back with a video pipeline open and not stopped since.       *)
DimensionsAfterOpen ==
  (uiPC = "idle" /\ mPipeline /\ streaming) => mDims

=============================================================================
