---------------------------- MODULE PlayerClient ----------------------------
(***************************************************************************)
(* Class PlayerClient: a player that follows a server by its heartbeats.   *)
(* A heartbeat carries the server's state and base time over UDP, so it    *)
(* may be lost, repeated, or overtaken by a later one.  A base time that   *)
(* differs from the pipeline's is remembered, the pipeline taken down to   *)
(* READY, and put on it an update later; then the next heartbeat brings    *)
(* the state back.                                                         *)
(*                                                                         *)
(* The server is only what its heartbeats say: PlayerServer shows how it   *)
(* comes to that.  One packet that it sent before its last change may      *)
(* still be under way.  Times are names; the volume and the mute a         *)
(* heartbeat carries too, and seeks asked of the client, are left out.     *)
(***************************************************************************)
EXTENDS Pipeline

CONSTANTS
  Bases,          \* the base times the server may come to
  ServerStates,   \* the states it may report
  MaxInbox,       \* bound on the packets in the client's socket
  MaxBus,         \* bound on the messages left on the bus
  UserSets        \* the states the client's own user may ask for

None == 0         \* no base time pending; the pipeline's own base time

ASSUME BasesAssumption == Bases \subseteq Nat \ {None}
ASSUME ServerStatesAssumption == ServerStates \subseteq States
ASSUME UserSetsAssumption == UserSets \subseteq States
ASSUME BoundsAssumption == MaxInbox \in Nat \ {0} /\ MaxBus \in Nat

Packets == [state : ServerStates, base : Bases]
NoPacket == [state |-> VOID, base |-> None]

VARIABLES
  server,     \* the heartbeat the server sends now
  late,       \* one it sent before, still in the network
  inbox,      \* the packets received, oldest first
  pipe,       \* mPipeline, or NoPipeline
  base,       \* its base time
  told,       \* the base time its elements play on, if they play
  mState,     \* the cached state
  mBaseTime,  \* the base time to be put on; None if 0
  at          \* in update(): "out", "iterate" or "bus"

net == <<server, late>>
vars == <<net, inbox, pipe, base, told, mState, mBaseTime, at>>

NoPipeline == [Launched EXCEPT !.cur = VOID, !.tgt = VOID]
Opened == pipe # NoPipeline

Init ==
  /\ server \in Packets
  /\ late = NoPacket
  /\ inbox = <<>>
  /\ pipe = NoPipeline
  /\ base = None
  /\ told = None
  /\ mState = NULL
  /\ mBaseTime = None
  /\ at = "out"

\* A bin tells its base time to its elements as it goes to PLAYING.
Goes(q) ==
  /\ pipe' = q
  /\ told' = CASE q.cur # PLAYING                      -> None
               [] q.cur = PLAYING /\ pipe.cur = PLAYING -> told
               [] OTHER                                -> base

-----------------------------------------------------------------------------
(* The server and the network                                              *)

ServerMoves ==
  /\ server' \in Packets \ {server}
  /\ late' \in {late, server}
  /\ UNCHANGED <<inbox, pipe, base, told, mState, mBaseTime, at>>

LateIsLost ==
  /\ late # NoPacket
  /\ late' = NoPacket
  /\ UNCHANGED <<server, inbox, pipe, base, told, mState, mBaseTime, at>>

\* A packet that comes during iterate() might have come just before it.
Receive(packet) ==
  /\ at # "iterate"
  /\ Len(inbox) < MaxInbox
  /\ inbox' = Append(inbox, packet)
  /\ UNCHANGED <<net, pipe, base, told, mState, mBaseTime, at>>

HeartbeatComes == Receive(server)
LateComes == late # NoPacket /\ Receive(late)

-----------------------------------------------------------------------------
(* The user                                                                *)

Call == at = "out" /\ Opened /\ Len(pipe.bus) < MaxBus

\* A pending base time survives close().
UserClose ==
  /\ at = "out"
  /\ pipe' = NoPipeline
  /\ base' = None
  /\ told' = None
  /\ mState' = NULL
  /\ UNCHANGED <<net, inbox, mBaseTime, at>>

\* open(): close(), setupClock(), READY, PAUSED.
UserOpen ==
  /\ at = "out"
  /\ pipe' = Preroll(SetState(SetState(Launched, READY, TRUE), PAUSED, TRUE))
  /\ base' = mBaseTime
  /\ told' = None
  /\ mState' = NULL
  /\ mBaseTime' = None
  /\ UNCHANGED <<net, inbox, at>>

\* It may fail before setupClock(), and after.
UserOpenFails ==
  /\ at = "out"
  /\ pipe' = NoPipeline
  /\ base' = None
  /\ told' = None
  /\ mState' = NULL
  /\ mBaseTime' \in {mBaseTime, None}
  /\ UNCHANGED <<net, inbox, at>>

UserSetState(s) ==
  /\ Call
  /\ \E held \in BOOLEAN : Goes(SetState(pipe, s, held))
  /\ UNCHANGED <<net, inbox, base, mState, mBaseTime, at>>

\* stop(), and the first half of replay().
Stopped(p) == SetState(SetState(p, NULL, TRUE), READY, TRUE)

UserStop ==
  /\ Call
  /\ Goes(Stopped(pipe))
  /\ UNCHANGED <<net, inbox, base, mState, mBaseTime, at>>

UserQueryState ==
  /\ Call
  /\ \E q \in Awaited(pipe) : Goes(q) /\ mState' = q.cur
  /\ UNCHANGED <<net, inbox, base, mBaseTime, at>>

UserCall ==
  \/ UserOpen \/ UserOpenFails \/ UserClose
  \/ \E s \in UserSets : UserSetState(s)
  \/ UserStop
  \/ UserQueryState

-----------------------------------------------------------------------------
(* update(): iterate(), the pending base time, the bus                     *)

UpdateBegin ==
  /\ at = "out"
  /\ Opened
  /\ at' = "iterate"
  /\ UNCHANGED <<net, inbox, pipe, base, told, mState, mBaseTime>>

\* The base time pending once a packet is read.
Pending(packet) == IF base # packet.base THEN packet.base ELSE mBaseTime

\* onMessage(): the state of a heartbeat counts only once its base time does.
TakeState(s) ==
  \E q \in Awaited(pipe), held \in BOOLEAN :
    /\ mState' = q.cur
    /\ Goes(IF q.cur = s THEN q ELSE SetState(q, s, held))

\* Mutant: the state is taken whatever base time is pending.
OnMessageAnyBase ==
  /\ at = "iterate"
  /\ inbox # <<>>
  /\ inbox' = Tail(inbox)
  /\ mBaseTime' = Pending(Head(inbox))
  /\ TakeState(Head(inbox).state)
  /\ UNCHANGED <<net, base, at>>

OnMessage ==
  /\ at = "iterate"
  /\ inbox # <<>>
  /\ inbox' = Tail(inbox)
  /\ mBaseTime' = Pending(Head(inbox))
  /\ \/ /\ mBaseTime' # None
        /\ UNCHANGED <<pipe, told, mState>>
     \/ /\ mBaseTime' = None
        /\ TakeState(Head(inbox).state)
  /\ UNCHANGED <<net, base, at>>

Iterated ==
  /\ at = "iterate"
  /\ inbox = <<>>
  /\ at' = "bus"

NothingPending ==
  /\ Iterated
  /\ mBaseTime = None
  /\ UNCHANGED <<net, inbox, pipe, base, told, mState, mBaseTime>>

GoDown ==
  /\ Iterated
  /\ mBaseTime # None
  /\ mState # READY
  /\ Goes(SetState(pipe, READY, TRUE))
  /\ UNCHANGED <<net, inbox, base, mState, mBaseTime>>

\* Mutant: the base time is put on but stays pending.
SetupClockAgain ==
  /\ Iterated
  /\ mBaseTime # None
  /\ mState = READY
  /\ base' = mBaseTime
  /\ UNCHANGED <<net, inbox, pipe, told, mState, mBaseTime>>

\* Mutant: it is forgotten and not put on.
SetupClockNot ==
  /\ Iterated
  /\ mBaseTime # None
  /\ mState = READY
  /\ mBaseTime' = None
  /\ UNCHANGED <<net, inbox, pipe, base, told, mState>>

\* The cached state says READY: a clock of the server's is made and its base
\* time put on the pipeline.
SetupClock ==
  /\ Iterated
  /\ mBaseTime # None
  /\ mState = READY
  /\ base' = mBaseTime
  /\ mBaseTime' = None
  /\ UNCHANGED <<net, inbox, pipe, told, mState>>

OnBeforeUpdate == OnMessage \/ NothingPending \/ GoDown \/ SetupClock

Popped(type) ==
  /\ at = "bus"
  /\ pipe.bus # <<>>
  /\ Head(pipe.bus).type = type

\* Mutant: the state still pending is noted, VOID if there is none.
HandleStateChangedPending ==
  /\ Popped("state_changed")
  /\ mState' = VOID
  /\ Goes(Pop(pipe))
  /\ UNCHANGED <<net, inbox, base, mBaseTime, at>>

HandleStateChanged ==
  /\ Popped("state_changed")
  /\ mState' = Head(pipe.bus).new
  /\ Goes(Pop(pipe))
  /\ UNCHANGED <<net, inbox, base, mBaseTime, at>>

HandleAsyncDone ==
  /\ Popped("async_done")
  /\ Goes(Pop(pipe))
  /\ UNCHANGED <<net, inbox, base, mState, mBaseTime, at>>

\* replay() or pause(): setLoop() may have been called at any time.
HandleEos ==
  /\ Popped("eos")
  /\ \/ Goes(SetState(Stopped(Pop(pipe)), PLAYING, TRUE))
     \/ \E held \in BOOLEAN : Goes(SetState(Pop(pipe), PAUSED, held))
  /\ UNCHANGED <<net, inbox, base, mState, mBaseTime, at>>

UpdateEnd ==
  /\ at = "bus"
  /\ pipe.bus = <<>>
  /\ at' = "out"
  /\ UNCHANGED <<net, inbox, pipe, base, told, mState, mBaseTime>>

Handle == HandleStateChanged \/ HandleAsyncDone \/ HandleEos
Update == UpdateBegin \/ OnBeforeUpdate \/ Handle \/ UpdateEnd

-----------------------------------------------------------------------------
(* The pipeline by itself                                                  *)

PipelineGoes(can, next) ==
  /\ Opened
  /\ can
  /\ Goes(next)
  /\ UNCHANGED <<net, inbox, base, mState, mBaseTime, at>>

PipelinePrerolls == PipelineGoes(CanPreroll(pipe), Preroll(pipe))
PipelineAdvances == PipelineGoes(CanAdvance(pipe), Advance(pipe))
PipelineEnds     == PipelineGoes(CanEnd(pipe), End(pipe))

Next ==
  \/ ServerMoves \/ LateIsLost \/ HeartbeatComes \/ LateComes
  \/ UserCall
  \/ Update
  \/ PipelinePrerolls \/ PipelineAdvances \/ PipelineEnds

(***************************************************************************)
(* Fairness: update() and the pipeline as for Player.  The server repeats  *)
(* its heartbeat for ever, and not all of its packets are lost; none stays *)
(* in the network for ever.                                                *)
(***************************************************************************)
Fairness ==
  /\ SF_vars(UpdateBegin)
  /\ WF_vars(OnBeforeUpdate)
  /\ WF_vars(Handle)
  /\ WF_vars(UpdateEnd)
  /\ WF_vars(PipelinePrerolls)
  /\ SF_vars(PipelineAdvances)
  /\ SF_vars(HeartbeatComes)
  /\ WF_vars(LateIsLost)

SafeSpec == Init /\ [][Next]_vars
Spec == SafeSpec /\ Fairness

-----------------------------------------------------------------------------
(* Properties                                                              *)

TypeOK ==
  /\ server \in Packets
  /\ late \in Packets \union {NoPacket}
  /\ inbox \in Seq(Packets) /\ Len(inbox) <= MaxInbox
  /\ pipe \in Pipelines \union {NoPipeline}
  /\ {base, told, mBaseTime} \subseteq Bases \union {None}
  /\ mState \in States
  /\ at \in {"out", "iterate", "bus"}

(* Once the bus is read to its end and nothing changes, the cached state   *)
(* is the actual one: a client taken down for a base time is known to be   *)
(* in READY then, and the base time is put on                              *)
(* (nsvr_player_client.cpp:74-86).                                         *)
StateSettles ==
  (/\ Opened
   /\ pipe.bus = <<>>
   /\ ~pipe.prerolling
   /\ pipe.cur # NULL) => mState = pipe.cur

(* A heartbeat starts, pauses or stops the client only if the client is on *)
(* the heartbeat's base time and is not about to leave it, whatever old    *)
(* heartbeats turn up (nsvr_player_client.cpp:38-42): it never plays the   *)
(* server's state at another position than the server's.                   *)
StateGoesWithBase ==
  [][at = "iterate" /\ inbox' # inbox /\ pipe'.tgt # pipe.tgt
       => Head(inbox).base = base /\ mBaseTime' = None]_vars

(* A base time that is pending is finally put on, or the media closed,     *)
(* however the server goes on seeking and its heartbeats are reordered,    *)
(* once the client's own user and the end of the media leave it alone      *)
(* (nsvr_player_client.cpp:74-86).                                         *)
PendingBaseApplied ==
  <>[][~UserCall /\ ~PipelineEnds]_vars
    => (mBaseTime # None /\ Opened ~> mBaseTime = None \/ ~Opened)

(* A client with an open media ends up in the state and on the base time   *)
(* of a server that no longer changes, whatever came before: losses, old   *)
(* heartbeats after new ones, a media opened and closed with a base time   *)
(* pending, the end of the media, calls of the client's own user.          *)
FollowsServer ==
  (<>[][~UserCall /\ ~PipelineEnds /\ ~ServerMoves]_vars /\ <>[]Opened)
    => <>[](pipe.cur = server.state /\ base = server.base)

(* README.md:3: "frame-synchronized across network and across computers".  *)
(* In particular a client that finally plays, plays on the server's base   *)
(* time, not only notes it.                                                *)
PlaysInStep ==
  (<>[][~UserCall /\ ~PipelineEnds /\ ~ServerMoves]_vars /\ <>[]Opened)
    => <>[](pipe.cur = PLAYING => told = server.base)

=============================================================================
