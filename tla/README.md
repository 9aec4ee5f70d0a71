# Verification of nsvr

nsvr plays media with GStreamer and keeps several machines in step: a
`PlayerServer` owns the clock and tells its state to `PlayerClient`s. This
directory holds TLA+ models of that code, the TLC runs that check them and the
TLAPS proofs about them. All paths are relative to the repository; `player.cpp`
stands for `source/nsvr/nsvr_player.cpp`, and so on.

## The system

| Component | State it keeps | Operations | Meets the others by |
|---|---|---|---|
| `Player`, frame handoff | `mCurrentSample`, `mCurrentBuffer`, `mCurrentMapInfo`, atomic `mBufferDirty`, `mWidth`/`mHeight` | `onPreroll`, `onSample`, `processSample`; the end of `update()`; `close()` | callbacks on GStreamer's streaming thread, shared fields without a lock |
| `Player`, control | `mPipeline`, `mState`, `mPendingSeek`, `mSeekingLock`, `mDuration`, `mTime`, `mLoop` | `open`, `close`, `setState` (`play`, `pause`, `stop`, `replay`), `queryState`, `setTime`, `setLoop`, `update` | one thread; messages of the pipeline's bus; virtual callbacks |
| `Player`, sound | `mVolume`, `mMute`, a static `saved_volume` | `setVolume`, `setMute`, `play` | shared by all players of the process |
| `PlayerServer` | the pending seek (`mPendingSeek`, `mPendingState`, `mPendingCurrentTime`), `mPendingStateSeek`, the heartbeat counter, the network clock | overrides of `setTime`, `onBeforeSetState`, `onStateChanged`, `onBeforeUpdate`, `setupClock` | called from inside `Player`'s methods; heartbeats through `Server` |
| `PlayerClient` | `mBaseTime`, the network clock | `onMessage`, `setupClock`, `onBeforeUpdate` | heartbeats through `Client` |
| `Server` | the TCP service, address and port, one UDP endpoint per client | `listen`, `shutdown`, `incoming`, `broadcastToClients`, `iterate` | sockets; the default main context |
| `Client` | UDP socket, its main context, server address and port | `connect`, `disconnect`, `incomming`, `sendToServer`, `iterate` | sockets; a main context of its own |
| `PacketHandler` | none | `serialize`, `parse` | text of a heartbeat |
| `Discoverer` | what it found | `open`, getters | called by `Player::open` |
| `internal`, `nsvr.cpp` | whether GStreamer is initialised | initialisation, ports, logging | |

What is hard in it:

- **Two threads and no lock.** The streaming thread calls back at any moment;
  one atomic flag, and the wait inside `stop()`, are all the mutual exclusion.
- **A pipeline with a life of its own.** State changes and seeks are
  asynchronous, messages lag behind, and the code tells from a message's kind
  alone what has finished.
- **Calls inside calls.** `update()` handles a message, which calls a virtual
  method, which queries the state and asks for a seek.
- **A network that loses things.** A seek of the server reaches clients only as
  a new base time in a heartbeat over UDP.

What makes each part correct: a frame is shown intact, once, in order, and given
back (handoff); the latest request of `setTime` is sought and none is stranded,
and the cached state settles on the actual one (control); the volume before
muting comes back (sound); a network seek ends in the state it began in and at
the position asked for (server); a client follows the server's last base time
and state whatever is lost (client, packets); a listener or a connection is used
only while it exists and reaches the clients it should (sockets).
`PROJECT.json` lists the hazards at their lines, with the properties against
them.

## Modules

| Module | What it is |
|---|---|
| `FrameMailbox` | Abstract: a box for one frame; put, show, discard. |
| `FrameHandoff` | The two threads around the frame pointers, one step per access. |
| `FrameHandoffProofs` | Its theorems. |
| `Pipeline` | GStreamer's playbin as the code relies on it; operators on a record, no variables. External. |
| `SeekRequests` | Abstract: a register that remembers the latest position asked for. |
| `Playback` | Abstract: a media with a state it is to be in and a place it is to play from, which only calls change. |
| `Player` | The control side of `Player`, on `Pipeline`. |
| `PipelineProofs`, `PlayerProofs` | Their theorems. |
| `PlayerServer` | `Player`'s control with the server's overrides, on `Pipeline`. |
| `PlayerClient` | `Player`'s control with the client's overrides, on `Pipeline`, and the server's heartbeats over the network. |
| `PlayerServerProofs`, `PlayerClientProofs` | Their theorems. |
| `Heartbeat` | `PacketHandler`: serializing and parsing a heartbeat; operators, no variables. |
| `Sound` | Volume and mute of a server and a client, on `Heartbeat`. |
| `SoundProofs` | The round trip of a heartbeat, and the theorems about `Sound`. |
| `Endpoints` | `Server` and `Client`: listening, connecting, hellos, and where heartbeats go. |
| `EndpointsProofs` | Its theorems. |
| `Opening` | `Discoverer`, the four `open()`, `close()`, the destructor and the network clocks, as objects acquired and given back. |
| `OpeningProofs` | Its theorems. |

### FrameHandoff

`streamPC` and `uiPC` are the program points of the two threads; each line of
`processSample` (player.cpp:544-562), of the end of `update()` (350-365) and of
`close()` (172-184) is an action. A sample is a number, given out in the order
of production. `sampleRefs` and `bufferMaps` count what the library holds: the
counts are what `gst_sample_unref` and `gst_buffer_unmap` are about.
`streaming` says whether GStreamer may call back. `gst_element_set_state(NULL)`
waits for the streaming thread, hence the guard `streamPC = "idle"` of `EndStop`
and `DropPipeline`; that is GStreamer's contract (a callback runs inside the
stream lock that deactivating the pads takes). Accesses are sequentially
consistent: `std::atomic<bool>` with its default order publishes the plain
fields that precede it. `mCurrentMapInfo` is never cleared in the code, and is
not here. Left out: allocation failure of `gst_buffer_map`.

### Pipeline

The state reached and the state asked for, whether the sinks wait for data,
where playback was started from, and the bus.
Downward changes are immediate; upward ones wait for a preroll, which posts
`STATE_CHANGED` and `ASYNC_DONE`; a flushing seek loses the preroll. Entering
`NULL` flushes the bus, as a GStreamer pipeline's does. A pause of a playing
media may or may not have to wait for data (`held`). `SinksPreroll` is FALSE
for a media whose only sink is the video appsink, launched with `async=no`
(player.cpp:59): it reports no preroll after a seek. The runs have sinks that
report; the theorems that do not say otherwise hold for both.

### Player

A call is a step; `update()` is a step per message, with pipeline steps in
between (the loop of lines 240-347 reads a bus that is being written). `asked`
is history. The callbacks of the base class do nothing and have
no action. `open()` takes several calls in the code, but on the one thread, and
the pipeline's own steps during it are those of its preroll; it is one step with
its outcome (`Opening` has the places where it returns). Errors, warnings and
infos on the bus are only logged and left out.
A time is a number; `Clamp` is the `CLAMP` of line 399.

### PlayerServer

Because calls nest, the player is one record and a call is an operator from a
player to the set of players it may return with, the set because
`gst_element_get_state` and `getTime` may find several things. The base time is
not computed: `base + ((captured - base) - seek)` says that the media was at
`seek` when it was asked for. If it has been meant to play ever since, that is
the position it plays from, `origin`; if not, the clock has gone on without it
(`LeftBehind`), and it plays from wherever that leads to: `origin` is `None`. So
it is after `open()`, whose base time is the moment of opening with no start
time (player_server.cpp:56-61); what makes a media play from a place is the seek
that `play()` makes of a noted position. In the first media of a server none is
noted (line 15) until it is paused or stopped, so a `play()` some time after
`open()` begins that much later; in every later media `close()` has noted 0
(`PositionReset`). `PlaysWhereAsked` and `Playback` promise no place for a first
media that was not yet paused, stopped or sought; that one that plays always
has a place it was asked to play from (`origin \in Times`) is refuted by `open()`
and `play()`.

Line 141 converts a double that is negative for a seek forward; that is
undefined, so `ConversionWraps` chooses between what x86-64 builds do (modulo
2^64, right in the end) and what ARM builds do (0). The counter of heartbeats is modelled;
their content is that of `Packets` in `PlayerClient` and of `HeartbeatOf` in
`Sound`. The duration is known (`getDuration()` clamps the request, line 43).

`ImplementsPlayback` says where the intention of the user is kept, at every
moment and not only at rest: the state to be in is `mPendingState` while a seek
is pending and the pipeline's target otherwise (`Goal`); the place to play from
is `mPendingSeek`, or else what `mPendingStateSeek` notes, or else the position
the base time stands for, if any (`Place`). That pair is a `Playback`, in which
`update()` changes nothing.

### PlayerClient

`update()` is `UpdateBegin`, an `OnMessage` for each packet `iterate()` finds,
one of `NothingPending`, `GoDown` and `SetupClock` (player_client.cpp:74-86),
and then the bus as in `Player`. The server is reduced to the heartbeat it sends
now, which may change to any other at any time; `late` is one it sent before
and the network still has. A packet not received is lost, one received twice is
repeated, `late` after `server` is reordered. `told` is the base time the
pipeline's elements play on: a bin gives it to them when it goes to `PLAYING`,
so one set later reaches them only when they go there again. `None` is 0, as in
the code, for `mBaseTime`; it also names the base time a pipeline chooses by
itself before it follows a server. Assumed: the client's socket is bound and the
server knows the client (what that takes is in `Endpoints`), and a network clock
can be made (`Opening` has it fail). `setLoop` is not an action: the end of the
media may go either way. The volume and the mute of a heartbeat are in `Sound`.
Left out: seeks asked of a client.

### Heartbeat and Sound

A text is the two letters it begins with and its commands, an attribute and a
value; `parse` splits at the bars, reads what it can, stops at the first value
that throws (`Malformed`) and accepts what had five commands, whichever they
were (nsvr_packet_handler.cpp:46-97). A double is printed with six digits: to a
multiple of `Grain`, but a positive one never to 0.

`Sound` has one server and one client. Volumes are whole numbers up to `Full`.
A player's volume is its own (`mVolume`) and the pipeline's (`volume`), and the
one to go back to is the static of `setMute`, so it is per process
(`saved_volume`). `Heard` is the part of `onMessage` that takes the mute and
then the volume of a heartbeat. `before` and `played` are history.
What `FollowsSound` asks of the server, that it was played since its media was
opened, is needed: a player that is muted, closed and opened again answers that
it is muted while its pipeline is loud until `play()`, and a client that hears
"muted, and at full volume" mutes itself by the one and unmutes itself by the
other, over and over. `OneProcess = TRUE` or `Toggles = FALSE` (a user who mutes
what is muted) refute `UnmuteRestores`: there is one saved volume, and a second
muting saves 0.

### Endpoints

A hello over TCP makes the server set up a UDP endpoint for the machine it came
from, once (nsvr_server.cpp:102-134); heartbeats go to it. A port is a short, so
one above 32767 is negative: a server listens on it (the conversion to 16 bits
and back restores it), a client binds it, but the client's connection for the
hello is refused by GLib before anything is written. `bound` outlives
`shutdown()` because the listener is not closed (nsvr_server.cpp:78): listening
on such a port again, or on one that another process has, leaves a service that
is "active" with no listener (`"empty"`), and `isListening()` answers true.
`Restart` is a new `Server` in the same process or in another one.
`ReceiveFails` is the receive error that disconnects from inside the iteration
of the very context it gives back; what `iterate()` then does is undefined, and
both outcomes that leave a process (disconnected, or replaced by a new one) are
there. Two properties have an excuse, `Stale`: a machine known by the port of an
earlier `listen()` is never told of the new one. Without the excuse both are
refuted; `StaleOnlyAfterMoving` says when it can arise. `OneHost = TRUE` refutes
both too: two clients on one machine share the endpoint and the port, and the
datagrams go to one of the sockets.

### Opening

A player is the set of its pointers that are not null and the references the
process holds to each kind of object; a UDP port is held by the clock provider
of a server. An `open()` is a step for each place where it can return
(player.cpp:29-152), with what the discoverer may answer. `open()` answers true
when the media cannot be discovered, although nothing is open then (`OpenFails`
with `~found.success`); the overloads that discover first return false then and
leave the media that was open alone. Three choices of the user are constants. With
`ClosesFirst = FALSE` players are destroyed with a media open: the destructor
runs `close()` when the derived class is gone already, so the clocks and the
port are never given back, which refutes `NothingKept` and, for the next server
on the port, `ClockServed`. With `ListensFirst = FALSE` a server listens
elsewhere while a media is open, the clock staying where it was: that refutes
`ClockServed` alone.

A `listen()`, the constructor's too, may fail: it notes the port before it binds
anything (server.cpp:22-23), the constructor only logs it, and the player opens
media all the same, on the clock port of what was noted (`Listened`). So two
servers of a process may be named one port; the code keeps no one from it.
`OwnPorts` says that the users do not name one that another server has noted;
with `OwnPorts = FALSE` the second of two finds its clock's port taken, and
`ClockServed` is refuted.

## Runs

| Run | Shows | Bounds |
|---|---|---|
| `frame_handoff` | Exclusion, references, order, no deadlock in `stop()`/`close()`, refinement of `FrameMailbox`, no frame waits for ever | 3 samples: one shown, one skipped, one waiting, in any order with stops, closes and reopenings |
| `player` | Lock, state and seeking, for a pipeline that refuses, ends and changes by itself | media of 3 positions, 3 requests, 5 messages on the bus before the user waits |
| `player_live` | A request that waits is served; the last state asked for is reported | known duration, working seeks |
| `server_calm` | A network seek restores the state, moves the base time at rest, plays where asked; refinement of `Playback` | media of 3 positions; a user who waits for each change and seek to finish, seeks only while playing, does not pause what is stopped |
| `server_live` | The pending seek is finally applied however calls overlap; the cached state settles on the actual one | no restriction on the user; media of 2 positions |
| `client` | A base time that is pending is applied, a state is taken only with its base time, the cached state settles, and the client ends up in the state and on the base time of a server that stays | 2 base times, a server that reports NULL, READY or PLAYING, a user who pauses, one packet in the socket at an update and an older one in the network |
| `sound` | A muted player that plays is silent, unmuting restores, the client ends up with the sound of the server | volumes 0, 1, half and full, one asked for above the full, printed to multiples of 2; one heartbeat now and one late |
| `endpoints` | A hello is answered, a client that repeats it goes on hearing a server that was started anew, a stale endpoint has a port the process bound earlier | 2 clients on 2 machines, 2 ports |
| `opening` | Nothing half open, every object given back, the clock served where clients look | 2 players, 2 common ports and the largest, one UDP port that cannot be had; `listen()` succeeds or fails |
| `dims_after_open` | `open()` may return before the dimensions are known | |
| `server_restore` | A `setTime` while another seek, also one that `play()` makes, has the pipeline down leaves the media stopped | a user who waits for changes, not for seeks |
| `client_in_step` | A client may play on an old base time for ever, if a new one arrives in the update after the one that started it | |

The last three refute a statement of the repository's documentation or
comments; `PROJECT.json` quotes it.

The constants of the passing runs are not arbitrary: where a property needs a
careful user or a kind pipeline, that is a constant, and with the other value
TLC refutes the property.

| Constant changed | Refuted | What happens |
|---|---|---|
| `Requests` with a negative time (`player`) | `ImplementsSeekRequests` | a negative time asked for while a seek is under way is lost, and cancels the one that waits |
| `Discovered = {0, 2}` (`player_live`) | `SeekServed`, `PendingHasServer` | a seek asked for before the duration is known is not carried out when it is |
| `WaitsForSeeks = FALSE` (`server_calm`) | all four | a second seek during the trip through READY takes READY for the state to restore (`server_restore`) |
| `WaitsForChanges = FALSE` (`server_calm`) | all four | a `setTime` soon after `replay()`, whose pipeline is still on its way up from READY, takes READY for the state to restore |
| `MayEnd = TRUE` (`server_calm`) | all four | the end of the media, or its replay, comes in the middle of the trip |
| `SeeksPaused = TRUE` (`server_calm`) | `PlaysWhereAsked`, `ImplementsPlayback` | a seek made while paused is undone by `play()` |
| `PausesStopped = TRUE` (`server_calm`) | `PlaysWhereAsked`, `ImplementsPlayback` | a media that is stopped and then paused notes the time from before the stop, and plays from there |
| `ConversionWraps = FALSE` (`server_calm`) | `PlaysWhereAsked`, `ImplementsPlayback` | a seek forward is a seek to where the media is |
| `OneProcess`, `Toggles`, `OneHost`, `ClosesFirst`, `ListensFirst`, `OwnPorts` | see above | see above |

Why the bounds suffice. Nothing compares positions except with 0 and the
duration, so 0, a middle and the end are all the kinds there are; one pending
request and one under way are all the code remembers, so three requests tell
apart the one sought, the one replaced and the one that replaces. `MaxBus` stops
the user, never the pipeline: it only excludes that a user makes call after call
without ever calling `update()`; with 5 a stop, a replay and a seek can all
leave their messages behind. The client compares a packet with one base time and
one state, and reads packets one by one, so two base times and the packet of now
with an older one give every comparison; with two packets in the socket, or with
a server that also reports `PAUSED` or a user who plays, the safety (1.3 million
states) and the liveness (0.8 million) hold too, but take longer than the runs
are meant to. The states reported include NULL, the cached state of a server
just after it reopened a media; a client that hears of it goes there.
A heartbeat's volume is compared with one volume, so what matters are 0, the
full one, one that is printed as it is and one that is rounded. The server of
`Endpoints` treats each machine by itself, so a second client only has to get in
the way, and two ports make a move and a way back. In `Opening` the players of a
process meet only in the ports of the clocks: one with a neighbour, one that is
the neighbour, and the one whose successor is no port.
Where a bound is only for TLC, the theorems do without it.

The mutants of `PROJECT.json` are small bugs put into the actions: each property
is violated by at least one.

## Fairness

- A call of the library that has begun goes on (weak fairness of the owner's
  steps and of `processSample`): nothing in them blocks but the wait for the
  streaming thread.
- `update()` is called again and again (strong fairness of its beginning, since
  other calls may interleave): "MUST be called often", nsvr_player.hpp:54. Its
  loop goes on while there are messages.
- A pipeline that waits for data gets it (weak), and goes on to PLAYING (strong,
  as the user may keep interrupting).
- The server repeats its heartbeat and the network does not lose all of them
  (strong fairness of `HeartbeatComes`: nsvr_player_server.cpp:124-128), nor
  keep an old one for ever. `FollowsServer`, `PlaysInStep` and `FollowsSound`
  need it.
- Both sides call `iterate()` again and again, as the players do in `update()`
  with a media open: a hello that was accepted is read and a datagram in the
  socket is received (weak fairness of `Incoming`, for each hello, and of
  `Receive`). Not all the datagrams to a machine are lost (strong fairness of
  `SendTo`). That clients say hello again is no fairness but the premise of
  `KeepsHearing`.
- Nothing obliges the user to call anything else, the pipeline to produce a
  sample or the media to end. `SeekApplied` assumes the user finally leaves the
  player alone: one who seeks for ever postpones the seek for ever. So do
  `PendingBaseApplied` and `FollowsServer`; the latter also that the server
  finally stays as it is, the former not.

## Proofs

`tlapm` checks every theorem, for every value of the constants.

**FrameHandoffProofs.** `Inv` is the conjunction of `TypeOK`, the turns of the
threads (`Turns`: the flag says whose the slot is, except where `stop()` has
silenced the stream), what the pointers hold at each program point
(`Contents`), the order of frames (`Order`) and the exact reference counts
(`Accounts`). None of the safety properties is inductive by itself: that the
slot is exclusive depends on the callback finding the flag unset *and* on
`close()` having waited; that counts stay 0 or 1 depends on what the pointers
name. `StepInv` goes through the 26 actions. From `Inv` follow type
correctness, exclusion, intact frames, no leak, mapped-is-referenced, the order
of frames (an action property), and that each step is a step of `FrameMailbox`
or none (`HandoffImplementsMailbox`).

**PipelineProofs.** Types of the pipeline's operators, what they do to the
position, `Awaiting` (above READY an `ASYNC_DONE` is due) and `Tells`: who reads
the bus to its end, from the state cached now, reads the state the pipeline is
in.

**PlayerProofs.**
- `TypeCorrect`.
- `LockReleased` (sinks that report): the invariant is `mSeekingLock =>
  Awaiting(mPipeline)`. A stopped media may keep the lock; that it must preroll,
  and so post the releasing message, before it gets above READY again is what
  makes the property hold.
- `RequestServerDue` (such sinks, a known duration, seeks that work): a request
  is put off because of the lock, so its invariant needs the lock's.
- `SeeksImplementRequests` (requests of 0 or more): `setTime` with the handler
  of `ASYNC_DONE` implements `SeekRequests`, whatever the sinks, refusals and
  duration. The strengthening is that what waits is what was asked for last.
  The assumption is needed (the table above).
- `CachedStateSettles`: the cached state with an empty bus is the pipeline's. The
  invariant is `TellsState`; that NULL is entered silently is why it says nothing
  of NULL.

**PlayerServerProofs.**
- `TypeCorrect`: first each call of `PlayerServer` is unfolded into the records
  it returns, then shown to return a player of the right type.
- `BaseMovesAtRest`, under the assumption `Calm`: the user waits for each change
  to end (`WaitsForChanges`) and each seek (`WaitsForSeeks`), and the media does
  not end. The base time is moved when the *cached* state is READY, so the danger
  is a late message. The invariant is `Sane`, with `Safe` between updates: while a
  seek is pending, READY in the cache or on the bus is the truth; before one is,
  at most the message popped next tells of READY, so that none is left when its
  handler notes a seek; and a seek that finds the media down finds an empty bus.
  Without `MayEnd = FALSE` TLC refutes it (the table above): the handler of an
  EOS changes the state in the middle of an update. Nothing is assumed of which
  states the user pauses or seeks in, nor of the conversion of negative times.
- `SeekComesBack` (`StateRestored`), from `Calm` alone. `Sane` says that READY is
  told truly, not which state a seek comes back to, so the invariant adds `Bound`:
  `Shaped`, a pipeline is where it was last sent or on its way up; `Aimed`, what
  the user asked for is the pipeline's target or, while a seek is pending,
  `mPendingState`; and `Quiet`, while a pending seek finds the pipeline down no
  `ASYNC_DONE` is left whose handler would ask for the seek again and note READY
  over the state. `Quiet` is the reason a media must not end: a replay posts one.
- `SeekFound` (`PlaysWhereAsked`), from `Calm` and `Exact`: the user seeks only
  while the media plays and pauses none that is stopped, and the conversion of
  line 141 wraps. Under `Exact` the invariant has one more part, `Placed`: the
  position asked for is the pending one, or the one noted in `mPendingStateSeek`,
  or where the base time puts a media that is meant to play; and a media that
  already plays with a position still noted has the change that makes the player
  seek it on its bus. As the base time stands for a place only while the media is
  meant to play, it has to be shown that one that was paused or stopped has a
  position noted before it plays again: that is what the conjunct on a closed
  player (nothing noted, or 0) and the lemmas on `LeftBehind` are for. TLC refutes
  the theorem with any of the six assumptions dropped (the table above).
- `ServerImplementsPlayback` (`ImplementsPlayback`), from `Calm` and `Exact`: the
  parts `Aimed` and `Placed` of the invariant say that `Goal` and `Place` are what
  the history variables `wanted` and `position` record, and only calls change those.
- `CachedStateSettles` (`StateSettles`), of every user: each call keeps the player
  `Honest` (who reads its bus to its end has cached the state of its pipeline),
  through all that a call calls. With a pending seek it says that a media taken
  down to READY is known to be there once the bus is read: the next update carries
  the seek out. That is the safety `SeekApplied` rests on.

**PlayerClientProofs.** `TypeCorrect`, and `StateOnlyWithBase` from it: a client
that handles messages has a media open. `CachedStateSettles` as for the server: it
is how a client learns that it is down and may put its base time on. What is
*not* true is that the cached state is the actual one before the bus is read:
`client_in_step` shows what comes of that.

**SoundProofs.** `RoundTrip`: a heartbeat that was serialized is accepted and
read as it was, but for the rounding, for all numbers. `TypeCorrect` and
`MutedStaysSilent`: every volume stays between 0 and 1 and a muted player that
was played is silent. The invariant also says what a late heartbeat may be
(`Sent`): that its volume is a number again is what `RoundTrip` is cited for.
`UnmutedAsBefore` (`UnmuteRestores`): the volume before muting comes back, if
server and client are processes of their own, since `saved_volume` is shared by
the players of one, and if no player is muted twice; TLC refutes it otherwise.
The invariant is `Remembered`: the saved volume of a muted player is one to go
back to, and the volume of its pipeline is that or silent. The second half is
needed because a media opened while muted is loud until `play()`, which saves
that volume and mutes it again.

**EndpointsProofs.** `TypeCorrect`, and `StaleMeansMoved`. The latter needs that
every port an endpoint has was bound, and that ports stay bound in a process.

**OpeningProofs.** An invariant per player: `Counted`, the references no pointer
stands for (`Extra`) are within the bound; `Shaped`, a pipeline comes with its
bus and clocks only with a pipeline; `Exact`, no such references at all, if
medias are closed before their players go. Each operation leaves `Extra` and
the rest of the player the `Same`, so the lemmas compose along `open()`. From it
follow `TypeCorrect`, `NeverHalfOpen` and `EverythingGivenBack`. `ClockIsServed`
adds what the players have to do with each other: a provider has the port of
the server it is of (`OnItsPort`), the ports that servers note are apart
(`PortsApart`, by the assumption `OwnPorts`, and nothing the code does), and
different ports
are followed by different ports (`ClockPortInjective`), the largest one too; so
a port that can be had at all is free when it is asked for.

Only model-checked: everything under fairness (`CallsReturn`, `MailboxServed`,
`SeekServed`, `StateReported`, `SeekApplied`, `PendingBaseApplied`,
`FollowsServer`, `FollowsSound`, `HelloAnswered`, `KeepsHearing`: the prover does
no liveness). Every invariant and every action property a passing run checks is
proved, where it needs assumptions under those of its run.

## Not modelled, and the plan

In this order:

1. `Sync`: the abstract specification that `PlayerClient` and `PlayerServer`
   share (a follower that takes a leader's base time at rest and then its state),
   with the safety part of `PlayerClient` as a refinement; the heartbeat's state
   as the server's cached one, by composing the two modules.
2. Seeks asked of a client; `setHeartbeatFrequency`; the client's UDP sockets
   and the providers' UDP ports in one module.

What the models say nothing of, though the code has it: a datagram of no bytes,
whose log line reads a null error (client.cpp:174-178; no heartbeat is empty);
and that `close()` gives the pipeline back in READY, after `stop()`, where
GStreamer asks for NULL (player.cpp:178, 210-214): the counts of `Opening` are
right all the same.

Left out for good: logging, module listing and initialisation (sequential calls
of GStreamer, no state of their own that matters), the character by character
side of parsing, failures to allocate or to make a socket, the sample
applications and the build. GStreamer itself is modelled only as `Pipeline`,
and GLib's sockets only as in `Endpoints`, from how the code uses them.
