------------------------------ MODULE Opening ------------------------------
(***************************************************************************)
(* How a media is opened and closed, and the GStreamer objects a player    *)
(* holds meanwhile: class Discoverer, the four open() and close() of       *)
(* Player, and the network clocks that PlayerServer and PlayerClient set   *)
(* up from inside them.                                                    *)
(*                                                                         *)
(* A process has some players, each of one of the three classes, which     *)
(* come and go.  All calls are made on one thread, so a call is a step; an *)
(* open() is one step for each place where it may return.  The net clock   *)
(* of a server is served on a UDP port of its own by an object, the        *)
(* provider, that has that port until it is given back.                    *)
(***************************************************************************)
EXTENDS Integers

CONSTANTS
  Players,      \* places for a player
  Ports,        \* the ports users name, as shorts
  Unusable,     \* UDP ports the system does not give
  ClosesFirst,  \* a media is closed before its player is destroyed
  ListensFirst, \* listen() and shutdown() are called with no media open
  OwnPorts,     \* users name no port that another server of the process has
  MaxHeld       \* bound on the objects of a kind that the process has

ShortMax == 32767

ASSUME PortsAssumption == Ports \subseteq 1 .. ShortMax
ASSUME UnusableAssumption == Unusable \subseteq Int
ASSUME ChoicesAssumption == {ClosesFirst, ListensFirst, OwnPorts} \subseteq BOOLEAN
ASSUME MaxHeldAssumption == MaxHeld \in Nat \ {0}

Classes == {"Player", "PlayerServer", "PlayerClient"}
Pointers == {"mPipeline", "mGstBus", "mNetClock", "mNetProvider"}

VARIABLE
  player   \* [class ("none" for a free place), mListenPort (0 if shut down),
           \*  isListening: whether there is a socket service, has: the
           \*  pointers that are not null, held: the references the process
           \*  has, port: of the provider last made, served: the ports of the
           \*  providers that were not given back]

vars == player

Nobody ==
  [class |-> "none", mListenPort |-> 0, isListening |-> FALSE, has |-> {},
   held |-> [o \in Pointers |-> 0], port |-> 0, served |-> {}]

Init == player = [p \in Players |-> Nobody]

Becomes(p, s) == player' = [player EXCEPT ![p] = s]

\* The UDP ports that providers of other players have.
Elsewhere(p) == UNION {player[q].served : q \in Players \ {p}}

-----------------------------------------------------------------------------
(* References                                                              *)

Acquired(s, os) ==
  [s EXCEPT !.has = @ \union os,
            !.held = [o \in Pointers |-> IF o \in os THEN @[o] + 1 ELSE @[o]]]

\* Those of the pointers that are not null are given back and forgotten.
Released(s, os) ==
  [s EXCEPT !.has = @ \ os,
            !.held = [o \in Pointers |->
                        IF o \in os \intersect s.has THEN @[o] - 1 ELSE @[o]],
            !.served = IF "mNetProvider" \in os \intersect s.has
                       THEN @ \ {s.port} ELSE @]

-----------------------------------------------------------------------------
(* The clocks                                                              *)

\* A short is never 65535.
ClockPort(port) == IF port = ShortMax THEN -ShortMax - 1 ELSE port + 1

\* Mutant: the provider is forgotten.
ClearClockOnly(s) ==
  IF "mPipeline" \in s.has THEN Released(s, {"mNetClock"}) ELSE s

ClearClock(s) ==
  IF "mPipeline" \in s.has THEN Released(s, {"mNetClock", "mNetProvider"})
                           ELSE s

\* If its port cannot be had there is no provider, and the pipeline goes by a
\* clock and a base time of its own.
ProviderMade(p, s, port) ==
  IF port > 0 /\ port \notin s.served \union Elsewhere(p) \union Unusable
  THEN [Acquired(s, {"mNetProvider"}) EXCEPT !.port = port,
                                             !.served = @ \union {port}]
  ELSE s

SetupServerClock(p, s) ==
  ProviderMade(p, Acquired(ClearClock(s), {"mNetClock"}),
               ClockPort(s.mListenPort))

\* Mutant: the clock in use is not given back.
SetupClientClockAgain(s) == {Acquired(s, {"mNetClock"}), s}

\* With a base time pending: the net clock may not be had.
SetupClientClock(s) ==
  {Acquired(ClearClock(s), {"mNetClock"}), ClearClock(s)}

SetupClock(p, s) ==
  CASE s.class = "PlayerServer" -> {SetupServerClock(p, s)}
    [] s.class = "PlayerClient" -> SetupClientClock(s) \union {s}
    [] OTHER                    -> {s}

-----------------------------------------------------------------------------
(* close()                                                                 *)

\* Mutant: no reset(): what was given back is not nulled.
BaseClosedNoReset(s) ==
  [Released(s, {"mPipeline", "mGstBus"}) EXCEPT !.has = s.has]

\* After onBeforeClose(); reset() at its end nulls what it has given back.
BaseClosed(s) == Released(s, {"mPipeline", "mGstBus"})

Closed(s) ==
  BaseClosed(IF s.class = "Player" THEN s ELSE ClearClock(s))

Close(p) == player[p].class # "none" /\ Becomes(p, Closed(player[p]))

-----------------------------------------------------------------------------
(* open()                                                                  *)

\* What the path given to open() leads to.
Contents == {"video", "audio", "neither", "unreadable"}

\* Discoverer::open(), which begins with reset(): whether it answers true, and
\* getHasVideo() and getHasAudio().  A media with video may have audio too.
Found(success, hasVideo, hasAudio) ==
  [success |-> success, hasVideo |-> hasVideo, hasAudio |-> hasAudio]

Undiscovered == Found(FALSE, FALSE, FALSE)

Discovered(content) ==
  CASE content = "video"   -> {Undiscovered, Found(TRUE, TRUE, TRUE),
                               Found(TRUE, TRUE, FALSE)}
    [] content = "audio"   -> {Undiscovered, Found(TRUE, FALSE, TRUE)}
    [] content = "neither" -> {Undiscovered, Found(TRUE, FALSE, FALSE)}
    [] OTHER               -> {Undiscovered}

\* The players that the part of open() from the launch on may leave: with no
\* pipeline, no bus or no video sink; after setupClock(), not in READY or not
\* in PAUSED; or with the media open.
Bare(s) == Acquired(s, {"mPipeline"})
Launched(s) == Acquired(s, {"mPipeline", "mGstBus"})

\* Mutant: without a bus, it returns at once.
LaunchFailsBare(s, found) ==
  {Closed(s), Bare(s)}
    \union {t \in {Closed(Launched(s))} : found.hasVideo}

LaunchFails(s, found) ==
  {Closed(s), Closed(Bare(s))}
    \union {t \in {Closed(Launched(s))} : found.hasVideo}

PrerollFails(p, s) == {Closed(t) : t \in SetupClock(p, Launched(s))}

\* open(path, width, height, fmt).  It begins with close().  With an empty path
\* or no media stream it then returns false; with a media that cannot be
\* discovered, true.
OpenFails(p, found) ==
  \E s \in {Closed(player[p])} :
    \E t \in IF found.success /\ (found.hasVideo \/ found.hasAudio)
             THEN LaunchFails(s, found) \union PrerollFails(p, s)
             ELSE {s} :
      Becomes(p, t)

OpenSucceeds(p, found) ==
  /\ found.success
  /\ found.hasVideo \/ found.hasAudio
  /\ \E s \in SetupClock(p, Launched(Closed(player[p]))) : Becomes(p, s)

\* The overloads that discover the media first, for its dimensions, leave the
\* player as it is if they cannot; what the path leads to may have changed when
\* it is discovered again.
Open(p) ==
  /\ player[p].class # "none"
  /\ \E content \in Contents : \E found \in Discovered(content) :
       OpenFails(p, found) \/ OpenSucceeds(p, found)

-----------------------------------------------------------------------------
(* A client takes a new base time; a server listens; players come and go   *)

UpdateClock(p) ==
  /\ player[p].class = "PlayerClient"
  /\ "mPipeline" \in player[p].has
  /\ \E s \in SetupClientClock(player[p]) : Becomes(p, s)

\* What a user who keeps the servers of a process apart looks at.
Free(p, port) == \A q \in Players \ {p} : player[q].mListenPort # port

\* Server::listen() notes the port first.  Then it may fail: without a service
\* if the address is none, and with one, that is active, if the port is taken.
Listened(s, port) ==
  {[s EXCEPT !.mListenPort = port, !.isListening = made] : made \in BOOLEAN}

Listen(p, port) ==
  /\ player[p].class = "PlayerServer"
  /\ ListensFirst => "mPipeline" \notin player[p].has
  /\ OwnPorts => Free(p, port)
  /\ \E s \in Listened(player[p], port) : Becomes(p, s)

\* The port of a listen() that made no service stays noted.
Shutdown(p) ==
  /\ player[p].class = "PlayerServer"
  /\ ListensFirst => "mPipeline" \notin player[p].has
  /\ player[p].isListening
  /\ Becomes(p, [player[p] EXCEPT !.mListenPort = 0, !.isListening = FALSE])

\* The constructor of a server listens, and only logs if that fails.
Create(p, c, port) ==
  /\ player[p].class = "none"
  /\ c = "PlayerServer" /\ OwnPorts => Free(p, port)
  /\ \E s \in IF c = "PlayerServer" THEN Listened(player[p], port)
                                   ELSE {player[p]} :
       Becomes(p, [s EXCEPT !.class = c])

\* ~Player() calls close() when there is no derived class any more, so that its
\* onBeforeClose() is not called.
Destroy(p) ==
  /\ player[p].class # "none"
  /\ \/ player[p].class = "Player"
     \/ ClosesFirst => "mPipeline" \notin player[p].has
  /\ \A o \in Pointers : player[p].held[o] < MaxHeld
  /\ Becomes(p, [BaseClosed(player[p]) EXCEPT !.class = "none",
                                             !.mListenPort = 0,
                                             !.isListening = FALSE,
                                             !.has = {}])

Next ==
  \E p \in Players :
    \/ Open(p) \/ Close(p) \/ UpdateClock(p)
    \/ \E port \in Ports : Listen(p, port)
    \/ Shutdown(p)
    \/ \E c \in Classes, port \in Ports : Create(p, c, port)
    \/ Destroy(p)

Spec == Init /\ [][Next]_vars

-----------------------------------------------------------------------------
(* Properties                                                              *)

TypeOK ==
  player \in [Players -> [class : Classes \union {"none"},
                         mListenPort : Ports \union {0},
                         isListening : BOOLEAN,
                         has : SUBSET Pointers,
                         held : [Pointers -> 0 .. MaxHeld],
                         port : Int,
                         served : SUBSET (Int \ Unusable)]]

(* Wherever open() returned, a player has a pipeline with its bus, or has  *)
(* nothing, no clock either (nsvr_player.cpp:29-152).                      *)
NothingHalfOpen ==
  \A p \in Players :
    player[p].has # {} => {"mPipeline", "mGstBus"} \subseteq player[p].has

(* Whatever failed to open and whatever clocks were set up, the process    *)
(* has one reference to each object a pointer names, and to no other; so   *)
(* it has none when the player is gone, if the media was closed before     *)
(* (nsvr_player.cpp:172-184, nsvr_player_server.cpp:96-116,                *)
(* nsvr_player_client.cpp:89-110).                                         *)
NothingKept ==
  \A p \in Players :
    /\ \A o \in Pointers :
         player[p].held[o] = IF o \in player[p].has THEN 1 ELSE 0
    /\ player[p].served =
         IF "mNetProvider" \in player[p].has THEN {player[p].port} ELSE {}

(* The clock of a server with a media open is served where clients of the  *)
(* port it was last told to listen on look for it, whether or not that     *)
(* came about, if that is a port the system gives: the provider of the     *)
(* media before, or of a server that is gone or has moved, does not keep   *)
(* it (nsvr_player_server.cpp:19-23, 51-54, nsvr_server.cpp:22-57).        *)
ClockServed ==
  \A p \in Players :
    LET port == ClockPort(player[p].mListenPort)
    IN  /\ player[p].class = "PlayerServer"
        /\ "mPipeline" \in player[p].has
        /\ player[p].mListenPort # 0
        /\ port > 0 /\ port \notin Unusable
        => "mNetProvider" \in player[p].has /\ player[p].port = port

=============================================================================
