--------------------------- MODULE OpeningProofs ---------------------------
(***************************************************************************)
(* What holds of Opening for any number of players and any ports.          *)
(***************************************************************************)
EXTENDS Opening, TLAPS

Clocks == {"mNetClock", "mNetProvider"}

Rec == [class : Classes \union {"none"}, mListenPort : Ports \union {0},
        isListening : BOOLEAN, has : SUBSET Pointers, held : [Pointers -> Nat], port : Int,
        served : SUBSET (Int \ Unusable)]

\* The references no pointer stands for.
Extra(s, o) == s.held[o] - (IF o \in s.has THEN 1 ELSE 0)

Counted(s) == s \in Rec /\ \A o \in Pointers : Extra(s, o) \in 0 .. MaxHeld - 1

\* A pipeline with its bus and no clock but of a server or client, or nothing.
Shaped(s) ==
  /\ s.has # {} => {"mPipeline", "mGstBus"} \subseteq s.has
  /\ s.class = "Player" => s.has \intersect Clocks = {}
  /\ s.class = "none" => s.has = {}

Whole(s) == Counted(s) /\ Shaped(s)

\* Nothing is held but by a pointer.
Exact(s) ==
  /\ \A o \in Pointers : Extra(s, o) = 0
  /\ s.served = IF "mNetProvider" \in s.has THEN {s.port} ELSE {}

\* The same player, that holds as much that no pointer stands for.
Same(s, t) ==
  /\ t.class = s.class
  /\ t.mListenPort = s.mListenPort
  /\ \A o \in Pointers : Extra(t, o) = Extra(s, o)
  /\ Exact(s) => Exact(t)

-----------------------------------------------------------------------------
(* References                                                              *)

LEMMA ReleasedSame ==
  ASSUME NEW s, NEW os \in SUBSET Pointers, Counted(s)
  PROVE  LET t == Released(s, os)
         IN  Counted(t) /\ Same(s, t) /\ t.has = s.has \ os /\ t.port = s.port
<1> DEFINE t == Released(s, os)
<1>1. /\ t.class = s.class /\ t.mListenPort = s.mListenPort
      /\ t.has = s.has \ os /\ t.port = s.port
      /\ t.held = [o \in Pointers |-> IF o \in os \intersect s.has
                                      THEN s.held[o] - 1 ELSE s.held[o]]
      /\ t.served = IF "mNetProvider" \in os \intersect s.has
                    THEN s.served \ {s.port} ELSE s.served
  BY DEF Released, Counted, Rec
<1>2. \A o \in Pointers : s.held[o] \in Nat /\ Extra(s, o) \in Nat
  BY MaxHeldAssumption DEF Counted, Rec
<1>3. \A o \in Pointers : t.held[o] \in Nat /\ Extra(t, o) = Extra(s, o)
  BY <1>1, <1>2 DEF Extra
<1>4. t \in Rec
  <2>1. t.held \in [Pointers -> Nat]
    BY <1>1, <1>3
  <2>2. t.served \in SUBSET (Int \ Unusable)
    BY <1>1 DEF Counted, Rec
  <2> QED
    BY <1>1, <2>1, <2>2 DEF Released, Counted, Rec
<1>5. Exact(s) => Exact(t)
  BY <1>1, <1>3 DEF Exact
<1> QED
  BY <1>1, <1>3, <1>4, <1>5 DEF Counted, Same

LEMMA AcquiredSame ==
  ASSUME NEW s, NEW os \in SUBSET Pointers, Counted(s),
         os \intersect s.has = {}
  PROVE  LET t == Acquired(s, os)
         IN  /\ Counted(t) /\ t.has = s.has \union os
             /\ t.port = s.port /\ t.served = s.served
             /\ "mNetProvider" \notin os => Same(s, t)
             /\ t.class = s.class /\ t.mListenPort = s.mListenPort
             /\ \A o \in Pointers : Extra(t, o) = Extra(s, o)
<1> DEFINE t == Acquired(s, os)
<1>1. /\ t.class = s.class /\ t.mListenPort = s.mListenPort
      /\ t.has = s.has \union os /\ t.port = s.port /\ t.served = s.served
      /\ t.held = [o \in Pointers |-> IF o \in os THEN s.held[o] + 1
                                                  ELSE s.held[o]]
  BY DEF Acquired, Counted, Rec
<1>2. \A o \in Pointers : s.held[o] \in Nat
  BY DEF Counted, Rec
<1>3. \A o \in Pointers : t.held[o] \in Nat /\ Extra(t, o) = Extra(s, o)
  BY <1>1, <1>2 DEF Extra
<1>4. t \in Rec
  <2>1. t.held \in [Pointers -> Nat]
    BY <1>1, <1>3
  <2> QED
    BY <1>1, <2>1 DEF Acquired, Counted, Rec
<1>5. "mNetProvider" \notin os => (Exact(s) => Exact(t))
  BY <1>1, <1>3 DEF Exact
<1> QED
  BY <1>1, <1>3, <1>4, <1>5 DEF Counted, Same

LEMMA SameTransitive ==
  ASSUME NEW s, NEW t, NEW u, Same(s, t), Same(t, u)
  PROVE  Same(s, u)
  BY DEF Same

LEMMA ClearClockSame ==
  ASSUME NEW s, Counted(s)
  PROVE  LET t == ClearClock(s)
         IN  /\ Counted(t) /\ Same(s, t) /\ t.port = s.port
             /\ t.has = IF "mPipeline" \in s.has THEN s.has \ Clocks ELSE s.has
<1>1. CASE "mPipeline" \in s.has
  BY <1>1, ReleasedSame DEF ClearClock, Clocks, Pointers
<1>2. CASE "mPipeline" \notin s.has
  BY <1>2 DEF ClearClock, Same
<1> QED
  BY <1>1, <1>2

LEMMA BaseClosedSame ==
  ASSUME NEW s, Counted(s)
  PROVE  LET t == BaseClosed(s)
         IN  /\ Counted(t) /\ Same(s, t)
             /\ t.has = s.has \ {"mPipeline", "mGstBus"}
  BY ReleasedSame DEF BaseClosed, Pointers

-----------------------------------------------------------------------------
(* open() and close()                                                      *)

\* What close() may be called on: a pipeline without its bus too.
Closable(s) ==
  /\ Counted(s)
  /\ s.class # "none"
  /\ s.has # {} => "mPipeline" \in s.has
  /\ s.class = "Player" => s.has \intersect Clocks = {}

LEMMA WholeClosable == \A s : Whole(s) /\ s.class # "none" => Closable(s)
  BY DEF Whole, Shaped, Closable

\* After close() a player has nothing, and the process as much as before that
\* no pointer stands for.
LEMMA ClosedSame ==
  ASSUME NEW s, Closable(s)
  PROVE  LET t == Closed(s) IN Whole(t) /\ Same(s, t) /\ t.has = {}
<1> DEFINE u == IF s.class = "Player" THEN s ELSE ClearClock(s)
           t == BaseClosed(u)
<1>1. Counted(u) /\ Same(s, u) /\ u.has \subseteq {"mPipeline", "mGstBus"}
  <2>0. s.has \subseteq Pointers
    BY DEF Closable, Counted, Rec
  <2>1. CASE s.class = "Player"
    BY <2>0, <2>1 DEF Closable, Pointers, Clocks, Same
  <2>2. CASE s.class # "Player"
    <3>1. /\ Counted(u) /\ Same(s, u)
          /\ u.has = IF "mPipeline" \in s.has THEN s.has \ Clocks ELSE s.has
      BY <2>2, ClearClockSame DEF Closable
    <3> QED
      BY <2>0, <3>1 DEF Closable, Pointers, Clocks
  <2> QED
    BY <2>1, <2>2
<1>2. Counted(t) /\ Same(u, t) /\ t.has = {}
  BY <1>1, BaseClosedSame
<1>3. Same(s, t)
  BY <1>1, <1>2, SameTransitive
<1> QED
  BY <1>2, <1>3 DEF Closed, Whole, Shaped

LEMMA BareSame ==
  ASSUME NEW s, Counted(s), s.has = {}, s.class # "none"
  PROVE  Closable(Bare(s)) /\ Same(s, Bare(s))
  BY AcquiredSame DEF Bare, Closable, Pointers, Clocks

LEMMA LaunchedSame ==
  ASSUME NEW s, Counted(s), s.has = {}, s.class # "none"
  PROVE  LET t == Launched(s)
         IN  Whole(t) /\ Same(s, t) /\ t.has = {"mPipeline", "mGstBus"}
  BY AcquiredSame DEF Launched, Whole, Shaped, Pointers, Clocks

\* A player with a media open.
Playing(s) == Whole(s) /\ s.class # "none" /\ "mPipeline" \in s.has

LEMMA NewClock ==
  ASSUME NEW s, Playing(s), s.class # "Player"
  PROVE  LET t == Acquired(ClearClock(s), {"mNetClock"})
         IN  /\ Playing(t) /\ Same(s, t)
             /\ t.has = (s.has \ Clocks) \union {"mNetClock"}
<1> DEFINE u == ClearClock(s)
           t == Acquired(u, {"mNetClock"})
<1>1. Counted(u) /\ Same(s, u) /\ u.has = s.has \ Clocks
  BY ClearClockSame DEF Playing, Whole
<1>2. Counted(t) /\ Same(u, t) /\ t.has = u.has \union {"mNetClock"}
  BY <1>1, AcquiredSame DEF Pointers, Clocks
<1>3. Same(s, t)
  BY <1>1, <1>2, SameTransitive
<1>4. {"mPipeline", "mGstBus"} \subseteq t.has
  BY <1>1, <1>2 DEF Playing, Whole, Shaped, Clocks
<1> QED
  BY <1>1, <1>2, <1>3, <1>4 DEF Playing, Whole, Shaped, Same

LEMMA NewProvider ==
  ASSUME NEW p, NEW s, NEW port \in Int, Playing(s), s.class = "PlayerServer",
         "mNetProvider" \notin s.has
  PROVE  LET t == ProviderMade(p, s, port) IN Playing(t) /\ Same(s, t)
<1> DEFINE u == Acquired(s, {"mNetProvider"})
           t == [u EXCEPT !.port = port, !.served = @ \union {port}]
<1>1. CASE ProviderMade(p, s, port) = s
  BY <1>1 DEF Same
<1>2. CASE port \notin Unusable /\ ProviderMade(p, s, port) = t
  <2>1. /\ Counted(u) /\ u.has = s.has \union {"mNetProvider"}
        /\ u.served = s.served
        /\ u.class = s.class /\ u.mListenPort = s.mListenPort
        /\ \A o \in Pointers : Extra(u, o) = Extra(s, o)
    BY AcquiredSame DEF Playing, Whole, Pointers
  <2>2. /\ t.class = u.class /\ t.mListenPort = u.mListenPort
        /\ t.has = u.has /\ t.held = u.held
        /\ t.port = port /\ t.served = u.served \union {port}
        /\ t \in Rec
    BY <1>2, <2>1 DEF Counted, Rec
  <2>3. \A o \in Pointers : Extra(t, o) = Extra(s, o)
    BY <2>1, <2>2 DEF Extra
  <2>4. Exact(s) => Exact(t)
    BY <2>1, <2>2, <2>3 DEF Exact
  <2>5. Counted(t)
    BY <2>2, <2>3 DEF Counted, Playing, Whole
  <2>6. Shaped(t)
    BY <2>1, <2>2 DEF Playing, Whole, Shaped
  <2>7. Same(s, t)
    BY <2>1, <2>2, <2>3, <2>4 DEF Same
  <2> QED
    BY <1>2, <2>1, <2>2, <2>5, <2>6, <2>7 DEF Playing, Whole
<1>3. \/ ProviderMade(p, s, port) = s
      \/ port \notin Unusable /\ ProviderMade(p, s, port) = t
  <2> DEFINE had == port > 0 /\ port \notin s.served \union Elsewhere(p)
                                             \union Unusable
  <2>1. CASE had
    BY ONLY <2>1 DEF ProviderMade
  <2>2. CASE ~had
    BY ONLY <2>2 DEF ProviderMade
  <2> QED
    BY ONLY <2>1, <2>2
<1> QED
  BY ONLY <1>1, <1>2, <1>3

LEMMA ClockPortType == \A port \in Ports \union {0} : ClockPort(port) \in Int
  BY PortsAssumption DEF ClockPort, ShortMax

LEMMA ClientClockSame ==
  ASSUME NEW s, Playing(s), s.class = "PlayerClient",
         NEW t \in SetupClientClock(s)
  PROVE  Playing(t) /\ Same(s, t)
<1>1. CASE t = Acquired(ClearClock(s), {"mNetClock"})
  BY <1>1, NewClock
<1>2. CASE t = ClearClock(s)
  <2>1. Counted(t) /\ Same(s, t) /\ t.has = s.has \ Clocks
    BY <1>2, ClearClockSame DEF Playing, Whole
  <2> QED
    BY <2>1 DEF Playing, Whole, Shaped, Same, Clocks
<1> QED
  BY <1>1, <1>2 DEF SetupClientClock

LEMMA SetupClockSame ==
  ASSUME NEW p, NEW s, Playing(s), NEW t \in SetupClock(p, s)
  PROVE  Playing(t) /\ Same(s, t)
<1>1. CASE s.class = "PlayerServer"
  <2> DEFINE u == Acquired(ClearClock(s), {"mNetClock"})
  <2>1. Playing(u) /\ Same(s, u) /\ "mNetProvider" \notin u.has
    BY <1>1, NewClock DEF Clocks
  <2>2. s.mListenPort \in Ports \union {0}
    BY DEF Playing, Whole, Counted, Rec
  <2>3. t = ProviderMade(p, u, ClockPort(s.mListenPort))
    BY <1>1 DEF SetupClock, SetupServerClock
  <2>4. Playing(t) /\ Same(u, t)
    BY <1>1, <2>1, <2>2, <2>3, NewProvider, ClockPortType DEF Same
  <2> QED
    BY <2>1, <2>4, SameTransitive
<1>2. CASE s.class = "PlayerClient"
  <2>1. t = s \/ t \in SetupClientClock(s)
    BY <1>2 DEF SetupClock
  <2> QED
    BY <1>2, <2>1, ClientClockSame DEF Same
<1>3. CASE s.class \notin {"PlayerServer", "PlayerClient"}
  BY <1>3 DEF SetupClock, Same
<1> QED
  BY <1>1, <1>2, <1>3

-----------------------------------------------------------------------------
(* The steps                                                               *)

IInv ==
  /\ player \in [Players -> Rec]
  /\ \A p \in Players : Whole(player[p])

AllExact == \A p \in Players : Exact(player[p])

\* A step of player p: it stays whole, and keeps nothing more.
Moves(p) ==
  \E t : /\ Becomes(p, t)
         /\ Whole(t)
         /\ ClosesFirst /\ Exact(player[p]) => Exact(t)

LEMMA OpenMoves ==
  ASSUME IInv, NEW p \in Players, Open(p)
  PROVE  Moves(p)
<1> DEFINE s == Closed(player[p])
<1>1. player[p].class # "none" /\ Closable(player[p])
  BY WholeClosable DEF Open, IInv
<1>2. Whole(s) /\ Same(player[p], s) /\ s.has = {} /\ s.class # "none"
  BY <1>1, ClosedSame DEF Same
<1>3. Playing(Launched(s)) /\ Same(s, Launched(s))
  BY <1>2, LaunchedSame DEF Playing, Whole, Same
<1>4. ASSUME NEW u, Closable(u), Same(s, u)
      PROVE  Whole(Closed(u)) /\ Same(player[p], Closed(u))
  BY <1>2, <1>4, ClosedSame, SameTransitive
<1>5. ASSUME NEW t \in SetupClock(p, Launched(s))
      PROVE  Playing(t) /\ Same(s, t)
  BY <1>3, <1>5, SetupClockSame, SameTransitive
<1>6. ASSUME NEW found, OpenSucceeds(p, found)
      PROVE  Moves(p)
  <2>1. PICK t \in SetupClock(p, Launched(s)) : Becomes(p, t)
    BY <1>6 DEF OpenSucceeds
  <2>2. Whole(t) /\ Same(player[p], t)
    BY <1>2, <1>5, SameTransitive DEF Playing
  <2> QED
    BY <2>1, <2>2 DEF Moves, Same
<1>7. ASSUME NEW found, OpenFails(p, found)
      PROVE  Moves(p)
  <2>1. PICK t : Becomes(p, t) /\ (\/ t = s
                                   \/ t \in LaunchFails(s, found)
                                   \/ t \in PrerollFails(p, s))
    BY <1>7 DEF OpenFails
  <2>2. CASE t = s
    BY <1>2, <2>1, <2>2 DEF Moves, Same
  <2>3. CASE t \in LaunchFails(s, found)
    <3>1. Closable(s) /\ Closable(Bare(s)) /\ Same(s, Bare(s))
      BY <1>2, BareSame, WholeClosable DEF Whole
    <3>2. Closable(Launched(s))
      BY <1>3, WholeClosable DEF Playing
    <3>3. \/ t = Closed(s)
          \/ t = Closed(Bare(s))
          \/ t = Closed(Launched(s))
      BY <2>3 DEF LaunchFails
    <3>4. Whole(t) /\ Same(player[p], t)
      BY <1>3, <1>4, <3>1, <3>2, <3>3 DEF Same
    <3> QED
      BY <2>1, <3>4 DEF Moves, Same
  <2>4. CASE t \in PrerollFails(p, s)
    <3>1. PICK u \in SetupClock(p, Launched(s)) : t = Closed(u)
      BY <2>4 DEF PrerollFails
    <3>2. Closable(u) /\ Same(s, u)
      BY <1>5, WholeClosable DEF Playing
    <3>3. Whole(t) /\ Same(player[p], t)
      BY <1>4, <3>1, <3>2
    <3> QED
      BY <2>1, <3>3 DEF Moves, Same
  <2> QED
    BY <2>1, <2>2, <2>3, <2>4
<1> QED
  BY <1>6, <1>7 DEF Open

LEMMA CloseMoves ==
  ASSUME IInv, NEW p \in Players, Close(p)
  PROVE  Moves(p)
<1>1. Closable(player[p])
  BY WholeClosable DEF Close, IInv
<1>2. Whole(Closed(player[p])) /\ Same(player[p], Closed(player[p]))
  BY <1>1, ClosedSame
<1> QED
  BY <1>2 DEF Close, Moves, Same

LEMMA UpdateClockMoves ==
  ASSUME IInv, NEW p \in Players, UpdateClock(p)
  PROVE  Moves(p)
<1>1. PICK s \in SetupClientClock(player[p]) : Becomes(p, s)
  BY DEF UpdateClock
<1>2. Playing(player[p])
  BY DEF UpdateClock, Playing, IInv
<1>3. Playing(s) /\ Same(player[p], s)
  BY <1>2, ClientClockSame DEF UpdateClock
<1> QED
  BY <1>1, <1>3 DEF Moves, Same, Playing

\* A change of class, port and service alone, for a player that has nothing or
\* stays what it is.
Renamed(s, c, port, made) ==
  [s EXCEPT !.class = c, !.mListenPort = port, !.isListening = made]

LEMMA RenamedMoves ==
  ASSUME IInv, NEW p \in Players, NEW c \in Classes \union {"none"},
         NEW port \in Ports \union {0}, NEW made \in BOOLEAN,
         player[p].has = {} \/ c = player[p].class,
         Becomes(p, Renamed(player[p], c, port, made))
  PROVE  Moves(p)
<1> DEFINE s == player[p]
           t == Renamed(s, c, port, made)
<1>1. Whole(s) /\ s \in Rec
  BY DEF IInv
<1>2. /\ t \in Rec /\ t.has = s.has /\ t.held = s.held /\ t.port = s.port
      /\ t.served = s.served /\ t.class = c
  BY <1>1 DEF Rec, Renamed
<1>3. \A o \in Pointers : Extra(t, o) = Extra(s, o)
  BY <1>2 DEF Extra
<1>4. Whole(t)
  BY <1>1, <1>2, <1>3 DEF Whole, Counted, Shaped
<1>5. Exact(s) => Exact(t)
  BY <1>2, <1>3 DEF Exact
<1> QED
  BY <1>4, <1>5 DEF Moves

\* What the steps make of a player p that listens, or comes, or shuts down.
LEMMA ListenIs ==
  ASSUME IInv, NEW p \in Players
  PROVE  /\ \A port \in Ports : Listen(p, port) =>
              \E made \in BOOLEAN :
                Becomes(p, Renamed(player[p], player[p].class, port, made))
         /\ Shutdown(p) =>
              Becomes(p, Renamed(player[p], player[p].class, 0, FALSE))
         /\ \A c \in Classes, port \in Ports : Create(p, c, port) =>
              IF c = "PlayerServer"
              THEN \E made \in BOOLEAN :
                     Becomes(p, Renamed(player[p], c, port, made))
              ELSE Becomes(p, Renamed(player[p], c, player[p].mListenPort,
                                      player[p].isListening))
<1> DEFINE s == player[p]
<1>1. s \in Rec
  BY DEF IInv
<1>2. /\ \A port, made :
           [s EXCEPT !.mListenPort = port, !.isListening = made]
             = Renamed(s, s.class, port, made)
      /\ \A c : [s EXCEPT !.class = c]
                  = Renamed(s, c, s.mListenPort, s.isListening)
  BY <1>1 DEF Rec, Renamed
<1>7. \A port, made, c :
        [[s EXCEPT !.mListenPort = port, !.isListening = made]
           EXCEPT !.class = c] = Renamed(s, c, port, made)
  BY <1>1 DEF Rec, Renamed
<1> HIDE DEF s
<1>3. ASSUME NEW port \in Ports, Listen(p, port)
      PROVE  \E made \in BOOLEAN : Becomes(p, Renamed(s, s.class, port, made))
  <2>1. PICK t \in Listened(s, port) : Becomes(p, t)
    BY <1>3 DEF Listen, s
  <2>2. PICK made \in BOOLEAN :
          t = [s EXCEPT !.mListenPort = port, !.isListening = made]
    BY <2>1 DEF Listened
  <2>3. t = Renamed(s, s.class, port, made)
    BY <1>2, <2>2
  <2> QED
    BY <2>1, <2>3
<1>4. ASSUME Shutdown(p)
      PROVE  Becomes(p, Renamed(s, s.class, 0, FALSE))
  BY <1>2, <1>4 DEF Shutdown, s
<1>5. ASSUME NEW c \in Classes, NEW port \in Ports, Create(p, c, port),
             c = "PlayerServer"
      PROVE  \E made \in BOOLEAN : Becomes(p, Renamed(s, c, port, made))
  <2>1. PICK t \in Listened(s, port) : Becomes(p, [t EXCEPT !.class = c])
    BY <1>5 DEF Create, s
  <2>2. PICK made \in BOOLEAN :
          t = [s EXCEPT !.mListenPort = port, !.isListening = made]
    BY <2>1 DEF Listened
  <2>3. [[s EXCEPT !.mListenPort = port, !.isListening = made]
         EXCEPT !.class = c] = Renamed(s, c, port, made)
    BY <1>7
  <2> QED
    BY <2>1, <2>2, <2>3
<1>6. ASSUME NEW c \in Classes, NEW port \in Ports, Create(p, c, port),
             c # "PlayerServer"
      PROVE  Becomes(p, Renamed(s, c, s.mListenPort, s.isListening))
  BY <1>2, <1>6 DEF Create, s
<1> QED
  BY <1>3, <1>4, <1>5, <1>6 DEF s

LEMMA ListenMoves ==
  ASSUME IInv, NEW p \in Players,
         Shutdown(p) \/ \E port \in Ports : Listen(p, port)
  PROVE  Moves(p)
<1>1. player[p].class \in Classes \union {"none"}
  BY DEF IInv, Rec
<1> QED
  BY <1>1, ListenIs, RenamedMoves

LEMMA CreateMoves ==
  ASSUME IInv, NEW p \in Players, NEW c \in Classes, NEW port \in Ports,
         Create(p, c, port)
  PROVE  Moves(p)
<1>1. /\ player[p].has = {} /\ player[p].mListenPort \in Ports \union {0}
      /\ player[p].isListening \in BOOLEAN
  BY DEF Create, IInv, Whole, Shaped, Rec
<1> QED
  BY <1>1, ListenIs, RenamedMoves

LEMMA DestroyMoves ==
  ASSUME IInv, NEW p \in Players, Destroy(p)
  PROVE  Moves(p)
<1> DEFINE s == player[p]
           u == BaseClosed(s)
           t == [u EXCEPT !.class = "none", !.mListenPort = 0,
                          !.isListening = FALSE, !.has = {}]
<1>1. Whole(s) /\ \A o \in Pointers : s.held[o] < MaxHeld
  BY DEF Destroy, IInv
<1>2. /\ Counted(u) /\ Same(s, u) /\ u.has = s.has \ {"mPipeline", "mGstBus"}
  BY <1>1, BaseClosedSame DEF Whole
<1>3. /\ t \in Rec /\ t.has = {} /\ t.held = u.held /\ t.port = u.port
      /\ t.served = u.served /\ t.class = "none"
  BY <1>2 DEF Counted, Rec
<1>4. \A o \in Pointers : Extra(t, o) \in 0 .. MaxHeld - 1
  <2> SUFFICES ASSUME NEW o \in Pointers
               PROVE  Extra(t, o) \in 0 .. MaxHeld - 1
    OBVIOUS
  <2>1. u.held[o] \in Nat /\ s.held[o] \in Nat
    BY <1>1, <1>2 DEF Whole, Counted, Rec
  <2>2. Extra(u, o) = Extra(s, o)
    BY <1>2 DEF Same
  <2>3. u.held[o] =< s.held[o]
    BY <1>2, <2>1, <2>2 DEF Extra
  <2>4. Extra(t, o) = u.held[o]
    BY <1>3, <2>1 DEF Extra
  <2> QED
    BY <1>1, <2>1, <2>3, <2>4, MaxHeldAssumption
<1>5. Whole(t)
  BY <1>3, <1>4 DEF Whole, Counted, Shaped
<1>6. ASSUME ClosesFirst, Exact(s) PROVE Exact(t)
  <2>1. s.has \intersect Clocks = {}
    BY <1>1, <1>6 DEF Destroy, Whole, Shaped
  <2>2. u.has = {}
    BY <1>1, <1>2, <2>1 DEF Whole, Counted, Rec, Pointers, Clocks
  <2>3. Exact(u)
    BY <1>2, <1>6 DEF Same
  <2>4. \A o \in Pointers : Extra(t, o) = Extra(u, o)
    BY <1>3, <2>2 DEF Extra
  <2> QED
    BY <1>3, <2>2, <2>3, <2>4 DEF Exact
<1>7. Becomes(p, t)
  BY DEF Destroy
<1> QED
  BY <1>5, <1>6, <1>7 DEF Moves

LEMMA NextMoves ==
  ASSUME IInv, Next
  PROVE  \E p \in Players : Moves(p)
  BY OpenMoves, CloseMoves, UpdateClockMoves, ListenMoves, CreateMoves,
     DestroyMoves DEF Next

LEMMA InitIInv == Init => IInv /\ AllExact
<1> SUFFICES ASSUME Init PROVE IInv /\ AllExact
  OBVIOUS
<1>1. /\ Nobody \in Rec /\ Nobody.has = {} /\ Nobody.served = {}
      /\ Nobody.class = "none" /\ \A o \in Pointers : Nobody.held[o] = 0
  BY DEF Nobody, Rec
<1>2. \A o \in Pointers : Extra(Nobody, o) = 0
  BY <1>1 DEF Extra
<1>3. Whole(Nobody) /\ Exact(Nobody)
  BY <1>1, <1>2, MaxHeldAssumption DEF Whole, Counted, Shaped, Exact
<1> QED
  BY <1>1, <1>3 DEF Init, IInv, AllExact

LEMMA StepIInv ==
  IInv /\ [Next]_vars => IInv' /\ (ClosesFirst /\ AllExact => AllExact')
<1> SUFFICES ASSUME IInv, [Next]_vars
             PROVE  IInv' /\ (ClosesFirst /\ AllExact => AllExact')
  OBVIOUS
<1>1. CASE Next
  <2>1. PICK p \in Players : Moves(p)
    BY <1>1, NextMoves
  <2>2. PICK t : /\ Becomes(p, t)
                 /\ Whole(t)
                 /\ ClosesFirst /\ Exact(player[p]) => Exact(t)
    BY <2>1 DEF Moves
  <2>3. player' = [player EXCEPT ![p] = t]
    BY <2>2 DEF Becomes
  <2> QED
    BY <2>2, <2>3 DEF IInv, AllExact, Whole, Counted
<1>2. CASE UNCHANGED vars
  BY <1>2 DEF vars, IInv, AllExact
<1> QED
  BY <1>1, <1>2

LEMMA Invariance == Spec => []IInv
<1>1. IInv /\ [Next]_vars => IInv'
  BY StepIInv
<1> QED
  BY InitIInv, <1>1, PTL DEF Spec

-----------------------------------------------------------------------------
(* The ports of the clocks                                                 *)

\* The largest port is followed by a negative one, every other by a larger one.
LEMMA NextPortInjective ==
  ASSUME NEW max \in Nat, NEW a \in 0 .. max, NEW b \in 0 .. max,
         NEW x \in Int, NEW y \in Int, x = y,
         a = max => x = -max - 1, a # max => x = a + 1,
         b = max => y = -max - 1, b # max => y = b + 1
  PROVE  a = b
<1>1. CASE a = max /\ b # max
  <2>1. x < 0 /\ y > 0
    BY ONLY <1>1, max \in Nat, b \in 0 .. max, a = max => x = -max - 1,
            b # max => y = b + 1
  <2> QED
    BY ONLY <2>1, x = y, x \in Int, y \in Int
<1>2. CASE a # max /\ b = max
  <2>1. x > 0 /\ y < 0
    BY ONLY <1>2, max \in Nat, a \in 0 .. max, a # max => x = a + 1,
            b = max => y = -max - 1
  <2> QED
    BY ONLY <2>1, x = y, x \in Int, y \in Int
<1>3. CASE a # max /\ b # max
  <2>1. a + 1 = b + 1 /\ a \in Int /\ b \in Int
    BY ONLY <1>3, x = y, a \in 0 .. max, b \in 0 .. max, max \in Nat,
            a # max => x = a + 1, b # max => y = b + 1
  <2> QED
    BY ONLY <2>1
<1> QED
  BY ONLY <1>1, <1>2, <1>3

LEMMA ClockPortInjective ==
  \A a, b \in Ports \union {0} : ClockPort(a) = ClockPort(b) => a = b
<1> SUFFICES ASSUME NEW a \in Ports \union {0}, NEW b \in Ports \union {0},
                    ClockPort(a) = ClockPort(b)
             PROVE  a = b
  OBVIOUS
<1>1. ShortMax \in Nat
  BY DEF ShortMax
<1>2. Ports \union {0} \subseteq 0 .. ShortMax
  BY ONLY <1>1, PortsAssumption
<1>3. ClockPort(a) \in Int /\ ClockPort(b) \in Int
  BY ONLY ClockPortType, a \in Ports \union {0}, b \in Ports \union {0}
<1>4. /\ a = ShortMax => ClockPort(a) = -ShortMax - 1
      /\ a # ShortMax => ClockPort(a) = a + 1
      /\ b = ShortMax => ClockPort(b) = -ShortMax - 1
      /\ b # ShortMax => ClockPort(b) = b + 1
  BY ONLY DEF ClockPort
<1>5. a \in 0 .. ShortMax /\ b \in 0 .. ShortMax
  BY ONLY <1>2, a \in Ports \union {0}, b \in Ports \union {0}
<1> QED
  BY ONLY <1>1, <1>3, <1>4, <1>5, ClockPort(a) = ClockPort(b),
          NextPortInjective

\* A provider has the port of the clock, and a server with a media open a
\* provider.
OnItsPort(s) ==
  "mNetProvider" \in s.has
    => s.class = "PlayerServer" /\ s.port = ClockPort(s.mListenPort)

Serves(s) ==
  /\ s.class = "PlayerServer"
  /\ "mPipeline" \in s.has
  /\ s.mListenPort # 0
  /\ ClockPort(s.mListenPort) > 0
  /\ ClockPort(s.mListenPort) \notin Unusable
  => "mNetProvider" \in s.has

PortsApart ==
  \A p, q \in Players :
    p # q /\ player[p].mListenPort = player[q].mListenPort
      => player[p].mListenPort = 0

CInv ==
  /\ PortsApart
  /\ \A p \in Players : OnItsPort(player[p]) /\ Serves(player[p])

\* A step of player p that keeps CInv.
Places(p) ==
  \E t : /\ Becomes(p, t)
         /\ OnItsPort(t) /\ Serves(t)
         /\ \/ t.mListenPort \in {player[p].mListenPort, 0}
            \/ Free(p, t.mListenPort)

LEMMA ServerClockPlaced ==
  ASSUME IInv, AllExact, CInv, NEW p \in Players,
         NEW s, Playing(s), s.class = "PlayerServer", Exact(s),
         s.has \intersect Clocks = {}, s.mListenPort = player[p].mListenPort
  PROVE  OnItsPort(SetupServerClock(p, s)) /\ Serves(SetupServerClock(p, s))
<1> DEFINE u == Acquired(ClearClock(s), {"mNetClock"})
           port == ClockPort(s.mListenPort)
           t == SetupServerClock(p, s)
           had == port > 0 /\ port \notin u.served \union Elsewhere(p)
                                           \union Unusable
<1>1. /\ Playing(u) /\ Same(s, u) /\ "mNetProvider" \notin u.has
      /\ u.has = (s.has \ Clocks) \union {"mNetClock"}
  BY NewClock DEF Clocks
<1>2. u.served = {} /\ u \in Rec
  BY <1>1 DEF Same, Exact, Playing, Whole, Counted
<1>3. t = ProviderMade(p, u, port)
  BY DEF SetupServerClock
<1>4. CASE had
  <2> DEFINE w == Acquired(u, {"mNetProvider"})
  <2>1. t = [w EXCEPT !.port = port, !.served = @ \union {port}]
    BY ONLY <1>3, <1>4 DEF ProviderMade
  <2>2. /\ w \in Rec /\ w.has = u.has \union {"mNetProvider"}
        /\ w.class = u.class /\ w.mListenPort = u.mListenPort
    BY <1>1, AcquiredSame DEF Playing, Whole, Pointers, Counted
  <2>3. /\ "mNetProvider" \in t.has /\ t.class = u.class
        /\ t.mListenPort = u.mListenPort /\ t.port = port
    BY <2>1, <2>2 DEF Rec
  <2> QED
    BY <1>1, <2>3 DEF OnItsPort, Serves, Same
<1>5. CASE ~had
  <2>1. t = u
    BY ONLY <1>3, <1>5 DEF ProviderMade
  <2>2. OnItsPort(t)
    BY <1>1, <2>1 DEF OnItsPort
  <2>3. SUFFICES ASSUME s.mListenPort # 0, port > 0, port \notin Unusable
                 PROVE  FALSE
    BY <1>1, <2>1, <2>2 DEF Serves, Same
  <2>4. PICK q \in Players \ {p} : port \in player[q].served
    BY <1>2, <1>5, <2>3 DEF Elsewhere
  <2>5. "mNetProvider" \in player[q].has /\ port = player[q].port
    BY <2>4 DEF AllExact, Exact
  <2>6. port = ClockPort(player[q].mListenPort)
    BY <2>5 DEF CInv, OnItsPort
  <2>7. /\ player[q].mListenPort \in Ports \union {0}
        /\ s.mListenPort \in Ports \union {0}
    BY DEF IInv, Rec, Playing, Whole, Counted
  <2>8. player[q].mListenPort = player[p].mListenPort
    BY <2>6, <2>7, ClockPortInjective
  <2> QED
    BY <2>3, <2>8 DEF CInv, PortsApart
<1> QED
  BY <1>4, <1>5

\* With no pipeline there is nothing to serve.
LEMMA EmptyPlaced ==
  \A s : s.has = {} => OnItsPort(s) /\ Serves(s)
  BY DEF OnItsPort, Serves

LEMMA ClientPlaced ==
  \A s : /\ s.class # "PlayerServer"
         /\ "mNetProvider" \notin s.has
         => OnItsPort(s) /\ Serves(s)
  BY DEF OnItsPort, Serves

LEMMA ClientClockHas ==
  ASSUME NEW s, Playing(s), s.class = "PlayerClient",
         NEW t \in SetupClientClock(s)
  PROVE  "mNetProvider" \notin t.has
<1>1. CASE t = Acquired(ClearClock(s), {"mNetClock"})
  BY <1>1, NewClock DEF Clocks
<1>2. CASE t = ClearClock(s)
  BY <1>2, ClearClockSame DEF Playing, Whole, Clocks
<1> QED
  BY <1>1, <1>2 DEF SetupClientClock

LEMMA OpenPlaces ==
  ASSUME IInv, AllExact, CInv, NEW p \in Players, Open(p)
  PROVE  Places(p)
<1> DEFINE s == Closed(player[p])
           l == Launched(s)
<1>1. player[p].class # "none" /\ Closable(player[p])
  BY WholeClosable DEF Open, IInv
<1>2. Whole(s) /\ Same(player[p], s) /\ s.has = {} /\ s.class # "none"
  BY <1>1, ClosedSame DEF Same
<1>3. Playing(l) /\ Same(s, l) /\ l.has = {"mPipeline", "mGstBus"}
  BY <1>2, LaunchedSame DEF Playing, Whole, Same
<1>4. Exact(l) /\ l.mListenPort = player[p].mListenPort
  BY <1>2, <1>3 DEF Same, AllExact
<1>5. ASSUME NEW u, Closable(u), Same(s, u)
      PROVE  /\ Closed(u).has = {}
             /\ Closed(u).mListenPort = player[p].mListenPort
  BY <1>2, <1>5, ClosedSame DEF Same
<1>6. ASSUME NEW found, OpenSucceeds(p, found)
      PROVE  Places(p)
  <2>1. PICK t \in SetupClock(p, l) : Becomes(p, t)
    BY <1>6 DEF OpenSucceeds
  <2>2. Same(l, t)
    BY <1>3, SetupClockSame
  <2>3. OnItsPort(t) /\ Serves(t)
    <3>1. CASE l.class = "PlayerServer"
      <4>1. t = SetupServerClock(p, l)
        BY <3>1 DEF SetupClock
      <4> QED
        BY <1>3, <1>4, <3>1, <4>1, ServerClockPlaced DEF Clocks
    <3>2. CASE l.class = "PlayerClient"
      <4>1. t = l \/ t \in SetupClientClock(l)
        BY <3>2 DEF SetupClock
      <4>2. "mNetProvider" \notin t.has
        BY <1>3, <3>2, <4>1, ClientClockHas
      <4> QED
        BY <2>2, <3>2, <4>2, ClientPlaced DEF Same
    <3>3. CASE l.class \notin {"PlayerServer", "PlayerClient"}
      <4>1. t = l
        BY <3>3 DEF SetupClock
      <4> QED
        BY <1>3, <3>3, <4>1, ClientPlaced
    <3> QED
      BY <3>1, <3>2, <3>3
  <2> QED
    BY <1>4, <2>1, <2>2, <2>3 DEF Places, Same
<1>7. ASSUME NEW found, OpenFails(p, found)
      PROVE  Places(p)
  <2>1. PICK t : Becomes(p, t) /\ (\/ t = s
                                   \/ t \in LaunchFails(s, found)
                                   \/ t \in PrerollFails(p, s))
    BY <1>7 DEF OpenFails
  <2>2. SUFFICES t.has = {} /\ t.mListenPort = player[p].mListenPort
    BY <2>1, EmptyPlaced DEF Places
  <2>3. CASE t = s
    BY <1>2, <2>3 DEF Same
  <2>4. CASE t \in LaunchFails(s, found)
    <3>1. Closable(s) /\ Closable(Bare(s)) /\ Same(s, Bare(s)) /\ Closable(l)
      BY <1>2, <1>3, BareSame, WholeClosable DEF Whole, Playing
    <3>2. t = Closed(s) \/ t = Closed(Bare(s)) \/ t = Closed(l)
      BY <2>4 DEF LaunchFails
    <3> QED
      BY <1>3, <1>5, <3>1, <3>2 DEF Same
  <2>5. CASE t \in PrerollFails(p, s)
    <3>1. PICK u \in SetupClock(p, l) : t = Closed(u)
      BY <2>5 DEF PrerollFails
    <3>2. Closable(u) /\ Same(s, u)
      BY <1>3, SetupClockSame, SameTransitive, WholeClosable DEF Playing
    <3> QED
      BY <1>5, <3>1, <3>2
  <2> QED
    BY <2>1, <2>3, <2>4, <2>5
<1> QED
  BY <1>6, <1>7 DEF Open

LEMMA ClosePlaces ==
  ASSUME IInv, NEW p \in Players, Close(p)
  PROVE  Places(p)
<1>1. Closable(player[p])
  BY WholeClosable DEF Close, IInv
<1>2. /\ Closed(player[p]).has = {}
      /\ Closed(player[p]).mListenPort = player[p].mListenPort
  BY <1>1, ClosedSame DEF Same
<1> QED
  BY <1>2, EmptyPlaced DEF Close, Places

LEMMA UpdateClockPlaces ==
  ASSUME IInv, NEW p \in Players, UpdateClock(p)
  PROVE  Places(p)
<1>1. PICK s \in SetupClientClock(player[p]) : Becomes(p, s)
  BY DEF UpdateClock
<1>2. Playing(player[p]) /\ player[p].class = "PlayerClient"
  BY DEF UpdateClock, Playing, IInv
<1>3. Same(player[p], s) /\ "mNetProvider" \notin s.has
  BY <1>2, ClientClockSame, ClientClockHas
<1> QED
  BY <1>1, <1>2, <1>3, ClientPlaced DEF Places, Same

\* Where a server has no media open, or the player is new or goes, it has
\* nothing.
LEMMA OtherPlaces ==
  ASSUME IInv, ClosesFirst, ListensFirst, OwnPorts, NEW p \in Players,
         \/ \E port \in Ports : Listen(p, port)
         \/ Shutdown(p)
         \/ \E c \in Classes, port \in Ports : Create(p, c, port)
         \/ Destroy(p)
  PROVE  Places(p)
<1> DEFINE s == player[p]
<1>1. s \in Rec /\ Shaped(s)
  BY DEF IInv, Whole
<1>2. ASSUME NEW c, NEW port, NEW made, s.has = {},
             port \in {s.mListenPort, 0} \/ Free(p, port),
             Becomes(p, Renamed(s, c, port, made))
      PROVE  Places(p)
  <2> DEFINE t == Renamed(s, c, port, made)
  <2>1. t.has = {} /\ t.mListenPort = port
    BY <1>1, <1>2 DEF Rec, Renamed
  <2> QED
    BY <1>2, <2>1, EmptyPlaced DEF Places
<1>3. ASSUME NEW port \in Ports, Listen(p, port) PROVE Places(p)
  <2>1. s.has = {} /\ Free(p, port)
    BY <1>1, <1>3 DEF Listen, Shaped
  <2> QED
    BY <1>2, <1>3, <2>1, ListenIs
<1>4. CASE Shutdown(p)
  <2>1. s.has = {}
    BY <1>1, <1>4 DEF Shutdown, Shaped
  <2> QED
    BY <1>2, <1>4, <2>1, ListenIs
<1>5. ASSUME NEW c \in Classes, NEW port \in Ports, Create(p, c, port)
      PROVE  Places(p)
  <2>1. s.has = {} /\ (c = "PlayerServer" => Free(p, port))
    BY <1>1, <1>5 DEF Create, Shaped
  <2> QED
    BY <1>2, <1>5, <2>1, ListenIs
<1>6. CASE Destroy(p)
  <2> DEFINE t == [BaseClosed(s) EXCEPT !.class = "none", !.mListenPort = 0,
                                        !.isListening = FALSE, !.has = {}]
  <2>1. BaseClosed(s) \in Rec
    BY BaseClosedSame DEF IInv, Whole, Counted
  <2>2. t.has = {} /\ t.mListenPort = 0
    BY <2>1 DEF Rec
  <2> QED
    BY <1>6, <2>2, EmptyPlaced DEF Destroy, Places
<1> QED
  BY <1>3, <1>4, <1>5, <1>6

LEMMA StepCInv ==
  ASSUME ClosesFirst, ListensFirst, OwnPorts
  PROVE  IInv /\ AllExact /\ CInv /\ [Next]_vars => CInv'
<1> SUFFICES ASSUME IInv, AllExact, CInv, [Next]_vars PROVE CInv'
  OBVIOUS
<1>1. CASE Next
  <2>1. PICK p \in Players : Places(p)
    BY <1>1, OpenPlaces, ClosePlaces, UpdateClockPlaces, OtherPlaces DEF Next
  <2>2. PICK t : /\ Becomes(p, t)
                 /\ OnItsPort(t) /\ Serves(t)
                 /\ \/ t.mListenPort \in {player[p].mListenPort, 0}
                    \/ Free(p, t.mListenPort)
    BY <2>1 DEF Places
  <2>3. player' = [player EXCEPT ![p] = t] /\ player \in [Players -> Rec]
    BY <2>2 DEF Becomes, IInv
  <2>4. \A q \in Players : player'[q] = IF q = p THEN t ELSE player[q]
    BY <2>3
  <2>5. PortsApart'
    BY <2>2, <2>4 DEF PortsApart, CInv, Free
  <2>6. \A q \in Players : OnItsPort(player'[q]) /\ Serves(player'[q])
    BY <2>2, <2>4 DEF CInv
  <2> QED
    BY <2>5, <2>6 DEF CInv
<1>2. CASE UNCHANGED vars
  BY <1>2 DEF vars, CInv, PortsApart
<1> QED
  BY <1>1, <1>2

LEMMA InitCInv == Init => CInv
<1>1. Nobody.has = {} /\ Nobody.mListenPort = 0
  BY DEF Nobody
<1>2. OnItsPort(Nobody) /\ Serves(Nobody)
  BY <1>1, EmptyPlaced
<1> QED
  BY <1>1, <1>2 DEF Init, CInv, PortsApart

-----------------------------------------------------------------------------
(* The theorems                                                            *)

\* No object has more references than were leaked by players destroyed with
\* their media open, and one; none has fewer than 0.
THEOREM TypeCorrect == Spec => []TypeOK
<1>1. IInv => TypeOK
  <2> SUFFICES ASSUME IInv, NEW p \in Players
               PROVE  player[p].held \in [Pointers -> 0 .. MaxHeld]
    BY DEF IInv, TypeOK, Rec
  <2>1. player[p].held \in [Pointers -> Nat]
    BY DEF IInv, Rec
  <2>2. \A o \in Pointers : player[p].held[o] =< MaxHeld
    BY <2>1, MaxHeldAssumption DEF IInv, Whole, Counted, Extra
  <2> QED
    BY <2>1, <2>2, MaxHeldAssumption
<1> QED
  BY Invariance, <1>1, PTL

\* Wherever open() returns, a player has a pipeline with its bus or nothing,
\* also where media are left open when players are destroyed
\* (nsvr_player.cpp:29-152).
THEOREM NeverHalfOpen == Spec => []NothingHalfOpen
<1>1. IInv => NothingHalfOpen
  BY DEF IInv, Whole, Shaped, NothingHalfOpen
<1> QED
  BY Invariance, <1>1, PTL

\* Where media are closed before their players are destroyed, every reference
\* is given back, for any number of players that share the ports
\* (nsvr_player.cpp:172-184).
THEOREM EverythingGivenBack ==
  ASSUME ClosesFirst
  PROVE  Spec => []NothingKept
<1>1. IInv /\ AllExact /\ [Next]_vars => (IInv /\ AllExact)'
  BY StepIInv
<1>2. IInv /\ AllExact => NothingKept
  <2> SUFFICES ASSUME IInv, AllExact, NEW p \in Players
               PROVE  \A o \in Pointers :
                        player[p].held[o] = IF o \in player[p].has THEN 1 ELSE 0
    BY DEF AllExact, Exact, NothingKept
  <2>1. \A o \in Pointers : player[p].held[o] \in Nat /\ Extra(player[p], o) = 0
    BY DEF IInv, AllExact, Exact, Rec
  <2> QED
    BY <2>1 DEF Extra
<1> QED
  BY InitIInv, <1>1, <1>2, PTL DEF Spec

\* Where moreover no server listens elsewhere with a media open, and users name
\* each server a port of its own, the clock of a server is served where clients
\* look for it, also if its listen() failed: no provider of another player, or
\* of one that is gone, has the port (nsvr_player_server.cpp:19-23, 51-54).
THEOREM ClockIsServed ==
  ASSUME ClosesFirst, ListensFirst, OwnPorts
  PROVE  Spec => []ClockServed
<1>1. IInv /\ AllExact /\ CInv /\ [Next]_vars => (IInv /\ AllExact /\ CInv)'
  BY StepIInv, StepCInv
<1>2. CInv => ClockServed
  BY DEF CInv, OnItsPort, Serves, ClockServed
<1>3. Init => IInv /\ AllExact /\ CInv
  BY InitIInv, InitCInv
<1> QED
  BY <1>1, <1>2, <1>3, PTL DEF Spec

=============================================================================
