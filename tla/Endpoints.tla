----------------------------- MODULE Endpoints -----------------------------
(***************************************************************************)
(* Classes Server and Client: how a client makes itself known, and how     *)
(* heartbeats then reach it.  The server listens on a TCP port.  A client  *)
(* binds the UDP port of that number and says hello over TCP; the server   *)
(* sets up a UDP endpoint for the machine the hello came from, once, and   *)
(* sends its heartbeats there.                                             *)
(*                                                                         *)
(* One server process, which may end and be started anew.  A port is a     *)
(* short, above 32767 a negative one; 0 is no port.                        *)
(* A hello once written is read, and sockets and endpoints can be made:    *)
(* only the binding of a port may fail.                                    *)
(***************************************************************************)
EXTENDS Integers, FiniteSets

CONSTANTS
  Clients,
  Ports,
  Taken,    \* the ports other processes of the server's machine listen on
  OneHost   \* the clients are on one machine, otherwise each on its own

ASSUME PortsAssumption ==
  Ports \subseteq (-32768 .. 32767) \ {0} /\ Taken \subseteq Ports
ASSUME OneHostAssumption == OneHost \in BOOLEAN

\* A machine goes by the name of a client on it.
HostOf(c) == IF OneHost THEN CHOOSE first \in Clients : TRUE ELSE c

VARIABLES
  mSocketService, \* "none", "live" (started), "empty" (active, not bound)
  mListenPort,
  bound,          \* ports that listeners of the server process are bound to
  backlog,        \* hellos the system has accepted for them
  mEndpoints,     \* of each host; 0 if it is not known
  mConnected,
  mServerPort,
  waiting,        \* clients with a heartbeat in their socket
  heard           \* history: clients that read one since they connected

server == <<mSocketService, mListenPort, bound>>
client == <<mConnected, mServerPort>>
vars == <<server, backlog, mEndpoints, client, waiting, heard>>

Init ==
  /\ mSocketService = "none"
  /\ mListenPort = 0
  /\ bound = {}
  /\ backlog = {}
  /\ mEndpoints = [c \in Clients |-> 0]
  /\ mConnected = [c \in Clients |-> FALSE]
  /\ mServerPort = [c \in Clients |-> 0]
  /\ waiting = {}
  /\ heard = {}

-----------------------------------------------------------------------------
(* The server                                                              *)

\* Also when the service has no listener.
IsListening == mSocketService # "none"

\* listen(), after the shutdown() it may begin with.  The listener of an
\* earlier call was never closed.
Listen(port) ==
  /\ mListenPort' = port
  /\ \/ /\ port \notin bound \union Taken
        /\ mSocketService' = "live"
        /\ bound' = bound \union {port}
     \/ /\ port \in bound \union Taken
        /\ mSocketService' = "empty"
        /\ UNCHANGED bound
  /\ UNCHANGED <<backlog, mEndpoints, client, waiting, heard>>

\* The address is not one.
ListenNowhere(port) ==
  /\ mListenPort' = port
  /\ mSocketService' = "none"
  /\ UNCHANGED <<bound, backlog, mEndpoints, client, waiting, heard>>

\* Mutant: the service is stopped but not forgotten.
ShutdownKeepsService ==
  /\ IsListening
  /\ mListenPort' = 0
  /\ UNCHANGED <<mSocketService, bound, backlog, mEndpoints, client, waiting,
                 heard>>

\* The service accepts no more; its listener is left to the system.
Shutdown ==
  /\ IsListening
  /\ mSocketService' = "none"
  /\ mListenPort' = 0
  /\ UNCHANGED <<bound, backlog, mEndpoints, client, waiting, heard>>

Accepts(hello) ==
  /\ mSocketService = "live"
  /\ hello.to = mListenPort
  /\ backlog' = backlog \ {hello}
  /\ UNCHANGED <<server, client, waiting, heard>>

\* Mutant: the endpoint is noted but not set up.
IncomingNoSetup(hello) == Accepts(hello) /\ UNCHANGED mEndpoints

\* A host that is known keeps its endpoint, and the port of then.
Incoming(hello) ==
  /\ Accepts(hello)
  /\ LET host == HostOf(hello.from)
     IN  mEndpoints' = [mEndpoints EXCEPT ![host] =
                          IF @ = 0 THEN mListenPort ELSE @]

\* broadcastToClients(), whether listening or not: a datagram goes to one of
\* the sockets bound to its port.  It may also be lost: nothing happens.
SendTo(host) ==
  \E c \in Clients :
    /\ HostOf(c) = host
    /\ mConnected[c]
    /\ mServerPort[c] = mEndpoints[host]
    /\ waiting' = waiting \union {c}
    /\ UNCHANGED <<server, backlog, mEndpoints, client, heard>>

\* Mutant: the new server takes over the endpoints of the old one.
RestartRemembers ==
  /\ mSocketService' = "none"
  /\ mListenPort' = 0
  /\ bound' = {} /\ backlog' = {}
  /\ UNCHANGED <<mEndpoints, client, waiting, heard>>

\* Another Server takes its place: in the same process, where the listeners of
\* the last are still bound, or in a new one.
Restart ==
  /\ mSocketService' = "none"
  /\ mListenPort' = 0
  /\ \/ UNCHANGED <<bound, backlog>>
     \/ bound' = {} /\ backlog' = {}
  /\ mEndpoints' = [c \in Clients |-> 0]
  /\ UNCHANGED <<client, waiting, heard>>

-----------------------------------------------------------------------------
(* A client                                                                *)

\* What a client is left with when it connects, disconnects or ends.
Left(c, connected, port) ==
  /\ mConnected' = [mConnected EXCEPT ![c] = connected]
  /\ mServerPort' = [mServerPort EXCEPT ![c] = port]
  /\ waiting' = waiting \ {c}
  /\ heard' = heard \ {c}
  /\ UNCHANGED <<server, backlog, mEndpoints>>

\* connect(), after the disconnect() it may begin with; the port is noted
\* also if it cannot be bound.
Connect(c, port) == \E binds \in BOOLEAN : Left(c, binds, port)

Disconnect(c) == mConnected[c] /\ Left(c, FALSE, mServerPort[c])

\* sendToServer(), from the constructor and from every open(), connected or
\* not.  Where no one listens it is refused and forgotten; to a port above
\* 32767 it is never written.
Hello(c) ==
  /\ mServerPort[c] > 0
  /\ mServerPort[c] \in bound
  /\ backlog' = backlog \union {[from |-> c, to |-> mServerPort[c]]}
  /\ UNCHANGED <<server, mEndpoints, client, waiting, heard>>

\* Mutant: the source is removed after its first message.
ReceiveOnce(c) ==
  /\ c \in waiting \ heard
  /\ waiting' = waiting \ {c}
  /\ heard' = heard \union {c}
  /\ UNCHANGED <<server, backlog, mEndpoints, client>>

Receive(c) ==
  /\ c \in waiting
  /\ waiting' = waiting \ {c}
  /\ heard' = heard \union {c}
  /\ UNCHANGED <<server, backlog, mEndpoints, client>>

\* incomming() disconnects on an error, from inside the iteration of the main
\* context it gives back.  What iterate() then does with that context is
\* undefined: it may go on, or the process end.
ReceiveFails(c) ==
  /\ c \in waiting
  /\ \/ Left(c, FALSE, mServerPort[c])
     \/ Left(c, FALSE, 0)

-----------------------------------------------------------------------------
\* What the owner of the server does, and what of a client.
ServerChanges ==
  \/ \E port \in Ports : Listen(port) \/ ListenNowhere(port)
  \/ Shutdown
  \/ Restart

ClientChanges(c) ==
  \/ \E port \in Ports : Connect(c, port)
  \/ Disconnect(c)
  \/ ReceiveFails(c)

Next ==
  \/ ServerChanges
  \/ \E hello \in backlog : Incoming(hello)
  \/ \E c \in Clients :
       SendTo(c) \/ ClientChanges(c) \/ Hello(c) \/ Receive(c)

(***************************************************************************)
(* Fairness: either side calls iterate() again and again, as both players  *)
(* do in update() with a media open.  The server repeats its heartbeat,    *)
(* and not all that are sent to a machine are lost.                        *)
(***************************************************************************)
Hellos == [from : Clients, to : Ports]

Fairness ==
  /\ \A hello \in Hellos : WF_vars(hello \in backlog /\ Incoming(hello))
  /\ \A c \in Clients : SF_vars(SendTo(c)) /\ WF_vars(Receive(c))

SafeSpec == Init /\ [][Next]_vars
Spec == SafeSpec /\ Fairness

-----------------------------------------------------------------------------
(* Properties                                                              *)

(* Types; and a service that is started is on the port that is noted.      *)
TypeOK ==
  /\ mSocketService \in {"none", "live", "empty"}
  /\ mListenPort \in Ports \union {0}
  /\ bound \subseteq Ports
  /\ backlog \subseteq [from : Clients, to : bound]
  /\ mEndpoints \in [Clients -> Ports \union {0}]
  /\ mConnected \in [Clients -> BOOLEAN]
  /\ mServerPort \in [Clients -> Ports \union {0}]
  /\ waiting \subseteq {c \in Clients : mConnected[c]}
  /\ heard \subseteq {c \in Clients : mConnected[c]}
  /\ mSocketService = "live" => mListenPort \in bound

\* The server listens where the client is connected to.
Facing(c) ==
  /\ mSocketService = "live"
  /\ mConnected[c]
  /\ mServerPort[c] = mListenPort

\* The machine is known by the port of an earlier listen().
Stale(c) == mEndpoints[HostOf(c)] \notin {0, mListenPort}

(* A machine that is known by a port the server is not on is known by one  *)
(* the server listened on earlier in the same process: the endpoints of a  *)
(* server that is gone are not taken over (nsvr_server.cpp:117-121).       *)
StaleOnlyAfterMoving ==
  \A c \in Clients : Stale(c) => mEndpoints[HostOf(c)] \in bound

(* One hello is enough: a client that said hello to a server that listens  *)
(* hears it, unless either leaves or the client's machine is known by      *)
(* another port.  What came before does not matter: shutdowns, ports that  *)
(* could not be bound, servers that forgot their clients                   *)
(* (nsvr_server.cpp:102-134, nsvr_client.cpp:104).                         *)
HelloAnswered ==
  \A c \in Clients :
    <>[][~ClientChanges(c)]_vars =>
      (Facing(c) /\ [from |-> c, to |-> mListenPort] \in backlog
         ~> c \in heard \/ ~Facing(c) \/ Stale(c))

(* A client that says hello again and again, as it does by opening media,  *)
(* goes on hearing a server that stays, however often the server was       *)
(* started anew before and had forgotten its clients.                      *)
KeepsHearing ==
  \A c \in Clients :
    (/\ <>[][~ServerChanges /\ ~ClientChanges(c)]_vars
     /\ <>[]Facing(c)
     /\ []<><<Hello(c)>>_vars)
      => ([]<><<Receive(c)>>_vars \/ <>[]Stale(c))

=============================================================================
