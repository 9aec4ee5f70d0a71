-------------------------- MODULE EndpointsProofs --------------------------
(***************************************************************************)
(* What holds of Endpoints for any clients, machines and ports.            *)
(***************************************************************************)
EXTENDS Endpoints, TLAPS

\* An endpoint has the port of a listener that is still bound, since none is
\* ever closed; a hello waits at one too.
Inv ==
  /\ TypeOK
  /\ \A c \in Clients : mEndpoints[c] \in bound \union {0}

LEMMA HostType == \A c \in Clients : HostOf(c) \in Clients
  BY DEF HostOf

LEMMA InitInv == Init => Inv
  BY DEF Init, Inv, TypeOK

LEMMA LeftKeepsInv ==
  ASSUME Inv, NEW c \in Clients, NEW connected \in BOOLEAN,
         NEW port \in Ports \union {0}, Left(c, connected, port)
  PROVE  Inv'
  BY DEF Inv, TypeOK, Left, server

LEMMA StepInv == Inv /\ [Next]_vars => Inv'
<1> SUFFICES ASSUME Inv, [Next]_vars PROVE Inv'
  OBVIOUS
<1> USE DEF server, client
<1>1. CASE ServerChanges
  <2>1. ASSUME NEW port \in Ports, Listen(port) PROVE Inv'
    BY <2>1 DEF Listen, Inv, TypeOK
  <2>2. ASSUME NEW port \in Ports, ListenNowhere(port) PROVE Inv'
    BY <2>2 DEF ListenNowhere, Inv, TypeOK
  <2>3. CASE Shutdown
    BY <2>3 DEF Shutdown, Inv, TypeOK
  <2>4. CASE Restart
    BY <2>4 DEF Restart, Inv, TypeOK
  <2> QED
    BY <1>1, <2>1, <2>2, <2>3, <2>4 DEF ServerChanges
<1>2. ASSUME NEW hello \in backlog, Incoming(hello) PROVE Inv'
  <2>1. hello.from \in Clients
    BY DEF Inv, TypeOK
  <2>2. HostOf(hello.from) \in Clients
    BY <2>1, HostType
  <2> QED
    BY <1>2, <2>2 DEF Incoming, Accepts, Inv, TypeOK
<1>3. ASSUME NEW c \in Clients, SendTo(c) PROVE Inv'
  BY <1>3 DEF SendTo, Inv, TypeOK
<1>4. ASSUME NEW c \in Clients, ClientChanges(c) PROVE Inv'
  <2>1. mServerPort[c] \in Ports \union {0}
    BY DEF Inv, TypeOK
  <2>2. PICK connected \in BOOLEAN, port \in Ports \union {0} :
          Left(c, connected, port)
    BY <1>4, <2>1 DEF ClientChanges, Connect, Disconnect, ReceiveFails
  <2> QED
    BY <2>2, LeftKeepsInv
<1>5. ASSUME NEW c \in Clients, Hello(c) PROVE Inv'
  BY <1>5 DEF Hello, Inv, TypeOK
<1>6. ASSUME NEW c \in Clients, Receive(c) PROVE Inv'
  BY <1>6 DEF Receive, Inv, TypeOK
<1>7. CASE UNCHANGED vars
  BY <1>7 DEF vars, Inv, TypeOK
<1> QED
  BY <1>1, <1>2, <1>3, <1>4, <1>5, <1>6, <1>7 DEF Next

LEMMA Invariance == SafeSpec => []Inv
  BY InitInv, StepInv, PTL DEF SafeSpec

\* A heartbeat waits, and a client has heard one, only while it is connected;
\* a started service is on the port that is noted.
THEOREM TypeCorrect == Spec => []TypeOK
<1>1. Inv => TypeOK
  BY DEF Inv
<1> QED
  BY Invariance, <1>1, PTL DEF Spec

\* A server knows machines only by ports it has bound in its process; one that
\* listens on one port only reaches them on that (nsvr_server.cpp:117-121).
THEOREM StaleMeansMoved == Spec => []StaleOnlyAfterMoving
<1>1. Inv => StaleOnlyAfterMoving
  BY HostType DEF Inv, StaleOnlyAfterMoving, Stale
<1> QED
  BY Invariance, <1>1, PTL DEF Spec

=============================================================================
