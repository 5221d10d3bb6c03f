----------------------------- MODULE ClientPort -----------------------------
(***************************************************************************)
(* gDrv.DllConnClientPort, the driver's one pointer to the port of its     *)
(* client, and everyone who writes it: ClientConnectedCallback,            *)
(* ClientDisconnectCallback, which closes the port through the pointer and *)
(* then stores NULL, and UninitializeCommunication, which exchanges it for *)
(* NULL and closes what it got (communication_server.c).  DsmkPort has one *)
(* client, whose disconnection is one step; here clients follow each other *)
(* and the callbacks are taken apart.                                      *)
(*                                                                         *)
(* The filter manager is external.  It lets one client have a handle at a  *)
(* time (MaxConnections is 1), but when the place of a client that leaves  *)
(* is free again, before, within or after ClientDisconnectCallback, is its *)
(* affair: here from the moment the handle is gone.  FltCloseClientPort    *)
(* reads the pointer it is given, clears it and closes that port.          *)
(***************************************************************************)
CONSTANTS Clients,
          None      \* NULL

ASSUME ClientAssumption == None \notin Clients

VARIABLES
  unload,      \* where DriverUnload stands
  serverPort,  \* gDrv.DllConnServerPort # NULL
  clientPort,  \* gDrv.DllConnClientPort: the client whose port it is
  taken,       \* clientPort of UninitializeCommunication
  client,      \* client[c]: the life of c's connection
  open,        \* the clients whose port has not been closed
  crossed      \* history: a client was accepted while another was leaving

vars == <<unload, serverPort, clientPort, taken, client, open, crossed>>

Lives == {"out", "accepted", "in", "leaving", "closed"}

TypeOK ==
  /\ unload \in {"no", "closing", "taken", "closed", "done"}
  /\ serverPort \in BOOLEAN /\ crossed \in BOOLEAN
  /\ clientPort \in Clients \cup {None} /\ taken \in Clients \cup {None}
  /\ client \in [Clients -> Lives]
  /\ open \subseteq Clients

Init ==
  /\ unload = "no" /\ serverPort = TRUE /\ crossed = FALSE
  /\ clientPort = None /\ taken = None
  /\ client = [c \in Clients |-> "out"]
  /\ open = {}

Becomes(c, life) == client' = [client EXCEPT ![c] = life]

Leaving(c) == client[c] \in {"leaving", "closed"}

(***************************************************************************)
(* A client comes and goes                                                 *)
(***************************************************************************)
\* Variant with a defect: MaxConnections is 2.
AcceptedSecond(c) ==
  /\ serverPort
  /\ client[c] = "out" /\ c \notin open
  /\ Becomes(c, "accepted")
  /\ open' = open \cup {c}
  /\ crossed' = (crossed \/ \E d \in Clients : Leaving(d))
  /\ UNCHANGED <<unload, serverPort, clientPort, taken>>

\* FilterConnectCommunicationPort.  Each connection has a port of its own: who
\* has left one open comes back under another name.
Accepted(c) ==
  /\ serverPort
  /\ client[c] = "out" /\ c \notin open
  /\ \A d \in Clients : client[d] \notin {"accepted", "in"}
  /\ Becomes(c, "accepted")
  /\ open' = open \cup {c}
  /\ crossed' = (crossed \/ \E d \in Clients : Leaving(d))
  /\ UNCHANGED <<unload, serverPort, clientPort, taken>>

ClientConnectedCallback(c) ==
  /\ client[c] = "accepted"
  /\ clientPort' = c
  /\ Becomes(c, "in")
  /\ UNCHANGED <<unload, serverPort, taken, open, crossed>>

\* The handle is closed, the client dies, or the filter goes.
HandleCloses(c) ==
  /\ client[c] = "in"
  /\ Becomes(c, "leaving")
  /\ UNCHANGED <<unload, serverPort, clientPort, taken, open, crossed>>

\* Variant with a defect: the port is not closed.
ClosePortForgotten(c) ==
  /\ client[c] = "leaving"
  /\ Becomes(c, "closed")
  /\ UNCHANGED <<unload, serverPort, clientPort, taken, open, crossed>>

\* ClientDisconnectCallback: FltCloseClientPort through the global, which may
\* be another client's by now.
ClosePort(c) ==
  /\ client[c] = "leaving"
  /\ Becomes(c, "closed")
  /\ open' = open \ {clientPort} /\ clientPort' = None
  /\ UNCHANGED <<unload, serverPort, taken, crossed>>

\* Variant with a defect: a mark for a closed port is stored, not NULL.
StoreMark(c) ==
  /\ client[c] = "closed"
  /\ clientPort' = "closed"
  /\ Becomes(c, "out")
  /\ UNCHANGED <<unload, serverPort, taken, open, crossed>>

\* ClientDisconnectCallback: the store.
StoreNull(c) ==
  /\ client[c] = "closed"
  /\ clientPort' = None
  /\ Becomes(c, "out")
  /\ UNCHANGED <<unload, serverPort, taken, open, crossed>>

(***************************************************************************)
(* DriverUnload: UninitializeCommunication, FltUnregisterFilter            *)
(***************************************************************************)
CloseServerPort ==
  /\ unload = "no"
  /\ unload' = "closing" /\ serverPort' = FALSE
  /\ UNCHANGED <<clientPort, taken, client, open, crossed>>

\* Variant with a defect: the pointer is read, not exchanged.
ReadPort ==
  /\ unload = "closing"
  /\ unload' = "taken" /\ taken' = clientPort
  /\ UNCHANGED <<serverPort, clientPort, client, open, crossed>>

ExchangePort ==
  /\ unload = "closing"
  /\ unload' = "taken" /\ taken' = clientPort /\ clientPort' = None
  /\ UNCHANGED <<serverPort, client, open, crossed>>

CloseTaken ==
  /\ unload = "taken"
  /\ unload' = "closed" /\ taken' = None /\ open' = open \ {taken}
  /\ UNCHANGED <<serverPort, clientPort, client, crossed>>

\* FltUnregisterFilter disconnects who is left, lets the callbacks end and
\* closes what they leave open.
Unregistered ==
  /\ unload = "closed" /\ \A c \in Clients : client[c] = "out" \/ (client[c] = "in" /\ c \notin open)
  /\ unload' = "done"
  /\ UNCHANGED <<serverPort, clientPort, taken, client, open, crossed>>

ClientStep(c) ==
  \/ Accepted(c) \/ ClientConnectedCallback(c)
  \/ unload # "done" /\ HandleCloses(c)
  \/ ClosePort(c) \/ StoreNull(c)

Next ==
  \/ \E c \in Clients : ClientStep(c)
  \/ CloseServerPort \/ ExchangePort \/ CloseTaken \/ Unregistered

Spec == Init /\ [][Next]_vars

(***************************************************************************)
(* Properties                                                              *)
(***************************************************************************)
\* A port is closed once: whatever the driver still holds a pointer to, in the
\* global or in the unload's local, is open, and only one of the two has it.
ClosedOnce ==
  /\ clientPort # None => clientPort \in open /\ clientPort # taken
  /\ taken # None => taken \in open

\* Requests go to the client that is connected, unless the unload has begun, or
\* a client was once accepted while another's disconnection was under way.
ClientIsServed ==
  \A c \in Clients :
    client[c] = "in" /\ unload = "no" /\ ~crossed => clientPort = c

\* The port of a client that has gone is closed, if need be by the unload,
\* under the same condition.
NoPortLeaks ==
  \A c \in Clients : client[c] = "out" /\ c \in open /\ ~crossed => taken = c

\* A connected client to which no request goes.
Lost(c) == client[c] = "in" /\ clientPort = None

\* A client that has lost the pointer does not get it back: its requests fail
\* until it leaves, and nothing tells it.
LostUntilItLeaves == [][\A c \in Clients : Lost(c) => Lost(c)' \/ client'[c] # "in"]_vars

(***************************************************************************)
(* The connection as ClientLink has it                                     *)
(***************************************************************************)
Connected(c) == client[c] \in {"in", "leaving"}

LinkOf ==
  IF \E c \in Clients : client[c] = "accepted" THEN "accepted"
  ELSE IF \E c \in Clients : Connected(c) /\ c \in open THEN "open"
  ELSE IF \E c \in Clients : Connected(c) THEN "disconnected"
  ELSE "none"

UnloadOf == IF unload = "taken" THEN IF taken = None THEN "closed" ELSE "holding"
            ELSE unload

Link == INSTANCE ClientLink WITH unload <- UnloadOf, link <- LinkOf, pointer <- clientPort # None

\* As long as no client comes while another leaves, the clients, the two callbacks
\* and the unload, step by step, amount to the one connection of ClientLink.
LinkUntilCrossed == Link!Init /\ [][~crossed' => [Link!Next]_(Link!vars)]_vars
=============================================================================
