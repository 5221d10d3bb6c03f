-------------------------- MODULE ClientPortProofs --------------------------
(***************************************************************************)
(* Proofs about ClientPort, for any number of clients.                     *)
(***************************************************************************)
EXTENDS ClientPort, TLAPS

\* Of the clients that are let in, one is in at a time; as long as nobody came
\* while another was leaving, one is there at all.
OneInv ==
  /\ \A c, d \in Clients :
       client[c] \in {"accepted", "in"} /\ client[d] \in {"accepted", "in"} => c = d
  /\ ~crossed => \A c, d \in Clients : client[c] # "out" /\ client[d] # "out" => c = d

\* A client that is let in has an open port nobody points to yet.
FreshInv ==
  \A c \in Clients : client[c] = "accepted" => c \in open /\ clientPort # c /\ taken # c

\* Where the port of a client is until it is closed, if nobody crossed another.
OwnerInv ==
  /\ taken # None => unload = "taken"
  /\ ~crossed => \A c \in Clients :
       /\ client[c] \in {"in", "leaving"} /\ unload \in {"no", "closing"} => clientPort = c
       /\ client[c] \in {"in", "leaving"} => clientPort = c \/ taken = c \/ c \notin open
       /\ client[c] = "closed" => taken = c \/ c \notin open

Inv == TypeOK /\ ClosedOnce /\ OneInv /\ FreshInv /\ OwnerInv /\ NoPortLeaks

\* A loaded driver without a client has all of it.
LEMMA InvInit == Init => Inv
  BY ClientAssumption
  DEF Init, Inv, TypeOK, Lives, ClosedOnce, OneInv, FreshInv, OwnerInv, NoPortLeaks

\* Every step of a client, of its callbacks and of the unload keeps it.
LEMMA InvStep == Inv /\ [Next]_vars => Inv'
<1> SUFFICES ASSUME Inv, [Next]_vars PROVE Inv'
  OBVIOUS
<1> USE ClientAssumption
    DEF Inv, TypeOK, Lives, ClosedOnce, OneInv, FreshInv, OwnerInv, NoPortLeaks,
        Becomes, Leaving
<1>1. ASSUME NEW c \in Clients, Accepted(c) PROVE Inv'
  <2> USE <1>1 DEF Accepted
  <2>1. TypeOK' /\ ClosedOnce'
    OBVIOUS
  <2>2. ~crossed' => ~crossed /\ \A d \in Clients : client[d] = "out"
    OBVIOUS
  <2>3. OneInv'
    BY <2>2
  <2>4. FreshInv'
    OBVIOUS
  <2>5. OwnerInv'
    BY <2>2
  <2>6. NoPortLeaks'
    BY <2>2
  <2> HIDE DEF TypeOK, ClosedOnce, OneInv, FreshInv, OwnerInv, NoPortLeaks
  <2> QED BY <2>1, <2>3, <2>4, <2>5, <2>6
<1>2. ASSUME NEW c \in Clients, ClientConnectedCallback(c) PROVE Inv'
  BY <1>2 DEF ClientConnectedCallback
<1>3. ASSUME NEW c \in Clients, HandleCloses(c) PROVE Inv'
  BY <1>3 DEF HandleCloses
<1>4. ASSUME NEW c \in Clients, ClosePort(c) PROVE Inv'
  BY <1>4 DEF ClosePort
<1>5. ASSUME NEW c \in Clients, StoreNull(c) PROVE Inv'
  BY <1>5 DEF StoreNull
<1>6. CASE CloseServerPort
  BY <1>6 DEF CloseServerPort
<1>7. CASE ExchangePort
  BY <1>7 DEF ExchangePort
<1>8. CASE CloseTaken
  BY <1>8 DEF CloseTaken
<1>9. CASE Unregistered
  BY <1>9 DEF Unregistered
<1>10. CASE UNCHANGED vars
  BY <1>10 DEF vars
<1> QED
  BY <1>1, <1>2, <1>3, <1>4, <1>5, <1>6, <1>7, <1>8, <1>9, <1>10 DEF Next, ClientStep

\* So it holds in every reachable state.
LEMMA Invariance == Spec => []Inv
  BY InvInit, InvStep, PTL DEF Spec

\* Every variable keeps its type, for any set of clients.
THEOREM TypeCorrect == Spec => []TypeOK
  BY Invariance, PTL DEF Inv

\* Neither ClientDisconnectCallback nor UninitializeCommunication, in any order,
\* closes a port that is closed: what either has a pointer to is open.
THEOREM NoDoubleClose == Spec => []ClosedOnce
  BY Invariance, PTL DEF Inv

\* Until the unload, a client that came when nobody was leaving has the pointer.
THEOREM Served == Spec => []ClientIsServed
<1>1. Inv => ClientIsServed
  BY DEF Inv, OwnerInv, ClientIsServed
<1> QED
  BY <1>1, Invariance, PTL

\* Under the same condition no port outlives its client.
THEOREM PortsAreClosed == Spec => []NoPortLeaks
  BY Invariance, PTL DEF Inv

\* ClientConnectedCallback gives nobody his pointer back.
THEOREM LostStays == Spec => LostUntilItLeaves
<1>1. Inv /\ [Next]_vars => [\A c \in Clients : Lost(c) => Lost(c)' \/ client'[c] # "in"]_vars
  BY DEF Inv, OneInv, TypeOK, Lives, Lost, Becomes, Next, ClientStep, vars, Accepted,
         ClientConnectedCallback, HandleCloses, ClosePort, StoreNull, CloseServerPort,
         ExchangePort, CloseTaken, Unregistered
<1> QED
  BY <1>1, Invariance, PTL DEF Spec, LostUntilItLeaves

(***************************************************************************)
(* The connection is that of ClientLink until clients cross                *)
(***************************************************************************)
\* A pointer the unload has taken is that of the one client there is, if it is
\* still there; nobody is accepted behind the unload's back while it has one; and
\* ClientDisconnectCallback leaves no pointer between closing and storing.
TakenInv ==
  /\ serverPort <=> unload = "no"
  /\ ~crossed /\ taken # None =>
       /\ clientPort = None
       /\ \A c \in Clients : /\ client[c] # "accepted"
                             /\ client[c] \in {"in", "leaving"} => taken = c
  /\ ~crossed => \A c \in Clients : client[c] = "closed" => clientPort = None

\* It is kept as well: at the exchange, a pointer in the global is that of the
\* one client there is, or NoPortLeaks would have it in the unload's local.
LEMMA TakenStep == Inv /\ TakenInv /\ [Next]_vars => TakenInv'
<1> SUFFICES ASSUME Inv, TakenInv, [Next]_vars PROVE TakenInv'
  OBVIOUS
<1> USE ClientAssumption
    DEF Inv, TypeOK, Lives, OneInv, FreshInv, OwnerInv, TakenInv, Becomes, Leaving
<1>1. ASSUME NEW c \in Clients, Accepted(c) PROVE TakenInv'
  BY <1>1 DEF Accepted
<1>2. ASSUME NEW c \in Clients, ClientConnectedCallback(c) PROVE TakenInv'
  BY <1>2 DEF ClientConnectedCallback
<1>3. ASSUME NEW c \in Clients, HandleCloses(c) PROVE TakenInv'
  BY <1>3 DEF HandleCloses
<1>4. ASSUME NEW c \in Clients, ClosePort(c) PROVE TakenInv'
  BY <1>4 DEF ClosePort
<1>5. ASSUME NEW c \in Clients, StoreNull(c) PROVE TakenInv'
  BY <1>5 DEF StoreNull
<1>6. CASE CloseServerPort
  BY <1>6 DEF CloseServerPort
<1>7. CASE ExchangePort
  <2> SUFFICES ASSUME ~crossed, clientPort # None, NEW c \in Clients
               PROVE  client[c] # "accepted" /\ (client[c] \in {"in", "leaving"} => clientPort = c)
    BY <1>7 DEF ExchangePort
  <2>1. taken = None /\ clientPort \in Clients /\ clientPort \in open
    BY <1>7 DEF ExchangePort, ClosedOnce
  <2>2. client[clientPort] # "out"
    BY <2>1 DEF NoPortLeaks
  <2> QED
    BY <1>7, <2>1, <2>2 DEF ExchangePort
<1>8. CASE CloseTaken
  BY <1>8 DEF CloseTaken
<1>9. CASE Unregistered
  BY <1>9 DEF Unregistered
<1>10. CASE UNCHANGED vars
  BY <1>10 DEF vars
<1> QED
  BY <1>1, <1>2, <1>3, <1>4, <1>5, <1>6, <1>7, <1>8, <1>9, <1>10 DEF Next, ClientStep

\* So it holds in every reachable state.
LEMMA TakenInvariance == Spec => []TakenInv
<1>1. Init => TakenInv
  BY DEF Init, TakenInv
<1> QED
  BY <1>1, TakenStep, Invariance, PTL DEF Spec

\* As long as clients do not cross, each step of a client is ClientLink's step of
\* the same meaning, or none: between the callback's two statements the port is
\* closed and the pointer gone already.
LEMMA ClientLinkStep ==
  ASSUME Inv, TakenInv, ~crossed', NEW c \in Clients, ClientStep(c)
  PROVE  [Link!Next]_(Link!vars)
<1> USE ClientAssumption
    DEF Inv, TypeOK, Lives, OneInv, FreshInv, OwnerInv, TakenInv, Becomes, Leaving, Connected,
        Link!Next, Link!vars
<1>1. ~crossed /\ (client[c] # "out" => \A d \in Clients : d # c => client[d] = "out")
  BY DEF ClientStep, Accepted, ClientConnectedCallback, HandleCloses, ClosePort, StoreNull
<1>2. CASE Accepted(c)
  <2>1. \A d \in Clients : client[d] = "out"
    BY <1>2 DEF Accepted
  <2>2. LinkOf = "none" /\ LinkOf' = "accepted"
    BY <1>2, <2>1 DEF Accepted, LinkOf
  <2>3. UnloadOf = "no" /\ UNCHANGED <<UnloadOf, clientPort # None>>
    BY <1>2 DEF Accepted, UnloadOf
  <2>4. Link!Accept
    BY <2>2, <2>3 DEF Link!Accept
  <2> QED
    BY <2>4
<1>3. CASE ClientConnectedCallback(c)
  <2>1. LinkOf = "accepted" /\ LinkOf' = "open"
    BY <1>1, <1>3 DEF ClientConnectedCallback, LinkOf
  <2>2. UNCHANGED UnloadOf /\ (clientPort # None)' = TRUE
    BY <1>3 DEF ClientConnectedCallback, UnloadOf
  <2>3. Link!Connect
    BY <2>1, <2>2 DEF Link!Connect
  <2> QED
    BY <2>3
<1>4. CASE unload # "done" /\ HandleCloses(c)
  <2>1. UNCHANGED LinkOf
    BY <1>4 DEF HandleCloses, LinkOf
  <2>2. UNCHANGED <<UnloadOf, clientPort # None>>
    BY <1>4 DEF HandleCloses, UnloadOf
  <2> QED
    BY <2>1, <2>2
<1>5. CASE ClosePort(c)
  <2>1. LinkOf \in {"open", "disconnected"} /\ LinkOf' = "none"
    BY <1>1, <1>5 DEF ClosePort, LinkOf
  <2>2. UNCHANGED UnloadOf /\ (clientPort # None)' = FALSE
    BY <1>5 DEF ClosePort, UnloadOf
  <2>3. Link!Disconnect
    BY <2>1, <2>2 DEF Link!Disconnect
  <2> QED
    BY <2>3
<1>6. CASE StoreNull(c)
  <2>1. UNCHANGED LinkOf
    BY <1>6 DEF StoreNull, LinkOf
  <2>2. UNCHANGED <<UnloadOf, clientPort # None>>
    BY <1>1, <1>6 DEF StoreNull, UnloadOf
  <2> QED
    BY <2>1, <2>2
<1> QED
  BY <1>2, <1>3, <1>4, <1>5, <1>6 DEF ClientStep

\* So is each step of the unload; with no pointer taken there is nothing to hold.
LEMMA UnloadLinkStep ==
  ASSUME Inv, TakenInv, ~crossed',
         CloseServerPort \/ ExchangePort \/ CloseTaken \/ Unregistered
  PROVE  [Link!Next]_(Link!vars)
<1> USE ClientAssumption DEF Inv, TypeOK, Lives, OwnerInv, TakenInv, Connected, Link!Next, Link!vars
<1>1. ~crossed
  BY DEF CloseServerPort, ExchangePort, CloseTaken, Unregistered
<1>2. CASE CloseServerPort
  <2>1. UNCHANGED <<LinkOf, clientPort # None>>
    BY <1>2 DEF CloseServerPort, LinkOf
  <2>2. UnloadOf = "no" /\ UnloadOf' = "closing"
    BY <1>2 DEF CloseServerPort, UnloadOf
  <2>3. Link!CloseServerPort
    BY <2>1, <2>2 DEF Link!CloseServerPort
  <2> QED
    BY <2>3
<1>3. CASE ExchangePort
  <2>1. UNCHANGED LinkOf /\ (clientPort # None)' = FALSE
    BY <1>3 DEF ExchangePort, LinkOf
  <2>2. UnloadOf = "closing" /\ UnloadOf' = IF clientPort # None THEN "holding" ELSE "closed"
    BY <1>3 DEF ExchangePort, UnloadOf
  <2>3. Link!TakePointer
    BY <2>1, <2>2 DEF Link!TakePointer
  <2> QED
    BY <2>3
<1>4. CASE CloseTaken /\ taken = None
  <2>1. UNCHANGED <<LinkOf, UnloadOf, clientPort # None>>
    BY <1>4 DEF CloseTaken, LinkOf, UnloadOf
  <2> QED
    BY <2>1
<1>5. CASE CloseTaken /\ taken # None
  <2>1. LinkOf' = IF LinkOf = "open" THEN "disconnected" ELSE LinkOf
    BY <1>1, <1>5 DEF CloseTaken, LinkOf
  <2>2. UnloadOf = "holding" /\ UnloadOf' = "closed" /\ UNCHANGED (clientPort # None)
    BY <1>5 DEF CloseTaken, UnloadOf
  <2>3. Link!CloseClientPort
    BY <2>1, <2>2 DEF Link!CloseClientPort
  <2> QED
    BY <2>3
<1>6. CASE Unregistered
  <2>1. UNCHANGED <<LinkOf, clientPort # None>> /\ LinkOf \notin {"accepted", "open"}
    BY <1>6 DEF Unregistered, LinkOf
  <2>2. UnloadOf = "closed" /\ UnloadOf' = "done"
    BY <1>6 DEF Unregistered, UnloadOf
  <2>3. Link!Unregistered
    BY <2>1, <2>2 DEF Link!Unregistered
  <2> QED
    BY <2>3
<1> QED
  BY <1>2, <1>3, <1>4, <1>5, <1>6

\* For any number of clients that follow each other without crossing, the pointer
\* and the unload treat them as ClientLink treats its one.
THEOREM LinkImplemented == Spec => LinkUntilCrossed
<1>1. Init => Link!Init
  BY DEF Init, Link!Init, UnloadOf, LinkOf, Connected
<1>2. UNCHANGED vars => UNCHANGED Link!vars
  BY DEF vars, Link!vars, UnloadOf, LinkOf, Connected
<1>3. Inv /\ TakenInv /\ [Next]_vars => [~crossed' => [Link!Next]_(Link!vars)]_vars
  BY <1>2, ClientLinkStep, UnloadLinkStep DEF Next
<1> QED
  BY <1>1, <1>3, Invariance, TakenInvariance, PTL DEF Spec, LinkUntilCrossed
=============================================================================
