----------------------------- MODULE ClientLink -----------------------------
(***************************************************************************)
(* The one connection of \DSMKPort as ClientConnectedCallback,             *)
(* ClientDisconnectCallback and DriverUnload are meant to handle it        *)
(* (communication_server.c): the driver has a pointer from the moment a    *)
(* client is shown to it until that client goes or the unload takes the    *)
(* pointer out and closes the port.  A client that has been accepted and   *)
(* not yet shown is not seen by the unload; FltUnregisterFilter then       *)
(* disconnects it.                                                         *)
(*                                                                         *)
(* DsmkPort implements this module; ClientPort, where clients follow each  *)
(* other and closing and storing are separate steps, does so until a       *)
(* client comes while another leaves.                                      *)
(***************************************************************************)
VARIABLES unload,  \* where DriverUnload stands; holding: with a pointer in its hand
          link,    \* the connection
          pointer  \* gDrv.DllConnClientPort # NULL

vars == <<unload, link, pointer>>

Init == unload = "no" /\ link = "none" /\ pointer = FALSE

Accept == /\ unload = "no" /\ link = "none"
          /\ link' = "accepted"
          /\ UNCHANGED <<unload, pointer>>

Connect == /\ link = "accepted"
           /\ link' = "open" /\ pointer' = TRUE
           /\ UNCHANGED unload

Disconnect == /\ link \in {"open", "disconnected"}
              /\ link' = "none" /\ pointer' = FALSE
              /\ UNCHANGED unload

CloseServerPort == /\ unload = "no"
                   /\ unload' = "closing"
                   /\ UNCHANGED <<link, pointer>>

TakePointer == /\ unload = "closing"
               /\ unload' = IF pointer THEN "holding" ELSE "closed"
               /\ pointer' = FALSE
               /\ UNCHANGED link

CloseClientPort == /\ unload = "holding"
                   /\ unload' = "closed"
                   /\ link' = IF link = "open" THEN "disconnected" ELSE link
                   /\ UNCHANGED pointer

UnregisterDisconnects == /\ unload = "closed" /\ link = "open"
                         /\ link' = "disconnected" /\ pointer' = FALSE
                         /\ UNCHANGED unload

Unregistered == /\ unload = "closed" /\ link \notin {"accepted", "open"}
                /\ unload' = "done"
                /\ UNCHANGED <<link, pointer>>

Next == \/ Accept \/ Connect \/ Disconnect
        \/ CloseServerPort \/ TakePointer \/ CloseClientPort
        \/ UnregisterDisconnects \/ Unregistered

Spec == Init /\ [][Next]_vars
=============================================================================
