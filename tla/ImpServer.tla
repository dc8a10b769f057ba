------------------------------ MODULE ImpServer ------------------------------
(***************************************************************************)
(* The server's registry of clients (src/Imp/ImpServer.cs and the server's *)
(* side of a connection in src/Imp/ImpClient.cs): accept callbacks, which  *)
(* overlap, the client's listeners, and Stop.                              *)
(*                                                                         *)
(* ActiveClients is an IdentifiedCollection; its monitor is held while the *)
(* generator passed to Add runs, which reads the handshake from the        *)
(* network.                                                                *)
(***************************************************************************)
EXTENDS Identifiers

CONSTANTS
    Clients,                   \* connections
    MaximumConnectedClients,
    NoClient

ASSUME ServerAssumption ==
    /\ NoClient \notin Clients
    /\ MaximumConnectedClients \in Nat

VARIABLES
    accept,      \* where AcceptTcpClient is with each connection
    monitor,     \* the connection for which the monitor of ActiveClients is held
    registry,    \* ActiveClients
    networkID,   \* NetworkID of its ImpClient
    connected,   \* Connected of its ImpClient, and HostClient not null
    listener,    \* where RunCommunications is
    locker,      \* who is in ProcessDisconnection or OnDisconnected, with Locker
    told,        \* clients OnClientDisconnected has been called for
    stop,        \* where Stop is
    stopping,    \* what it has still to disconnect
    stopTarget,  \* what it is disconnecting
    strays,      \* history: clients removed that were not in the collection
    crashed      \* an exception has ended the process

acceptVars == <<accept, monitor, networkID>>
sessionVars == <<connected, listener, locker>>
reportVars == <<told, strays, crashed>>
stopVars == <<stop, stopping, stopTarget>>
vars == <<acceptVars, registry, sessionVars, reportVars, stopVars>>

UsedIDs == {id \in IDs : registry[id] # NoClient}
Registered == {registry[id] : id \in UsedIDs}
Mistyped(c) == accept[c] \in {"mistyped", "refused"}

\* (ushort)(id - 1): what AcceptUnreliableMessage looks up.
PreviousID(id) == IF id = 0 THEN Capacity - 1 ELSE id - 1

Init ==
    /\ accept = [c \in Clients |-> "none"] /\ monitor = NoClient
    /\ registry = [id \in IDs |-> NoClient]
    /\ networkID = [c \in Clients |-> 0]
    /\ connected = [c \in Clients |-> FALSE] /\ listener = [c \in Clients |-> "off"]
    /\ locker = [c \in Clients |-> "free"]
    /\ told = {} /\ strays = {} /\ crashed = FALSE
    /\ stop = "no" /\ stopping = {} /\ stopTarget = NoClient

-----------------------------------------------------------------------------
(* AcceptTcpClient.  The next callback may run as soon as this one has     *)
(* called BeginAcceptTcpClient.                                            *)

Proceed(c, from, to) == ~ crashed /\ accept[c] = from /\ accept' = [accept EXCEPT ![c] = to]
Release == monitor' = NoClient
Accepts == UNCHANGED <<reportVars, stopVars>>

Accept(c) ==
    /\ stop = "no"
    /\ Proceed(c, "none", "accepted")
    /\ UNCHANGED <<monitor, networkID, registry, sessionVars>> /\ Accepts

\* Count is read without the monitor.
TurnAway(c) ==
    /\ Cardinality(UsedIDs) >= MaximumConnectedClients
    /\ Proceed(c, "accepted", "closed")
    /\ UNCHANGED <<monitor, networkID, registry, sessionVars>> /\ Accepts

Admit(c) ==
    /\ Cardinality(UsedIDs) < MaximumConnectedClients
    /\ Proceed(c, "accepted", "admitted")
    /\ UNCHANGED <<monitor, networkID, registry, sessionVars>> /\ Accepts

EnterAddFreely(c) ==    \* mutant: Add does not take the monitor
    /\ UsedIDs # IDs /\ monitor' = c
    /\ Proceed(c, "admitted", "handshake")
    /\ networkID' = [networkID EXCEPT ![c] = NextID(NewID(UsedIDs))]
    /\ UNCHANGED <<registry, sessionVars>> /\ Accepts

\* Add has found an ID and calls the generator: the ImpClient writes its
\* network ID to the connection and waits for what the peer writes.
EnterAdd(c) ==
    /\ monitor = NoClient /\ monitor' = c
    /\ UsedIDs # IDs
    /\ Proceed(c, "admitted", "handshake")
    /\ networkID' = [networkID EXCEPT ![c] = NextID(NewID(UsedIDs))]
    /\ UNCHANGED <<registry, sessionVars>> /\ Accepts

\* The peer leaves, or writes what cannot be read.
HandshakeFails(c) ==
    /\ Proceed(c, "handshake", "failed") /\ Release
    /\ UNCHANGED <<networkID, registry, sessionVars>> /\ Accepts

\* The constructor has ended, with the listener running.  The peer has written the
\* name of its interface, which may not be the one this server is for.
StartClient(c, type) ==
    /\ Proceed(c, "handshake", type)
    /\ connected' = [connected EXCEPT ![c] = TRUE]
    /\ listener' = [listener EXCEPT ![c] = "running"]
    /\ UNCHANGED <<monitor, networkID, locker, registry>> /\ Accepts

KeepMonitor(c) ==    \* mutant: the monitor is not released on an exception
    /\ Proceed(c, "mistyped", "refused")
    /\ UNCHANGED <<monitor, networkID, registry, sessionVars>> /\ Accepts

\* CheckClientType throws: the client is not added, and its listener stays.
CheckFails(c) ==
    /\ Proceed(c, "mistyped", "refused") /\ Release
    /\ UNCHANGED <<networkID, registry, sessionVars>> /\ Accepts

Register(c) ==
    /\ Proceed(c, "created", "announcing") /\ Release
    /\ registry' = [registry EXCEPT ![PreviousID(networkID[c])] = c]
    /\ UNCHANGED <<networkID, sessionVars>> /\ Accepts

\* OnClientConnected.
Announce(c) ==
    /\ Proceed(c, "announcing", "announced")
    /\ UNCHANGED <<monitor, networkID, registry, sessionVars>> /\ Accepts

-----------------------------------------------------------------------------
(* The end of a session: the listener's catch block, and Disconnect called *)
(* by Stop.  ProcessDisconnection sets HostClient to null.                 *)

\* The peer leaves, a message cannot be handled, or the socket is closed.
ListenerFails(c) ==
    /\ ~ crashed /\ listener[c] = "running"
    /\ listener' = [listener EXCEPT ![c] = "failed"]
    /\ UNCHANGED <<acceptVars, registry, connected, locker>> /\ Accepts

ListenerEnds(c) ==
    /\ ~ crashed /\ listener[c] = "failed" /\ locker[c] = "free"
    /\ connected' = [connected EXCEPT ![c] = FALSE]
    /\ IF connected[c]
         THEN /\ listener' = [listener EXCEPT ![c] = "reporting"]
              /\ locker' = [locker EXCEPT ![c] = "ending"]
         ELSE /\ listener' = [listener EXCEPT ![c] = "ended"]
              /\ UNCHANGED locker
    /\ UNCHANGED <<acceptVars, registry>> /\ Accepts

\* Mutant: Remove does not wait for the monitor.
ReportAtOnce(c) ==
    /\ ~ crashed /\ locker[c] = "ending"
    /\ locker' = [locker EXCEPT ![c] = "removed"]
    /\ IF c \in Registered
         THEN /\ registry' = [id \in IDs |-> IF registry[id] = c THEN NoClient ELSE registry[id]]
              /\ UNCHANGED strays
         ELSE /\ registry' = [registry EXCEPT ![0] = NoClient]
              /\ strays' = strays \cup {c}
    /\ UNCHANGED <<acceptVars, connected, listener, told, crashed, stopVars>>

\* ReportClientDisconnected: Remove(client) removes ID 0 if the client is absent.
Report(c) ==
    /\ ~ crashed /\ locker[c] = "ending" /\ monitor = NoClient
    /\ locker' = [locker EXCEPT ![c] = "removed"]
    /\ IF c \in Registered
         THEN /\ registry' = [id \in IDs |-> IF registry[id] = c THEN NoClient ELSE registry[id]]
              /\ UNCHANGED strays
         ELSE /\ registry' = [registry EXCEPT ![0] = NoClient]
              /\ strays' = strays \cup {c}
    /\ UNCHANGED <<acceptVars, connected, listener, told, crashed, stopVars>>

\* OnClientDisconnected.  ImpServer<T> casts the client to T, which throws for
\* one of the wrong type, in a thread that does not catch it.
Tell(c) ==
    /\ ~ crashed /\ locker[c] = "removed" /\ locker' = [locker EXCEPT ![c] = "free"]
    /\ told' = told \cup {c} /\ crashed' = Mistyped(c)
    /\ IF listener[c] = "reporting"
         THEN /\ listener' = [listener EXCEPT ![c] = "ended"] /\ UNCHANGED stopVars
         ELSE /\ stop' = "disconnecting" /\ stopTarget' = NoClient
              /\ UNCHANGED <<listener, stopping>>
    /\ UNCHANGED <<acceptVars, registry, connected, strays>>

\* OnClientNetworkError, called first unless the peer has just left, casts too.
ErrorThrows(c) ==
    /\ ~ crashed /\ Mistyped(c) /\ locker[c] = "ending" /\ listener[c] = "reporting"
    /\ crashed' = TRUE
    /\ UNCHANGED <<acceptVars, registry, sessionVars, told, strays, stopVars>>

\* Stop: the clients of the moment are disconnected one after the other.  The
\* exceptions of Disconnect leave it.
Stops == UNCHANGED <<acceptVars, registry, listener, reportVars>>

BeginStop ==
    /\ ~ crashed /\ stop = "no" /\ stop' = "disconnecting"
    /\ stopping' = Registered
    /\ UNCHANGED <<stopTarget, connected, locker>> /\ Stops

\* Listener.Stop() ends the pending BeginAcceptTcpClient, and EndAcceptTcpClient
\* throws in a callback that does not catch it.
PendingAcceptThrows ==
    /\ ~ crashed /\ stop # "no"
    /\ crashed' = TRUE
    /\ UNCHANGED <<acceptVars, registry, sessionVars, told, strays, stopVars>>

\* Mutant: the loop ends with the first client.
StopFirst(c) ==
    /\ ~ crashed /\ stop = "disconnecting" /\ c \in stopping
    /\ IF connected[c]
         THEN /\ stop' = "waiting" /\ stopTarget' = c /\ stopping' = {}
         ELSE /\ stop' = "threw" /\ stopping' = {} /\ UNCHANGED stopTarget
    /\ UNCHANGED <<connected, locker>> /\ Stops

\* HostClient.Disconnect() waits for Locker; if HostClient is null the exception
\* leaves Stop.
StopNext(c) ==
    /\ ~ crashed /\ stop = "disconnecting" /\ c \in stopping
    /\ IF connected[c]
         THEN /\ stop' = "waiting" /\ stopTarget' = c /\ stopping' = stopping \ {c}
         ELSE /\ stop' = "threw" /\ stopping' = {} /\ UNCHANGED stopTarget
    /\ UNCHANGED <<connected, locker>> /\ Stops

\* Disconnect reports whether or not the client was still connected.
StopClient(c) ==
    /\ ~ crashed /\ stop = "waiting" /\ stopTarget = c /\ locker[c] = "free"
    /\ stop' = "reporting"
    /\ connected' = [connected EXCEPT ![c] = FALSE]
    /\ locker' = [locker EXCEPT ![c] = "ending"]
    /\ UNCHANGED <<stopping, stopTarget>> /\ Stops

\* ProcessDisconnection has closed the socket, and fails an operation that the
\* listener has just removed: the client stays as connected as it was.
DisconnectThrows(c) ==
    /\ ~ crashed /\ stop = "waiting" /\ stopTarget = c /\ locker[c] = "free"
    /\ listener[c] = "running"
    /\ stop' = "threw" /\ stopping' = {} /\ stopTarget' = NoClient
    /\ UNCHANGED <<connected, locker>> /\ Stops

-----------------------------------------------------------------------------
Handshake(c) == \/ HandshakeFails(c)
                \/ \E type \in {"created", "mistyped"} : StartClient(c, type)
Accepting(c) == \/ TurnAway(c) \/ Admit(c) \/ EnterAdd(c) \/ Handshake(c)
                \/ CheckFails(c) \/ Register(c) \/ Announce(c)
Ending(c) == ListenerEnds(c) \/ Report(c) \/ Tell(c)
Stopping(c) == StopNext(c) \/ StopClient(c) \/ DisconnectThrows(c)

Next ==
    \/ BeginStop \/ PendingAcceptThrows
    \/ \E c \in Clients : \/ Accept(c) \/ Accepting(c) \/ ListenerFails(c)
                          \/ Ending(c) \/ ErrorThrows(c) \/ Stopping(c)

Spec == Init /\ [][Next]_vars

\* Threads that can go on do; a peer answers the handshake or leaves; a closed
\* socket makes the listener fail.  The monitor and Lockers are granted fairly.
FairSpec ==
    /\ Spec
    /\ \A c \in Clients :
          /\ SF_vars(Accepting(c)) /\ SF_vars(Ending(c)) /\ SF_vars(Stopping(c))
          /\ WF_vars(~ connected[c] /\ ListenerFails(c))
-----------------------------------------------------------------------------

\* ConnectedClients: every client that has been added and is still connected is
\* in the registry, at the ID its datagrams carry, as long as no client has been
\* removed that was not there.
ClientsListed ==
    strays = {} => \A c \in Clients :
        accept[c] \in {"announcing", "announced"} /\ connected[c]
            => registry[PreviousID(networkID[c])] = c

\* ReportClientDisconnected takes out the entry of the client it is told of: that
\* it takes out another's, or none, has begun with a client of the wrong type or
\* during Stop, never with an accepted client whose own listener reports it,
\* however its end and its registration overlap.
OwnEntriesLeave == strays # {} => stop # "no" \/ \E c \in strays : Mistyped(c)

\* A client that OnClientDisconnected has been called for is not in the registry:
\* it has left, even if its connection ended before it was added.
EndedClientsLeave == told \cap Registered = {}

\* Every connection that is accepted is turned away, refused or announced: neither
\* the monitor nor a Locker is waited for for ever.
ConnectionsSettle ==
    \A c \in Clients : accept[c] = "accepted"
        ~> accept[c] \in {"closed", "failed", "refused", "announced"} \/ crashed

\* OnClientDisconnected is called for every client whose connection ends, whoever
\* ends it.
EndedClientsAreReported == \A c \in Clients : listener[c] = "failed" ~> c \in told \/ crashed

\* Stop disconnects the clients it has found ("disconnects all connected clients"),
\* whatever their listeners do meanwhile, unless an exception leaves it.
StopDisconnects ==
    \A c \in Clients :
        c \in stopping ~> ~ connected[c] \/ stop = "threw" \/ crashed
=============================================================================
