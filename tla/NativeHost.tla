---------------------------- MODULE NativeHost ----------------------------
(***************************************************************************)
(* The native hosts of one extension and the command line clients          *)
(* (tabplex-native-host.mjs, tabplex-agent-cli.mjs).  A host binds a socket*)
(* at a path all hosts share and publishes a connection file; a client     *)
(* follows the file to the socket, asks once and waits for one line.  The  *)
(* browser starts a host when a port is opened and ends it with the port,  *)
(* so that one may still be leaving when the next one comes.               *)
(***************************************************************************)
EXTENDS Naturals, FiniteSets

CONSTANTS Hosts, Clients, None

VARIABLES host,    \* each host process: where it is
          socket,  \* the host whose socket is found at socketPath, or None
          file,    \* the host whose pid the connection file names, or None
          client,  \* each client: where it is
          peer,    \* the host a client is connected to, or None
          pending, \* host -> the clients whose requests wait for an answer
          asked,   \* requests that the extension has received and not answered
          got      \* ghost: how many lines were written to a client

vars == <<host, socket, file, client, peer, pending, asked, got>>
clients == <<client, peer, got>>

HostAt == {"new", "looking", "stale", "binding", "bound", "ready", "closing", "gone"}
ClientAt == {"new", "file", "connected", "sent", "answered", "error"}

(* A client waits in the table of one host at most, of the one it is       *)
(* connected to, and only while no line has been written to it.            *)
TypeOK ==
    /\ host \in [Hosts -> HostAt]
    /\ socket \in Hosts \cup {None} /\ file \in Hosts \cup {None}
    /\ client \in [Clients -> ClientAt] /\ peer \in [Clients -> Hosts \cup {None}]
    /\ pending \in [Hosts -> SUBSET Clients] /\ asked \subseteq Clients
    /\ got \in [Clients -> Nat]
    /\ \A h \in Hosts : \A c \in pending[h] : peer[c] = h /\ got[c] = 0

Init ==
    /\ host = [h \in Hosts |-> "new"]
    /\ socket = None /\ file = None
    /\ client = [c \in Clients |-> "new"]
    /\ peer = [c \in Clients |-> None]
    /\ pending = [h \in Hosts |-> {}]
    /\ asked = {}
    /\ got = [c \in Clients |-> 0]

Listening(h) == host[h] \in {"bound", "ready"}
Alive(h) == host[h] \notin {"new", "gone"}

-----------------------------------------------------------------------------
(* The start of a host.                                                    *)

Goes(h, at) == host' = [host EXCEPT ![h] = at]

(* existsSync(socketPath): a path that is taken is probed first.           *)
Start(h) ==
    /\ host[h] = "new"
    /\ Goes(h, IF socket = None THEN "binding" ELSE "looking")
    /\ UNCHANGED <<socket, file, clients, pending, asked>>

(* A socket that answers belongs to a running host: this one gives way.    *)
Probe(h) ==
    /\ host[h] = "looking"
    /\ Goes(h, IF socket # None /\ Listening(socket) THEN "gone" ELSE "stale")
    /\ UNCHANGED <<socket, file, clients, pending, asked>>

RemoveStale(h) ==
    /\ host[h] = "stale"
    /\ socket' = None
    /\ Goes(h, "binding")
    /\ UNCHANGED <<file, clients, pending, asked>>

(* server.listen, and its error when another has bound the path meanwhile: *)
(* cleanupFiles removes the socket that is there, whosever it is, and the  *)
(* connection file only when it is this host's.                            *)
CleanUp(h) ==
    /\ socket' = None
    /\ file' = IF file = h THEN None ELSE file

Bind(h) ==
    /\ host[h] = "binding"
    /\ IF socket = None
       THEN socket' = h /\ Goes(h, "bound") /\ UNCHANGED file
       ELSE CleanUp(h) /\ Goes(h, "gone")
    /\ UNCHANGED <<clients, pending, asked>>

(* The connection file replaces any other, then the extension is told.     *)
Publish(h) ==
    /\ host[h] = "bound"
    /\ file' = h
    /\ Goes(h, "ready")
    /\ UNCHANGED <<socket, clients, pending, asked>>

-----------------------------------------------------------------------------
(* The end of a host.                                                      *)

Lines(C) == got' = [c \in Clients |-> got[c] + IF c \in C THEN 1 ELSE 0]

(* Its input has ended, is malformed, or a signal came: every client in    *)
(* the table is told, and the server stops listening.  Closing a socket    *)
(* may already remove its path.                                            *)
ShutDown(h) ==
    /\ Alive(h) /\ host[h] # "closing"
    /\ Goes(h, "closing")
    /\ Lines(pending[h])
    /\ pending' = [pending EXCEPT ![h] = {}]
    /\ socket' \in IF Listening(h) THEN {socket, None} ELSE {socket}
    /\ UNCHANGED <<file, client, peer, asked>>

(* All clients are gone, or half a second has passed.                      *)
Exit(h) ==
    /\ host[h] = "closing"
    /\ CleanUp(h)
    /\ Goes(h, "gone")
    /\ UNCHANGED <<clients, pending, asked>>

Crash(h) ==
    /\ Alive(h)
    /\ Goes(h, "gone")
    /\ pending' = [pending EXCEPT ![h] = {}]
    /\ UNCHANGED <<socket, file, clients, asked>>

-----------------------------------------------------------------------------
(* A client.                                                               *)

Moves(c, at) == client' = [client EXCEPT ![c] = at]

ReadConnection(c) ==
    /\ client[c] = "new"
    /\ Moves(c, IF file = None THEN "error" ELSE "file")
    /\ UNCHANGED <<host, socket, file, peer, pending, asked, got>>

Dial(c) ==
    /\ client[c] = "file"
    /\ IF socket # None /\ Listening(socket)
       THEN Moves(c, "connected") /\ peer' = [peer EXCEPT ![c] = socket]
       ELSE Moves(c, "error") /\ UNCHANGED peer
    /\ UNCHANGED <<host, socket, file, pending, asked, got>>

(* The line arrives: too large or not JSON is answered at once; else the   *)
(* client is entered in the table and the request goes to the extension,   *)
(* or comes back when it does not fit a native message.                    *)
Send(c) ==
    /\ client[c] = "connected" /\ Alive(peer[c])
    /\ Moves(c, "sent")
    /\ \/ Lines({c}) /\ UNCHANGED <<pending, asked>>
       \/ /\ pending' = [pending EXCEPT ![peer[c]] = @ \cup {c}]
          /\ asked' = asked \cup {c}
          /\ UNCHANGED got
    /\ UNCHANGED <<host, socket, file, peer>>

(* The 120 seconds of the host are over.                                   *)
RequestTimesOut_Kept(h, c) ==
    /\ c \in pending[h]
    /\ Lines({c})
    /\ UNCHANGED <<host, socket, file, client, peer, pending, asked>>

RequestTimesOut(h, c) ==
    /\ c \in pending[h]
    /\ pending' = [pending EXCEPT ![h] = @ \ {c}]
    /\ Lines({c})
    /\ UNCHANGED <<host, socket, file, client, peer, asked>>

(* The extension answers: an answer to a request that is not in the table  *)
(* any more is dropped.                                                    *)
Respond(h, c) ==
    /\ c \in asked /\ peer[c] = h /\ Alive(h)
    /\ asked' = asked \ {c}
    /\ pending' = [pending EXCEPT ![h] = @ \ {c}]
    /\ Lines({c} \cap pending[h])
    /\ UNCHANGED <<host, socket, file, client, peer>>

(* The end of the stream: with a line it is the answer, without one an     *)
(* error.                                                                  *)
End(c) ==
    /\ client[c] \in {"connected", "sent"}
    /\ got[c] > 0 \/ ~Alive(peer[c])
    /\ Moves(c, IF got[c] > 0 THEN "answered" ELSE "error")
    /\ UNCHANGED <<host, socket, file, peer, pending, asked, got>>

(* The 130 seconds of the client are over: closing its socket takes it out *)
(* of the table.                                                           *)
GiveUp(c) ==
    /\ client[c] = "sent" /\ got[c] = 0
    /\ Moves(c, "error")
    /\ pending' = [pending EXCEPT ![peer[c]] = @ \ {c}]
    /\ UNCHANGED <<host, socket, file, peer, asked, got>>

Next ==
    \/ \E h \in Hosts : \/ Start(h) \/ Probe(h) \/ RemoveStale(h) \/ Bind(h) \/ Publish(h)
                        \/ ShutDown(h) \/ Exit(h) \/ Crash(h)
                        \/ \E c \in Clients : RequestTimesOut(h, c) \/ Respond(h, c)
    \/ \E c \in Clients : ReadConnection(c) \/ Dial(c) \/ Send(c) \/ End(c) \/ GiveUp(c)

(* A client's own steps, the end of its stream and the host's timer; the   *)
(* extension need not answer, and nobody need end a host.                  *)
Fairness ==
    /\ \A c \in Clients : WF_vars(ReadConnection(c)) /\ WF_vars(Dial(c))
                          /\ WF_vars(Send(c)) /\ WF_vars(End(c))
    /\ \A h \in Hosts, c \in Clients : WF_vars(RequestTimesOut(h, c))
    /\ \A h \in Hosts : WF_vars(Exit(h))

Spec == Init /\ [][Next]_vars /\ Fairness

-----------------------------------------------------------------------------
(* A client hears one line at most: the timer of the host, its shutdown    *)
(* and a late answer of the extension exclude each other.                  *)
OneLine == \A c \in Clients : got[c] <= 1

(* Every client that is started ends with a line or an error, without its  *)
(* own timer, whatever becomes of the hosts and the extension.             *)
NobodyWaits == \A c \in Clients : client[c] \in {"new", "answered", "error"}
ClientsEnd == []<>NobodyWaits

(* A host that is ready is found at the path its connection file names.    *)
ReadyIsReachable == \A h \in Hosts : host[h] = "ready" => socket = h
=============================================================================
