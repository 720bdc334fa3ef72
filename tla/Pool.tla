-------------------------------- MODULE Pool --------------------------------
(***************************************************************************)
(* The client's pool of HTTP/2 connections (mantalon-client/src/pool.rs).  *)
(*                                                                         *)
(* `POOL` maps a multiaddr to the sender half of a connection, under one   *)
(* tokio RwLock for all peers.  A request looks its peer up under a read   *)
(* guard; it keeps that guard while it waits for its response when it      *)
(* found an entry, and drops it before it connects when it found none.     *)
(* A new connection is stored with try_write, or by a spawned task when    *)
(* the lock is taken; the close event of a websocket spawns a task that    *)
(* removes the entry of the peer.                                          *)
(*                                                                         *)
(* A request opens at most one connection, so the connection is named by   *)
(* the request that opened it.                                             *)
(***************************************************************************)
EXTENDS Naturals, Sequences

CONSTANTS
    Requests,     \* the requests handed to Pool::send_request
    Uri,          \* [Requests -> [scheme, host, port]], the URI of each
    ServerNames,  \* the hosts that parse as a DNS name or an IP address
    NoPort,       \* the port of a URI that names none
    None,         \* no connection
    Fragile,      \* the connections whose websocket may close on its own
    Silent        \* the requests the peer may leave unanswered for ever

ASSUME NoneAssumption == None \notin Requests
ASSUME FaultAssumption == Fragile \subseteq Requests /\ Silent \subseteq Requests

VARIABLES
    pool,      \* Pool::connections: the connection stored for each multiaddr
    queue,     \* the waiters of the RwLock, first come first served
    reading,   \* the requests that hold a read guard
    pc,        \* where each call of send_request stands
    on,        \* the connection each request was sent on
    sock,      \* the websocket under each connection
    h2         \* the HTTP/2 connection task over it

vars == <<pool, queue, reading, pc, on, sock, h2>>

-----------------------------------------------------------------------------
(* The peer of a request.                                                  *)

(* Variant of Port: one default for both schemes.                          *)
PortIgnoringScheme(u) == IF u.port # NoPort THEN u.port ELSE 443

Port(u) == IF u.port # NoPort THEN u.port
           ELSE IF u.scheme = "http" THEN 80 ELSE 443

(* get_server gives every default port by scheme, and rejects a URI that   *)
(* has neither a port nor a known scheme, or no host it can dial.          *)
HasServer(u) == /\ u.port # NoPort \/ u.scheme \in {"http", "https"}
                /\ u.host \in ServerNames

Multiaddr(u) == <<u.host, Port(u)>>

Target(r) == Multiaddr(Uri[r])

Addrs == {Target(r) : r \in Requests}

-----------------------------------------------------------------------------
(* The RwLock.  A waiter leaves the queue only at its head, and a caller   *)
(* takes the lock at once only when nobody waits: tokio's RwLock is fair.  *)

Job == [op : {"read", "store", "evict"}, of : Requests]
Read(r)  == [op |-> "read",  of |-> r]
Store(c) == [op |-> "store", of |-> c]
Evict(c) == [op |-> "evict", of |-> c]

WriteFree == queue = <<>> /\ reading = {}

(* The read guard of r is granted by this step.                            *)
TakesRead(r) ==
    \/ /\ pc[r] = "idle" /\ queue = <<>>
       /\ UNCHANGED queue
    \/ /\ pc[r] = "queued" /\ queue # <<>> /\ Head(queue) = Read(r)
       /\ queue' = Tail(queue)

Waiting(r) == pc[r] \in {"waiting", "stranded"}

-----------------------------------------------------------------------------
Init ==
    /\ pool = [a \in Addrs |-> None]
    /\ queue = <<>>
    /\ reading = {}
    /\ pc = [r \in Requests |-> "idle"]
    /\ on = [r \in Requests |-> None]
    /\ sock = [r \in Requests |-> "none"]
    /\ h2 = [r \in Requests |-> "none"]

(* get_server fails before the lock is touched.                            *)
Reject(r) ==
    /\ pc[r] = "idle" /\ ~HasServer(Uri[r])
    /\ pc' = [pc EXCEPT ![r] = "failed"]
    /\ UNCHANGED <<pool, queue, reading, on, sock, h2>>

(* read().await behind a waiting writer.                                   *)
Wait(r) ==
    /\ pc[r] = "idle" /\ HasServer(Uri[r]) /\ queue # <<>>
    /\ queue' = Append(queue, Read(r))
    /\ pc' = [pc EXCEPT ![r] = "queued"]
    /\ UNCHANGED <<pool, reading, on, sock, h2>>

(* The entry exists and its connection task runs: the request goes out on  *)
(* it and keeps the guard.  What is written to a websocket that is not     *)
(* open is discarded, and the request is stranded.                         *)
Reuse(r) ==
    LET c == pool[Target(r)] IN
    /\ HasServer(Uri[r]) /\ TakesRead(r)
    /\ c # None /\ h2[c] = "live"
    /\ reading' = reading \cup {r}
    /\ on' = [on EXCEPT ![r] = c]
    /\ pc' = [pc EXCEPT ![r] = IF sock[c] = "open" THEN "waiting" ELSE "stranded"]
    /\ UNCHANGED <<pool, sock, h2>>

(* The entry exists but its connection task has ended: ready() fails, and  *)
(* a new connection is opened with the guard still held.                   *)
Reopen(r) ==
    LET c == pool[Target(r)] IN
    /\ HasServer(Uri[r]) /\ TakesRead(r)
    /\ c # None /\ h2[c] = "ended"
    /\ reading' = reading \cup {r}
    /\ pc' = [pc EXCEPT ![r] = "connecting"]
    /\ sock' = [sock EXCEPT ![r] = "connecting"]
    /\ UNCHANGED <<pool, on, h2>>

(* No entry: the guard is dropped and a connection is opened.              *)
Open(r) ==
    /\ HasServer(Uri[r]) /\ TakesRead(r)
    /\ pool[Target(r)] = None
    /\ pc' = [pc EXCEPT ![r] = "connecting"]
    /\ sock' = [sock EXCEPT ![r] = "connecting"]
    /\ UNCHANGED <<pool, reading, on, h2>>

(* WebSocket::new throws, with or without an ended entry in the pool.      *)
OpenThrows(r) ==
    LET c == pool[Target(r)] IN
    /\ HasServer(Uri[r]) /\ TakesRead(r)
    /\ c # None => h2[c] = "ended"
    /\ pc' = [pc EXCEPT ![r] = "failed"]
    /\ UNCHANGED <<pool, reading, on, sock, h2>>

(* The open event wakes ready(), the only thing that does.                 *)
SocketOpens(r) ==
    /\ pc[r] = "connecting" /\ sock[r] = "connecting"
    /\ sock' = [sock EXCEPT ![r] = "open"]
    /\ pc' = [pc EXCEPT ![r] = "handshaking"]
    /\ UNCHANGED <<pool, queue, reading, on, h2>>

(* Variant of SocketCloses: the removal is tried once and given up when    *)
(* the lock is taken.                                                      *)
SocketClosesWithTryWrite(c) ==
    /\ sock[c] \in {"connecting", "open"}
    /\ sock' = [sock EXCEPT ![c] = IF h2[c] = "live" THEN "closed" ELSE "lost"]
    /\ pool' = IF WriteFree THEN [pool EXCEPT ![Target(c)] = None] ELSE pool
    /\ UNCHANGED <<queue, reading, pc, on, h2>>

(* The close event: the server refused, or the tunnel broke.  The handler  *)
(* spawns the removal of the peer's entry and wakes nobody.  "closed" is a *)
(* socket lost under a running connection, "lost" one lost before that.    *)
SocketCloses(c) ==
    /\ sock[c] \in {"connecting", "open"}
    /\ sock' = [sock EXCEPT ![c] = IF h2[c] = "live" THEN "closed" ELSE "lost"]
    /\ queue' = Append(queue, Evict(c))
    /\ UNCHANGED <<pool, reading, pc, on, h2>>

(* TLS or the HTTP/2 handshake fails: the websocket is dropped, and the    *)
(* guard too if the request held one.                                      *)
HandshakeFails(r) ==
    /\ pc[r] = "handshaking"
    /\ pc' = [pc EXCEPT ![r] = "failed"]
    /\ sock' = [sock EXCEPT ![r] = "dropped"]
    /\ reading' = reading \ {r}
    /\ UNCHANGED <<pool, queue, on, h2>>

(* Variant of Established: the request waits for the write lock itself.    *)
EstablishedWithBlockingWrite(r) ==
    /\ pc[r] = "handshaking" /\ WriteFree
    /\ h2' = [h2 EXCEPT ![r] = "live"]
    /\ on' = [on EXCEPT ![r] = r]
    /\ pc' = [pc EXCEPT ![r] = IF sock[r] = "open" THEN "waiting" ELSE "stranded"]
    /\ pool' = [pool EXCEPT ![Target(r)] = r]
    /\ UNCHANGED <<queue, reading, sock>>

(* The connection is up: it is stored, now or by a task that waits for the *)
(* lock, and the request is sent on it without waiting for that.           *)
Established(r) ==
    /\ pc[r] = "handshaking"
    /\ h2' = [h2 EXCEPT ![r] = "live"]
    /\ on' = [on EXCEPT ![r] = r]
    /\ pc' = [pc EXCEPT ![r] = IF sock[r] = "open" THEN "waiting" ELSE "stranded"]
    /\ IF WriteFree
       THEN pool' = [pool EXCEPT ![Target(r)] = r] /\ UNCHANGED queue
       ELSE queue' = Append(queue, Store(r)) /\ UNCHANGED pool
    /\ UNCHANGED <<reading, sock>>

(* Variant of Response: the guard outlives the call.                       *)
ResponseKeepingGuard(r) ==
    /\ pc[r] = "waiting" /\ h2[on[r]] = "live"
    /\ pc' = [pc EXCEPT ![r] = "done"]
    /\ UNCHANGED <<pool, queue, reading, on, sock, h2>>

(* The response head arrives and send_request returns.                     *)
Response(r) ==
    /\ pc[r] = "waiting" /\ h2[on[r]] = "live"
    /\ pc' = [pc EXCEPT ![r] = "done"]
    /\ reading' = reading \ {r}
    /\ UNCHANGED <<pool, queue, on, sock, h2>>

(* The connection task ended under the request: ready() or send_request    *)
(* returns an error.                                                       *)
RequestFails(r) ==
    /\ Waiting(r) /\ h2[on[r]] = "ended"
    /\ pc' = [pc EXCEPT ![r] = "failed"]
    /\ reading' = reading \ {r}
    /\ UNCHANGED <<pool, queue, on, sock, h2>>

(* The connection task ends on what the peer sent (end of TLS stream, a    *)
(* protocol error).  It drops the websocket, whose handlers are cleared:   *)
(* no removal is spawned, and the entry stays.                             *)
ConnectionEnds(c) ==
    /\ h2[c] = "live"
    /\ h2' = [h2 EXCEPT ![c] = "ended"]
    /\ sock' = [sock EXCEPT ![c] = "dropped"]
    /\ UNCHANGED <<pool, queue, reading, pc, on>>

(* hyper ends a connection that no sender is left for.                     *)
IdleShutdown(c) ==
    /\ h2[c] = "live"
    /\ \A a \in Addrs : pool[a] # c
    /\ \A i \in DOMAIN queue : queue[i] # Store(c)
    /\ \A r \in Requests : ~(Waiting(r) /\ on[r] = c)
    /\ h2' = [h2 EXCEPT ![c] = "ended"]
    /\ sock' = [sock EXCEPT ![c] = "dropped"]
    /\ UNCHANGED <<pool, queue, reading, pc, on>>

(* Variants of RunWriter: one does not wait for the readers, one keys the  *)
(* entry by the host alone.                                                *)
RunWriterBarging(op, entry) ==
    /\ queue # <<>> /\ Head(queue).op = op
    /\ queue' = Tail(queue)
    /\ pool' = [pool EXCEPT ![Target(Head(queue).of)] = entry]
    /\ UNCHANGED <<reading, pc, on, sock, h2>>
RunWriterByHost(op, entry) ==
    LET host == <<Uri[Head(queue).of].host>> IN
    /\ queue # <<>> /\ Head(queue).op = op
    /\ reading = {}
    /\ queue' = Tail(queue)
    /\ pool' = [a \in Addrs \cup {host} |-> IF a = host THEN entry ELSE pool[a]]
    /\ UNCHANGED <<reading, pc, on, sock, h2>>

(* The spawned writers, each once it heads the queue and no guard is held. *)
RunWriter(op, entry) ==
    /\ queue # <<>> /\ Head(queue).op = op
    /\ reading = {}
    /\ queue' = Tail(queue)
    /\ pool' = [pool EXCEPT ![Target(Head(queue).of)] = entry]
    /\ UNCHANGED <<reading, pc, on, sock, h2>>

RunStore == RunWriter("store", Head(queue).of)
RunEvict == RunWriter("evict", None)

-----------------------------------------------------------------------------
Lookup(r) == Reuse(r) \/ Reopen(r) \/ Open(r) \/ OpenThrows(r)

Next ==
    \/ \E r \in Requests : Reject(r) \/ Wait(r) \/ Lookup(r)
    \/ \E r \in Requests : SocketOpens(r) \/ HandshakeFails(r) \/ Established(r)
    \/ \E r \in Requests : Response(r) \/ RequestFails(r)
    \/ \E c \in Fragile : SocketCloses(c)
    \/ \E c \in Requests : ConnectionEnds(c) \/ IdleShutdown(c)
    \/ RunStore \/ RunEvict

Spec == Init /\ [][Next]_vars

(* What the scheduler, the browser and the peers owe.  Tasks that may run  *)
(* do run.  A websocket opens, and a handshake over an open one succeeds   *)
(* unless it fails: browser and peer bound both.  A peer answers what      *)
(* reached it, unless the request is Silent.  Nothing is owed by a socket  *)
(* that is no longer open.                                                 *)
Fairness ==
    /\ \A r \in Requests :
        /\ WF_vars(pc[r] = "queued" /\ Lookup(r))
        /\ WF_vars(SocketOpens(r))
        /\ WF_vars(sock[r] = "open" /\ Established(r))
        /\ WF_vars(RequestFails(r))
    /\ \A r \in Requests \ Silent : 
          WF_vars(pc[r] = "waiting" /\ sock[on[r]] = "open" /\ Response(r))
    /\ WF_vars(RunStore) /\ WF_vars(RunEvict)

FairSpec == Spec /\ Fairness

-----------------------------------------------------------------------------
(* Every variable keeps its type.                                          *)
TypeOK ==
    /\ pool \in [Addrs -> Requests \cup {None}]
    /\ queue \in Seq(Job)
    /\ reading \subseteq Requests
    /\ pc \in [Requests -> {"idle", "queued", "connecting", "handshaking",
                            "waiting", "stranded", "done", "failed"}]
    /\ on \in [Requests -> Requests \cup {None}]
    /\ sock \in [Requests -> {"none", "connecting", "open", "closed", "lost", "dropped"}]
    /\ h2 \in [Requests -> {"none", "live", "ended"}]

(* A request is only ever sent to the host and the port its own URI names, *)
(* by RFC 3986 and the two default ports, whichever request opened the     *)
(* connection it travels on.                                               *)
WebPort == [http |-> 80, https |-> 443]
SamePort(u, v) ==
    CASE u.port = NoPort /\ v.port = NoPort -> u.scheme = v.scheme
      [] u.port = NoPort /\ v.port # NoPort -> v.port = WebPort[u.scheme]
      [] u.port # NoPort /\ v.port = NoPort -> u.port = WebPort[v.scheme]
      [] OTHER -> u.port = v.port
RightPeer ==
    \A r \in Requests : on[r] # None =>
        Uri[on[r]].host = Uri[r].host /\ SamePort(Uri[on[r]], Uri[r])

(* The entry a waiting request took from the pool stays there while it     *)
(* waits: the read guard keeps every store and every removal out, of that  *)
(* peer and of all the others.                                             *)
GuardPinsConnection ==
    \A r \in reading : on[r] \notin {None, r} => pool[Target(r)] = on[r]

(* An entry whose websocket closed under a running connection is on its    *)
(* way out: its removal is queued, and no store of it comes after that.    *)
(* A websocket that closed earlier, during the handshake, is not covered:  *)
(* its removal may run before its store.  LaterSettle has that case, and   *)
(* the code does not keep it.                                              *)
ClosedIsEvicted ==
    \A c \in Requests : sock[c] = "closed" =>
        /\ (\E a \in Addrs : pool[a] = c) =>
              \E j \in DOMAIN queue : queue[j] = Evict(c)
        /\ \A i \in DOMAIN queue : queue[i] = Store(c) =>
              \E j \in DOMAIN queue : i < j /\ queue[j] = Evict(c)

(* The lock never waits for itself: a request that holds a guard waits for *)
(* the network alone, a request that waits for the lock is in its queue,   *)
(* and a read that heads the queue finds an entry it can use, or none.     *)
LockMovesOn ==
    /\ \A r \in reading : pc[r] \in {"connecting", "handshaking"} \/ Waiting(r)
    /\ \A r \in Requests : pc[r] = "queued" => \E i \in DOMAIN queue : queue[i] = Read(r)
    /\ \A r \in Requests : (queue # <<>> /\ Head(queue) = Read(r)) =>
          /\ pc[r] = "queued" /\ HasServer(Uri[r])
          /\ pool[Target(r)] # None => h2[pool[Target(r)]] # "none"

(* Every call of send_request that is made after a websocket was lost      *)
(* returns, unless another one is lost, as a fetch does that opens a new   *)
(* connection: also where the connection of that websocket is an entry of  *)
(* the pool that no removal is on the way to.                              *)
Gone(c) == sock[c] \in {"closed", "lost"}
DeadEntry(c) == Gone(c) /\ (\E a \in Addrs : pool[a] = c) /\ ~\E i \in DOMAIN queue : queue[i] = Evict(c)
LaterSettle == \A c, r \in Requests :
    []((DeadEntry(c) /\ pc[r] = "idle") =>
        []((pc[r] # "idle") => <>(pc[r] \in {"done", "failed"} \/ \E d \in Requests \ {c} : Gone(d))))

(* A peer that leaves its own requests unanswered does not keep the        *)
(* requests to other hosts from returning.                                 *)
OthersSettle == \A r \in Requests :
    (\A s \in Silent : Uri[s].host # Uri[r].host) =>
        ((pc[r] # "idle") ~> (pc[r] \in {"done", "failed"}))

(* As long as no websocket is lost, every call of send_request returns,    *)
(* whatever connections the peers end and handshakes fail meanwhile.       *)
Lost == \E c \in Requests : Gone(c)
SettlesUnlessLost == \A r \in Requests :
    (pc[r] # "idle") ~> (pc[r] \in {"done", "failed"} \/ Lost)

(* As long as no websocket is lost, every spawned store runs in time: the  *)
(* guards that requests hold over their own connections do not starve it.  *)
StoresRun == \A c \in Requests :
    LET queued == \E i \in DOMAIN queue : queue[i] = Store(c)
    IN  queued ~> (~queued \/ Lost)

(* No https request leaves on a connection that was opened without TLS.    *)
HttpsIsEncrypted ==
    \A r \in Requests : (on[r] # None /\ Uri[r].scheme = "https")
                            => Uri[on[r]].scheme = "https"
=============================================================================
