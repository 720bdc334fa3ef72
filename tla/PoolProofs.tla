----------------------------- MODULE PoolProofs -----------------------------
(* Proofs about Pool, for any requests, URIs and faults.                   *)
EXTENDS Pool, TLAPS

-----------------------------------------------------------------------------
(* The strengthening.  Entries and Stores name the connection under the    *)
(* key of its own peer; Fresh says that a request without a connection of  *)
(* its own is not stored as one yet.                                       *)

Served ==
    \A r \in Requests : (pc[r] \notin {"idle", "failed"} \/ on[r] # None)
                            => HasServer(Uri[r])

Fresh ==
    \A r \in Requests : pc[r] \in {"idle", "queued", "connecting", "handshaking"}
                            => on[r] = None /\ h2[r] = "none" /\ sock[r] # "closed"

Entries ==
    \A a \in Addrs : pool[a] # None =>
        Target(pool[a]) = a /\ on[pool[a]] = pool[a]

Stores ==
    \A i \in DOMAIN queue : queue[i].op = "store" => on[queue[i].of] = queue[i].of

SentToPeer ==
    \A r \in Requests : on[r] # None =>
        on[on[r]] = on[r] /\ Target(on[r]) = Target(r)

IInv == TypeOK /\ Served /\ Fresh /\ Entries /\ Stores /\ SentToPeer

-----------------------------------------------------------------------------
(* What Append, Head and Tail do to the lock's queue.                      *)
LEMMA QueueAppend ==
    ASSUME NEW q \in Seq(Job), NEW j \in Job
    PROVE  /\ Append(q, j) \in Seq(Job)
           /\ DOMAIN Append(q, j) = 1 .. Len(q) + 1
           /\ DOMAIN q = 1 .. Len(q)
           /\ \A i \in DOMAIN q : Append(q, j)[i] = q[i]
           /\ Append(q, j)[Len(q) + 1] = j
  OBVIOUS

LEMMA QueueTail ==
    ASSUME NEW q \in Seq(Job), q # <<>>
    PROVE  /\ Head(q) \in Job
           /\ Head(q) = q[1]
           /\ Tail(q) \in Seq(Job)
           /\ DOMAIN q = 1 .. Len(q)
           /\ DOMAIN Tail(q) = 1 .. Len(q) - 1
           /\ \A i \in DOMAIN Tail(q) : Tail(q)[i] = q[i + 1] /\ i + 1 \in DOMAIN q
  OBVIOUS

LEMMA QueueElement ==
    ASSUME NEW q \in Seq(Job), NEW i \in DOMAIN q
    PROVE  q[i] \in Job /\ q[i].of \in Requests
<1>1. q[i] \in Job
  OBVIOUS
<1> QED BY <1>1 DEF Job

LEMMA Jobs ==
    ASSUME NEW r \in Requests
    PROVE  Read(r) \in Job /\ Store(r) \in Job /\ Evict(r) \in Job
  BY DEF Read, Store, Evict, Job

LEMMA TargetIsAddr == \A r \in Requests : Target(r) \in Addrs
  BY DEF Addrs

(* TakesRead leaves the queue or drops its head.                           *)
LEMMA TakesReadEffect ==
    ASSUME NEW r \in Requests, TypeOK, TakesRead(r)
    PROVE  /\ pc[r] \in {"idle", "queued"}
           /\ \/ queue' = queue
              \/ queue # <<>> /\ Head(queue) = Read(r) /\ queue' = Tail(queue)
           /\ queue' \in Seq(Job)
  BY QueueTail DEF TakesRead, TypeOK

-----------------------------------------------------------------------------
(* The type invariant: every step of the pool keeps every variable typed.  *)
LEMMA TypeStep == TypeOK /\ [Next]_vars => TypeOK'
<1> SUFFICES ASSUME TypeOK, [Next]_vars PROVE TypeOK'
  OBVIOUS
<1> USE NoneAssumption, FaultAssumption, TargetIsAddr
<1>1. ASSUME NEW r \in Requests, Reject(r) \/ Wait(r) PROVE TypeOK'
  <2>1. queue' \in Seq(Job)
    <3> queue \in Seq(Job) /\ Read(r) \in Job
      BY Jobs DEF TypeOK
    <3> QED BY <1>1, QueueAppend DEF Reject, Wait
  <2> QED BY <1>1, <2>1 DEF TypeOK, Reject, Wait
<1>2. ASSUME NEW r \in Requests, Lookup(r) PROVE TypeOK'
  <2> USE TakesReadEffect
  <2>1. CASE Reuse(r)
    BY <2>1 DEF TypeOK, Reuse
  <2>2. CASE Reopen(r)
    BY <2>2 DEF TypeOK, Reopen
  <2>3. CASE Open(r)
    BY <2>3 DEF TypeOK, Open
  <2>4. CASE OpenThrows(r)
    BY <2>4 DEF TypeOK, OpenThrows
  <2> QED BY <1>2, <2>1, <2>2, <2>3, <2>4 DEF Lookup
<1>3. ASSUME NEW r \in Requests, SocketOpens(r) \/ HandshakeFails(r) PROVE TypeOK'
  BY <1>3 DEF TypeOK, SocketOpens, HandshakeFails
<1>4. ASSUME NEW r \in Requests, Established(r) PROVE TypeOK'
  <2>1. queue' \in Seq(Job)
    <3> queue \in Seq(Job) /\ Store(r) \in Job
      BY Jobs DEF TypeOK
    <3> QED BY <1>4, QueueAppend DEF Established
  <2>2. pool' \in [Addrs -> Requests \cup {None}]
    BY <1>4 DEF TypeOK, Established
  <2> QED BY <1>4, <2>1, <2>2 DEF TypeOK, Established
<1>5. ASSUME NEW r \in Requests, Response(r) \/ RequestFails(r) PROVE TypeOK'
  BY <1>5 DEF TypeOK, Response, RequestFails
<1>6. ASSUME NEW c \in Fragile, SocketCloses(c) PROVE TypeOK'
  BY <1>6, Jobs, QueueAppend DEF TypeOK, SocketCloses
<1>7. ASSUME NEW c \in Requests, ConnectionEnds(c) \/ IdleShutdown(c) PROVE TypeOK'
  BY <1>7 DEF TypeOK, ConnectionEnds, IdleShutdown
<1>8. CASE RunStore
  <2>1. Head(queue).of \in Requests \cup {None}
    BY <1>8, QueueTail DEF RunStore, RunWriter, TypeOK, Job
  <2> QED BY <1>8, <2>1, QueueTail DEF TypeOK, RunStore, RunWriter
<1>9. CASE RunEvict
  BY <1>9, QueueTail DEF TypeOK, RunEvict, RunWriter
<1>10. CASE UNCHANGED vars
  BY <1>10 DEF TypeOK, vars
<1> QED
  BY <1>1, <1>2, <1>3, <1>4, <1>5, <1>6, <1>7, <1>8, <1>9, <1>10 DEF Next

(* Spec keeps the type invariant: the maps, the lock's queue and the state *)
(* of each call, socket and connection stay in their sets.                 *)
THEOREM TypeCorrect == Spec => []TypeOK
<1>1. Init => TypeOK
  BY NoneAssumption DEF Init, TypeOK
<1> QED
  BY <1>1, TypeStep, PTL DEF Spec

-----------------------------------------------------------------------------
(* The strengthening is kept.  A lookup touches only the head of the queue *)
(* and, when it reuses an entry, `on` of a request that had none.          *)
LEMMA StoresAfterTail ==
    ASSUME TypeOK, Stores, queue # <<>>, queue' = Tail(queue),
           \A c \in Requests : on[c] = c => on'[c] = c
    PROVE  Stores'
<1> SUFFICES ASSUME NEW i \in DOMAIN queue', queue'[i].op = "store"
             PROVE  on'[queue'[i].of] = queue'[i].of
  BY DEF Stores
<1>1. queue'[i] = queue[i + 1] /\ i + 1 \in DOMAIN queue
  BY QueueTail DEF TypeOK
<1>2. queue[i + 1].of \in Requests
  BY <1>1, QueueElement DEF TypeOK
<1> QED BY <1>1, <1>2 DEF Stores

LEMMA StoresAfterAppend ==
    ASSUME TypeOK, Stores, NEW j \in Job, queue' = Append(queue, j),
           \A c \in Requests : on[c] = c => on'[c] = c,
           j.op = "store" => on'[j.of] = j.of
    PROVE  Stores'
<1> SUFFICES ASSUME NEW i \in DOMAIN queue', queue'[i].op = "store"
             PROVE  on'[queue'[i].of] = queue'[i].of
  BY DEF Stores
<1>1. queue \in Seq(Job)
  BY DEF TypeOK
<1>2. CASE i \in DOMAIN queue
  <2>1. queue'[i] = queue[i] /\ queue[i].of \in Requests
    BY <1>1, <1>2, QueueAppend, QueueElement
  <2> QED BY <1>2, <2>1 DEF Stores
<1>3. CASE i = Len(queue) + 1
  BY <1>1, <1>3, QueueAppend
<1> QED BY <1>1, <1>2, <1>3, QueueAppend

LEMMA LookupStep ==
    ASSUME IInv, TypeOK', NEW r \in Requests, Lookup(r)
    PROVE  IInv'
<1>1. pc[r] \in {"idle", "queued"} /\ on[r] = None
  BY TakesReadEffect DEF IInv, Fresh, Lookup, Reuse, Reopen, Open, OpenThrows
<1>2. HasServer(Uri[r]) /\ UNCHANGED pool
  BY DEF Lookup, Reuse, Reopen, Open, OpenThrows
<1>3. ASSUME on' = on PROVE IInv'
  <2>1. Stores'
    <3>1. CASE queue' = queue
      BY <1>3, <3>1 DEF IInv, Stores
    <3>2. CASE queue # <<>> /\ queue' = Tail(queue)
      BY <1>3, <3>2, StoresAfterTail DEF IInv
    <3> QED BY <3>1, <3>2, TakesReadEffect DEF IInv, Lookup, Reuse, Reopen, Open, OpenThrows
  <2>2. Served' /\ Fresh'
    BY <1>1, <1>2, <1>3 DEF IInv, TypeOK, Served, Fresh, Lookup, Reuse, Reopen, Open, OpenThrows
  <2>3. Entries' /\ SentToPeer'
    BY <1>2, <1>3 DEF IInv, Entries, SentToPeer
  <2> QED BY <2>1, <2>2, <2>3 DEF IInv
<1>4. CASE Reuse(r)
  <2> DEFINE c == pool[Target(r)]
  <2>1. c \in Requests /\ Target(c) = Target(r) /\ on[c] = c /\ c # r
    BY <1>1, <1>4, NoneAssumption, TargetIsAddr DEF IInv, TypeOK, Entries, Reuse
  <2>2. on' = [on EXCEPT ![r] = c] /\ \A d \in Requests : on[d] = d => on'[d] = d
    BY <1>1, <1>4, NoneAssumption DEF Reuse, IInv, TypeOK
  <2>3. Stores'
    <3>1. CASE queue' = queue
      <4> SUFFICES ASSUME NEW i \in DOMAIN queue, queue[i].op = "store"
                   PROVE  on'[queue[i].of] = queue[i].of
        BY <3>1 DEF Stores
      <4>1. queue[i].of \in Requests
        BY QueueElement DEF IInv, TypeOK
      <4> QED BY <4>1, <2>2 DEF IInv, Stores
    <3>2. CASE queue # <<>> /\ queue' = Tail(queue)
      BY <2>2, <3>2, StoresAfterTail DEF IInv
    <3> QED BY <3>1, <3>2, <1>4, TakesReadEffect DEF IInv, Reuse
  <2>4. Served'
    BY <1>2, <1>4, <2>2 DEF IInv, TypeOK, Served, Reuse
  <2>5. Fresh'
    BY <1>4, <2>2 DEF IInv, TypeOK, Fresh, Reuse
  <2>6. Entries'
    BY <1>2, <2>2 DEF IInv, TypeOK, Entries
  <2>7. SentToPeer'
    BY <2>1, <2>2 DEF IInv, TypeOK, SentToPeer
  <2> QED BY <2>3, <2>4, <2>5, <2>6, <2>7 DEF IInv
<1> QED BY <1>3, <1>4 DEF Lookup, Reopen, Open, OpenThrows

(* The step that stores a connection, or queues its store.                 *)
LEMMA EstablishedStep ==
    ASSUME IInv, TypeOK', NEW r \in Requests, Established(r)
    PROVE  IInv'
<1>1. on[r] = None /\ HasServer(Uri[r])
  BY DEF IInv, Fresh, Served, Established
<1>2. on' = [on EXCEPT ![r] = r] /\ on'[r] = r
  BY DEF Established, IInv, TypeOK
<1>3. \A d \in Requests : on[d] = d => on'[d] = d
  BY <1>2 DEF IInv, TypeOK
<1>4. Served' /\ Fresh' /\ SentToPeer'
  <2>1. Served'
    BY <1>1, <1>2 DEF IInv, TypeOK, Served, Established
  <2>2. Fresh'
    BY <1>2 DEF IInv, TypeOK, Fresh, Established
  <2>3. SentToPeer'
    BY <1>2, <1>3, NoneAssumption DEF IInv, TypeOK, SentToPeer
  <2> QED BY <2>1, <2>2, <2>3
<1>5. Entries'
  <2>1. CASE UNCHANGED pool
    BY <1>3, <2>1 DEF IInv, TypeOK, Entries
  <2>2. CASE pool' = [pool EXCEPT ![Target(r)] = r]
    BY <1>2, <1>3, <2>2, TargetIsAddr DEF IInv, TypeOK, Entries
  <2> QED BY <2>1, <2>2 DEF Established
<1>6. Stores'
  <2>1. CASE queue' = queue
    <3> SUFFICES ASSUME NEW i \in DOMAIN queue, queue[i].op = "store"
                 PROVE  on'[queue[i].of] = queue[i].of
      BY <2>1 DEF Stores
    <3>1. queue[i].of \in Requests
      BY QueueElement DEF IInv, TypeOK
    <3> QED BY <3>1, <1>3 DEF IInv, Stores
  <2>2. CASE queue' = Append(queue, Store(r))
    <3>1. Store(r) \in Job /\ Store(r).of = r
      BY Jobs DEF Store
    <3> QED BY <1>2, <1>3, <2>2, <3>1, StoresAfterAppend DEF IInv
  <2> QED BY <2>1, <2>2 DEF Established
<1> QED BY <1>4, <1>5, <1>6 DEF IInv

(* The spawned writers: what a store puts in the pool is keyed by its peer.*)
LEMMA WriterStep ==
    ASSUME IInv, TypeOK', RunStore \/ RunEvict
    PROVE  IInv'
<1>1. queue # <<>> /\ queue' = Tail(queue) /\ UNCHANGED <<pc, on, sock, h2>>
  BY DEF RunStore, RunEvict, RunWriter
<1>2. Stores'
  BY <1>1, StoresAfterTail DEF IInv
<1>3. Head(queue) \in Job /\ Head(queue) = queue[1] /\ 1 \in DOMAIN queue
  BY <1>1, QueueTail DEF IInv, TypeOK
<1>4. Entries'
  <2>1. CASE RunStore
    <3> DEFINE c == Head(queue).of
    <3>1. c \in Requests /\ on[c] = c /\ pool' = [pool EXCEPT ![Target(c)] = c]
      BY <1>3, <2>1 DEF IInv, Stores, Job, RunStore, RunWriter
    <3> QED BY <1>1, <3>1, TargetIsAddr DEF IInv, TypeOK, Entries
  <2>2. CASE RunEvict
    BY <1>1, <2>2 DEF IInv, TypeOK, Entries, RunEvict, RunWriter
  <2> QED BY <2>1, <2>2
<1>5. Served' /\ Fresh' /\ SentToPeer'
  BY <1>1 DEF IInv, Served, Fresh, SentToPeer
<1> QED BY <1>2, <1>4, <1>5 DEF IInv

(* A step that changes neither the pool nor `on` nor what is stored.       *)
LEMMA QuietStep ==
    ASSUME IInv, UNCHANGED <<pool, on>>, Stores', Served', Fresh', TypeOK'
    PROVE  IInv'
  BY DEF IInv, Entries, SentToPeer

LEMMA SafeStep == IInv /\ [Next]_vars => IInv'
<1> SUFFICES ASSUME IInv, [Next]_vars PROVE IInv'
  OBVIOUS
<1>0. TypeOK'
  BY TypeStep DEF IInv
<1>1. ASSUME NEW r \in Requests, Reject(r) PROVE IInv'
  <2>1. Stores' /\ Served' /\ Fresh'
    BY <1>1 DEF IInv, TypeOK, Stores, Served, Fresh, Reject
  <2> QED BY <1>0, <1>1, <2>1, QuietStep DEF Reject
<1>2. ASSUME NEW r \in Requests, Wait(r) PROVE IInv'
  <2>1. Served' /\ Fresh'
    BY <1>2 DEF IInv, TypeOK, Served, Fresh, Wait
  <2>2. Read(r) \in Job /\ Read(r).op # "store"
    BY Jobs DEF Read
  <2>3. Stores'
    BY <1>2, <2>2, StoresAfterAppend DEF IInv, Wait
  <2> QED BY <1>0, <1>2, <2>1, <2>3, QuietStep DEF Wait
<1>3. ASSUME NEW r \in Requests, Lookup(r) PROVE IInv'
  BY <1>0, <1>3, LookupStep
<1>4. ASSUME NEW r \in Requests, SocketOpens(r) \/ HandshakeFails(r) PROVE IInv'
  <2>1. Stores' /\ Served' /\ Fresh'
    BY <1>4 DEF IInv, TypeOK, Stores, Served, Fresh, SocketOpens, HandshakeFails
  <2> QED BY <1>0, <1>4, <2>1, QuietStep DEF SocketOpens, HandshakeFails
<1>5. ASSUME NEW r \in Requests, Established(r) PROVE IInv'
  BY <1>0, <1>5, EstablishedStep
<1>6. ASSUME NEW r \in Requests, Response(r) \/ RequestFails(r) PROVE IInv'
  <2>1. Stores' /\ Served' /\ Fresh'
    BY <1>6 DEF IInv, TypeOK, Stores, Served, Fresh, Response, RequestFails, Waiting
  <2> QED BY <1>0, <1>6, <2>1, QuietStep DEF Response, RequestFails
<1>7. ASSUME NEW c \in Fragile, SocketCloses(c) PROVE IInv'
  <2>1. Served' /\ Fresh'
    BY <1>7 DEF IInv, Served, Fresh, SocketCloses
  <2>2. Evict(c) \in Job /\ Evict(c).op # "store"
    BY FaultAssumption, Jobs DEF Evict
  <2>3. Stores'
    BY <1>7, <2>2, StoresAfterAppend DEF IInv, SocketCloses
  <2> QED BY <1>0, <1>7, <2>1, <2>3, QuietStep DEF SocketCloses
<1>8. ASSUME NEW c \in Requests, ConnectionEnds(c) \/ IdleShutdown(c) PROVE IInv'
  <2>1. Stores' /\ Served' /\ Fresh'
    BY <1>8 DEF IInv, TypeOK, Stores, Served, Fresh, ConnectionEnds, IdleShutdown
  <2> QED BY <1>0, <1>8, <2>1, QuietStep DEF ConnectionEnds, IdleShutdown
<1>9. CASE RunStore \/ RunEvict
  BY <1>0, <1>9, WriterStep
<1>10. CASE UNCHANGED vars
  BY <1>0, <1>10 DEF IInv, Served, Fresh, Entries, Stores, SentToPeer, vars
<1> QED
  BY <1>1, <1>2, <1>3, <1>4, <1>5, <1>6, <1>7, <1>8, <1>9, <1>10 DEF Next

LEMMA SafeInit == Init => IInv
  BY NoneAssumption DEF Init, IInv, TypeOK, Served, Fresh, Entries, Stores, SentToPeer

(* An https and an http URI never share a default port, so two URIs with   *)
(* one multiaddr name one server.                                          *)
LEMMA SamePeer == IInv => RightPeer
<1> SUFFICES ASSUME IInv, NEW r \in Requests, on[r] # None
             PROVE  Uri[on[r]].host = Uri[r].host /\ SamePort(Uri[on[r]], Uri[r])
  BY DEF RightPeer
<1> DEFINE c == on[r]
<1>1. c \in Requests /\ on[c] = c /\ c # None /\ Multiaddr(Uri[c]) = Multiaddr(Uri[r])
  BY NoneAssumption DEF IInv, TypeOK, SentToPeer, Target
<1>2. HasServer(Uri[c]) /\ HasServer(Uri[r])
  BY <1>1 DEF IInv, Served
<1>3. Uri[c].host = Uri[r].host /\ Port(Uri[c]) = Port(Uri[r])
  BY <1>1 DEF Multiaddr
<1>4. SamePort(Uri[c], Uri[r])
  BY <1>2, <1>3 DEF HasServer, Port, SamePort, WebPort
<1> QED BY <1>3, <1>4

(* No request is ever sent to a host or port other than its own URI's.     *)
THEOREM RequestsReachTheirPeer == Spec => []RightPeer
<1> QED
  BY SafeInit, SafeStep, SamePeer, PTL DEF Spec

-----------------------------------------------------------------------------
(* The guard.  Only a writer changes the pool: the spawned ones run when   *)
(* nobody reads, and a store that does not wait needs a free lock.         *)
LEMMA PinStep == IInv /\ GuardPinsConnection /\ [Next]_vars => GuardPinsConnection'
<1> SUFFICES ASSUME IInv, GuardPinsConnection, [Next]_vars,
                    NEW r \in reading', on'[r] \notin {None, r}
             PROVE  pool'[Target(r)] = on'[r]
  BY DEF GuardPinsConnection
<1>0. r \in Requests
  BY TypeStep DEF IInv, TypeOK
<1>1. ASSUME NEW q \in Requests, Lookup(q) PROVE pool'[Target(r)] = on'[r]
  <2>1. CASE r = q
    <3>1. on[q] = None
      BY <1>1, TakesReadEffect
      DEF IInv, Fresh, Lookup, Reuse, Reopen, Open, OpenThrows
    <3> QED BY <1>1, <2>1, <3>1
      DEF IInv, TypeOK, Lookup, Reuse, Reopen, Open, OpenThrows
  <2>2. CASE r # q
    BY <1>0, <1>1, <2>2
    DEF IInv, TypeOK, GuardPinsConnection, Lookup, Reuse, Reopen, Open, OpenThrows
  <2> QED BY <2>1, <2>2
<1>2. ASSUME NEW q \in Requests, Established(q) PROVE pool'[Target(r)] = on'[r]
  <2>1. r \in reading /\ r # q /\ on'[r] = on[r]
    BY <1>0, <1>2 DEF IInv, TypeOK, Established
  <2>2. pool' = pool
    BY <1>2, <2>1 DEF Established, WriteFree
  <2> QED BY <2>1, <2>2 DEF GuardPinsConnection
<1>3. ASSUME NEW q \in Requests,
             \/ Reject(q) \/ Wait(q) \/ SocketOpens(q) \/ HandshakeFails(q)
             \/ Response(q) \/ RequestFails(q)
      PROVE  pool'[Target(r)] = on'[r]
  BY <1>3 DEF GuardPinsConnection, Reject, Wait, SocketOpens, HandshakeFails,
              Response, RequestFails
<1>4. ASSUME NEW c \in Requests, ConnectionEnds(c) \/ IdleShutdown(c) \/ SocketCloses(c)
      PROVE  pool'[Target(r)] = on'[r]
  BY <1>4 DEF GuardPinsConnection, ConnectionEnds, IdleShutdown, SocketCloses
<1>5. CASE RunStore \/ RunEvict
  BY <1>5 DEF RunStore, RunEvict, RunWriter
<1>6. CASE UNCHANGED vars
  BY <1>6 DEF GuardPinsConnection, vars
<1> QED
  BY <1>1, <1>2, <1>3, <1>4, <1>5, <1>6, FaultAssumption DEF Next

(* The entry a request took from the pool stays until its guard is         *)
(* returned, whatever sockets close and whoever else connects.             *)
THEOREM GuardsPinConnections == Spec => []GuardPinsConnection
<1>1. Init => GuardPinsConnection
  BY DEF Init, GuardPinsConnection
<1> QED
  BY <1>1, SafeInit, SafeStep, PinStep, PTL DEF Spec

-----------------------------------------------------------------------------
(* Removal.  What heads the queue and leaves it is not the removal of c,   *)
(* or it is and takes c's entry along.                                     *)
LEMMA EvictStep == IInv /\ ClosedIsEvicted /\ [Next]_vars => ClosedIsEvicted'
<1> SUFFICES ASSUME IInv, ClosedIsEvicted, [Next]_vars,
                    NEW c \in Requests, sock'[c] = "closed"
             PROVE  /\ (\E a \in Addrs : pool'[a] = c) =>
                          \E j \in DOMAIN queue' : queue'[j] = Evict(c)
                    /\ \A i \in DOMAIN queue' : queue'[i] = Store(c) =>
                          \E j \in DOMAIN queue' : i < j /\ queue'[j] = Evict(c)
  BY DEF ClosedIsEvicted
<1> DEFINE Goal == /\ (\E a \in Addrs : pool'[a] = c) =>
                          \E j \in DOMAIN queue' : queue'[j] = Evict(c)
                   /\ \A i \in DOMAIN queue' : queue'[i] = Store(c) =>
                          \E j \in DOMAIN queue' : i < j /\ queue'[j] = Evict(c)
<1>q. queue \in Seq(Job)
  BY DEF IInv, TypeOK
<1>d. Evict(c) # Store(c) /\ \A r \in Requests : Read(r) # Store(c) /\ Read(r) # Evict(c)
  BY DEF Evict, Store, Read
<1>1. ASSUME sock[c] = "closed", pool' = pool, queue' = queue PROVE Goal
  BY <1>1 DEF ClosedIsEvicted
<1>2. ASSUME sock[c] = "closed", pool' = pool, NEW j \in Job, j # Store(c),
             queue' = Append(queue, j)
      PROVE  Goal
  <2>1. DOMAIN queue \subseteq DOMAIN queue' /\ \A i \in DOMAIN queue : queue'[i] = queue[i]
    BY <1>2, <1>q, QueueAppend
  <2>2. \A i \in DOMAIN queue' : queue'[i] = Store(c) => i \in DOMAIN queue
    BY <1>2, <1>q, QueueAppend
  <2> QED BY <1>2, <2>1, <2>2 DEF ClosedIsEvicted
<1>3. ASSUME sock[c] = "closed", queue # <<>>, queue' = Tail(queue),
             Head(queue) # Evict(c),
             \A a \in Addrs : pool'[a] = c => pool[a] = c \/ Head(queue) = Store(c)
      PROVE  Goal
  <2>1. \A i \in DOMAIN queue' : queue'[i] = queue[i + 1] /\ i + 1 \in DOMAIN queue
    BY <1>3, <1>q, QueueTail
  <2>2. \A j \in DOMAIN queue : queue[j] = Evict(c) => j - 1 \in DOMAIN queue' /\ queue'[j - 1] = Evict(c)
    BY <1>3, <1>q, QueueTail
  <2>3. \A i \in DOMAIN queue' : queue'[i] = Store(c) =>
            \E j \in DOMAIN queue' : i < j /\ queue'[j] = Evict(c)
    <3> SUFFICES ASSUME NEW i \in DOMAIN queue', queue'[i] = Store(c)
                 PROVE  \E j \in DOMAIN queue' : i < j /\ queue'[j] = Evict(c)
      OBVIOUS
    <3>1. PICK j \in DOMAIN queue : i + 1 < j /\ queue[j] = Evict(c)
      BY <1>3, <2>1 DEF ClosedIsEvicted
    <3>2. j - 1 \in DOMAIN queue' /\ i < j - 1
      BY <1>3, <1>q, <2>2, <3>1, QueueTail
    <3> QED BY <2>2, <3>1, <3>2
  <2>4. (\E a \in Addrs : pool'[a] = c) => \E j \in DOMAIN queue' : queue'[j] = Evict(c)
    <3>1. CASE \E a \in Addrs : pool[a] = c
      BY <1>3, <2>2, <3>1 DEF ClosedIsEvicted
    <3>2. CASE Head(queue) = Store(c)
      <4>1. 1 \in DOMAIN queue /\ queue[1] = Store(c)
        BY <1>3, <1>q, <3>2, QueueTail
      <4>2. PICK j \in DOMAIN queue : queue[j] = Evict(c)
        BY <1>3, <4>1 DEF ClosedIsEvicted
      <4> QED BY <2>2, <4>2
    <3> QED BY <1>3, <3>1, <3>2
  <2> QED BY <2>3, <2>4
<1>4. ASSUME NEW r \in Requests, Lookup(r) PROVE Goal
  <2>1. pool' = pool /\ sock[c] = "closed"
    BY <1>4 DEF IInv, TypeOK, Lookup, Reuse, Reopen, Open, OpenThrows
  <2>2. CASE queue' = queue
    BY <1>1, <2>1, <2>2
  <2>3. CASE queue # <<>> /\ Head(queue) = Read(r) /\ queue' = Tail(queue)
    BY <1>3, <1>d, <2>1, <2>3
  <2> QED BY <1>4, <2>2, <2>3, TakesReadEffect
          DEF IInv, Lookup, Reuse, Reopen, Open, OpenThrows
<1>5. ASSUME NEW r \in Requests, Established(r) PROVE Goal
  <2>1. sock[c] = "closed" /\ c # r
    BY <1>5 DEF IInv, Fresh, Established
  <2>2. CASE queue' = queue /\ pool' = [pool EXCEPT ![Target(r)] = r]
    BY <2>1, <2>2 DEF IInv, TypeOK, ClosedIsEvicted
  <2>3. CASE queue' = Append(queue, Store(r)) /\ pool' = pool
    <3>1. Store(r) \in Job /\ Store(r) # Store(c)
      BY <2>1, Jobs DEF Store
    <3> QED BY <1>2, <2>1, <2>3, <3>1
  <2> QED BY <1>5, <2>2, <2>3 DEF Established
<1>6. ASSUME NEW d \in Fragile, SocketCloses(d) PROVE Goal
  <2>0. d \in Requests /\ Evict(d) \in Job /\ Evict(d) # Store(c)
    BY FaultAssumption, Jobs DEF Evict, Store
  <2>1. CASE d = c
    <3>1. /\ queue' = Append(queue, Evict(c))
          /\ Len(queue) + 1 \in DOMAIN queue' /\ queue'[Len(queue) + 1] = Evict(c)
      BY <1>6, <1>q, <2>0, <2>1, QueueAppend DEF SocketCloses
    <3>2. \A i \in DOMAIN queue' : queue'[i] = Store(c) => i < Len(queue) + 1
      BY <1>q, <1>d, <2>0, <2>1, <3>1, QueueAppend
    <3> QED BY <3>1, <3>2
  <2>2. CASE d # c
    <3>1. sock[c] = "closed"
      BY <1>6, <2>2 DEF IInv, TypeOK, SocketCloses
    <3> QED BY <1>2, <1>6, <2>0, <3>1 DEF SocketCloses
  <2> QED BY <2>1, <2>2
<1>7. CASE RunStore
  <2>1. queue # <<>> /\ queue' = Tail(queue) /\ Head(queue).op = "store" /\ sock[c] = "closed"
    BY <1>7 DEF RunStore, RunWriter
  <2>0. Head(queue) \in Job
    BY <1>q, <2>1, QueueTail
  <2>2. Head(queue) # Evict(c) /\ Head(queue) = Store(Head(queue).of)
    BY <2>0, <2>1 DEF Evict, Store, Job
  <2>3. pool' = [pool EXCEPT ![Target(Head(queue).of)] = Head(queue).of]
    BY <1>7 DEF RunStore, RunWriter
  <2>4. \A a \in Addrs : pool'[a] = c => pool[a] = c \/ Head(queue) = Store(c)
    BY <2>2, <2>3 DEF IInv, TypeOK, Store
  <2> QED BY <1>3, <2>1, <2>2, <2>4
<1>8. CASE RunEvict
  <2> DEFINE d == Head(queue).of
  <2>1. /\ queue # <<>> /\ queue' = Tail(queue) /\ sock[c] = "closed"
        /\ pool' = [pool EXCEPT ![Target(d)] = None]
    BY <1>8 DEF RunEvict, RunWriter
  <2>2. Head(queue) = Evict(d) /\ d \in Requests
    BY <1>8, <1>q, QueueTail DEF RunEvict, RunWriter, Evict, Job
  <2>3. CASE d # c
    <3>1. Head(queue) # Evict(c)
      BY <2>2, <2>3 DEF Evict
    <3>2. \A a \in Addrs : pool'[a] = c => pool[a] = c
      BY <2>1, NoneAssumption DEF IInv, TypeOK
    <3> QED BY <1>3, <2>1, <3>1, <3>2
  <2>4. CASE d = c
    <3>1. \A a \in Addrs : pool'[a] # c
      BY <2>1, <2>4, NoneAssumption DEF IInv, TypeOK, Entries
    <3>2. \A i \in DOMAIN queue' : queue'[i] = Store(c) =>
              \E j \in DOMAIN queue' : i < j /\ queue'[j] = Evict(c)
      <4> SUFFICES ASSUME NEW i \in DOMAIN queue', queue'[i] = Store(c)
                   PROVE  \E j \in DOMAIN queue' : i < j /\ queue'[j] = Evict(c)
        OBVIOUS
      <4>1. i \in Nat /\ i + 1 \in DOMAIN queue /\ queue[i + 1] = Store(c)
        BY <1>q, <2>1, QueueTail
      <4>2. PICK j \in DOMAIN queue : i + 1 < j /\ queue[j] = Evict(c)
        BY <2>1, <4>1 DEF ClosedIsEvicted
      <4>3. j - 1 \in DOMAIN queue' /\ queue'[j - 1] = Evict(c) /\ i < j - 1
        BY <1>q, <2>1, <4>1, <4>2, QueueTail
      <4> QED BY <4>3
    <3> QED BY <3>1, <3>2
  <2> QED BY <2>3, <2>4
<1>9. ASSUME NEW r \in Requests, Wait(r) PROVE Goal
  <2>1. Read(r) \in Job /\ Read(r) # Store(c)
    BY <1>d, Jobs
  <2> QED BY <1>2, <1>9, <2>1 DEF Wait
<1>10. ASSUME NEW r \in Requests,
              \/ Reject(r) \/ SocketOpens(r) \/ HandshakeFails(r) \/ Response(r)
              \/ RequestFails(r) \/ ConnectionEnds(r) \/ IdleShutdown(r)
       PROVE  Goal
  <2>1. sock[c] = "closed" /\ pool' = pool /\ queue' = queue
    BY <1>10 DEF IInv, TypeOK, Reject, SocketOpens, HandshakeFails, Response, RequestFails,
                 ConnectionEnds, IdleShutdown
  <2> QED BY <1>1, <2>1
<1>11. CASE UNCHANGED vars
  BY <1>1, <1>11 DEF vars
<1> QED
  BY <1>4, <1>5, <1>6, <1>7, <1>8, <1>9, <1>10, <1>11 DEF Next

(* An entry whose websocket closed is never left without a queued removal, *)
(* and no later store of it can undo the removal.                          *)
THEOREM ClosedEntriesAreEvicted == Spec => []ClosedIsEvicted
<1>1. Init => ClosedIsEvicted
  BY DEF Init, ClosedIsEvicted
<1> QED
  BY <1>1, SafeInit, SafeStep, EvictStep, PTL DEF Spec
-----------------------------------------------------------------------------
(* The lock.  A request is queued at most once, and exactly while it waits *)
(* for its read guard; a connection a request was sent on has come up.     *)

ReadsQueued ==
    \A i \in DOMAIN queue : queue[i].op = "read" =>
        /\ pc[queue[i].of] = "queued"
        /\ \A j \in DOMAIN queue : queue[j] = queue[i] => j = i

QueuedRead == \A r \in Requests : pc[r] = "queued" => \E i \in DOMAIN queue : queue[i] = Read(r)

CameUp == \A r \in Requests : on[r] = r => h2[r] # "none"

GuardsAtNetwork ==
    \A r \in reading : pc[r] \in {"connecting", "handshaking"} \/ Waiting(r)

LockInv == ReadsQueued /\ QueuedRead /\ CameUp /\ GuardsAtNetwork

(* A read in the queue, as a job and as a call of Read.                    *)
LEMMA ReadJob ==
    ASSUME NEW j \in Job
    PROVE  /\ j.of \in Requests
           /\ j.op = "read" <=> j = Read(j.of)
           /\ \A r \in Requests : j = Read(r) => j.op = "read" /\ j.of = r
  BY DEF Job, Read

(* The queue and the waiting calls stay as they are.                       *)
LEMMA SameQueue ==
    ASSUME TypeOK, LockInv, queue' = queue,
           \A r \in Requests : pc'[r] = "queued" <=> pc[r] = "queued"
    PROVE  ReadsQueued' /\ QueuedRead'
<1>1. \A i \in DOMAIN queue : queue[i].of \in Requests
  BY QueueElement DEF TypeOK
<1> QED BY <1>1 DEF LockInv, ReadsQueued, QueuedRead

(* A writer joins the queue.                                               *)
LEMMA WriterJoins ==
    ASSUME TypeOK, LockInv, NEW j \in Job, j.op # "read", queue' = Append(queue, j),
           \A r \in Requests : pc'[r] = "queued" <=> pc[r] = "queued"
    PROVE  ReadsQueued' /\ QueuedRead'
<1>1. /\ DOMAIN queue' = 1 .. Len(queue) + 1 /\ DOMAIN queue = 1 .. Len(queue)
      /\ Len(queue) \in Nat
      /\ \A i \in DOMAIN queue : queue'[i] = queue[i]
      /\ queue'[Len(queue) + 1] = j
  BY QueueAppend DEF TypeOK
<1>2. \A i \in DOMAIN queue : queue[i].of \in Requests
  BY QueueElement DEF TypeOK
<1>3. ASSUME NEW i \in DOMAIN queue', queue'[i].op = "read"
      PROVE  /\ i \in DOMAIN queue /\ pc'[queue'[i].of] = "queued"
             /\ \A k \in DOMAIN queue' : queue'[k] = queue'[i] => k = i
  <2>1. i \in DOMAIN queue
    BY <1>1, <1>3
  <2>2. \A k \in DOMAIN queue' : queue'[k] = queue'[i] => k \in DOMAIN queue
    BY <1>1, <1>3
  <2> QED BY <1>1, <1>2, <1>3, <2>1, <2>2 DEF LockInv, ReadsQueued
<1>4. ReadsQueued'
  BY <1>3 DEF ReadsQueued
<1>5. QueuedRead'
  BY <1>1 DEF LockInv, QueuedRead
<1> QED BY <1>4, <1>5

(* A writer leaves the head of the queue.                                  *)
LEMMA WriterLeaves ==
    ASSUME TypeOK, LockInv, queue # <<>>, Head(queue).op # "read", queue' = Tail(queue), pc' = pc
    PROVE  ReadsQueued' /\ QueuedRead'
<1>1. /\ DOMAIN queue = 1 .. Len(queue) /\ DOMAIN queue' = 1 .. Len(queue) - 1
      /\ Len(queue) \in Nat /\ Head(queue) = queue[1]
      /\ \A i \in DOMAIN queue' : queue'[i] = queue[i + 1] /\ i + 1 \in DOMAIN queue
  BY QueueTail DEF TypeOK
<1>2. ReadsQueued'
  <2> SUFFICES ASSUME NEW i \in DOMAIN queue', queue'[i].op = "read"
               PROVE  /\ pc[queue'[i].of] = "queued"
                      /\ \A j \in DOMAIN queue' : queue'[j] = queue'[i] => j = i
    BY DEF ReadsQueued
  <2>1. /\ i + 1 \in DOMAIN queue /\ queue[i + 1].op = "read" /\ queue'[i] = queue[i + 1]
    BY <1>1
  <2>2. /\ pc[queue[i + 1].of] = "queued"
        /\ \A j \in DOMAIN queue : queue[j] = queue[i + 1] => j = i + 1
    BY <2>1 DEF LockInv, ReadsQueued
  <2>3. ASSUME NEW j \in DOMAIN queue', queue'[j] = queue'[i] PROVE j = i
    <3>1. j + 1 \in DOMAIN queue /\ queue[j + 1] = queue[i + 1]
      BY <1>1, <2>1, <2>3
    <3>2. j + 1 = i + 1
      BY <2>2, <3>1
    <3> QED BY <1>1, <3>2
  <2> QED BY <2>1, <2>2, <2>3
<1>3. QueuedRead'
  <2> SUFFICES ASSUME NEW r \in Requests, pc[r] = "queued"
               PROVE  \E i \in DOMAIN queue' : queue'[i] = Read(r)
    BY DEF QueuedRead
  <2>1. PICK i \in DOMAIN queue : queue[i] = Read(r)
    BY DEF LockInv, QueuedRead
  <2>2. i # 1
    BY <1>1, <2>1 DEF Read
  <2>3. i - 1 \in DOMAIN queue' /\ queue'[i - 1] = queue[i]
    <3>1. i - 1 \in DOMAIN queue' /\ (i - 1) + 1 = i
      BY <1>1, <2>2
    <3> QED BY <1>1, <3>1
  <2> QED BY <2>1, <2>3
<1> QED BY <1>2, <1>3

(* A call joins the queue.                                                 *)
LEMMA ReaderJoins ==
    ASSUME TypeOK, LockInv, NEW r \in Requests, Wait(r)
    PROVE  ReadsQueued' /\ QueuedRead'
<1>0. Read(r) \in Job /\ Read(r).of = r
  BY Jobs DEF Read
<1>1. /\ DOMAIN queue' = 1 .. Len(queue) + 1 /\ DOMAIN queue = 1 .. Len(queue)
      /\ Len(queue) \in Nat
      /\ \A i \in DOMAIN queue : queue'[i] = queue[i]
      /\ queue'[Len(queue) + 1] = Read(r)
  BY <1>0, QueueAppend DEF TypeOK, Wait
<1>2. pc[r] = "idle" /\ pc'[r] = "queued" /\ \A q \in Requests : q # r => pc'[q] = pc[q]
  BY DEF TypeOK, Wait
<1>3. \A i \in DOMAIN queue : queue[i].of \in Requests /\ queue[i] # Read(r)
  <2> SUFFICES ASSUME NEW i \in DOMAIN queue
               PROVE  queue[i].of \in Requests /\ queue[i] # Read(r)
    OBVIOUS
  <2>1. queue[i] \in Job
    BY QueueElement DEF TypeOK
  <2>2. queue[i] = Read(r) => queue[i].op = "read" /\ queue[i].of = r
    BY <2>1, ReadJob
  <2> QED BY <1>2, <2>1, <2>2, ReadJob DEF LockInv, ReadsQueued
<1>4. ReadsQueued'
  <2> SUFFICES ASSUME NEW i \in DOMAIN queue', queue'[i].op = "read"
               PROVE  /\ pc'[queue'[i].of] = "queued"
                      /\ \A j \in DOMAIN queue' : queue'[j] = queue'[i] => j = i
    BY DEF ReadsQueued
  <2>1. CASE i \in DOMAIN queue
    <3>1. queue'[i] = queue[i] /\ queue[i].op = "read" /\ queue[i] # Read(r)
      BY <1>1, <1>3, <2>1
    <3>2. pc[queue[i].of] = "queued" /\ \A j \in DOMAIN queue : queue[j] = queue[i] => j = i
      BY <2>1, <3>1 DEF LockInv, ReadsQueued
    <3>3. pc'[queue[i].of] = "queued"
      BY <1>2, <1>3, <2>1, <3>2
    <3>4. ASSUME NEW j \in DOMAIN queue', queue'[j] = queue'[i] PROVE j = i
      <4>1. j \in DOMAIN queue
        BY <1>1, <3>1, <3>4
      <4> QED BY <1>1, <3>1, <3>2, <3>4, <4>1
    <3> QED BY <3>1, <3>3, <3>4
  <2>2. CASE i = Len(queue) + 1
    <3>1. queue'[i] = Read(r)
      BY <1>1, <2>2
    <3>2. \A j \in DOMAIN queue' : queue'[j] = Read(r) => j = i
      BY <1>1, <1>3, <2>2
    <3> QED BY <1>0, <1>2, <3>1, <3>2
  <2> QED BY <1>1, <2>1, <2>2
<1>5. QueuedRead'
  <2> SUFFICES ASSUME NEW q \in Requests, pc'[q] = "queued"
               PROVE  \E i \in DOMAIN queue' : queue'[i] = Read(q)
    BY DEF QueuedRead
  <2>1. CASE q = r
    <3>1. Len(queue) + 1 \in DOMAIN queue'
      BY <1>1
    <3> QED BY <1>1, <2>1, <3>1
  <2>2. CASE q # r
    <3>1. PICK i \in DOMAIN queue : queue[i] = Read(q)
      BY <1>2, <2>2 DEF LockInv, QueuedRead
    <3>2. i \in DOMAIN queue' /\ queue'[i] = Read(q)
      BY <1>1, <3>1
    <3> QED BY <3>2
  <2> QED BY <2>1, <2>2
<1> QED BY <1>4, <1>5

(* A call that is granted its guard left the queue, where it was only once.*)
LEMMA ReaderLeaves ==
    ASSUME TypeOK, LockInv, NEW r \in Requests, TakesRead(r),
           pc'[r] # "queued", \A q \in Requests : q # r => pc'[q] = pc[q]
    PROVE  ReadsQueued' /\ QueuedRead'
<1>1. CASE pc[r] = "idle" /\ queue' = queue
  <2>1. \A q \in Requests : pc'[q] = "queued" <=> pc[q] = "queued"
    BY <1>1
  <2> QED BY <1>1, <2>1, SameQueue
<1>2. CASE pc[r] = "queued" /\ queue # <<>> /\ Head(queue) = Read(r) /\ queue' = Tail(queue)
  <2>1. /\ DOMAIN queue = 1 .. Len(queue) /\ DOMAIN queue' = 1 .. Len(queue) - 1
        /\ Len(queue) \in Nat /\ 1 \in DOMAIN queue /\ queue[1] = Read(r)
        /\ \A i \in DOMAIN queue' : queue'[i] = queue[i + 1] /\ i + 1 \in DOMAIN queue
    BY <1>2, QueueTail DEF TypeOK
  <2>2. Read(r).op = "read" /\ \A j \in DOMAIN queue : queue[j] = Read(r) => j = 1
    <3>1. Read(r).op = "read"
      BY DEF Read
    <3> QED BY <2>1, <3>1 DEF LockInv, ReadsQueued
  <2>3. ReadsQueued'
    <3> SUFFICES ASSUME NEW i \in DOMAIN queue', queue'[i].op = "read"
                 PROVE  /\ pc'[queue'[i].of] = "queued"
                        /\ \A j \in DOMAIN queue' : queue'[j] = queue'[i] => j = i
      BY DEF ReadsQueued
    <3>1. /\ i + 1 \in DOMAIN queue /\ queue[i + 1].op = "read" /\ queue'[i] = queue[i + 1]
          /\ queue[i + 1] \in Job /\ queue[i + 1].of \in Requests
      BY <2>1, QueueElement DEF TypeOK
    <3>2. /\ pc[queue[i + 1].of] = "queued"
          /\ \A j \in DOMAIN queue : queue[j] = queue[i + 1] => j = i + 1
      BY <3>1 DEF LockInv, ReadsQueued
    <3>3. queue[i + 1].of # r
      <4>1. i + 1 # 1
        BY <2>1
      <4> QED BY <2>2, <3>1, <4>1, ReadJob
    <3>4. ASSUME NEW j \in DOMAIN queue', queue'[j] = queue'[i] PROVE j = i
      <4>1. j + 1 \in DOMAIN queue /\ queue[j + 1] = queue[i + 1]
        BY <2>1, <3>1, <3>4
      <4>2. j + 1 = i + 1
        BY <3>2, <4>1
      <4> QED BY <2>1, <4>2
    <3> QED BY <3>1, <3>2, <3>3, <3>4
  <2>4. QueuedRead'
    <3> SUFFICES ASSUME NEW q \in Requests, pc'[q] = "queued"
                 PROVE  \E i \in DOMAIN queue' : queue'[i] = Read(q)
      BY DEF QueuedRead
    <3>1. q # r /\ pc[q] = "queued"
      OBVIOUS
    <3>2. PICK i \in DOMAIN queue : queue[i] = Read(q)
      BY <3>1 DEF LockInv, QueuedRead
    <3>3. i # 1
      BY <2>1, <3>1, <3>2 DEF Read
    <3>4. i - 1 \in DOMAIN queue' /\ (i - 1) + 1 = i
      BY <2>1, <3>3
    <3> QED BY <2>1, <3>2, <3>4
  <2> QED BY <2>3, <2>4
<1> QED BY <1>1, <1>2 DEF TakesRead

(* What a guard holder waits for, and which connections came up.           *)
LEMMA OthersUnmoved ==
    ASSUME TypeOK, LockInv, NEW r \in Requests, reading' \subseteq reading \cup {r},
           \A q \in Requests : q # r => pc'[q] = pc[q],
           r \in reading' => pc'[r] \in {"connecting", "handshaking"} \/ Waiting(r)'
    PROVE  GuardsAtNetwork'
  BY DEF TypeOK, LockInv, GuardsAtNetwork, Waiting

LEMMA LockStep == IInv /\ LockInv /\ [Next]_vars => LockInv'
<1> SUFFICES ASSUME IInv, LockInv, [Next]_vars PROVE LockInv'
  OBVIOUS
<1>0. TypeOK /\ TypeOK'
  BY TypeStep DEF IInv
<1>1. ASSUME NEW r \in Requests, Lookup(r) PROVE LockInv'
  <2>1. /\ TakesRead(r) /\ pc'[r] # "queued" /\ h2' = h2
        /\ \A q \in Requests : q # r => pc'[q] = pc[q]
        /\ reading' \subseteq reading \cup {r}
    BY <1>0, <1>1 DEF TypeOK, Lookup, Reuse, Reopen, Open, OpenThrows
  <2>2. ReadsQueued' /\ QueuedRead'
    BY <1>0, <2>1, ReaderLeaves
  <2>3. r \notin reading
    BY <1>0, <2>1, TakesReadEffect DEF LockInv, GuardsAtNetwork, Waiting
  <2>4. r \in reading' => pc'[r] \in {"connecting", "handshaking"} \/ Waiting(r)'
    BY <1>0, <1>1, <2>3 DEF TypeOK, Lookup, Reuse, Reopen, Open, OpenThrows, Waiting
  <2>5. GuardsAtNetwork'
    BY <1>0, <2>1, <2>4, OthersUnmoved
  <2>6. on' = on \/ (on'[r] # r /\ \A q \in Requests : q # r => on'[q] = on[q])
    <3>1. CASE Reuse(r)
      <4>1. h2[r] = "none" /\ h2[pool[Target(r)]] = "live"
        BY <1>0, <3>1, TakesReadEffect DEF IInv, Fresh, Reuse
      <4>2. pool[Target(r)] # r /\ on' = [on EXCEPT ![r] = pool[Target(r)]]
        BY <3>1, <4>1 DEF Reuse
      <4> QED BY <1>0, <4>2 DEF TypeOK
    <3> QED BY <1>1, <3>1 DEF Lookup, Reopen, Open, OpenThrows
  <2>7. CameUp'
    BY <2>1, <2>6 DEF LockInv, CameUp
  <2> QED BY <2>2, <2>5, <2>7 DEF LockInv
<1>2. ASSUME NEW r \in Requests, Wait(r) PROVE LockInv'
  <2>1. ReadsQueued' /\ QueuedRead'
    BY <1>0, <1>2, ReaderJoins
  <2>2. GuardsAtNetwork' /\ CameUp'
    BY <1>0, <1>2 DEF LockInv, GuardsAtNetwork, CameUp, Waiting, Wait, TypeOK
  <2> QED BY <2>1, <2>2 DEF LockInv
<1>3. ASSUME NEW r \in Requests,
             \/ Reject(r) \/ SocketOpens(r) \/ HandshakeFails(r)
             \/ Response(r) \/ RequestFails(r)
      PROVE  LockInv'
  <2>1. /\ queue' = queue /\ on' = on /\ h2' = h2
        /\ \A q \in Requests : q # r => pc'[q] = pc[q]
        /\ pc[r] # "queued" /\ pc'[r] # "queued" /\ reading' \subseteq reading
    BY <1>0, <1>3 DEF TypeOK, Reject, SocketOpens, HandshakeFails, Response, RequestFails, Waiting
  <2>2. r \in reading' => pc'[r] \in {"connecting", "handshaking"}
    BY <1>0, <1>3 DEF TypeOK, LockInv, GuardsAtNetwork, Waiting,
                      Reject, SocketOpens, HandshakeFails, Response, RequestFails
  <2>3. ReadsQueued' /\ QueuedRead'
    BY <1>0, <2>1, SameQueue
  <2>4. GuardsAtNetwork'
    BY <1>0, <2>1, <2>2, OthersUnmoved
  <2>5. CameUp'
    BY <2>1 DEF LockInv, CameUp
  <2> QED BY <2>3, <2>4, <2>5 DEF LockInv
<1>4. ASSUME NEW r \in Requests, Established(r) PROVE LockInv'
  <2>1. /\ reading' = reading /\ on' = [on EXCEPT ![r] = r] /\ h2' = [h2 EXCEPT ![r] = "live"]
        /\ \A q \in Requests : q # r => pc'[q] = pc[q]
        /\ pc[r] # "queued" /\ Waiting(r)'
        /\ queue' \in {queue, Append(queue, Store(r))}
    BY <1>0, <1>4 DEF TypeOK, Established, Waiting
  <2>2. \A q \in Requests : pc'[q] = "queued" <=> pc[q] = "queued"
    BY <2>1 DEF Waiting
  <2>3. Store(r) \in Job /\ Store(r).op # "read"
    BY Jobs DEF Store
  <2>4. ReadsQueued' /\ QueuedRead'
    BY <1>0, <2>1, <2>2, <2>3, SameQueue, WriterJoins
  <2>5. GuardsAtNetwork'
    BY <1>0, <2>1, OthersUnmoved
  <2>6. CameUp'
    BY <1>0, <2>1 DEF TypeOK, LockInv, CameUp
  <2> QED BY <2>4, <2>5, <2>6 DEF LockInv
<1>5. ASSUME NEW c \in Requests, SocketCloses(c) PROVE LockInv'
  <2>1. /\ queue' = Append(queue, Evict(c)) /\ pc' = pc /\ on' = on /\ h2' = h2
        /\ reading' = reading
    BY <1>5 DEF SocketCloses
  <2>2. Evict(c) \in Job /\ Evict(c).op # "read"
    BY Jobs DEF Evict
  <2>3. ReadsQueued' /\ QueuedRead'
    BY <1>0, <2>1, <2>2, WriterJoins
  <2>4. GuardsAtNetwork' /\ CameUp'
    BY <2>1 DEF LockInv, GuardsAtNetwork, CameUp, Waiting
  <2> QED BY <2>3, <2>4 DEF LockInv
<1>6. ASSUME NEW c \in Requests, ConnectionEnds(c) \/ IdleShutdown(c) PROVE LockInv'
  <2>1. /\ queue' = queue /\ pc' = pc /\ on' = on /\ reading' = reading
        /\ h2' = [h2 EXCEPT ![c] = "ended"]
    BY <1>6 DEF ConnectionEnds, IdleShutdown
  <2>2. ReadsQueued' /\ QueuedRead'
    BY <1>0, <2>1, SameQueue
  <2>3. GuardsAtNetwork' /\ CameUp'
    BY <1>0, <2>1 DEF TypeOK, LockInv, GuardsAtNetwork, CameUp, Waiting
  <2> QED BY <2>2, <2>3 DEF LockInv
<1>7. CASE RunStore \/ RunEvict
  <2>1. /\ queue # <<>> /\ Head(queue).op # "read" /\ queue' = Tail(queue)
        /\ UNCHANGED <<reading, pc, on, sock, h2>>
    BY <1>7 DEF RunStore, RunEvict, RunWriter
  <2>2. ReadsQueued' /\ QueuedRead'
    BY <1>0, <2>1, WriterLeaves
  <2>3. GuardsAtNetwork' /\ CameUp'
    BY <2>1 DEF LockInv, GuardsAtNetwork, CameUp, Waiting
  <2> QED BY <2>2, <2>3 DEF LockInv
<1>8. CASE UNCHANGED vars
  BY <1>8 DEF LockInv, ReadsQueued, QueuedRead, CameUp, GuardsAtNetwork, Waiting, vars
<1> QED
  BY <1>1, <1>2, <1>3, <1>4, <1>5, <1>6, <1>7, <1>8, FaultAssumption DEF Next

(* What heads the queue can be granted.                                    *)
LEMMA HeadIsGranted == IInv /\ LockInv => LockMovesOn
<1> SUFFICES ASSUME IInv, LockInv PROVE LockMovesOn
  OBVIOUS
<1>1. ASSUME NEW r \in Requests, queue # <<>>, Head(queue) = Read(r)
      PROVE  /\ pc[r] = "queued" /\ HasServer(Uri[r])
             /\ pool[Target(r)] # None => h2[pool[Target(r)]] # "none"
  <2>1. 1 \in DOMAIN queue /\ queue[1].op = "read" /\ queue[1].of = r
    BY <1>1, QueueTail DEF IInv, TypeOK, Read
  <2>2. pc[r] = "queued" /\ HasServer(Uri[r])
    BY <2>1 DEF IInv, Served, LockInv, ReadsQueued
  <2>3. ASSUME pool[Target(r)] # None PROVE h2[pool[Target(r)]] # "none"
    <3>1. pool[Target(r)] \in Requests /\ on[pool[Target(r)]] = pool[Target(r)]
      BY <2>3, TargetIsAddr DEF IInv, TypeOK, Entries
    <3> QED BY <3>1 DEF LockInv, CameUp
  <2> QED BY <2>2, <2>3
<1> QED BY <1>1 DEF LockInv, QueuedRead, GuardsAtNetwork, LockMovesOn

(* The pool's lock is never held by a call that waits for the lock, by one *)
(* that has returned, or asked for by a call that could not use it.        *)
THEOREM TheLockMovesOn == Spec => []LockMovesOn
<1>1. Init => LockInv
  BY NoneAssumption DEF Init, LockInv, ReadsQueued, QueuedRead, CameUp, GuardsAtNetwork
<1> QED
  BY <1>1, SafeInit, SafeStep, LockStep, HeadIsGranted, PTL DEF Spec

-----------------------------------------------------------------------------
(* What the shared pool key costs: the two schemes meet on one connection  *)
(* only if an https request and another one name the same host and port.   *)
(* Where none do, no https request leaves without TLS.                     *)
THEOREM HttpsIsEncryptedUnlessPortsAreShared ==
    ASSUME \A r, q \in Requests :
               (Target(r) = Target(q) /\ Uri[r].scheme = "https") => Uri[q].scheme = "https"
    PROVE  Spec => []HttpsIsEncrypted
<1>1. IInv => HttpsIsEncrypted
  BY DEF IInv, TypeOK, SentToPeer, HttpsIsEncrypted
<1> QED
  BY <1>1, SafeInit, SafeStep, PTL DEF Spec
=============================================================================
