------------------------------- MODULE Tunnel -------------------------------
(***************************************************************************)
(* One tunnel: the client's WrappedWebSocket                               *)
(* (mantalon-client/src/websocket.rs), the proxy's two relay loops         *)
(* (mantalon-server/src/relay.rs, joined by the select! of handler.rs) and *)
(* the TCP connection to the peer.                                         *)
(*                                                                         *)
(* Bytes are numbered in the order they are written.  The websocket and    *)
(* TCP are external: each delivers in order what was put in, and says when *)
(* it ends.  Every message the browser receives is a Blob whose bytes are  *)
(* read by a task of its own.                                              *)
(***************************************************************************)
EXTENDS Naturals, Sequences, SequencesExt

CONSTANTS
    DownBytes, UpBytes,  \* bounds: what the peer and the client write at most
    MaxChunk,            \* bound: the largest write, read or message
    Window,              \* bound: messages or chunks a sender may have in flight
    BlobsInOrder,        \* the browser resolves Blob reads in the order asked
    MayRefuse,           \* the server may refuse the upgrade
    MayClose,            \* the client may shut the stream down or drop it
    MayReset,            \* the TCP connection may break
    MayBreak             \* the connection under the websocket may break

ASSUME BoundsAssumption == {DownBytes, UpBytes, MaxChunk, Window} \subseteq Nat

VARIABLES
    ws,          \* the websocket's ready_state
    opener,      \* the task in websocket.ready()
    openWaker,   \* WrappedWebSocket::open_waker holds that task
    handlers,    \* the event handlers are set: the wrapper is not dropped
    evicted,     \* on_close was called
    reader,      \* the task that reads the stream
    readWaker,   \* WrappedWebSocket::read_waker holds that task
    blobs,       \* messages whose Blob is being read, as they arrived
    buffer,      \* WrappedWebSocket::buffer
    got,         \* what the reader was given
    upSent,      \* what the client wrote
    wsUp,        \* messages on their way to the proxy
    relay,       \* the proxy's select! over the two loops
    broken,      \* the connection under the websocket broke
    hold,        \* what write_all has left of the current message
    peerGot,     \* what the peer received
    peerSent,    \* what the peer wrote
    peerEnd,     \* how its half of the TCP connection ended
    tcpDown,     \* bytes on their way to the proxy
    wsDown       \* messages on their way to the client

client == <<ws, opener, openWaker, handlers, evicted>>
reading == <<reader, readWaker, blobs, buffer, got>>
up == <<upSent, wsUp, hold, peerGot>>
down == <<peerSent, peerEnd, tcpDown, wsDown>>
link == <<relay, broken>>
vars == <<client, reading, up, link, down>>

Bytes == 1 .. DownBytes + UpBytes   \* wide enough for either direction
Close == <<0>>                 \* a close frame, or the end of the connection
Closed(q) == IF broken THEN q ELSE Append(q, Close)

Least(m, n) == IF m < n THEN m ELSE n
Take(s, n) == SubSeq(s, 1, n)
Rest(s, n) == SubSeq(s, n + 1, Len(s))

(* The next n bytes of a writer that wrote s.                              *)
Fresh(s, n) == [i \in 1 .. n |-> Len(s) + i]

(* What is left of messages on their way when the connection breaks: the   *)
(* first of them, and then its end.                                        *)
Cuts(q) == {Append(Take(q, n), Close) :
               n \in {k \in 0 .. Len(q) : \A i \in 1 .. k : q[i] # Close}}

-----------------------------------------------------------------------------
Init ==
    /\ ws = "connecting" /\ opener = "polling" /\ openWaker = FALSE
    /\ handlers = TRUE /\ evicted = FALSE
    /\ reader = "runnable" /\ readWaker = FALSE
    /\ blobs = <<>> /\ buffer = <<>> /\ got = <<>>
    /\ upSent = <<>> /\ wsUp = <<>> /\ hold = <<>> /\ peerGot = <<>>
    /\ relay = "none" /\ broken = FALSE
    /\ peerSent = <<>> /\ peerEnd = "none" /\ tcpDown = <<>> /\ wsDown = <<>>

-----------------------------------------------------------------------------
(* Opening.                                                                *)

(* The server answers the upgrade; the open event wakes the opener if it   *)
(* left its waker.                                                         *)
WsOpens ==
    /\ ws = "connecting" /\ relay = "none"
    /\ ws' = "open" /\ relay' = "running"
    /\ opener' = IF openWaker THEN "polling" ELSE opener
    /\ UNCHANGED <<openWaker, handlers, evicted, reading, up, down, broken>>

(* It refuses: a close event, without an open event.                       *)
WsRefused ==
    /\ MayRefuse
    /\ ws = "connecting" /\ relay = "none"
    /\ ws' = "closed" /\ relay' = "ended" /\ evicted' = TRUE
    /\ UNCHANGED <<opener, openWaker, handlers, reading, up, down, broken>>

(* Variant of PollReady: Pending, and no waker left.                       *)
PollReadyWithoutWaker ==
    /\ opener = "polling"
    /\ opener' = IF ws # "connecting" THEN "ready" ELSE "parked"
    /\ UNCHANGED <<ws, openWaker, handlers, evicted, reading, up, link, down>>

(* WebsocketReadyFut::poll.                                                *)
PollReady ==
    /\ opener = "polling"
    /\ IF ws # "connecting"
       THEN opener' = "ready" /\ UNCHANGED openWaker
       ELSE opener' = "parked" /\ openWaker' = TRUE
    /\ UNCHANGED <<ws, handlers, evicted, reading, up, link, down>>

-----------------------------------------------------------------------------
(* From the client to the peer.                                            *)

(* The connection between client and proxy ends without a close frame.     *)
(* Each side has what came before that, and is told.                       *)
WsBreaks ==
    /\ MayBreak
    /\ ~broken /\ ws \in {"open", "closing"}
    /\ broken' = TRUE
    /\ wsUp' \in Cuts(wsUp) /\ wsDown' \in Cuts(wsDown)
    /\ UNCHANGED <<client, reading, upSent, hold, peerGot, relay, peerSent, peerEnd, tcpDown>>

(* poll_write: one call, one message.  send() on a websocket that is       *)
(* closing or closed drops the bytes and reports success.                  *)
PollWrite(n) ==
    /\ opener = "ready" /\ handlers
    /\ Len(upSent) + n <= UpBytes /\ Len(wsUp) < Window
    /\ upSent' = upSent \o Fresh(upSent, n)
    /\ wsUp' = IF ws = "open" /\ ~broken THEN Append(wsUp, Fresh(upSent, n)) ELSE wsUp
    /\ UNCHANGED <<client, reading, hold, peerGot, link, down>>

(* poll_shutdown: close() sends a close frame behind the messages.         *)
PollShutdown ==
    /\ MayClose
    /\ opener = "ready" /\ handlers /\ ws = "open"
    /\ ws' = "closing" /\ wsUp' = Closed(wsUp)
    /\ UNCHANGED <<opener, openWaker, handlers, evicted, reading, upSent, hold, peerGot, link, down>>

(* Drop: no event is heard any more, and the websocket is closed.          *)
DropStream ==
    /\ MayClose
    /\ opener = "ready" /\ handlers
    /\ handlers' = FALSE
    /\ IF ws = "open" THEN ws' = "closing" /\ wsUp' = Closed(wsUp)
                      ELSE UNCHANGED <<ws, wsUp>>
    /\ UNCHANGED <<opener, openWaker, evicted, reading, upSent, hold, peerGot, link, down>>

(* Variant of RelayReceive: one loop serves both ways in turn, and waits   *)
(* for the peer before it takes a message.                                 *)
RelayReceiveInTurn ==
    /\ relay = "running" /\ hold = <<>> /\ wsUp # <<>> /\ tcpDown # <<>>
    /\ wsUp' = Tail(wsUp)
    /\ IF Head(wsUp) = Close
       THEN /\ relay' = "ended" /\ wsDown' = Closed(wsDown)
            /\ UNCHANGED hold
       ELSE hold' = Head(wsUp) /\ UNCHANGED <<relay, wsDown>>
    /\ UNCHANGED <<client, reading, upSent, peerGot, peerSent, peerEnd, tcpDown, broken>>

(* relay_websocket_to_transport takes the next message, or breaks: on a    *)
(* close frame (Closed) and on the end of a broken connection (any other   *)
(* error) alike.                                                           *)
RelayReceive ==
    /\ relay = "running" /\ hold = <<>> /\ wsUp # <<>>
    /\ wsUp' = Tail(wsUp)
    /\ IF Head(wsUp) = Close
       THEN /\ relay' = "ended" /\ wsDown' = Closed(wsDown)
            /\ UNCHANGED hold
       ELSE hold' = Head(wsUp) /\ UNCHANGED <<relay, wsDown>>
    /\ UNCHANGED <<client, reading, upSent, peerGot, peerSent, peerEnd, tcpDown, broken>>

(* Variant of RelayWrite: after a short write the message is tried again   *)
(* from its start.                                                         *)
RelayWriteAgain(n) ==
    /\ relay = "running" /\ n <= Len(hold)
    /\ hold' = IF n = Len(hold) THEN <<>> ELSE hold
    /\ peerGot' = peerGot \o Take(hold, n)
    /\ UNCHANGED <<client, reading, upSent, wsUp, link, down>>

(* write_all puts some more of the message in the TCP connection.          *)
RelayWrite(n) ==
    /\ relay = "running" /\ n <= Len(hold)
    /\ hold' = Rest(hold, n)
    /\ peerGot' = peerGot \o Take(hold, n)
    /\ UNCHANGED <<client, reading, upSent, wsUp, link, down>>

(* write_all fails on a broken connection, and the unwrap ends the task.   *)
RelayWriteFails ==
    /\ relay = "running" /\ hold # <<>> /\ peerEnd = "reset"
    /\ relay' = "ended" /\ wsDown' = Closed(wsDown)
    /\ UNCHANGED <<client, reading, up, peerSent, peerEnd, tcpDown, broken>>

-----------------------------------------------------------------------------
(* From the peer to the client.                                            *)

PeerWrites(n) ==
    /\ relay = "running" /\ peerEnd = "none"
    /\ Len(peerSent) + n <= DownBytes
    /\ peerSent' = peerSent \o Fresh(peerSent, n)
    /\ tcpDown' = tcpDown \o Fresh(peerSent, n)
    /\ UNCHANGED <<client, reading, up, link, peerEnd, wsDown>>

PeerFinishes ==
    /\ relay = "running" /\ peerEnd = "none"
    /\ peerEnd' = "fin"
    /\ UNCHANGED <<client, reading, up, link, peerSent, tcpDown, wsDown>>

TcpBreaks ==
    /\ MayReset
    /\ relay = "running" /\ peerEnd = "none"
    /\ peerEnd' = "reset" /\ tcpDown' = <<>>
    /\ UNCHANGED <<client, reading, up, link, peerSent, wsDown>>

(* Variant of RelayRead: the whole buffer is sent, not its first n bytes.  *)
RelayReadWholeBuffer(n) ==
    /\ relay = "running" /\ n <= Len(tcpDown) /\ Len(wsDown) < Window
    /\ tcpDown' = Rest(tcpDown, n)
    /\ wsDown' = Append(wsDown, Take(tcpDown, n) \o <<0>>)
    /\ UNCHANGED <<client, reading, up, link, peerSent, peerEnd>>

(* relay_transport_to_websocket: one read, one message, sent and flushed.  *)
(* On a connection that broke it may still seem to be sent.                *)
RelayRead(n) ==
    /\ relay = "running" /\ n <= Len(tcpDown) /\ Len(wsDown) < Window
    /\ tcpDown' = Rest(tcpDown, n)
    /\ wsDown' = IF broken THEN wsDown ELSE Append(wsDown, Take(tcpDown, n))
    /\ UNCHANGED <<client, reading, up, link, peerSent, peerEnd>>

(* Or send_binary or flush fails: the unwrap ends the task, and with it    *)
(* the other loop and what that one holds.                                 *)
RelaySendFails ==
    /\ relay = "running" /\ broken /\ tcpDown # <<>>
    /\ relay' = "ended"
    /\ UNCHANGED <<client, reading, up, down, broken>>

(* Variant of RelayEnds: the loop leaves as soon as the peer is done.      *)
RelayEndsEarly ==
    /\ relay = "running" /\ peerEnd # "none"
    /\ relay' = "ended" /\ wsDown' = Closed(wsDown)
    /\ UNCHANGED <<client, reading, up, peerSent, peerEnd, tcpDown, broken>>

(* A read of 0 bytes, or an error: the loop breaks, select! drops the      *)
(* other loop with what it holds, and both connections close.              *)
RelayEnds ==
    /\ relay = "running" /\ tcpDown = <<>> /\ peerEnd # "none"
    /\ relay' = "ended" /\ wsDown' = Closed(wsDown)
    /\ UNCHANGED <<client, reading, up, peerSent, peerEnd, tcpDown, broken>>

(* Variant of OnMessage: no task, and no read, for a message that comes    *)
(* while another one is being read.                                        *)
OnMessageSingleRead ==
    /\ ws # "connecting" /\ wsDown # <<>> /\ Head(wsDown) # Close
    /\ wsDown' = Tail(wsDown)
    /\ blobs' = IF handlers /\ ws = "open" /\ blobs = <<>>
                THEN Append(blobs, Head(wsDown)) ELSE blobs
    /\ UNCHANGED <<client, reader, readWaker, buffer, got, up, link, peerSent, peerEnd, tcpDown>>

(* The message event spawns the read of the Blob.  A closing websocket and *)
(* one without handlers drop the message.                                  *)
OnMessage ==
    /\ ws # "connecting" /\ wsDown # <<>> /\ Head(wsDown) # Close
    /\ wsDown' = Tail(wsDown)
    /\ blobs' = IF handlers /\ ws = "open" THEN Append(blobs, Head(wsDown)) ELSE blobs
    /\ UNCHANGED <<client, reader, readWaker, buffer, got, up, link, peerSent, peerEnd, tcpDown>>

(* Variant of OnClose: on_close is installed once ready() returned.        *)
OnCloseOnceReady ==
    /\ wsDown # <<>> /\ Head(wsDown) = Close
    /\ wsDown' = Tail(wsDown)
    /\ ws' = "closed" /\ evicted' = (evicted \/ (handlers /\ opener = "ready"))
    /\ UNCHANGED <<opener, openWaker, handlers, reading, up, link, peerSent, peerEnd, tcpDown>>

(* Variant of OnClose: only an orderly close calls on_close.               *)
OnCloseOrderly ==
    /\ wsDown # <<>> /\ Head(wsDown) = Close
    /\ wsDown' = Tail(wsDown)
    /\ ws' = "closed" /\ evicted' = (evicted \/ (handlers /\ ~broken))
    /\ UNCHANGED <<opener, openWaker, handlers, reading, up, link, peerSent, peerEnd, tcpDown>>

(* The close event comes after every message.                              *)
OnClose ==
    /\ wsDown # <<>> /\ Head(wsDown) = Close
    /\ wsDown' = Tail(wsDown)
    /\ ws' = "closed" /\ evicted' = (evicted \/ handlers)
    /\ UNCHANGED <<opener, openWaker, handlers, reading, up, link, peerSent, peerEnd, tcpDown>>

(* Variant of BlobRead: the bytes are there, and nobody is told.           *)
BlobReadWithoutWake(i) ==
    /\ i \in DOMAIN blobs
    /\ BlobsInOrder => i = 1
    /\ blobs' = RemoveAt(blobs, i)
    /\ buffer' = buffer \o blobs[i]
    /\ UNCHANGED <<client, reader, readWaker, got, up, link, down>>

(* The bytes of one Blob are there: append them and wake the reader.       *)
BlobRead(i) ==
    /\ i \in DOMAIN blobs
    /\ BlobsInOrder => i = 1
    /\ blobs' = RemoveAt(blobs, i)
    /\ buffer' = buffer \o blobs[i]
    /\ reader' = IF readWaker THEN "runnable" ELSE reader
    /\ UNCHANGED <<client, readWaker, got, up, link, down>>

(* poll_read with room for n bytes: leave the waker, take what there is,   *)
(* Pending when there is nothing.  It never reports an end.                *)
PollRead(n) ==
    LET m == Least(n, Len(buffer)) IN
    /\ opener = "ready" /\ handlers /\ reader = "runnable"
    /\ readWaker' = TRUE
    /\ got' = got \o Take(buffer, m)
    /\ buffer' = Rest(buffer, m)
    /\ reader' = IF m = 0 THEN "parked" ELSE "runnable"
    /\ UNCHANGED <<client, blobs, up, link, down>>

-----------------------------------------------------------------------------
Opening == WsOpens \/ WsRefused \/ PollReady \/ WsBreaks

Upward == \/ \E n \in 1 .. MaxChunk : PollWrite(n) \/ RelayWrite(n)
          \/ PollShutdown \/ DropStream \/ RelayReceive \/ RelayWriteFails

Downward == \/ \E n \in 1 .. MaxChunk : PeerWrites(n) \/ RelayRead(n) \/ PollRead(n)
            \/ PeerFinishes \/ TcpBreaks \/ RelayEnds \/ RelaySendFails
            \/ OnMessage \/ OnClose
            \/ \E i \in DOMAIN blobs : BlobRead(i)

Next == Opening \/ Upward \/ Downward

Spec == Init /\ [][Next]_vars

(* The browser, the proxy and the tasks that may run do run, a peer takes  *)
(* what it is sent, and both sides are told of a connection that broke.    *)
(* Nobody has to write, close, finish or break.                            *)
Fairness ==
    /\ WF_vars(PollReady) /\ WF_vars(WsOpens)
    /\ WF_vars(RelayReceive) /\ WF_vars(\E n \in 1 .. MaxChunk : RelayWrite(n))
    /\ WF_vars(RelayWriteFails)
    /\ WF_vars(\E n \in 1 .. MaxChunk : RelayRead(n)) /\ WF_vars(RelayEnds)
    /\ WF_vars(OnMessage) /\ WF_vars(OnClose) /\ WF_vars(BlobRead(1))
    /\ WF_vars(\E n \in 1 .. MaxChunk : PollRead(n))

FairSpec == Spec /\ Fairness

-----------------------------------------------------------------------------
(* Every variable keeps its type.                                          *)
TypeOK ==
    /\ ws \in {"connecting", "open", "closing", "closed"}
    /\ opener \in {"polling", "parked", "ready"}
    /\ reader \in {"runnable", "parked"}
    /\ {openWaker, handlers, evicted, readWaker, broken} \subseteq BOOLEAN
    /\ {buffer, got, upSent, hold, peerGot, peerSent, tcpDown} \subseteq Seq(Bytes)
    /\ blobs \in Seq(Seq(Bytes)) /\ {wsUp, wsDown} \subseteq Seq(Seq(Bytes) \cup {Close})
    /\ relay \in {"none", "running", "ended"}
    /\ peerEnd \in {"none", "fin", "reset"}

(* What the tunnel promises each way: what comes out is a prefix of what   *)
(* was put in, whatever closes, breaks or is dropped.                      *)
UpStream == INSTANCE ByteStream WITH
    Byte <- Bytes, MaxSent <- UpBytes, sent <- upSent, got <- peerGot
DownStream == INSTANCE ByteStream WITH
    Byte <- Bytes, MaxSent <- DownBytes, sent <- peerSent, got <- got

(* The proxy hands the peer the client's bytes in order, without a gap.    *)
UpIsStream == UpStream!Spec

(* The client is given the peer's bytes in order, without a gap.           *)
DownIsStream == DownStream!Spec

(* A peer that finishes in order loses nothing: when the relay ended on    *)
(* the peer's end of stream, the client did not close and the connection   *)
(* between them did not break, all the peer wrote is with the client or on *)
(* the websocket, in order and once.                                       *)
InFlight ==
    FlattenSeq(blobs) \o FlattenSeq([i \in DOMAIN wsDown |-> IF wsDown[i] = Close THEN <<>> ELSE wsDown[i]])
EndLosesNothing ==
    (relay = "ended" /\ peerEnd = "fin" /\ ws = "open" /\ ~broken)
        => (tcpDown = <<>> /\ got \o buffer \o InFlight = peerSent)

(* Who parks is woken: the opener has left its waker and its websocket has *)
(* not opened; the reader has left its waker and no byte waits for it.     *)
SleepersAreWoken ==
    /\ opener = "parked" => openWaker /\ ws \in {"connecting", "closed"}
    /\ reader = "parked" => readWaker /\ buffer = <<>>

(* An end of the relay, or of the connection to it, is on its way to the   *)
(* client until on_close was called for it or the stream dropped, and it   *)
(* comes once, behind every message.                                       *)
EndIsAnnounced ==
    /\ (relay = "ended" \/ broken) =>
          evicted \/ ~handlers \/ \E i \in DOMAIN wsDown : wsDown[i] = Close
    /\ \A i \in DOMAIN wsDown : wsDown[i] = Close =>
          (relay = "ended" \/ broken) /\ i = Len(wsDown)

(* The client waits for no event that has passed: not for the open event,  *)
(* nor for the bytes of a message, nor for the close.  That an opener gets *)
(* no event at all when its websocket closes is not excluded: that is what *)
(* the code does.                                                          *)
NoEventIsMissed == SleepersAreWoken /\ EndIsAnnounced

(* A reader that parks is woken for every byte: all the peer wrote reaches *)
(* it, also after the peer finished, unless the client closed or one of    *)
(* the two connections broke.                                              *)
AllIsRead == \A n \in 1 .. DownBytes :
    (Len(peerSent) >= n /\ ws = "open" /\ handlers) ~>
        (Len(got) >= n \/ ws = "closing" \/ ~handlers \/ peerEnd = "reset" \/ broken)

(* What the client wrote reaches the peer, unless a side ended first: the  *)
(* loops do not wait for each other.                                       *)
AllIsWritten == \A n \in 1 .. UpBytes :
    (Len(upSent) >= n) ~> (Len(peerGot) >= n \/ relay = "ended")

(* An end of the relay, or of the connection to it, reaches the client as  *)
(* a call of on_close, which removes the pool's entry, unless the stream   *)
(* was dropped.                                                            *)
EndIsNoticed == (relay = "ended" \/ broken) ~> (evicted \/ ~handlers)
=============================================================================
