---------------------------- MODULE TunnelProofs ----------------------------
(* Proofs about Tunnel, for any number of bytes and sizes of messages.     *)
EXTENDS Tunnel, Facts

-----------------------------------------------------------------------------
(* TypeOK.                                                                 *)

Msg == Seq(Bytes) \cup {Close}

(* Fresh bytes are bytes, also behind those written before.                *)
LEMMA FreshType ==
    ASSUME NEW s \in Seq(Bytes), NEW n \in Nat, Len(s) + n \in 0 .. DownBytes + UpBytes
    PROVE  Fresh(s, n) \in Seq(Bytes) /\ Len(Fresh(s, n)) = n /\ s \o Fresh(s, n) \in Seq(Bytes)
<1>1. DownBytes + UpBytes \in Nat
  BY BoundsAssumption
<1>2. \A i \in 1 .. n : Len(s) + i \in Bytes
  BY <1>1 DEF Bytes
<1>3. Fresh(s, n) \in [1 .. n -> Bytes]
  BY <1>2 DEF Fresh
<1> QED BY <1>3, ConcatProperties

(* Parts of a sequence of bytes.                                           *)
LEMMA PartsType ==
    ASSUME NEW S, NEW s \in Seq(S), NEW n \in 0 .. Len(s)
    PROVE  /\ Take(s, n) \in Seq(S) /\ Len(Take(s, n)) = n
           /\ Rest(s, n) \in Seq(S) /\ Len(Rest(s, n)) = Len(s) - n
<1>1. Len(s) \in Nat OBVIOUS
<1> QED BY <1>1 DEF Take, Rest

(* A close frame may be put behind messages.                               *)
LEMMA CloseType == ASSUME NEW s \in Seq(Msg) PROVE Append(s, Close) \in Seq(Msg)
<1>1. Close \in Msg
  BY DEF Msg
<1> QED BY <1>1, AppendProperties

(* What is left of messages is messages and an end.                        *)
LEMMA CutsType == ASSUME NEW s \in Seq(Msg) PROVE Cuts(s) \subseteq Seq(Msg)
<1> SUFFICES ASSUME NEW n \in 0 .. Len(s) PROVE Append(Take(s, n), Close) \in Seq(Msg)
  BY DEF Cuts
<1>1. Take(s, n) \in Seq(Msg)
  BY PartsType
<1> QED BY <1>1, CloseType

(* Every step keeps the types.                                             *)
LEMMA TypeNext == TypeOK /\ [Next]_vars => TypeOK'
<1> SUFFICES ASSUME TypeOK, [Next]_vars PROVE TypeOK'
  OBVIOUS
<1>0. /\ {DownBytes, UpBytes, MaxChunk, Window} \subseteq Nat
      /\ \A m \in Msg : m # Close => m \in Seq(Bytes)
      /\ wsUp \in Seq(Msg) /\ wsDown \in Seq(Msg) /\ Seq(Bytes) \subseteq Msg
  BY BoundsAssumption DEF Msg, TypeOK
<1>1. CASE Opening
  <2>1. CASE WsBreaks
    <3>1. wsUp' \in Seq(Msg) /\ wsDown' \in Seq(Msg)
      BY <1>0, <2>1, CutsType DEF WsBreaks
    <3> QED BY <2>1, <3>1 DEF TypeOK, WsBreaks, client, reading, Msg
  <2> QED BY <1>1, <2>1 DEF TypeOK, Opening, WsOpens, WsRefused, PollReady, reading, up, down, link
<1>2. ASSUME NEW n \in 1 .. MaxChunk, PollWrite(n) PROVE TypeOK'
  <2>1. n \in Nat /\ Len(upSent) + n \in 0 .. DownBytes + UpBytes /\ upSent \in Seq(Bytes)
    <3>1. upSent \in Seq(Bytes)
      BY DEF TypeOK
    <3>2. Len(upSent) \in Nat /\ Len(upSent) + n <= UpBytes
      BY <1>2, <3>1, LenProperties DEF PollWrite
    <3> QED BY <1>0, <3>1, <3>2
  <2>2. upSent' \in Seq(Bytes) /\ Fresh(upSent, n) \in Seq(Bytes)
    BY <1>2, <2>1, FreshType DEF PollWrite
  <2>3. wsUp' \in Seq(Msg)
    BY <1>0, <1>2, <2>2, AppendProperties DEF PollWrite
  <2> QED BY <1>2, <2>2, <2>3 DEF TypeOK, PollWrite, client, reading, down, link, Msg
<1>3. ASSUME NEW n \in 1 .. MaxChunk, RelayWrite(n) PROVE TypeOK'
  <2>1. n \in 0 .. Len(hold) /\ hold \in Seq(Bytes) /\ peerGot \in Seq(Bytes)
    BY <1>0, <1>3 DEF RelayWrite, TypeOK
  <2>2. Take(hold, n) \in Seq(Bytes) /\ Rest(hold, n) \in Seq(Bytes)
    BY <2>1, PartsType
  <2>3. hold' \in Seq(Bytes) /\ peerGot' \in Seq(Bytes)
    BY <1>3, <2>1, <2>2, ConcatProperties DEF RelayWrite
  <2> QED BY <1>3, <2>3 DEF TypeOK, RelayWrite, client, reading, down, link
<1>4. CASE PollShutdown \/ DropStream
  <2>1. wsUp' \in Seq(Msg)
    <3>1. wsUp' \in {wsUp, Append(wsUp, Close)}
      BY <1>4 DEF PollShutdown, DropStream, Closed
    <3> QED BY <1>0, <3>1, CloseType
  <2> QED BY <1>4, <2>1 DEF TypeOK, PollShutdown, DropStream, reading, down, link, Msg
<1>5. CASE RelayReceive
  <2>1. Head(wsUp) \in Msg /\ wsUp' \in Seq(Msg)
    BY <1>0, <1>5, HeadTailProperties DEF RelayReceive
  <2>2. hold' \in Seq(Bytes) /\ wsDown' \in Seq(Msg) /\ relay' \in {relay, "ended"}
    <3>1. /\ wsDown' \in {wsDown, Append(wsDown, Close)} /\ relay' \in {relay, "ended"}
          /\ hold' = hold \/ (Head(wsUp) # Close /\ hold' = Head(wsUp))
      BY <1>5 DEF RelayReceive, Closed
    <3>2. hold' \in Seq(Bytes)
      BY <1>0, <2>1, <3>1 DEF TypeOK
    <3> QED BY <1>0, <3>1, <3>2, CloseType
  <2> QED BY <1>5, <2>1, <2>2 DEF TypeOK, RelayReceive, client, reading, Msg
<1>6. CASE RelayWriteFails \/ RelayEnds \/ RelaySendFails
  <2>1. wsDown' \in Seq(Msg)
    <3>1. wsDown' \in {wsDown, Append(wsDown, Close)}
      BY <1>6 DEF RelayWriteFails, RelayEnds, RelaySendFails, Closed, down
    <3> QED BY <1>0, <3>1, CloseType
  <2> QED BY <1>6, <2>1 DEF TypeOK, RelayWriteFails, RelayEnds, RelaySendFails, client, reading, up, down, Msg
<1>7. ASSUME NEW n \in 1 .. MaxChunk, PeerWrites(n) PROVE TypeOK'
  <2>1. /\ n \in Nat /\ Len(peerSent) + n \in 0 .. DownBytes + UpBytes
        /\ peerSent \in Seq(Bytes) /\ tcpDown \in Seq(Bytes)
    <3>1. peerSent \in Seq(Bytes) /\ tcpDown \in Seq(Bytes)
      BY DEF TypeOK
    <3>2. Len(peerSent) \in Nat /\ Len(peerSent) + n <= DownBytes
      BY <1>7, <3>1, LenProperties DEF PeerWrites
    <3> QED BY <1>0, <3>1, <3>2
  <2>2. peerSent' \in Seq(Bytes) /\ tcpDown' \in Seq(Bytes)
    BY <1>7, <2>1, FreshType, ConcatProperties DEF PeerWrites
  <2> QED BY <1>7, <2>2 DEF TypeOK, PeerWrites, client, reading, up, link
<1>8. ASSUME NEW n \in 1 .. MaxChunk, RelayRead(n) PROVE TypeOK'
  <2>1. n \in 0 .. Len(tcpDown) /\ tcpDown \in Seq(Bytes)
    BY <1>0, <1>8 DEF RelayRead, TypeOK
  <2>2. Take(tcpDown, n) \in Seq(Bytes) /\ Rest(tcpDown, n) \in Seq(Bytes)
    BY <2>1, PartsType
  <2>3. tcpDown' \in Seq(Bytes) /\ wsDown' \in Seq(Msg)
    BY <1>0, <1>8, <2>2, AppendProperties DEF RelayRead
  <2> QED BY <1>8, <2>3 DEF TypeOK, RelayRead, client, reading, up, link, Msg
<1>9. ASSUME NEW n \in 1 .. MaxChunk, PollRead(n) PROVE TypeOK'
  <2> DEFINE m == Least(n, Len(buffer))
  <2>1. m \in 0 .. Len(buffer) /\ buffer \in Seq(Bytes) /\ got \in Seq(Bytes)
    BY <1>0 DEF Least, TypeOK
  <2> HIDE DEF m
  <2>2. Take(buffer, m) \in Seq(Bytes) /\ Rest(buffer, m) \in Seq(Bytes)
    BY <2>1, PartsType
  <2>3. /\ got' = got \o Take(buffer, m) /\ buffer' = Rest(buffer, m) /\ readWaker' = TRUE
        /\ reader' \in {"runnable", "parked"} /\ UNCHANGED <<client, blobs, up, link, down>>
    BY <1>9 DEF PollRead, m
  <2>4. got' \in Seq(Bytes) /\ buffer' \in Seq(Bytes)
    BY <2>1, <2>2, <2>3, ConcatProperties
  <2> QED BY <2>3, <2>4 DEF TypeOK, client, up, down, link
<1>10. CASE PeerFinishes \/ TcpBreaks
  <2>1. /\ tcpDown' \in {tcpDown, <<>>} /\ peerEnd' \in {"fin", "reset"}
        /\ UNCHANGED <<client, reading, up, link, peerSent, wsDown>>
    BY <1>10 DEF PeerFinishes, TcpBreaks
  <2>2. tcpDown' \in Seq(Bytes)
    BY <2>1, EmptySeq DEF TypeOK
  <2> QED BY <2>1, <2>2 DEF TypeOK, client, reading, up, link
<1>11. CASE OnMessage
  <2>1. Head(wsDown) \in Seq(Bytes) /\ wsDown' \in Seq(Msg)
    BY <1>0, <1>11, HeadTailProperties DEF OnMessage
  <2>2. blobs' \in Seq(Seq(Bytes))
    BY <1>11, <2>1, AppendProperties DEF OnMessage, TypeOK
  <2> QED BY <1>11, <2>1, <2>2 DEF TypeOK, OnMessage, client, up, link, Msg
<1>12. CASE OnClose
  <2>1. wsDown' \in Seq(Msg)
    BY <1>0, <1>12, HeadTailProperties DEF OnClose
  <2> QED BY <1>12, <2>1 DEF TypeOK, OnClose, reading, up, link, Msg
<1>13. ASSUME NEW i \in DOMAIN blobs, BlobRead(i) PROVE TypeOK'
  <2>1. blobs[i] \in Seq(Bytes) /\ blobs' \in Seq(Seq(Bytes))
    <3>1. blobs \in Seq(Seq(Bytes)) /\ i \in 1 .. Len(blobs) /\ blobs' = RemoveAt(blobs, i)
      BY <1>13 DEF BlobRead, TypeOK
    <3> QED BY <3>1, RemoveAtType
  <2>2. buffer' \in Seq(Bytes)
    BY <1>13, <2>1, ConcatProperties DEF BlobRead, TypeOK
  <2> QED BY <1>13, <2>1, <2>2 DEF TypeOK, BlobRead, client, up, down, link
<1>14. CASE UNCHANGED vars
  BY <1>14 DEF TypeOK, vars, client, reading, up, down, link
<1> QED
  BY <1>1, <1>2, <1>3, <1>4, <1>5, <1>6, <1>7, <1>8, <1>9, <1>10, <1>11, <1>12, <1>13, <1>14
  DEF Next, Upward, Downward

(* Every variable of the tunnel keeps its type, for any bounds.            *)
THEOREM TunnelTypeCorrect == Spec => []TypeOK
<1>1. Init => TypeOK
  BY EmptySeq DEF Init, TypeOK
<1> QED BY <1>1, TypeNext, PTL DEF Spec

-----------------------------------------------------------------------------
(* Bytes that follow each other.  Run(a, b) is what was written from the   *)
(* byte after a up to byte b; a chain is a queue of such messages, each of *)
(* which starts where the one before it ends, with close frames anywhere.  *)

Run(a, b) == [k \in 1 .. b - a |-> a + k]
Part(m, a, b) == IF m = Close THEN b = a ELSE a < b /\ m = Run(a, b)
Chain(s, a, b) ==
    \E c \in [0 .. Len(s) -> 0 .. b] :
        c[0] = a /\ c[Len(s)] = b /\ \A i \in 1 .. Len(s) : Part(s[i], c[i - 1], c[i])

(* A run is a sequence of bytes as long as its marks are apart.            *)
LEMMA RunType ==
    ASSUME NEW a \in Nat, NEW b \in Nat, a =< b
    PROVE  /\ Run(a, b) \in Seq(Nat) /\ Len(Run(a, b)) = b - a
           /\ \A k \in 1 .. b - a : Run(a, b)[k] = a + k
  BY DEF Run

(* No byte is between a mark and itself.                                   *)
LEMMA RunEmpty == ASSUME NEW a \in Nat PROVE Run(a, a) = <<>>
  BY RunType, EmptySeq

(* A sequence of naturals that counts on from a is a run.                  *)
LEMMA IsRun ==
    ASSUME NEW a \in Nat, NEW b \in Nat, a =< b,
           NEW s \in Seq(Nat), Len(s) = b - a, \A k \in 1 .. b - a : s[k] = a + k
    PROVE  s = Run(a, b)
<1>1. /\ Run(a, b) \in Seq(Nat) /\ Len(Run(a, b)) = b - a
      /\ \A k \in 1 .. b - a : Run(a, b)[k] = a + k
  BY RunType
<1> QED BY <1>1, SeqEqual

(* Runs that meet are one run.                                             *)
LEMMA RunConcat ==
    ASSUME NEW a \in Nat, NEW b \in Nat, NEW c \in Nat, a =< b, b =< c
    PROVE  Run(a, b) \o Run(b, c) = Run(a, c)
<1> DEFINE s == Run(a, b)
           t == Run(b, c)
<1>1. /\ s \in Seq(Nat) /\ Len(s) = b - a /\ \A k \in 1 .. b - a : s[k] = a + k
      /\ t \in Seq(Nat) /\ Len(t) = c - b /\ \A k \in 1 .. c - b : t[k] = b + k
  BY RunType
<1> HIDE DEF s, t
<1>2. /\ s \o t \in Seq(Nat) /\ Len(s \o t) = c - a
      /\ \A k \in 1 .. c - a : (s \o t)[k] = a + k
  BY <1>1, ConcatProperties
<1>3. a =< c
  OBVIOUS
<1>4. s \o t = Run(a, c)
  BY <1>2, <1>3, IsRun
<1> QED BY <1>4 DEF s, t

(* A run is cut where a partial write, or a short read, cuts it.           *)
LEMMA RunSplit ==
    ASSUME NEW a \in Nat, NEW b \in Nat, a =< b, NEW n \in 0 .. b - a
    PROVE  Take(Run(a, b), n) = Run(a, a + n) /\ Rest(Run(a, b), n) = Run(a + n, b)
<1> DEFINE s == Run(a, b)
<1>1. s \in Seq(Nat) /\ Len(s) = b - a /\ \A k \in 1 .. b - a : s[k] = a + k
  BY RunType
<1> HIDE DEF s
<1>2. /\ Take(s, n) \in Seq(Nat) /\ Len(Take(s, n)) = (a + n) - a
      /\ \A k \in 1 .. (a + n) - a : Take(s, n)[k] = a + k
  BY <1>1 DEF Take
<1>3. /\ Rest(s, n) \in Seq(Nat) /\ Len(Rest(s, n)) = b - (a + n)
      /\ \A k \in 1 .. b - (a + n) : Rest(s, n)[k] = (a + n) + k
  BY <1>1 DEF Rest
<1>4. a + n \in Nat /\ a =< a + n /\ a + n =< b
  OBVIOUS
<1> QED BY <1>2, <1>3, <1>4, IsRun DEF s

(* No data message is taken for a close frame, and none is empty.          *)
LEMMA RunIsData ==
    ASSUME NEW a \in Nat, NEW b \in Nat, a < b
    PROVE  Run(a, b) # Close /\ Run(a, b) # <<>>
<1>1. Run(a, b)[1] = a + 1 /\ Len(Run(a, b)) # 0
  BY RunType
<1>2. Close[1] = 0 /\ a + 1 # 0
  BY DEF Close
<1> QED BY <1>1, <1>2

(* The bytes that are written next are the run behind those before.        *)
LEMMA FreshIsRun ==
    ASSUME NEW a \in Nat, NEW n \in Nat
    PROVE  Fresh(Run(0, a), n) = Run(a, a + n)
<1>1. Len(Run(0, a)) = a /\ (a + n) - a = n
  BY RunType
<1> QED BY <1>1 DEF Fresh, Run

(* What a writer writes continues the run of what it wrote.                *)
LEMMA WriterRuns ==
    ASSUME NEW a \in Nat, NEW n \in Nat
    PROVE  Run(0, a) \o Fresh(Run(0, a), n) = Run(0, a + n)
<1>1. 0 =< a /\ a =< a + n /\ a + n \in Nat /\ 0 \in Nat
  OBVIOUS
<1>2. Fresh(Run(0, a), n) = Run(a, a + n)
  BY FreshIsRun
<1>3. Run(0, a) \o Run(a, a + n) = Run(0, a + n)
  BY <1>1, RunConcat
<1> QED BY <1>2, <1>3

-----------------------------------------------------------------------------
(* Chains.                                                                 *)

(* No message stands for no bytes.                                         *)
LEMMA ChainEmpty == ASSUME NEW a \in Nat PROVE Chain(<<>>, a, a)
<1> DEFINE c == [i \in 0 .. 0 |-> a]
<1>1. Len(<<>>) = 0
  OBVIOUS
<1>2. c \in [0 .. 0 -> 0 .. a] /\ c[0] = a
  OBVIOUS
<1> HIDE DEF c
<1>3. c \in [0 .. Len(<<>>) -> 0 .. a] /\ c[0] = a /\ c[Len(<<>>)] = a
  BY <1>1, <1>2
<1>4. \A i \in 1 .. Len(<<>>) : Part(<<>>[i], c[i - 1], c[i])
  BY <1>1
<1> QED BY <1>3, <1>4 DEF Chain

(* A message sent behind a chain makes it longer by its run.               *)
LEMMA ChainAppend ==
    ASSUME NEW S, NEW s \in Seq(S), NEW m, NEW a \in Nat, NEW b \in Nat, NEW e \in Nat,
           Chain(s, a, b), b =< e, Part(m, b, e)
    PROVE  Chain(Append(s, m), a, e)
<1> DEFINE t == Append(s, m)
<1>1. PICK c \in [0 .. Len(s) -> 0 .. b] :
          c[0] = a /\ c[Len(s)] = b /\ \A i \in 1 .. Len(s) : Part(s[i], c[i - 1], c[i])
  BY DEF Chain
<1> DEFINE d == [i \in 0 .. Len(s) + 1 |-> IF i = Len(s) + 1 THEN e ELSE c[i]]
<1>2. /\ Len(t) = Len(s) + 1 /\ Len(s) \in Nat
      /\ \A i \in 1 .. Len(s) : t[i] = s[i]
      /\ t[Len(s) + 1] = m
  OBVIOUS
<1> HIDE DEF t
<1>3. /\ d \in [0 .. Len(t) -> 0 .. e] /\ d[0] = a /\ d[Len(t)] = e
      /\ \A i \in 1 .. Len(s) : d[i] = c[i] /\ d[i - 1] = c[i - 1]
      /\ d[Len(s) + 1] = e /\ d[(Len(s) + 1) - 1] = b
  BY <1>1, <1>2
<1> HIDE DEF d
<1>4. ASSUME NEW i \in 1 .. Len(t) PROVE Part(t[i], d[i - 1], d[i])
  <2>1. CASE i \in 1 .. Len(s)
    BY <1>1, <1>2, <1>3, <2>1
  <2>2. CASE i = Len(s) + 1
    BY <1>2, <1>3, <2>2
  <2> QED BY <1>2, <2>1, <2>2
<1>5. Chain(t, a, e)
  BY <1>3, <1>4 DEF Chain
<1> QED BY <1>5 DEF t

(* The chain without its first message begins where that one ended.        *)
LEMMA ChainTail ==
    ASSUME NEW S, NEW s \in Seq(S), s # <<>>, NEW a \in Nat, NEW b \in Nat, Chain(s, a, b)
    PROVE  \E d \in a .. b : Part(Head(s), a, d) /\ Chain(Tail(s), d, b)
<1> DEFINE t == Tail(s)
<1>1. PICK c \in [0 .. Len(s) -> 0 .. b] :
          c[0] = a /\ c[Len(s)] = b /\ \A i \in 1 .. Len(s) : Part(s[i], c[i - 1], c[i])
  BY DEF Chain
<1> DEFINE d == [i \in 0 .. Len(s) - 1 |-> c[i + 1]]
<1>2. /\ Len(t) = Len(s) - 1 /\ Len(s) \in Nat \ {0} /\ Head(s) = s[1]
      /\ \A i \in 1 .. Len(t) : t[i] = s[i + 1]
  BY HeadTailProperties, EmptySeq
<1> HIDE DEF t
<1>3. Part(Head(s), a, c[1]) /\ c[1] \in 0 .. b
  <2>1. 1 \in 1 .. Len(s) /\ 1 - 1 = 0 /\ 1 \in 0 .. Len(s)
    BY <1>2
  <2> QED BY <1>1, <1>2, <2>1
<1>4. c[1] \in a .. b
  BY <1>3 DEF Part
<1>5. /\ d \in [0 .. Len(t) -> 0 .. b] /\ d[0] = c[1] /\ d[Len(t)] = b
      /\ \A i \in 1 .. Len(t) : d[i] = c[i + 1] /\ d[i - 1] = c[i]
  BY <1>1, <1>2
<1> HIDE DEF d
<1>6. ASSUME NEW i \in 1 .. Len(t) PROVE Part(t[i], d[i - 1], d[i])
  <2>1. i + 1 \in 1 .. Len(s) /\ (i + 1) - 1 = i
    BY <1>2
  <2> QED BY <1>1, <1>2, <1>5, <2>1
<1>7. Chain(t, c[1], b)
  BY <1>5, <1>6 DEF Chain
<1> QED BY <1>3, <1>4, <1>7 DEF t

(* The first messages of a chain are a chain that ends earlier.            *)
LEMMA ChainTake ==
    ASSUME NEW S, NEW s \in Seq(S), NEW n \in 0 .. Len(s),
           NEW a \in Nat, NEW b \in Nat, Chain(s, a, b)
    PROVE  \E d \in a .. b : Chain(Take(s, n), a, d)
<1>1. PICK c \in [0 .. Len(s) -> 0 .. b] :
          c[0] = a /\ c[Len(s)] = b /\ \A i \in 1 .. Len(s) : Part(s[i], c[i - 1], c[i])
  BY DEF Chain
<1>2. n \in Nat /\ Len(s) \in Nat /\ n =< Len(s)
  OBVIOUS
<1>3. ASSUME NEW i \in 1 .. Len(s) PROVE c[i - 1] \in Nat /\ c[i] \in Nat /\ c[i - 1] =< c[i]
  <2>1. i \in 0 .. Len(s) /\ i - 1 \in 0 .. Len(s)
    BY <1>2
  <2>2. c[i] \in 0 .. b /\ c[i - 1] \in 0 .. b
    BY <1>1, <2>1
  <2>3. Part(s[i], c[i - 1], c[i])
    BY <1>1
  <2>4. 0 .. b \subseteq Nat
    OBVIOUS
  <2> QED BY <2>2, <2>3, <2>4 DEF Part
<1>4. ASSUME NEW i \in 0 .. n PROVE c[i] =< c[n]
  <2> DEFINE P == {k \in 0 .. n - i : c[i] =< c[i + k]}
  <2>1. n - i \in Nat /\ 0 \in P
    BY <1>1, <1>2
  <2>2. ASSUME NEW k \in 0 .. (n - i) - 1, k \in P PROVE k + 1 \in P
    <3>1. (i + k) + 1 \in 1 .. Len(s) /\ ((i + k) + 1) - 1 = i + k /\ i + (k + 1) = (i + k) + 1
      BY <1>2
    <3>2. c[i + k] \in Nat /\ c[(i + k) + 1] \in Nat /\ c[i + k] =< c[(i + k) + 1]
      BY <1>3, <3>1
    <3>3. i \in 0 .. Len(s) /\ k + 1 \in 0 .. n - i
      BY <1>2
    <3>4. c[i] \in 0 .. b
      BY <1>1, <3>3
    <3> QED BY <2>2, <3>1, <3>2, <3>3, <3>4
  <2> HIDE DEF P
  <2>3. 0 .. n - i \subseteq P
    BY <2>1, <2>2, UpTo
  <2>4. n - i \in 0 .. n - i /\ i + (n - i) = n
    BY <1>2
  <2> QED BY <2>3, <2>4 DEF P
<1> DEFINE d == [i \in 0 .. n |-> c[i]]
           t == Take(s, n)
<1>5. /\ Len(t) = n
      /\ \A i \in 1 .. n : t[i] = s[i] /\ i \in 1 .. Len(s) /\ i - 1 \in 0 .. n /\ i \in 0 .. n
  BY <1>2 DEF Take
<1>6. c[n] \in a .. b /\ 0 \in 0 .. n /\ n \in 0 .. n
  <2>1. c[n] \in 0 .. b /\ 0 \in 0 .. n /\ n \in 0 .. n
    BY <1>1, <1>2
  <2> QED BY <1>1, <1>4, <2>1
<1>7. ASSUME NEW i \in 0 .. n PROVE c[i] \in 0 .. c[n]
  <2>1. i \in 0 .. Len(s) /\ n \in 0 .. Len(s)
    BY <1>2
  <2>2. c[i] \in 0 .. b /\ c[n] \in 0 .. b
    BY <1>1, <2>1
  <2> QED BY <1>4, <2>2
<1>8. d \in [0 .. n -> 0 .. c[n]] /\ d[0] = a /\ d[n] = c[n]
  BY <1>1, <1>6, <1>7
<1>9. \A i \in 1 .. n : Part(t[i], d[i - 1], d[i])
  BY <1>1, <1>5
<1> HIDE DEF d, t
<1>10. Chain(t, a, c[n])
  BY <1>5, <1>8, <1>9 DEF Chain
<1> QED BY <1>6, <1>10 DEF t

(* And with the end of the connection behind them.                         *)
LEMMA ChainCut ==
    ASSUME NEW s \in Seq(Msg), NEW t \in Cuts(s), NEW a \in Nat, NEW b \in Nat, Chain(s, a, b)
    PROVE  \E d \in a .. b : Chain(t, a, d)
<1>1. PICK n \in 0 .. Len(s) : t = Append(Take(s, n), Close)
  BY DEF Cuts
<1>2. PICK d \in a .. b : Chain(Take(s, n), a, d)
  BY ChainTake
<1>3. Take(s, n) \in Seq(Msg) /\ d \in Nat /\ d =< d
  BY PartsType
<1>4. Part(Close, d, d)
  BY DEF Part
<1>5. Chain(t, a, d)
  BY <1>1, <1>2, <1>3, <1>4, ChainAppend
<1> QED BY <1>5

-----------------------------------------------------------------------------
(* The strengthening.                                                      *)

(* The client may still hear the websocket; nothing is lost on it while    *)
(* that is so and its connection holds.                                    *)
Heard == ws \in {"connecting", "open"}
Alive == Heard /\ ~broken

(* Who got past ready() has a websocket that is not connecting, and only a *)
(* stream that got there is dropped, which closes the websocket.           *)
Opened == (opener = "ready" => ws # "connecting") /\ (Heard => handlers)

(* The peer has the first p bytes of w, write_all holds those up to q, and *)
(* the messages on the websocket those up to r: all, while it is alive.    *)
UpMarks(p, q, r, w) ==
    /\ p =< q /\ q =< r /\ r =< w
    /\ upSent = Run(0, w) /\ Chain(wsUp, q, r) /\ hold = Run(p, q) /\ peerGot = Run(0, p)
    /\ Alive => r = w
UpInv == \E p, q, r, w \in 0 .. UpBytes : UpMarks(p, q, r, w)

(* The reader has p bytes of w, the buffer those up to q, the Blobs those  *)
(* up to r; and while the websocket is heard its messages have those up to *)
(* x and TCP the rest, unless one of the two connections broke.            *)
Underway(r, w) ==
    \E x \in r .. w : /\ Chain(wsDown, r, x)
                      /\ \/ tcpDown = Run(x, w)
                         \/ tcpDown = <<>> /\ peerEnd = "reset"
                         \/ broken
DownMarks(p, q, r, w) ==
    /\ p =< q /\ q =< r /\ r =< w
    /\ peerSent = Run(0, w) /\ Chain(blobs, q, r) /\ buffer = Run(p, q) /\ got = Run(0, p)
    /\ Heard => Underway(r, w)
DownInv == \E p, q, r, w \in 0 .. DownBytes : DownMarks(p, q, r, w)

(* No close frame is sent before the websocket closes; and a relay that    *)
(* ended otherwise had read all that the peer wrote before it finished.    *)
EndInv ==
    /\ Alive => \A i \in 1 .. Len(wsUp) : wsUp[i] # Close
    /\ relay = "ended" /\ peerEnd = "fin" /\ ws = "open" /\ ~broken => tcpDown = <<>>

(* All hold before anything happened.                                      *)
LEMMA InvInit == Init => Opened /\ UpInv /\ DownInv /\ EndInv
<1> SUFFICES ASSUME Init PROVE Opened /\ UpInv /\ DownInv /\ EndInv
  OBVIOUS
<1>1. Run(0, 0) = <<>> /\ Chain(<<>>, 0, 0) /\ 0 \in 0 .. UpBytes /\ 0 \in 0 .. DownBytes
  BY RunEmpty, ChainEmpty, BoundsAssumption
<1>2. UpInv
  BY <1>1 DEF Init, UpInv, UpMarks
<1>3. DownInv
  <2>1. Underway(0, 0)
    BY <1>1 DEF Init, Underway
  <2> QED BY <1>1, <2>1 DEF Init, DownInv, DownMarks
<1> QED BY <1>2, <1>3 DEF Init, Opened, Heard, Alive, EndInv

(* The websocket never comes back.                                         *)
LEMMA AliveBefore ==
    Opened /\ [Next]_vars => Opened' /\ (Heard' => Heard) /\ (Alive' => Alive) /\ (broken => broken')
<1> SUFFICES ASSUME Opened, [Next]_vars
             PROVE  Opened' /\ (Heard' => Heard) /\ (Alive' => Alive) /\ (broken => broken')
  OBVIOUS
<1> USE DEF Opened, Heard, Alive
<1>1. CASE UNCHANGED <<client, broken>>
  BY <1>1 DEF client
<1>2. CASE Opening
  BY <1>2 DEF Opening, WsOpens, WsRefused, PollReady, WsBreaks, link, client
<1>3. CASE Upward
  BY <1>1, <1>3 DEF Upward, PollWrite, RelayWrite, PollShutdown, DropStream, RelayReceive, RelayWriteFails, link
<1>4. CASE Downward
  BY <1>1, <1>4 DEF Downward, PeerWrites, RelayRead, PollRead, PeerFinishes, TcpBreaks, RelayEnds,
                    OnMessage, OnClose, BlobRead, RelaySendFails, link
<1>5. CASE UNCHANGED vars
  BY <1>1, <1>5 DEF vars, link
<1> QED BY <1>2, <1>3, <1>4, <1>5 DEF Next

(* From the client to the peer, each step moves one of the marks.          *)
LEMMA UpInvNext == TypeOK /\ Opened /\ UpInv /\ [Next]_vars => UpInv'
<1> SUFFICES ASSUME TypeOK, Opened, UpInv, [Next]_vars PROVE UpInv'
  OBVIOUS
<1>1. PICK p \in 0 .. UpBytes, q \in 0 .. UpBytes, r \in 0 .. UpBytes, w \in 0 .. UpBytes : UpMarks(p, q, r, w)
  BY DEF UpInv
<1>2. /\ upSent = Run(0, w) /\ Chain(wsUp, q, r) /\ hold = Run(p, q) /\ peerGot = Run(0, p)
      /\ Alive => r = w
  BY <1>1 DEF UpMarks
<1>3. /\ wsUp \in Seq(Msg) /\ UpBytes \in Nat /\ MaxChunk \in Nat
      /\ p \in Nat /\ q \in Nat /\ r \in Nat /\ w \in Nat /\ p =< q /\ q =< r /\ r =< w
      /\ Alive' => Alive
  BY <1>1, AliveBefore, BoundsAssumption DEF TypeOK, Msg, UpMarks
<1>4. CASE UNCHANGED up
  BY <1>2, <1>1, <1>3, <1>4 DEF up, UpInv, UpMarks
<1>5. ASSUME NEW n \in 1 .. MaxChunk, PollWrite(n) PROVE UpInv'
  <2>1. n \in Nat \ {0} /\ Len(upSent) = w
    <3>1. Len(Run(0, w)) = w - 0
      BY <1>3, RunType
    <3> QED BY <1>2, <1>3, <3>1
  <2>2. /\ w + n \in 0 .. UpBytes /\ ws # "connecting" /\ UNCHANGED <<client, hold, peerGot>>
        /\ upSent' = upSent \o Fresh(upSent, n)
        /\ wsUp' = IF ws = "open" /\ ~broken THEN Append(wsUp, Fresh(upSent, n)) ELSE wsUp
    BY <1>3, <1>5, <2>1 DEF PollWrite, Opened
  <2>3. upSent' = Run(0, w + n) /\ Fresh(upSent, n) = Run(w, w + n)
    BY <1>2, <1>3, <2>1, <2>2, WriterRuns, FreshIsRun
  <2>4. CASE ws = "open" /\ ~broken
    <3>1. Part(Run(w, w + n), w, w + n)
      BY <1>3, <2>1, RunIsData DEF Part
    <3>2. Chain(wsUp', q, w + n)
      <4>1. Chain(wsUp, q, w)
        BY <1>2, <2>4 DEF Heard, Alive
      <4> QED BY <1>3, <2>1, <2>2, <2>3, <2>4, <3>1, <4>1, ChainAppend
    <3>3. UpMarks(p, q, w + n, w + n)'
      <4>1. q =< w + n /\ hold' = Run(p, q) /\ peerGot' = Run(0, p)
        BY <1>2, <1>3, <2>1, <2>2
      <4> QED BY <1>3, <2>3, <3>2, <4>1 DEF UpMarks
    <3> QED BY <2>2, <3>3 DEF UpInv
  <2>5. CASE ~(ws = "open" /\ ~broken)
    <3>1. ~Alive'
      BY <1>3, <2>2, <2>5 DEF Heard, Alive
    <3>2. UpMarks(p, q, r, w + n)'
      BY <1>2, <1>3, <2>1, <2>2, <2>3, <2>5, <3>1 DEF UpMarks
    <3> QED BY <2>2, <3>2 DEF UpInv
  <2> QED BY <2>4, <2>5
<1>6. ASSUME NEW n \in 1 .. MaxChunk, RelayWrite(n) PROVE UpInv'
  <2>1. n \in 0 .. q - p /\ n \in Nat
    <3>1. Len(hold) = q - p
      BY <1>2, <1>3, RunType
    <3> QED BY <1>6, <3>1, BoundsAssumption DEF RelayWrite
  <2>2. Take(hold, n) = Run(p, p + n) /\ Rest(hold, n) = Run(p + n, q)
    BY <1>2, <1>3, <2>1, RunSplit
  <2>3. hold' = Run(p + n, q) /\ peerGot' = Run(0, p) \o Run(p, p + n)
    BY <1>2, <1>6, <2>2 DEF RelayWrite
  <2>4. p + n \in 0 .. q /\ Run(0, p) \o Run(p, p + n) = Run(0, p + n)
    <3>1. p + n \in Nat /\ 0 =< p /\ p =< p + n /\ p + n =< q
      BY <1>3, <2>1
    <3>2. Run(0, p) \o Run(p, p + n) = Run(0, p + n)
      BY <1>3, <3>1, RunConcat
    <3> QED BY <1>3, <3>1, <3>2
  <2>5. UNCHANGED <<upSent, wsUp>> /\ p + n =< q
    BY <1>6, <2>4 DEF RelayWrite
  <2>6. UpMarks(p + n, q, r, w)'
    BY <1>2, <1>3, <2>3, <2>4, <2>5 DEF UpMarks
  <2>7. p + n \in 0 .. UpBytes
    BY <1>3, <2>4
  <2> QED BY <2>6, <2>7 DEF UpInv
<1>7. CASE PollShutdown \/ DropStream
  <2>1. /\ wsUp' = wsUp \/ wsUp' = Append(wsUp, Close)
        /\ UNCHANGED <<upSent, hold, peerGot>>
    BY <1>7 DEF PollShutdown, DropStream, Closed
  <2>2. Chain(wsUp', q, r)
    <3>1. Part(Close, r, r)
      BY DEF Part
    <3>2. Chain(Append(wsUp, Close), q, r)
      BY <1>2, <1>3, <3>1, ChainAppend
    <3> QED BY <1>2, <2>1, <3>2
  <2>3. UpMarks(p, q, r, w)'
    BY <1>2, <1>3, <2>1, <2>2 DEF UpMarks
  <2> QED BY <2>3 DEF UpInv
<1>8. CASE RelayReceive
  <2>1. /\ hold = <<>> /\ wsUp # <<>> /\ wsUp' = Tail(wsUp) /\ UNCHANGED <<upSent, peerGot>>
        /\ hold' = IF Head(wsUp) = Close THEN hold ELSE Head(wsUp)
    BY <1>8 DEF RelayReceive
  <2>2. p = q
    <3>1. p < q => Run(p, q) # <<>>
      BY <1>3, RunIsData
    <3> QED BY <1>2, <1>3, <2>1, <3>1
  <2>3. PICK d \in q .. r : Part(Head(wsUp), q, d) /\ Chain(Tail(wsUp), d, r)
    BY <1>2, <1>3, <2>1, ChainTail
  <2>4. hold' = Run(p, d)
    BY <1>2, <2>1, <2>2, <2>3 DEF Part
  <2>5. d \in 0 .. UpBytes /\ p =< d /\ d =< r
    BY <1>3, <2>2
  <2>6. UpMarks(p, d, r, w)'
    BY <1>2, <1>3, <2>1, <2>3, <2>4, <2>5 DEF UpMarks
  <2> QED BY <2>5, <2>6 DEF UpInv
<1>9. CASE WsOpens \/ WsRefused \/ PollReady \/ RelayWriteFails
  BY <1>4, <1>9 DEF WsOpens, WsRefused, PollReady, RelayWriteFails
<1>12. CASE WsBreaks
  <2>1. wsUp' \in Cuts(wsUp) /\ broken' /\ UNCHANGED <<upSent, hold, peerGot>>
    BY <1>12 DEF WsBreaks
  <2>2. PICK d \in q .. r : Chain(wsUp', q, d)
    BY <1>2, <1>3, <2>1, ChainCut
  <2>3. d \in 0 .. UpBytes /\ q =< d /\ d =< w
    BY <1>3
  <2>4. UpMarks(p, q, d, w)'
    BY <1>2, <1>3, <2>1, <2>2, <2>3 DEF UpMarks, Alive
  <2> QED BY <2>3, <2>4 DEF UpInv
<1>10. CASE Downward
  BY <1>4, <1>10 DEF Downward, PeerWrites, RelayRead, PollRead, PeerFinishes, TcpBreaks, RelayEnds,
                    RelaySendFails, OnMessage, OnClose, BlobRead
<1>11. CASE UNCHANGED vars
  BY <1>4, <1>11 DEF vars
<1> QED BY <1>12, <1>5, <1>6, <1>7, <1>8, <1>9, <1>10, <1>11 DEF Next, Opening, Upward

(* From the peer to the client, if the Blobs are read in order.            *)
LEMMA DownInvNext == BlobsInOrder /\ TypeOK /\ Opened /\ DownInv /\ [Next]_vars => DownInv'
<1> SUFFICES ASSUME BlobsInOrder, TypeOK, Opened, DownInv, [Next]_vars PROVE DownInv'
  OBVIOUS
<1>1. PICK p \in 0 .. DownBytes, q \in 0 .. DownBytes, r \in 0 .. DownBytes, w \in 0 .. DownBytes :
          DownMarks(p, q, r, w)
  BY DEF DownInv
<1>2. /\ peerSent = Run(0, w) /\ Chain(blobs, q, r) /\ buffer = Run(p, q) /\ got = Run(0, p)
      /\ Heard => Underway(r, w)
  BY <1>1 DEF DownMarks
<1>3. /\ wsDown \in Seq(Msg) /\ blobs \in Seq(Seq(Bytes)) /\ DownBytes \in Nat /\ MaxChunk \in Nat
      /\ p \in Nat /\ q \in Nat /\ r \in Nat /\ w \in Nat /\ p =< q /\ q =< r /\ r =< w
      /\ (Heard' => Heard) /\ (broken => broken')
  BY <1>1, AliveBefore, BoundsAssumption DEF TypeOK, Msg, DownMarks
(* What is on its way changes; what the client has does not.               *)
<1>4. CASE UNCHANGED <<peerSent, blobs, buffer, got>> /\ (Heard' => Underway(r, w)')
  BY <1>1, <1>2, <1>3, <1>4 DEF DownInv, DownMarks
<1>5. CASE UNCHANGED <<peerSent, peerEnd, tcpDown, wsDown, blobs, buffer, got>>
  BY <1>2, <1>3, <1>4, <1>5 DEF Underway
(* A close frame joins the messages.                                       *)
<1>6. ASSUME wsDown' = Closed(wsDown), UNCHANGED <<peerSent, peerEnd, tcpDown, blobs, buffer, got>>
      PROVE  DownInv'
  <2>1. ASSUME Heard PROVE Underway(r, w)'
    <3>1. PICK x \in r .. w : /\ Chain(wsDown, r, x)
                              /\ \/ tcpDown = Run(x, w)
                                 \/ tcpDown = <<>> /\ peerEnd = "reset"
                                 \/ broken
      BY <1>2, <2>1 DEF Underway
    <3>2. Part(Close, x, x)
      BY DEF Part
    <3>3. Chain(Append(wsDown, Close), r, x)
      BY <1>3, <3>1, <3>2, ChainAppend
    <3>4. Chain(wsDown', r, x)
      BY <1>6, <3>1, <3>3 DEF Closed
    <3> QED BY <1>3, <1>6, <3>1, <3>4 DEF Underway
  <2> QED BY <1>3, <1>4, <1>6, <2>1
<1>7. ASSUME NEW n \in 1 .. MaxChunk, PeerWrites(n) PROVE DownInv'
  <2>1. n \in Nat /\ Len(peerSent) = w
    <3>1. Len(Run(0, w)) = w - 0
      BY <1>3, RunType
    <3> QED BY <1>2, <1>3, <3>1
  <2>2. /\ w + n \in 0 .. DownBytes /\ peerEnd = "none"
        /\ UNCHANGED <<client, blobs, buffer, got, peerEnd, wsDown>>
        /\ peerSent' = peerSent \o Fresh(peerSent, n) /\ tcpDown' = tcpDown \o Fresh(peerSent, n)
    BY <1>3, <1>7, <2>1 DEF PeerWrites, reading
  <2>3. peerSent' = Run(0, w + n) /\ Fresh(peerSent, n) = Run(w, w + n)
    BY <1>2, <1>3, <2>1, <2>2, WriterRuns, FreshIsRun
  <2>4. ASSUME Heard PROVE Underway(r, w + n)'
    <3>1. PICK x \in r .. w : Chain(wsDown, r, x) /\ (tcpDown = Run(x, w) \/ broken)
      BY <1>2, <2>2, <2>4 DEF Underway
    <3>2. tcpDown' = Run(x, w + n) \/ broken'
      <4>1. x \in Nat /\ x =< w /\ w =< w + n /\ w + n \in Nat
        BY <1>3, <2>1
      <4>2. Run(x, w) \o Run(w, w + n) = Run(x, w + n)
        BY <1>3, <4>1, RunConcat
      <4> QED BY <1>3, <2>2, <2>3, <3>1, <4>2
    <3>3. x \in r .. w + n
      BY <1>3, <2>1
    <3> QED BY <2>2, <3>1, <3>2, <3>3 DEF Underway
  <2>5. DownMarks(p, q, r, w + n)'
    <3>1. p =< q /\ q =< r /\ r =< w + n
      BY <1>3, <2>1
    <3>2. Chain(blobs', q, r) /\ buffer' = Run(p, q) /\ got' = Run(0, p)
      BY <1>2, <2>2
    <3>3. Heard' => Underway(r, w + n)'
      BY <1>3, <2>4
    <3> QED BY <2>3, <3>1, <3>2, <3>3 DEF DownMarks
  <2> QED BY <1>1, <2>2, <2>5 DEF DownInv
<1>8. ASSUME NEW n \in 1 .. MaxChunk, RelayRead(n) PROVE DownInv'
  <2>1. /\ n \in Nat \ {0} /\ n =< Len(tcpDown) /\ tcpDown' = Rest(tcpDown, n)
        /\ wsDown' = IF broken THEN wsDown ELSE Append(wsDown, Take(tcpDown, n))
        /\ UNCHANGED <<peerSent, peerEnd, blobs, buffer, got>>
    BY <1>3, <1>8 DEF RelayRead, reading
  <2>3. CASE broken
    BY <1>2, <1>3, <1>4, <2>1, <2>3 DEF Underway
  <2>2. ASSUME Heard, ~broken PROVE Underway(r, w)'
    <3>1. PICK x \in r .. w : Chain(wsDown, r, x) /\ tcpDown = Run(x, w)
      <4>1. tcpDown # <<>>
        BY <2>1
      <4> QED BY <1>2, <2>2, <4>1 DEF Underway
    <3>2. n \in 0 .. w - x /\ x \in Nat /\ x =< w
      <4>1. x \in Nat /\ x =< w
        BY <1>3
      <4>2. Len(Run(x, w)) = w - x
        BY <1>3, <4>1, RunType
      <4> QED BY <2>1, <3>1, <4>1, <4>2
    <3>3. Take(tcpDown, n) = Run(x, x + n) /\ Rest(tcpDown, n) = Run(x + n, w)
      BY <1>3, <3>1, <3>2, RunSplit
    <3>4. x + n \in r .. w /\ x + n \in Nat /\ x < x + n
      BY <1>3, <2>1, <3>2
    <3>5. Part(Run(x, x + n), x, x + n)
      BY <3>2, <3>4, RunIsData DEF Part
    <3>6. Chain(wsDown', r, x + n)
      <4>1. Chain(Append(wsDown, Run(x, x + n)), r, x + n)
        BY <1>3, <3>1, <3>2, <3>4, <3>5, ChainAppend
      <4> QED BY <2>1, <2>2, <3>3, <4>1
    <3> QED BY <2>1, <3>3, <3>4, <3>6 DEF Underway
  <2> QED BY <1>3, <1>4, <2>1, <2>2, <2>3
<1>9. ASSUME NEW n \in 1 .. MaxChunk, PollRead(n) PROVE DownInv'
  <2>1. PICK m \in 0 .. q - p : m = Least(n, Len(buffer))
    <3>1. Len(buffer) = q - p
      BY <1>2, <1>3, RunType
    <3>2. Least(n, q - p) \in 0 .. q - p
      BY <1>3 DEF Least
    <3> QED BY <3>1, <3>2
  <2>2. /\ got' = got \o Take(buffer, m) /\ buffer' = Rest(buffer, m)
        /\ UNCHANGED <<ws, blobs, peerSent, peerEnd, tcpDown, wsDown, broken>>
    BY <1>9, <2>1 DEF PollRead, client, down, link
  <2>3. Take(buffer, m) = Run(p, p + m) /\ Rest(buffer, m) = Run(p + m, q)
    BY <1>2, <1>3, <2>1, RunSplit
  <2>4. p + m \in 0 .. DownBytes /\ p + m =< q /\ p =< p + m /\ p + m \in Nat /\ 0 =< p
    BY <1>3, <2>1
  <2>5. Run(0, p) \o Run(p, p + m) = Run(0, p + m)
    BY <1>3, <2>4, RunConcat
  <2>6. DownMarks(p + m, q, r, w)'
    BY <1>2, <1>3, <2>2, <2>3, <2>4, <2>5 DEF DownMarks, Underway, Heard
  <2> QED BY <1>1, <2>2, <2>4, <2>6 DEF DownInv
<1>10. CASE TcpBreaks
  <2>1. /\ tcpDown' = <<>> /\ peerEnd' = "reset"
        /\ UNCHANGED <<wsDown, peerSent, blobs, buffer, got>>
    BY <1>10 DEF TcpBreaks, reading
  <2>2. Heard => Underway(r, w)'
    BY <1>2, <1>3, <2>1 DEF Underway
  <2> QED BY <1>3, <1>4, <2>1, <2>2
<1>11. CASE PeerFinishes
  <2>1. peerEnd = "none" /\ UNCHANGED <<wsDown, tcpDown, peerSent, blobs, buffer, got>>
    BY <1>11 DEF PeerFinishes, reading
  <2>2. Heard => Underway(r, w)'
    BY <1>2, <1>3, <2>1 DEF Underway
  <2> QED BY <1>3, <1>4, <2>1, <2>2
<1>12. CASE OnMessage
  <2>1. /\ wsDown # <<>> /\ Head(wsDown) # Close /\ wsDown' = Tail(wsDown) /\ ws # "connecting"
        /\ blobs' = IF handlers /\ ws = "open" THEN Append(blobs, Head(wsDown)) ELSE blobs
        /\ UNCHANGED <<ws, handlers, peerSent, peerEnd, tcpDown, buffer, got>>
    BY <1>12 DEF OnMessage, client
  <2>2. CASE ws = "open"
    <3>1. Heard /\ handlers
      BY <2>2 DEF Heard, Opened
    <3>2. PICK x \in r .. w : /\ Chain(wsDown, r, x)
                              /\ \/ tcpDown = Run(x, w)
                                 \/ tcpDown = <<>> /\ peerEnd = "reset"
                                 \/ broken
      BY <1>2, <3>1 DEF Underway
    <3>3. x \in Nat
      BY <1>3
    <3>4. PICK d \in r .. x : Part(Head(wsDown), r, d) /\ Chain(Tail(wsDown), d, x)
      BY <1>3, <2>1, <3>2, <3>3, ChainTail
    <3>5. d \in Nat /\ r =< d /\ d =< w /\ x \in d .. w /\ d \in 0 .. DownBytes
      BY <1>3, <3>3
    <3>6. Chain(Append(blobs, Head(wsDown)), q, d)
      BY <1>2, <1>3, <3>4, <3>5, ChainAppend
    <3>7. Underway(d, w)'
      BY <1>3, <2>1, <3>2, <3>4, <3>5 DEF Underway
    <3>8. DownMarks(p, q, d, w)'
      <4>1. blobs' = Append(blobs, Head(wsDown)) /\ q =< d
        BY <1>3, <2>1, <2>2, <3>1, <3>5
      <4> QED BY <1>2, <1>3, <2>1, <3>5, <3>6, <3>7, <4>1 DEF DownMarks
    <3> QED BY <1>1, <3>5, <3>8 DEF DownInv
  <2>3. CASE ws # "open"
    <3>1. ~Heard' /\ UNCHANGED blobs
      BY <2>1, <2>3 DEF Heard
    <3> QED BY <1>4, <2>1, <3>1
  <2> QED BY <2>2, <2>3
<1>13. CASE OnClose
  <2>1. ~Heard' /\ UNCHANGED <<peerSent, blobs, buffer, got>>
    BY <1>13 DEF OnClose, Heard, reading
  <2> QED BY <1>4, <2>1
<1>14. ASSUME NEW i \in DOMAIN blobs, BlobRead(i) PROVE DownInv'
  <2>1. /\ i = 1 /\ blobs # <<>> /\ blobs' = RemoveAt(blobs, 1) /\ buffer' = buffer \o blobs[1]
        /\ UNCHANGED <<ws, peerSent, peerEnd, tcpDown, wsDown, got, broken>>
    BY <1>14 DEF BlobRead, client, down, link
  <2>2. blobs' = Tail(blobs) /\ Head(blobs) = blobs[1] /\ blobs[1] \in Seq(Bytes)
    BY <1>3, <2>1, RemoveFirstAt
  <2>3. PICK d \in q .. r : Part(blobs[1], q, d) /\ Chain(Tail(blobs), d, r)
    BY <1>2, <1>3, <2>1, <2>2, ChainTail
  <2>4. blobs[1] = Run(q, d)
    <3>1. Close \notin Seq(Bytes)
      BY DEF Close, Bytes
    <3> QED BY <2>2, <2>3, <3>1 DEF Part
  <2>5. d \in Nat /\ q =< d /\ p =< d /\ d =< r /\ d \in 0 .. DownBytes
    BY <1>3
  <2>6. Run(p, q) \o Run(q, d) = Run(p, d)
    BY <1>3, <2>5, RunConcat
  <2>7. DownMarks(p, d, r, w)'
    BY <1>2, <1>3, <2>1, <2>2, <2>3, <2>4, <2>5, <2>6 DEF DownMarks, Underway, Heard
  <2> QED BY <1>1, <2>5, <2>7 DEF DownInv
<1>15. CASE RelayWriteFails \/ RelayEnds \/ RelaySendFails
  BY <1>5, <1>6, <1>15 DEF RelayWriteFails, RelayEnds, RelaySendFails, reading, down
<1>19. CASE WsBreaks
  <2>1. /\ wsDown' \in Cuts(wsDown) /\ broken'
        /\ UNCHANGED <<peerSent, peerEnd, tcpDown, blobs, buffer, got>>
    BY <1>19 DEF WsBreaks, reading
  <2>2. ASSUME Heard PROVE Underway(r, w)'
    <3>1. PICK x \in r .. w : Chain(wsDown, r, x)
      BY <1>2, <2>2 DEF Underway
    <3>2. x \in Nat
      BY <1>3
    <3>3. PICK d \in r .. x : Chain(wsDown', r, d)
      BY <1>3, <2>1, <3>1, <3>2, ChainCut
    <3>4. d \in r .. w
      BY <1>3, <3>2
    <3> QED BY <2>1, <3>3, <3>4 DEF Underway
  <2> QED BY <1>3, <1>4, <2>1, <2>2
<1>16. CASE RelayReceive
  BY <1>5, <1>6, <1>16 DEF RelayReceive, reading
<1>17. ASSUME NEW n \in 1 .. MaxChunk, PollWrite(n) \/ RelayWrite(n) PROVE DownInv'
  BY <1>5, <1>17 DEF PollWrite, RelayWrite, reading, down
<1>18. CASE WsOpens \/ WsRefused \/ PollReady \/ PollShutdown \/ DropStream \/ UNCHANGED vars
  BY <1>5, <1>18 DEF WsOpens, WsRefused, PollReady, PollShutdown, DropStream, reading, down, vars
<1> QED
  BY <1>7, <1>8, <1>9, <1>10, <1>11, <1>12, <1>13, <1>14, <1>15, <1>16, <1>17, <1>18, <1>19
  DEF Next, Opening, Upward, Downward

(* The relay ends in order only once it has read all.                      *)
LEMMA EndInvNext == TypeOK /\ Opened /\ EndInv /\ [Next]_vars => EndInv'
<1> SUFFICES ASSUME TypeOK, Opened, EndInv, [Next]_vars PROVE EndInv'
  OBVIOUS
<1>1. Alive' => Alive
  BY AliveBefore
<1>2. wsUp \in Seq(Msg)
  BY DEF TypeOK, Msg
<1>3. CASE UNCHANGED <<wsUp, relay, peerEnd, tcpDown, broken>> /\ (ws' = ws \/ ~Heard')
  BY <1>3 DEF EndInv, Heard, Alive
<1>4. CASE relay' = "running" /\ UNCHANGED wsUp
  BY <1>1, <1>4 DEF EndInv
<1>5. CASE WsOpens
  BY <1>4, <1>5 DEF WsOpens, up
<1>6. CASE WsRefused \/ OnClose \/ DropStream \/ PollShutdown
  BY <1>6 DEF WsRefused, OnClose, DropStream, PollShutdown, Closed, EndInv, Heard, Alive, up, down, reading, link
<1>7. ASSUME NEW n \in 1 .. MaxChunk, PollWrite(n) PROVE EndInv'
  <2>1. /\ wsUp' = IF ws = "open" /\ ~broken THEN Append(wsUp, Fresh(upSent, n)) ELSE wsUp
        /\ UNCHANGED <<ws, relay, peerEnd, tcpDown, broken>>
    BY <1>7 DEF PollWrite, client, down, link
  <2>2. Fresh(upSent, n) # Close
    <3>1. Fresh(upSent, n)[1] = Len(upSent) + 1
      BY DEF Fresh
    <3>2. Close[1] = 0 /\ Len(upSent) \in Nat
      BY DEF Close, TypeOK
    <3> QED BY <3>1, <3>2
  <2>3. ASSUME ws = "open", ~broken, NEW i \in 1 .. Len(Append(wsUp, Fresh(upSent, n)))
        PROVE  Append(wsUp, Fresh(upSent, n))[i] # Close
    <3>1. CASE i \in 1 .. Len(wsUp)
      BY <1>2, <2>3, <3>1 DEF EndInv, Heard, Alive
    <3>2. CASE i = Len(wsUp) + 1
      BY <1>2, <2>2, <3>2
    <3> QED BY <1>2, <3>1, <3>2
  <2> QED BY <2>1, <2>3 DEF EndInv, Heard, Alive
<1>8. CASE RelayReceive
  <2>1. /\ wsUp # <<>> /\ wsUp' = Tail(wsUp) /\ UNCHANGED <<ws, peerEnd, tcpDown, broken>>
        /\ relay = "running" /\ (relay' = "running" \/ Head(wsUp) = Close)
    BY <1>8 DEF RelayReceive, client
  <2>2. /\ Head(wsUp) = wsUp[1] /\ 1 \in 1 .. Len(wsUp)
        /\ \A i \in 1 .. Len(Tail(wsUp)) : i + 1 \in 1 .. Len(wsUp) /\ Tail(wsUp)[i] = wsUp[i + 1]
    BY <1>2, <2>1, HeadTailProperties, EmptySeq
  <2>3. Alive => relay' = "running"
    BY <2>1, <2>2 DEF EndInv
  <2>4. Alive => \A i \in 1 .. Len(Tail(wsUp)) : Tail(wsUp)[i] # Close
    BY <2>2 DEF EndInv
  <2> QED BY <2>1, <2>3, <2>4 DEF EndInv, Heard, Alive
<1>9. CASE RelayWriteFails \/ RelayEnds
  BY <1>9 DEF RelayWriteFails, RelayEnds, EndInv, Heard, Alive, client, up
<1>10. ASSUME NEW n \in 1 .. MaxChunk, RelayWrite(n) \/ PeerWrites(n) \/ RelayRead(n) PROVE EndInv'
  BY <1>4, <1>10 DEF RelayWrite, PeerWrites, RelayRead, up, link
<1>11. CASE PeerFinishes \/ TcpBreaks
  BY <1>4, <1>11 DEF PeerFinishes, TcpBreaks, up, link
<1>12. ASSUME NEW n \in 1 .. MaxChunk, PollRead(n) PROVE EndInv'
  BY <1>3, <1>12 DEF PollRead, client, up, down, link
<1>13. CASE PollReady \/ OnMessage \/ UNCHANGED vars
  BY <1>3, <1>13 DEF PollReady, OnMessage, client, up, down, link, vars
<1>14. ASSUME NEW i \in DOMAIN blobs, BlobRead(i) PROVE EndInv'
  BY <1>3, <1>14 DEF BlobRead, client, up, down, link
<1>15. CASE WsBreaks \/ RelaySendFails
  BY <1>15 DEF WsBreaks, RelaySendFails, EndInv, Alive, up
<1> QED
  BY <1>5, <1>6, <1>7, <1>8, <1>9, <1>10, <1>11, <1>12, <1>13, <1>14, <1>15 DEF Next, Opening, Upward, Downward

-----------------------------------------------------------------------------
(* What the marks say.                                                     *)

(* The parts of a chain, put together, are the run that it stands for.     *)
LEMMA ChainFlattens ==
    ASSUME NEW S, NEW s \in Seq(S), NEW a \in Nat, NEW b \in Nat, Chain(s, a, b)
    PROVE  /\ a =< b
           /\ FlattenSeq([i \in DOMAIN s |-> IF s[i] = Close THEN <<>> ELSE s[i]]) = Run(a, b)
<1> DEFINE n == Len(s)
           data == [i \in DOMAIN s |-> IF s[i] = Close THEN <<>> ELSE s[i]]
<1>1. PICK c \in [0 .. n -> 0 .. b] :
          c[0] = a /\ c[n] = b /\ \A i \in 1 .. n : Part(s[i], c[i - 1], c[i])
  BY DEF Chain
<1>2. n \in Nat /\ DOMAIN s = 1 .. n
  OBVIOUS
<1>3. ASSUME NEW i \in 1 .. n
      PROVE  /\ c[i - 1] \in Nat /\ c[i] \in Nat /\ c[i - 1] =< c[i]
             /\ data[i] = Run(c[i - 1], c[i])
  <2>1. c[i - 1] \in Nat /\ c[i] \in Nat /\ Part(s[i], c[i - 1], c[i]) /\ i \in DOMAIN s
    BY <1>1, <1>2
  <2> QED BY <2>1, RunEmpty DEF Part
<1> HIDE DEF data, n
<1>4. 0 .. n \subseteq {k \in 0 .. n : a =< c[k]}
  <2> DEFINE P == {k \in 0 .. n : a =< c[k]}
  <2>1. 0 \in P
    BY <1>1, <1>2
  <2>2. ASSUME NEW k \in 0 .. n - 1, k \in P PROVE k + 1 \in P
    <3>1. k + 1 \in 1 .. n /\ (k + 1) - 1 = k /\ k + 1 \in 0 .. n
      BY <1>2
    <3>2. c[k] \in Nat /\ c[k + 1] \in Nat /\ c[k] =< c[k + 1]
      BY <1>3, <3>1
    <3> QED BY <2>2, <3>1, <3>2
  <2> HIDE DEF P
  <2>3. 0 .. n \subseteq P
    BY <1>2, <2>1, <2>2, UpTo
  <2> QED BY <2>3 DEF P
<1>5. \A k \in 0 .. n : a =< c[k] /\ c[k] \in Nat
  BY <1>1, <1>4
<1>6. CASE n = 0
  <2>1. data = <<>> /\ a = b
    BY <1>1, <1>2, <1>6 DEF data
  <2>2. FlattenSeq(data) = <<>>
    BY <2>1 DEF FlattenSeq
  <2> QED BY <2>1, <2>2, RunEmpty DEF data
<1>7. CASE n # 0
  <2> DEFINE f == [k \in 0 .. n |-> Run(a, c[k])]
  <2>1. data \in Seq(Seq(Nat)) /\ Len(data) = n /\ data # <<>>
    <3>1. \A i \in 1 .. n : data[i] \in Seq(Nat)
      BY <1>3, RunType
    <3>2. data = [i \in 1 .. n |-> data[i]]
      BY <1>2 DEF data
    <3>3. data \in [1 .. n -> Seq(Nat)]
      BY <3>1, <3>2
    <3> QED BY <1>2, <1>7, <3>3
  <2>2. f \in [0 .. n -> Seq(Nat)] /\ f[0] = <<>>
    <3>1. \A k \in 0 .. n : Run(a, c[k]) \in Seq(Nat)
      BY <1>5, RunType
    <3>2. 0 \in 0 .. n /\ Run(a, c[0]) = <<>>
      BY <1>1, <1>2, RunEmpty
    <3> QED BY <3>1, <3>2
  <2>3. ASSUME NEW i \in 1 .. n PROVE f[i] = f[i - 1] \o data[i]
    <3>1. i - 1 \in 0 .. n /\ i \in 0 .. n
      BY <1>2
    <3>2. f[i - 1] = Run(a, c[i - 1]) /\ f[i] = Run(a, c[i]) /\ a =< c[i - 1]
      BY <1>5, <3>1
    <3>3. c[i - 1] \in Nat /\ c[i] \in Nat /\ c[i - 1] =< c[i] /\ data[i] = Run(c[i - 1], c[i])
      BY <1>3
    <3>4. Run(a, c[i - 1]) \o Run(c[i - 1], c[i]) = Run(a, c[i])
      BY <3>2, <3>3, RunConcat
    <3> QED BY <3>2, <3>3, <3>4
  <2>4. f[n] = Run(a, b)
    BY <1>1, <1>2
  <2> HIDE DEF f
  <2>5. FlattenSeq(data) = f[n]
    BY <2>1, <2>2, <2>3, Flatten
  <2> QED BY <1>1, <1>2, <1>5, <2>4, <2>5 DEF data
<1> QED BY <1>6, <1>7

(* What is with the client and what is on the websocket are all of it.     *)
LEMMA InvEndLosesNothing == TypeOK /\ DownInv /\ EndInv => EndLosesNothing
<1> SUFFICES ASSUME TypeOK, DownInv, EndInv, relay = "ended", peerEnd = "fin", ws = "open", ~broken
             PROVE  tcpDown = <<>> /\ got \o buffer \o InFlight = peerSent
  BY DEF EndLosesNothing
<1>1. PICK p \in 0 .. DownBytes, q \in 0 .. DownBytes, r \in 0 .. DownBytes, w \in 0 .. DownBytes :
          DownMarks(p, q, r, w)
  BY DEF DownInv
<1>2. /\ p \in Nat /\ q \in Nat /\ r \in Nat /\ w \in Nat /\ p =< q /\ q =< r /\ r =< w
      /\ peerSent = Run(0, w) /\ Chain(blobs, q, r) /\ buffer = Run(p, q) /\ got = Run(0, p)
      /\ Underway(r, w)
  BY <1>1, BoundsAssumption DEF DownMarks, Heard
<1>3. tcpDown = <<>>
  BY DEF EndInv
<1>4. Chain(wsDown, r, w)
  <2>1. PICK x \in r .. w : Chain(wsDown, r, x) /\ tcpDown = Run(x, w)
    BY <1>2 DEF Underway
  <2>2. x \in Nat /\ x =< w
    BY <1>2
  <2>3. x = w
    <3>1. x < w => Run(x, w) # <<>>
      BY <1>2, <2>2, RunIsData
    <3> QED BY <1>2, <1>3, <2>1, <2>2, <3>1
  <2> QED BY <2>1, <2>3
<1>5. FlattenSeq(blobs) = Run(q, r)
  <2> DEFINE data == [i \in DOMAIN blobs |-> IF blobs[i] = Close THEN <<>> ELSE blobs[i]]
  <2>1. blobs \in Seq(Seq(Bytes)) /\ Close \notin Seq(Bytes)
    BY DEF TypeOK, Close, Bytes
  <2>2. \A i \in DOMAIN blobs : blobs[i] # Close
    BY <2>1
  <2>3. data = blobs
    BY <2>1, <2>2
  <2>4. FlattenSeq(data) = Run(q, r)
    BY <1>2, <2>1, ChainFlattens
  <2> QED BY <2>3, <2>4
<1>6. InFlight = Run(q, r) \o Run(r, w)
  <2>1. wsDown \in Seq(Msg)
    BY DEF TypeOK, Msg
  <2>2. FlattenSeq([i \in DOMAIN wsDown |-> IF wsDown[i] = Close THEN <<>> ELSE wsDown[i]]) = Run(r, w)
    BY <1>2, <1>4, <2>1, ChainFlattens
  <2> QED BY <1>5, <2>2 DEF InFlight
<1>7. Run(0, p) \o Run(p, q) = Run(0, q) /\ Run(q, r) \o Run(r, w) = Run(q, w)
  <2>1. 0 \in Nat /\ 0 =< p
    BY <1>2
  <2> QED BY <1>2, <2>1, RunConcat
<1>8. Run(0, q) \o Run(q, w) = Run(0, w)
  <2>1. 0 \in Nat /\ 0 =< q /\ q =< w
    BY <1>2
  <2> QED BY <1>2, <2>1, RunConcat
<1> QED BY <1>2, <1>3, <1>6, <1>7, <1>8

(* EndLosesNothing for any number of bytes: an orderly end loses nothing,  *)
(* if the browser reads the Blobs in order (websocket.rs:82).              *)
THEOREM OrderlyEndsLoseNothing ==
    ASSUME BlobsInOrder
    PROVE  Spec => []EndLosesNothing
<1>1. BlobsInOrder
  OBVIOUS
<1>2. TypeOK /\ Opened /\ DownInv /\ [Next]_vars => DownInv'
  BY <1>1, DownInvNext
<1>3. [Next]_vars /\ Opened => Opened'
  BY AliveBefore
<1> QED BY <1>2, <1>3, TunnelTypeCorrect, InvInit, EndInvNext, InvEndLosesNothing, PTL DEF Spec

-----------------------------------------------------------------------------
(* The refinement: each direction implements ByteStream.                   *)

(* The first n of w bytes.                                                 *)
LEMMA RunPrefix ==
    ASSUME NEW n \in Nat, NEW w \in Nat, n =< w
    PROVE  SubSeq(Run(0, w), 1, n) = Run(0, n)
<1>1. n \in 0 .. w - 0 /\ 0 + n = n /\ 0 =< w
  OBVIOUS
<1>2. Take(Run(0, w), n) = Run(0, 0 + n)
  BY <1>1, RunSplit
<1> QED BY <1>1, <1>2 DEF Take

(* A write of the client is a Write, a write of the proxy to TCP a Deliver.*)
LEMMA UpStep == TypeOK /\ UpInv /\ [Next]_vars => [UpStream!Next]_<<upSent, peerGot>>
<1> SUFFICES ASSUME TypeOK, UpInv, [Next]_vars PROVE [UpStream!Next]_<<upSent, peerGot>>
  OBVIOUS
<1>1. PICK p \in 0 .. UpBytes, q \in 0 .. UpBytes, r \in 0 .. UpBytes, w \in 0 .. UpBytes : UpMarks(p, q, r, w)
  BY DEF UpInv
<1>2. /\ p \in Nat /\ q \in Nat /\ r \in Nat /\ w \in Nat /\ UpBytes \in Nat /\ DownBytes \in Nat
      /\ p =< q /\ q =< r /\ r =< w
      /\ upSent = Run(0, w) /\ hold = Run(p, q) /\ peerGot = Run(0, p)
  BY <1>1, BoundsAssumption DEF UpMarks
<1>3. Len(upSent) = w /\ Len(hold) = q - p /\ Len(peerGot) = p
  <2>1. 0 \in Nat /\ 0 =< w /\ 0 =< p
    BY <1>2
  <2>2. Len(Run(0, w)) = w - 0 /\ Len(Run(p, q)) = q - p /\ Len(Run(0, p)) = p - 0
    BY <1>2, <2>1, RunType
  <2> QED BY <1>2, <2>2
<1>4. ASSUME NEW n \in 1 .. MaxChunk, PollWrite(n) PROVE UpStream!Next
  <2>1. n \in 1 .. UpBytes - Len(upSent)
    BY <1>2, <1>3, <1>4, BoundsAssumption DEF PollWrite
  <2>2. Fresh(upSent, n) \in [1 .. n -> Bytes]
    <3>1. \A i \in 1 .. n : Len(upSent) + i \in Bytes
      BY <1>2, <1>3, <2>1 DEF Bytes
    <3> QED BY <3>1 DEF Fresh
  <2>3. upSent' = upSent \o Fresh(upSent, n) /\ UNCHANGED peerGot
    BY <1>4 DEF PollWrite
  <2> QED BY <2>1, <2>2, <2>3 DEF UpStream!Next, UpStream!Write
<1>5. ASSUME NEW n \in 1 .. MaxChunk, RelayWrite(n) PROVE UpStream!Next
  <2>1. n \in Nat \ {0} /\ n =< q - p
    BY <1>3, <1>5, BoundsAssumption DEF RelayWrite
  <2>2. p + n \in Len(peerGot) + 1 .. Len(upSent) /\ p + n \in Nat /\ p + n =< w /\ p =< p + n
        /\ n \in 0 .. q - p
    BY <1>2, <1>3, <2>1
  <2>3. peerGot' = Run(0, p) \o Run(p, p + n)
    <3>1. Take(Run(p, q), n) = Run(p, p + n)
      BY <1>2, <2>2, RunSplit
    <3> QED BY <1>2, <1>5, <3>1 DEF RelayWrite
  <2>4. Run(0, p) \o Run(p, p + n) = Run(0, p + n)
    <3>1. 0 \in Nat /\ 0 =< p
      BY <1>2
    <3> QED BY <1>2, <2>2, <3>1, RunConcat
  <2>5. peerGot' = SubSeq(upSent, 1, p + n)
    BY <1>2, <2>2, <2>3, <2>4, RunPrefix
  <2>6. UNCHANGED upSent
    BY <1>5 DEF RelayWrite
  <2> QED BY <2>2, <2>5, <2>6 DEF UpStream!Next, UpStream!Deliver
<1>6. CASE UNCHANGED <<upSent, peerGot>>
  BY <1>6
<1>7. CASE Opening \/ PollShutdown \/ DropStream \/ RelayReceive \/ RelayWriteFails \/ UNCHANGED vars
  BY <1>6, <1>7 DEF Opening, WsOpens, WsRefused, PollReady, WsBreaks, PollShutdown, DropStream, RelayReceive,
                    RelayWriteFails, up, vars
<1>8. CASE Downward
  BY <1>6, <1>8 DEF Downward, PeerWrites, RelayRead, PollRead, PeerFinishes, TcpBreaks, RelayEnds,
                    RelaySendFails, OnMessage, OnClose, BlobRead, up
<1> QED BY <1>4, <1>5, <1>7, <1>8 DEF Next, Upward

(* A write of the peer is a Write, a poll_read that finds bytes a Deliver. *)
LEMMA DownStep == TypeOK /\ DownInv /\ [Next]_vars => [DownStream!Next]_<<peerSent, got>>
<1> SUFFICES ASSUME TypeOK, DownInv, [Next]_vars PROVE [DownStream!Next]_<<peerSent, got>>
  OBVIOUS
<1>1. PICK p \in 0 .. DownBytes, q \in 0 .. DownBytes, r \in 0 .. DownBytes, w \in 0 .. DownBytes :
          DownMarks(p, q, r, w)
  BY DEF DownInv
<1>2. /\ p \in Nat /\ q \in Nat /\ r \in Nat /\ w \in Nat /\ UpBytes \in Nat /\ DownBytes \in Nat
      /\ p =< q /\ q =< r /\ r =< w
      /\ peerSent = Run(0, w) /\ buffer = Run(p, q) /\ got = Run(0, p)
  BY <1>1, BoundsAssumption DEF DownMarks
<1>3. Len(peerSent) = w /\ Len(buffer) = q - p /\ Len(got) = p
  <2>1. 0 \in Nat /\ 0 =< w /\ 0 =< p
    BY <1>2
  <2>2. Len(Run(0, w)) = w - 0 /\ Len(Run(p, q)) = q - p /\ Len(Run(0, p)) = p - 0
    BY <1>2, <2>1, RunType
  <2> QED BY <1>2, <2>2
<1>4. ASSUME NEW n \in 1 .. MaxChunk, PeerWrites(n) PROVE DownStream!Next
  <2>1. n \in 1 .. DownBytes - Len(peerSent)
    BY <1>2, <1>3, <1>4, BoundsAssumption DEF PeerWrites
  <2>2. Fresh(peerSent, n) \in [1 .. n -> Bytes]
    <3>1. \A i \in 1 .. n : Len(peerSent) + i \in Bytes
      BY <1>2, <1>3, <2>1 DEF Bytes
    <3> QED BY <3>1 DEF Fresh
  <2>3. peerSent' = peerSent \o Fresh(peerSent, n) /\ UNCHANGED got
    BY <1>4 DEF PeerWrites, reading
  <2> QED BY <2>1, <2>2, <2>3 DEF DownStream!Next, DownStream!Write
<1>5. CASE UNCHANGED <<peerSent, got>>
  BY <1>5
<1>6. ASSUME NEW n \in 1 .. MaxChunk, PollRead(n) PROVE [DownStream!Next]_<<peerSent, got>>
  <2>1. PICK m \in 0 .. q - p : m = Least(n, Len(buffer))
    <3>1. Least(n, q - p) \in 0 .. q - p
      BY <1>2, BoundsAssumption DEF Least
    <3> QED BY <1>3, <3>1
  <2>2. got' = Run(0, p) \o Take(Run(p, q), m) /\ UNCHANGED peerSent
    BY <1>2, <1>6, <2>1 DEF PollRead, down
  <2>3. Take(Run(p, q), m) = Run(p, p + m)
    BY <1>2, RunSplit
  <2>4. p + m \in Nat /\ p + m =< w /\ p =< p + m /\ 0 \in Nat /\ 0 =< p
    BY <1>2
  <2>5. Run(0, p) \o Run(p, p + m) = Run(0, p + m)
    BY <1>2, <2>4, RunConcat
  <2>6. got' = SubSeq(peerSent, 1, p + m)
    BY <1>2, <2>2, <2>3, <2>4, <2>5, RunPrefix
  <2>7. CASE m = 0
    BY <1>2, <1>5, <2>2, <2>3, <2>5, <2>7
  <2>8. CASE m # 0
    <3>1. p + m \in Len(got) + 1 .. Len(peerSent)
      BY <1>2, <1>3, <2>4, <2>8
    <3> QED BY <2>2, <2>6, <3>1 DEF DownStream!Next, DownStream!Deliver
  <2> QED BY <2>7, <2>8
<1>7. CASE Opening \/ Upward \/ UNCHANGED vars
  BY <1>5, <1>7 DEF Opening, WsOpens, WsRefused, PollReady, WsBreaks, Upward, PollWrite, RelayWrite, PollShutdown,
                    DropStream, RelayReceive, RelayWriteFails, reading, down, vars
<1>8. ASSUME NEW n \in 1 .. MaxChunk, RelayRead(n) PROVE UNCHANGED <<peerSent, got>>
  BY <1>8 DEF RelayRead, reading
<1>9. CASE \/ PeerFinishes \/ TcpBreaks \/ RelayEnds \/ RelaySendFails \/ OnMessage \/ OnClose
           \/ \E i \in DOMAIN blobs : BlobRead(i)
  BY <1>5, <1>9 DEF PeerFinishes, TcpBreaks, RelayEnds, RelaySendFails, OnMessage, OnClose, BlobRead, reading, down
<1> QED BY <1>4, <1>5, <1>6, <1>7, <1>8, <1>9 DEF Next, Downward

(* UpIsStream for any number of bytes: whatever closes, breaks or is       *)
(* dropped, the peer has a prefix of what the client wrote.                *)
THEOREM UpImplementsByteStream == Spec => UpIsStream
<1>1. Init => UpStream!Init
  BY DEF Init, UpStream!Init
<1>2. [Next]_vars /\ Opened => Opened'
  BY AliveBefore
<1> QED BY <1>1, <1>2, TunnelTypeCorrect, InvInit, UpInvNext, UpStep, PTL DEF Spec, UpIsStream, UpStream!Spec

(* DownIsStream for any number of bytes: the client has a prefix of what   *)
(* the peer wrote, if the browser reads the Blobs in order.                *)
THEOREM DownImplementsByteStream ==
    ASSUME BlobsInOrder
    PROVE  Spec => DownIsStream
<1>1. Init => DownStream!Init
  BY DEF Init, DownStream!Init
<1>2. [Next]_vars /\ Opened => Opened'
  BY AliveBefore
<1>3. TypeOK /\ Opened /\ DownInv /\ [Next]_vars => DownInv'
  BY DownInvNext
<1> QED BY <1>1, <1>2, <1>3, TunnelTypeCorrect, InvInit, DownStep, PTL
        DEF Spec, DownIsStream, DownStream!Spec

-----------------------------------------------------------------------------
(* Who waits can still be woken.  These are the safety halves of what the  *)
(* model checker shows with fairness, AllIsRead and EndIsNoticed.          *)

LEMMA SleepersNext == TypeOK /\ SleepersAreWoken /\ [Next]_vars => SleepersAreWoken'
<1> SUFFICES ASSUME TypeOK, SleepersAreWoken, [Next]_vars PROVE SleepersAreWoken'
  OBVIOUS
<1> USE DEF SleepersAreWoken
<1>1. CASE UNCHANGED <<ws, opener, openWaker, reader, readWaker, buffer>>
  BY <1>1
<1>2. CASE Opening
  BY <1>2 DEF Opening, WsOpens, WsRefused, PollReady, WsBreaks, reading, client
<1>3. CASE PollShutdown \/ DropStream
  BY <1>3 DEF PollShutdown, DropStream, reading
<1>4. ASSUME NEW n \in 1 .. MaxChunk, PollWrite(n) \/ RelayWrite(n) PROVE SleepersAreWoken'
  BY <1>1, <1>4 DEF PollWrite, RelayWrite, client, reading
<1>5. CASE RelayReceive \/ RelayWriteFails
  BY <1>1, <1>5 DEF RelayReceive, RelayWriteFails, client, reading
<1>6. ASSUME NEW n \in 1 .. MaxChunk, PeerWrites(n) \/ RelayRead(n) PROVE SleepersAreWoken'
  BY <1>1, <1>6 DEF PeerWrites, RelayRead, client, reading
<1>7. CASE PeerFinishes \/ TcpBreaks \/ RelayEnds \/ RelaySendFails \/ OnMessage
  BY <1>1, <1>7 DEF PeerFinishes, TcpBreaks, RelayEnds, RelaySendFails, OnMessage, client, reading
<1>8. CASE OnClose
  BY <1>8 DEF OnClose, reading
<1>9. ASSUME NEW i \in DOMAIN blobs, BlobRead(i) PROVE SleepersAreWoken'
  BY <1>9 DEF BlobRead, client
<1>10. ASSUME NEW n \in 1 .. MaxChunk, PollRead(n) PROVE SleepersAreWoken'
  <2> DEFINE m == Least(n, Len(buffer))
  <2>1. /\ readWaker' = TRUE /\ buffer' = Rest(buffer, m) /\ UNCHANGED <<ws, opener, openWaker>>
        /\ reader' = IF m = 0 THEN "parked" ELSE "runnable"
    BY <1>10 DEF PollRead, client
  <2>2. buffer \in Seq(Bytes) /\ n \in Nat \ {0}
    BY BoundsAssumption DEF TypeOK
  <2>3. m = 0 => Len(buffer) = 0
    BY <2>2, LenProperties DEF Least
  <2> HIDE DEF m
  <2>4. Len(buffer) = 0 => Rest(buffer, 0) = <<>>
    <3>1. 0 \in 0 .. Len(buffer) /\ Len(buffer) - 0 = Len(buffer)
      BY <2>2, LenProperties
    <3>2. Rest(buffer, 0) \in Seq(Bytes) /\ Len(Rest(buffer, 0)) = Len(buffer) - 0
      BY <2>2, <3>1, PartsType
    <3> QED BY <3>1, <3>2, EmptySeq
  <2>5. m = 0 => buffer' = <<>>
    BY <2>1, <2>3, <2>4
  <2> QED BY <2>1, <2>5
<1>11. CASE UNCHANGED vars
  BY <1>1, <1>11 DEF vars, client, reading
<1> QED
  BY <1>2, <1>3, <1>4, <1>5, <1>6, <1>7, <1>8, <1>9, <1>10, <1>11 DEF Next, Upward, Downward

(* A message or a close is put behind those on their way to the client.    *)
LEMMA DownAppend ==
    ASSUME TypeOK, EndIsAnnounced, relay = "running", ~broken,
           NEW m \in Msg, wsDown' = Append(wsDown, m)
    PROVE  /\ \A i \in DOMAIN wsDown' : wsDown'[i] = Close => m = Close /\ i = Len(wsDown')
           /\ m = Close => \E i \in DOMAIN wsDown' : wsDown'[i] = Close
<1>1. /\ wsDown \in Seq(Msg) /\ Len(wsDown) \in Nat
      /\ Len(wsDown') = Len(wsDown) + 1 /\ DOMAIN wsDown' = 1 .. Len(wsDown) + 1
      /\ DOMAIN wsDown = 1 .. Len(wsDown)
      /\ \A i \in DOMAIN wsDown : wsDown'[i] = wsDown[i]
      /\ wsDown'[Len(wsDown) + 1] = m
  BY DEF TypeOK, Msg
<1>2. \A i \in DOMAIN wsDown : wsDown[i] # Close
  BY DEF EndIsAnnounced
<1>3. \A i \in DOMAIN wsDown' : wsDown'[i] = Close => i = Len(wsDown) + 1
  BY <1>1, <1>2
<1>4. Len(wsDown) + 1 \in DOMAIN wsDown'
  BY <1>1
<1> QED BY <1>1, <1>3, <1>4

(* The first message, or the close, has come.                              *)
LEMMA DownTail ==
    ASSUME TypeOK, EndIsAnnounced, wsDown # <<>>, wsDown' = Tail(wsDown)
    PROVE  /\ \A i \in DOMAIN wsDown' : wsDown'[i] = Close =>
                 (relay = "ended" \/ broken) /\ i = Len(wsDown')
           /\ Head(wsDown) # Close /\ (\E i \in DOMAIN wsDown : wsDown[i] = Close) =>
                 \E i \in DOMAIN wsDown' : wsDown'[i] = Close
<1>1. /\ wsDown \in Seq(Msg) /\ Len(wsDown) \in Nat /\ Head(wsDown) = wsDown[1]
      /\ Len(wsDown') = Len(wsDown) - 1 /\ DOMAIN wsDown' = 1 .. Len(wsDown) - 1
      /\ DOMAIN wsDown = 1 .. Len(wsDown)
      /\ \A i \in DOMAIN wsDown' : wsDown'[i] = wsDown[i + 1] /\ i + 1 \in DOMAIN wsDown
  BY DEF TypeOK, Msg
<1>2. ASSUME NEW i \in DOMAIN wsDown', wsDown'[i] = Close
      PROVE  (relay = "ended" \/ broken) /\ i = Len(wsDown')
  <2>1. i + 1 \in DOMAIN wsDown /\ wsDown[i + 1] = Close
    BY <1>1, <1>2
  <2>2. (relay = "ended" \/ broken) /\ i + 1 = Len(wsDown)
    BY <2>1 DEF EndIsAnnounced
  <2> QED BY <1>1, <2>2
<1>3. ASSUME Head(wsDown) # Close, NEW i \in DOMAIN wsDown, wsDown[i] = Close
      PROVE  \E j \in DOMAIN wsDown' : wsDown'[j] = Close
  <2>1. i - 1 \in DOMAIN wsDown' /\ (i - 1) + 1 = i
    BY <1>1, <1>3
  <2> QED BY <1>1, <1>3, <2>1
<1> QED BY <1>2, <1>3

(* The connection breaks: what is left ends in its end.                    *)
LEMMA DownCut ==
    ASSUME TypeOK, NEW q \in Cuts(wsDown)
    PROVE  /\ \A i \in DOMAIN q : q[i] = Close => i = Len(q)
           /\ \E i \in DOMAIN q : q[i] = Close
<1>1. PICK n \in {k \in 0 .. Len(wsDown) : \A i \in 1 .. k : wsDown[i] # Close} :
          q = Append(Take(wsDown, n), Close)
  BY DEF Cuts
<1>2. /\ wsDown \in Seq(Msg) /\ n \in 0 .. Len(wsDown) /\ n \in Nat
      /\ Take(wsDown, n) \in Seq(Msg) /\ Len(Take(wsDown, n)) = n
  BY PartsType DEF TypeOK, Msg
<1>3. /\ DOMAIN q = 1 .. n + 1 /\ Len(q) = n + 1 /\ q[n + 1] = Close
      /\ \A i \in 1 .. n : q[i] = Take(wsDown, n)[i]
  BY <1>1, <1>2
<1>4. \A i \in 1 .. n : q[i] = wsDown[i] /\ q[i] # Close
  BY <1>1, <1>2, <1>3 DEF Take
<1> QED BY <1>2, <1>3, <1>4

LEMMA AnnouncedNext == TypeOK /\ EndIsAnnounced /\ [Next]_vars => EndIsAnnounced'
<1> SUFFICES ASSUME TypeOK, EndIsAnnounced, [Next]_vars PROVE EndIsAnnounced'
  OBVIOUS
<1>1. CASE UNCHANGED <<relay, broken, evicted, handlers, wsDown>>
  BY <1>1 DEF EndIsAnnounced
<1>2. CASE Opening
  <2>1. CASE WsBreaks
    <3>1. wsDown' \in Cuts(wsDown) /\ broken'
      BY <2>1 DEF WsBreaks
    <3> QED BY <3>1, DownCut DEF EndIsAnnounced
  <2> QED BY <1>2, <2>1 DEF Opening, WsOpens, WsRefused, PollReady, EndIsAnnounced, down, link
<1>3. ASSUME NEW n \in 1 .. MaxChunk, PollWrite(n) \/ RelayWrite(n) PROVE EndIsAnnounced'
  BY <1>1, <1>3 DEF PollWrite, RelayWrite, client, down, link
<1>4. CASE PollShutdown \/ DropStream
  BY <1>4 DEF PollShutdown, DropStream, EndIsAnnounced, down, link
(* The ends of the relay.                                                  *)
<1>5. ASSUME relay = "running", relay' = "ended", wsDown' = Closed(wsDown),
             UNCHANGED <<broken, evicted, handlers>>
      PROVE  EndIsAnnounced'
  <2>1. CASE broken
    BY <1>5, <2>1 DEF EndIsAnnounced, Closed
  <2>2. CASE ~broken
    <3>1. Close \in Msg
      BY DEF Msg
    <3> QED BY <1>5, <2>2, <3>1, DownAppend DEF EndIsAnnounced, Closed
  <2> QED BY <2>1, <2>2
<1>6. CASE RelayReceive
  BY <1>1, <1>5, <1>6 DEF RelayReceive, client
<1>7. CASE RelayWriteFails \/ RelayEnds \/ RelaySendFails
  BY <1>5, <1>7 DEF RelayWriteFails, RelayEnds, RelaySendFails, Closed, client, down
<1>8. ASSUME NEW n \in 1 .. MaxChunk, RelayRead(n) PROVE EndIsAnnounced'
  <2>1. n \in 0 .. Len(tcpDown) /\ tcpDown \in Seq(Bytes)
    BY <1>8, BoundsAssumption DEF RelayRead, TypeOK
  <2>2. Take(tcpDown, n) \in Seq(Bytes)
    BY <2>1, PartsType
  <2>3. Take(tcpDown, n) # Close
    <3>1. Close \notin Seq(Bytes)
      <4>1. Len(Close) = 1 /\ Close[1] = 0 /\ 0 \notin Bytes
        BY BoundsAssumption DEF Close, Bytes
      <4> QED BY <4>1
    <3> QED BY <2>2, <3>1
  <2>4. /\ relay = "running" /\ UNCHANGED <<relay, broken, evicted, handlers>>
        /\ wsDown' = IF broken THEN wsDown ELSE Append(wsDown, Take(tcpDown, n))
    BY <1>8 DEF RelayRead, link, client
  <2>6. CASE broken
    BY <1>1, <2>4, <2>6
  <2>7. CASE ~broken
    <3>1. \A i \in DOMAIN wsDown' : wsDown'[i] # Close
      BY <2>2, <2>3, <2>4, <2>7, DownAppend DEF Msg
    <3> QED BY <2>4, <2>7, <3>1 DEF EndIsAnnounced
  <2> QED BY <2>6, <2>7
<1>9. ASSUME NEW n \in 1 .. MaxChunk, PeerWrites(n) \/ PollRead(n) PROVE EndIsAnnounced'
  BY <1>1, <1>9 DEF PeerWrites, PollRead, client, down, link
<1>10. CASE PeerFinishes \/ TcpBreaks
  BY <1>1, <1>10 DEF PeerFinishes, TcpBreaks, client, link
<1>11. CASE OnMessage
  <2>1. /\ wsDown # <<>> /\ Head(wsDown) # Close /\ wsDown' = Tail(wsDown)
        /\ UNCHANGED <<relay, broken, evicted, handlers>>
    BY <1>11 DEF OnMessage, client, link
  <2> QED BY <2>1, DownTail DEF EndIsAnnounced
<1>12. CASE OnClose
  <2>1. /\ wsDown # <<>> /\ wsDown' = Tail(wsDown) /\ UNCHANGED <<relay, broken, handlers>>
        /\ evicted' = (evicted \/ handlers)
    BY <1>12 DEF OnClose, link
  <2> QED BY <2>1, DownTail DEF EndIsAnnounced
<1>13. ASSUME NEW i \in DOMAIN blobs, BlobRead(i) PROVE EndIsAnnounced'
  BY <1>1, <1>13 DEF BlobRead, client, down, link
<1>14. CASE UNCHANGED vars
  BY <1>1, <1>14 DEF vars, client, down, link
<1> QED
  BY <1>2, <1>3, <1>4, <1>6, <1>7, <1>8, <1>9, <1>10, <1>11, <1>12, <1>13, <1>14
  DEF Next, Upward, Downward

(* No wakeup is lost, for any bytes and messages, in whatever order Blobs  *)
(* are read: who parked has left the waker that the next event calls.  And *)
(* however the relay ends, the client is told, or has dropped the stream,  *)
(* and it is told last.                                                    *)
THEOREM EventsAreNotMissed == Spec => []NoEventIsMissed
<1>1. Init => SleepersAreWoken /\ EndIsAnnounced
  BY DEF Init, SleepersAreWoken, EndIsAnnounced
<1> QED BY <1>1, TunnelTypeCorrect, SleepersNext, AnnouncedNext, PTL DEF Spec, NoEventIsMissed
=============================================================================
