---------------------------- MODULE ConnectProofs ----------------------------
(* Proofs about Connect, for any requests, names, answers and expiry.      *)
EXTENDS Connect, TLAPS

-----------------------------------------------------------------------------
(* The strengthening.  Task says what each task knows where it stands;     *)
(* Cached that each entry is an answer with its own expiry.                *)

Answer(g, d, list, expiry) == g.domain = d /\ g.ips = list /\ g.time + Ttl = expiry

Recent(r) ==
    (Located(r) /\ ByName(r) /\ pc[r] # "gone" /\ ips[r] # <<>>) =>
        \E g \in given : /\ g.domain = Arg(r, 1) /\ g.ips = ips[r]
                         /\ r \in asked \/ found[r] <= g.time + Ttl

Waits(r) ==
    /\ pc[r] \in {"asking", "caching"} => ByName(r) /\ r \in asked
    /\ pc[r] = "caching" => \E g \in given : Answer(g, Arg(r, 1), ips[r], ttl[r])

Owns(r) == (Located(r) /\ ByName(r) /\ ips[r] = <<>>) => r \in asked

Lone(r) == (Located(r) /\ ~ByName(r)) => ips[r] = <<Arg(r, 1)>>

Tried(r) ==
    (/\ Located(r) /\ reply[r] = 500
     /\ WrongTransport(r) = None /\ Relayable(r))
        => tried[r] = Len(ips[r])

Status(r) ==
    /\ pc[r] \in {"asking", "caching", "dialing", "connected"} => Refusal(r) = None /\ reply[r] = None
    /\ pc[r] = "new" => reply[r] = None
    /\ reply[r] = 500 => pc[r] = "done"

Opened(r) ==
    /\ pc[r] \in {"connected", "upgrading", "relaying"} =>
          /\ Refusal(r) = None /\ Kind(r, 2) = "tcp" /\ tried[r] < Len(ips[r])
          /\ on[r] = <<ips[r][tried[r] + 1], Arg(r, 2)>>
    /\ pc[r] \in {"upgrading", "relaying"} => Relayable(r)

Task(r) == Recent(r) /\ Waits(r) /\ Owns(r) /\ Lone(r) /\ Tried(r) /\ Status(r) /\ Opened(r)

Cached ==
    \A d \in Domains : cache[d] # None =>
        \E g \in given : Answer(g, d, cache[d].ips, cache[d].ttl)

Maps ==
    /\ DOMAIN ips = Requests /\ DOMAIN on = Requests /\ DOMAIN found = Requests
    /\ DOMAIN cache = Domains

IInv ==
    /\ TypeOK /\ Maps /\ Cached /\ \A g \in given : g.ips \in Answers
    /\ \A r \in Requests : Task(r)

(* It holds before any request.                                            *)
LEMMA InitIInv == Init => IInv
<1> SUFFICES ASSUME Init PROVE IInv
  OBVIOUS
<1>1. TypeOK
  BY TimeAssumption, AnswerAssumption DEF Init, TypeOK
<1>2. Maps /\ Cached /\ \A g \in given : g.ips \in Answers
  BY DEF Init, Maps, Cached
<1>3. ASSUME NEW r \in Requests PROVE Task(r)
  BY NoneAssumption DEF Init, Statuses, Task, Recent, Waits, Owns, Lone, Tried, Status, Opened,
         Located
<1> QED BY <1>1, <1>2, <1>3 DEF IInv

(* What a request is does not change, and with it all that is read of it.  *)
LEMMA SameRequest ==
    ASSUME req' = req, NEW r \in Requests
    PROVE  /\ Refusal(r)' = Refusal(r) /\ WrongTransport(r)' = WrongTransport(r)
           /\ ByName(r)' = ByName(r) /\ Literal(r)' = Literal(r)
           /\ Arg(r, 1)' = Arg(r, 1) /\ Arg(r, 2)' = Arg(r, 2)
           /\ Kind(r, 2)' = Kind(r, 2) /\ Relayable(r)' = Relayable(r)
  BY DEF Refusal, WrongTransport, ByName, Literal, Relayable, Kind, Arg, Proto

(* A task that does not move keeps what it knows.                          *)
LEMMA OtherTask ==
    ASSUME req' = req, NEW r \in Requests, Task(r),
           pc'[r] = pc[r], ips'[r] = ips[r], ttl'[r] = ttl[r], tried'[r] = tried[r],
           on'[r] = on[r], reply'[r] = reply[r], found'[r] = found[r],
           given \subseteq given', asked \subseteq asked'
    PROVE  Task(r)'
<1>1. /\ Refusal(r)' = Refusal(r) /\ WrongTransport(r)' = WrongTransport(r)
      /\ ByName(r)' = ByName(r) /\ Arg(r, 1)' = Arg(r, 1) /\ Arg(r, 2)' = Arg(r, 2)
      /\ Kind(r, 2)' = Kind(r, 2) /\ Relayable(r)' = Relayable(r)
      /\ Located(r)' = Located(r)
  BY SameRequest DEF Located
<1>2. Recent(r)'
  BY <1>1 DEF Task, Recent
<1>3. Waits(r)'
  BY <1>1 DEF Task, Waits, Answer
<1>4. Owns(r)' /\ Lone(r)' /\ Tried(r)' /\ Status(r)' /\ Opened(r)'
  BY <1>1 DEF Task, Owns, Lone, Tried, Status, Opened
<1> QED BY <1>2, <1>3, <1>4 DEF Task

(* Statuses are what a refusal answers with.                               *)
LEMMA RefusalStatus ==
    ASSUME NEW r \in Requests
    PROVE  /\ Refusal(r) \in Statuses \cup {None}
           /\ WrongTransport(r) \in Statuses \cup {None}
  BY DEF Refusal, WrongTransport, Statuses

(* A request by name asks for one of the cache's keys, and one with an     *)
(* address for an argument of an input.                                    *)
LEMMA ArgumentKnown ==
    ASSUME IInv, NEW r \in Requests, Refusal(r) = None
    PROVE  /\ ByName(r) => Arg(r, 1) \in Domains
           /\ Literal(r) => ~ByName(r) /\ Arg(r, 1) \in Hosts
           /\ Kind(r, 2) = "tcp" => Arg(r, 2) \in Arguments
<1> DEFINE i == req[r]
<1>1. i \in Inputs
  BY DEF IInv, TypeOK
<1>2. i.addr # Invalid
  BY NoneAssumption DEF Refusal, Statuses
<1>3. i.addr \in Seq(Range(i.addr)) /\ \A p \in Range(i.addr) : p[1] \in {"dns", "dnsaddr"} => p[2] \in Domains
  BY <1>1, <1>2, InputAssumption
<1>4. \A p \in Range(i.addr) : p[2] \in Arguments
  BY <1>1, <1>2 DEF Arguments
<1> HIDE DEF i
<1>5. \A k \in Nat \ {0} : k <= Len(i.addr) => i.addr[k] \in Range(i.addr)
  BY <1>3
<1>6. ASSUME NEW k \in {1, 2}, Kind(r, k) # "none"
      PROVE  Proto(r, k) \in Range(i.addr)
  BY <1>5, <1>6 DEF Kind, Proto, i
<1>7. ASSUME NEW k \in {1, 2}, Kind(r, k) # "none"
      PROVE  /\ Arg(r, k) \in Arguments
             /\ Kind(r, k) \in {"dns", "dnsaddr"} => Arg(r, k) \in Domains
  BY <1>3, <1>4, <1>6, <1>7 DEF Arg, Kind
<1> QED BY <1>7 DEF Literal, ByName, Hosts

(* A refusal tells its own request something, and no other.                *)
LEMMA RefuseStep ==
    ASSUME IInv, NEW r \in Requests, Refuse(r)
    PROVE  IInv'
<1>1. req' = req /\ Task(r)
  BY DEF IInv, Refuse
<1>2. ASSUME NEW q \in Requests, q # r PROVE Task(q)'
  BY <1>2, OtherTask DEF IInv, Refuse, Replies, history
<1>3. Task(r)'
  BY <1>1, SameRequest DEF IInv, TypeOK, Task, Recent, Waits, Located, Refuse, Replies, Owns, Lone,
         Tried, Status, Opened
<1>4. TypeOK'
  BY SameRequest, RefusalStatus DEF IInv, TypeOK, Replies, Refuse
<1>5. Maps' /\ Cached' /\ \A g \in given' : g.ips \in Answers
  BY DEF IInv, Maps, Cached, Refuse, history
<1> QED BY <1>2, <1>3, <1>4, <1>5 DEF IInv

(* An address in the multiaddr needs no answer of the provider.            *)
LEMMA UseLiteralStep ==
    ASSUME IInv, NEW r \in Requests, UseLiteral(r)
    PROVE  IInv'
<1>1. req' = req /\ Task(r)
  BY DEF IInv, UseLiteral
<1>2. ASSUME NEW q \in Requests, q # r PROVE Task(q)'
  BY <1>2, OtherTask DEF IInv, UseLiteral, Found
<1>3. Task(r)'
  BY <1>1, SameRequest, ArgumentKnown DEF IInv, Maps, TypeOK, Recent, UseLiteral, Found, Task, Waits, Owns, Lone, Tried,
         Status, Opened
<1>4. TypeOK'
  BY SameRequest DEF IInv, TypeOK, UseLiteral, Found
<1>5. Maps' /\ Cached' /\ \A g \in given' : g.ips \in Answers
  BY DEF IInv, Maps, Cached, UseLiteral, Found
<1> QED BY <1>2, <1>3, <1>4, <1>5 DEF IInv

(* An entry that has not expired is an answer that is recent.              *)
LEMMA UseCacheStep ==
    ASSUME IInv, NEW r \in Requests, UseCache(r)
    PROVE  IInv'
<1>1. req' = req /\ Task(r)
  BY DEF IInv, UseCache
<1>2. ASSUME NEW q \in Requests, q # r PROVE Task(q)'
  BY <1>2, OtherTask DEF IInv, UseCache, Found
<1>3. Task(r)'
  <2>1. Recent(r)'
    <3>1. PICK g \in given : Answer(g, Arg(r, 1), cache[Arg(r, 1)].ips, cache[Arg(r, 1)].ttl)
      BY ArgumentKnown DEF IInv, Cached, UseCache, Usable
    <3>2. ips'[r] = cache[Arg(r, 1)].ips /\ found'[r] = now /\ now <= cache[Arg(r, 1)].ttl /\ given' = given
      BY DEF IInv, Maps, UseCache, Usable, Found
    <3> QED BY <1>1, SameRequest, <3>1, <3>2 DEF Recent, Answer
  <2>2. Waits(r)' /\ Owns(r)' /\ Lone(r)' /\ Tried(r)' /\ Status(r)' /\ Opened(r)'
    BY SameRequest DEF IInv, Maps, Task, Waits, UseCache, Found, Usable, Owns, Lone, Tried, Status,
           Opened
  <2> QED BY <2>1, <2>2 DEF Task
<1>4. TypeOK'
  <2>1. cache[Arg(r, 1)].ips \in Answers
    BY ArgumentKnown DEF IInv, TypeOK, UseCache, Usable
  <2> QED BY <1>1, SameRequest, <2>1 DEF IInv, TypeOK, Maps, UseCache, Found, history
<1>5. Maps' /\ Cached' /\ \A g \in given' : g.ips \in Answers
  BY DEF IInv, Maps, Cached, UseCache, Found
<1> QED BY <1>2, <1>3, <1>4, <1>5 DEF IInv

(* Who finds nothing to use asks, and has asked from then on.              *)
LEMMA AskProviderStep ==
    ASSUME IInv, NEW r \in Requests, AskProvider(r)
    PROVE  IInv'
<1>1. req' = req /\ Task(r)
  BY DEF IInv, AskProvider
<1>2. ASSUME NEW q \in Requests, q # r PROVE Task(q)'
  BY <1>2, OtherTask DEF IInv, AskProvider
<1>3. Task(r)'
  BY <1>1, SameRequest DEF Task, Recent, Waits, Located, AskProvider, Owns, Lone, Tried, Status,
         Opened
<1>4. TypeOK'
  BY SameRequest DEF IInv, TypeOK, AskProvider
<1>5. Maps' /\ Cached' /\ \A g \in given' : g.ips \in Answers
  BY DEF IInv, Maps, Cached, AskProvider
<1> QED BY <1>2, <1>3, <1>4, <1>5 DEF IInv

(* Who is left without addresses has asked for them itself.                *)
LEMMA ProviderFailsStep ==
    ASSUME IInv, NEW r \in Requests, ProviderFails(r)
    PROVE  IInv'
<1>1. req' = req /\ Task(r)
  BY DEF IInv, ProviderFails
<1>2. ASSUME NEW q \in Requests, q # r PROVE Task(q)'
  BY <1>2, OtherTask DEF IInv, ProviderFails, Found
<1>3. Task(r)'
  BY SameRequest DEF IInv, Maps, Task, Recent, Waits, ProviderFails, Found, Owns, Lone, Tried,
         Status, Opened
<1>4. TypeOK'
  BY SameRequest, AnswerAssumption DEF IInv, TypeOK, ProviderFails, Found
<1>5. Maps' /\ Cached' /\ \A g \in given' : g.ips \in Answers
  BY DEF IInv, Maps, Cached, ProviderFails, Found
<1> QED BY <1>2, <1>3, <1>4, <1>5 DEF IInv

(* The answer is recorded with the time it is good for.                    *)
LEMMA ProviderAnswersStep ==
    ASSUME IInv, NEW r \in Requests, NEW list \in Answers, ProviderAnswers(r, list)
    PROVE  IInv'
<1>1. req' = req /\ Task(r)
  BY DEF IInv, ProviderAnswers
<1>2. ASSUME NEW q \in Requests, q # r PROVE Task(q)'
  BY <1>2, OtherTask DEF IInv, ProviderAnswers
<1>3. Task(r)'
  <2>1. Waits(r)'
    <3> DEFINE g == [domain |-> Arg(r, 1), ips |-> list, time |-> now]
    <3>1. g \in given' /\ ips'[r] = list /\ ttl'[r] = now + Ttl
      BY DEF IInv, TypeOK, Maps, ProviderAnswers
    <3>2. Answer(g, Arg(r, 1), ips'[r], ttl'[r])
      BY <3>1 DEF Answer
    <3>3. ByName(r) /\ r \in asked'
      BY <1>1 DEF Task, Waits, ProviderAnswers
    <3> QED BY <1>1, SameRequest, <3>1, <3>2, <3>3 DEF Waits
  <2>2. Recent(r)' /\ Owns(r)' /\ Lone(r)' /\ Tried(r)' /\ Status(r)' /\ Opened(r)'
    BY <1>1, SameRequest DEF Task, Recent, Located, ProviderAnswers, Owns, Lone, Tried, Status,
           Opened
  <2> QED BY <2>1, <2>2 DEF Task
<1>4. TypeOK'
  BY SameRequest, TimeAssumption DEF IInv, TypeOK, ProviderAnswers
<1>5. Maps' /\ Cached' /\ \A g \in given' : g.ips \in Answers
  <2>1. given \subseteq given' /\ cache' = cache /\ Maps'
    BY DEF IInv, Maps, ProviderAnswers
  <2>2. Cached'
    BY <2>1 DEF IInv, Cached
  <2>3. \A g \in given' : g.ips \in Answers
    BY DEF IInv, ProviderAnswers
  <2> QED BY <2>1, <2>2, <2>3
<1> QED BY <1>2, <1>3, <1>4, <1>5 DEF IInv

(* What is put in the cache is the answer that this task waited for.       *)
LEMMA CacheAnswerStep ==
    ASSUME IInv, NEW r \in Requests, CacheAnswer(r)
    PROVE  IInv'
<1>1. req' = req /\ Task(r)
  BY DEF IInv, CacheAnswer
<1>2. ASSUME NEW q \in Requests, q # r PROVE Task(q)'
  BY <1>2, OtherTask DEF IInv, CacheAnswer, Found
<1>3. Task(r)'
  BY <1>1, SameRequest DEF Task, Recent, Waits, Answer, CacheAnswer, Found, Owns, Lone, Tried,
         Status, Opened
<1>4. TypeOK'
  <2>1. ips[r] \in Answers
    BY DEF IInv, Task, Waits, Answer, CacheAnswer
  <2> QED BY <1>1, SameRequest, <2>1 DEF IInv, TypeOK, Maps, CacheAnswer, Found, history
<1>5. Maps' /\ Cached' /\ \A g \in given' : g.ips \in Answers
  BY DEF IInv, Maps, Cached, Task, Waits, CacheAnswer, Found
<1> QED BY <1>2, <1>3, <1>4, <1>5 DEF IInv

(* The transport is refused before any address is tried.                   *)
LEMMA RefuseTransportStep ==
    ASSUME IInv, NEW r \in Requests, RefuseTransport(r)
    PROVE  IInv'
<1>1. req' = req /\ Task(r)
  BY DEF IInv, RefuseTransport
<1>2. ASSUME NEW q \in Requests, q # r PROVE Task(q)'
  BY <1>2, OtherTask DEF IInv, RefuseTransport, Replies, history
<1>3. Task(r)'
  BY <1>1, SameRequest DEF IInv, TypeOK, Task, Recent, Waits, Located, RefuseTransport,
         Replies, history, Owns, Lone, Tried, Status, Opened
<1>4. TypeOK'
  BY SameRequest, RefusalStatus DEF IInv, TypeOK, Replies, RefuseTransport
<1>5. Maps' /\ Cached' /\ \A g \in given' : g.ips \in Answers
  BY DEF IInv, Maps, Cached, RefuseTransport, history
<1> QED BY <1>2, <1>3, <1>4, <1>5 DEF IInv

(* One address less is left to try.                                        *)
LEMMA DialFailsStep ==
    ASSUME IInv, NEW r \in Requests, DialFails(r)
    PROVE  IInv'
<1>1. req' = req /\ Task(r)
  BY DEF IInv, DialFails
<1>2. ASSUME NEW q \in Requests, q # r PROVE Task(q)'
  BY <1>2, OtherTask DEF IInv, DialFails, history
<1>3. Task(r)'
  BY <1>1, SameRequest DEF Task, Recent, Waits, Located, DialFails, Dialing, history, Owns, Lone, Tried,
         Status, Opened
<1>4. TypeOK'
  BY SameRequest DEF IInv, TypeOK, DialFails
<1>5. Maps' /\ Cached' /\ \A g \in given' : g.ips \in Answers
  BY DEF IInv, Maps, Cached, DialFails, history
<1> QED BY <1>2, <1>3, <1>4, <1>5 DEF IInv

(* All addresses were tried.                                               *)
LEMMA GiveUpStep ==
    ASSUME IInv, NEW r \in Requests, GiveUp(r)
    PROVE  IInv'
<1>1. req' = req /\ Task(r)
  BY DEF IInv, GiveUp
<1>2. ASSUME NEW q \in Requests, q # r PROVE Task(q)'
  BY <1>2, OtherTask DEF IInv, GiveUp, Replies, history
<1>3. Task(r)'
  BY <1>1, SameRequest DEF IInv, TypeOK, Task, Recent, Waits, Located, GiveUp, Dialing,
         Replies, history, Owns, Lone, Tried, Status, Opened
<1>4. TypeOK'
  BY SameRequest DEF IInv, TypeOK, Statuses, Replies, GiveUp
<1>5. Maps' /\ Cached' /\ \A g \in given' : g.ips \in Answers
  BY DEF IInv, Maps, Cached, GiveUp, history
<1> QED BY <1>2, <1>3, <1>4, <1>5 DEF IInv

(* A transport is opened, to the next address and the port asked for.      *)
LEMMA DialConnectsStep ==
    ASSUME IInv, NEW r \in Requests, DialConnects(r)
    PROVE  IInv'
<1>1. req' = req /\ Task(r)
  BY DEF IInv, DialConnects
<1>2. ASSUME NEW q \in Requests, q # r PROVE Task(q)'
  BY <1>2, OtherTask DEF IInv, TypeOK, Maps, DialConnects, history
<1>3. Task(r)'
  <2>1. Kind(r, 2) = "tcp" /\ Refusal(r) = None
    BY <1>1, NoneAssumption DEF Task, Status, DialConnects, Dialing, WrongTransport, Statuses
  <2>2. Opened(r)'
    BY SameRequest, <2>1 DEF IInv, TypeOK, Maps, Opened, DialConnects
  <2>3. Recent(r)' /\ Waits(r)' /\ Owns(r)' /\ Lone(r)' /\ Tried(r)' /\ Status(r)'
    BY <1>1, <2>1, SameRequest DEF IInv, TypeOK, Task, Recent, Waits, Located, Owns, Lone, Tried,
           Status, DialConnects, Dialing, history
  <2> QED BY <2>2, <2>3 DEF Task
<1>4. TypeOK'
  BY SameRequest DEF IInv, TypeOK, DialConnects
<1>5. Maps' /\ Cached' /\ \A g \in given' : g.ips \in Answers
  BY DEF IInv, Maps, Cached, DialConnects, history
<1> QED BY <1>2, <1>3, <1>4, <1>5 DEF IInv

(* A request at fault behind its port is refused with its transport.       *)
LEMMA RefuseConnectedStep ==
    ASSUME IInv, NEW r \in Requests, RefuseConnected(r)
    PROVE  IInv'
<1>1. req' = req /\ Task(r)
  BY DEF IInv, RefuseConnected
<1>2. ASSUME NEW q \in Requests, q # r PROVE Task(q)'
  BY <1>2, OtherTask DEF IInv, TypeOK, Maps, RefuseConnected, Replies, history
<1>3. Task(r)'
  BY <1>1, SameRequest DEF IInv, TypeOK, Task, Recent, Waits, Located, RefuseConnected,
         Replies, history, Owns, Lone, Tried, Status, Opened
<1>4. TypeOK'
  BY SameRequest DEF IInv, TypeOK, Statuses, Replies, RefuseConnected
<1>5. Maps' /\ Cached' /\ \A g \in given' : g.ips \in Answers
  BY DEF IInv, Maps, Cached, RefuseConnected, history
<1> QED BY <1>2, <1>3, <1>4, <1>5 DEF IInv

(* One that has no fault is upgraded on it.                                *)
LEMMA UpgradeStep ==
    ASSUME IInv, NEW r \in Requests, Upgrade(r)
    PROVE  IInv'
<1>1. req' = req /\ Task(r)
  BY DEF IInv, Upgrade
<1>2. ASSUME NEW q \in Requests, q # r PROVE Task(q)'
  BY <1>2, OtherTask DEF IInv, TypeOK, Maps, Upgrade, history
<1>3. Task(r)'
  BY <1>1, SameRequest DEF IInv, TypeOK, Task, Recent, Waits, Located, Upgrade, history,
         Owns, Lone, Tried, Status, Opened
<1>4. TypeOK'
  BY SameRequest DEF IInv, TypeOK, Statuses, Upgrade
<1>5. Maps' /\ Cached' /\ \A g \in given' : g.ips \in Answers
  BY DEF IInv, Maps, Cached, Upgrade, history
<1> QED BY <1>2, <1>3, <1>4, <1>5 DEF IInv

(* The upgrade keeps the transport or drops it.                            *)
LEMMA UpgradeEndsStep ==
    ASSUME IInv, NEW r \in Requests, UpgradeEnds(r)
    PROVE  IInv'
<1>1. req' = req /\ Task(r)
  BY DEF IInv, UpgradeEnds
<1>2. ASSUME NEW q \in Requests, q # r PROVE Task(q)'
  BY <1>2, OtherTask DEF IInv, UpgradeEnds, history
<1>3. Task(r)'
  BY <1>1, SameRequest DEF Task, Recent, Waits, Located, UpgradeEnds, history, Owns, Lone, Tried,
         Status, Opened
<1>4. TypeOK'
  BY SameRequest DEF IInv, TypeOK, UpgradeEnds
<1>5. Maps' /\ Cached' /\ \A g \in given' : g.ips \in Answers
  BY DEF IInv, Maps, Cached, UpgradeEnds, history
<1> QED BY <1>2, <1>3, <1>4, <1>5 DEF IInv

(* The relay drops it.                                                     *)
LEMMA RelayEndsStep ==
    ASSUME IInv, NEW r \in Requests, RelayEnds(r)
    PROVE  IInv'
<1>1. req' = req /\ Task(r)
  BY DEF IInv, RelayEnds
<1>2. ASSUME NEW q \in Requests, q # r PROVE Task(q)'
  BY <1>2, OtherTask DEF IInv, RelayEnds, history
<1>3. Task(r)'
  BY <1>1, SameRequest DEF IInv, TypeOK, Maps, Task, Recent, Waits, Located, RelayEnds,
         history, Owns, Lone, Tried, Status, Opened
<1>4. TypeOK'
  BY SameRequest DEF IInv, TypeOK, RelayEnds
<1>5. Maps' /\ Cached' /\ \A g \in given' : g.ips \in Answers
  BY DEF IInv, Maps, Cached, RelayEnds, history
<1> QED BY <1>2, <1>3, <1>4, <1>5 DEF IInv

(* A request whose client leaves drops what it holds.                      *)
LEMMA ClientLeavesStep ==
    ASSUME IInv, NEW r \in Requests, ClientLeaves(r)
    PROVE  IInv'
<1>1. req' = req /\ Task(r)
  BY DEF IInv, ClientLeaves
<1>2. ASSUME NEW q \in Requests, q # r PROVE Task(q)'
  BY <1>2, OtherTask DEF IInv, Maps, ClientLeaves, history
<1>3. Task(r)'
  BY <1>1, SameRequest DEF IInv, TypeOK, Task, Recent, Waits, Located, ClientLeaves, history, Owns, Lone, Tried,
         Status, Opened
<1>4. TypeOK'
  BY SameRequest DEF IInv, TypeOK, ClientLeaves
<1>5. Maps' /\ Cached' /\ \A g \in given' : g.ips \in Answers
  BY DEF IInv, Maps, Cached, ClientLeaves, history
<1> QED BY <1>2, <1>3, <1>4, <1>5 DEF IInv

(* Time changes nothing that is known: it is bounded by MaxTime.           *)
LEMMA TickStep ==
    ASSUME IInv, Tick \/ UNCHANGED vars
    PROVE  IInv'
<1>1. UNCHANGED <<tasks, cache, history>>
  BY DEF Tick, vars
<1>2. ASSUME NEW r \in Requests PROVE Task(r)'
  BY <1>1, OtherTask DEF IInv, tasks, history
<1>3. now' \in 0 .. MaxTime
  BY TimeAssumption DEF IInv, TypeOK, Tick, vars
<1>4. TypeOK' /\ Maps' /\ Cached' /\ \A g \in given' : g.ips \in Answers
  BY <1>1, <1>3, SameRequest DEF IInv, TypeOK, Maps, Cached, tasks, history
<1> QED BY <1>2, <1>4 DEF IInv

(* So no step breaks it.                                                   *)
LEMMA NextIInv == IInv /\ [Next]_vars => IInv'
<1> SUFFICES ASSUME IInv, [Next]_vars PROVE IInv'
  OBVIOUS
<1>1. CASE Tick \/ UNCHANGED vars
  BY <1>1, TickStep
<1>2. ASSUME NEW r \in Requests, Refuse(r) \/ ClientLeaves(r) PROVE IInv'
  BY <1>2, RefuseStep, ClientLeavesStep
<1>3. ASSUME NEW r \in Requests, Resolving(r) PROVE IInv'
  BY <1>3, UseLiteralStep, UseCacheStep, AskProviderStep, ProviderFailsStep,
     ProviderAnswersStep,
     CacheAnswerStep DEF Resolving
<1>4. ASSUME NEW r \in Requests, Connecting(r) PROVE IInv'
  BY <1>4, RefuseTransportStep, DialFailsStep, GiveUpStep, DialConnectsStep,
     RefuseConnectedStep, UpgradeStep, UpgradeEndsStep, RelayEndsStep DEF Connecting
<1> QED BY <1>1, <1>2, <1>3, <1>4 DEF Next

(* It holds always.                                                        *)
LEMMA SpecIInv == Spec => []IInv
  BY InitIInv, NextIInv, PTL DEF Spec

-----------------------------------------------------------------------------
(* Every variable keeps its type.                                          *)
THEOREM ConnectTypeCorrect == Spec => []TypeOK
<1>1. IInv => TypeOK
  BY DEF IInv
<1> QED BY <1>1, SpecIInv, PTL

(* What the cache serves is an answer for that name, at most Ttl old when  *)
(* it is taken, however many requests write and read it meanwhile; and no  *)
(* request is left without addresses by the failure of another.            *)
THEOREM CacheStaysHonest == Spec => []CacheIsHonest
<1>1. IInv => AnswerIsRecent
  BY DEF IInv, Task, Recent, AnswerIsRecent
<1>2. IInv => FailureIsOwn
  BY DEF IInv, Task, Owns, FailureIsOwn
<1> QED BY <1>1, <1>2, SpecIInv, PTL DEF CacheIsHonest

(* A request is not refused before each of its addresses was tried.        *)
THEOREM EveryAddressIsTried == Spec => []AllAreTried
<1>1. IInv => AllAreTried
  BY DEF IInv, Task, Tried, AllAreTried
<1> QED BY <1>1, SpecIInv, PTL

(* Who is relayed is relayed as it asked, whatever the other tasks did to  *)
(* the cache meanwhile.                                                    *)
THEOREM RelayedAsAsked == Spec => []RelaysAsAsked
<1>1. IInv => RelaysAsAsked
  <2> SUFFICES ASSUME IInv, NEW r \in Requests, pc[r] \in {"upgrading", "relaying"}
               PROVE  /\ Refusal(r) = None /\ Kind(r, 2) = "tcp" /\ Relayable(r)
                      /\ on[r][2] = Arg(r, 2)
                      /\ Literal(r) => on[r][1] = Arg(r, 1)
                      /\ ByName(r) => \E g \in given :
                            /\ g.domain = Arg(r, 1) /\ on[r][1] \in Range(g.ips)
                            /\ r \in asked \/ found[r] <= g.time + Ttl
    BY DEF RelaysAsAsked
  <2>1. Task(r) /\ tried[r] \in Nat
    BY DEF IInv, TypeOK
  <2>2. /\ Refusal(r) = None /\ Kind(r, 2) = "tcp" /\ Relayable(r)
        /\ tried[r] < Len(ips[r]) /\ on[r] = <<ips[r][tried[r] + 1], Arg(r, 2)>>
    BY <2>1 DEF Task, Opened
  <2>3. CASE Literal(r)
    <3>1. ~ByName(r)
      BY <2>2, <2>3, ArgumentKnown
    <3>2. ips[r] = <<Arg(r, 1)>>
      BY <2>1, <2>2, <3>1 DEF Task, Lone, Located
    <3>3. on[r][1] = Arg(r, 1) /\ on[r][2] = Arg(r, 2)
      <4>1. tried[r] = 0
        BY <2>1, <2>2, <3>2
      <4> QED BY <2>2, <3>2, <4>1
    <3> QED BY <2>2, <3>1, <3>3
  <2>4. CASE ~Literal(r)
    <3>1. ips[r] \in Answers
      BY <2>4 DEF IInv, TypeOK
    <3>2. ips[r] \in Seq(Range(ips[r]))
      BY <3>1, AnswerAssumption
    <3>3. ips[r] # <<>> /\ ips[r][tried[r] + 1] \in Range(ips[r])
      BY <2>1, <2>2, <3>2
    <3>4. ByName(r) => \E g \in given :
                          /\ g.domain = Arg(r, 1) /\ g.ips = ips[r]
                          /\ r \in asked \/ found[r] <= g.time + Ttl
      BY <2>1, <2>2, <3>3 DEF Task, Recent, Located
    <3>5. on[r][1] = ips[r][tried[r] + 1] /\ on[r][2] = Arg(r, 2)
      BY <2>2
    <3>6. on[r][1] \in Range(ips[r])
      BY <3>3, <3>5
    <3>7. ByName(r) => \E g \in given :
                          /\ g.domain = Arg(r, 1) /\ on[r][1] \in Range(g.ips)
                          /\ r \in asked \/ found[r] <= g.time + Ttl
      BY <3>4, <3>6, Zenon
    <3>8. Refusal(r) = None /\ Kind(r, 2) = "tcp" /\ Relayable(r)
      BY <2>2
    <3>9. on[r][2] = Arg(r, 2)
      BY <3>5
    <3> QED BY <2>4, <3>7, <3>8, <3>9
  <2> QED BY <2>3, <2>4
<1> QED BY <1>1, SpecIInv, PTL
=============================================================================
