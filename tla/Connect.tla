------------------------------- MODULE Connect -------------------------------
(***************************************************************************)
(* The server's endpoint: http_handler (mantalon-server/src/handler.rs),   *)
(* from a request to the relay of a websocket, and the DNS cache its tasks *)
(* share (dns.rs).  Each request is a task of its own and is interleaved   *)
(* with the others wherever the code awaits.                               *)
(*                                                                         *)
(* A multiaddr is the sequence of its protocols, each a pair such as       *)
(* <<"dns", domain>> or <<"tcp", port>>.                                   *)
(***************************************************************************)
EXTENDS Naturals, Sequences, SequencesExt

CONSTANTS
    Requests,   \* HTTP requests
    Inputs,     \* what a request may be: [path, method, upgrade, addr, handshake]
    Invalid,    \* an address that does not parse
    Domains,    \* domain names
    Answers,    \* what the DNS provider may answer: sequences of addresses
    None,       \* no cache entry, no connection, no reply
    Ttl,        \* 5*60 seconds
    MaxTime     \* bound on the clock

ASSUME TimeAssumption == Ttl \in Nat /\ MaxTime \in Nat

(* A query that failed adds no address.                                    *)
ASSUME AnswerAssumption == <<>> \in Answers /\ \A list \in Answers : list \in Seq(Range(list))

(* An address that parses is a sequence of pairs, and the names in use are *)
(* the cache's keys.                                                       *)
ASSUME InputAssumption ==
    \A i \in Inputs : i.addr # Invalid =>
        /\ i.addr \in Seq(Range(i.addr))
        /\ \A p \in Range(i.addr) : p[1] \in {"dns", "dnsaddr"} => p[2] \in Domains

Arguments == {p[2] : p \in UNION {Range(i.addr) : i \in {j \in Inputs : j.addr # Invalid}}}
Hosts == Arguments \cup UNION {Range(list) : list \in Answers}

Statuses == {101, 400, 404, 405, 426, 500}

ASSUME NoneAssumption == None \notin Statuses /\ None \notin Hosts \X Arguments

VARIABLES
    req,      \* what each request is
    pc,       \* where its task stands
    ips,      \* the addresses its handler found
    ttl,      \* the expiry its answer will be cached with
    tried,    \* how many of them refused
    on,       \* the transport it holds: <<address, port>>
    reply,    \* the status it was answered with
    cache,    \* the shared DnsCache: [ttl, ips] by domain
    now,      \* the clock, in seconds
    given,    \* history: what the provider answered, for what and when
    asked,    \* history: the requests that asked the provider themselves
    found     \* history: when each request found its addresses

tasks == <<req, pc, ips, ttl, tried, on, reply>>
history == <<given, asked, found>>
vars == <<tasks, cache, now, history>>

Proto(r, i) == IF i <= Len(req[r].addr) THEN req[r].addr[i] ELSE <<"none", None>>
Kind(r, i) == Proto(r, i)[1]
Arg(r, i) == Proto(r, i)[2]

Literal(r) == Kind(r, 1) \in {"ip4", "ip6"}
ByName(r) == Kind(r, 1) \in {"dns", "dnsaddr"}

(* The status of a request refused before its address is used, or None.    *)
Refusal(r) ==
    CASE req[r].path = "other"                  -> 404
      [] req[r].path # "other" /\ req[r].method \notin {"GET", "POST"} -> 405
      [] req[r].path # "other" /\ req[r].method \in {"GET", "POST"} ->
            IF ~req[r].upgrade THEN 426
            ELSE IF req[r].addr = Invalid \/ req[r].addr = <<>> THEN 400
            ELSE IF Literal(r) \/ ByName(r) THEN None ELSE 500

(* The status of one whose second protocol is not TCP, or None.            *)
WrongTransport(r) == CASE Kind(r, 2) = "tcp" -> None
                       [] Kind(r, 2) = "none" -> 400
                       [] OTHER -> 500

Init ==
    /\ req \in [Requests -> Inputs]
    /\ pc = [r \in Requests |-> "new"]
    /\ ips = [r \in Requests |-> <<>>] /\ ttl = [r \in Requests |-> 0]
    /\ tried = [r \in Requests |-> 0] /\ on = [r \in Requests |-> None]
    /\ reply = [r \in Requests |-> None]
    /\ cache = [d \in Domains |-> None] /\ now = 0
    /\ given = {} /\ asked = {} /\ found = [r \in Requests |-> 0]

Replies(r, status) ==
    /\ reply' = [reply EXCEPT ![r] = status]
    /\ pc' = [pc EXCEPT ![r] = "done"]

Refuse(r) ==
    /\ pc[r] = "new" /\ Refusal(r) # None
    /\ Replies(r, Refusal(r))
    /\ UNCHANGED <<req, ips, ttl, tried, on, cache, now, history>>

-----------------------------------------------------------------------------
(* Finding the addresses.                                                  *)

(* The handler goes on with addresses in hand.                             *)
Found(r, list) ==
    /\ ips' = [ips EXCEPT ![r] = list]
    /\ found' = [found EXCEPT ![r] = now]
    /\ pc' = [pc EXCEPT ![r] = "dialing"]

UseLiteral(r) ==
    /\ pc[r] = "new" /\ Refusal(r) = None /\ Literal(r)
    /\ Found(r, <<Arg(r, 1)>>)
    /\ UNCHANGED <<req, ttl, tried, on, reply, cache, now, given, asked>>

(* Variants of Usable: an empty answer is; an expired one is.              *)
UsableIfEmpty(d) == cache[d] # None /\ now <= cache[d].ttl
UsableLate(d) == cache[d] # None /\ now <= cache[d].ttl + 1 /\ cache[d].ips # <<>>

(* What resolve() takes from the cache.                                    *)
Usable(d) == cache[d] # None /\ now <= cache[d].ttl /\ cache[d].ips # <<>>

UseCache(r) ==
    /\ pc[r] = "new" /\ Refusal(r) = None /\ ByName(r)
    /\ Usable(Arg(r, 1))
    /\ Found(r, cache[Arg(r, 1)].ips)
    /\ UNCHANGED <<req, ttl, tried, on, reply, cache, now, given, asked>>

AskProvider(r) ==
    /\ pc[r] = "new" /\ Refusal(r) = None /\ ByName(r)
    /\ ~Usable(Arg(r, 1))
    /\ pc' = [pc EXCEPT ![r] = "asking"]
    /\ asked' = asked \cup {r}
    /\ UNCHANGED <<req, ips, ttl, tried, on, reply, cache, now, given, found>>

(* The provider cannot be reached, or the name is not one it can be asked: *)
(* no address, and nothing is cached.                                      *)
ProviderFails(r) ==
    /\ pc[r] = "asking"
    /\ Found(r, <<>>)
    /\ UNCHANGED <<req, ttl, tried, on, reply, cache, now, given, asked>>

(* Both queries ended.  One that failed adds no address, so the answer may *)
(* be empty; its expiry counts from here.                                  *)
ProviderAnswers(r, list) ==
    /\ pc[r] = "asking"
    /\ ips' = [ips EXCEPT ![r] = list] /\ ttl' = [ttl EXCEPT ![r] = now + Ttl]
    /\ pc' = [pc EXCEPT ![r] = "caching"]
    /\ given' = given \cup {[domain |-> Arg(r, 1), ips |-> list, time |-> now]}
    /\ UNCHANGED <<req, tried, on, reply, cache, now, asked, found>>

(* Once it has the lock it caches the answer, whatever is there.           *)
CacheAnswer(r) ==
    /\ pc[r] = "caching"
    /\ cache' = [cache EXCEPT ![Arg(r, 1)] = [ttl |-> ttl[r], ips |-> ips[r]]]
    /\ Found(r, ips[r])
    /\ UNCHANGED <<req, ttl, tried, on, reply, now, given, asked>>

-----------------------------------------------------------------------------
(* Dialing.                                                                *)

(* The protocol after the address is not TCP.                              *)
RefuseTransport(r) ==
    /\ pc[r] = "dialing" /\ WrongTransport(r) # None
    /\ Replies(r, WrongTransport(r))
    /\ UNCHANGED <<req, ips, ttl, tried, on, cache, now, history>>

Dialing(r) == pc[r] = "dialing" /\ WrongTransport(r) = None

(* An address refuses, and the next one is tried.                          *)
DialFails(r) ==
    /\ Dialing(r) /\ tried[r] < Len(ips[r])
    /\ tried' = [tried EXCEPT ![r] = @ + 1]
    /\ UNCHANGED <<req, pc, ips, ttl, on, reply, cache, now, history>>

(* Variants of GiveUp: with a status of its own; after one address; never  *)
(* for a name without addresses.                                           *)
GiveUpUnlisted(r) ==
    /\ Dialing(r) /\ tried[r] = Len(ips[r])
    /\ Replies(r, 502)
    /\ UNCHANGED <<req, ips, ttl, tried, on, cache, now, history>>
GiveUpEarly(r) ==
    /\ Dialing(r) /\ (tried[r] = Len(ips[r]) \/ tried[r] = 1)
    /\ Replies(r, 500)
    /\ UNCHANGED <<req, ips, ttl, tried, on, cache, now, history>>
GiveUpUnlessEmpty(r) ==
    /\ Dialing(r) /\ tried[r] = Len(ips[r]) /\ ips[r] # <<>>
    /\ Replies(r, 500)
    /\ UNCHANGED <<req, ips, ttl, tried, on, cache, now, history>>

GiveUp(r) ==
    /\ Dialing(r) /\ tried[r] = Len(ips[r])
    /\ Replies(r, 500)
    /\ UNCHANGED <<req, ips, ttl, tried, on, cache, now, history>>

(* One accepts: the connection is up, and the handler is woken.            *)
DialConnects(r) ==
    /\ Dialing(r) /\ tried[r] < Len(ips[r])
    /\ on' = [on EXCEPT ![r] = <<ips[r][tried[r] + 1], Arg(r, 2)>>]
    /\ pc' = [pc EXCEPT ![r] = "connected"]
    /\ UNCHANGED <<req, ips, ttl, tried, reply, cache, now, history>>

(* Nothing follows the port, and the handshake is one of a websocket.      *)
Relayable(r) == Kind(r, 3) = "none" /\ req[r].handshake

(* Only then is the rest of the address looked at and the handshake        *)
(* answered; when one of them is wrong the handler drops the transport.    *)
RefuseConnected(r) ==
    /\ pc[r] = "connected" /\ ~Relayable(r)
    /\ Replies(r, 500) /\ on' = [on EXCEPT ![r] = None]
    /\ UNCHANGED <<req, ips, ttl, tried, cache, now, history>>

(* Variant of Upgrade: what follows the port is not looked at.             *)
UpgradeUnchecked(r) ==
    /\ pc[r] = "connected" /\ req[r].handshake
    /\ pc' = [pc EXCEPT ![r] = "upgrading"]
    /\ reply' = [reply EXCEPT ![r] = 101]
    /\ UNCHANGED <<req, ips, ttl, tried, on, cache, now, history>>

(* Else the transport goes to a task of its own, and the handler answers.  *)
Upgrade(r) ==
    /\ pc[r] = "connected" /\ Relayable(r)
    /\ pc' = [pc EXCEPT ![r] = "upgrading"]
    /\ reply' = [reply EXCEPT ![r] = 101]
    /\ UNCHANGED <<req, ips, ttl, tried, on, cache, now, history>>

(* The spawned task gets the upgraded stream and starts the relay.         *)
UpgradeEnds(r) ==
    /\ pc[r] = "upgrading"
    /\ pc' = [pc EXCEPT ![r] = "relaying"]
    /\ UNCHANGED <<req, ips, ttl, tried, on, reply, cache, now, history>>

(* It does not, or one direction of the relay has ended: the task ends and *)
(* drops the transport.                                                    *)
RelayEnds(r) ==
    /\ pc[r] \in {"upgrading", "relaying"}
    /\ pc' = [pc EXCEPT ![r] = "done"] /\ on' = [on EXCEPT ![r] = None]
    /\ UNCHANGED <<req, ips, ttl, tried, reply, cache, now, history>>

(* The client leaves before its reply: hyper drops the handler, and with   *)
(* it a transport that came up since it last ran.                          *)
ClientLeaves(r) ==
    /\ pc[r] \in {"asking", "caching", "dialing", "connected"}
    /\ pc' = [pc EXCEPT ![r] = "gone"] /\ on' = [on EXCEPT ![r] = None]
    /\ UNCHANGED <<req, ips, ttl, tried, reply, cache, now, history>>

Tick == now < MaxTime /\ now' = now + 1 /\ UNCHANGED <<tasks, cache, history>>

Resolving(r) ==
    \/ UseLiteral(r) \/ UseCache(r) \/ AskProvider(r) \/ ProviderFails(r)
    \/ \E list \in Answers : ProviderAnswers(r, list)
    \/ CacheAnswer(r)

Connecting(r) ==
    \/ RefuseTransport(r) \/ DialFails(r) \/ GiveUp(r) \/ DialConnects(r)
    \/ RefuseConnected(r) \/ Upgrade(r) \/ UpgradeEnds(r) \/ RelayEnds(r)

Next == Tick \/ \E r \in Requests : Refuse(r) \/ Resolving(r) \/ Connecting(r) \/ ClientLeaves(r)

Spec == Init /\ [][Next]_vars

(* Tasks run; queries and connection attempts end one way or the other (the*)
(* DNS client and the kernel give up after a time), and so do upgrades.    *)
Fairness == \A r \in Requests : WF_vars(Refuse(r) \/ Resolving(r) \/ Connecting(r))
FairSpec == Spec /\ Fairness

-----------------------------------------------------------------------------
(* Every variable keeps its type.                                          *)
TypeOK ==
    /\ req \in [Requests -> Inputs]
    /\ pc \in [Requests -> {"new", "asking", "caching", "dialing", "connected",
                            "upgrading", "relaying", "done", "gone"}]
    /\ ttl \in [Requests -> Nat] /\ tried \in [Requests -> Nat]
    /\ \A r \in Requests : ips[r] \in Answers \/ (Literal(r) /\ ips[r] = <<Arg(r, 1)>>)
    /\ reply \in [Requests -> Statuses \cup {None}]
    /\ \A d \in Domains : cache[d] # None => cache[d].ips \in Answers
    /\ now \in 0 .. MaxTime

Located(r) == pc[r] \notin {"new", "asking", "caching"} /\ Refusal(r) = None

(* The addresses a request by name uses are an answer of the provider for  *)
(* that name: one it asked for, or one that another request cached and that*)
(* was at most Ttl old when it was taken, whoever wrote the entry since.   *)
AnswerIsRecent ==
    \A r \in Requests : (Located(r) /\ ByName(r) /\ pc[r] # "gone" /\ ips[r] # <<>>) =>
        \E g \in given : /\ g.domain = Arg(r, 1) /\ g.ips = ips[r]
                         /\ r \in asked \/ found[r] <= g.time + Ttl

(* A name is without addresses only for a request that asked the provider  *)
(* itself: the failure of another request is not served from the cache.    *)
FailureIsOwn ==
    \A r \in Requests : (Located(r) /\ ByName(r) /\ ips[r] = <<>>) => r \in asked

(* What a request gets from the cache could have come from the provider:   *)
(* an answer for its name that is recent, and never the lack of one.       *)
CacheIsHonest == AnswerIsRecent /\ FailureIsOwn

(* A request is refused after dialing only when every address refused or   *)
(* when the request itself is at fault.                                    *)
AllAreTried ==
    \A r \in Requests :
        (/\ Located(r) /\ reply[r] = 500
         /\ WrongTransport(r) = None /\ Relayable(r))
            => tried[r] = Len(ips[r])

(* Who is relayed is relayed as it asked: nothing in its request is at     *)
(* fault, though the last of it is looked at when the connection is up,    *)
(* and its bytes go to its own port at the address it gave, or at one that *)
(* the provider gave for its name, to itself or at most Ttl before.        *)
RelaysAsAsked ==
    \A r \in Requests : pc[r] \in {"upgrading", "relaying"} =>
        /\ Refusal(r) = None /\ Kind(r, 2) = "tcp" /\ Relayable(r)
        /\ on[r][2] = Arg(r, 2)
        /\ Literal(r) => on[r][1] = Arg(r, 1)
        /\ ByName(r) => \E g \in given :
              /\ g.domain = Arg(r, 1) /\ on[r][1] \in Range(g.ips)
              /\ r \in asked \/ found[r] <= g.time + Ttl

(* Every request gets its reply, unless its client left: whatever the      *)
(* provider and the peers do, and whatever the other requests wait for.    *)
EveryoneIsAnswered == \A r \in Requests : <>(reply[r] # None \/ pc[r] = "gone")
=============================================================================
