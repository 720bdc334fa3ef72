----------------------------- MODULE WorkerProofs -----------------------------
(* Proofs about ServiceWorker, for any tabs, domains and number of faults. *)
EXTENDS ServiceWorker, TLAPS

(* What makes a request safe to proxy is that whoever ends the worker also *)
(* takes its requests: one that is under way was let in by this very start *)
(* of the worker, and each phase of run() leaves behind what it loaded.    *)
Loaded ==
    /\ phase \in {"cookies", "ready"} => manifest
    /\ phase = "ready" => cookies
    /\ \A t \in Tabs : tab[t] = "fetching" => phase = "ready"

IInv == TypeOK /\ Loaded /\ LinkReachesItsHost

-----------------------------------------------------------------------------
LEMMA IInvInit == Init => IInv
<1> SUFFICES ASSUME Init PROVE IInv
  OBVIOUS
<1>1. phase \in Phases /\ phase \notin {"cookies", "ready"}
  BY DEF Init, Phases
<1>2. tab \in [Tabs -> Stands] /\ \A t \in Tabs : tab[t] # "fetching"
  BY DEF Init, Stands
<1>3. {manifest, cookies, registered} \subseteq BOOLEAN /\ replaces \in [Tabs -> BOOLEAN]
  BY DEF Init
<1>4. faults \in 0 .. MaxFaults
  BY FaultAssumption DEF Init
<1>5. {want, to} \subseteq [Tabs -> Domains \cup {None}] /\ host \in Domains \cup {None}
  BY DEF Init
<1> QED BY <1>1, <1>2, <1>3, <1>4, <1>5 DEF IInv, TypeOK, Loaded, LinkReachesItsHost

LEMMA RunStep == IInv /\ Run => IInv'
<1> SUFFICES ASSUME IInv, Run PROVE IInv'
  OBVIOUS
<1> USE FaultAssumption DEF IInv, TypeOK, Loaded, LinkReachesItsHost, Phases, Fault, route
<1>1. CASE ModuleFails BY <1>1 DEF ModuleFails
<1>2. CASE ModuleLoads BY <1>2 DEF ModuleLoads
<1>3. CASE ManifestFails BY <1>3 DEF ManifestFails
<1>4. CASE ManifestLoads BY <1>4 DEF ManifestLoads
<1>5. CASE CookiesOpen BY <1>5 DEF CookiesOpen
<1> QED BY <1>1, <1>2, <1>3, <1>4, <1>5 DEF Run

(* A worker that goes takes the requests it served with it.                *)
LEMMA GoneStep ==
    ASSUME IInv, NEW p \in {"none", "stopped"}, Gone(p),
           registered' \in BOOLEAN, faults' \in 0 .. MaxFaults
    PROVE  IInv'
  BY DEF IInv, TypeOK, Loaded, LinkReachesItsHost, Gone, Phases, Stands

(* A tab that asks for a URL is at the door or at the landing page, and    *)
(* the worker that it starts is not ready.                                 *)
LEMMA GoesStep ==
    ASSUME IInv, NEW t \in Tabs, NEW w \in Domains \cup {None}, NEW r \in BOOLEAN, Goes(t, w, r),
           UNCHANGED <<manifest, cookies, registered, to, faults>>
    PROVE  IInv'
<1> USE DEF IInv, TypeOK, Loaded, LinkReachesItsHost, Phases, Stands, Goes
<1>1. CASE registered
  <2>1. /\ phase' \in Phases
        /\ phase' \in {"cookies", "ready"} => phase' = phase
        /\ phase = "ready" => phase' = "ready"
    BY <1>1 DEF Started
  <2>2. \A u \in Tabs : tab'[u] = "fetching" => u # t /\ tab[u] = "fetching" /\ want'[u] = want[u]
    BY <1>1
  <2>3. TypeOK'
    BY <1>1, <2>1
  <2> QED BY <2>1, <2>2, <2>3
<1>2. CASE ~registered
  BY <1>2
<1> QED BY <1>1, <1>2

LEMMA PageStep ==
    ASSUME IInv, NEW t \in Tabs, Page(t)
    PROVE  IInv'
<1> USE FaultAssumption DEF IInv, TypeOK, Loaded, LinkReachesItsHost, Phases, Stands, route, Fault
<1>1. CASE Navigate(t)
  <2>1. \E w \in Domains \cup {None}, r \in BOOLEAN : Goes(t, w, r)
    BY <1>1 DEF Navigate, Replacing
  <2> QED BY <1>1, <2>1, GoesStep DEF Navigate
<1>2. CASE Register(t)
  BY <1>2 DEF Register, Started
<1>3. CASE Wake(t)
  BY <1>3 DEF Wake, Started
<1>4. CASE TellError(t)
  BY <1>4 DEF TellError
<1>5. CASE TellSuccess(t)
  <2>1. \E r \in BOOLEAN : Goes(t, want[t], r) /\ want[t] \in Domains \cup {None}
    BY <1>5 DEF TellSuccess, Replacing
  <2> QED BY <1>5, <2>1, GoesStep DEF TellSuccess
<1>6. CASE Unregister(t)
  <2>1. CASE Gone("none")
    BY <1>6, <2>1, GoneStep DEF Unregister
  <2>2. CASE UNCHANGED <<phase, manifest, cookies, tab, route>>
    BY <1>6, <2>2 DEF Unregister
  <2> QED BY <1>6, <2>1, <2>2 DEF Unregister
<1>7. CASE Proceed(t)
  BY <1>7, DomainAssumption DEF Proceed
<1>8. CASE Respond(t)
  BY <1>8 DEF Respond
<1>9. CASE Redirect(t)
  BY <1>9 DEF Redirect
<1>10. CASE RegisterFails(t)
  BY <1>10 DEF RegisterFails
<1>11. CASE Ready(t)
  BY <1>11 DEF Ready, Started
<1>12. CASE FetchFails(t)
  BY <1>12 DEF FetchFails
<1> QED
  BY <1>1, <1>2, <1>3, <1>4, <1>5, <1>6, <1>7, <1>8, <1>9, <1>10, <1>11, <1>12 DEF Page

LEMMA IInvNext == IInv /\ [Next]_vars => IInv'
<1> SUFFICES ASSUME IInv, [Next]_vars PROVE IInv'
  OBVIOUS
<1>1. CASE Run BY <1>1, RunStep
<1>2. CASE Stop
  BY <1>2, GoneStep, FaultAssumption DEF Stop, Fault, IInv, TypeOK
<1>3. CASE Expire
  BY <1>3, GoneStep DEF Expire, IInv, TypeOK
<1>4. ASSUME NEW t \in Tabs, Page(t) PROVE IInv'
  BY <1>4, PageStep
<1>5. CASE UNCHANGED vars
  BY <1>5 DEF vars, route, IInv, TypeOK, Loaded, LinkReachesItsHost
<1> QED BY <1>1, <1>2, <1>3, <1>4, <1>5 DEF Next

LEMMA Invariant == Spec => []IInv
  BY IInvInit, IInvNext, PTL DEF Spec

-----------------------------------------------------------------------------
(* Every variable of the worker and of its pages keeps its type.           *)
THEOREM WorkerTypeCorrect == Spec => []TypeOK
<1>1. IInv => TypeOK BY DEF IInv
<1> QED BY Invariant, <1>1, PTL

(* No request is proxied by a worker that lacks its manifest or its        *)
(* cookies, however often the browser stops and starts it (sw.js:31).      *)
THEOREM ServedOnlyWhenReady == Spec => []ServedWhenReady
<1>1. IInv => ServedWhenReady BY DEF IInv, Loaded, ServedWhenReady
<1> QED BY Invariant, <1>1, PTL

(* An explicit link to a proxied site is fetched from that site, whatever  *)
(* any number of other tabs ask for while it waits (sw.js:60).             *)
THEOREM LinksReachTheirHost == Spec => []LinkReachesItsHost
<1>1. IInv => LinkReachesItsHost BY DEF IInv
<1> QED BY Invariant, <1>1, PTL
=============================================================================
