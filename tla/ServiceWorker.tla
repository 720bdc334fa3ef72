---------------------------- MODULE ServiceWorker ----------------------------
(***************************************************************************)
(* How the proxy comes up, and which site a navigation goes to: the        *)
(* service worker's script (sw.js), init() in exports.rs that it awaits,   *)
(* the landing page that registers it and asks how it fares (index.html),  *)
(* and the links that lock_browsing.js rewrites.  Tabs share the worker;   *)
(* the browser may stop it at any moment and starts it again for the next  *)
(* event.                                                                  *)
(*                                                                         *)
(* run() goes through three awaits: the wasm module, the manifest, and the *)
(* cookie storage (CookieStore models that one).  A failure to load the    *)
(* script or the module rejects; a failure to load the manifest panics,    *)
(* and a panic in wasm leaves the promise of init() pending for ever.      *)
(***************************************************************************)
EXTENDS Naturals

CONSTANTS
    Tabs,        \* the tabs of the user
    Domains,     \* the proxied domains...
    First,       \* ...and the one that the manifest names first
    None,
    MaxFaults    \* bound on what goes wrong: loads that fail and workers stopped

ASSUME FaultAssumption == MaxFaults \in Nat
ASSUME DomainAssumption == First \in Domains /\ None \notin Domains

VARIABLES
    phase,        \* the worker: see Phases
    manifest,     \* MANIFEST holds what manifest.json says
    cookies,      \* open_cookie_storage has ended
    registered,   \* there is a registration for the origin
    tab,          \* where each tab stands: see Stands
    want,         \* the mantalon-host in the URL of each tab, or None
    to,           \* the host that proxiedFetch is called for
    replaces,     \* the navigation has a replacesClientId
    host,         \* currentHostnames[""]: navigations have no clientId
    faults

route == <<want, to, replaces, host>>
vars == <<phase, manifest, cookies, registered, tab, route, faults>>

(* "none" is no worker at all; "failed" is initError set, "panicked" is    *)
(* neither that nor initialized, for good.                                 *)
Phases == {"none", "stopped", "module", "manifest", "cookies", "ready", "failed", "panicked"}
Running == Phases \ {"none", "stopped"}

(* "landing" and "asking" show index.html before the answer, "error" after *)
(* one, "rejected" when register() failed; "waiting" and "fetching" are    *)
(* navigations inside respond().                                           *)
Stands == {"away", "landing", "rejected", "asking", "error", "waiting", "fetching", "open", "lost"}
Served == {"waiting", "fetching", "open"}

Fault == faults < MaxFaults /\ faults' = faults + 1

(* Variant of Started: into a phase that no step leaves.                   *)
StartedUnknown(p) == IF p \in {"none", "stopped"} THEN "started" ELSE p

(* The worker starts on an event, with nothing in memory.                  *)
Started(p) == IF p \in {"none", "stopped"} THEN "module" ELSE p

Init ==
    /\ phase = "none" /\ manifest = FALSE /\ cookies = FALSE
    /\ registered = FALSE /\ faults = 0
    /\ tab = [t \in Tabs |-> "away"] /\ host = None
    /\ want = [t \in Tabs |-> None] /\ to = want /\ replaces = [t \in Tabs |-> FALSE]

-----------------------------------------------------------------------------
(* The worker: run().                                                      *)

(* importScripts or the fetch of the module fails: initError is set.       *)
ModuleFails ==
    /\ phase = "module" /\ Fault
    /\ phase' = "failed"
    /\ UNCHANGED <<manifest, cookies, registered, tab, route>>

ModuleLoads ==
    /\ phase = "module"
    /\ phase' = "manifest"
    /\ UNCHANGED <<manifest, cookies, registered, tab, route, faults>>

(* update_manifest returns an error, on which init() panics.               *)
ManifestFails ==
    /\ phase = "manifest" /\ Fault
    /\ phase' = "panicked"
    /\ UNCHANGED <<manifest, cookies, registered, tab, route>>

(* Variant of ManifestLoads: initialized is set without waiting for init().*)
ManifestLoadsAlone ==
    /\ phase = "manifest"
    /\ phase' = "ready" /\ manifest' = TRUE
    /\ UNCHANGED <<cookies, registered, tab, route, faults>>

ManifestLoads ==
    /\ phase = "manifest"
    /\ phase' = "cookies" /\ manifest' = TRUE
    /\ UNCHANGED <<cookies, registered, tab, route, faults>>

(* open_cookie_storage ends, whether it found the cookies or not, and      *)
(* initialized is set.                                                     *)
CookiesOpen ==
    /\ phase = "cookies"
    /\ phase' = "ready" /\ cookies' = TRUE
    /\ UNCHANGED <<manifest, registered, tab, route, faults>>

(* The worker is gone: what it was serving fails, its memory is lost.      *)
Gone(p) ==
    /\ phase' = p /\ manifest' = FALSE /\ cookies' = FALSE
    /\ host' = None /\ UNCHANGED <<want, to, replaces>>
    /\ tab' = [t \in Tabs |-> IF tab[t] \in {"waiting", "fetching"} THEN "lost" ELSE tab[t]]

(* The browser stops it.                                                   *)
Stop ==
    /\ phase \in Running /\ Fault
    /\ Gone("stopped")
    /\ UNCHANGED registered

(* One that cannot come up is stopped in the end: it is idle, or its       *)
(* events last longer than the browser allows.                             *)
Expire ==
    /\ phase \in {"failed", "panicked"}
    /\ Gone("stopped")
    /\ UNCHANGED <<registered, faults>>

-----------------------------------------------------------------------------
(* The landing page.                                                       *)

(* A tab asks for a URL.  With a registration the worker gets the request, *)
(* and respond() notes a mantalon-host at once; without one the server     *)
(* answers with the landing page.                                          *)
Goes(t, w, r) ==
    /\ want' = [want EXCEPT ![t] = w]
    /\ IF registered
       THEN /\ tab' = [tab EXCEPT ![t] = "waiting"] /\ phase' = Started(phase)
            /\ replaces' = [replaces EXCEPT ![t] = r]
            /\ host' = IF w # None THEN w ELSE host
       ELSE /\ tab' = [tab EXCEPT ![t] = "landing"]
            /\ UNCHANGED <<phase, replaces, host>>

(* Whether a navigation comes with a replacesClientId: browsers differ in  *)
(* that, and a new tab has no client to replace.                           *)
Replacing(t) == IF tab[t] = "away" THEN {FALSE} ELSE BOOLEAN

(* The user opens a tab, follows a link (to another proxied site with a    *)
(* mantalon-host, within a site without) or reloads a page that failed.    *)
(* The landing page asks to reload when nothing happens, as it does when   *)
(* the worker it asked was unregistered.                                   *)
Navigate(t) ==
    /\ \E r \in Replacing(t) :
          \/ tab[t] \in {"away", "open"} /\ \E w \in Domains \cup {None} : Goes(t, w, r)
          \/ tab[t] \in {"rejected", "error", "lost"} /\ Goes(t, want[t], r)
          \/ tab[t] = "asking" /\ phase = "none" /\ Goes(t, want[t], r)
    /\ UNCHANGED <<manifest, cookies, registered, to, faults>>

(* register("/sw.js"), and once the registration has an active worker the  *)
(* init-status message to it.                                              *)
Register(t) ==
    /\ tab[t] = "landing"
    /\ registered' = TRUE /\ phase' = Started(phase)
    /\ tab' = [tab EXCEPT ![t] = "asking"]
    /\ UNCHANGED <<manifest, cookies, route, faults>>

(* register() rejects: the page says so, and does not try again.           *)
RegisterFails(t) ==
    /\ tab[t] = "landing" /\ Fault
    /\ tab' = [tab EXCEPT ![t] = "rejected"]
    /\ UNCHANGED <<phase, manifest, cookies, registered, route>>

(* But navigator.serviceWorker.ready does not depend on its own register():*)
(* when another tab's succeeds, the page sends the message all the same.   *)
Ready(t) ==
    /\ tab[t] = "rejected" /\ registered
    /\ phase' = Started(phase)
    /\ tab' = [tab EXCEPT ![t] = "asking"]
    /\ UNCHANGED <<manifest, cookies, registered, route, faults>>

(* A worker that was stopped is started for the message.                   *)
Wake(t) ==
    /\ tab[t] = "asking" /\ phase = "stopped"
    /\ phase' = Started(phase)
    /\ UNCHANGED <<manifest, cookies, registered, tab, route, faults>>

(* Once the script was evaluated the message is handled, and initError is  *)
(* looked at: the page is told of the error...                             *)
TellError(t) ==
    /\ tab[t] = "asking" /\ phase = "failed"
    /\ tab' = [tab EXCEPT ![t] = "error"]
    /\ UNCHANGED <<phase, manifest, cookies, registered, route, faults>>

(* Variant of TellSuccess: the page does not reload.                       *)
TellSuccessQuietly(t) ==
    /\ tab[t] = "asking" /\ phase \in Running \ {"failed"}
    /\ UNCHANGED vars

(* ...or that the proxy is up, and it reloads.                             *)
TellSuccess(t) ==
    /\ tab[t] = "asking" /\ phase \in Running \ {"failed"}
    /\ \E r \in Replacing(t) : Goes(t, want[t], r)
    /\ UNCHANGED <<manifest, cookies, registered, to, faults>>

(* A page told of an error unregisters the worker, which ends it unless it *)
(* serves another tab.                                                     *)
Unregister(t) ==
    /\ tab[t] = "error" /\ registered
    /\ registered' = FALSE
    /\ IF \E u \in Tabs : tab[u] \in Served
       THEN UNCHANGED <<phase, manifest, cookies, tab, route>>
       ELSE Gone("none")
    /\ UNCHANGED faults

-----------------------------------------------------------------------------
(* A navigation in respond().                                              *)

(* Variant of Proceed: the host of a link is taken from where it was noted.*)
ProceedFromNote(t) ==
    /\ tab[t] = "waiting" /\ phase = "ready"
    /\ tab' = [tab EXCEPT ![t] = "fetching"]
    /\ host' = IF host = None THEN First ELSE host
    /\ to' = [to EXCEPT ![t] = host']
    /\ UNCHANGED <<phase, manifest, cookies, registered, want, replaces, faults>>

(* It leaves the loop that waits for initialized, and calls proxiedFetch:  *)
(* for the mantalon-host, or the one noted last, or the first domain.      *)
Proceed(t) ==
    /\ tab[t] = "waiting" /\ phase = "ready"
    /\ tab' = [tab EXCEPT ![t] = "fetching"]
    /\ host' = IF host = None THEN First ELSE host
    /\ to' = [to EXCEPT ![t] = IF want[t] # None THEN want[t] ELSE host']
    /\ UNCHANGED <<phase, manifest, cookies, registered, want, replaces, faults>>

(* Variant of Respond: the location is parsed for every navigation.        *)
RespondUnguarded(t) ==
    /\ tab[t] = "fetching"
    /\ tab' = [tab EXCEPT ![t] = "lost"]
    /\ UNCHANGED <<phase, manifest, cookies, registered, route, faults>>

(* The response has no x-mantalon-location: with a replacesClientId, the   *)
(* parsing of that throws, and the navigation fails.                       *)
Respond(t) ==
    /\ tab[t] = "fetching"
    /\ tab' = [tab EXCEPT ![t] = IF replaces[t] THEN "lost" ELSE "open"]
    /\ UNCHANGED <<phase, manifest, cookies, registered, route, faults>>

(* proxiedFetch rejects, and respond() with it.                            *)
FetchFails(t) ==
    /\ tab[t] = "fetching" /\ Fault
    /\ tab' = [tab EXCEPT ![t] = "lost"]
    /\ UNCHANGED <<phase, manifest, cookies, registered, route>>

(* A redirect to a proxied domain, rewritten to the proxy's own origin: its*)
(* host is noted for the client that goes, not for the navigation that the *)
(* browser makes of it.  Counted as a fault to bound it.                   *)
Redirect(t) ==
    /\ tab[t] = "fetching" /\ Fault
    /\ tab' = [tab EXCEPT ![t] = "waiting"]
    /\ want' = [want EXCEPT ![t] = None]
    /\ UNCHANGED <<phase, manifest, cookies, registered, to, replaces, host>>

Run == ModuleFails \/ ModuleLoads \/ ManifestFails \/ ManifestLoads \/ CookiesOpen

Page(t) ==
    \/ Navigate(t) \/ Register(t) \/ RegisterFails(t) \/ Ready(t)
    \/ Wake(t) \/ TellError(t) \/ TellSuccess(t) \/ Unregister(t)
    \/ Proceed(t) \/ Respond(t) \/ FetchFails(t) \/ Redirect(t)

Next == Run \/ Stop \/ Expire \/ \E t \in Tabs : Page(t)

Spec == Init /\ [][Next]_vars

(* What run() loads arrives or fails, pages and handlers run, the browser  *)
(* ends a worker that cannot come up, and the user reloads a failed page.  *)
(* Of proxiedFetch nothing is assumed: it may stay pending for ever.       *)
Fairness ==
    /\ WF_vars(Run) /\ WF_vars(Expire)
    /\ \A t \in Tabs :
        /\ WF_vars(tab[t] \notin {"away", "open"} /\ Navigate(t))
        /\ WF_vars(Register(t) \/ RegisterFails(t)) /\ WF_vars(Wake(t))
        /\ WF_vars(TellError(t) \/ TellSuccess(t)) /\ WF_vars(Proceed(t))

FairSpec == Spec /\ Fairness

-----------------------------------------------------------------------------
(* Every variable keeps its type.                                          *)
TypeOK ==
    /\ phase \in Phases /\ tab \in [Tabs -> Stands]
    /\ {manifest, cookies, registered} \subseteq BOOLEAN
    /\ faults \in 0 .. MaxFaults /\ replaces \in [Tabs -> BOOLEAN]
    /\ {want, to} \subseteq [Tabs -> Domains \cup {None}] /\ host \in Domains \cup {None}

(* A request is proxied only by a worker that has its manifest and its     *)
(* cookies, however the worker was stopped and started meanwhile: what     *)
(* proxiedFetch uses without a check is there.                             *)
ServedWhenReady == \A t \in Tabs : tab[t] = "fetching" => manifest /\ cookies

(* A link to another proxied site reaches that site, whatever the other    *)
(* tabs ask for while it waits, and although the worker forgets the host   *)
(* it noted when it is stopped.                                            *)
LinkReachesItsHost ==
    \A t \in Tabs : tab[t] = "fetching" /\ want[t] # None => to[t] = want[t]

(* No call of proxiedFetch for the tab stays pending for ever.             *)
Answered(t) == []<>(tab[t] # "fetching")

(* Whatever fails, as long as that ends, every tab that was opened shows a *)
(* page in the end: register() or proxiedFetch rejected, told too early,   *)
(* told of an error and unregistered, unregistered by another tab, or cut  *)
(* off by a stop (sw.js:4-76, 111-119, index.html:17-57).  Provided that   *)
(* its fetches are answered, and that the browser does not go on telling   *)
(* the worker which client the tab's navigations replace.                  *)
EveryTabOpens ==
    \A t \in Tabs : (Answered(t) /\ <>[]~replaces[t]) => ((tab[t] # "away") ~> (tab[t] = "open"))

(* A page is told "mantalon-init-success" only by a worker that comes up   *)
(* unless something else happens to it, not by one whose init has failed.  *)
SuccessIsTrue ==
    [][\A t \in Tabs : (tab[t] = "asking" /\ tab'[t] = "waiting") => phase # "panicked"]_vars
=============================================================================
