----------------------------- MODULE CookieStore -----------------------------
(***************************************************************************)
(* The cookies of the client (mantalon-client/src/cookies.rs) around each  *)
(* fetch (proxied_fetch_with_global_cookies in lib.rs), with the service   *)
(* worker that holds them in memory and the Cache Storage entry they are   *)
(* saved in.  The worker may be killed at any moment and started again.    *)
(*                                                                         *)
(* One fair RwLock covers the jar.  add_cookies, store_cookies and         *)
(* override_cookie hold it for one step; save() keeps its read guard until *)
(* the put ends, and on_storage_opened its write guard until the jar is    *)
(* loaded.  The jar is keyed by name alone, as CookieJar is.               *)
(***************************************************************************)
EXTENDS Naturals, Sequences, FiniteSets, SequencesExt

CONSTANTS
    Names, Values,   \* cookie names and values
    Requests,        \* fetches through the proxy
    Url,             \* [Requests -> [host, path]]
    SetCookies,      \* the cookies a response may set: [name, value, domain, path]
    EndsWith,        \* the pairs <<host, domain>> where host.ends_with(domain)
    StartsWith,      \* the pairs <<path, prefix>> where path.starts_with(prefix)
    Overrides,       \* calls of overrideCookie
    Override,        \* [Overrides -> [name, value]]
    None,            \* no cookie, no domain, no path, no host
    NotOverridden,   \* no entry in overriden_cookies
    Faults           \* of {"open", "match", "put"}: what Cache Storage may refuse

ASSUME SetCookiesAssumption ==
    \A c \in SetCookies : /\ DOMAIN c = {"name", "value", "domain", "path"}
                         /\ c.name \in Names /\ c.value \in Values
ASSUME OverrideAssumption == Override \in [Overrides -> [name : Names, value : Values]]
ASSUME FaultAssumption == Faults \subseteq {"open", "match", "put"}

VARIABLES
    phase,       \* the worker: "down", "opening", "loading" or "ready"
    jar,         \* CookieStoreInner::cookies, by name
    overridden,  \* CookieStoreInner::overriden_cookies
    opened,      \* cache_storagage is Some
    queue,       \* the waiters of the lock
    saving,      \* what each running put is writing; it has a read guard
    disk,        \* the "cookies" entry of Cache Storage, by name
    pc,          \* where each fetch stands
    sent,        \* the cookies each fetch was given
    asked,       \* the calls of overrideCookie made to this worker, each once
    owed,        \* history: the fetches and overrides that were answered and
                 \* not lost with a worker
    applied,     \* history: those whose change is in the jar
    held,        \* history: the fetches whose cookies a save writes
    saved,       \* history: the fetches whose cookies are on disk
    due,         \* history: what was owed when each fetch began
    failed       \* history: "match" or "put", if Cache Storage refused it and
                 \* nothing made up for it

memory == <<phase, jar, overridden, opened, queue, saving>>
history == <<asked, owed, applied, held, saved, due, failed>>
vars == <<memory, disk, pc, sent, history>>

Stored == [value : Values, domain : {c.domain : c \in SetCookies} \cup {None},
           path : {c.path : c \in SetCookies} \cup {None}]
ASSUME NoneAssumption == None # NotOverridden /\ {None, NotOverridden} \cap Stored = {}
NoCookies == [n \in Names |-> None]

Job == [op : {"add", "store", "override", "save"},
        of : Requests \cup Overrides \cup {None}, set : SUBSET SetCookies]
Add(r)           == [op |-> "add", of |-> r, set |-> {}]
Store(r, set)    == [op |-> "store", of |-> r, set |-> set]
ApplyOverride(o) == [op |-> "override", of |-> o, set |-> {}]
Save             == [op |-> "save", of |-> None, set |-> {}]

-----------------------------------------------------------------------------
(* Pure parts.                                                             *)

(* The cookies of a jar that go with a request: a cookie without a domain  *)
(* goes everywhere.                                                        *)
CookiesFor(u, j) ==
    {n \in Names : /\ j[n] # None
                   /\ j[n].domain # None => <<u.host, j[n].domain>> \in EndsWith
                   /\ j[n].path # None => <<u.path, j[n].path>> \in StartsWith}

(* The Set-Cookie headers that are not for another domain.                 *)
Accepted(u, set) == {c \in set : c.domain # None => <<u.host, c.domain>> \in EndsWith}

(* Variants of Snapshot: what is overridden is only filtered out; the      *)
(* filter is negated.                                                      *)
SnapshotWithoutOld(j, o) == [n \in Names |-> IF o[n] = NotOverridden THEN j[n] ELSE None]
SnapshotNegated(j, o) == [n \in Names |-> IF o[n] # NotOverridden THEN j[n] ELSE o[n]]

(* What save() writes: the jar, with the old cookie in place of each       *)
(* overridden one, or nothing if there was none.                           *)
Snapshot(j, o) == [n \in Names |-> IF o[n] = NotOverridden THEN j[n] ELSE o[n]]

-----------------------------------------------------------------------------
Init ==
    /\ phase = "opening" /\ jar = NoCookies /\ opened = FALSE
    /\ overridden = [n \in Names |-> NotOverridden]
    /\ queue = <<>> /\ saving = <<>>
    /\ disk = NoCookies
    /\ pc = [r \in Requests |-> "idle"] /\ sent = [r \in Requests |-> NoCookies]
    /\ asked = {} /\ owed = {} /\ applied = {} /\ held = {} /\ saved = {}
    /\ due = [r \in Requests |-> {}] /\ failed = {}

-----------------------------------------------------------------------------
(* The worker starts.                                                      *)

(* Variant of OpenStorage: init does not wait for the saved cookies.       *)
OpenStorageUnread ==
    /\ phase = "opening"
    /\ phase' = "ready" /\ opened' = TRUE
    /\ UNCHANGED <<jar, overridden, queue, saving, disk, pc, sent, history>>

(* open_cookie_storage got the cache: on_storage_opened takes the write    *)
(* lock and keeps it over the match.                                       *)
OpenStorage ==
    /\ phase = "opening"
    /\ phase' = "loading" /\ opened' = TRUE
    /\ UNCHANGED <<jar, overridden, queue, saving, disk, pc, sent, history>>

(* Any failure there is logged, and init goes on without a cache: nothing  *)
(* of an earlier worker can be asked of this one.                          *)
OpenStorageFails ==
    /\ "open" \in Faults
    /\ phase = "opening"
    /\ phase' = "ready" /\ owed' = {}
    /\ UNCHANGED <<jar, overridden, opened, queue, saving, disk, pc, sent,
                   asked, applied, held, saved, due, failed>>

(* The saved cookies are added to the jar.                                 *)
Load ==
    /\ phase = "loading"
    /\ phase' = "ready"
    /\ jar' = [n \in Names |-> IF disk[n] # None THEN disk[n] ELSE jar[n]]
    /\ applied' = applied \cup saved /\ held' = saved
    /\ UNCHANGED <<overridden, opened, queue, saving, disk, pc, sent,
                   asked, owed, saved, due, failed>>

(* The entry cannot be matched or read: the jar stays empty.               *)
LoadFails ==
    /\ "match" \in Faults
    /\ phase = "loading"
    /\ phase' = "ready" /\ owed' = {}
    /\ failed' = failed \cup {"match"}
    /\ UNCHANGED <<jar, overridden, opened, queue, saving, disk, pc, sent,
                   asked, applied, held, saved, due>>

(* The browser kills the worker.  A put that was running may still end.    *)
(* What was answered and is on disk is owed by the next worker too; the    *)
(* overrides, which are never saved, and the cookies not yet saved are     *)
(* lost.                                                                   *)
Kill ==
    /\ phase # "down"
    /\ phase' = "down" /\ jar' = NoCookies /\ opened' = FALSE
    /\ overridden' = [n \in Names |-> NotOverridden]
    /\ queue' = <<>> /\ saving' = <<>>
    /\ \/ UNCHANGED <<disk, saved>>
       \/ disk' \in {saving[i] : i \in DOMAIN saving} /\ saved' = held
    /\ pc' = [r \in Requests |-> IF pc[r] \in {"idle", "done"} THEN pc[r] ELSE "failed"]
    /\ asked' = {} /\ owed' = owed \cap saved' /\ applied' = {} /\ held' = {} /\ failed' = {}
    /\ UNCHANGED <<sent, due>>

(* It is started again for the next event.                                 *)
Restart ==
    /\ phase = "down"
    /\ phase' = "opening"
    /\ UNCHANGED <<jar, overridden, opened, queue, saving, disk, pc, sent, history>>

-----------------------------------------------------------------------------
(* A fetch.                                                                *)

(* The worker is initialized: add_cookies asks for the read lock.          *)
Begin(r) ==
    /\ phase = "ready" /\ pc[r] = "idle"
    /\ pc' = [pc EXCEPT ![r] = "adding"]
    /\ queue' = Append(queue, Add(r))
    /\ due' = [due EXCEPT ![r] = owed]
    /\ UNCHANGED <<phase, jar, overridden, opened, saving, disk, sent, asked, owed, applied, held, saved, failed>>

Runs(op) == phase = "ready" /\ queue # <<>> /\ Head(queue).op = op

(* Variant of AddCookies: it reads past the writers that wait.             *)
AddCookiesBarging(r) ==
    /\ phase = "ready" /\ pc[r] = "adding"
    /\ queue' = SelectSeq(queue, LAMBDA job : job # Add(r))
    /\ pc' = [pc EXCEPT ![r] = "fetching"]
    /\ sent' = [sent EXCEPT ![r] = [n \in Names |->
                    IF n \in CookiesFor(Url[r], jar) THEN jar[n] ELSE None]]
    /\ UNCHANGED <<phase, jar, overridden, opened, saving, disk, history>>

(* add_cookies.  A request without a host gets none: the error is logged   *)
(* and the fetch goes on.                                                  *)
AddCookies(r) ==
    /\ Runs("add") /\ Head(queue).of = r
    /\ queue' = Tail(queue)
    /\ pc' = [pc EXCEPT ![r] = "fetching"]
    /\ sent' = [sent EXCEPT ![r] = IF Url[r].host = None THEN NoCookies
                    ELSE [n \in Names |-> IF n \in CookiesFor(Url[r], jar) THEN jar[n] ELSE None]]
    /\ UNCHANGED <<phase, jar, overridden, opened, saving, disk, history>>

(* The peer answers: store_cookies asks for the write lock.                *)
Answer(r, set) ==
    /\ pc[r] = "fetching" /\ Url[r].host # None
    /\ pc' = [pc EXCEPT ![r] = "storing"]
    /\ queue' = Append(queue, Store(r, set))
    /\ UNCHANGED <<phase, jar, overridden, opened, saving, disk, sent, history>>

(* The pool returns an error, and nothing is stored.                       *)
FetchFails(r) ==
    /\ pc[r] = "fetching"
    /\ pc' = [pc EXCEPT ![r] = "failed"]
    /\ UNCHANGED <<memory, disk, sent, history>>

JarWith(new) ==
    [n \in Names |-> IF \E c \in new : c.name = n
                     THEN LET c == CHOOSE c \in new : c.name = n
                          IN [value |-> c.value, domain |-> c.domain, path |-> c.path]
                     ELSE jar[n]]

(* The response of r is handed on with these cookies stored.  One that is  *)
(* set while its name is overridden is not what a save writes.             *)
AnsweredWith(r, new) ==
    /\ applied' = applied \cup {r} /\ owed' = owed \cup {r}
    /\ held' = IF \A c \in new : overridden[c.name] = NotOverridden
               THEN held \cup {r} ELSE held

(* Variants of StoreCookies: it does not wait for running saves; only a    *)
(* cookie of a new name is saved; the save is awaited under the write lock.*)
StoreCookiesBarging(r) ==
    LET new == Accepted(Url[r], Head(queue).set) IN
    /\ Runs("store") /\ Head(queue).of = r
    /\ jar' = JarWith(new)
    /\ queue' = Tail(queue) \o (IF new # {} THEN <<Save>> ELSE <<>>)
    /\ pc' = [pc EXCEPT ![r] = "done"]
    /\ AnsweredWith(r, new)
    /\ UNCHANGED <<phase, overridden, opened, saving, disk, sent, asked, saved, due, failed>>
StoreCookiesSavingNew(r) ==
    LET new == Accepted(Url[r], Head(queue).set) IN
    /\ Runs("store") /\ Head(queue).of = r /\ saving = <<>>
    /\ jar' = JarWith(new)
    /\ queue' = Tail(queue) \o (IF \E c \in new : jar[c.name] = None THEN <<Save>> ELSE <<>>)
    /\ pc' = [pc EXCEPT ![r] = "done"]
    /\ AnsweredWith(r, new)
    /\ UNCHANGED <<phase, overridden, opened, saving, disk, sent, asked, saved, due, failed>>

(* store_cookies: the accepted cookies replace those of their names, and a *)
(* save is spawned if there were any.  The response is handed on after it. *)
StoreCookies(r) ==
    LET new == Accepted(Url[r], Head(queue).set) IN
    /\ Runs("store") /\ Head(queue).of = r /\ saving = <<>>
    /\ jar' = JarWith(new)
    /\ queue' = Tail(queue) \o (IF new # {} THEN <<Save>> ELSE <<>>)
    /\ pc' = [pc EXCEPT ![r] = "done"]
    /\ AnsweredWith(r, new)
    /\ UNCHANGED <<phase, overridden, opened, saving, disk, sent, asked, saved, due, failed>>

-----------------------------------------------------------------------------
(* Saving.                                                                 *)

(* Variant of SaveCookies: given up when another task waits for the lock.  *)
SaveCookiesGivingUp ==
    /\ Runs("save")
    /\ queue' = Tail(queue)
    /\ saving' = IF opened /\ Len(queue) = 1 THEN Append(saving, Snapshot(jar, overridden)) ELSE saving
    /\ UNCHANGED <<phase, jar, overridden, opened, disk, pc, sent, history>>

(* save() up to the put: without a cache there is none.                    *)
SaveCookies ==
    /\ Runs("save")
    /\ queue' = Tail(queue)
    /\ saving' = IF opened THEN Append(saving, Snapshot(jar, overridden)) ELSE saving
    /\ UNCHANGED <<phase, jar, overridden, opened, disk, pc, sent, history>>

(* A put ends, and its read guard with it.                                 *)
PutEnds(i) ==
    /\ i \in DOMAIN saving
    /\ disk' = saving[i]
    /\ saving' = RemoveAt(saving, i)
    /\ failed' = failed \ {"put"} /\ saved' = held
    /\ UNCHANGED <<phase, jar, overridden, opened, queue, pc, sent, asked, owed, applied, held, due>>

(* It fails: the error is logged and nothing is tried again.               *)
PutFails(i) ==
    /\ "put" \in Faults
    /\ i \in DOMAIN saving
    /\ saving' = RemoveAt(saving, i)
    /\ failed' = failed \cup {"put"}
    /\ UNCHANGED <<phase, jar, overridden, opened, queue, disk, pc, sent, asked, owed, applied, held, saved, due>>

-----------------------------------------------------------------------------
(* Overrides.                                                              *)

(* sw.js calls overrideCookie and answers without waiting for it.          *)
AskOverride(o) ==
    /\ phase = "ready" /\ o \notin asked
    /\ asked' = asked \cup {o} /\ owed' = owed \cup {o}
    /\ queue' = Append(queue, ApplyOverride(o))
    /\ UNCHANGED <<phase, jar, overridden, opened, saving, disk, pc, sent, applied, held, saved, due, failed>>

(* Variant of OverrideCookie: the old cookie is not kept.                  *)
OverrideCookieForgettingOld(o) ==
    LET n == Override[o].name
        old == jar[n] IN
    /\ Runs("override") /\ Head(queue).of = o /\ saving = <<>>
    /\ queue' = Tail(queue)
    /\ jar' = [jar EXCEPT ![n] =
                  [value |-> Override[o].value,
                   domain |-> IF old = None THEN None ELSE old.domain,
                   path |-> IF old = None THEN None ELSE old.path]]
    /\ applied' = applied \cup {o}
    /\ UNCHANGED <<phase, overridden, opened, saving, disk, pc, sent, asked, owed, held, saved, due, failed>>

(* override_cookie: the jar holds the new value, with the domain and path  *)
(* of the old cookie, and overriden_cookies the old cookie.                *)
OverrideCookie(o) ==
    LET n == Override[o].name
        old == jar[n] IN
    /\ Runs("override") /\ Head(queue).of = o /\ saving = <<>>
    /\ queue' = Tail(queue)
    /\ overridden' = [overridden EXCEPT ![n] = old]
    /\ jar' = [jar EXCEPT ![n] =
                  [value |-> Override[o].value,
                   domain |-> IF old = None THEN None ELSE old.domain,
                   path |-> IF old = None THEN None ELSE old.path]]
    /\ applied' = applied \cup {o}
    /\ UNCHANGED <<phase, opened, saving, disk, pc, sent, asked, owed, held, saved, due, failed>>

-----------------------------------------------------------------------------
(* The responses: at most one cookie of each name.                         *)
Headers == {set \in SUBSET SetCookies : \A c, d \in set : c.name = d.name => c = d}

Fetching == \E r \in Requests :
    \/ Begin(r) \/ AddCookies(r) \/ FetchFails(r) \/ StoreCookies(r)
    \/ \E set \in Headers : Answer(r, set)

Worker == OpenStorage \/ OpenStorageFails \/ Load \/ LoadFails \/ Kill \/ Restart

Saving == SaveCookies \/ \E i \in DOMAIN saving : PutEnds(i) \/ PutFails(i)

Overriding == \E o \in Overrides : AskOverride(o) \/ OverrideCookie(o)

Next == Worker \/ Fetching \/ Saving \/ Overriding

Spec == Init /\ [][Next]_vars

(* Tasks that may run do run, Cache Storage ends what it was asked, and a  *)
(* fetch ends one way or the other.                                        *)
Fairness ==
    /\ WF_vars(OpenStorage) /\ WF_vars(Load)
    /\ WF_vars(SaveCookies) /\ WF_vars(PutEnds(1))
    /\ \A r \in Requests :
        /\ WF_vars(AddCookies(r)) /\ WF_vars(StoreCookies(r))
        /\ WF_vars(FetchFails(r) \/ \E set \in Headers : Answer(r, set))
    /\ \A o \in Overrides : WF_vars(OverrideCookie(o))

FairSpec == Spec /\ Fairness

-----------------------------------------------------------------------------
(* Every variable keeps its type.                                          *)
TypeOK ==
    /\ phase \in {"down", "opening", "loading", "ready"}
    /\ opened \in BOOLEAN
    /\ jar \in [Names -> Stored \cup {None}] /\ disk \in [Names -> Stored \cup {None}]
    /\ overridden \in [Names -> Stored \cup {None, NotOverridden}]
    /\ queue \in Seq(Job)
    /\ saving \in Seq([Names -> Stored \cup {None}])
    /\ pc \in [Requests -> {"idle", "adding", "fetching", "storing", "done", "failed"}]
    /\ sent \in [Requests -> [Names -> Stored \cup {None}]]
    /\ asked \subseteq Overrides
    /\ {owed, applied} \subseteq SUBSET (Requests \cup Overrides)
    /\ {held, saved} \subseteq SUBSET Requests
    /\ due \in [Requests -> SUBSET (Requests \cup Overrides)]
    /\ failed \subseteq {"match", "put"}

(* A put writes what the memory holds when it ends, not an older or mixed  *)
(* state, whichever of several puts ends last: the read guard of save()    *)
(* keeps every change out until then.                                      *)
PutIsFresh == [][disk' # disk => disk' = Snapshot(jar, overridden)]_vars

(* Once no store and no save is pending, what is saved is what the memory  *)
(* holds, overrides apart: no change is left behind by the last save,      *)
(* unless Cache Storage itself failed.                                     *)
QuietMeansSaved ==
    (/\ failed = {} /\ phase = "ready" /\ opened /\ saving = <<>>
     /\ \A i \in DOMAIN queue : queue[i].op \notin {"store", "save"})
        => disk = Snapshot(jar, overridden)

(* A cookie that was saved stays saved under its name, whatever is killed, *)
(* loaded, overridden and saved again: no save forgets a cookie that could *)
(* be loaded.                                                              *)
NothingForgotten ==
    [][\A n \in Names : disk[n] # None => disk'[n] # None \/ "match" \in failed]_vars

(* A fetch that begins after an override was acknowledged, or after a      *)
(* response with cookies was handed on, is sent with those changes made:   *)
(* sw.js answers before the override ran, and the lock's order makes up    *)
(* for it.  So is one that a later worker begins, as far as the changes    *)
(* were saved when the earlier was killed and can be loaded: the jar is    *)
(* loaded before the first fetch.  What a kill loses is no part of it.     *)
BegunAfterSees ==
    \A r \in Requests : pc[r] = "fetching" => due[r] \subseteq applied

(* What the calls of overrideCookie may be for the next property: they name*)
(* each cookie once, as a second override would take the first for the old *)
(* cookie and save it, and no response sets the value they do.             *)
Forced(n) == {Override[o].value : o \in {x \in Overrides : Override[x].name = n}}
OneOverrideEach == \A o, p \in Overrides : Override[o].name = Override[p].name => o = p
ForcedApart == \A c \in SetCookies : c.value \notin Forced(c.name)

(* The value of an override is never saved: only the cookie it replaced    *)
(* is, also by a save that a later response asks for.                      *)
OverrideIsNotSaved ==
    \A n \in Names : disk[n] # None => disk[n].value \notin Forced(n)


(* A cookie of the jar is in time saved as it is, unless the worker is     *)
(* killed first, Cache Storage fails, or the name is overridden: no save   *)
(* that is due is given up or overtaken for good.  Under an override, save *)
(* keeps the cookie from before it, and what a response sets meanwhile is  *)
(* never written.                                                          *)
SavedInTime == \A n \in Names :
    (phase = "ready" /\ opened /\ jar[n] # None)
        ~> (phase = "down" \/ failed # {} \/ overridden[n] # NotOverridden \/ disk[n] = jar[n])
=============================================================================
