---------------------------- MODULE CookieProofs ----------------------------
(* Proofs about CookieStore, for any cookies, fetches, overrides and      *)
(* faults of Cache Storage.                                                *)
EXTENDS CookieStore, SequenceTheorems, TLAPS

-----------------------------------------------------------------------------
(* The strengthening is what the lock is for: a running put holds a read   *)
(* guard, so nothing it writes has been changed in memory since, and none  *)
(* runs while the saved cookies are loaded.                                *)
Jar == [Names -> Stored \cup {None}]

Guarded ==
    /\ \A i \in DOMAIN saving : saving[i] = Snapshot(jar, overridden)
    /\ phase # "ready" => saving = <<>>

-----------------------------------------------------------------------------
(* What Append, Head, Tail and RemoveAt do.                                *)
LEMMA QueueAppend ==
    ASSUME NEW q \in Seq(Job), NEW j \in Job
    PROVE  Append(q, j) \in Seq(Job)
  OBVIOUS

LEMMA QueueTail ==
    ASSUME NEW q \in Seq(Job), q # <<>>
    PROVE  Head(q) \in Job /\ Tail(q) \in Seq(Job)
  OBVIOUS

LEMMA Jobs ==
    /\ \A r \in Requests : Add(r) \in Job
    /\ \A r \in Requests, set \in SUBSET SetCookies : Store(r, set) \in Job
    /\ \A o \in Overrides : ApplyOverride(o) \in Job
    /\ Save \in Job
  BY DEF Add, Store, ApplyOverride, Save, Job

LEMMA Removed ==
    ASSUME NEW S, NEW s \in Seq(S), NEW i \in DOMAIN s
    PROVE  /\ RemoveAt(s, i) \in Seq(S)
           /\ \A k \in DOMAIN RemoveAt(s, i) : \E j \in DOMAIN s : RemoveAt(s, i)[k] = s[j]
<1> DEFINE a == SubSeq(s, 1, i - 1)
           b == SubSeq(s, i + 1, Len(s))
<1>1. i \in 1 .. Len(s) /\ Len(s) \in Nat
  OBVIOUS
<1>2. a \in Seq(S) /\ Len(a) = i - 1 /\ \A k \in 1 .. (i - 1) : a[k] = s[k]
  BY <1>1
<1>3. b \in Seq(S) /\ Len(b) = Len(s) - i /\ \A k \in 1 .. (Len(s) - i) : b[k] = s[i + k]
  BY <1>1
<1>4. RemoveAt(s, i) = a \o b
  BY DEF RemoveAt
<1>5. /\ a \o b \in Seq(S) /\ DOMAIN (a \o b) = 1 .. (i - 1) + (Len(s) - i)
      /\ \A k \in 1 .. (i - 1) + (Len(s) - i) :
            (a \o b)[k] = IF k <= i - 1 THEN a[k] ELSE b[k - (i - 1)]
  <2> HIDE DEF a, b
  <2>1. a \in Seq(S) /\ b \in Seq(S)
    BY <1>2, <1>3
  <2>2. /\ a \o b \in Seq(S) /\ Len(a \o b) = Len(a) + Len(b)
        /\ \A k \in 1 .. Len(a) + Len(b) :
              (a \o b)[k] = IF k <= Len(a) THEN a[k] ELSE b[k - Len(a)]
    BY <2>1, ConcatProperties, Zenon
  <2>3. DOMAIN (a \o b) = 1 .. Len(a \o b)
    BY <2>2, LenProperties
  <2> QED BY <1>2, <1>3, <2>2, <2>3
<1>6. ASSUME NEW k \in 1 .. (i - 1) + (Len(s) - i) PROVE \E j \in DOMAIN s : (a \o b)[k] = s[j]
  <2> HIDE DEF a, b
  <2>1. CASE k <= i - 1
    <3>1. (a \o b)[k] = s[k] /\ k \in DOMAIN s
      BY <1>1, <1>2, <1>5, <2>1
    <3> QED BY <3>1
  <2>2. CASE ~(k <= i - 1)
    <3>1. k - (i - 1) \in 1 .. (Len(s) - i) /\ i + (k - (i - 1)) \in 1 .. Len(s)
      BY <1>1, <1>6, <2>2
    <3>2. (a \o b)[k] = b[k - (i - 1)]
      BY <1>5, <1>6, <2>2
    <3>3. b[k - (i - 1)] = s[i + (k - (i - 1))]
      BY <1>3, <3>1
    <3> QED BY <3>1, <3>2, <3>3
  <2> QED BY <2>1, <2>2
<1> HIDE DEF a, b
<1> QED BY <1>4, <1>5, <1>6

-----------------------------------------------------------------------------
(* The maps stay maps of the names.                                        *)
LEMMA SnapshotIsJar ==
    ASSUME NEW j \in Jar, NEW o \in [Names -> Stored \cup {None, NotOverridden}]
    PROVE  Snapshot(j, o) \in Jar
  BY DEF Snapshot, Jar

LEMMA JarWithIsJar ==
    ASSUME jar \in Jar, NEW new \in SUBSET SetCookies
    PROVE  JarWith(new) \in Jar
<1>1. ASSUME NEW c \in SetCookies
      PROVE  [value |-> c.value, domain |-> c.domain, path |-> c.path] \in Stored
  BY <1>1, SetCookiesAssumption DEF Stored
<1>2. ASSUME NEW n \in Names, \E c \in new : c.name = n
      PROVE  (CHOOSE c \in new : c.name = n) \in SetCookies
  BY <1>2
<1> QED BY <1>1, <1>2 DEF JarWith, Jar

-----------------------------------------------------------------------------
(* The type invariant: every step keeps every variable typed.              *)
LEMMA TypeStep == TypeOK /\ [Next]_vars => TypeOK'
<1> SUFFICES ASSUME TypeOK, [Next]_vars PROVE TypeOK'
  OBVIOUS
<1> DEFINE Same == UNCHANGED <<jar, overridden, saving, disk, sent>>
<1>t. /\ jar \in Jar /\ disk \in Jar /\ saving \in Seq(Jar)
      /\ overridden \in [Names -> Stored \cup {None, NotOverridden}]
      /\ sent \in [Requests -> Jar] /\ queue \in Seq(Job)
  BY DEF TypeOK, Jar
<1>1. CASE OpenStorage \/ OpenStorageFails \/ LoadFails \/ Restart
  <2>1. CASE OpenStorage
    BY <2>1 DEF OpenStorage, history, TypeOK
  <2>2. CASE OpenStorageFails
    BY <2>2 DEF OpenStorageFails, TypeOK
  <2>3. CASE LoadFails
    BY <2>3 DEF LoadFails, TypeOK
  <2>4. CASE Restart
    BY <2>4 DEF Restart, history, TypeOK
  <2> QED BY <1>1, <2>1, <2>2, <2>3, <2>4
<1>2. CASE Load
  <2>1. jar' \in Jar
    BY <1>2, <1>t DEF Load, Jar
  <2> QED BY <1>2, <2>1 DEF Load, history, TypeOK, Jar
<1>3. CASE Kill
  <2>1. disk' \in Jar /\ saved' \subseteq Requests /\ owed' \subseteq Requests \cup Overrides
    <3>1. \A i \in DOMAIN saving : saving[i] \in Jar
      BY <1>t, LenProperties
    <3> QED BY <1>3, <1>t, <3>1 DEF Kill, TypeOK
  <2>2. NoCookies \in Jar /\ <<>> \in Seq(Jar) /\ <<>> \in Seq(Job)
    BY DEF NoCookies, Jar
  <2> QED BY <1>3, <2>1, <2>2 DEF Kill, TypeOK, Jar
<1>4. ASSUME NEW r \in Requests, Begin(r) PROVE TypeOK'
  <2>1. queue' \in Seq(Job)
    BY <1>4, <1>t, Jobs, QueueAppend DEF Begin
  <2> QED BY <1>4, <2>1 DEF Begin, TypeOK
<1>5. ASSUME NEW r \in Requests, AddCookies(r) PROVE TypeOK'
  <2>1. queue' \in Seq(Job)
    BY <1>5, <1>t, QueueTail DEF AddCookies, Runs
  <2>2. sent' \in [Requests -> Jar]
    <3>1. NoCookies \in Jar
      BY DEF NoCookies, Jar
    <3>2. [n \in Names |-> IF n \in CookiesFor(Url[r], jar) THEN jar[n] ELSE None] \in Jar
      BY <1>t DEF Jar
    <3> QED BY <1>5, <1>t, <3>1, <3>2 DEF AddCookies
  <2> QED BY <1>5, <2>1, <2>2 DEF AddCookies, history, TypeOK, Jar
<1>6. ASSUME NEW r \in Requests, FetchFails(r) PROVE TypeOK'
  BY <1>6 DEF FetchFails, memory, history, TypeOK
<1>7. ASSUME NEW r \in Requests, NEW set \in Headers, Answer(r, set) PROVE TypeOK'
  <2>1. queue' \in Seq(Job)
    BY <1>7, <1>t, Jobs, QueueAppend DEF Answer, Headers
  <2> QED BY <1>7, <2>1 DEF Answer, history, TypeOK
<1>8. ASSUME NEW r \in Requests, StoreCookies(r) PROVE TypeOK'
  <2> DEFINE new == Accepted(Url[r], Head(queue).set)
  <2>1. Head(queue) \in Job /\ Tail(queue) \in Seq(Job)
    BY <1>8, <1>t, QueueTail DEF StoreCookies, Runs
  <2>2. new \in SUBSET SetCookies
    BY <2>1 DEF Accepted, Job
  <2>3. jar' \in Jar
    BY <1>8, <1>t, <2>2, JarWithIsJar DEF StoreCookies
  <2>4. queue' \in Seq(Job)
    <3>1. <<Save>> \in Seq(Job) /\ <<>> \in Seq(Job)
      BY Jobs
    <3>2. queue' = Tail(queue) \o <<Save>> \/ queue' = Tail(queue) \o <<>>
      BY <1>8 DEF StoreCookies
    <3> QED BY <2>1, <3>1, <3>2, ConcatProperties
  <2>5. owed' \cup applied' \subseteq Requests \cup Overrides /\ held' \subseteq Requests
    BY <1>8 DEF StoreCookies, AnsweredWith, TypeOK
  <2> QED BY <1>8, <2>3, <2>4, <2>5 DEF StoreCookies, TypeOK, Jar
<1>9. CASE SaveCookies
  <2>1. queue' \in Seq(Job)
    BY <1>9, <1>t, QueueTail DEF SaveCookies, Runs
  <2>2. saving' \in Seq(Jar)
    <3>1. Snapshot(jar, overridden) \in Jar
      BY <1>t, SnapshotIsJar
    <3> QED BY <1>9, <1>t, <3>1 DEF SaveCookies
  <2> QED BY <1>9, <2>1, <2>2 DEF SaveCookies, history, TypeOK, Jar
<1>10. ASSUME NEW i \in DOMAIN saving, PutEnds(i) \/ PutFails(i) PROVE TypeOK'
  <2>1. saving' \in Seq(Jar)
    BY <1>10, <1>t, Removed DEF PutEnds, PutFails
  <2>2. disk' \in Jar
    BY <1>10, <1>t, LenProperties DEF PutEnds, PutFails
  <2> QED BY <1>10, <2>1, <2>2 DEF PutEnds, PutFails, history, TypeOK, Jar
<1>11. ASSUME NEW o \in Overrides, AskOverride(o) PROVE TypeOK'
  <2>1. queue' \in Seq(Job)
    BY <1>11, <1>t, Jobs, QueueAppend DEF AskOverride
  <2> QED BY <1>11, <2>1 DEF AskOverride, TypeOK
<1>12. ASSUME NEW o \in Overrides, OverrideCookie(o) PROVE TypeOK'
  <2> DEFINE n == Override[o].name
  <2>1. n \in Names /\ Override[o].value \in Values /\ jar[n] \in Stored \cup {None}
    BY <1>t, OverrideAssumption DEF Jar
  <2>2. queue' \in Seq(Job)
    BY <1>12, <1>t, QueueTail DEF OverrideCookie, Runs
  <2>3. overridden' \in [Names -> Stored \cup {None, NotOverridden}]
    BY <1>12, <1>t, <2>1 DEF OverrideCookie
  <2>4. [value |-> Override[o].value,
         domain |-> IF jar[n] = None THEN None ELSE jar[n].domain,
         path |-> IF jar[n] = None THEN None ELSE jar[n].path] \in Stored
    BY <2>1 DEF Stored
  <2>5. jar' \in Jar
    BY <1>12, <1>t, <2>1, <2>4 DEF OverrideCookie, Jar
  <2> QED BY <1>12, <2>2, <2>3, <2>5 DEF OverrideCookie, TypeOK, Jar
<1>13. CASE UNCHANGED vars
  BY <1>13 DEF vars, memory, history, TypeOK
<1> QED
  BY <1>1, <1>2, <1>3, <1>4, <1>5, <1>6, <1>7, <1>8, <1>9, <1>10, <1>11, <1>12, <1>13
     DEF Next, Worker, Fetching, Saving, Overriding

(* Spec keeps the type invariant: the jar, what is saved and the copies a  *)
(* put writes or a fetch is given are maps of the cookies' names, and the  *)
(* lock's queue holds well-formed jobs.                                    *)
THEOREM TypeCorrect == Spec => []TypeOK
<1>1. Init => TypeOK
  <2> SUFFICES ASSUME Init PROVE TypeOK
    OBVIOUS
  <2>1. <<>> \in Seq(Jar) /\ <<>> \in Seq(Job)
    OBVIOUS
  <2> QED BY <2>1 DEF Init, NoCookies, TypeOK, Jar
<1> QED
  BY <1>1, TypeStep, PTL DEF Spec

-----------------------------------------------------------------------------
(* Every step keeps Guarded: whoever changes the jar or the overrides      *)
(* holds the lock alone, and a put that ends takes its own guard away.     *)
LEMMA GuardedStep == TypeOK /\ Guarded /\ [Next]_vars => Guarded'
<1> SUFFICES ASSUME TypeOK, Guarded, [Next]_vars PROVE Guarded'
  OBVIOUS
<1> DEFINE Mem == Snapshot(jar, overridden)
<1>t. saving \in Seq(Jar)
  BY DEF TypeOK, Jar
<1>e. DOMAIN <<>> = {}
  OBVIOUS
<1>1. CASE saving' = <<>>
  BY <1>1, <1>e DEF Guarded
<1>2. CASE UNCHANGED <<saving, jar, overridden>> /\ (phase = "ready" => phase' = "ready")
  BY <1>2 DEF Guarded
<1>3. CASE Worker
  BY <1>1, <1>3 DEF Worker, OpenStorage, OpenStorageFails, Load, LoadFails, Kill, Restart, Guarded
<1>4. CASE Fetching
  <2>1. PICK r \in Requests :
            \/ Begin(r) \/ AddCookies(r) \/ FetchFails(r) \/ StoreCookies(r)
            \/ \E set \in Headers : Answer(r, set)
    BY <1>4 DEF Fetching
  <2>2. CASE StoreCookies(r)
    BY <1>1, <2>2 DEF StoreCookies
  <2>3. CASE ~StoreCookies(r)
    BY <1>2, <2>1, <2>3 DEF Begin, AddCookies, FetchFails, Answer, memory
  <2> QED BY <2>2, <2>3
<1>5. CASE SaveCookies
  <2>1. CASE opened
    <3>1. saving' = Append(saving, Mem) /\ UNCHANGED <<jar, overridden, phase>> /\ phase = "ready"
      BY <1>5, <2>1 DEF SaveCookies, Runs
    <3>2. DOMAIN saving' = 1 .. Len(saving) + 1 /\ DOMAIN saving = 1 .. Len(saving)
          /\ Len(saving) \in Nat /\ saving'[Len(saving) + 1] = Mem
          /\ \A i \in 1 .. Len(saving) : saving'[i] = saving[i]
      <4> DEFINE m == Mem
      <4>1. saving' = Append(saving, m)
        BY <3>1
      <4> HIDE DEF m
      <4>2. m = Mem
        BY DEF m
      <4> QED BY <1>t, <4>1, <4>2, LenProperties
    <3>3. \A i \in DOMAIN saving' : saving'[i] = Mem
      BY <3>2 DEF Guarded
    <3> QED BY <3>1, <3>3 DEF Guarded
  <2>2. CASE ~opened
    BY <1>2, <1>5, <2>2 DEF SaveCookies
  <2> QED BY <2>1, <2>2
<1>6. ASSUME NEW i \in DOMAIN saving, PutEnds(i) \/ PutFails(i) PROVE Guarded'
  <2>1. saving' = RemoveAt(saving, i) /\ UNCHANGED <<jar, overridden, phase>>
    BY <1>6 DEF PutEnds, PutFails
  <2>2. \A k \in DOMAIN saving' : \E j \in DOMAIN saving : saving'[k] = saving[j]
    BY <1>t, <2>1, Removed
  <2>3. phase = "ready"
    BY <1>6, <1>e DEF Guarded
  <2> QED BY <2>1, <2>2, <2>3 DEF Guarded
<1>7. ASSUME NEW o \in Overrides, AskOverride(o) \/ OverrideCookie(o) PROVE Guarded'
  BY <1>1, <1>2, <1>7 DEF AskOverride, OverrideCookie
<1>8. CASE UNCHANGED vars
  BY <1>2, <1>8 DEF vars, memory
<1> QED
  BY <1>3, <1>4, <1>5, <1>6, <1>7, <1>8 DEF Next, Saving, Overriding

(* What reaches Cache Storage is what the memory holds at that moment: a   *)
(* put of save() never writes a state that a later store, override or load *)
(* has replaced, however many saves run and in whatever order they end.    *)
THEOREM PutsAreFresh == Spec => PutIsFresh
<1> DEFINE Fresh == disk' # disk => disk' = Snapshot(jar, overridden)
<1>1. Init => Guarded
  <2>1. DOMAIN <<>> = {}
    OBVIOUS
  <2> QED BY <2>1 DEF Init, Guarded
<1>2. Guarded /\ [Next]_vars => [Fresh]_vars
  <2> SUFFICES ASSUME Guarded, Next PROVE Fresh
    BY DEF vars
  <2>1. CASE Worker
    BY <2>1 DEF Worker, OpenStorage, OpenStorageFails, Load, LoadFails, Kill, Restart, Guarded
  <2>2. CASE Fetching
    BY <2>2 DEF Fetching, Begin, AddCookies, FetchFails, StoreCookies, Answer
  <2>3. CASE Saving
    BY <2>3 DEF Saving, SaveCookies, PutEnds, PutFails, Guarded
  <2>4. CASE Overriding
    BY <2>4 DEF Overriding, AskOverride, OverrideCookie
  <2> QED BY <2>1, <2>2, <2>3, <2>4 DEF Next
<1> QED
  BY <1>1, <1>2, TypeCorrect, GuardedStep, PTL DEF Spec, PutIsFresh

-----------------------------------------------------------------------------
(* The lock is granted in the order it was asked for.  Of the changes that *)
(* a set names, all are done or wait among the first n of the queue: so it *)
(* is for what was answered, and before each add for what it has to see.   *)
Behind(q, n, set, done) ==
    \A x \in set : x \in done \/ \E i \in 1 .. n : q[i] = ApplyOverride(x)

Ordered ==
    /\ IF phase = "ready" THEN Behind(queue, Len(queue), owed, applied) ELSE owed \subseteq saved
    /\ \A k \in 1 .. Len(queue) : queue[k].op = "add" =>
          /\ queue[k].of \in Requests /\ pc[queue[k].of] # "idle"
          /\ Behind(queue, k - 1, due[queue[k].of], applied)
    /\ BegunAfterSees

(* A job more at the end changes nothing for those before it.              *)
LEMMA BehindAppend ==
    ASSUME NEW q \in Seq(Job), NEW j \in Job, NEW n \in 0 .. Len(q),
           NEW set, NEW done, Behind(q, n, set, done)
    PROVE  Behind(Append(q, j), n, set, done)
<1>1. \A i \in 1 .. n : Append(q, j)[i] = q[i]
  OBVIOUS
<1> QED BY <1>1 DEF Behind

(* The first job that leaves has done its change, if it was an override.   *)
LEMMA BehindTail ==
    ASSUME NEW q \in Seq(Job), q # <<>>, NEW n \in 1 .. Len(q), NEW set, NEW done, NEW then,
           Behind(q, n, set, done), done \subseteq then,
           Head(q).op = "override" => Head(q).of \in then
    PROVE  Behind(Tail(q), n - 1, set, then)
<1> SUFFICES ASSUME NEW x \in set, x \notin then
             PROVE  \E i \in 1 .. (n - 1) : Tail(q)[i] = ApplyOverride(x)
  BY DEF Behind
<1>1. PICK i \in 1 .. n : q[i] = ApplyOverride(x)
  BY DEF Behind
<1>2. i # 1
  <2>1. ApplyOverride(x).op = "override" /\ ApplyOverride(x).of = x
    BY DEF ApplyOverride
  <2>2. q[1] = Head(q)
    OBVIOUS
  <2> QED BY <1>1, <2>1, <2>2
<1>3. i - 1 \in 1 .. (n - 1) /\ Tail(q)[i - 1] = q[i]
  BY <1>2
<1> QED BY <1>1, <1>3

(* Every step keeps the order: jobs join at the end and leave at the head. *)
LEMMA OrderedStep == TypeOK /\ Guarded /\ Ordered /\ [Next]_vars => Ordered'
<1> SUFFICES ASSUME TypeOK, Guarded, Ordered, [Next]_vars PROVE Ordered'
  OBVIOUS
<1>t. queue \in Seq(Job) /\ Len(queue) \in Nat /\ DOMAIN pc = Requests
  BY DEF TypeOK
<1>1. CASE UNCHANGED <<queue, due, owed, applied, pc>> /\ (phase' = "ready" <=> phase = "ready")
           /\ (phase = "ready" \/ saved' = saved)
  BY <1>1 DEF Ordered, BegunAfterSees, Behind
<1>2. CASE UNCHANGED <<queue, due, owed, applied, phase, saved>>
           /\ \E r \in Requests : pc' = [pc EXCEPT ![r] = "failed"]
  BY <1>2, <1>t DEF Ordered, BegunAfterSees, Behind
<1>3. CASE Worker
  <2>1. CASE Kill
    <3>1. /\ queue' = <<>> /\ phase' = "down" /\ owed' \subseteq saved'
          /\ \A r \in Requests : pc'[r] # "fetching"
      BY <2>1 DEF Kill
    <3>2. Len(<<>>) = 0
      OBVIOUS
    <3> QED BY <3>1, <3>2 DEF Ordered, BegunAfterSees, Behind
  <2>2. CASE OpenStorage \/ Restart
    BY <1>1, <2>2 DEF OpenStorage, Restart, history
  <2>3. CASE Load \/ LoadFails \/ OpenStorageFails
    <3>1. /\ UNCHANGED <<queue, due, pc>> /\ applied \subseteq applied' /\ owed' \subseteq applied'
      BY <2>3 DEF Load, LoadFails, OpenStorageFails, Ordered
    <3>2. \A n \in Nat : \A set \in SUBSET (Requests \cup Overrides) :
              Behind(queue, n, set, applied) => Behind(queue', n, set, applied')
      BY <3>1 DEF Behind
    <3>3. \A k \in 1 .. Len(queue) : k - 1 \in Nat
      OBVIOUS
    <3>4. \A r \in Requests : due[r] \in SUBSET (Requests \cup Overrides)
      BY DEF TypeOK
    <3>5. ASSUME NEW k \in 1 .. Len(queue'), queue'[k].op = "add"
          PROVE  /\ queue'[k].of \in Requests /\ pc'[queue'[k].of] # "idle"
                 /\ Behind(queue', k - 1, due'[queue'[k].of], applied')
      BY <3>1, <3>2, <3>3, <3>4, <3>5 DEF Ordered
    <3>6. Behind(queue', Len(queue'), owed', applied') /\ owed' \subseteq applied' /\ phase' = "ready"
      BY <2>3, <3>1 DEF Behind, Load, LoadFails, OpenStorageFails
    <3>7. BegunAfterSees'
      BY <3>1 DEF Ordered, BegunAfterSees
    <3> QED BY <3>5, <3>6, <3>7 DEF Ordered
  <2> QED BY <1>3, <2>1, <2>2, <2>3 DEF Worker
(* A job joins the queue.                                                  *)
<1>4. ASSUME NEW j \in Job, queue' = Append(queue, j), applied' = applied,
             IF phase' = "ready" THEN Behind(Append(queue, j), Len(queue) + 1, owed', applied)
                                 ELSE owed' \subseteq saved',
             \A r \in Requests : (pc[r] # "idle" => pc'[r] # "idle" /\ due'[r] = due[r]),
             j.op = "add" => /\ j.of \in Requests /\ pc'[j.of] # "idle"
                             /\ Behind(queue, Len(queue), due'[j.of], applied),
             \A r \in Requests : pc'[r] = "fetching" => pc[r] = "fetching"
      PROVE  Ordered'
  <2>1. Len(queue') = Len(queue) + 1 /\ queue'[Len(queue) + 1] = j
        /\ \A k \in 1 .. Len(queue) : queue'[k] = queue[k]
    BY <1>4, <1>t
  <2>2. ASSUME NEW k \in 1 .. Len(queue'), queue'[k].op = "add"
        PROVE  /\ queue'[k].of \in Requests /\ pc'[queue'[k].of] # "idle"
               /\ Behind(queue', k - 1, due'[queue'[k].of], applied)
    <3>1. CASE k = Len(queue) + 1
      <4>1. Behind(queue', Len(queue), due'[j.of], applied)
        BY <1>4, <1>t, <2>1, <2>2, <3>1, BehindAppend
      <4> QED BY <1>4, <1>t, <2>1, <2>2, <3>1, <4>1
    <3>2. CASE k \in 1 .. Len(queue)
      <4>1. /\ queue[k].of \in Requests /\ pc[queue[k].of] # "idle" /\ queue'[k] = queue[k]
            /\ Behind(queue, k - 1, due[queue[k].of], applied)
        BY <2>1, <2>2, <3>2 DEF Ordered
      <4>2. k - 1 \in 0 .. Len(queue)
        BY <1>t, <3>2
      <4>3. Behind(queue', k - 1, due[queue[k].of], applied)
        BY <1>4, <1>t, <4>1, <4>2, BehindAppend
      <4> QED BY <1>4, <4>1, <4>3
    <3> QED BY <1>t, <2>1, <3>1, <3>2
  <2>3. BegunAfterSees'
    BY <1>4 DEF Ordered, BegunAfterSees
  <2> QED BY <1>4, <2>1, <2>2, <2>3 DEF Ordered
(* The first job leaves it, and another may join.                          *)
<1>5. ASSUME queue # <<>>, due' = due, phase = "ready", phase' = "ready",
             queue' = Tail(queue) \/ queue' = Append(Tail(queue), Save),
             applied \subseteq applied', owed' \subseteq owed \cup applied',
             Head(queue).op = "override" => Head(queue).of \in applied',
             \A r \in Requests : pc[r] # "idle" => pc'[r] # "idle",
             \A r \in Requests : pc'[r] = "fetching" =>
                 pc[r] = "fetching" \/ (Head(queue).op = "add" /\ Head(queue).of = r)
      PROVE  Ordered'
  <2> DEFINE t == Tail(queue)
  <2>1. t \in Seq(Job) /\ Len(t) = Len(queue) - 1 /\ Len(t) \in Nat
        /\ \A k \in 1 .. Len(t) : k + 1 \in 1 .. Len(queue) /\ t[k] = queue[k + 1]
    BY <1>5, <1>t
  <2>2. Behind(t, Len(t), owed, applied')
    <3>1. Len(queue) \in 1 .. Len(queue)
      BY <1>5, <1>t
    <3>2. Behind(queue, Len(queue), owed, applied)
      BY <1>5 DEF Ordered
    <3>3. Behind(t, Len(queue) - 1, owed, applied')
      BY <1>5, <1>t, <3>1, <3>2, BehindTail
    <3> QED BY <2>1, <3>3
  <2>3. Behind(t, Len(t), owed', applied')
    BY <1>5, <2>2 DEF Behind
  <2>4. ASSUME NEW k \in 1 .. Len(t), t[k].op = "add"
        PROVE  /\ t[k].of \in Requests /\ pc'[t[k].of] # "idle"
               /\ Behind(t, k - 1, due'[t[k].of], applied')
    <3>1. k \in 1 .. Len(queue) /\ k + 1 \in 1 .. Len(queue) /\ t[k] = queue[k + 1] /\ (k + 1) - 1 = k
      BY <1>t, <2>1, <2>4
    <3>2. /\ t[k].of \in Requests /\ pc[t[k].of] # "idle"
          /\ Behind(queue, k, due[t[k].of], applied)
      BY <2>4, <3>1 DEF Ordered
    <3>3. Behind(t, k - 1, due[t[k].of], applied')
      BY <1>5, <1>t, <3>1, <3>2, BehindTail
    <3> QED BY <1>5, <3>2, <3>3
  <2>5. BegunAfterSees'
    <3> SUFFICES ASSUME NEW r \in Requests, pc'[r] = "fetching" PROVE due[r] \subseteq applied'
      BY <1>5 DEF BegunAfterSees
    <3>1. CASE pc[r] = "fetching"
      BY <1>5, <3>1 DEF Ordered, BegunAfterSees
    <3>2. CASE Head(queue).op = "add" /\ Head(queue).of = r
      <4>1. 1 \in 1 .. Len(queue) /\ queue[1] = Head(queue)
        BY <1>5, <1>t
      <4>2. Behind(queue, 1 - 1, due[r], applied)
        BY <3>2, <4>1 DEF Ordered
      <4> QED BY <1>5, <4>2 DEF Behind
    <3> QED BY <1>5, <3>1, <3>2
  <2> HIDE DEF t
  <2>6. CASE queue' = t
    BY <1>5, <2>3, <2>4, <2>5, <2>6 DEF Ordered
  <2>7. CASE queue' = Append(t, Save)
    <3>1. /\ Len(queue') = Len(t) + 1 /\ queue'[Len(t) + 1] = Save
          /\ \A k \in 1 .. Len(t) : queue'[k] = t[k]
      BY <2>1, <2>7
    <3>2. Save.op # "add" /\ Save \in Job
      BY Jobs DEF Save
    <3>3. Behind(queue', Len(t), owed', applied')
      BY <2>1, <2>3, <2>7, <3>2, BehindAppend
    <3>4. Behind(queue', Len(queue'), owed', applied')
      BY <2>1, <3>1, <3>3 DEF Behind
    <3>5. ASSUME NEW k \in 1 .. Len(queue'), queue'[k].op = "add"
          PROVE  /\ queue'[k].of \in Requests /\ pc'[queue'[k].of] # "idle"
                 /\ Behind(queue', k - 1, due'[queue'[k].of], applied')
      <4>1. k \in 1 .. Len(t) /\ k - 1 \in 0 .. Len(t) /\ queue'[k] = t[k]
        BY <2>1, <3>1, <3>2, <3>5
      <4>2. /\ t[k].of \in Requests /\ pc'[t[k].of] # "idle"
            /\ Behind(t, k - 1, due'[t[k].of], applied')
        BY <2>4, <3>5, <4>1
      <4>3. Behind(queue', k - 1, due'[t[k].of], applied')
        BY <2>1, <2>7, <3>2, <4>1, <4>2, BehindAppend
      <4> QED BY <4>1, <4>2, <4>3
    <3> QED BY <1>5, <2>5, <3>4, <3>5 DEF Ordered
  <2> QED BY <1>5, <2>6, <2>7 DEF t
<1>w. ASSUME NEW j \in Job, phase = "ready"
      PROVE  Behind(Append(queue, j), Len(queue) + 1, owed, applied)
  <2>1. Len(queue) \in 0 .. Len(queue)
    BY <1>t
  <2>2. Behind(Append(queue, j), Len(queue), owed, applied)
    BY <1>t, <1>w, <2>1, BehindAppend DEF Ordered
  <2> QED BY <1>t, <2>2 DEF Behind
<1>6. ASSUME NEW r \in Requests, Begin(r) PROVE Ordered'
  <2>1. Add(r) \in Job /\ Add(r).op = "add" /\ Add(r).of = r
    BY Jobs DEF Add
  <2>2. /\ queue' = Append(queue, Add(r)) /\ applied' = applied /\ owed' = owed
        /\ due'[r] = owed /\ pc'[r] = "adding" /\ pc[r] = "idle" /\ phase = "ready"
        /\ \A q \in Requests : q # r => pc'[q] = pc[q] /\ due'[q] = due[q]
    BY <1>6 DEF Begin, TypeOK
  <2>3. Behind(queue, Len(queue), owed, applied)
    BY <2>2 DEF Ordered
  <2>4. Behind(Append(queue, Add(r)), Len(queue) + 1, owed', applied) /\ phase' = "ready"
    BY <1>6, <1>w, <2>1, <2>2 DEF Begin
  <2> QED BY <1>4, <2>1, <2>2, <2>3, <2>4
<1>7. ASSUME NEW r \in Requests, NEW set \in Headers, Answer(r, set) PROVE Ordered'
  <2>1. Store(r, set) \in Job /\ Store(r, set).op # "add"
    BY Jobs DEF Store, Headers
  <2>2. /\ queue' = Append(queue, Store(r, set)) /\ UNCHANGED <<applied, owed, due, phase, saved>>
        /\ pc' = [pc EXCEPT ![r] = "storing"]
    BY <1>7 DEF Answer, history
  <2>3. IF phase' = "ready" THEN Behind(Append(queue, Store(r, set)), Len(queue) + 1, owed', applied)
                            ELSE owed' \subseteq saved'
    BY <1>w, <2>1, <2>2 DEF Ordered
  <2> QED BY <1>4, <1>t, <2>1, <2>2, <2>3
<1>8. ASSUME NEW o \in Overrides, AskOverride(o) PROVE Ordered'
  <2>1. ApplyOverride(o) \in Job /\ ApplyOverride(o).op # "add"
    BY Jobs DEF ApplyOverride
  <2>2. /\ queue' = Append(queue, ApplyOverride(o)) /\ UNCHANGED <<applied, due, pc>>
        /\ owed' = owed \cup {o} /\ phase = "ready" /\ phase' = "ready"
    BY <1>8 DEF AskOverride
  <2>3. Append(queue, ApplyOverride(o))[Len(queue) + 1] = ApplyOverride(o)
    BY <1>t, <2>1
  <2>4. Behind(Append(queue, ApplyOverride(o)), Len(queue) + 1, owed', applied)
    BY <1>t, <1>w, <2>1, <2>2, <2>3 DEF Behind
  <2> QED BY <1>4, <2>1, <2>2, <2>4
<1>9. ASSUME NEW r \in Requests, AddCookies(r) PROVE Ordered'
  <2>1. /\ queue # <<>> /\ Head(queue).op = "add" /\ Head(queue).of = r /\ queue' = Tail(queue)
        /\ UNCHANGED <<due, applied, owed, phase>> /\ pc' = [pc EXCEPT ![r] = "fetching"]
        /\ phase = "ready"
    BY <1>9 DEF AddCookies, Runs, history
  <2> QED BY <1>5, <1>t, <2>1
<1>10. ASSUME NEW r \in Requests, StoreCookies(r) PROVE Ordered'
  <2>1. /\ queue # <<>> /\ Head(queue).op = "store" /\ due' = due /\ applied' = applied \cup {r}
        /\ owed' = owed \cup {r} /\ pc' = [pc EXCEPT ![r] = "done"]
        /\ phase = "ready" /\ phase' = "ready"
        /\ queue' = Tail(queue) \o <<Save>> \/ queue' = Tail(queue) \o <<>>
    BY <1>10 DEF StoreCookies, AnsweredWith, Runs
  <2>2. Tail(queue) \in Seq(Job)
    BY <1>t, <2>1
  <2>3. Tail(queue) \o <<>> = Tail(queue)
    BY <2>2, ConcatEmptySeq
  <2>4. Tail(queue) \o <<Save>> = Append(Tail(queue), Save)
    BY <2>2, Jobs, AppendIsConcat
  <2> QED BY <1>5, <1>t, <2>1, <2>3, <2>4
<1>11. CASE SaveCookies
  <2>1. /\ queue # <<>> /\ Head(queue).op = "save" /\ queue' = Tail(queue)
        /\ UNCHANGED <<due, applied, owed, pc, phase>> /\ phase = "ready"
    BY <1>11 DEF SaveCookies, Runs, history
  <2> QED BY <1>5, <2>1
<1>12. ASSUME NEW o \in Overrides, OverrideCookie(o) PROVE Ordered'
  <2>1. /\ queue # <<>> /\ Head(queue).of = o /\ queue' = Tail(queue)
        /\ UNCHANGED <<due, owed, pc, phase>> /\ applied' = applied \cup {o} /\ phase = "ready"
    BY <1>12 DEF OverrideCookie, Runs
  <2> QED BY <1>5, <2>1
<1>13. ASSUME NEW r \in Requests, FetchFails(r) PROVE Ordered'
  BY <1>2, <1>13 DEF FetchFails, memory, history
<1>14. ASSUME NEW i \in DOMAIN saving, PutEnds(i) \/ PutFails(i) PROVE Ordered'
  <2>1. phase = "ready"
    <3>1. DOMAIN <<>> = {}
      OBVIOUS
    <3> QED BY <1>14, <3>1 DEF Guarded
  <2> QED BY <1>1, <1>14, <2>1 DEF PutEnds, PutFails
<1>15. CASE UNCHANGED vars
  BY <1>1, <1>15 DEF vars, memory, history
<1> QED
  BY <1>3, <1>6, <1>7, <1>8, <1>9, <1>10, <1>11, <1>12, <1>13, <1>14, <1>15
     DEF Next, Fetching, Saving, Overriding

(* A fetch is sent with every change that was answered before it began,    *)
(* for any number of fetches and overrides: within the life of a worker    *)
(* the lock's queue carries what sw.js does not wait for, and after a kill *)
(* all that was answered and saved is loaded before any fetch begins,      *)
(* unless Cache Storage refuses it.                                        *)
THEOREM AnsweredIsSeen == Spec => []BegunAfterSees
<1>1. Init => Ordered /\ Guarded
  <2>1. Len(<<>>) = 0 /\ DOMAIN <<>> = {}
    OBVIOUS
  <2> QED BY <2>1 DEF Init, Ordered, Behind, BegunAfterSees, Guarded
<1>2. Ordered => BegunAfterSees
  BY DEF Ordered
<1> QED BY <1>1, <1>2, OrderedStep, GuardedStep, TypeCorrect, PTL DEF Spec

-----------------------------------------------------------------------------
(* What is saved.  Only a worker that is ready and has the cache saves, and*)
(* one that is not ready holds nothing.                                    *)
Holds == phase = "ready" /\ opened

Empty ==
    /\ phase # "ready" => jar = NoCookies /\ overridden = [n \in Names |-> NotOverridden]
    /\ phase \in {"opening", "down"} => ~opened
    /\ saving # <<>> => Holds

(* Nothing that could be loaded is missing in memory, or in what a save    *)
(* makes of it.                                                            *)
Kept ==
    /\ \A n \in Names : overridden[n] # NotOverridden => jar[n] # None
    /\ Holds /\ "match" \notin failed =>
          \A n \in Names : disk[n] # None => jar[n] # None /\ Snapshot(jar, overridden)[n] # None

(* A change that is not saved has its save running or in the queue.        *)
Due ==
    Holds /\ failed = {} =>
        \/ disk = Snapshot(jar, overridden) \/ saving # <<>>
        \/ \E i \in 1 .. Len(queue) : queue[i].op = "save"

(* An override that has not run is the first of its cookie.                *)
Once ==
    /\ \A i \in 1 .. Len(queue) : queue[i].op = "override" =>
          /\ queue[i].of \in asked
          /\ overridden[Override[queue[i].of].name] = NotOverridden
          /\ \A k \in 1 .. Len(queue) : queue[k].op = "override" /\ queue[k].of = queue[i].of => k = i
    /\ \A o \in Overrides \ asked : overridden[Override[o].name] = NotOverridden

(* No forced value is in a place that a save reads or wrote.               *)
Clean(j) == \A n \in Names : j[n] # None => j[n].value \notin Forced(n)
Unforced == Clean(disk) /\ Clean(Snapshot(jar, overridden))

(* What a response sets, or an override forces, is a cookie.               *)
LEMMA StoredValue ==
    ASSUME NEW n \in Names, NEW new \in SUBSET SetCookies, \E c \in new : c.name = n
    PROVE  /\ JarWith(new)[n] \in Stored /\ JarWith(new)[n] # None
           /\ \E c \in new : c.name = n /\ JarWith(new)[n].value = c.value
<1>1. PICK c \in new : c.name = n /\ c = CHOOSE x \in new : x.name = n
  OBVIOUS
<1>2. JarWith(new)[n] = [value |-> c.value, domain |-> c.domain, path |-> c.path]
  BY <1>1 DEF JarWith
<1>3. JarWith(new)[n] \in Stored
  BY <1>2, SetCookiesAssumption DEF Stored
<1>4. JarWith(new)[n] # None
  BY <1>3, NoneAssumption
<1>5. JarWith(new)[n].value = c.value
  BY <1>2
<1> QED BY <1>1, <1>3, <1>4, <1>5

(* The lock's head names cookies of responses.                             *)
LEMMA HeadIsJob ==
    ASSUME TypeOK, NEW op, Runs(op)
    PROVE  Head(queue).set \in SUBSET SetCookies
<1>1. Head(queue) \in Job
  BY QueueTail DEF TypeOK, Runs
<1> QED BY <1>1 DEF Job

(* An override takes the cookie of its name aside, and no other.           *)
LEMMA Forces ==
    ASSUME TypeOK, NEW o \in Overrides, OverrideCookie(o)
    PROVE  /\ Override[o].name \in Names /\ jar'[Override[o].name] \in Stored
           /\ overridden'[Override[o].name] = jar[Override[o].name]
           /\ \A m \in Names : m # Override[o].name =>
                  jar'[m] = jar[m] /\ overridden'[m] = overridden[m]
<1> DEFINE n == Override[o].name
<1>1. n \in Names /\ Override[o].value \in Values /\ jar[n] \in Stored \cup {None}
  BY OverrideAssumption DEF TypeOK
<1>2. [value |-> Override[o].value,
       domain |-> IF jar[n] = None THEN None ELSE jar[n].domain,
       path |-> IF jar[n] = None THEN None ELSE jar[n].path] \in Stored
  BY <1>1 DEF Stored
<1> QED BY <1>1, <1>2 DEF OverrideCookie, TypeOK

(* A put that ends or fails was a running one.                             *)
LEMMA EmptyStep == TypeOK /\ Empty /\ [Next]_vars => Empty'
<1> SUFFICES ASSUME TypeOK, Empty, [Next]_vars PROVE Empty'
  OBVIOUS
<1>1. CASE UNCHANGED <<phase, jar, overridden, opened>> /\ (saving' # <<>> => saving # <<>> \/ Holds)
  BY <1>1 DEF Empty, Holds
<1>2. CASE phase = "ready" /\ phase' = "ready" /\ opened' = opened /\ saving' = saving
  BY <1>2 DEF Empty, Holds
<1>3. CASE Worker
  BY <1>3 DEF Worker, OpenStorage, OpenStorageFails, Load, LoadFails, Kill, Restart, Empty, Holds
<1>4. CASE Fetching
  BY <1>1, <1>2, <1>4 DEF Fetching, Begin, AddCookies, FetchFails, StoreCookies, Answer, Runs, memory
<1>5. CASE SaveCookies
  BY <1>1, <1>5 DEF SaveCookies, Runs, Holds
<1>6. ASSUME NEW i \in DOMAIN saving, PutEnds(i) \/ PutFails(i) PROVE Empty'
  <2>1. saving # <<>>
    BY <1>6
  <2> QED BY <1>1, <1>6, <2>1 DEF PutEnds, PutFails
<1>7. CASE Overriding
  BY <1>1, <1>2, <1>7 DEF Overriding, AskOverride, OverrideCookie, Runs
<1>8. CASE UNCHANGED vars
  BY <1>1, <1>8 DEF vars, memory
<1> QED BY <1>3, <1>4, <1>5, <1>6, <1>7, <1>8 DEF Next, Saving

(* An empty memory snapshots to nothing, and a loaded one to what is saved.*)
LEMMA LoadedIsSaved ==
    ASSUME TypeOK, Empty, Load
    PROVE  Snapshot(jar', overridden') = disk /\ jar' = disk
<1>1. jar = NoCookies /\ overridden' = [n \in Names |-> NotOverridden]
  BY DEF Load, Empty
<1>2. jar' = disk
  BY <1>1 DEF Load, NoCookies, TypeOK
<1>3. Snapshot(jar', overridden') = [n \in Names |-> disk[n]]
  BY <1>1, <1>2 DEF Snapshot
<1> QED BY <1>2, <1>3 DEF TypeOK

LEMMA KeptStep == TypeOK /\ Guarded /\ Empty /\ Kept /\ [Next]_vars => Kept'
<1> SUFFICES ASSUME TypeOK, Guarded, Empty, Kept, [Next]_vars PROVE Kept'
  OBVIOUS
<1>1. CASE UNCHANGED <<phase, jar, overridden, opened, disk>> /\ ("match" \in failed => "match" \in failed')
  BY <1>1 DEF Kept, Holds
<1>2. CASE Worker
  <2>1. CASE Load
    <3>1. \A n \in Names : overridden'[n] = NotOverridden
      BY <2>1 DEF Load, Empty
    <3> QED BY <2>1, <3>1, LoadedIsSaved DEF Load, Kept
  <2>2. CASE Kill
    BY <2>2 DEF Kill, Kept, Holds
  <2>3. CASE OpenStorage \/ OpenStorageFails \/ LoadFails \/ Restart
    BY <2>3 DEF OpenStorage, OpenStorageFails, LoadFails, Restart, history, Empty, Kept, Holds
  <2> QED BY <1>2, <2>1, <2>2, <2>3 DEF Worker
<1>3. CASE Fetching
  <2>1. ASSUME NEW r \in Requests, StoreCookies(r) PROVE Kept'
    <3> DEFINE new == Accepted(Url[r], Head(queue).set)
    <3>1. UNCHANGED <<phase, overridden, opened, disk, failed>> /\ jar' = JarWith(new)
      BY <2>1 DEF StoreCookies
    <3>2. ASSUME NEW n \in Names, jar[n] # None PROVE jar'[n] # None
      <4>1. new \in SUBSET SetCookies
        BY <2>1, HeadIsJob DEF StoreCookies, Accepted
      <4> QED BY <3>1, <3>2, <4>1, StoredValue DEF JarWith
    <3>3. \A n \in Names : Snapshot(jar, overridden)[n] # None => Snapshot(jar', overridden')[n] # None
      BY <3>1, <3>2 DEF Snapshot
    <3> QED BY <3>1, <3>2, <3>3 DEF Kept, Holds
  <2>2. CASE ~ \E r \in Requests : StoreCookies(r)
    BY <1>1, <1>3, <2>2 DEF Fetching, Begin, AddCookies, FetchFails, Answer, memory, history
  <2> QED BY <2>1, <2>2
<1>4. CASE SaveCookies
  BY <1>1, <1>4 DEF SaveCookies, history
<1>5. ASSUME NEW i \in DOMAIN saving, PutEnds(i) PROVE Kept'
  <2>1. disk' = Snapshot(jar, overridden) /\ UNCHANGED <<phase, jar, overridden, opened>>
    BY <1>5 DEF PutEnds, Guarded
  <2>2. \A n \in Names : Snapshot(jar, overridden)[n] # None => jar[n] # None
    BY NoneAssumption DEF Snapshot, Kept
  <2> QED BY <2>1, <2>2 DEF Kept
<1>6. ASSUME NEW i \in DOMAIN saving, PutFails(i) PROVE Kept'
  BY <1>1, <1>6 DEF PutFails
<1>7. ASSUME NEW o \in Overrides, AskOverride(o) PROVE Kept'
  BY <1>1, <1>7 DEF AskOverride
<1>8. ASSUME NEW o \in Overrides, OverrideCookie(o) PROVE Kept'
  <2> DEFINE n == Override[o].name
  <2>1. n \in Names /\ UNCHANGED <<phase, opened, disk, failed>>
    BY <1>8, OverrideAssumption DEF OverrideCookie
  <2>2. jar'[n] # None /\ overridden'[n] = jar[n]
    BY <1>8, Forces, NoneAssumption
  <2>3. \A m \in Names : m # n => jar'[m] = jar[m] /\ overridden'[m] = overridden[m]
    BY <1>8, Forces
  <2>4. \A m \in Names : jar[m] # None => jar'[m] # None
    BY <2>2, <2>3
  <2>5. ASSUME NEW m \in Names, jar[m] # None, Snapshot(jar, overridden)[m] # None
        PROVE  Snapshot(jar', overridden')[m] # None
    BY <2>2, <2>3, <2>5 DEF Snapshot
  <2> QED BY <2>1, <2>2, <2>3, <2>4, <2>5 DEF Kept, Holds
<1>9. CASE UNCHANGED vars
  BY <1>1, <1>9 DEF vars, memory, history
<1> QED BY <1>2, <1>3, <1>4, <1>5, <1>6, <1>7, <1>8, <1>9 DEF Next, Saving, Overriding

(* An override leaves what would be saved, if it is the first of its name. *)
LEMMA ForcedAside ==
    ASSUME TypeOK, Once, NEW o \in Overrides, OverrideCookie(o)
    PROVE  Snapshot(jar', overridden') = Snapshot(jar, overridden)
<1> DEFINE n == Override[o].name
<1>1. queue # <<>> /\ Head(queue).op = "override" /\ Head(queue).of = o
  BY DEF OverrideCookie, Runs
<1>2. 1 \in 1 .. Len(queue) /\ queue[1] = Head(queue)
  BY <1>1 DEF TypeOK
<1>3. overridden[n] = NotOverridden
  BY <1>1, <1>2 DEF Once
<1>4. n \in Names /\ jar[n] # NotOverridden
  <2>1. n \in Names /\ jar[n] \in Stored \cup {None}
    BY OverrideAssumption DEF TypeOK
  <2> QED BY <2>1, NoneAssumption
<1>5. ASSUME NEW m \in Names
      PROVE  (IF overridden'[m] = NotOverridden THEN jar'[m] ELSE overridden'[m])
             = (IF overridden[m] = NotOverridden THEN jar[m] ELSE overridden[m])
  <2>1. CASE m = n
    BY <1>3, <1>4, <2>1, Forces
  <2>2. CASE m # n
    BY <2>2, Forces
  <2> QED BY <2>1, <2>2
<1> QED BY <1>5 DEF Snapshot

(* A save stays in the queue until it is the head.                         *)
LEMMA SaveStays ==
    ASSUME TypeOK, NEW j \in Job,
           \/ queue' = Append(queue, j)
           \/ queue # <<>> /\ Head(queue).op # "save" /\ queue' \in {Tail(queue), Append(Tail(queue), j)},
           \E i \in 1 .. Len(queue) : queue[i].op = "save"
    PROVE  \E i \in 1 .. Len(queue') : queue'[i].op = "save"
<1>1. PICK i \in 1 .. Len(queue) : queue[i].op = "save"
  OBVIOUS
<1>2. queue \in Seq(Job)
  BY DEF TypeOK
<1>3. CASE queue' = Append(queue, j)
  <2>1. i \in 1 .. Len(queue') /\ queue'[i] = queue[i]
    BY <1>2, <1>3
  <2> QED BY <1>1, <2>1
<1>4. CASE queue # <<>> /\ Head(queue).op # "save" /\ queue' \in {Tail(queue), Append(Tail(queue), j)}
  <2>1. i # 1
    <3>1. queue[1] = Head(queue)
      BY <1>2, <1>4
    <3> QED BY <1>1, <1>4, <3>1
  <2>2. i - 1 \in 1 .. Len(Tail(queue)) /\ Tail(queue)[i - 1] = queue[i] /\ Tail(queue) \in Seq(Job)
    BY <1>2, <1>4, <2>1
  <2>3. i - 1 \in 1 .. Len(queue') /\ queue'[i - 1] = queue[i]
    <3>1. CASE queue' = Tail(queue)
      BY <2>2, <3>1
    <3>2. CASE queue' = Append(Tail(queue), j)
      BY <2>2, <3>2
    <3> QED BY <1>4, <3>1, <3>2
  <2> QED BY <1>1, <2>3
<1> QED BY <1>3, <1>4

(* The queue after a store: one job less, and perhaps one save more.       *)
LEMMA StoredQueue ==
    ASSUME TypeOK, NEW r \in Requests, StoreCookies(r)
    PROVE  LET new == Accepted(Url[r], Head(queue).set) IN
           /\ new \in SUBSET SetCookies
           /\ new = {} => queue' = Tail(queue)
           /\ new # {} => queue' = Append(Tail(queue), Save)
<1>1. queue \in Seq(Job) /\ queue # <<>>
  BY DEF TypeOK, StoreCookies, Runs
<1>2. Tail(queue) \in Seq(Job)
  BY <1>1
<1>3. Tail(queue) \o <<>> = Tail(queue)
  BY <1>2, ConcatEmptySeq
<1>4. Tail(queue) \o <<Save>> = Append(Tail(queue), Save)
  BY <1>2, Jobs, AppendIsConcat
<1>5. Accepted(Url[r], Head(queue).set) \in SUBSET SetCookies
  BY HeadIsJob DEF StoreCookies, Accepted
<1> QED BY <1>3, <1>4, <1>5 DEF StoreCookies

LEMMA DueStep == TypeOK /\ Guarded /\ Empty /\ Once /\ Due /\ [Next]_vars => Due'
<1> SUFFICES ASSUME TypeOK, Guarded, Empty, Once, Due, [Next]_vars PROVE Due'
  OBVIOUS
<1> DEFINE Queued == \E i \in 1 .. Len(queue) : queue[i].op = "save"
<1>1. CASE /\ UNCHANGED <<phase, opened, disk, saving, failed>>
           /\ Snapshot(jar', overridden') = Snapshot(jar, overridden)
           /\ Queued => Queued'
  BY <1>1 DEF Due, Holds
<1>2. CASE ~Holds' \/ failed' # {} \/ saving' # <<>> \/ disk' = Snapshot(jar', overridden')
  BY <1>2 DEF Due
<1>3. CASE Worker
  <2>1. CASE Load
    BY <1>2, <2>1, LoadedIsSaved DEF Load
  <2>2. CASE ~Load
    <3>1. CASE LoadFails
      BY <1>2, <3>1 DEF LoadFails
    <3>2. CASE OpenStorage \/ OpenStorageFails \/ Kill \/ Restart
      <4>1. ~Holds'
        BY <3>2 DEF OpenStorage, OpenStorageFails, Kill, Restart, Holds, Empty
      <4> QED BY <1>2, <4>1
    <3> QED BY <1>3, <2>2, <3>1, <3>2 DEF Worker
  <2> QED BY <2>1, <2>2
<1>4. ASSUME NEW r \in Requests, Begin(r) PROVE Due'
  BY <1>1, <1>4, Jobs, SaveStays DEF Begin
<1>5. ASSUME NEW r \in Requests, AddCookies(r) PROVE Due'
  BY <1>1, <1>5, Jobs, SaveStays DEF AddCookies, Runs, history
<1>6. ASSUME NEW r \in Requests, FetchFails(r) PROVE Due'
  BY <1>1, <1>6 DEF FetchFails, memory, history
<1>7. ASSUME NEW r \in Requests, NEW set \in Headers, Answer(r, set) PROVE Due'
  BY <1>1, <1>7, Jobs, SaveStays DEF Answer, Headers, history
<1>8. ASSUME NEW r \in Requests, StoreCookies(r) PROVE Due'
  <2> DEFINE new == Accepted(Url[r], Head(queue).set)
  <2>1. /\ UNCHANGED <<phase, opened, overridden, disk, saving, failed>> /\ jar' = JarWith(new)
        /\ queue # <<>> /\ Head(queue).op = "store"
    BY <1>8 DEF StoreCookies, Runs
  <2>2. CASE new = {}
    <3>1. jar' = jar
      BY <2>1, <2>2 DEF JarWith, TypeOK
    <3>2. Queued => Queued'
      BY <1>8, <2>1, <2>2, StoredQueue, SaveStays, Jobs
    <3> QED BY <1>1, <2>1, <3>1, <3>2
  <2>3. CASE new # {}
    <3>1. Tail(queue) \in Seq(Job) /\ queue' = Append(Tail(queue), Save)
      BY <1>8, <2>1, <2>3, StoredQueue, QueueTail DEF TypeOK
    <3>2. Len(queue') \in 1 .. Len(queue') /\ queue'[Len(queue')] = Save
      BY <3>1
    <3> QED BY <3>2 DEF Due, Save
  <2> QED BY <2>2, <2>3
<1>9. CASE SaveCookies
  <2>1. CASE opened
    <3>1. saving' = Append(saving, Snapshot(jar, overridden)) /\ saving \in Seq(Jar)
      BY <1>9, <2>1 DEF SaveCookies, TypeOK, Jar
    <3>2. saving' # <<>>
      BY <3>1
    <3> QED BY <1>2, <3>2
  <2>2. CASE ~opened
    BY <1>2, <1>9, <2>2 DEF SaveCookies, Holds
  <2> QED BY <2>1, <2>2
<1>10. ASSUME NEW i \in DOMAIN saving, PutEnds(i) \/ PutFails(i) PROVE Due'
  <2>1. CASE PutEnds(i)
    BY <1>2, <1>10, <2>1 DEF PutEnds, Guarded
  <2>2. CASE PutFails(i)
    BY <1>2, <2>2 DEF PutFails
  <2> QED BY <1>10, <2>1, <2>2
<1>11. ASSUME NEW o \in Overrides, AskOverride(o) PROVE Due'
  BY <1>1, <1>11, Jobs, SaveStays DEF AskOverride
<1>12. ASSUME NEW o \in Overrides, OverrideCookie(o) PROVE Due'
  <2>1. Queued => Queued'
    BY <1>12, Jobs, SaveStays DEF OverrideCookie, Runs
  <2> QED BY <1>1, <1>12, <2>1, ForcedAside DEF OverrideCookie
<1>13. CASE UNCHANGED vars
  BY <1>1, <1>13 DEF vars, memory, history
<1> QED
  BY <1>3, <1>4, <1>5, <1>6, <1>7, <1>8, <1>9, <1>10, <1>11, <1>12, <1>13
     DEF Next, Fetching, Saving, Overriding

(* Every step keeps Once: an override is asked for once and runs once.     *)
LEMMA OnceStep ==
    ASSUME OneOverrideEach
    PROVE  TypeOK /\ Once /\ [Next]_vars => Once'
<1> SUFFICES ASSUME TypeOK, Once, [Next]_vars PROVE Once'
  OBVIOUS
<1>t. queue \in Seq(Job) /\ Len(queue) \in Nat
  BY DEF TypeOK
<1>1. CASE UNCHANGED <<queue, asked, overridden>>
  BY <1>1 DEF Once
(* A job that is no override joins.                                        *)
<1>2. ASSUME NEW j \in Job, j.op # "override", queue' = Append(queue, j), UNCHANGED <<asked, overridden>>
      PROVE  Once'
  <2>1. /\ Len(queue') = Len(queue) + 1 /\ queue'[Len(queue) + 1] = j
        /\ \A i \in 1 .. Len(queue) : queue'[i] = queue[i]
    BY <1>2, <1>t
  <2>2. \A i \in 1 .. Len(queue') : queue'[i].op = "override" => i \in 1 .. Len(queue)
    BY <1>2, <1>t, <2>1
  <2> QED BY <1>2, <2>1, <2>2 DEF Once
(* The head leaves, and a save may join.                                   *)
<1>3. ASSUME queue # <<>>, queue' = Tail(queue) \/ queue' = Append(Tail(queue), Save), asked' = asked,
             \A i \in 2 .. Len(queue) : queue[i].op = "override" =>
                 overridden'[Override[queue[i].of].name] = overridden[Override[queue[i].of].name],
             \A o \in Overrides \ asked :
                 overridden'[Override[o].name] = overridden[Override[o].name]
      PROVE  Once'
  <2>1. \A i \in 1 .. Len(queue') : queue'[i].op = "override" =>
            i + 1 \in 2 .. Len(queue) /\ queue'[i] = queue[i + 1]
    <3>1. /\ Tail(queue) \in Seq(Job) /\ Len(Tail(queue)) = Len(queue) - 1
          /\ \A i \in 1 .. Len(queue) - 1 : Tail(queue)[i] = queue[i + 1] /\ i + 1 \in 2 .. Len(queue)
      BY <1>3, <1>t
    <3>2. CASE queue' = Tail(queue)
      BY <3>1, <3>2
    <3>3. CASE queue' = Append(Tail(queue), Save)
      <4>1. /\ Len(queue') = Len(queue) /\ queue'[Len(queue)].op = "save"
            /\ \A i \in 1 .. Len(queue) - 1 : queue'[i] = Tail(queue)[i]
        BY <1>t, <3>1, <3>3, Jobs DEF Save
      <4> QED BY <1>t, <3>1, <4>1
    <3> QED BY <1>3, <3>2, <3>3
  <2>2. ASSUME NEW i \in 1 .. Len(queue'), queue'[i].op = "override"
        PROVE  /\ queue'[i].of \in asked' /\ overridden'[Override[queue'[i].of].name] = NotOverridden
               /\ \A k \in 1 .. Len(queue') :
                     queue'[k].op = "override" /\ queue'[k].of = queue'[i].of => k = i
    <3>1. i + 1 \in 1 .. Len(queue) /\ i + 1 \in 2 .. Len(queue) /\ queue'[i] = queue[i + 1]
      BY <1>t, <2>1, <2>2
    <3>2. /\ queue[i + 1].of \in asked /\ overridden[Override[queue[i + 1].of].name] = NotOverridden
          /\ \A k \in 1 .. Len(queue) :
                queue[k].op = "override" /\ queue[k].of = queue[i + 1].of => k = i + 1
      BY <2>2, <3>1 DEF Once
    <3>3. ASSUME NEW k \in 1 .. Len(queue'), queue'[k].op = "override", queue'[k].of = queue'[i].of
          PROVE  k = i
      <4>1. k + 1 \in 1 .. Len(queue) /\ queue'[k] = queue[k + 1]
        BY <1>t, <2>1, <3>3
      <4>2. k + 1 = i + 1
        BY <3>1, <3>2, <3>3, <4>1
      <4> QED BY <4>2
    <3> QED BY <1>3, <2>2, <3>1, <3>2, <3>3
  <2> QED BY <1>3, <2>2 DEF Once
<1>4. CASE Worker
  <2>1. CASE Kill
    <3>1. queue' = <<>> /\ asked' = {} /\ \A n \in Names : overridden'[n] = NotOverridden
      BY <2>1 DEF Kill
    <3> QED BY <3>1, OverrideAssumption DEF Once
  <2>2. CASE ~Kill
    BY <1>1, <1>4, <2>2 DEF Worker, OpenStorage, OpenStorageFails, Load, LoadFails, Restart, history
  <2> QED BY <2>1, <2>2
<1>5. ASSUME NEW r \in Requests, Begin(r) PROVE Once'
  BY <1>2, <1>5, Jobs DEF Begin, Add
<1>6. ASSUME NEW r \in Requests, AddCookies(r) PROVE Once'
  BY <1>3, <1>6 DEF AddCookies, Runs, history
<1>7. ASSUME NEW r \in Requests, NEW set \in Headers, Answer(r, set) PROVE Once'
  BY <1>2, <1>7, Jobs DEF Answer, Headers, Store, history
<1>8. ASSUME NEW r \in Requests, StoreCookies(r) PROVE Once'
  BY <1>3, <1>8, StoredQueue DEF StoreCookies, Runs
<1>9. CASE SaveCookies
  BY <1>3, <1>9 DEF SaveCookies, Runs, history
<1>10. ASSUME NEW i \in DOMAIN saving, PutEnds(i) \/ PutFails(i) PROVE Once'
  BY <1>1, <1>10 DEF PutEnds, PutFails
<1>11. ASSUME NEW r \in Requests, FetchFails(r) PROVE Once'
  BY <1>1, <1>11 DEF FetchFails, memory, history
<1>12. ASSUME NEW o \in Overrides, AskOverride(o) PROVE Once'
  <2>1. /\ queue' = Append(queue, ApplyOverride(o)) /\ overridden' = overridden
        /\ o \notin asked /\ asked' = asked \cup {o}
    BY <1>12 DEF AskOverride
  <2>2. ApplyOverride(o) \in Job /\ ApplyOverride(o).of = o
    BY Jobs DEF ApplyOverride
  <2>3. /\ Len(queue') = Len(queue) + 1 /\ queue'[Len(queue) + 1] = ApplyOverride(o)
        /\ \A i \in 1 .. Len(queue) : queue'[i] = queue[i]
    BY <1>t, <2>1, <2>2
  <2>4. \A i \in 1 .. Len(queue) : queue[i].op = "override" => queue[i].of # o
    BY <2>1 DEF Once
  <2>5. overridden[Override[o].name] = NotOverridden
    BY <2>1 DEF Once
  <2>6. \A i \in 1 .. Len(queue') : i \in 1 .. Len(queue) \/ i = Len(queue) + 1
    BY <1>t, <2>3
  <2> QED BY <2>1, <2>2, <2>3, <2>4, <2>5, <2>6 DEF Once
<1>13. ASSUME NEW o \in Overrides, OverrideCookie(o) PROVE Once'
  <2>1. /\ queue # <<>> /\ Head(queue).op = "override" /\ Head(queue).of = o
        /\ queue' = Tail(queue) /\ asked' = asked
    BY <1>13 DEF OverrideCookie, Runs
  <2>2. 1 \in 1 .. Len(queue) /\ queue[1] = Head(queue)
    BY <1>t, <2>1
  <2>3. o \in asked
    BY <2>1, <2>2 DEF Once
  <2>4. ASSUME NEW p \in Overrides, p # o
        PROVE  overridden'[Override[p].name] = overridden[Override[p].name]
    BY <1>13, <2>4, Forces, OverrideAssumption DEF OneOverrideEach
  <2>5. ASSUME NEW i \in 2 .. Len(queue), queue[i].op = "override"
        PROVE  queue[i].of # o /\ queue[i].of \in Overrides
    <3>1. i \in 1 .. Len(queue) /\ i # 1
      BY <1>t
    <3> QED BY <2>1, <2>2, <2>5, <3>1 DEF Once, TypeOK
  <2> QED BY <1>3, <2>1, <2>3, <2>4, <2>5
<1>14. CASE UNCHANGED vars
  BY <1>1, <1>14 DEF vars, memory, history
<1> QED
  BY <1>4, <1>5, <1>6, <1>7, <1>8, <1>9, <1>10, <1>11, <1>12, <1>13, <1>14
     DEF Next, Fetching, Saving, Overriding

(* Every step keeps the forced values out.                                 *)
LEMMA UnforcedStep ==
    ASSUME ForcedApart
    PROVE  TypeOK /\ Guarded /\ Empty /\ Once /\ Unforced /\ [Next]_vars => Unforced'
<1> SUFFICES ASSUME TypeOK, Guarded, Empty, Once, Unforced, [Next]_vars PROVE Unforced'
  OBVIOUS
<1>1. CASE disk' \in {disk, Snapshot(jar, overridden)} /\ Snapshot(jar', overridden') \in {disk, Snapshot(jar, overridden)}
  BY <1>1 DEF Unforced, Clean
<1>2. CASE UNCHANGED <<jar, overridden>> /\ disk' \in {disk, Snapshot(jar, overridden)}
  BY <1>1, <1>2
<1>3. CASE Worker
  <2>1. CASE Load
    BY <1>1, <2>1, LoadedIsSaved DEF Load
  <2>2. CASE Kill
    <3>1. disk' \in {disk, Snapshot(jar, overridden)}
      BY <2>2 DEF Kill, Guarded
    <3>2. \A n \in Names : Snapshot(jar', overridden')[n] = None
      BY <2>2 DEF Kill, NoCookies, Snapshot
    <3> QED BY <3>1, <3>2 DEF Unforced, Clean
  <2>3. CASE OpenStorage \/ OpenStorageFails \/ LoadFails \/ Restart
    BY <1>2, <2>3 DEF OpenStorage, OpenStorageFails, LoadFails, Restart, history
  <2> QED BY <1>3, <2>1, <2>2, <2>3 DEF Worker
<1>4. ASSUME NEW r \in Requests, StoreCookies(r) PROVE Unforced'
  <2> DEFINE new == Accepted(Url[r], Head(queue).set)
  <2>1. UNCHANGED <<disk, overridden>> /\ jar' = JarWith(new) /\ new \in SUBSET SetCookies
    BY <1>4, StoredQueue DEF StoreCookies
  <2>2. ASSUME NEW n \in Names, Snapshot(jar', overridden')[n] # None
        PROVE  Snapshot(jar', overridden')[n].value \notin Forced(n)
    <3>1. CASE overridden[n] = NotOverridden /\ \E c \in new : c.name = n
      <4>1. Snapshot(jar', overridden')[n] = JarWith(new)[n]
        BY <2>1, <3>1 DEF Snapshot
      <4>2. \E c \in new : c.name = n /\ JarWith(new)[n].value = c.value
        BY <2>1, <3>1, StoredValue
      <4> QED BY <2>1, <4>1, <4>2 DEF ForcedApart
    <3>2. CASE overridden[n] # NotOverridden \/ ~ \E c \in new : c.name = n
      <4>1. Snapshot(jar', overridden')[n] = Snapshot(jar, overridden)[n]
        BY <2>1, <3>2 DEF Snapshot, JarWith
      <4> QED BY <2>2, <4>1 DEF Unforced, Clean
    <3> QED BY <3>1, <3>2
  <2> QED BY <2>1, <2>2 DEF Unforced, Clean
<1>5. CASE Fetching /\ ~ \E r \in Requests : StoreCookies(r)
  BY <1>2, <1>5 DEF Fetching, Begin, AddCookies, FetchFails, Answer, memory, history
<1>6. CASE SaveCookies
  BY <1>2, <1>6 DEF SaveCookies
<1>7. ASSUME NEW i \in DOMAIN saving, PutEnds(i) \/ PutFails(i) PROVE Unforced'
  BY <1>2, <1>7 DEF PutEnds, PutFails, Guarded
<1>8. ASSUME NEW o \in Overrides, AskOverride(o) PROVE Unforced'
  BY <1>2, <1>8 DEF AskOverride
<1>9. ASSUME NEW o \in Overrides, OverrideCookie(o) PROVE Unforced'
  BY <1>1, <1>9, ForcedAside DEF OverrideCookie
<1>10. CASE UNCHANGED vars
  BY <1>2, <1>10 DEF vars, memory
<1> QED BY <1>3, <1>4, <1>5, <1>6, <1>7, <1>8, <1>9, <1>10 DEF Next, Saving, Overriding

(* All of it holds before anything is saved.                               *)
LEMMA SavedInit == Init => Guarded /\ Empty /\ Kept /\ Due /\ Once /\ Unforced
<1> SUFFICES ASSUME Init PROVE Guarded /\ Empty /\ Kept /\ Due /\ Once /\ Unforced
  OBVIOUS
<1>1. DOMAIN <<>> = {} /\ Len(<<>>) = 0
  OBVIOUS
<1>2. Guarded /\ Empty /\ Due /\ ~Holds
  BY <1>1 DEF Init, Guarded, Empty, Due, Holds
<1>3. Kept
  BY <1>2 DEF Init, Kept
<1>4. Once
  BY <1>1, OverrideAssumption DEF Init, Once
<1>5. Unforced
  BY DEF Init, Unforced, Clean, NoCookies, Snapshot
<1> QED BY <1>2, <1>3, <1>4, <1>5

(* A cookie that was saved stays saved under its name, for any faults of   *)
(* Cache Storage but a match that fails, after which the memory lacks it.  *)
THEOREM CookiesStay == Spec => NothingForgotten
<1> DEFINE Stays == \A n \in Names : disk[n] # None => disk'[n] # None \/ "match" \in failed
<1>1. Guarded /\ Empty /\ Kept /\ [Next]_vars => [Stays]_vars
  <2> SUFFICES ASSUME Guarded, Empty, Kept, Next PROVE Stays
    BY DEF vars
  <2>1. CASE disk' = disk
    BY <2>1
  <2>2. CASE disk' = Snapshot(jar, overridden) /\ saving # <<>>
    BY <2>2 DEF Empty, Kept
  <2>3. CASE Worker
    <3>1. CASE Kill
      <4>1. disk' = disk \/ (disk' = Snapshot(jar, overridden) /\ saving # <<>>)
        BY <3>1 DEF Kill, Guarded
      <4> QED BY <2>1, <2>2, <4>1
    <3> QED BY <2>1, <2>3, <3>1 DEF Worker, OpenStorage, OpenStorageFails, Load, LoadFails, Restart
  <2>4. CASE Fetching
    BY <2>1, <2>4 DEF Fetching, Begin, AddCookies, FetchFails, StoreCookies, Answer
  <2>5. ASSUME NEW i \in DOMAIN saving, PutEnds(i) \/ PutFails(i) PROVE Stays
    <3>1. saving # <<>>
      BY <2>5
    <3> QED BY <2>1, <2>2, <2>5, <3>1 DEF PutEnds, PutFails, Guarded
  <2>6. CASE SaveCookies \/ Overriding
    BY <2>1, <2>6 DEF SaveCookies, Overriding, AskOverride, OverrideCookie
  <2> QED BY <2>3, <2>4, <2>5, <2>6 DEF Next, Saving
<1> QED
  BY <1>1, SavedInit, TypeCorrect, GuardedStep, EmptyStep, KeptStep, PTL DEF Spec, NothingForgotten

(* When nothing is pending all is saved, for any responses, if each cookie *)
(* is overridden once in the life of a worker.                             *)
THEOREM QuietIsSaved ==
    ASSUME OneOverrideEach
    PROVE  Spec => []QuietMeansSaved
<1>1. TypeOK /\ Due => QuietMeansSaved
  <2> SUFFICES ASSUME TypeOK, Due, failed = {}, phase = "ready", opened, saving = <<>>,
                      \A i \in DOMAIN queue : queue[i].op \notin {"store", "save"}
               PROVE  disk = Snapshot(jar, overridden)
    BY DEF QuietMeansSaved
  <2>1. DOMAIN queue = 1 .. Len(queue)
    BY DEF TypeOK
  <2> QED BY <2>1 DEF Due, Holds
<1>2. TypeOK /\ Once /\ [Next]_vars => Once'
  BY OnceStep
<1> QED
  BY <1>1, <1>2, SavedInit, TypeCorrect, GuardedStep, EmptyStep, DueStep, PTL DEF Spec

(* No forced value is ever saved, in whatever order responses, overrides,  *)
(* saves and kills come.                                                   *)
THEOREM ForcedIsNotSaved ==
    ASSUME OneOverrideEach, ForcedApart
    PROVE  Spec => []OverrideIsNotSaved
<1>1. Unforced => OverrideIsNotSaved
  BY DEF Unforced, Clean, OverrideIsNotSaved
<1>2. TypeOK /\ Once /\ [Next]_vars => Once'
  BY OnceStep
<1>3. TypeOK /\ Guarded /\ Empty /\ Once /\ Unforced /\ [Next]_vars => Unforced'
  BY UnforcedStep
<1> QED
  BY <1>1, <1>2, <1>3, SavedInit, TypeCorrect, GuardedStep, EmptyStep, PTL DEF Spec
=============================================================================
