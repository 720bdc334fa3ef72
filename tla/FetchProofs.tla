----------------------------- MODULE FetchProofs -----------------------------
(* Proofs about ProxiedFetch, for any manifests, calls and responses.      *)
EXTENDS ProxiedFetch, EditProofs

-----------------------------------------------------------------------------
(* The edit for a URL.                                                     *)

(* What update_manifest makes of one edit.                                 *)
IsParsed(p, e, m) ==
    /\ p.matches = e.matches /\ p.override_uri = e.override_uri
    /\ p.js = e.js /\ p.css = e.css /\ p.substitute = e.substitute
    /\ p.request = ParsedHeaders(e.request) /\ p.response = ParsedHeaders(e.response)
    /\ \A f \in Flags : p[f] = Or(e[f], Or(m[f], f = "rewrite_location"))

(* The edits that update_manifest leaves: those of manifest.json, with the *)
(* root's settings where they have none, and the wildcard.                 *)
LEMMA ParsedEdits ==
    ASSUME NEW m \in Manifests
    PROVE  /\ DOMAIN m.content_edits = 1 .. Len(m.content_edits) /\ Len(m.content_edits) \in Nat
           /\ DOMAIN Parsed(m).content_edits = 1 .. Len(m.content_edits) + 1
           /\ \A i \in DOMAIN m.content_edits :
                 IsParsed(Parsed(m).content_edits[i], m.content_edits[i], m)
           /\ IsParsed(Parsed(m).content_edits[Len(m.content_edits) + 1], Wildcard, m)
<1> DEFINE s == m.content_edits
           all == Append(s, Wildcard)
           root == [f \in Flags |-> Or(m[f], f = "rewrite_location")]
           parsed(e) == [x \in DOMAIN e |-> CASE x \in Flags -> Or(e[x], root[x])
                                              [] x \in {"request", "response"} -> ParsedHeaders(e[x])
                                              [] OTHER -> e[x]]
<1>1. s \in Seq(Range(s) \cup {Wildcard})
  BY ManifestAssumption
<1>2. /\ DOMAIN s = 1 .. Len(s) /\ Len(s) \in Nat
      /\ DOMAIN all = 1 .. Len(s) + 1
      /\ \A i \in DOMAIN s : all[i] = s[i]
      /\ all[Len(s) + 1] = Wildcard
  BY <1>1
<1>3. ASSUME NEW e, DOMAIN e = DOMAIN Wildcard PROVE IsParsed(parsed(e), e, m)
  <2>1. {"matches", "override_uri", "js", "css", "substitute", "request", "response"} \cup Flags \subseteq DOMAIN e
    BY <1>3 DEF Wildcard, Flags
  <2> HIDE DEF root
  <2>2. \A f \in Flags : root[f] = Or(m[f], f = "rewrite_location")
    BY DEF root
  <2>3. {"matches", "override_uri", "js", "css", "substitute", "request", "response"} \cap Flags = {}
    BY DEF Flags
  <2>4. ASSUME NEW f \in Flags PROVE parsed(e)[f] = Or(e[f], root[f])
    <3>1. f \in DOMAIN e
      BY <2>1
    <3>2. parsed(e)[f] = CASE f \in Flags -> Or(e[f], root[f])
                           [] f \in {"request", "response"} -> ParsedHeaders(e[f])
                           [] OTHER -> e[f]
      BY <3>1
    <3>3. f \notin {"request", "response"}
      BY <2>3
    <3> HIDE DEF parsed
    <3> QED BY <3>2, <3>3
  <2>5. /\ parsed(e).matches = e.matches /\ parsed(e).override_uri = e.override_uri
        /\ parsed(e).js = e.js /\ parsed(e).css = e.css /\ parsed(e).substitute = e.substitute
        /\ parsed(e).request = ParsedHeaders(e.request) /\ parsed(e).response = ParsedHeaders(e.response)
    BY <2>1, <2>3
  <2> HIDE DEF parsed
  <2> QED BY <2>2, <2>4, <2>5 DEF IsParsed
<1>4. Parsed(m).content_edits = [i \in DOMAIN all |-> parsed(all[i])]
  BY DEF Parsed
<1>5. \A i \in DOMAIN s : DOMAIN s[i] = DOMAIN Wildcard
  BY ManifestAssumption DEF Range
<1> HIDE DEF parsed, all
<1>6. \A i \in DOMAIN s : Parsed(m).content_edits[i] = parsed(s[i])
  BY <1>2, <1>4
<1>7. Parsed(m).content_edits[Len(s) + 1] = parsed(Wildcard)
  BY <1>2, <1>4
<1> QED BY <1>2, <1>3, <1>4, <1>5, <1>6, <1>7

(* What cannot be a header is left out, so the renames stay finite.        *)
LEMMA ParsedRenames ==
    ASSUME NEW h, IsFiniteSet(DOMAIN h.rename)
    PROVE  IsFiniteSet(DOMAIN ParsedHeaders(h).rename)
<1>1. DOMAIN ParsedHeaders(h).rename \in SUBSET DOMAIN h.rename
  BY DEF ParsedHeaders, RestrictDomain, Restrict
<1> QED BY <1>1, FS_Subset

(* What an edit puts in a page, and what it looks for, are texts.          *)
HasTexts(e) ==
    /\ e.js \in Seq(Range(e.js)) /\ e.css \in Seq(Range(e.css))
    /\ e.substitute \in Seq(Range(e.substitute))
    /\ \A i \in DOMAIN e.substitute : Substitutable(e.substitute[i])

(* The edit that get_content_edit finds has the settings of manifest.json, *)
(* and leads to a URL that has a scheme.                                   *)
LEMMA EditKeepsSetting ==
    ASSUME config \in Manifests, NEW url, NEW e \in EditFor(Parsed(config), url)
    PROVE  /\ \A flag \in Flags : e[flag] = Setting(url, flag)
           /\ url \in Urls /\ Or(e.override_uri, url) \in Urls
           /\ HasTexts(e)
           /\ IsFiniteSet(DOMAIN e.request.rename) /\ IsFiniteSet(DOMAIN e.response.rename)
<1> DEFINE s == config.content_edits
           p == Parsed(config).content_edits
           mine == {i \in DOMAIN s : url \in s[i].matches}
           fits == {i \in DOMAIN p : url \in p[i].matches}
           default(flag) == Or(config[flag], flag = "rewrite_location")
<1>1. /\ DOMAIN s = 1 .. Len(s) /\ Len(s) \in Nat
      /\ DOMAIN p = 1 .. Len(s) + 1
      /\ \A i \in DOMAIN s : IsParsed(p[i], s[i], config)
      /\ IsParsed(p[Len(s) + 1], Wildcard, config)
  BY ParsedEdits
<1>2. ASSUME NEW i \in DOMAIN s
      PROVE  /\ s[i].matches \subseteq Urls /\ s[i].override_uri \in Urls \cup {None}
             /\ HasTexts(s[i])
             /\ IsFiniteSet(DOMAIN s[i].request.rename) /\ IsFiniteSet(DOMAIN s[i].response.rename)
  <2>1. s[i] \in Range(config.content_edits)
    BY DEF Range
  <2>2. \A side \in {"request", "response"} : IsFiniteSet(DOMAIN s[i][side].rename)
    BY <2>1, ManifestAssumption
  <2>3. s[i].override_uri \in Urls \cup {None}
    BY OverrideAssumption
  <2>4. \A list \in {"js", "css", "substitute"} : s[i][list] \in Seq(Range(s[i][list]))
    BY <2>1, ManifestAssumption
  <2>5. HasTexts(s[i])
    <3>1. \A j \in DOMAIN s[i].substitute : Substitutable(s[i].substitute[j])
      BY SubstitutionAssumption
    <3> QED BY <2>4, <3>1 DEF HasTexts
  <2> QED BY <2>1, <2>2, <2>3, <2>5, ManifestAssumption
<1>3. fits # {} /\ e = p[Min(fits)]
  BY DEF EditFor
<1>4. ASSUME NEW flag
      PROVE  Setting(url, flag) = Or(IF mine = {} THEN None ELSE s[Min(mine)][flag], default(flag))
  BY DEF Setting
<1> HIDE DEF p, s, default
<1>5. fits \subseteq mine \cup {Len(s) + 1} /\ mine \subseteq fits
  BY <1>1 DEF IsParsed
<1>6. /\ Wildcard.matches = Urls /\ Wildcard.override_uri = None /\ Wildcard.substitute = <<>>
      /\ \A flag \in Flags : Wildcard[flag] = None
      /\ Wildcard.js = <<>> /\ Wildcard.css = <<>>
      /\ Wildcard.request.rename = <<>> /\ Wildcard.response.rename = <<>>
  BY DEF Wildcard, Flags, NoHeaderEdits
<1>7. CASE mine = {}
  <2>1. fits = {Len(s) + 1} /\ url \in Urls
    BY <1>1, <1>3, <1>5, <1>6, <1>7 DEF IsParsed
  <2> HIDE DEF fits, mine
  <2>2. Min(fits) = Len(s) + 1
    <3>1. Len(s) + 1 \in fits /\ fits \subseteq Nat /\ \A y \in fits : Len(s) + 1 =< y
      BY <1>1, <2>1
    <3> QED BY <3>1, MinOf
  <2>3. IsParsed(e, Wildcard, config)
    BY <1>1, <1>3, <2>2
  <2>4. Or(e.override_uri, url) = url /\ HasTexts(e)
    <3>1. Or(e.override_uri, url) = url /\ e.js = <<>> /\ e.css = <<>> /\ e.substitute = <<>>
      BY <1>6, <2>3 DEF Or, IsParsed
    <3>2. <<>> \in Seq(Range(<<>>)) /\ DOMAIN <<>> = {}
      OBVIOUS
    <3> QED BY <3>1, <3>2 DEF HasTexts
  <2>5. \A flag \in Flags : e[flag] = Setting(url, flag)
    BY <1>4, <1>6, <1>7, <2>3 DEF IsParsed, default
  <2>6. IsFiniteSet(DOMAIN Wildcard.request.rename) /\ IsFiniteSet(DOMAIN Wildcard.response.rename)
    <3>1. DOMAIN <<>> = {}
      OBVIOUS
    <3> QED BY <1>6, <3>1, FS_EmptySet
  <2>7. IsFiniteSet(DOMAIN e.request.rename) /\ IsFiniteSet(DOMAIN e.response.rename)
    BY <2>3, <2>6, ParsedRenames DEF IsParsed
  <2> QED BY <2>1, <2>4, <2>5, <2>7
<1>8. CASE mine # {}
  <2>1. mine \subseteq Nat
    BY <1>1
  <2>2. PICK i \in mine : \A y \in mine : i =< y
    BY <1>8, <2>1, MinExists
  <2>3. i \in DOMAIN s /\ url \in Urls
    BY <1>2
  <2> HIDE DEF fits, mine
  <2>4. Min(mine) = i
    BY <2>1, <2>2, MinOf
  <2>5. Min(fits) = i
    <3>1. i \in fits /\ fits \subseteq Nat /\ \A y \in fits : i =< y
      <4>1. fits \subseteq Nat /\ i \in fits
        BY <1>1, <1>5, <2>1
      <4>2. \A y \in fits : i =< y
        BY <1>1, <1>5, <2>2, <2>3
      <4> QED BY <4>1, <4>2
    <3> QED BY <3>1, MinOf
  <2>6. IsParsed(e, s[i], config)
    BY <1>1, <1>3, <2>3, <2>5
  <2>7. \A flag \in Flags : e[flag] = Setting(url, flag)
    BY <1>4, <1>8, <2>4, <2>6 DEF IsParsed, default
  <2>8. Or(e.override_uri, url) \in Urls /\ HasTexts(e)
    <3>1. e.js = s[i].js /\ e.css = s[i].css /\ e.substitute = s[i].substitute
      BY <2>6 DEF IsParsed
    <3>2. HasTexts(s[i])
      BY <1>2, <2>3
    <3>3. HasTexts(e)
      BY <3>1, <3>2 DEF HasTexts
    <3> QED BY <1>2, <2>3, <2>6, <3>3 DEF IsParsed, Or
  <2>9. IsFiniteSet(DOMAIN e.request.rename) /\ IsFiniteSet(DOMAIN e.response.rename)
    BY <1>2, <2>3, <2>6, ParsedRenames DEF IsParsed
  <2> QED BY <2>3, <2>7, <2>8, <2>9
<1> QED BY <1>7, <1>8

-----------------------------------------------------------------------------
(* https_only.  Asked fixes what the call was given; a request that was    *)
(* prepared has the URL that the first edit makes of the call's.           *)

Sent ==
    /\ request = [url |-> request.url, headers |-> request.headers]
    /\ \E e \in EditFor(manifest, CallUrl) : request.url = EditUrl(CallUrl, e)
Asked == config \in Manifests /\ manifest \in {Parsed(config), Unloaded}
HInv ==
    /\ Asked
    /\ request # None => Sent
    /\ pc = "adding" => Sent

(* HInv holds at first and after every step, and implies the property.     *)
LEMMA HInvInit == Init => HInv
  BY DEF Init, HInv, Asked

LEMMA HInvNext == HInv /\ [Next]_vars => HInv'
<1> SUFFICES ASSUME HInv, [Next]_vars PROVE HInv'
  OBVIOUS
<1>1. CASE Preparing
  <2>1. PICK readable \in BOOLEAN, order \in RenameOrders("request") : Prepare(readable, order)
    BY <1>1 DEF Preparing
  <2>2. PICK e \in EditFor(manifest, CallUrl) :
           \E headers : request' = [url |-> EditUrl(CallUrl, e), headers |-> headers]
    BY <2>1 DEF Prepare
  <2>3. UNCHANGED asked
    BY <2>1 DEF Prepare
  <2> QED BY <2>2, <2>3 DEF HInv, Asked, Sent, asked, CallUrl
<1>2. CASE Send
  <2>1. /\ Sent /\ UNCHANGED asked /\ pc' = "sent"
        /\ request' = [request EXCEPT !.headers = Insert(@, "cookie", [text |-> "jar"])]
    BY <1>2 DEF Send, HInv
  <2>2. request' = [url |-> request.url, headers |-> request'.headers]
    BY <2>1 DEF Sent
  <2> QED BY <2>1, <2>2 DEF HInv, Asked, Sent, asked, CallUrl
<1>3. CASE UNCHANGED <<asked, request>> /\ (pc' = pc \/ pc' # "adding")
  BY <1>3 DEF HInv, Asked, Sent, asked, CallUrl
<1>4. CASE Uploaded
  BY <1>4, <1>3 DEF Uploaded, UploadChunk, UploadEnd, UploadFails
<1>5. CASE Refuse \/ SendFails \/ Heading
  BY <1>5, <1>3 DEF Refuse, SendFails, Heading, ResponseHead
<1>6. CASE Editing
  BY <1>6, <1>3 DEF Editing, EditResponse, Construct
<1>7. CASE Reading \/ Substitute \/ SkipSubstitution
  BY <1>7, <1>3 DEF Reading, ReadEnd, ReadFails, ReadFrame, Substitute, SkipSubstitution,
                    EditPage, Finish, Construct
<1>8. CASE Pull \/ PageReads \/ Cancel
  BY <1>8, <1>3 DEF Pull, PageReads, Cancel
<1>9. CASE Pulling
  BY <1>9, <1>3 DEF Pulling, PullEnd, PullFails, PullFrame
<1>10. CASE UNCHANGED vars
  BY <1>10, <1>3 DEF vars, asked
<1> QED
  BY <1>1, <1>2, <1>4, <1>5, <1>6, <1>7, <1>8, <1>9, <1>10 DEF Next

LEMMA HInvHttpsOnly == HInv => HttpsOnlyHolds
<1> SUFFICES ASSUME HInv, request # None, Setting(CallUrl, "https_only")
             PROVE  request.url.scheme = "https"
  BY DEF HttpsOnlyHolds
<1>1. PICK e \in EditFor(manifest, CallUrl) : request.url = EditUrl(CallUrl, e)
  BY DEF HInv, Sent
<1>2. manifest = Parsed(config) /\ config \in Manifests
  <2>1. manifest # Unloaded
    BY <1>1 DEF EditFor, Unloaded
  <2> QED BY <2>1 DEF HInv, Asked
<1>3. e.https_only = Setting(CallUrl, "https_only") /\ Or(e.override_uri, CallUrl) \in Urls
  <2>1. "https_only" \in Flags
    BY DEF Flags
  <2> QED BY <1>1, <1>2, <2>1, EditKeepsSetting
<1>4. request.url = [Or(e.override_uri, CallUrl) EXCEPT !.scheme = "https"]
  BY <1>1, <1>3 DEF EditUrl
<1> QED BY <1>3, <1>4, UrlAssumption

(* HttpsOnlyHolds for any manifest, any page and any peer: the setting of  *)
(* the manifest is the one that the edit has, which is the same for the    *)
(* URL that the override names.                                            *)
THEOREM HttpsOnly == Spec => []HttpsOnlyHolds
<1> QED BY HInvInit, HInvNext, HInvHttpsOnly, PTL DEF Spec
-----------------------------------------------------------------------------
(* Bodies.                                                                 *)

(* What moves from one sequence to the next keeps its place.               *)
LEMMA HeadMoves ==
    ASSUME NEW S, NEW s \in Seq(S), NEW t \in Seq(S), t # <<>>
    PROVE  /\ Append(s, Head(t)) \in Seq(S) /\ Tail(t) \in Seq(S)
           /\ Append(s, Head(t)) \o Tail(t) = s \o t
<1>1. Head(t) \in S /\ Tail(t) \in Seq(S) /\ <<Head(t)>> \in Seq(S)
  BY HeadTailProperties
<1>2. t = <<Head(t)>> \o Tail(t)
  OBVIOUS
<1>3. Append(s, Head(t)) = s \o <<Head(t)>>
  BY <1>1, AppendIsConcat
<1>4. (s \o <<Head(t)>>) \o Tail(t) = s \o (<<Head(t)>> \o Tail(t))
  BY <1>1, ConcatAssociative
<1>5. Append(s, Head(t)) \in Seq(S) BY <1>1
<1> QED BY <1>1, <1>2, <1>3, <1>4, <1>5

(* A frame and what is left of a body are the body.                        *)
LEMMA Split ==
    ASSUME NEW S, NEW s \in Seq(S), NEW n \in DOMAIN s
    PROVE  /\ SubSeq(s, 1, n) \in Seq(S) /\ SubSeq(s, n + 1, Len(s)) \in Seq(S)
           /\ SubSeq(s, 1, n) \o SubSeq(s, n + 1, Len(s)) = s
<1>1. n \in 1 .. Len(s) /\ Len(s) \in Nat OBVIOUS
<1>2. SubSeq(s, 1, n) \in Seq(S) /\ SubSeq(s, n + 1, Len(s)) \in Seq(S)
  BY <1>1
<1>3. SubSeq(s, 1, n) \o SubSeq(s, n + 1, Len(s)) = SubSeq(s, 1, Len(s))
  <2>1. 1 \in 1 .. Len(s) + 1 /\ n \in 1 - 1 .. Len(s) /\ Len(s) \in n .. Len(s)
    BY <1>1
  <2> QED BY <2>1, ConcatAdjacentSubSeq, Zenon
<1>4. SubSeq(s, 1, Len(s)) = s BY SubSeqFull
<1> QED BY <1>2, <1>3, <1>4

(* What comes first is a prefix of the whole.                              *)
LEMMA PrefixOfConcat ==
    ASSUME NEW S, NEW s \in Seq(S), NEW t \in Seq(S)
    PROVE  IsPrefix(s, s \o t)
<1>1. SubSeq(s \o t, 1, Len(s)) = s
  BY ConcatProperties
<1>2. SubSeq(s, 1, Len(s)) = s
  BY SubSeqFull
<1> QED BY <1>1, <1>2, ConcatProperties DEF IsPrefix

(* The strengthening.  Uploaded bytes and those to come are the body of the*)
(* request; what the page read, what is queued for it and what it has not  *)
(* pulled yet are the body of the response.                                *)

Chunks == Range(call.chunks) \cup {FlattenSeq(call.chunks)}
BodyBytes == Range(response.body)
Queued == IF stream.chunks = <<>> THEN <<>> ELSE Head(stream.chunks)

UpInv ==
    /\ call \in Calls /\ DOMAIN upload = {"left", "reached", "end"}
    /\ upload.end \in {"open", "end", "error"}
    /\ upload.left \in Seq(Chunks) /\ upload.reached \in Seq(Chunks)
    /\ pc = "called" => upload.left = <<>> /\ upload.reached = <<>>
    /\ pc \in {"called", "adding"} => upload.end = "open" /\ stream.state = "none"
    /\ pc \notin {"called", "rejected"} \/ upload.end = "end" \/ stream.state # "none" =>
          \E readable \in BOOLEAN : upload.reached \o upload.left = RequestBody(readable)
    /\ upload.end = "end" => upload.left = <<>>

Whole == response.tail = "end" /\ unread = <<>>

DownInv ==
    /\ DOMAIN stream = {"state", "chunks", "pull", "pulling"}
    /\ stream.state \in {"none", "readable", "closed", "errored", "cancelled"}
    /\ stream.state # "none" => pc \in {"resolved", "rejected"}
    /\ ~Streaming => stream.chunks = <<>>
    /\ stream.state = "none" => page = <<>> /\ ~stream.pulling
    /\ pc = "storing" => response \in Responses /\ unread = response.body
    /\ pc = "editing" \/ (pc = "resolved" /\ stream.state = "none") => Whole
    /\ Streaming =>
          /\ response \in Responses
          /\ page \in Seq(BodyBytes) /\ unread \in Seq(BodyBytes)
          /\ stream.chunks = <<>> \/ \E c \in Seq(BodyBytes) : stream.chunks = <<c>>
          /\ stream.pulling => stream.chunks = <<>>
          /\ page \o (Queued \o unread) = response.body
    /\ stream.state = "closed" => response.tail = "end" /\ page = response.body
    /\ stream.state \in {"errored", "cancelled"} => IsPrefix(page, response.body)

(* Both hold before the call begins.                                       *)
LEMMA UpInvInit == Init => UpInv
  BY EmptySeq DEF Init, UpInv, Stream

(* And no stream exists then.                                              *)
LEMMA DownInvInit == Init => DownInv
  BY DEF Init, DownInv, Stream, Streaming

(* The body that hyper polls is a sequence of chunks.                      *)
LEMMA RequestBodyType ==
    ASSUME call \in Calls, NEW readable \in BOOLEAN
    PROVE  RequestBody(readable) \in Seq(Chunks)
<1>1. call.chunks \in Seq(Chunks)
  BY BodyAssumption DEF Chunks
<1>2. <<FlattenSeq(call.chunks)>> \in Seq(Chunks) /\ <<>> \in Seq(Chunks)
  BY DEF Chunks
<1>3. RequestBody(readable) \in {call.chunks, <<FlattenSeq(call.chunks)>>, <<>>}
  BY DEF RequestBody
<1> QED BY <1>1, <1>2, <1>3

(* Nothing but hyper's polls takes a chunk of the body, and each in turn.  *)
LEMMA UpInvNext == UpInv /\ DownInv /\ [Next]_vars => UpInv'
<1> SUFFICES ASSUME UpInv, DownInv, [Next]_vars PROVE UpInv'
  OBVIOUS
<1>1. call' = call => (Chunks' = Chunks /\ \A b \in BOOLEAN : RequestBody(b)' = RequestBody(b))
  BY DEF Chunks, RequestBody
<1>2. CASE Preparing
  <2>1. PICK readable \in BOOLEAN, order \in RenameOrders("request") : Prepare(readable, order)
    BY <1>2 DEF Preparing
  <2>2. /\ pc = "called" /\ pc' = "adding" /\ call' = call /\ stream' = stream
        /\ upload' = [upload EXCEPT !.left = RequestBody(readable)]
    BY <2>1 DEF Prepare, asked
  <2>3. RequestBody(readable) \in Seq(Chunks)
    BY RequestBodyType DEF UpInv
  <2>4. upload.reached \o RequestBody(readable) = RequestBody(readable)
    BY <2>2, <2>3, ConcatEmptySeq DEF UpInv
  <2> QED BY <1>1, <2>2, <2>3, <2>4 DEF UpInv
<1>3. CASE UploadChunk
  <2>1. /\ upload.left # <<>> /\ UNCHANGED <<pc, call, stream>>
        /\ pc \notin {"called", "adding", "rejected"} \/ stream.state # "none"
        /\ upload' = [upload EXCEPT !.left = Tail(@), !.reached = Append(@, Head(upload.left))]
        /\ upload.end = "open"
    BY <1>3 DEF UploadChunk, Uploading, asked
  <2>2. /\ Append(upload.reached, Head(upload.left)) \in Seq(Chunks) /\ Tail(upload.left) \in Seq(Chunks)
        /\ Append(upload.reached, Head(upload.left)) \o Tail(upload.left) = upload.reached \o upload.left
    BY <2>1, HeadMoves DEF UpInv
  <2>3. PICK readable \in BOOLEAN : upload.reached \o upload.left = RequestBody(readable)
    BY <2>1 DEF UpInv
  <2>4. upload'.reached \o upload'.left = RequestBody(readable)'
    BY <1>1, <2>1, <2>2, <2>3 DEF UpInv
  <2> QED BY <1>1, <2>1, <2>2, <2>4 DEF UpInv
<1>4. CASE UploadEnd \/ UploadFails
  <2>1. /\ UNCHANGED <<pc, call, stream>>
        /\ pc \notin {"called", "adding", "rejected"} \/ stream.state # "none"
        /\ \/ upload' = [upload EXCEPT !.end = "end"] /\ upload.left = <<>>
           \/ upload' = [upload EXCEPT !.end = "error"]
    BY <1>4 DEF UploadEnd, UploadFails, Uploading, asked
  <2> QED BY <1>1, <2>1 DEF UpInv
<1>5. CASE /\ UNCHANGED <<call, upload>>
           /\ pc' = pc \/ pc' = "rejected" \/ (pc \notin {"called", "rejected"} /\ pc' \notin {"called", "adding"})
           /\ \/ stream'.state = stream.state
              \/ stream.state # "none"
              \/ pc = "storing" /\ pc' \notin {"called", "adding"}
  <2>1. call' \in Calls /\ Chunks' = Chunks /\ upload' = upload
    BY <1>1, <1>5 DEF UpInv
  <2>2. pc = "called" => pc' \in {"called", "rejected"}
    BY <1>5
  <2>3. pc' \in {"called", "adding"} => pc' = pc
    BY <1>5
  <2>4. pc' \notin {"called", "rejected"} \/ upload.end = "end" \/ stream'.state # "none" =>
            \E readable \in BOOLEAN : upload.reached \o upload.left = RequestBody(readable)'
    BY <1>1, <1>5, <2>2 DEF UpInv
  <2>5. pc' \in {"called", "adding"} => stream'.state = "none"
    BY <1>5, <2>3 DEF UpInv
  <2> QED BY <2>1, <2>2, <2>3, <2>4, <2>5 DEF UpInv
<1>6. CASE Refuse \/ SendFails \/ Heading
  <2>1. CASE Refuse \/ SendFails
    <3>1. UNCHANGED <<call, upload, stream>> /\ pc' = "rejected"
      BY <2>1 DEF Refuse, SendFails, asked
    <3> QED BY <1>5, <3>1
  <2>2. CASE Heading
    <3>1. UNCHANGED <<call, upload, stream>> /\ pc = "sent" /\ pc' = "storing"
      BY <2>2 DEF Heading, ResponseHead, asked
    <3> QED BY <1>5, <3>1
  <2> QED BY <1>6, <2>1, <2>2
<1>7. CASE Editing
  <2>1. PICK order \in RenameOrders("response") : EditResponse(order)
    BY <1>7 DEF Editing
  <2>2. UNCHANGED <<call, upload>> /\ pc = "storing" /\ pc' \in {"reading", "rejected", "resolved"}
    BY <2>1 DEF EditResponse, Construct, asked
  <2> QED BY <1>5, <2>2
<1>8. CASE Send
  BY <1>5, <1>8 DEF Send, asked
<1>9. CASE Reading \/ Substitute \/ SkipSubstitution
  BY <1>5, <1>9 DEF Reading, ReadEnd, ReadFails, ReadFrame, Substitute, SkipSubstitution,
                    EditPage, Finish, Construct, asked
<1>10. CASE Pull \/ PageReads \/ Cancel \/ Pulling \/ UNCHANGED vars
  <2>1. UNCHANGED <<call, upload, pc>>
    BY <1>10 DEF Pull, PageReads, Cancel, Pulling, PullEnd, PullFails, PullFrame, asked, vars
  <2>2. stream' = stream \/ Streaming \/ stream.pulling
    BY <1>10 DEF Pull, PageReads, Cancel, Pulling, PullEnd, PullFails, PullFrame, vars
  <2>3. stream'.state = stream.state \/ stream.state # "none"
    BY <2>2 DEF DownInv, Streaming
  <2> QED BY <1>5, <2>1, <2>3
<1> QED BY <1>2, <1>3, <1>4, <1>6, <1>7, <1>8, <1>9, <1>10 DEF Next, Uploaded
(* What is queued for the page is part of a body.                          *)
LEMMA QueuedType == DownInv /\ Streaming => Queued \in Seq(BodyBytes)
<1> SUFFICES ASSUME DownInv, Streaming PROVE Queued \in Seq(BodyBytes)
  OBVIOUS
<1>1. CASE stream.chunks = <<>>
  BY <1>1, EmptySeq DEF Queued
<1>2. ASSUME NEW c \in Seq(BodyBytes), stream.chunks = <<c>> PROVE Queued \in Seq(BodyBytes)
  <2>1. Head(<<c>>) = c /\ <<c>> # <<>>
    OBVIOUS
  <2> QED BY <1>2, <2>1 DEF Queued
<1> QED BY <1>1, <1>2 DEF DownInv

(* A call that edits a page holds no stream, and one that passes a body on *)
(* has one before it is known whether the Response can be constructed.     *)
LEMMA DownInvNext == DownInv /\ [Next]_vars => DownInv'
<1> SUFFICES ASSUME DownInv, [Next]_vars PROVE DownInv'
  OBVIOUS
<1>1. CASE /\ UNCHANGED <<response, unread, stream, page>>
           /\ pc' = pc \/ (pc \notin {"resolved", "rejected"} /\ pc' \notin {"storing", "editing", "resolved"})
  BY <1>1 DEF DownInv, Whole, Streaming, Queued, BodyBytes
<1>2. CASE Refuse \/ Send \/ SendFails \/ Uploaded \/ UNCHANGED vars
  BY <1>1, <1>2 DEF Refuse, Send, SendFails, Uploaded, UploadChunk, UploadEnd, UploadFails, vars
<1>3. CASE Preparing
  <2>1. UNCHANGED <<response, unread, stream, page>> /\ pc = "called" /\ pc' = "adding"
    BY <1>3 DEF Preparing, Prepare
  <2> QED BY <1>1, <2>1
<1>4. CASE Heading
  BY <1>4 DEF Heading, ResponseHead, DownInv, Streaming
<1>5. CASE Editing
  <2>1. PICK order \in RenameOrders("response") : EditResponse(order)
    BY <1>5 DEF Editing
  <2>2. /\ UNCHANGED <<response, unread, page>> /\ pc = "storing"
        /\ \/ pc' = "reading" /\ stream' = stream
           \/ pc' \in {"resolved", "rejected"} /\ stream' = Stream("readable")
    BY <2>1 DEF EditResponse, Construct
  <2>3. CASE stream' = stream /\ pc' = "reading"
    BY <1>1, <2>2, <2>3
  <2>4. CASE stream' = Stream("readable") /\ pc' \in {"resolved", "rejected"}
    <3>1. page = <<>> /\ unread = response.body /\ response \in Responses
      BY <2>2 DEF DownInv
    <3>2. response.body \in Seq(BodyBytes)
      BY <3>1, BodyAssumption DEF BodyBytes
    <3>3. <<>> \o (<<>> \o response.body) = response.body
      BY <3>2, ConcatEmptySeq
    <3> QED BY <2>2, <2>4, <3>1, <3>2, <3>3 DEF DownInv, Stream, Streaming, Queued, BodyBytes
  <2> QED BY <2>2, <2>3, <2>4
<1>6. CASE Reading
  <2>1. CASE ReadFails
    BY <1>1, <2>1 DEF ReadFails
  <2>2. CASE \E n \in Data : ReadFrame(n)
    BY <2>2 DEF ReadFrame, DownInv, Streaming
  <2>3. CASE ReadEnd
    <3>1. /\ UNCHANGED <<response, unread, page>> /\ pc = "reading" /\ Whole
          /\ pc' \in {"editing", "rejected", "resolved"} /\ stream' = stream
      BY <2>3 DEF ReadEnd, Ended, Whole, EditPage, Finish, Construct
    <3> QED BY <3>1 DEF DownInv, Whole, Streaming
  <2> QED BY <1>6, <2>1, <2>2, <2>3 DEF Reading
<1>7. CASE Substitute \/ SkipSubstitution
  <2>1. /\ UNCHANGED <<response, unread, page>> /\ pc = "editing"
        /\ pc' \in {"editing", "rejected", "resolved"} /\ stream' = stream
    BY <1>7 DEF Substitute, SkipSubstitution, EditPage, Finish, Construct
  <2> QED BY <2>1 DEF DownInv, Whole, Streaming
<1>8. CASE Pull
  BY <1>8 DEF Pull, DownInv, Whole, Streaming, Queued, BodyBytes
<1>9. CASE Pulling
  <2>1. CASE PullEnd
    <3>1. /\ UNCHANGED <<response, unread, page, pc>> /\ response.tail = "end" /\ unread = <<>> /\ stream.pulling
          /\ stream' = [stream EXCEPT !.pulling = FALSE, !.state = IF Streaming THEN "closed" ELSE @]
      BY <2>1 DEF PullEnd, Ended
    <3>2. Streaming => page = response.body
      <4>1. Streaming => page \in Seq(BodyBytes) /\ page \o (<<>> \o <<>>) = response.body
        BY <3>1 DEF DownInv, Queued
      <4> QED BY <4>1, ConcatEmptySeq
    <3> QED BY <3>1, <3>2 DEF DownInv, Whole, Streaming
  <2>2. CASE PullFails
    <3>1. /\ UNCHANGED <<response, unread, page, pc>> /\ stream.pulling
          /\ stream' = [stream EXCEPT !.pulling = FALSE, !.state = IF Streaming THEN "errored" ELSE @]
      BY <2>2 DEF PullFails
    <3>2. Streaming => IsPrefix(page, response.body)
      <4>1. Streaming => page \in Seq(BodyBytes) /\ <<>> \o unread \in Seq(BodyBytes)
                         /\ page \o (<<>> \o unread) = response.body
        BY <3>1, ConcatEmptySeq DEF DownInv, Queued
      <4> QED BY <4>1, PrefixOfConcat
    <3> QED BY <3>1, <3>2 DEF DownInv, Whole, Streaming
  <2>3. ASSUME NEW n \in Data, PullFrame(n) PROVE DownInv'
    <3> DEFINE c == SubSeq(unread, 1, n)
               rest == SubSeq(unread, n + 1, Len(unread))
    <3>1. /\ UNCHANGED <<response, page, pc>> /\ stream.pulling /\ unread' = rest
          /\ stream' = [stream EXCEPT !.pulling = FALSE,
                           !.chunks = IF Streaming THEN Append(@, c) ELSE @]
      BY <2>3 DEF PullFrame
    <3>2. CASE Streaming
      <4>1. /\ page \in Seq(BodyBytes) /\ unread \in Seq(BodyBytes) /\ stream.chunks = <<>>
            /\ page \o (<<>> \o unread) = response.body
        BY <3>1, <3>2 DEF DownInv, Queued
      <4>2. c \in Seq(BodyBytes) /\ rest \in Seq(BodyBytes) /\ c \o rest = unread
        BY <4>1, Split DEF Data
      <4>3. Append(<<>>, c) = <<c>> /\ <<c>> # <<>> /\ Head(<<c>>) = c
        BY <4>2
      <4> HIDE DEF c, rest
      <4>4. Streaming' /\ stream'.chunks = <<c>> /\ ~stream'.pulling /\ DOMAIN stream' = DOMAIN stream
        BY <3>1, <3>2, <4>1, <4>3 DEF DownInv, Streaming
      <4>5. Queued' = c /\ BodyBytes' = BodyBytes
        BY <3>1, <4>3, <4>4 DEF Queued, BodyBytes
      <4>6. page \o (c \o rest) = response.body
        BY <4>1, <4>2, ConcatEmptySeq
      <4> QED BY <3>1, <3>2, <4>1, <4>2, <4>4, <4>5, <4>6 DEF DownInv, Streaming
    <3>3. CASE ~Streaming
      BY <3>1, <3>3 DEF DownInv, Streaming
    <3> QED BY <3>2, <3>3
  <2> QED BY <1>9, <2>1, <2>2, <2>3 DEF Pulling
<1>10. CASE PageReads
  <2>1. /\ UNCHANGED <<response, unread, pc>> /\ Streaming /\ stream.chunks # <<>>
        /\ page' = page \o Head(stream.chunks) /\ stream' = [stream EXCEPT !.chunks = Tail(@)]
    BY <1>10 DEF PageReads
  <2>2. PICK c \in Seq(BodyBytes) : stream.chunks = <<c>>
    BY <2>1 DEF DownInv
  <2>3. Head(<<c>>) = c /\ Tail(<<c>>) = <<>>
    OBVIOUS
  <2>4. /\ page \in Seq(BodyBytes) /\ unread \in Seq(BodyBytes) /\ ~stream.pulling
        /\ page \o (c \o unread) = response.body
    BY <2>1, <2>2, <2>3 DEF DownInv, Queued
  <2>5. page \o c \in Seq(BodyBytes) /\ (page \o c) \o (<<>> \o unread) = response.body
    <3>1. page \o c \in Seq(BodyBytes)
      BY <2>4, ConcatProperties
    <3>2. <<>> \o unread = unread
      BY <2>4, ConcatEmptySeq
    <3>3. (page \o c) \o unread = page \o (c \o unread)
      <4>1. page \in Seq(BodyBytes) /\ c \in Seq(BodyBytes) /\ unread \in Seq(BodyBytes)
        BY <2>4
      <4> QED BY <4>1, ConcatAssociative
    <3> QED BY <2>4, <3>1, <3>2, <3>3
  <2>6. page' = page \o c /\ stream'.chunks = <<>> /\ ~stream'.pulling /\ Streaming'
        /\ DOMAIN stream' = DOMAIN stream
    BY <2>1, <2>2, <2>3, <2>4 DEF DownInv, Streaming
  <2>7. Queued' = <<>> /\ BodyBytes' = BodyBytes
    BY <2>1, <2>6 DEF Queued, BodyBytes
  <2> QED BY <2>1, <2>4, <2>5, <2>6, <2>7 DEF DownInv, Streaming
<1>11. CASE Cancel
  <2>1. /\ UNCHANGED <<response, unread, page, pc>> /\ Streaming
        /\ stream' = [stream EXCEPT !.state = "cancelled", !.chunks = <<>>, !.pull = FALSE]
    BY <1>11 DEF Cancel
  <2>2. IsPrefix(page, response.body)
    <3>1. /\ page \in Seq(BodyBytes) /\ Queued \in Seq(BodyBytes) /\ unread \in Seq(BodyBytes)
          /\ page \o (Queued \o unread) = response.body
      BY <2>1, QueuedType DEF DownInv
    <3>2. Queued \o unread \in Seq(BodyBytes)
      BY <3>1, ConcatProperties
    <3> QED BY <3>1, <3>2, PrefixOfConcat
  <2> QED BY <2>1, <2>2 DEF DownInv, Whole, Streaming
<1> QED BY <1>2, <1>3, <1>4, <1>5, <1>6, <1>7, <1>8, <1>9, <1>10, <1>11 DEF Next

(* A closed stream has nothing queued nor unread, so the page has it all.  *)
LEMMA InvEndsAreHonest == UpInv /\ DownInv => EndsAreHonest
<1> SUFFICES ASSUME UpInv, DownInv PROVE EndsAreHonest
  OBVIOUS
<1>1. upload.end = "end" => \E readable \in BOOLEAN : upload.reached = RequestBody(readable)
  <2>1. upload.end = "end" => upload.reached \o <<>> = upload.reached
    BY ConcatEmptySeq DEF UpInv
  <2> QED BY <2>1 DEF UpInv
<1>2. stream.state = "readable" => IsPrefix(page, response.body)
  <2> SUFFICES ASSUME Streaming PROVE IsPrefix(page, response.body)
    BY DEF Streaming
  <2>1. /\ page \in Seq(BodyBytes) /\ Queued \in Seq(BodyBytes) /\ unread \in Seq(BodyBytes)
        /\ page \o (Queued \o unread) = response.body
    BY QueuedType DEF DownInv
  <2>2. Queued \o unread \in Seq(BodyBytes)
    BY <2>1, ConcatProperties
  <2> QED BY <2>1, <2>2, PrefixOfConcat
<1> QED BY <1>1, <1>2 DEF DownInv, Whole, EndsAreHonest

(* EndsAreHonest for any bodies and frames: whatever the order in which the*)
(* peer sends, the page pulls and reads, and either of them gives up.      *)
THEOREM BodiesEndHonestly == Spec => []EndsAreHonest
<1> QED BY UpInvInit, UpInvNext, DownInvInit, DownInvNext, InvEndsAreHonest, PTL DEF Spec

-----------------------------------------------------------------------------
(* Headers and redirects.  EditedHeaders are those that apply_on_response  *)
(* may leave, for any order of its renames; Shown is what the script       *)
(* redirect makes of them.                                                 *)
Orders(e) == SetToSeqs(DOMAIN e.rename)
EditedHeaders ==
    {EditHeaders(RewriteLocation(response.headers, edit, manifest.domains), edit.response, order) :
        order \in Orders(edit.response)}
Shown(h) == IF ByScript(h) THEN Scripted(h) ELSE h

(* The strengthening: how far the call is says what it has, and the        *)
(* headers of a request or response are those that its one edit makes.     *)
PcInv ==
    /\ pc \in {"called", "adding", "sent", "storing", "reading", "editing", "resolved", "rejected"}
    /\ pc = "called" => edit = None /\ request = None
    /\ pc \in {"called", "adding", "sent"} => response = None
    /\ pc \in {"called", "adding", "sent", "storing"} => result = None
    /\ pc \in {"storing", "reading", "editing", "resolved"} => response \in Responses
    /\ response \in Responses \cup {None} /\ cut \in BOOLEAN
    /\ pc \notin {"called", "rejected"} => request.url \in Urls /\ edit \in EditFor(manifest, request.url)

SubInv ==
    /\ pc \notin {"called", "rejected"} =>
          Len(edit.substitute) \in Nat /\ sub \in 0 .. Len(edit.substitute)
    /\ pc \in {"called", "adding", "sent", "storing", "reading"} => sub = 0
    /\ pc = "editing" => sub # Len(edit.substitute)

AskedHeaders ==
    pc = "adding" => \E e \in EditFor(manifest, CallUrl) : \E order \in Orders(e.request) :
        request.headers = Insert(EditHeaders(CallHeaders, e.request, order), "host", [text |-> CallUrl.host])

AnsweredHeaders ==
    /\ pc \in {"reading", "editing"} \/ (result # None /\ pc # "resolved") =>
          result.headers \in EditedHeaders /\ \E url \in Urls : edit \in EditFor(manifest, url)
    /\ pc = "resolved" => /\ \E h \in EditedHeaders : result.headers = Shown(h)
                          /\ result.status \in Constructible

EditInv == Asked /\ PcInv /\ SubInv /\ AskedHeaders /\ AnsweredHeaders

(* The edit that applies is one of those that update_manifest made.        *)
LEMMA EditsAreParsed ==
    ASSUME Asked, NEW url, NEW e \in EditFor(manifest, url)
    PROVE  /\ manifest = Parsed(config) /\ config \in Manifests
           /\ e \in EditFor(Parsed(config), url)
           /\ url \in Urls /\ Or(e.override_uri, url) \in Urls
           /\ HasTexts(e) /\ Len(e.substitute) \in Nat
           /\ IsFiniteSet(DOMAIN e.request.rename) /\ IsFiniteSet(DOMAIN e.response.rename)
<1>1. manifest = Parsed(config) /\ config \in Manifests
  <2>1. manifest # Unloaded
    BY DEF EditFor, Unloaded
  <2> QED BY <2>1 DEF Asked
<1>2. e \in EditFor(Parsed(config), url)
  BY <1>1
<1>3. /\ url \in Urls /\ Or(e.override_uri, url) \in Urls
      /\ HasTexts(e)
      /\ IsFiniteSet(DOMAIN e.request.rename) /\ IsFiniteSet(DOMAIN e.response.rename)
  BY <1>1, <1>2, EditKeepsSetting
<1>4. Len(e.substitute) \in Nat
  BY <1>3 DEF HasTexts
<1> QED BY <1>1, <1>2, <1>3, <1>4

(* It holds before the call begins.                                        *)
LEMMA EditInvInit == Init => EditInv
  BY DEF Init, EditInv, Asked, PcInv, SubInv, AskedHeaders, AnsweredHeaders

(* What stays with the arguments and the edit.                             *)
LEMMA Unchanged ==
    ASSUME UNCHANGED <<asked, edit, response>>
    PROVE  /\ CallUrl' = CallUrl /\ CallHeaders' = CallHeaders
           /\ EditedHeaders' = EditedHeaders /\ \A h : Shown(h)' = Shown(h)
           /\ UNCHANGED <<config, manifest, call, edit, response>>
  BY DEF asked, CallUrl, CallHeaders, EditedHeaders, Shown, ByScript, Scripted

(* The edits of a page go on, or end in a Response or in an error.         *)
LEMMA EditPageKeeps ==
    ASSUME EditInv, NEW t, NEW i, EditPage(t, i), pc \in {"reading", "editing"},
           i \in 0 .. Len(edit.substitute),
           UNCHANGED <<asked, edit, request, response, cut>>
    PROVE  EditInv'
<1>1. /\ CallUrl' = CallUrl /\ CallHeaders' = CallHeaders
      /\ EditedHeaders' = EditedHeaders /\ \A h : Shown(h)' = Shown(h)
      /\ UNCHANGED <<config, manifest, call, edit, response, request, cut>>
  BY Unchanged
<1>2. /\ result.headers \in EditedHeaders /\ \E url \in Urls : edit \in EditFor(manifest, url)
      /\ response \in Responses /\ Len(edit.substitute) \in Nat
      /\ request.url \in Urls /\ edit \in EditFor(manifest, request.url)
  BY DEF EditInv, AnsweredHeaders, PcInv, SubInv
<1>3. CASE i # Len(edit.substitute)
  <2>1. pc' = "editing" /\ result' = result /\ sub' = i
    BY <1>3 DEF EditPage
  <2> QED BY <1>1, <1>2, <1>3, <2>1 DEF EditInv, Asked, PcInv, SubInv, AskedHeaders, AnsweredHeaders
<1>4. CASE i = Len(edit.substitute)
  <2>1. Finish(t) /\ sub' = i
    BY <1>4 DEF EditPage
  <2>2. \/ pc' = "rejected" /\ result' = result
        \/ /\ pc' = "resolved" /\ result'.headers = Shown(result.headers)
           /\ result'.status \in Constructible
    <3>1. CASE ByScript(result.headers)
      BY <2>1, <3>1 DEF Finish, Construct, Shown, Constructible, NullBody
    <3>2. CASE ~ByScript(result.headers)
      BY <2>1, <3>2 DEF Finish, Construct, Shown
    <3> QED BY <3>1, <3>2
  <2>3. CASE pc' = "rejected" /\ result' = result
    BY <1>1, <1>2, <2>3 DEF EditInv, Asked, PcInv, SubInv, AskedHeaders, AnsweredHeaders
  <2>4. CASE /\ pc' = "resolved" /\ result'.headers = Shown(result.headers)
             /\ result'.status \in Constructible
    <3>1. AnsweredHeaders'
      BY <1>1, <1>2, <2>4 DEF AnsweredHeaders
    <3>2. PcInv'
      BY <1>1, <1>2, <2>4 DEF EditInv, PcInv
    <3>3. SubInv'
      BY <1>1, <1>2, <1>4, <2>1, <2>4 DEF SubInv
    <3> QED BY <1>1, <2>4, <3>1, <3>2, <3>3 DEF EditInv, Asked, AskedHeaders
  <2> QED BY <2>2, <2>3, <2>4
<1> QED BY <1>3, <1>4

(* And after every step.                                                   *)
LEMMA EditInvNext == EditInv /\ [Next]_vars => EditInv'
<1> SUFFICES ASSUME EditInv, [Next]_vars PROVE EditInv'
  OBVIOUS
<1>1. CASE UNCHANGED <<asked, pc, edit, request, response, sub, result>> /\ cut' \in BOOLEAN
  <2>1. /\ CallUrl' = CallUrl /\ CallHeaders' = CallHeaders
        /\ EditedHeaders' = EditedHeaders /\ \A h : Shown(h)' = Shown(h)
        /\ UNCHANGED <<config, manifest, call, edit, response>>
    BY <1>1, Unchanged
  <2> QED BY <1>1, <2>1 DEF EditInv, Asked, PcInv, SubInv, AskedHeaders, AnsweredHeaders
<1>2. CASE UNCHANGED <<asked, edit, request, response, result, cut>> /\ pc' = "rejected" /\ pc # "resolved"
  <2>1. /\ CallUrl' = CallUrl /\ CallHeaders' = CallHeaders
        /\ EditedHeaders' = EditedHeaders
        /\ UNCHANGED <<config, manifest, call, edit, response>>
    BY <1>2, Unchanged
  <2> QED BY <1>2, <2>1 DEF EditInv, Asked, PcInv, SubInv, AskedHeaders, AnsweredHeaders
<1>3. CASE Preparing
  <2>1. PICK readable \in BOOLEAN, order \in RenameOrders("request") : Prepare(readable, order)
    BY <1>3 DEF Preparing
  <2>2. PICK e \in EditFor(manifest, CallUrl) :
           /\ order \in SetToSeqs(DOMAIN e.request.rename)
           /\ \E second \in EditFor(manifest, EditUrl(CallUrl, e)) : edit' = second
           /\ request' = [url |-> EditUrl(CallUrl, e),
                          headers |-> Insert(EditHeaders(CallHeaders, e.request, order),
                                             "host", [text |-> CallUrl.host])]
    BY <2>1 DEF Prepare
  <2>3. /\ UNCHANGED <<config, manifest, call, response, result, sub, cut>> /\ pc = "called" /\ pc' = "adding"
    BY <2>1 DEF Prepare, asked
  <2>4. CallUrl' = CallUrl /\ CallHeaders' = CallHeaders
    BY <2>3 DEF CallUrl, CallHeaders
  <2>5. EditUrl(CallUrl, e) \in Urls
    <3>1. Or(e.override_uri, CallUrl) \in Urls
      BY EditsAreParsed DEF EditInv
    <3> QED BY <3>1, UrlAssumption DEF EditUrl
  <2>6. edit' \in EditFor(manifest', request'.url) /\ request'.url \in Urls
    BY <2>2, <2>3, <2>5
  <2>7. Len(edit'.substitute) \in Nat
    <3>1. edit' \in EditFor(manifest, request'.url)
      BY <2>3, <2>6
    <3> QED BY <3>1, EditsAreParsed DEF EditInv
  <2>8. AskedHeaders'
    BY <2>2, <2>3, <2>4 DEF AskedHeaders, Orders
  <2>9. PcInv'
    BY <2>3, <2>6 DEF EditInv, PcInv
  <2>10. SubInv'
    BY <2>3, <2>7 DEF EditInv, SubInv
  <2>11. AnsweredHeaders'
    BY <2>3 DEF EditInv, PcInv, AnsweredHeaders
  <2> QED BY <2>3, <2>8, <2>9, <2>10, <2>11 DEF EditInv, Asked
<1>4. CASE Send
  <2>1. /\ UNCHANGED <<asked, edit, response, result, sub, cut>> /\ pc = "adding" /\ pc' = "sent"
        /\ request' = [request EXCEPT !.headers = Insert(@, "cookie", [text |-> "jar"])]
    BY <1>4 DEF Send
  <2>2. UNCHANGED <<config, manifest, call, edit, response>>
    BY <2>1, Unchanged
  <2>3. request'.url = request.url
    BY <2>1
  <2>4. result' = None
    BY <2>1 DEF EditInv, PcInv
  <2> QED BY <2>1, <2>2, <2>3, <2>4 DEF EditInv, Asked, PcInv, SubInv, AskedHeaders, AnsweredHeaders
<1>5. CASE Heading
  <2>1. PICK r \in Responses : ResponseHead(r)
    BY <1>5 DEF Heading
  <2>2. /\ UNCHANGED <<config, manifest, call, edit, request, result, sub, cut>>
        /\ pc = "sent" /\ pc' = "storing" /\ response' = r
    BY <2>1 DEF ResponseHead, asked
  <2>3. result' = None
    BY <2>2 DEF EditInv, PcInv
  <2> QED BY <2>2, <2>3 DEF EditInv, Asked, PcInv, SubInv, AskedHeaders, AnsweredHeaders
<1>6. CASE Editing
  <2>1. PICK order \in RenameOrders("response") : EditResponse(order)
    BY <1>6 DEF Editing
  <2> DEFINE h == EditHeaders(RewriteLocation(response.headers, edit, manifest.domains), edit.response, order)
  <2>2. /\ UNCHANGED <<asked, edit, request, response, sub, cut>> /\ pc = "storing"
        /\ order \in SetToSeqs(DOMAIN edit.response.rename)
    BY <2>1 DEF EditResponse
  <2>3. h \in EditedHeaders
    BY <2>2 DEF EditedHeaders, Orders
  <2>4. \/ pc' = "rejected" /\ result' = result
        \/ pc' = "reading" /\ result'.headers = h
        \/ pc' = "resolved" /\ result'.headers = h /\ result'.status \in Constructible /\ Shown(h) = h
    <3>1. CASE NeedsBody(edit)
      BY <2>1, <3>1 DEF EditResponse
    <3>2. CASE ~NeedsBody(edit)
      <4>1. Construct(response.status, h, <<>>)
        BY <2>1, <3>2 DEF EditResponse
      <4>2. Shown(h) = h
        BY <3>2 DEF NeedsBody, Shown, ByScript
      <4> HIDE DEF h
      <4> QED BY <4>1, <4>2 DEF Construct
    <3> QED BY <3>1, <3>2
  <2> HIDE DEF h
  <2>5. /\ CallUrl' = CallUrl /\ CallHeaders' = CallHeaders
        /\ EditedHeaders' = EditedHeaders /\ \A g : Shown(g)' = Shown(g)
        /\ UNCHANGED <<config, manifest, call, edit, response>>
    BY <2>2, Unchanged
  <2>6. CASE pc' = "rejected" /\ result' = result
    BY <1>2, <2>2, <2>6
  <2>7. CASE pc' = "reading" /\ result'.headers = h
    <3>1. AnsweredHeaders'
      BY <2>2, <2>3, <2>5, <2>7 DEF AnsweredHeaders, EditInv, PcInv
    <3> QED BY <2>2, <2>5, <2>7, <3>1 DEF EditInv, Asked, PcInv, SubInv, AskedHeaders
  <2>8. CASE pc' = "resolved" /\ result'.headers = h /\ result'.status \in Constructible /\ Shown(h) = h
    <3>1. AnsweredHeaders'
      <4>1. PICK c \in EditedHeaders : c = h
        BY <2>3
      <4>2. c \in EditedHeaders' /\ result'.headers = c /\ Shown(c)' = c
        BY <2>5, <2>8, <4>1
      <4> QED BY <2>8, <4>2 DEF AnsweredHeaders
    <3> QED BY <2>2, <2>5, <2>8, <3>1 DEF EditInv, Asked, PcInv, SubInv, AskedHeaders
  <2> QED BY <2>4, <2>6, <2>7, <2>8
<1>7. CASE ReadEnd
  <2>1. /\ EditPage(Insertions(text, edit), 0) /\ pc = "reading"
        /\ UNCHANGED <<asked, edit, request, response, cut>>
    BY <1>7 DEF ReadEnd
  <2>2. 0 \in 0 .. Len(edit.substitute)
    BY <2>1 DEF EditInv, SubInv
  <2> QED BY <2>1, <2>2, EditPageKeeps
<1>8. CASE Substitute \/ SkipSubstitution
  <2>1. PICK t : EditPage(t, sub + 1)
    BY <1>8 DEF Substitute, SkipSubstitution
  <2>2. pc = "editing" /\ UNCHANGED <<asked, edit, request, response, cut>>
    BY <1>8 DEF Substitute, SkipSubstitution
  <2>3. sub + 1 \in 0 .. Len(edit.substitute)
    BY <2>2 DEF EditInv, SubInv
  <2> QED BY <2>1, <2>2, <2>3, EditPageKeeps
<1>9. CASE Uploaded
  BY <1>1, <1>9 DEF Uploaded, UploadChunk, UploadEnd, UploadFails, EditInv, PcInv
<1>10. CASE (\E n \in Data : ReadFrame(n)) \/ Pull \/ Pulling \/ PageReads \/ Cancel \/ UNCHANGED vars
  BY <1>1, <1>10 DEF ReadFrame, Pull, Pulling, PullEnd, PullFails, PullFrame, PageReads, Cancel,
                     vars, asked, EditInv, PcInv
<1>11. CASE Refuse \/ SendFails \/ ReadFails
  BY <1>2, <1>11 DEF Refuse, SendFails, ReadFails
<1> QED
  BY <1>3, <1>4, <1>5, <1>6, <1>7, <1>8, <1>9, <1>10, <1>11 DEF Next, Reading

(* TypeOK, with what the two readers keep of their streams.                *)
LEMMA InvTypeOK == UpInv /\ DownInv /\ EditInv => TypeOK
<1> SUFFICES ASSUME UpInv, DownInv, EditInv PROVE TypeOK
  OBVIOUS
<1>1. Len(stream.chunks) <= (IF Streaming THEN 1 ELSE 0)
  <2>1. CASE stream.chunks = <<>>
    BY <2>1
  <2>2. ASSUME NEW c \in Seq(BodyBytes), stream.chunks = <<c>>, Streaming PROVE Len(stream.chunks) <= 1
    BY <2>2
  <2> QED BY <2>1, <2>2 DEF DownInv
<1>2. upload.end \in {"open", "end", "error"}
  BY DEF UpInv
<1>3. /\ stream.state \in {"none", "readable", "closed", "errored", "cancelled"}
      /\ stream.state # "none" => pc \in {"resolved", "rejected"}
  BY DEF DownInv
<1>4. pc = "resolved" => result.status \in Constructible
  BY DEF EditInv, AnsweredHeaders
<1> QED BY <1>1, <1>2, <1>3, <1>4 DEF EditInv, PcInv, SubInv, TypeOK

(* TypeOK for any manifest, call, and response: among other things, a      *)
(* chunk is queued only in a stream that is still readable, and one at a   *)
(* time, and each Response has a status that can have a body.              *)
THEOREM FetchTypeCorrect == Spec => []TypeOK
<1> QED BY UpInvInit, UpInvNext, DownInvInit, DownInvNext, EditInvInit, EditInvNext, InvTypeOK, PTL DEF Spec

(* What EditInv says of the headers, with RenamesAtOnce.                   *)
LEMMA InvRenamesAgree == EditInv => RenamesAgree
<1> SUFFICES ASSUME EditInv PROVE RenamesAgree
  OBVIOUS
<1>1. ASSUME pc = "adding", NEW e \in EditFor(manifest, CallUrl), Independent(e.request)
      PROVE  Without(request.headers, {"host"}) = Without(AllAtOnce(CallHeaders, e.request), {"host"})
  <2>1. PICK first \in EditFor(manifest, CallUrl) : \E order \in SetToSeqs(DOMAIN first.request.rename) :
           request.headers = Insert(EditHeaders(CallHeaders, first.request, order), "host", [text |-> CallUrl.host])
    BY <1>1 DEF EditInv, AskedHeaders, Orders
  <2>2. first = e
    BY DEF EditFor
  <2> PICK order \in SetToSeqs(DOMAIN e.request.rename) :
         request.headers = Insert(EditHeaders(CallHeaders, e.request, order), "host", [text |-> CallUrl.host])
    BY <2>1, <2>2
  <2>3. IsFiniteSet(DOMAIN e.request.rename)
    BY EditsAreParsed DEF EditInv
  <2>4. EditHeaders(CallHeaders, e.request, order) = AllAtOnce(CallHeaders, e.request)
    BY <1>1, <2>3, RenamesAtOnce
  <2> DEFINE g == AllAtOnce(CallHeaders, e.request)
  <2>5. request.headers = Insert(g, "host", [text |-> CallUrl.host])
    BY <2>4
  <2> HIDE DEF g
  <2>6. Without(request.headers, {"host"}) = Without(g, {"host"})
    BY <2>5 DEF Without, Insert, Restrict
  <2> QED BY <2>6 DEF g
<1> DEFINE r == RewriteLocation(response.headers, edit, manifest.domains)
           all == AllAtOnce(r, edit.response)
<1>2. ASSUME result # None, Independent(edit.response)
      PROVE  result.headers = IF pc = "resolved" /\ ByScript(all) THEN Scripted(all) ELSE all
  <2>1. /\ \E url \in Urls : edit \in EditFor(manifest, url)
        /\ pc # "resolved" => result.headers \in EditedHeaders
        /\ pc = "resolved" => \E h \in EditedHeaders : result.headers = Shown(h)
    BY <1>2 DEF EditInv, PcInv, AnsweredHeaders
  <2>2. IsFiniteSet(DOMAIN edit.response.rename)
    BY <2>1, EditsAreParsed DEF EditInv
  <2>3. ASSUME NEW h \in EditedHeaders PROVE h = all
    <3>1. PICK order \in SetToSeqs(DOMAIN edit.response.rename) : h = EditHeaders(r, edit.response, order)
      BY <2>3 DEF EditedHeaders, Orders
    <3> QED BY <1>2, <2>2, <3>1, RenamesAtOnce
  <2> HIDE DEF all
  <2>4. CASE pc = "resolved"
    <3>1. result.headers = Shown(all)
      BY <2>1, <2>3, <2>4
    <3> QED BY <2>4, <3>1 DEF Shown
  <2>5. CASE pc # "resolved"
    BY <2>1, <2>3, <2>5
  <2> QED BY <2>4, <2>5
<1> QED BY <1>1, <1>2 DEF RenamesAgree

(* RenamesAgree for any number of renames that share no header, and any    *)
(* order in which the HashMap gives them, up to the Response of the page.  *)
THEOREM RenamesAlwaysAgree == Spec => []RenamesAgree
<1> QED BY EditInvInit, EditInvNext, InvRenamesAgree, PTL DEF Spec

(* The location that a response leads to: the edits leave what             *)
(* RewriteLocation wrote, and that is the proxy's own origin.              *)
LEMMA InvRedirectsStayInside == EditInv => RedirectsStayInside
<1> SUFFICES ASSUME EditInv, pc = "resolved", Setting(request.url, "rewrite_location"),
                    "location" \notin Touched(edit.response), "location" \in DOMAIN response.headers
             PROVE  /\ ~Proxied(Head(Leads))
                    /\ Proxied(Head(response.headers["location"])) => \A i \in DOMAIN Leads : ~Proxied(Leads[i])
  BY DEF RedirectsStayInside
<1> DEFINE h == response.headers
           r == RewriteLocation(h, edit, manifest.domains)
<1>1. edit \in EditFor(manifest, request.url) /\ response \in Responses
  BY DEF EditInv, PcInv
<1>2. /\ manifest = Parsed(config) /\ config \in Manifests
      /\ edit \in EditFor(Parsed(config), request.url)
      /\ IsFiniteSet(DOMAIN edit.response.rename)
  BY <1>1, EditsAreParsed DEF EditInv
<1>3. edit.rewrite_location /\ manifest.domains = config.domains
  <2>1. "rewrite_location" \in Flags
    BY DEF Flags
  <2>2. edit["rewrite_location"] = Setting(request.url, "rewrite_location")
    BY <1>2, <2>1, EditKeepsSetting
  <2>3. manifest.domains = config.domains
    BY <1>2 DEF Parsed
  <2> QED BY <2>2, <2>3
<1>4. PICK order \in SetToSeqs(DOMAIN edit.response.rename) :
         result.headers = Shown(EditHeaders(r, edit.response, order))
  BY DEF EditInv, AnsweredHeaders, EditedHeaders, Orders
<1>5. ~Proxied(SelfOrigin)
  BY <1>2, OriginAssumption DEF Proxied
<1>6. /\ "location" \in DOMAIN r
      /\ Proxied(Head(h["location"])) => r["location"] = <<SelfOrigin>>
      /\ ~Proxied(Head(h["location"])) => r["location"] = h["location"]
  BY <1>3 DEF RewriteLocation, Insert, Proxied
<1>7. r["location"] \o <<>> = r["location"]
  <2>1. h["location"] \in Seq(Range(h["location"]))
    BY <1>1, BodyAssumption
  <2>2. h["location"] \o <<>> = h["location"]
    BY <2>1, ConcatEmptySeq
  <2>3. <<SelfOrigin>> \o <<>> = <<SelfOrigin>>
    OBVIOUS
  <2> QED BY <1>6, <2>2, <2>3
<1> DEFINE g == EditHeaders(r, edit.response, order)
<1> HIDE DEF r
<1>8. "location" \in DOMAIN g /\ g["location"] = r["location"]
  <2> DEFINE e == edit.response
  <2>1. /\ "location" \notin e.remove /\ "location" \notin DOMAIN e.insert
        /\ "location" \notin DOMAIN e.append /\ "location" \notin DOMAIN e.rename
        /\ \A m \in DOMAIN e.rename : e.rename[m] # "location"
    BY DEF Touched, Range
  <2>2. IsFiniteSet(DOMAIN e.rename) /\ order \in SetToSeqs(DOMAIN e.rename)
    BY <1>2
  <2> HIDE DEF e
  <2>3. "location" \in DOMAIN EditHeaders(r, e, order) /\ EditHeaders(r, e, order)["location"] = r["location"]
    BY <1>6, <1>7, <2>1, <2>2, HeaderStays
  <2> QED BY <2>3 DEF e
<1> DEFINE values == r["location"]
<1>9. /\ ~Proxied(Head(values))
      /\ Proxied(Head(h["location"])) => values = <<SelfOrigin>>
  BY <1>5, <1>6
<1> HIDE DEF g
<1>10. CASE edit.js_redirect
  <2>1. Leads = <<Joined(values)>>
    BY <1>4, <1>8, <1>10 DEF Leads, Shown, ByScript, Scripted, Insert, g
  <2>2. ~Proxied(Joined(values))
    <3>1. ASSUME NEW v PROVE [text |-> v] \notin Urls
      <4>1. "scheme" \notin DOMAIN [text |-> v]
        OBVIOUS
      <4> QED BY <4>1, UrlAssumption
    <3> HIDE DEF values
    <3> QED BY <1>9, <3>1 DEF Joined, Proxied
  <2> HIDE DEF values
  <2>3. Head(<<Joined(values)>>) = Joined(values) /\ DOMAIN <<Joined(values)>> = {1}
        /\ <<Joined(values)>>[1] = Joined(values)
    OBVIOUS
  <2> QED BY <2>1, <2>2, <2>3
<1>11. CASE ~edit.js_redirect
  <2>1. Leads = values
    BY <1>4, <1>8, <1>11 DEF Leads, Shown, ByScript, g
  <2> HIDE DEF values
  <2>2. Proxied(Head(h["location"])) => DOMAIN values = {1} /\ values[1] = SelfOrigin
    BY <1>9
  <2> QED BY <1>5, <1>9, <2>1, <2>2
<1> QED BY <1>10, <1>11

(* RedirectsStayInside for any manifest whose domains do not include the   *)
(* proxy's own host, any peer, and any edits of the other headers.         *)
THEOREM RedirectsAlwaysStayInside == Spec => []RedirectsStayInside
<1> QED BY EditInvInit, EditInvNext, InvRedirectsStayInside, PTL DEF Spec

-----------------------------------------------------------------------------
(* Substitutions.  The page is a text, whatever was read and edited.       *)
IsText(x) == x \in Seq(Range(x))
TextInv == sub \in Nat /\ IsText(text) /\ IsText(unread)

LEMMA SeqIsText == ASSUME NEW S, NEW x \in Seq(S) PROVE IsText(x)
<1>1. DOMAIN x = 1 .. Len(x) /\ x = [i \in 1 .. Len(x) |-> x[i]] /\ Len(x) \in Nat
  OBVIOUS
<1>2. \A i \in 1 .. Len(x) : x[i] \in Range(x)
  BY <1>1 DEF Range
<1> QED BY <1>1, <1>2 DEF IsText

LEMMA TextInvInit == Init => TextInv
<1>1. <<>> \in Seq({})
  BY EmptySeq
<1>2. IsText(<<>>)
  BY <1>1, SeqIsText
<1> QED BY <1>2 DEF Init, TextInv

(* What Substitute makes of the page: what ReplaceInVecReplaces says.      *)
LEMMA SubstituteReplaces ==
    ASSUME TextInv, EditInv, Substitute
    PROVE  /\ IsText(text')
           /\ LET s == edit.substitute[sub + 1]
                  max == Or(s.max_replacements, Len(text))
              IN  \/ s.replacement # None /\ text' = Replaced(text, s.pattern, s.replacement, max)
                  \/ s.file # None /\ s.replacement = None /\ text' = Replaced(text, s.pattern, s.file, max)
<1> DEFINE s == edit.substitute[sub + 1]
<1>1. PICK r \in Replacements(s) : EditPage(ReplaceInVec(text, s.pattern, r, s.max_replacements), sub + 1)
  BY DEF Substitute
<1>2. text' = ReplaceInVec(text, s.pattern, r, s.max_replacements)
  BY <1>1 DEF EditPage
<1>3. /\ r \in {s.replacement, s.file} \ {None}
      /\ \/ s.replacement # None /\ r = s.replacement
         \/ s.file # None /\ s.replacement = None /\ r = s.file
  BY DEF Replacements
<1>4. Substitutable(s)
  <2>1. pc = "editing" /\ edit \in EditFor(manifest, request.url)
    BY DEF Substitute, EditInv, PcInv
  <2>2. HasTexts(edit)
    BY <2>1, EditsAreParsed DEF EditInv
  <2>3. sub + 1 \in 1 .. Len(edit.substitute)
    BY <2>1 DEF EditInv, SubInv
  <2>4. sub + 1 \in DOMAIN edit.substitute
    BY <2>2, <2>3 DEF HasTexts
  <2> QED BY <2>2, <2>4 DEF HasTexts
<1> HIDE DEF s
<1>5. /\ s.pattern \in Seq(Range(s.pattern)) /\ s.pattern # <<>> /\ r \in Seq(Range(r))
      /\ s.max_replacements \in Nat \ {0} \/ s.max_replacements = None
  BY <1>3, <1>4 DEF Substitutable
<1> DEFINE p == s.pattern
           max == s.max_replacements
           S == Range(text) \cup Range(p) \cup Range(r)
<1>6. text \in Seq(S) /\ p \in Seq(S) /\ r \in Seq(S) /\ p # <<>>
  BY <1>5 DEF TextInv, IsText
<1>7. max \in Nat \ {0} \/ max = None
  BY <1>5
<1> HIDE DEF S, p, max
<1>8. /\ ReplaceInVec(text, p, r, max) = Replaced(text, p, r, Or(max, Len(text)))
      /\ ReplaceInVec(text, p, r, max) \in Seq(S)
  BY <1>6, <1>7, ReplaceInVecReplaces
<1>9. IsText(text')
  BY <1>2, <1>8, SeqIsText DEF p, max
<1>10. text' = Replaced(text, s.pattern, r, Or(s.max_replacements, Len(text)))
  BY <1>2, <1>8 DEF p, max
<1> QED BY <1>3, <1>9, <1>10, Zenon DEF s

LEMMA TextInvNext == EditInv /\ TextInv /\ [Next]_vars => TextInv'
<1> SUFFICES ASSUME EditInv, TextInv, [Next]_vars PROVE TextInv'
  OBVIOUS
<1>1. CASE UNCHANGED <<sub, text, unread>>
  BY <1>1 DEF TextInv, IsText
<1>2. CASE Refuse \/ Preparing \/ Send \/ SendFails \/ Uploaded \/ Editing \/ ReadFails \/ UNCHANGED vars
  BY <1>1, <1>2 DEF Refuse, Preparing, Prepare, Send, SendFails, Uploaded, UploadChunk, UploadEnd, UploadFails,
                    Editing, EditResponse, ReadFails, vars
<1>3. CASE Pull \/ PullEnd \/ PullFails \/ PageReads \/ Cancel
  BY <1>1, <1>3 DEF Pull, PullEnd, PullFails, PageReads, Cancel
<1>4. CASE Heading
  <2>1. PICK r \in Responses : unread' = r.body /\ UNCHANGED <<sub, text>>
    BY <1>4 DEF Heading, ResponseHead
  <2> QED BY <2>1, BodyAssumption DEF TextInv, IsText
<1>5. ASSUME NEW n \in Data
      PROVE  /\ SubSeq(unread, 1, n) \in Seq(Range(unread))
             /\ IsText(SubSeq(unread, n + 1, Len(unread)))
  <2>1. unread \in Seq(Range(unread)) /\ n \in DOMAIN unread
    BY DEF TextInv, IsText, Data
  <2>2. /\ SubSeq(unread, 1, n) \in Seq(Range(unread))
        /\ SubSeq(unread, n + 1, Len(unread)) \in Seq(Range(unread))
    BY <2>1, Split
  <2> QED BY <2>2, SeqIsText
<1>6. CASE \E n \in Data : ReadFrame(n)
  <2>1. PICK n \in Data : ReadFrame(n)
    BY <1>6
  <2> DEFINE c == SubSeq(unread, 1, n)
             S == Range(text) \cup Range(unread)
  <2>2. text' = text \o c /\ unread' = SubSeq(unread, n + 1, Len(unread)) /\ sub' = sub
    BY <2>1 DEF ReadFrame
  <2>3. text \in Seq(S) /\ c \in Seq(S)
    BY <1>5 DEF TextInv, IsText
  <2> HIDE DEF c, S
  <2>4. IsText(text \o c)
    <3>1. text \o c \in Seq(S)
      BY <2>3, ConcatProperties
    <3> QED BY <3>1, SeqIsText
  <2> QED BY <1>5, <2>2, <2>4 DEF TextInv, IsText
<1>7. CASE \E n \in Data : PullFrame(n)
  <2>1. PICK n \in Data : unread' = SubSeq(unread, n + 1, Len(unread)) /\ UNCHANGED <<sub, text>>
    BY <1>7 DEF PullFrame
  <2> QED BY <1>5, <2>1 DEF TextInv, IsText
<1>8. CASE ReadEnd
  <2>1. /\ pc = "reading" /\ edit \in EditFor(manifest, request.url)
        /\ text' = Insertions(text, edit) /\ sub' = 0 /\ unread' = unread
    BY <1>8 DEF ReadEnd, EditPage, EditInv, PcInv
  <2>2. edit.js \in Seq(Range(edit.js)) /\ edit.css \in Seq(Range(edit.css))
    BY <2>1, EditsAreParsed DEF EditInv, HasTexts
  <2>3. IsText(Insertions(text, edit))
    <3>1. \E T : Insertions(text, edit) \in Seq(T)
      BY <2>2, InsertionsType DEF TextInv, IsText
    <3> QED BY <3>1, SeqIsText
  <2> QED BY <2>1, <2>3 DEF TextInv, IsText
<1>9. CASE Substitute
  <2>1. sub' = sub + 1 /\ unread' = unread
    BY <1>9 DEF Substitute, EditPage
  <2>2. IsText(text')
    BY <1>9, SubstituteReplaces
  <2> QED BY <2>1, <2>2 DEF TextInv, IsText
<1>10. CASE SkipSubstitution
  <2>1. sub' = sub + 1 /\ unread' = unread /\ text' = text
    BY <1>10 DEF SkipSubstitution, EditPage
  <2> QED BY <2>1 DEF TextInv, IsText
<1> QED
  BY <1>2, <1>3, <1>4, <1>6, <1>7, <1>8, <1>9, <1>10 DEF Next, Reading, Pulling

(* Only a substitution counts on.                                          *)
LEMMA OneSubstitution ==
    ASSUME TextInv, EditInv, Next, sub' = sub + 1
    PROVE  Substitute \/ SkipSubstitution
<1>1. sub' # sub
  BY DEF TextInv
<1>2. ~ (Refuse \/ Preparing \/ Send \/ SendFails \/ Uploaded \/ Heading \/ Editing \/ ReadFails)
  BY <1>1 DEF Refuse, Preparing, Prepare, Send, SendFails, Uploaded, UploadChunk, UploadEnd, UploadFails,
              Heading, ResponseHead, Editing, EditResponse, ReadFails
<1>3. ~ (Pull \/ PullEnd \/ PullFails \/ (\E n \in Data : PullFrame(n)) \/ PageReads \/ Cancel)
  BY <1>1 DEF Pull, PullEnd, PullFails, PullFrame, PageReads, Cancel
<1>4. ~ \E n \in Data : ReadFrame(n)
  BY <1>1 DEF ReadFrame
<1>5. ~ ReadEnd
  BY DEF ReadEnd, EditPage, TextInv
<1> QED BY <1>2, <1>3, <1>4, <1>5 DEF Next, Reading, Pulling

(* SubstitutionIsReplaceN for any page, patterns, replacements and limits: *)
(* of all the matches, the loop of replace_in_vec replaces those that a    *)
(* reader from the left would, and never looks at what it has put in.      *)
THEOREM SubstitutionsReplaceN == Spec => SubstitutionIsReplaceN
<1> DEFINE A ==
      sub' = sub + 1 =>
        LET s == edit.substitute[sub + 1]
            max == Or(s.max_replacements, Len(text))
        IN  \/ s.replacement # None /\ text' = Replaced(text, s.pattern, s.replacement, max)
            \/ s.file # None /\ s.replacement = None /\ text' = Replaced(text, s.pattern, s.file, max)
            \/ s.replacement = None /\ text' = text
<1>1. TextInv /\ EditInv /\ [Next]_vars => [A]_vars
  <2> SUFFICES ASSUME TextInv, EditInv, Next, sub' = sub + 1
               PROVE  LET s == edit.substitute[sub + 1]
                          max == Or(s.max_replacements, Len(text))
                      IN  \/ s.replacement # None /\ text' = Replaced(text, s.pattern, s.replacement, max)
                          \/ s.file # None /\ s.replacement = None /\ text' = Replaced(text, s.pattern, s.file, max)
                          \/ s.replacement = None /\ text' = text
    OBVIOUS
  <2>1. CASE Substitute
    BY <2>1, SubstituteReplaces, Zenon
  <2>2. CASE SkipSubstitution
    <3>1. edit.substitute[sub + 1].replacement = None /\ text' = text
      BY <2>2 DEF SkipSubstitution, EditPage
    <3> QED BY <3>1, Zenon
  <2> QED BY <2>1, <2>2, OneSubstitution
<1>2. Spec => [][A]_vars
  <2> HIDE DEF A
  <2> QED BY <1>1, EditInvInit, EditInvNext, TextInvInit, TextInvNext, PTL DEF Spec
<1> QED BY <1>2 DEF SubstitutionIsReplaceN

-----------------------------------------------------------------------------
(* What keeps a whole response from resolving.  A page that is edited will *)
(* have the status of the response, or 200 for a redirect by script.       *)

RejectInv ==
    /\ pc \in {"reading", "editing"} => result.status = response.status
    /\ pc = "rejected" /\ response # None =>
          cut \/ response.tail \in {"trailers", "reset"} \/ response.status \notin Constructible

LEMMA FinishRejects ==
    ASSUME NEW t, Finish(t), pc' = "rejected"
    PROVE  result.status \notin Constructible
  BY DEF Finish, Construct, Constructible, NullBody

LEMMA EditPageRejects ==
    ASSUME EditInv, RejectInv, pc \in {"reading", "editing"}, NEW t, NEW i, EditPage(t, i),
           UNCHANGED <<cut, response>>
    PROVE  RejectInv'
<1>1. CASE i = Len(edit.substitute)
  <2>1. Finish(t) /\ pc' \in {"resolved", "rejected"}
    BY <1>1 DEF EditPage, Finish, Construct
  <2>2. pc' = "rejected" => response.status \notin Constructible
    BY <2>1, FinishRejects DEF RejectInv
  <2> QED BY <2>1, <2>2 DEF RejectInv
<1>2. CASE i # Len(edit.substitute)
  BY <1>2 DEF EditPage, RejectInv
<1> QED BY <1>1, <1>2

LEMMA RejectInvNext == EditInv /\ RejectInv /\ [Next]_vars => RejectInv'
<1> SUFFICES ASSUME EditInv, RejectInv, [Next]_vars PROVE RejectInv'
  OBVIOUS
<1>1. CASE UNCHANGED <<pc, response, result>> /\ (cut => cut')
  BY <1>1 DEF RejectInv
<1>2. CASE Refuse \/ Preparing \/ Send \/ SendFails
  <2>1. response' = None /\ pc' \in {"adding", "sent", "rejected"}
    BY <1>2 DEF EditInv, PcInv, Refuse, Preparing, Prepare, Send, SendFails
  <2> QED BY <2>1 DEF RejectInv
<1>3. CASE Uploaded
  BY <1>1, <1>3 DEF Uploaded, UploadChunk, UploadEnd, UploadFails
<1>4. CASE Heading
  BY <1>4 DEF Heading, ResponseHead, RejectInv
<1>5. CASE Editing
  <2>1. PICK order \in RenameOrders("response") : EditResponse(order)
    BY <1>5 DEF Editing
  <2>2. UNCHANGED <<response, cut>>
    BY <2>1 DEF EditResponse
  <2>3. CASE NeedsBody(edit)
    BY <2>1, <2>2, <2>3 DEF EditResponse, RejectInv
  <2>4. CASE ~NeedsBody(edit)
    BY <2>1, <2>2, <2>4 DEF EditResponse, Construct, RejectInv
  <2> QED BY <2>3, <2>4
<1>6. ASSUME NEW n \in Data, ReadFrame(n) PROVE RejectInv'
  BY <1>1, <1>6 DEF ReadFrame
<1>7. CASE ReadFails
  BY <1>7 DEF ReadFails, Broken, RejectInv
<1>8. CASE ReadEnd
  BY <1>8, EditPageRejects DEF ReadEnd
<1>9. CASE Substitute \/ SkipSubstitution
  BY <1>9, EditPageRejects DEF Substitute, SkipSubstitution
<1>10. CASE Pull \/ PullEnd \/ PullFails \/ PageReads \/ Cancel
  BY <1>1, <1>10 DEF Pull, PullEnd, PullFails, PageReads, Cancel
<1>11. ASSUME NEW n \in Data, PullFrame(n) PROVE RejectInv'
  BY <1>1, <1>11 DEF PullFrame
<1>12. CASE UNCHANGED vars
  BY <1>1, <1>12 DEF vars
<1> QED
  BY <1>2, <1>3, <1>4, <1>5, <1>6, <1>7, <1>8, <1>9, <1>10, <1>11, <1>12
  DEF Next, Reading, Pulling

(* A response that arrives whole is rejected for three reasons only: it    *)
(* has trailers, a status that takes no body, or one that a Response       *)
(* cannot have at all.  Where no peer answers such a response, every call  *)
(* whose response arrives whole resolves (exports.rs:211-312, lib.rs:50-69)*)
THEOREM OtherCompleteResponsesResolve ==
    ASSUME \A r \in Responses : r.tail # "trailers" /\ r.status \in Constructible
    PROVE  Spec => []CompleteResponsesResolve
<1>1. Init => RejectInv
  BY DEF Init, RejectInv
<1>2. EditInv /\ RejectInv => CompleteResponsesResolve
  BY DEF EditInv, PcInv, RejectInv, CompleteResponsesResolve
<1> QED BY <1>1, <1>2, EditInvInit, EditInvNext, RejectInvNext, PTL DEF Spec
=============================================================================
