---------------------------- MODULE ProxiedFetch ----------------------------
(***************************************************************************)
(* One call of proxiedFetch (exports.rs), from the arguments of the page   *)
(* to the last byte it reads: the request and its body (body.rs), the      *)
(* content edits (ContentEdit), the cookies (lib.rs; CookieStore has the   *)
(* jar), the response, and the body that is read whole and edited, or      *)
(* passed on by a stream that the page pulls.  How a request reaches its   *)
(* peer is Pool; here a peer answers what it likes, in frames of any size, *)
(* or fails.                                                               *)
(***************************************************************************)
EXTENDS ContentEdit

CONSTANTS
    Manifests,     \* manifest.json, as serde reads it
    Calls,         \* what a page may ask for
    Responses      \* what a peer may answer

(* What serde takes: a list of edits that have every field, for URLs.      *)
ASSUME ManifestAssumption ==
    \A m \in Manifests :
        /\ m.content_edits \in Seq(Range(m.content_edits))
        /\ \A e \in Range(m.content_edits) :
              /\ DOMAIN e = DOMAIN Wildcard /\ e.matches \subseteq Urls
              /\ \A list \in {"js", "css", "substitute"} : e[list] \in Seq(Range(e[list]))
              /\ \A side \in {"request", "response"} : IsFiniteSet(DOMAIN e[side].rename)

(* Bodies are sequences, and so are the values of a header.                *)
ASSUME BodyAssumption ==
    /\ \A c \in Calls : c.chunks \in Seq(Range(c.chunks))
    /\ \A r \in Responses :
          /\ r.body \in Seq(Range(r.body))
          /\ \A n \in DOMAIN r.headers : r.headers[n] \in Seq(Range(r.headers[n]))

(* Patterns and what replaces them are texts.  replace_in_vec does not end *)
(* on an empty pattern, and replaces once when told to replace nothing.    *)
Substitutable(s) ==
    /\ s.pattern \in Seq(Range(s.pattern)) /\ s.pattern # <<>>
    /\ \A t \in {s.replacement, s.file} \ {None} : t \in Seq(Range(t))
    /\ s.max_replacements \in Nat \cup {None} /\ s.max_replacements # 0
ASSUME SubstitutionAssumption ==
    \A m \in Manifests : \A i \in DOMAIN m.content_edits :
        \A j \in DOMAIN m.content_edits[i].substitute :
            Substitutable(m.content_edits[i].substitute[j])

(* apply_on_request panics when it turns a URL without a host to https.    *)
ASSUME OverrideAssumption ==
    \A m \in Manifests : \A i \in DOMAIN m.content_edits :
        m.content_edits[i].override_uri \in Urls \cup {None}

ASSUME UrlAssumption ==
    \A u \in Urls : "scheme" \in DOMAIN u /\ [u EXCEPT !.scheme = "https"] \in Urls

(* The page that runs the proxy is not itself proxied.                     *)
ASSUME OriginAssumption ==
    \A m \in Manifests : SelfOrigin \in Urls => SelfOrigin.host \notin m.domains

VARIABLES
    config,     \* manifest.json
    manifest,   \* MANIFEST
    call,       \* the arguments
    pc,         \* where the call stands
    edit,       \* content_edit
    request,    \* URL and headers, or None
    upload,     \* the request body: left in the page, reached the peer, how it ended
    cut,        \* the request body failed, and hyper reset the HTTP/2 stream
    response,   \* what the peer sends, or None
    unread,     \* the part of its body that no reader has got
    text,       \* body_bytes, then the page that is edited
    sub,        \* the substitution it is at
    result,     \* the Response that the call resolves to, or None
    stream,     \* its ReadableStream
    page        \* what the page read of it

vars == <<config, manifest, call, pc, edit, request, upload, cut, response, unread,
          text, sub, result, stream, page>>
asked == <<config, manifest, call>>

Stream(state) == [state |-> state, chunks |-> <<>>, pull |-> state = "readable", pulling |-> FALSE]

Init ==
    /\ config \in Manifests /\ manifest \in {Parsed(config), Unloaded}
    /\ call \in Calls /\ pc = "called"
    /\ edit = None /\ request = None /\ response = None /\ result = None
    /\ upload = [left |-> <<>>, reached |-> <<>>, end |-> "open"] /\ cut = FALSE
    /\ unread = <<>> /\ text = <<>> /\ sub = 0
    /\ stream = Stream("none") /\ page = <<>>

-----------------------------------------------------------------------------
(* The request.                                                            *)

(* The options are a URL, which overrides that of a Request only, or have  *)
(* headers, which count for any other resource.                            *)
CallUrl ==
    IF call.resource = "request" THEN Or(call.options.url, call.url) ELSE call.url
CallHeaders ==
    IF call.resource = "request" THEN call.headers ELSE call.options.headers

(* The body as hyper will poll it: nothing, one buffer, or the chunks of a *)
(* stream.  A buffer that cannot be read counts as nothing.                *)
RequestBody(readable) ==
    CASE call.body = "stream" -> call.chunks
      [] call.body = "buffer" /\ readable -> <<FlattenSeq(call.chunks)>>
      [] OTHER -> <<>>

(* The URL does not parse, or no edit fits it.                             *)
Refuse ==
    /\ pc = "called" /\ EditFor(manifest, CallUrl) = {}
    /\ pc' = "rejected"
    /\ UNCHANGED <<asked, edit, request, upload, cut, response, unread, text, sub, result, stream, page>>

(* The request is built and edited, and the edit is looked up once more    *)
(* for the response.  The host header is that of the URL before the edit.  *)
Prepare(readable, order) ==
    /\ pc = "called"
    /\ \E first \in EditFor(manifest, CallUrl) :
        /\ order \in SetToSeqs(DOMAIN first.request.rename)
        /\ LET url == EditUrl(CallUrl, first) IN
            /\ \E second \in EditFor(manifest, url) : edit' = second
            /\ request' = [url |-> url,
                           headers |-> Insert(EditHeaders(CallHeaders, first.request, order),
                                              "host", [text |-> CallUrl.host])]
    /\ upload' = [upload EXCEPT !.left = RequestBody(readable)]
    /\ pc' = "adding"
    /\ UNCHANGED <<asked, cut, response, unread, text, sub, result, stream, page>>

(* The cookies of the jar are the cookie header, whatever it was.          *)
Send ==
    /\ pc = "adding"
    /\ request' = [request EXCEPT !.headers = Insert(@, "cookie", [text |-> "jar"])]
    /\ pc' = "sent"
    /\ UNCHANGED <<asked, edit, upload, cut, response, unread, text, sub, result, stream, page>>

SendFails ==
    /\ pc = "sent"
    /\ pc' = "rejected"
    /\ UNCHANGED <<asked, edit, request, upload, cut, response, unread, text, sub, result, stream, page>>

(* hyper polls MantalonBody while the call goes on, or its stream exists.  *)
Uploading ==
    /\ pc \notin {"called", "adding", "rejected"} \/ stream.state # "none"
    /\ upload.end = "open"

UploadChunk ==
    /\ Uploading /\ upload.left # <<>>
    /\ upload' = [upload EXCEPT !.left = Tail(@), !.reached = Append(@, Head(upload.left))]
    /\ UNCHANGED <<asked, pc, edit, request, cut, response, unread, text, sub, result, stream, page>>

UploadEnd ==
    /\ Uploading /\ upload.left = <<>>
    /\ upload' = [upload EXCEPT !.end = "end"]
    /\ UNCHANGED <<asked, pc, edit, request, cut, response, unread, text, sub, result, stream, page>>

(* read() rejects: hyper resets the stream.                                *)
UploadFails ==
    /\ Uploading /\ call.body = "stream"
    /\ upload' = [upload EXCEPT !.end = "error"] /\ cut' = TRUE
    /\ UNCHANGED <<asked, pc, edit, request, response, unread, text, sub, result, stream, page>>

-----------------------------------------------------------------------------
(* The response.                                                           *)

(* The head arrives; storing its cookies waits for the jar.                *)
ResponseHead(r) ==
    /\ pc = "sent" /\ ~cut
    /\ response' = r /\ unread' = r.body
    /\ pc' = "storing"
    /\ UNCHANGED <<asked, edit, request, upload, cut, text, sub, result, stream, page>>

NullBody == {204, 205, 304}

(* The constructor of Response throws for a status out of range, and for   *)
(* one that takes no body, as it is always given one.                      *)
Constructible == 200 .. 599 \ NullBody
Construct(status, headers, body) ==
    IF status \in Constructible
    THEN pc' = "resolved" /\ result' = [status |-> status, headers |-> headers, text |-> body]
    ELSE pc' = "rejected" /\ UNCHANGED result

(* The response is edited, and its body read, or left to the page's pulls: *)
(* of a stream that exists even if there is no Response to reach it by.    *)
EditResponse(order) ==
    LET rewritten == RewriteLocation(response.headers, edit, manifest.domains)
        headers == EditHeaders(rewritten, edit.response, order)
    IN
    /\ pc = "storing" /\ order \in SetToSeqs(DOMAIN edit.response.rename)
    /\ IF NeedsBody(edit)
       THEN /\ pc' = "reading" /\ UNCHANGED stream
            /\ result' = [status |-> response.status, headers |-> headers, text |-> <<>>]
       ELSE Construct(response.status, headers, <<>>) /\ stream' = Stream("readable")
    /\ UNCHANGED <<asked, edit, request, upload, cut, response, unread, text, sub, page>>

(* What the next frame of the response body may be: some of the data, its  *)
(* end, or something else: trailers or an error.                           *)
Data == DOMAIN unread
Ended == unread = <<>> /\ response.tail = "end" /\ ~cut
Broken == cut \/ (unread = <<>> /\ response.tail \in {"trailers", "reset"})

ReadFrame(n) ==
    /\ pc = "reading" /\ n \in Data
    /\ text' = text \o SubSeq(unread, 1, n) /\ unread' = SubSeq(unread, n + 1, Len(unread))
    /\ UNCHANGED <<asked, pc, edit, request, upload, cut, response, sub, result, stream, page>>

(* The rest of proxiedFetch, once the substitutions are through.           *)
ByScript(h) == edit.js_redirect /\ "location" \in DOMAIN h
Scripted(h) == Insert(Without(h, {"location"}), "x-mantalon-location", Joined(h["location"]))
Finish(t) ==
    IF ByScript(result.headers)
    THEN Construct(200, Scripted(result.headers), <<"js_redirect.html">>)
    ELSE Construct(result.status, result.headers, t)

(* The text after i substitutions: on to the next, or done.                *)
EditPage(t, i) ==
    /\ text' = t /\ sub' = i /\ UNCHANGED stream
    /\ IF i = Len(edit.substitute) THEN Finish(t)
       ELSE pc' = "editing" /\ UNCHANGED result

ReadEnd ==
    /\ pc = "reading" /\ Ended
    /\ EditPage(Insertions(text, edit), 0)
    /\ UNCHANGED <<asked, edit, request, upload, cut, response, unread, page>>

(* Variant of ReadFails: an error is taken for the end.                    *)
ReadFailsAsEnd ==
    /\ pc = "reading" /\ Broken
    /\ EditPage(Insertions(text, edit), 0)
    /\ UNCHANGED <<asked, edit, request, upload, cut, response, unread, page>>

ReadFails ==
    /\ pc = "reading" /\ Broken
    /\ pc' = "rejected"
    /\ UNCHANGED <<asked, edit, request, upload, cut, response, unread, text, sub, result, stream, page>>

(* What a substitution may put in: its replacement, or what its file holds.*)
Replacements(s) == {IF s.replacement # None THEN s.replacement ELSE s.file} \ {None}

Substitute ==
    LET s == edit.substitute[sub + 1] IN
    /\ pc = "editing"
    /\ \E r \in Replacements(s) : EditPage(ReplaceInVec(text, s.pattern, r, s.max_replacements), sub + 1)
    /\ UNCHANGED <<asked, edit, request, upload, cut, response, unread, page>>

(* It has neither, or its file cannot be loaded.                           *)
SkipSubstitution ==
    /\ pc = "editing" /\ edit.substitute[sub + 1].replacement = None
    /\ EditPage(text, sub + 1)
    /\ UNCHANGED <<asked, edit, request, upload, cut, response, unread, page>>

-----------------------------------------------------------------------------
(* The stream.  The browser calls pull while nothing is queued, and not    *)
(* again before its promise settles.                                       *)

Streaming == stream.state = "readable"

Pull ==
    /\ Streaming /\ stream.pull /\ ~stream.pulling /\ stream.chunks = <<>>
    /\ stream' = [stream EXCEPT !.pulling = TRUE]
    /\ UNCHANGED <<asked, pc, edit, request, upload, cut, response, unread, text, sub, result, page>>

(* Variant of PullFrame: a chunk is queued whatever became of the stream.  *)
PullFrameAnyway(n) ==
    /\ stream.pulling /\ n \in Data
    /\ unread' = SubSeq(unread, n + 1, Len(unread))
    /\ stream' = [stream EXCEPT !.pulling = FALSE, !.chunks = Append(@, SubSeq(unread, 1, n))]
    /\ UNCHANGED <<asked, pc, edit, request, upload, cut, response, text, sub, result, page>>

(* A chunk is queued, unless the page has cancelled the stream meanwhile.  *)
PullFrame(n) ==
    /\ stream.pulling /\ n \in Data
    /\ unread' = SubSeq(unread, n + 1, Len(unread))
    /\ stream' = [stream EXCEPT !.pulling = FALSE,
                     !.chunks = IF Streaming THEN Append(@, SubSeq(unread, 1, n)) ELSE @]
    /\ UNCHANGED <<asked, pc, edit, request, upload, cut, response, text, sub, result, page>>

PullEnd ==
    /\ stream.pulling /\ Ended
    /\ stream' = [stream EXCEPT !.pulling = FALSE, !.state = IF Streaming THEN "closed" ELSE @]
    /\ UNCHANGED <<asked, pc, edit, request, upload, cut, response, unread, text, sub, result, page>>

(* Variant of PullFails: the error is only logged.                         *)
PullFailsQuietly ==
    /\ stream.pulling /\ Broken
    /\ stream' = [stream EXCEPT !.pulling = FALSE]
    /\ UNCHANGED <<asked, pc, edit, request, upload, cut, response, unread, text, sub, result, page>>

(* The promise of pull rejects, which errors the stream.                   *)
PullFails ==
    /\ stream.pulling /\ Broken
    /\ stream' = [stream EXCEPT !.pulling = FALSE, !.state = IF Streaming THEN "errored" ELSE @]
    /\ UNCHANGED <<asked, pc, edit, request, upload, cut, response, unread, text, sub, result, page>>

PageReads ==
    /\ pc = "resolved" /\ Streaming /\ stream.chunks # <<>>
    /\ page' = page \o Head(stream.chunks)
    /\ stream' = [stream EXCEPT !.chunks = Tail(@)]
    /\ UNCHANGED <<asked, pc, edit, request, upload, cut, response, unread, text, sub, result>>

(* Variant of Cancel: it does nothing while a pull is under way.           *)
CancelUnlessPulling ==
    /\ pc = "resolved" /\ Streaming
    /\ stream' = [stream EXCEPT !.state = "cancelled", !.chunks = <<>>, !.pull = @ /\ stream.pulling]
    /\ UNCHANGED <<asked, pc, edit, request, upload, cut, response, unread, text, sub, result, page>>

(* cancel drops the closure of pull, and the body with it unless a pull is *)
(* under way.                                                              *)
Cancel ==
    /\ pc = "resolved" /\ Streaming
    /\ stream' = [stream EXCEPT !.state = "cancelled", !.chunks = <<>>, !.pull = FALSE]
    /\ UNCHANGED <<asked, pc, edit, request, upload, cut, response, unread, text, sub, result, page>>

BodyHeld == stream.pull \/ stream.pulling

-----------------------------------------------------------------------------
RenameOrders(side) ==
    UNION {SetToSeqs(DOMAIN manifest.content_edits[i][side].rename) : i \in DOMAIN manifest.content_edits}

Preparing == \E readable \in BOOLEAN, order \in RenameOrders("request") : Prepare(readable, order)
Heading == \E r \in Responses : ResponseHead(r)
Editing == \E order \in RenameOrders("response") : EditResponse(order)
Reading == ReadEnd \/ ReadFails \/ \E n \in Data : ReadFrame(n)
Pulling == PullEnd \/ PullFails \/ \E n \in Data : PullFrame(n)
Uploaded == UploadChunk \/ UploadEnd \/ UploadFails

Next ==
    \/ Refuse \/ Preparing \/ Send \/ SendFails \/ Uploaded \/ Heading \/ Editing
    \/ Reading \/ Substitute \/ SkipSubstitution
    \/ Pull \/ Pulling \/ PageReads \/ Cancel

Spec == Init /\ [][Next]_vars

(* The call runs, the jar and the files it waits for answer, and a page    *)
(* that holds a stream reads it.  Nothing is owed by the page's own body,  *)
(* by the pool, nor by the connection: a call may wait for them for ever.  *)
Fairness ==
    /\ WF_vars(Refuse \/ Preparing) /\ WF_vars(Send)
    /\ WF_vars(Editing) /\ WF_vars(Substitute \/ SkipSubstitution)
    /\ WF_vars(Pull) /\ WF_vars(PageReads)

FairSpec == Spec /\ Fairness

-----------------------------------------------------------------------------
(* Every variable keeps its type.                                          *)
TypeOK ==
    /\ pc \in {"called", "adding", "sent", "storing", "reading", "editing", "resolved", "rejected"}
    /\ pc = "called" => {edit, request} = {None}
    /\ pc \in {"called", "adding", "sent"} => response = None
    /\ pc \in {"called", "adding", "sent", "storing"} => result = None
    /\ pc \notin {"called", "rejected"} =>
          request.url \in Urls /\ sub \in 0 .. Len(edit.substitute)
    /\ upload.end \in {"open", "end", "error"}
    /\ response \in Responses \cup {None} /\ cut \in BOOLEAN
    /\ pc = "resolved" => result.status \in Constructible
    /\ stream.state \in {"none", "readable", "closed", "errored", "cancelled"}
    /\ stream.state # "none" => pc \in {"resolved", "rejected"}
    /\ Len(stream.chunks) <= (IF Streaming THEN 1 ELSE 0)

(* What a body's reader is told has ended has ended, and nothing of it is  *)
(* missing: the peer of the request body (unless the browser could not     *)
(* give it as a buffer), the page of a stream, the edits of a whole page.  *)
EndsAreHonest ==
    /\ upload.end = "end" => \E readable \in BOOLEAN : upload.reached = RequestBody(readable)
    /\ stream.state = "closed" => response.tail = "end" /\ page = response.body
    /\ stream.state \notin {"none", "closed"} => IsPrefix(page, response.body)
    /\ pc = "editing" \/ (pc = "resolved" /\ stream.state = "none") =>
          response.tail = "end" /\ unread = <<>>

(* replace_in_vec does what it is named for: a substitution replaces the   *)
(* leftmost occurrences that do not overlap, at most max of them, in the   *)
(* text as the substitution before it left it.                             *)
SubstitutionIsReplaceN ==
    [][sub' = sub + 1 =>
        LET s == edit.substitute[sub + 1]
            max == Or(s.max_replacements, Len(text))
        IN  \/ s.replacement # None /\ text' = Replaced(text, s.pattern, s.replacement, max)
            \/ s.file # None /\ s.replacement = None /\ text' = Replaced(text, s.pattern, s.file, max)
            \/ s.replacement = None /\ text' = text]_vars

(* Renames that share no header act as if all were done at once, whatever  *)
(* order the map gives them in, on what the other header edits left: in    *)
(* the request, and in the response up to the Response that the call       *)
(* resolves to, be it of a stream, of an edited page or of a redirect by   *)
(* script (manifest.rs:167-171, 209-213, exports.rs:211-312).              *)
RenamesAgree ==
    /\ pc = "adding" => \A e \in EditFor(manifest, CallUrl) :
          Independent(e.request) =>
              Without(request.headers, {"host"}) = Without(AllAtOnce(CallHeaders, e.request), {"host"})
    /\ result # None /\ Independent(edit.response) =>
          LET all == AllAtOnce(RewriteLocation(response.headers, edit, manifest.domains), edit.response)
          IN  result.headers = IF pc = "resolved" /\ ByScript(all) THEN Scripted(all) ELSE all

(* The setting that manifest.json has for a URL, the edit's own before the *)
(* root's.                                                                 *)
Setting(url, flag) ==
    LET fits == {i \in DOMAIN config.content_edits : url \in config.content_edits[i].matches}
        own == IF fits = {} THEN None ELSE config.content_edits[Min(fits)][flag]
    IN  Or(own, Or(config[flag], flag = "rewrite_location"))

(* The request of a call whose URL is https_only has the scheme https,     *)
(* wherever an override takes it (manifest.rs:148-155).                    *)
HttpsOnlyHolds ==
    request # None /\ Setting(CallUrl, "https_only") => request.url.scheme = "https"

(* "Prevent page from redirecting outside of the proxy": no response, and  *)
(* no page that redirects by script, leads to a proxied domain itself,     *)
(* unless the manifest says so or edits the header.  The first location of *)
(* a response counts; when that is rewritten, no other is left.            *)
Leads == result.headers[IF edit.js_redirect THEN "x-mantalon-location" ELSE "location"]
Proxied(target) == target \in Urls /\ target.host \in config.domains
Touched(e) == e.remove \cup DOMAIN e.insert \cup DOMAIN e.append \cup DOMAIN e.rename \cup Range(e.rename)
RedirectsStayInside ==
    /\ pc = "resolved"
    /\ Setting(request.url, "rewrite_location") /\ "location" \notin Touched(edit.response)
    /\ "location" \in DOMAIN response.headers
    => /\ ~Proxied(Head(Leads))
       /\ Proxied(Head(response.headers["location"])) => \A i \in DOMAIN Leads : ~Proxied(Leads[i])

(* What the call waits for from the pool, the connection or the peer.      *)
AwaitsPeer == pc \in {"sent", "reading"} \/ stream.pulling

(* A call that is always answered in the end, and frame by frame, settles, *)
(* and a stream that the page reads ends, fails or is cancelled: no error  *)
(* of the body is swallowed, and no step of proxiedFetch itself hangs      *)
(* (exports.rs:143-312, lib.rs:44-70).                                     *)
FetchSettles ==
    []<>~AwaitsPeer => <>(pc = "rejected" \/ (pc = "resolved" /\ stream.state # "readable"))

(* A cancelled stream gives up the body of the response, which lets hyper  *)
(* reset the HTTP/2 stream: at once, or when the pull under way ends, if   *)
(* it does.                                                                *)
CancelFreesBody == []<>~stream.pulling => ((stream.state = "cancelled") ~> ~BodyHeld)

(* A call whose response arrives whole resolves, as a fetch does.          *)
CompleteResponsesResolve ==
    pc = "rejected" /\ response # None => cut \/ response.tail = "reset"
=============================================================================
