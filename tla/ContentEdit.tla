----------------------------- MODULE ContentEdit -----------------------------
(***************************************************************************)
(* manifest.rs: what update_manifest makes of manifest.json, and what one  *)
(* content edit does to a URL, to headers and to a page.  The operators    *)
(* are pure; ProxiedFetch applies them in the order of proxiedFetch.       *)
(*                                                                         *)
(* Headers are a function from the names present to their values, in order.*)
(* A page is a sequence of tokens: the tags that the edits look for,       *)
(* newlines, the tags they insert, and letters.                            *)
(***************************************************************************)
EXTENDS SequencesExt

CONSTANTS
    Urls,          \* the absolute URLs: records with a scheme and a host
    HeaderNames,   \* what may name a header
    SelfOrigin,    \* scheme and host of the page that runs the proxy
    None

-----------------------------------------------------------------------------
(* The manifest.                                                           *)

Flags == {"lock_browsing", "https_only", "rewrite_location", "js_redirect"}

Or(option, default) == IF option = None THEN default ELSE option

NoHeaderEdits == [remove |-> {}, insert |-> <<>>, append |-> <<>>, rename |-> <<>>]

(* The rule added for all remaining pages.                                 *)
Wildcard ==
    [lock_browsing |-> None, https_only |-> None, rewrite_location |-> None, js_redirect |-> None,
     matches |-> Urls, override_uri |-> None, js |-> <<>>, css |-> <<>>, substitute |-> <<>>,
     request |-> NoHeaderEdits, response |-> NoHeaderEdits]

(* What cannot be a header name is left out.                               *)
ParsedHeaders(h) ==
    [remove |-> h.remove \cap HeaderNames,
     insert |-> Restrict(h.insert, DOMAIN h.insert \cap HeaderNames),
     append |-> Restrict(h.append, DOMAIN h.append \cap HeaderNames),
     rename |-> RestrictDomain(h.rename, LAMBDA n : {n, h.rename[n]} \subseteq HeaderNames)]

(* The root settings fill what an edit leaves open; only rewrite_location  *)
(* is on by default.                                                       *)
Parsed(m) ==
    LET root == [f \in Flags |-> Or(m[f], f = "rewrite_location")]
        parsed(e) == [x \in DOMAIN e |-> CASE x \in Flags -> Or(e[x], root[x])
                                           [] x \in {"request", "response"} -> ParsedHeaders(e[x])
                                           [] OTHER -> e[x]]
        edits == Append(m.content_edits, Wildcard)
    IN  [domains |-> m.domains, content_edits |-> [i \in DOMAIN edits |-> parsed(edits[i])]]

(* MANIFEST until update_manifest has ended.                               *)
Unloaded == [domains |-> {"localhost"}, content_edits |-> <<>>]

(* The edits of the manifest that get_content_edit chooses for a URL: the  *)
(* first one, or none.                                                     *)
EditFor(manifest, url) ==
    LET fits == {i \in DOMAIN manifest.content_edits : url \in manifest.content_edits[i].matches}
    IN  IF fits = {} THEN {} ELSE {manifest.content_edits[Min(fits)]}

-----------------------------------------------------------------------------
(* Headers and the URL.                                                    *)

Without(h, names) == Restrict(h, DOMAIN h \ names)

Insert(h, n, v) == [m \in DOMAIN h \cup {n} |-> IF m = n THEN <<v>> ELSE h[m]]

(* Variant of Rename: the header keeps its old name too.                   *)
RenameKeeping(h, from, to) ==
    IF from \in DOMAIN h THEN Insert(h, to, Head(h[from])) ELSE h

(* HeaderMap::remove returns the first value and drops the others.         *)
Rename(h, from, to) ==
    IF from \in DOMAIN h THEN Insert(Without(h, {from}), to, Head(h[from])) ELSE h

(* Removals, then insertions, then additions.                              *)
Edited(h, e) ==
    LET kept == [n \in (DOMAIN h \ e.remove) \cup DOMAIN e.insert |->
                    IF n \in DOMAIN e.insert THEN <<e.insert[n]>> ELSE h[n]]
    IN  [n \in DOMAIN kept \cup DOMAIN e.append |->
            (IF n \in DOMAIN kept THEN kept[n] ELSE <<>>)
            \o (IF n \in DOMAIN e.append THEN <<e.append[n]>> ELSE <<>>)]

(* And then the renames one by one in the order of a HashMap, which is any.*)
EditHeaders(h, e, order) ==
    FoldLeft(LAMBDA g, from : Rename(g, from, e.rename[from]), Edited(h, e), order)

(* Reference: all the renames at once, for those that share no header.     *)
AllAtOnce(h, e) ==
    LET full == Edited(h, e)
        moved == DOMAIN e.rename \cap DOMAIN full
    IN  [n \in (DOMAIN full \ moved) \cup {e.rename[m] : m \in moved} |->
            LET from == {m \in moved : e.rename[m] = n}
            IN  IF from = {} THEN full[n] ELSE <<Head(full[CHOOSE m \in from : TRUE])>>]
Independent(e) ==
    IsInjective(e.rename) /\ DOMAIN e.rename \cap Range(e.rename) = {}

(* Variant of EditUrl: the override comes last.                            *)
EditUrlOverrideLast(url, e) ==
    IF e.override_uri # None THEN e.override_uri
    ELSE IF e.https_only THEN [url EXCEPT !.scheme = "https"] ELSE url

(* The override, then the scheme.                                          *)
EditUrl(url, e) ==
    LET target == Or(e.override_uri, url)
    IN  IF e.https_only THEN [target EXCEPT !.scheme = "https"] ELSE target

(* Variant of RewriteLocation: the new location is added to the old one.   *)
RewriteLocationAppending(h, e, domains) ==
    IF /\ e.rewrite_location /\ "location" \in DOMAIN h
       /\ Head(h["location"]) \in Urls /\ Head(h["location"]).host \in domains
    THEN [Insert(h, "x-mantalon-location", Head(h["location"]))
            EXCEPT !["location"] = Append(@, SelfOrigin)]
    ELSE h

(* A redirect to a proxied domain goes to the proxy's own origin instead;  *)
(* the path is kept.                                                       *)
RewriteLocation(h, e, domains) ==
    IF /\ e.rewrite_location /\ "location" \in DOMAIN h
       /\ Head(h["location"]) \in Urls /\ Head(h["location"]).host \in domains
    THEN Insert(Insert(h, "location", SelfOrigin), "x-mantalon-location", Head(h["location"]))
    ELSE h

(* What Headers::get returns: one text, of all the values.                 *)
Joined(values) == IF Len(values) = 1 THEN Head(values) ELSE [text |-> values]

-----------------------------------------------------------------------------
(* The page.                                                               *)

NeedsBody(e) ==
    e.lock_browsing \/ e.js_redirect \/ e.js # <<>> \/ e.css # <<>> \/ e.substitute # <<>>

(* The first place at or after from where the needle is, or 0.             *)
Search(needle, hay, from) ==
    LET at == {i \in from .. Len(hay) - Len(needle) + 1 :
                  SubSeq(hay, i, i + Len(needle) - 1) = needle}
    IN  IF at = {} THEN 0 ELSE Min(at)

Splice(text, at, n, with) == SubSeq(text, 1, at - 1) \o with \o SubSeq(text, at + n, Len(text))

Trim(text) == SubSeq(text, 1, Max({i \in DOMAIN text : text[i] # "\n"} \cup {0}))

(* A script goes before the closing html tag, if that ends the page.       *)
WithScript(text, js) ==
    IF text # <<>> /\ Last(text) = "</html>" THEN Front(text) \o <<js, "</html>">> ELSE text

(* A style sheet takes the place of the closing head tag, if there is one. *)
WithStyle(text, css) ==
    LET at == Search(<<"</head>">>, text, 1)
    IN  IF at # 0 /\ Search(<<"</head>">>, text, at + 1) = 0
        THEN Splice(text, at, 1, <<css>>) ELSE text

(* apply_on_response_body up to the substitutions.                         *)
Insertions(text, e) ==
    LET styled == FoldLeft(WithStyle, FoldLeft(WithScript, Trim(text), e.js), e.css)
    IN  IF e.lock_browsing THEN WithScript(styled, "lock_browsing.js") ELSE styled

(* Variant of ReplaceNext: what was put in is searched again.              *)
ReplaceNextAgain(w, pattern, replacement) ==
    LET at == Search(pattern, w.data, w.from)
    IN  IF at = 0 \/ w.left = 0 THEN w
        ELSE [data |-> Splice(w.data, at, Len(pattern), replacement),
              from |-> at, left |-> w.left - 1]

(* One turn of the loop of replace_in_vec.                                 *)
ReplaceNext(w, pattern, replacement) ==
    LET at == Search(pattern, w.data, w.from)
    IN  IF at = 0 \/ w.left = 0 THEN w
        ELSE [data |-> Splice(w.data, at, Len(pattern), replacement),
              from |-> at + Len(replacement), left |-> w.left - 1]

(* The loop turns once even when max is 0.  With a pattern that is not     *)
(* empty it turns at most Len(data) times.  (The set evaluates w once.)    *)
ReplaceInVec(data, pattern, replacement, max) ==
    LET turn(w, t) == CHOOSE next \in {ReplaceNext(v, pattern, replacement) : v \in {w}} : TRUE
        start == [data |-> data, from |-> 1, left |-> Max({1, Or(max, Len(data))})]
    IN  FoldLeft(turn, start, data).data

(* Reference: the matches from the left, of those that overlap the first,  *)
(* and max of them at the most; and the text with each of them replaced.   *)
Matches(text, pattern) ==
    {i \in 1 .. Len(text) - Len(pattern) + 1 : SubSeq(text, i, i + Len(pattern) - 1) = pattern}
Leftmost(chosen, text, pattern, max) ==
    /\ Cardinality(chosen) <= max
    /\ \A c, d \in chosen : c < d => c + Len(pattern) <= d
    /\ \A i \in Matches(text, pattern) \ chosen :
          \/ \E c \in chosen : c < i /\ i < c + Len(pattern)
          \/ Cardinality(chosen) = max /\ \A c \in chosen : c < i
Pieces(chosen, text, pattern, replacement) ==
    [i \in DOMAIN text |->
        IF i \in chosen THEN replacement
        ELSE IF \E c \in chosen : c < i /\ i < c + Len(pattern) THEN <<>> ELSE <<text[i]>>]
Replaced(text, pattern, replacement, max) ==
    LET chosen == CHOOSE C \in SUBSET Matches(text, pattern) : Leftmost(C, text, pattern, max)
    IN  FlattenSeq(Pieces(chosen, text, pattern, replacement))
=============================================================================
