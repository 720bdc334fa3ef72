------------------------------- MODULE MCFetch -------------------------------
(* Instances of ProxiedFetch: manifests, calls and responses.              *)
EXTENDS ProxiedFetch

CONSTANTS NoUrl

Url(scheme, host) == [scheme |-> scheme, host |-> host]
MCUrls == {Url(s, h) : s \in {"http", "https"}, h \in {"a", "b", "other"}}
Origin == Url("https", "proxy")
Names == {"x", "y", "u", "v", "w", "cookie", "location", "host", "x-mantalon-location"}
T(v) == [text |-> v]

(* Edits of manifest.json: one overlays a page, one overrides its URL and  *)
(* leaves the body alone, one redirects by script; each renames headers of *)
(* the response.                                                           *)
Plain == Wildcard
Rename2 == [NoHeaderEdits EXCEPT !.insert = "x" :> T("1"), !.append = "y" :> T("2"),
                                 !.rename = "x" :> "u" @@ "y" :> "v" @@ "w" :> "no name"]
Chain == [NoHeaderEdits EXCEPT !.remove = {"w"}, !.rename = "x" :> "y" @@ "y" :> "cookie"]
Sub(pattern, replacement, file, max) ==
    [pattern |-> pattern, replacement |-> replacement, file |-> file, max_replacements |-> max]

Overlay == [Plain EXCEPT !.matches = {Url("https", "a")}, !.lock_browsing = TRUE,
                         !.js = <<"j1", "j2">>, !.css = <<"c1", "c2">>, !.response = Rename2,
                         !.substitute = <<Sub(<<"o", "o">>, <<"o">>, None, 2),
                                          Sub(<<"o">>, None, <<"o", "p">>, None),
                                          Sub(<<"p">>, None, None, None)>>]
Override == [Plain EXCEPT !.matches = {Url("http", "a"), Url("http", "b")}, !.override_uri = Url("http", "b"),
                          !.request = Chain, !.response = Rename2]
JsRedirect == [Plain EXCEPT !.matches = {Url("https", "b")}, !.js_redirect = TRUE,
                          !.request = Rename2, !.response = Rename2]

Root(https, rewrite) == [[f \in Flags |-> None] EXCEPT !["https_only"] = https, !["rewrite_location"] = rewrite]
Manifest(https, rewrite, edits) == Root(https, rewrite) @@ [domains |-> {"a", "b"}, content_edits |-> edits]

MCManifests == {Manifest(TRUE, None, <<Overlay, Override, JsRedirect>>),
                Manifest(None, TRUE, <<Override>>),
                Manifest(FALSE, FALSE, <<JsRedirect>>)}

Headers == "x" :> <<T("3"), T("4")>> @@ "y" :> <<T("5")>>
String(url, headers) ==
    [resource |-> "string", url |-> url, options |-> [url |-> None, headers |-> headers],
     body |-> "none", chunks |-> <<>>]
Request(url, option, body, chunks) ==
    [resource |-> "request", url |-> url, headers |-> Headers, options |-> [url |-> option, headers |-> <<>>],
     body |-> body, chunks |-> chunks]

MCCalls == {String(Url("https", "a"), Headers), String(NoUrl, <<>>),
            Request(Origin, Url("http", "a"), "stream", <<<<"1">>, <<"2">>>>),
            Request(Url("http", "b"), None, "buffer", <<<<"1">>, <<"2">>>>),
            Request(Url("https", "b"), Url("https", "b"), "none", <<>>)}

Response(status, headers, body, tail) == [status |-> status, headers |-> headers, body |-> body, tail |-> tail]
Page == <<"</head>", "o", "o", "o", "</html>", "\n">>
Here == "location" :> <<Url("http", "b"), Url("http", "a")>> @@ Headers
There == "location" :> <<Url("http", "other")>>
Both == "location" :> <<Url("http", "other"), Url("http", "b")>>

MCResponses == {Response(200, Headers, Page, tail) : tail \in {"end", "trailers", "reset"}}
               \cup {Response(302, Here, <<>>, "end"), Response(302, There, <<"o">>, "end"), Response(302, Both, <<>>, "end"),
                     Response(304, Headers, <<>>, "end"), Response(999, Headers, <<"o">>, "end")}
=============================================================================
