------------------------------- MODULE MCPool -------------------------------
(* Instances of Pool: four calls of send_request and what they ask for.   *)
EXTENDS Pool, TLC

CONSTANTS r1, r2, r3, r4

Url(scheme, host, port) == [scheme |-> scheme, host |-> host, port |-> port]

(* r1 and r2 share a peer, r3 has the same host and another default port, *)
(* r4 has no server at all.                                               *)
SharedUri == r1 :> Url("https", "a", NoPort) @@ r2 :> Url("https", "a", 443)
             @@ r3 :> Url("http", "a", NoPort) @@ r4 :> Url("ftp", "b", NoPort)

(* Two peers.                                                              *)
MixedUri == r1 :> Url("https", "a", NoPort) @@ r2 :> Url("https", "a", 443)
            @@ r3 :> Url("https", "b", NoPort)

(* An explicit port that an http and an https request share.               *)
PortUri == r1 :> Url("http", "a", 8080) @@ r2 :> Url("https", "a", 8080)
           @@ r3 :> Url("https", "b", NoPort)
=============================================================================
