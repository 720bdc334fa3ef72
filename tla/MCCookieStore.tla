---------------------------- MODULE MCCookieStore ----------------------------
(* Instances of CookieStore: two names, a cookie for a domain and one for  *)
(* any host, and requests to that domain's host and to another.            *)
EXTENDS CookieStore, TLC

CONSTANTS r1, r2, o1, o2

MCUrl == r1 :> [host |-> "www.a", path |-> "/"] @@ r2 :> [host |-> "b", path |-> "/p"]

MCSetCookies ==
    { [name |-> "x", value |-> "1", domain |-> "a", path |-> None],
      [name |-> "x", value |-> "2", domain |-> None, path |-> "/p"],
      [name |-> "y", value |-> "1", domain |-> None, path |-> None] }

MCEndsWith == {<<"www.a", "a">>}
MCStartsWith == {<<"/p", "/p">>}

MCOverride == o1 :> [name |-> "x", value |-> "o"] @@ o2 :> [name |-> "y", value |-> "o"]
=============================================================================
