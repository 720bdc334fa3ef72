------------------------------ MODULE MCConnect ------------------------------
(* Instances of Connect: requests for two names, for an address, and the   *)
(* ways each part of a request can be wrong.                               *)
EXTENDS Connect

CONSTANTS a, b, d, e, r1, r2

Good(address) == [path |-> "endpoint", method |-> "GET", upgrade |-> TRUE,
                  addr |-> address, handshake |-> TRUE]
Named == Good(<< <<"dns", d>>, <<"tcp", 443>> >>)

(* One input for each way out of the handler.                              *)
MCInputs ==
    { Named, Good(<< <<"dns", e>>, <<"tcp", 443>> >>), Good(<< <<"ip4", a>>, <<"tcp", 443>> >>),
      Good(<< <<"dnsaddr", d>>, <<"tcp", 443>>, <<"ws", None>> >>),
      Good(<< <<"dns", d>> >>), Good(<< <<"dns", d>>, <<"udp", 443>> >>),
      Good(<< <<"unix", None>> >>), Good(<<>>), Good(Invalid),
      [Named EXCEPT !.path = "other"], [Named EXCEPT !.method = "PUT"],
      [Named EXCEPT !.upgrade = FALSE], [Named EXCEPT !.handshake = FALSE] }

MCAnswers == {<<>>, <<b, a>>}
=============================================================================
