---------------------------- MODULE MCHttpServer ----------------------------
(* HttpServer on a small instance: two addresses of different networks     *)
(* share a last octet, a third has its own.                                *)
EXTENDS HttpServer, TLC

CONSTANTS a1, a2, a3

MCAddr == {a1, a2, a3}

MCLastOctet == a1 :> 7 @@ a2 :> 7 @@ a3 :> 9

Symmetry == Permutations(Conn) \cup Permutations({a1, a2})

=============================================================================
