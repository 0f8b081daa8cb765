---------------------------- MODULE MCHttpServer ----------------------------
(* HttpServer for model checking.                                          *)
EXTENDS HttpServer

CONSTANTS c1, c2

OneClient == {c1}
TwoClients == {c1, c2}
=============================================================================
