---------------------------- MODULE MCHttpServer ----------------------------
(* Model values for the run of HttpServer. *)
EXTENDS HttpServer
=============================================================================
