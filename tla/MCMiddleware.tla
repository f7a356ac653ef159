---------------------------- MODULE MCMiddleware ----------------------------
(* A reader whose operation may return awaitables and a writer that share  *)
(* a budget of two calls, and a reader that need not pay.                  *)
EXTENDS Middleware

CONSTANTS c1, c2, c3
=============================================================================
