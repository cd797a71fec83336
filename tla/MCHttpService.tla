--------------------------- MODULE MCHttpService ---------------------------
(* An instance of HttpService for TLC. *)
EXTENDS HttpService, TLC

CONSTANTS r1, r2

\* Any operation beside another request that is counted in every way: with no
\* status, by a panic, and with an answer that the client decodes or does not.
MCAsked == (r1 :> Op) @@ (r2 :> {"default", "panic", "read", "delete"})
=============================================================================
