--------------------------- MODULE MCHttpExchange ---------------------------
(***************************************************************************)
(* Instances of HttpExchange for TLC, over those of Poller.                *)
(***************************************************************************)
EXTENDS HttpExchange, MCPoller
=============================================================================
