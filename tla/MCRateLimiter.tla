--------------------------- MODULE MCRateLimiter ---------------------------
(* RateLimiter on a clock of a few dozen instants: an Interval of three units *)
(* lets an instant fall strictly inside an interval, and a callback may run   *)
(* one unit late.                                                             *)
EXTENDS RateLimiter
=============================================================================
