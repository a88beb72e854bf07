------------------------------ MODULE MCMonitor ------------------------------
(* What two servers measure: one reports no capacity at first, one no load.  *)
EXTENDS Monitor

CONSTANTS a, b

MCOrder == <<a, b>>

\* The browser's clock is behind the server's.
MCSkew == -1

MCInfo(s, t) ==
  [cpu |-> IF s = a THEN 100 ELSE IF t = 2 THEN None ELSE 10 * t,
   cpus |-> IF s = a THEN IF t = 2 THEN None ELSE 8 ELSE 2,
   used |-> IF s = a THEN 3 ELSE t, bytes |-> IF s = a THEN 4 ELSE 2,
   rx |-> t, tx |-> IF s = b THEN None ELSE t]
=============================================================================
