------------------------------ MODULE MCLink ------------------------------
(* A small instance of Link.                                                *)
EXTENDS Link

\* A stream that opens with a snapshot needs fewer updates to get anywhere, and only
\* one of the two processes ends.
Small == (opened => now < MaxUpdates) /\ exits + coreRestarts <= 1
===========================================================================
