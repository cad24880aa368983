---------------------------- MODULE MCIngress ----------------------------
(* Small instances of Ingress: a snapshot, a quote and a verdict.            *)
EXTENDS Ingress, TLC

CONSTANTS c1, c2, c3, c4, c5, v1, v2, v3, other

MCVenue == {v1, v2, v3}

\* A venue that reconnects, two others and a provider of one that nobody knows, ...
MCVenueOf == (c1 :> v1) @@ (c2 :> v1) @@ (c3 :> v2) @@ (c4 :> v3) @@ (c5 :> other)

\* ... or a provider and the process that replaces it.
MCRestarted == (c1 :> v1) @@ (c2 :> v1)

\* ... or one provider only.
MCAlone == (c1 :> v1)

MCUpdateInput ==
  {[kind |-> "update", instrument |-> Expected, isSnapshot |-> TRUE,
    levels |-> [l \in Level |-> 1]]}
MCQuoteInput ==
  {[kind |-> "quote", instrument |-> Expected,
    quote |-> [side \in Side |-> [price |-> 1, qty |-> 1]]]}
MCHealthInput == {[kind |-> "health", stream |-> "kBbo", health |-> "kLive"]}
==========================================================================
