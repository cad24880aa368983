----------------------------- MODULE MCBands -----------------------------
(* Small instances of Bands: every side over a few prices and quantities,    *)
(* and every list of up to two thresholds of a feed.                         *)
EXTENDS Bands

CONSTANTS Price, Quantity, Target, Bps

MCSide(qty) ==
  LET prices == SetToSortSeq({p \in Price : qty[p] # 0}, <)
  IN  [n \in DOMAIN prices |-> [price |-> prices[n], qty |-> qty[prices[n]]]]

\* Bids and asks of the same levels: a crossed book is published as it is.
MCBookInput ==
  {[bids |-> Reverse(MCSide(qty)), asks |-> MCSide(qty)] : qty \in [Price -> Quantity \cup {0}]}

MCLists(S) == UNION {[1 .. n -> S] : n \in 0 .. 2}

MCRequestInput ==
  [volume : MCLists(Target), price : {None}]
    \cup [volume : {None}, price : MCLists(Bps)]
    \cup [volume : {<<>>}, price : {<<b>> : b \in Bps}]

MCNotional == <<2>>
MCBps == <<5>>
MCSymmetry == Permutations(Session)
==========================================================================
