----------------------------- MODULE MCDepth -----------------------------
(* A small instance of Depth: three prices of one venue, two of another.     *)
EXTENDS Depth

MCPricesOf == [s \in Slot |-> IF s = 0 THEN {1, 2, 3} ELSE {2, 3}]

MCKey == [symbol |-> 2, market |-> 1]
MCLevel == Level(9, 9)

\* Empty, as an update that was moved into the queue leaves it, or full.
MCLeftover ==
  {[instrument |-> MCKey, seq |-> 0, prevSeq |-> 0, isSnapshot |-> TRUE, bids |-> levels, asks |-> levels] :
     levels \in {<<>>, <<MCLevel, MCLevel>>}}

MCOtherMessage ==
  {[type |-> "kHello", body |-> [instrument |-> MCKey, venueName |-> name]] : name \in {<<"B">>, <<"O", "K">>}}
    \cup {[type |-> "kGoodbye", body |-> [reason |-> GoodbyeReason[n]]] : n \in DOMAIN GoodbyeReason}
    \cup {[type |-> "kBboQuote", body |-> [instrument |-> MCKey, seq |-> 5, bid |-> Level(1, 2), ask |-> Level(3, 4)]]}
    \cup {[type |-> "kHealth", body |-> [stream |-> StreamKind[n], health |-> VenueHealth[m]]] :
            n \in DOMAIN StreamKind, m \in DOMAIN VenueHealth}
==========================================================================
