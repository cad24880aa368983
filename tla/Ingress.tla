----------------------------- MODULE Ingress -----------------------------
(***************************************************************************)
(* md_core as its providers see it: the ROUTER socket, the ingress thread  *)
(* that binds a connection to a venue slot at its kHello and hands every   *)
(* later frame to Core, and Core itself.                                   *)
(*                                                                         *)
(* ZeroMQ is external.  From how the code uses it: every connection has an *)
(* identity of its own; its frames arrive in the order they were sent and  *)
(* its disconnect notification after them, frames being lost when the      *)
(* sender's queue is full or the connection ends; frames of different      *)
(* connections arrive in any order.  So a frame is chosen when it is       *)
(* received, and a connection is over once its notification is.            *)
(***************************************************************************)
EXTENDS Core, FiniteSets

CONSTANTS
  Connection,   \* the identities the ROUTER hands out, one per connection
  Venue,        \* the venue names that VenueConverter knows
  VenueOf,      \* the name each connection announces
  Expected,     \* expected_instrument_
  MaxFrames,    \* bound: frames the ROUTER receives
  None          \* no slot, no connection

ASSUME IngressAssumption ==
  /\ DOMAIN VenueOf = Connection
  /\ Expected \in Instrument
  /\ MaxFrames \in Nat
  /\ None \notin Slot \cup Connection

VARIABLES
  link,             \* how far a connection is
  frames,           \* frames received so far
  registry,         \* venue_registry_: the slot of every name seen
  identityToSlot,   \* identity_to_slot_
  greeting          \* the connection whose kHello is half handled

coreVars == <<activeVenues, depthVars, bboVars>>
bindVars == <<registry, identityToSlot, greeting>>
ingressVars == <<vars, link, frames, bindVars>>

IngressTypeOK ==
  /\ TypeOK
  /\ link \in [Connection -> {"new", "open", "gone"}]
  /\ frames \in 0 .. MaxFrames
  /\ registry \in [Venue -> Slot \cup {None}]
  /\ identityToSlot \in [Connection -> Slot \cup {None}]
  /\ greeting \in Connection \cup {None}

IngressInit ==
  /\ Init
  /\ link = [c \in Connection |-> "new"]
  /\ frames = 0
  /\ registry = [v \in Venue |-> None]
  /\ identityToSlot = [c \in Connection |-> None]
  /\ greeting = None

\* Run: the frame at the front of the ROUTER is one of connection c.
Receive(c, state) ==
  /\ greeting = None
  /\ link[c] # "gone"
  /\ frames < MaxFrames
  /\ link' = [link EXCEPT ![c] = state]
  /\ frames' = frames + 1

--------------------------------------------------------------------------
(* kHello: a provider process sends it once, before anything else.          *)

RefuseHello(c, instrument) ==
  /\ link[c] = "new"
  /\ Receive(c, "open")
  /\ \/ instrument # Expected
     \/ VenueOf[c] \notin Venue
     \/ VenueOf[c] \in Venue /\ registry[VenueOf[c]] = None /\ venueCount = MaxVenues
  /\ UNCHANGED <<vars, bindVars>>

\* Mutant: a new name takes the slot after the active ones, as if removal had
\* made the list of slots shorter.
MutantCompactSlots(c, instrument) ==
  LET name == VenueOf[c]
  IN  /\ link[c] = "new"
      /\ Receive(c, "open")
      /\ instrument = Expected
      /\ name \in Venue
      /\ \/ /\ registry[name] = None
            /\ RegisterVenueName
            /\ registry' = [registry EXCEPT ![name] = Cardinality(activeVenues)]
         \/ registry[name] # None /\ UNCHANGED <<vars, registry>>
      /\ identityToSlot' = [identityToSlot EXCEPT ![c] = registry'[name]]
      /\ greeting' = c

\* Mutant: the slot is bound before the registry has published it.
MutantBindFirst(c, instrument) ==
  LET name == VenueOf[c]
  IN  /\ link[c] = "new"
      /\ Receive(c, "open")
      /\ instrument = Expected
      /\ name \in Venue
      /\ registry[name] = None => venueCount < MaxVenues
      /\ registry' = [registry EXCEPT ![name] = IF @ = None THEN venueCount ELSE @]
      /\ identityToSlot' = [identityToSlot EXCEPT ![c] = registry'[name]]
      /\ greeting' = c
      /\ UNCHANGED vars

\* Mutant: a known name has its slot already, so Core is told nothing.
MutantRegisterOnce(c, instrument) ==
  LET name == VenueOf[c]
  IN  /\ link[c] = "new"
      /\ Receive(c, "open")
      /\ instrument = Expected
      /\ name \in Venue
      /\ \/ /\ registry[name] = None
            /\ RegisterVenueName
            /\ registry' = [registry EXCEPT ![name] = venueCount]
            /\ greeting' = c
         \/ /\ registry[name] # None
            /\ UNCHANGED <<vars, registry, greeting>>
      /\ identityToSlot' = [identityToSlot EXCEPT ![c] = registry'[name]]

\* RegisterVenueName: a new name takes the next slot, a known one gets its own
\* back.  The identity is bound to it.
AcceptHello(c, instrument) ==
  LET name == VenueOf[c]
  IN  /\ link[c] = "new"
      /\ Receive(c, "open")
      /\ instrument = Expected
      /\ name \in Venue
      /\ \/ /\ registry[name] = None
            /\ RegisterVenueName
            /\ registry' = [registry EXCEPT ![name] = venueCount]
         \/ registry[name] # None /\ UNCHANGED <<vars, registry>>
      /\ identityToSlot' = [identityToSlot EXCEPT ![c] = registry'[name]]
      /\ greeting' = c

\* ... and then EnqueueRegistration, which nobody repeats if it fails.
FinishHello ==
  /\ greeting # None
  /\ EnqueueRegistration(identityToSlot[greeting])
  /\ greeting' = None
  /\ UNCHANGED <<drainVars, coreVars, link, frames, registry, identityToSlot>>

--------------------------------------------------------------------------
(* Data, and the end of a connection.                                       *)

\* Data on a connection that no kHello has bound: it was refused, or it is
\* a socket that reconnected by itself and does not introduce itself again.
DropEarly(c) ==
  /\ Receive(c, "open")
  /\ identityToSlot[c] = None
  /\ UNCHANGED <<vars, bindVars>>

\* Data is attributed to the slot of the connection it came on.
HandleData(c) ==
  LET slot == identityToSlot[c]
  IN  /\ Receive(c, "open")
      /\ slot # None
      /\ \/ \E update \in UpdateInput : EnqueueUpdate(slot, update)
         \/ \E quote \in QuoteInput : EnqueueQuote(slot, quote)
         \/ \E event \in HealthInput : EnqueueHealth(slot, event)
      /\ UNCHANGED <<drainVars, coreVars, bindVars>>

\* Only logged: the notification that follows is what removes the venue.
HandleGoodbye(c) ==
  /\ Receive(c, "open")
  /\ UNCHANGED <<vars, bindVars>>

HandleNotify(c) ==
  /\ Receive(c, "gone")
  /\ identityToSlot' = [identityToSlot EXCEPT ![c] = None]
  /\ IF identityToSlot[c] = None
     THEN UNCHANGED queueVars
     ELSE EnqueueDisconnect(identityToSlot[c])
  /\ UNCHANGED <<drainVars, coreVars, registry, greeting>>

Handle(c) ==
  \/ \E instrument \in Instrument \cup {Foreign} :
       RefuseHello(c, instrument) \/ AcceptHello(c, instrument)
  \/ DropEarly(c)
  \/ HandleData(c)
  \/ HandleGoodbye(c)
  \/ HandleNotify(c)

Consolidate == Drain /\ UNCHANGED <<link, frames, bindVars>>

IngressNext ==
  \/ \E c \in Connection : Handle(c)
  \/ FinishHello
  \/ Consolidate

IngressSpec == IngressInit /\ [][IngressNext]_ingressVars

(* The environment in which connections and Core can be expected to agree.  *)
(* A provider may come and go and come back as often as it likes, and full  *)
(* queues may swallow data.  Only what nobody repairs is excluded: that a   *)
(* successor's kHello overtakes the notification of its predecessor, and    *)
(* that the one registration or disconnect of a connection is refused.      *)

\* No two connections are bound to one slot at a time.
Alone ==
  \A c, d \in Connection :
    identityToSlot[c] # None /\ identityToSlot[c] = identityToSlot[d] => c = d

Told == queues' # queues

Orderly ==
  /\ Alone'
  /\ greeting # None /\ greeting' = None => Told
  /\ \A c \in Connection : identityToSlot[c] # None /\ identityToSlot'[c] = None => Told

OrderlySpec == IngressInit /\ [][IngressNext /\ Orderly]_ingressVars

--------------------------------------------------------------------------
(* Properties.                                                              *)

\* The composition is Core in one of the environments Core allows, so that all
\* that is shown of Core holds here: the ingress thread never hands a message
\* to a slot that the registry has not issued (HandlePayload, HandleNotify).
CoreSpec == Spec

\* Two names never share a slot and every slot handed out has a name: a venue's
\* liquidity is never published under another's (VenueRegistry::Register).
SlotsAreDistinct ==
  /\ \A v, w \in Venue : v # w /\ registry[v] # None => registry[v] # registry[w]
  /\ {registry[v] : v \in Venue} \ {None} = 0 .. venueCount - 1

\* Accept is registration and disconnect is removal, however often a venue goes
\* and comes back on a connection of its own: once a slot's queue has been
\* drained, its venue is active exactly if a connection is bound to it
\* (EnqueueRegistration and EnqueueDisconnect, applied by the consolidator,
\* which may be several connections behind).  OrderlySpec only.
BoundIffActive ==
  \A s \in Slot :
    queues[s] = <<>> /\ greeting = None =>
      (s \in activeVenues <=> \E c \in Connection : identityToSlot[c] = s)

\* A slot whose venue is gone holds nothing of it, neither a quote nor a verdict
\* that a rescan or a rebuild, or the venue's own next connection, could take
\* up: what RemoveVenue clears stays clear until the venue is registered again,
\* although ProcessQuote and ProcessHealth store what comes for any slot.
\* OrderlySpec only.
NothingOfTheGone ==
  \A s \in Slot \ activeVenues :
    /\ depthHealth[s] = "kNoData" /\ bboHealth[s] = "kNoData"
    /\ \A i \in Instrument : venueQuotes[i][s] = EmptyQuote
==========================================================================
