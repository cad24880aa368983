------------------------------- MODULE Codec -------------------------------
(***************************************************************************)
(* wire_format.h and wire_codec.cpp: the frames between a provider and      *)
(* md_core.  A frame is the sequence of the structs copied into it, one     *)
(* element each, a price level being one too; a frame that ends inside a    *)
(* struct reads like one that ends before it.  Offsets count structs from   *)
(* 0, as those of the code count bytes.  The three timestamps travel the    *)
(* way seq does and are left out, and so is padding.                        *)
(***************************************************************************)
EXTENDS Integers, Sequences, SequencesExt

CONSTANTS
  NameCapacity,   \* kVenueNameCapacity
  Blank           \* a price level that resize made and nobody has written

kWireVersion == 1

WireMsgType == {"kHello", "kGoodbye", "kBboQuote", "kHealth", "kBookUpdate"}

\* The enumerations whose values travel as integers.
StreamKind == <<"kDepth", "kBbo">>
VenueHealth == <<"kNoData", "kLive", "kDisconnected", "kResyncing", "kStale">>
GoodbyeReason == <<"kShutdown", "kError">>
Code(enum, value) == SelectInSeq(enum, LAMBDA x : x = value) - 1
Value(enum, code) == enum[code + 1]

\* InstrumentKey: 24 bits of symbol, of which 16 are used, and 8 of market.
Byte == 16 * 16
Packed(key) == key.symbol * Byte + key.market
InstrumentKey(packed) == [symbol |-> (packed \div Byte) % (Byte * Byte), market |-> packed % Byte]

---------------------------------------------------------------------------
(* The messages.  A name that does not fit its field is not one of them:    *)
(* EncodeHello would cut it.                                                *)

Key == [symbol : 0 .. Byte * Byte - 1, market : 0 .. Byte - 1]
PriceLevel == [price : Nat, qty : Nat]

Hello == [instrument : Key, venueName : {name \in Seq(STRING) : Len(name) < NameCapacity}]
Goodbye == [reason : Range(GoodbyeReason)]
BookUpdate == [instrument : Key, seq : Int, prevSeq : Int, isSnapshot : BOOLEAN,
               bids : Seq(PriceLevel), asks : Seq(PriceLevel)]
BboQuote == [instrument : Key, seq : Int, bid : PriceLevel, ask : PriceLevel]
VenueHealthEvent == [stream : Range(StreamKind), health : Range(VenueHealth)]

OtherMessages ==
  [type : {"kHello"}, body : Hello] \cup [type : {"kGoodbye"}, body : Goodbye]
    \cup [type : {"kBboQuote"}, body : BboQuote] \cup [type : {"kHealth"}, body : VenueHealthEvent]
Messages == OtherMessages \cup [type : {"kBookUpdate"}, body : BookUpdate]

---------------------------------------------------------------------------
(* Reading: ReadPod and ReadBytes refuse to go past the end.                *)

Fits(buf, offset, count) == offset + count <= Len(buf)

DecodeHeader(buf) == Fits(buf, 0, 1)

\* The header is there and names the type, and the struct behind it is there.
HasPayload(buf, type) ==
  Fits(buf, 0, 1) /\ buf[1].msgType = type /\ Fits(buf, 1, 1)

WriteHeader(type) == <<[msgType |-> type, wireVersion |-> kWireVersion]>>

Refused(out) == [ok |-> FALSE, out |-> out]
Decoded(out) == [ok |-> TRUE, out |-> out]

---------------------------------------------------------------------------
(* kHello and kGoodbye.  A name too long for its field is cut.              *)

WireHelloPayload(hello) ==
  [instrument |-> Packed(hello.instrument),
   venueName |-> SubSeq(hello.venueName, 1, Min({Len(hello.venueName), NameCapacity - 1}))]

EncodeHello(hello) == Append(WriteHeader("kHello"), WireHelloPayload(hello))

DecodeHello(buf, out) ==
  IF ~HasPayload(buf, "kHello") THEN Refused(out)
  ELSE Decoded([instrument |-> InstrumentKey(buf[2].instrument), venueName |-> buf[2].venueName])

WireGoodbyePayload(goodbye) == [reason |-> Code(GoodbyeReason, goodbye.reason)]

EncodeGoodbye(goodbye) == Append(WriteHeader("kGoodbye"), WireGoodbyePayload(goodbye))

DecodeGoodbye(buf, out) ==
  IF ~HasPayload(buf, "kGoodbye") THEN Refused(out)
  ELSE Decoded([reason |-> Value(GoodbyeReason, buf[2].reason)])

---------------------------------------------------------------------------
(* kBookUpdate: a header struct with the two counts, the bids, the asks.    *)

WireBookUpdateHeader(update) ==
  [instrument |-> Packed(update.instrument), seq |-> update.seq, prevSeq |-> update.prevSeq,
   bidCount |-> Len(update.bids), askCount |-> Len(update.asks),
   isSnapshot |-> IF update.isSnapshot THEN 1 ELSE 0]

EncodeBookUpdate(update) ==
  Append(WriteHeader("kBookUpdate"), WireBookUpdateHeader(update)) \o update.bids \o update.asks

Blanks(count) == [n \in 1 .. count |-> Blank]

\* Mutant: the levels are read from one struct too far.
MutantReadLevels(buf, offset, count) ==
  SubSeq(buf, offset, offset + count - 1)

ReadLevels(buf, offset, count) == SubSeq(buf, offset + 1, offset + count)

\* Mutant: the counts of the header are not compared with what is there.
MutantTrustCounts(buf, out) ==
  IF ~HasPayload(buf, "kBookUpdate") THEN Refused(out)
  ELSE LET body == buf[2]
           Copy(offset, count) == [n \in 1 .. count |->
             IF Fits(buf, offset, n) THEN buf[offset + n] ELSE Blank]
       IN  Decoded([instrument |-> InstrumentKey(body.instrument), seq |-> body.seq,
                    prevSeq |-> body.prevSeq, isSnapshot |-> body.isSnapshot # 0,
                    bids |-> Copy(2, body.bidCount), asks |-> Copy(2 + body.bidCount, body.askCount)])

\* Into a BookUpdate that is reused: a refusal half way leaves it half written.
DecodeBookUpdate(buf, out) ==
  IF ~HasPayload(buf, "kBookUpdate") THEN Refused(out)
  ELSE LET body == buf[2]
           asksAt == 2 + body.bidCount
           With(bids, asks) ==
             [out EXCEPT !.instrument = InstrumentKey(body.instrument), !.seq = body.seq,
                         !.prevSeq = body.prevSeq, !.isSnapshot = body.isSnapshot # 0,
                         !.bids = bids, !.asks = asks]
       IN  CASE ~Fits(buf, 2, body.bidCount) -> Refused(With(Blanks(body.bidCount), <<>>))
             [] Fits(buf, 2, body.bidCount) /\ ~Fits(buf, asksAt, body.askCount) ->
                  Refused(With(ReadLevels(buf, 2, body.bidCount), Blanks(body.askCount)))
             [] OTHER ->
                  Decoded(With(ReadLevels(buf, 2, body.bidCount),
                               ReadLevels(buf, asksAt, body.askCount)))

---------------------------------------------------------------------------
(* kBboQuote and kHealth.  Neither names the venue, and kHealth names no    *)
(* instrument: the connection tells.                                        *)

WireBboQuotePayload(quote) ==
  [instrument |-> Packed(quote.instrument), seq |-> quote.seq,
   bidPrice |-> quote.bid.price, bidQty |-> quote.bid.qty,
   askPrice |-> quote.ask.price, askQty |-> quote.ask.qty]

EncodeBboQuote(quote) == Append(WriteHeader("kBboQuote"), WireBboQuotePayload(quote))

DecodeBboQuote(buf, out) ==
  IF ~HasPayload(buf, "kBboQuote") THEN Refused(out)
  ELSE Decoded([instrument |-> InstrumentKey(buf[2].instrument), seq |-> buf[2].seq,
                bid |-> [price |-> buf[2].bidPrice, qty |-> buf[2].bidQty],
                ask |-> [price |-> buf[2].askPrice, qty |-> buf[2].askQty]])

WireHealthPayload(event) ==
  [stream |-> Code(StreamKind, event.stream), health |-> Code(VenueHealth, event.health)]

EncodeHealth(event) == Append(WriteHeader("kHealth"), WireHealthPayload(event))

DecodeHealth(buf, out) ==
  IF ~HasPayload(buf, "kHealth") THEN Refused(out)
  ELSE Decoded([stream |-> Value(StreamKind, buf[2].stream),
                health |-> Value(VenueHealth, buf[2].health)])
============================================================================
