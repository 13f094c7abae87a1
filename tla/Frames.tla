------------------------------- MODULE Frames -------------------------------
(***************************************************************************)
(* bacip/services.go and bacip/network_types.go: the payloads, and APDU,   *)
(* NPDU and BVLC around them, as operators on octets.  Marshal returns     *)
(* [bytes, err], Unmarshal a record of what it filled in, with err.        *)
(***************************************************************************)
EXTENDS Encoding, SequencesExt

NoLimit == -1
NoIndex == -1

Encoded(bytes) == [bytes |-> bytes, err |-> NoErr]
NotEncoded     == [bytes |-> <<>>, err |-> Failed]

-----------------------------------------------------------------------------
(* Services *)

(* As if high and low were swapped. *)
MarshalWhoIsSwapped(w) ==
  CASE w.low = NoLimit \/ w.high = NoLimit -> NewEncoder
    [] w.low # NoLimit /\ w.high # NoLimit ->
         IF w.low > MaxInstance \/ w.high > MaxInstance \/ w.low > w.high
         THEN NotEncoded
         ELSE ContextUnsigned(ContextUnsigned(NewEncoder, 0, w.high), 1, w.low)

(* A range with one limit only is sent as no range. *)
MarshalWhoIs(w) ==
  CASE w.low = NoLimit \/ w.high = NoLimit -> NewEncoder
    [] w.low # NoLimit /\ w.high # NoLimit ->
         IF w.low > MaxInstance \/ w.high > MaxInstance \/ w.low > w.high
         THEN NotEncoded
         ELSE ContextUnsigned(ContextUnsigned(NewEncoder, 0, w.low), 1, w.high)

UnmarshalWhoIs(data) ==
  LET low  == ContextValue(NewDecoder(data), 0)
      high == ContextValue(low.dec, 1)
  IN IF data = <<>> THEN [err |-> NoErr, low |-> NoLimit, high |-> NoLimit]
     ELSE [err |-> high.dec.err, low |-> low.val, high |-> high.val]

MarshalIam(iam) ==
  LET object       == EncodeAppData(NewEncoder, GoObject(iam.object))
      maxApdu      == EncodeAppData(object, GoNum("uint32", iam.maxApdu))
      segmentation == EncodeAppData(maxApdu, GoNum("SegmentationSupport", iam.segmentation))
  IN EncodeAppData(segmentation, GoNum("uint32", iam.vendor))

UnmarshalIam(data) ==
  LET object       == DecodeAppData(NewDecoder(data), "ObjectID")
      maxApdu      == DecodeAppData(object.dec, "uint32")
      segmentation == DecodeAppData(maxApdu.dec, "SegmentationSupport")
      vendor       == DecodeAppData(segmentation.dec, "uint32")
  IN [err |-> vendor.dec.err, object |-> object.val.obj, maxApdu |-> maxApdu.val.num,
      segmentation |-> segmentation.val.num, vendor |-> vendor.val.num]

MarshalReadProperty(rp) ==
  LET property == ContextUnsigned(ContextObjectID(NewEncoder, 0, rp.object),
                                  1, rp.property)
  IN IF rp.index = NoIndex THEN property ELSE ContextUnsigned(property, 2, rp.index)

(* As if a missing index stopped the decoder. *)
UnmarshalReadPropertyNoReset(data) ==
  LET object   == DecodeObjectID(NewDecoder(data), 0)
      property == ContextValue(object.dec, 1)
      index    == ContextValue(property.dec, 2)
      value    == DecodeAbstractType(index.dec, 3)
  IN [err |-> value.dec.err, object |-> object.val, property |-> property.val,
      index |-> index.val, data |-> value.val]

(* The index is optional.  The error that says it is not there may as well *)
(* come from one of the calls before: the others did nothing then.         *)
PropertyData(object, property, index, value) ==
  [err |-> value.dec.err, object |-> object, property |-> property,
   index |-> index, data |-> value.val]
BehindIndex(object, property, index) ==
  IF index.dec.err = IncorrectTag
  THEN PropertyData(object, property, NoIndex,
                    DecodeAbstractType(ResetError(index.dec), 3))
  ELSE PropertyData(object, property, index.val, DecodeAbstractType(index.dec, 3))
BehindProperty(object, property) ==
  BehindIndex(object, property.val, ContextValue(property.dec, 2))
BehindObject(object) == BehindProperty(object.val, ContextValue(object.dec, 1))
UnmarshalReadProperty(data) == BehindObject(DecodeObjectID(NewDecoder(data), 0))

MarshalWriteProperty(wp) ==
  LET value == ContextAbstractType(MarshalReadProperty(wp), 3, wp.value)
  IN IF ~AbstractTypeOK(wp.value) THEN NotEncoded
     ELSE IF wp.priority = 0 THEN value
     ELSE ContextUnsigned(value, 4, wp.priority)

UnmarshalApduError(data) ==
  LET class == DecodeAppData(NewDecoder(data), "ErrorClass")
      code  == DecodeAppData(class.dec, "ErrorCode")
  IN [err |-> code.dec.err, class |-> class.val.num, code |-> code.val.num]

-----------------------------------------------------------------------------
(* APDU *)

ConfirmedServiceRequest   == 0
UnconfirmedServiceRequest == 16
SimpleAck  == 32
ComplexAck == 48
ErrorPDU   == 80
Answers    == {SimpleAck, ComplexAck, ErrorPDU}

ServiceUnconfirmedIAm         == 0
ServiceUnconfirmedWhoIs       == 8
ServiceConfirmedReadProperty  == 12
ServiceConfirmedWriteProperty == 15

MarshalAPDU(apdu, payload) ==
  IF payload.err # NoErr THEN NotEncoded
  ELSE Encoded(<<apdu.type>>
               \o (IF apdu.type = ConfirmedServiceRequest
                   THEN <<5, apdu.invokeID>> ELSE <<>>)
               \o <<apdu.service>> \o payload.bytes)

Rest(b) == SubSeq(b.bytes, b.off + 1, Len(b.bytes))

(* A header h is read field by field, as long as all goes well; a field    *)
(* that is not there keeps its zero value.                                 *)
SetField(h, name, r) == [h EXCEPT ![name] = r.val, !.ok = r.ok, !.buf = r.buf]
Field(h, name, Present(_), Read(_)) ==
  IF h.ok /\ Present(h) THEN SetField(h, name, Read(h.buf)) ELSE h

Always(h)     == TRUE
ReadOctet(b)  == ReadUint(b, 1)
ReadUint16(b) == ReadUint(b, 2)

PayloadKind(type, service) ==
  CASE type = UnconfirmedServiceRequest /\ service = ServiceUnconfirmedWhoIs -> "WhoIs"
    [] type = UnconfirmedServiceRequest /\ service = ServiceUnconfirmedIAm -> "Iam"
    [] type = ComplexAck /\ service = ServiceConfirmedReadProperty -> "ReadProperty"
    [] type = ErrorPDU -> "ApduError"
    [] OTHER -> "DataPayload"

UnmarshalPayload(kind, data) ==
  CASE kind = "WhoIs" -> UnmarshalWhoIs(data)
    [] kind = "Iam" -> UnmarshalIam(data)
    [] kind = "ReadProperty" -> UnmarshalReadProperty(data)
    [] kind = "ApduError" -> UnmarshalApduError(data)
    [] kind = "DataPayload" -> [err |-> NoErr, bytes |-> data]

NoAPDUHeader == [type |-> 0, invokeID |-> 0, service |-> 0]
NoAPDU == [err |-> Failed, kind |-> "none", payload |-> <<>>, header |-> NoAPDUHeader]

IsAnswer(h) == h.type \in Answers

APDUHeader(data) ==
  LET start == [type |-> 0, invokeID |-> 0, service |-> 0, ok |-> TRUE,
                buf |-> NewBuffer(data)]
      type  == Field(start, "type", Always, ReadOctet)
      id    == Field(type, "invokeID", IsAnswer, ReadOctet)
  IN Field(id, "service", Always, ReadOctet)

APDUWith(h, kind, payload) ==
  [err |-> payload.err, kind |-> kind, payload |-> payload,
   header |-> [type |-> h.type, invokeID |-> h.invokeID, service |-> h.service]]

APDUBehind(h, kind) == APDUWith(h, kind, UnmarshalPayload(kind, Rest(h.buf)))

(* A header that breaks off leaves what was read of it. *)
APDUOf(h) ==
  IF h.ok THEN APDUBehind(h, PayloadKind(h.type, h.service))
  ELSE [NoAPDU EXCEPT !.header.type = h.type, !.header.invokeID = h.invokeID]

UnmarshalAPDU(data) == APDUOf(APDUHeader(data))

-----------------------------------------------------------------------------
(* NPDU.  An address is [net, adr]; net 0 is local, and never written. *)

Local == [net |-> 0, adr |-> <<>>]

Bit(octet, k) == (octet \div 2^k) % 2 = 1
SetBit(set, k) == IF set THEN 2^k ELSE 0

MarshalAddress(a) ==
  IF a.net = 0 THEN <<>>
  ELSE BigEndian(a.net, 2) \o <<Len(a.adr) % 256>> \o a.adr

MarshalNPDU(npdu, apdu) ==
  LET control == SetBit(npdu.network, 7) + SetBit(npdu.dest.net # 0, 5)
                 + SetBit(npdu.source.net # 0, 3) + SetBit(npdu.reply, 2)
                 + npdu.priority
  IN IF npdu.priority > 3 \/ apdu.err # NoErr THEN NotEncoded
     ELSE Encoded(<<1, control>>
                  \o MarshalAddress(npdu.dest) \o MarshalAddress(npdu.source)
                  \o (IF npdu.dest.net # 0 THEN <<npdu.hopCount>> ELSE <<>>)
                  \o (IF npdu.network THEN <<npdu.message>> ELSE <<>>)
                  \o (IF npdu.network /\ npdu.message >= 128
                      THEN BigEndian(npdu.vendor, 2) ELSE <<>>)
                  \o apdu.bytes)

AddressEnds(b, net, length) ==
  LET end == length.buf.off + length.val
      ok  == length.ok /\ end <= Len(b.bytes)
  IN [ok  |-> ok,
      val |-> [net |-> net, adr |-> IF ok THEN SubSeq(b.bytes, length.buf.off + 1, end)
                                          ELSE <<>>],
      buf |-> [length.buf EXCEPT !.off = IF ok THEN end ELSE Len(b.bytes)]]

UnmarshalAddress(b) ==
  LET net == ReadUint16(b)
  IN AddressEnds(b, net.val, ReadOctet(net.buf))

Understood(h)     == h.version = 1
HasDest(h)        == Bit(h.control, 5)
HasSource(h)      == Bit(h.control, 3)
IsNetwork(h)      == Bit(h.control, 7)
(* The vendor is written from message type 128, and read above it. *)
HasVendor(h)      == IsNetwork(h) /\ h.message > 128

NPDUZero(data) ==
  [version |-> 0, control |-> 0, dest |-> Local, source |-> Local, hopCount |-> 0,
   message |-> 0, vendor |-> 0, ok |-> TRUE, buf |-> NewBuffer(data)]

NPDUHeader(data) ==
  LET version == Field(NPDUZero(data), "version", Always, ReadOctet)
      control == Field(version, "control", Understood, ReadOctet)
      dest    == Field(control, "dest", HasDest, UnmarshalAddress)
      source  == Field(dest, "source", HasSource, UnmarshalAddress)
      hops    == Field(source, "hopCount", HasDest, ReadOctet)
      message == Field(hops, "message", IsNetwork, ReadOctet)
  IN Field(message, "vendor", HasVendor, ReadUint16)

NPDUWith(h, err, hasAPDU, apdu) ==
  [err |-> err, network |-> IsNetwork(h), reply |-> Bit(h.control, 2),
   priority |-> h.control % 4, dest |-> h.dest, source |-> h.source,
   hopCount |-> h.hopCount, message |-> h.message, vendor |-> h.vendor,
   hasAPDU |-> hasAPDU, apdu |-> apdu]

NPDUHolding(h, apdu) == NPDUWith(h, apdu.err, TRUE, apdu)

NPDUOf(h) ==
  IF ~h.ok \/ ~Understood(h) THEN NPDUWith(h, Failed, FALSE, NoAPDU)
  ELSE IF IsNetwork(h) THEN NPDUWith(h, NoErr, FALSE, NoAPDU)
  ELSE NPDUHolding(h, UnmarshalAPDU(Rest(h.buf)))

UnmarshalNPDU(data) == NPDUOf(NPDUHeader(data))

NoNPDU == NPDUWith(NPDUZero(<<>>), Failed, FALSE, NoAPDU)

-----------------------------------------------------------------------------
(* BVLC *)

TypeBacnetIP     == 129
BacFuncUnicast   == 10
BacFuncBroadcast == 11
NotBacnetIP      == "ErrNotBAcnetIP"

(* As if the length did not include the header. *)
MarshalBVLCBodyLength(function, npdu) ==
  IF npdu.err # NoErr THEN NotEncoded
  ELSE Encoded(<<TypeBacnetIP, function>>
               \o BigEndian(Len(npdu.bytes) % 65536, 2) \o npdu.bytes)

MarshalBVLC(function, npdu) ==
  IF npdu.err # NoErr THEN NotEncoded
  ELSE Encoded(<<TypeBacnetIP, function>>
               \o BigEndian((4 + Len(npdu.bytes)) % 65536, 2) \o npdu.bytes)

IsBacnetIP(h) == h.type = TypeBacnetIP

BVLCHeader(data) ==
  LET start == [type |-> 0, function |-> 0, length |-> 0, ok |-> TRUE,
                buf |-> NewBuffer(data)]
      type  == Field(start, "type", Always, ReadOctet)
      func  == Field(type, "function", IsBacnetIP, ReadOctet)
  IN Field(func, "length", IsBacnetIP, ReadUint16)

(* A datagram whose length is not the one it announces is not looked into. *)
FramedUnchecked(h) == h.ok /\ IsBacnetIP(h)
Framed(h) == h.ok /\ IsBacnetIP(h) /\ Len(h.buf.bytes) = h.length

BVLCWith(h, npdu) == [err |-> npdu.err, function |-> h.function, npdu |-> npdu]

BVLCOf(h) ==
  IF h.ok /\ ~IsBacnetIP(h)
  THEN [err |-> NotBacnetIP, function |-> 0, npdu |-> NoNPDU]
  ELSE IF ~Framed(h) THEN [err |-> Failed, function |-> 0, npdu |-> NoNPDU]
  ELSE BVLCWith(h, UnmarshalNPDU(Rest(h.buf)))

UnmarshalBVLC(data) == BVLCOf(BVLCHeader(data))

-----------------------------------------------------------------------------
(* bacnet.Address and UDP addresses [ip, port].  The socket is an IPv4 one, *)
(* so that an IP address has four octets.                                  *)

(* As if the port were written in the order of the machine. *)
AddressFromUDPLittleEndian(udp) == udp.ip \o Reverse(BigEndian(udp.port, 2))
AddressFromUDP(udp) == udp.ip \o BigEndian(udp.port, 2)
UDPFromAddress(mac) ==
  [ip |-> SubSeq(mac, 1, 4), port |-> FromBigEndian(SubSeq(mac, 5, 6))]
=============================================================================
