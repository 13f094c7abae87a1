------------------------------ MODULE Exchange ------------------------------
(***************************************************************************)
(* One scan and one call over the wire, octet by octet: a new client's     *)
(* WhoIs finds a device, perhaps behind a router, and a ReadProperty or a  *)
(* WriteProperty is sent to where it was found and answered.  A datagram   *)
(* on its way to the client may be cut short.  Concurrency, loss and delay *)
(* are in module Client; here is what the octets do.                       *)
(*                                                                         *)
(* The device is external.  It reads and writes the standard's encoding,   *)
(* and uses the codec only to say what that is.                            *)
(***************************************************************************)
EXTENDS Frames, Interfaces

CONSTANTS Machines,   \* where the client may run: [nets, ip], nets a sequence
          Devices,    \* records [iam, udp, ones, route], route being an address
          Ranges,     \* WhoIs requests
          Requests,   \* records [service, object, property, index, value,
                      \*          priority], for ReadProperty or WriteProperty
          InvokeIDs,  \* the invoke IDs given to a call
          Values,     \* the values a device may have, as [tag, value]
          Errors      \* the Error APDUs of a device: "whole", or "short"

(* Addresses of machines and nets, and of devices: the octets of the MAC   *)
(* behind a router are counted by one octet.                               *)
IPAddresses == Seq(Octet)
Nets        == [ip : IPAddresses, ones : Nat]
IPv4        == {ip \in IPAddresses : IsIPv4(ip)}
Uint16      == {n \in Nat : n < 65536}
Remote      == [net : Uint16 \ {0}, adr : {adr \in Seq(Octet) : Len(adr) < 256}]
UDPAddresses == [ip : IPv4, port : Uint16]

ASSUME MachinesAssumption == Machines \subseteq [nets : Seq(Nets), ip : IPAddresses]

(* A device says what 32 bits can say of an object, in both directions.    *)
DeviceObjects == [type : 0..(MaxObjectType - 1), instance : 0..MaxInstance]
Announced ==
  [object : DeviceObjects, maxApdu : Uint32, segmentation : Octet, vendor : Uint32]

ASSUME DevicesAssumption ==
  Devices \subseteq [iam : Announced, udp : UDPAddresses, ones : Nat,
                      route : {Local} \union Remote]

ASSUME RangesAssumption ==
  Ranges \subseteq [low : Uint32 \union {NoLimit}, high : Uint32 \union {NoLimit}]

(* The types of a value to write that DeltaCallback makes.  An object ID   *)
(* that is not valid is refused, but for the type 1024, which loses its    *)
(* only bit.                                                               *)
Num(kind, range) == [kind : {kind}, num : range, str : {<<>>}, obj : {NoObject}]
PropertyValues ==
  [type : {1}, value : Num("bool", {0, 1})]
    \union [type : {4}, value : Num("float32", Uint32)]
    \union [type : {9}, value : Num("uint32", Uint32)]

ASSUME RequestsAssumption ==
  Requests \subseteq
    [service : {ServiceConfirmedReadProperty, ServiceConfirmedWriteProperty},
     object : [type : Uint32 \ {MaxObjectType}, instance : Uint32],
     property : Uint32, index : Uint32 \union {NoIndex}, value : PropertyValues,
     priority : Octet]

ASSUME InvokeIDsAssumption == InvokeIDs \subseteq Octet

(* Values that the client decodes, and two kinds that it does not.  No     *)
(* text is longer than an APDU over BACnet/IP can be.                      *)
MaxText == 1476
Text      == [kind : {"string"}, num : {0}, obj : {NoObject},
              str : {s \in Seq(Octet) : Len(s) <= MaxText}]
ObjectIDs == [kind : {"ObjectID"}, num : {0}, str : {<<>>}, obj : DeviceObjects]
Decoded ==
  [tag : {0}, value : {GoNil}] \union [tag : {1}, value : Num("bool", {0, 1})]
    \union [tag : {2, 9}, value : Num("uint32", Uint32)]
    \union [tag : {4}, value : Num("float32", Uint32)]
    \union [tag : {7}, value : Text]
    \union [tag : {12}, value : ObjectIDs]
NotDecoded ==
  [tag : {3}, value : Num("int32", Octet)]
    \union [tag : {5}, value : Num("float64", Uint32)]

ASSUME ValuesAssumption == Values \subseteq Decoded \union NotDecoded

(* An Error APDU is one of the standard, or ends behind its invoke ID.     *)
ASSUME ErrorsAssumption == Errors \subseteq {"whole", "short"}

VARIABLES pc,      \* how far the exchange is
          client,  \* the new client, as [nets, ip, broadcast], until it is heard
          device,  \* the device that is there
          wire,    \* the datagram on its way
          cut,     \* has it been cut short?
          asked,   \* what the client asked for, last
          heard,   \* what the device took that for
          answer,  \* the device's answer to the call
          peer,    \* the bacnet.Device the scan returned, as [iam, mac, route]
          outcome  \* what the call returned, as [err, value]

vars == <<pc, client, device, wire, cut, asked, heard, answer, peer, outcome>>

Nobody  == "nobody"
Nothing == [err |-> "nothing yet", value |-> GoNil]

Plain(dest, source, reply) ==
  [network |-> FALSE, reply |-> reply, priority |-> 0, dest |-> dest,
   source |-> source, hopCount |-> 255, message |-> 0, vendor |-> 0]

-----------------------------------------------------------------------------
(* The client sends.  The source of its requests has network number 0, and *)
(* is left out.                                                            *)

Everyone == [net |-> 65535, adr |-> <<>>]

WhoIsFrame(range) ==
  MarshalBVLC(BacFuncBroadcast,
    MarshalNPDU(Plain(Everyone, Local, FALSE),
      MarshalAPDU([type |-> UnconfirmedServiceRequest,
                   service |-> ServiceUnconfirmedWhoIs], MarshalWhoIs(range))))

RequestFrame(r, id, dest) ==
  MarshalBVLC(BacFuncUnicast,
    MarshalNPDU(Plain(dest, Local, TRUE),
      MarshalAPDU([type |-> ConfirmedServiceRequest, service |-> r.service,
                   invokeID |-> id],
                  IF r.service = ServiceConfirmedReadProperty
                  THEN MarshalReadProperty(r) ELSE MarshalWriteProperty(r))))

-----------------------------------------------------------------------------
(* The client receives: handleMessage gives up only if there is no APDU,   *)
(* or in a panic.  Any other error of UnmarshalBinary is not looked at.    *)

Dropped(b) == b.err \in {NotBacnetIP, Panics} \/ ~b.npdu.hasAPDU

InRange(range, instance) ==
  range.low = NoLimit \/ range.high = NoLimit
    \/ instance \in range.low..range.high

(* The devices that the loop of WhoIs makes of a datagram. *)
Found(range, b, from) ==
  LET apdu == b.npdu.apdu IN
  IF ~Dropped(b) /\ apdu.kind = "Iam" /\ InRange(range, apdu.payload.object.instance)
  THEN {[iam |-> apdu.payload, mac |-> AddressFromUDP(from),
         route |-> b.npdu.source]}
  ELSE {}

(* What a call returns for a datagram with its invoke ID.  An error whose  *)
(* header broke off has no payload to convert.                             *)
ErrorAnswer(apdu) ==
  [err |-> IF apdu.kind = "ApduError" THEN "ApduError" ELSE Panics, value |-> GoNil]

ReadAnswer(apdu) ==
  IF apdu.header.type = ErrorPDU THEN ErrorAnswer(apdu)
  ELSE IF apdu.kind = "ReadProperty"
       THEN [err |-> NoErr, value |-> apdu.payload.data]
  ELSE [err |-> "invalid answer", value |-> GoNil]

WriteAnswer(apdu) ==
  IF apdu.header.type = ErrorPDU THEN ErrorAnswer(apdu)
  ELSE IF apdu.header.type = SimpleAck
          /\ apdu.header.service = ServiceConfirmedWriteProperty
       THEN [err |-> NoErr, value |-> GoNil]
  ELSE [err |-> "invalid answer", value |-> GoNil]

-----------------------------------------------------------------------------
(* The device *)

Present(next, id) == next.ok /\ next.tag.context /\ next.tag.id = id

(* The parameters r of a request, read one by one; some are optional. *)
Taken(r, name, v) == [r EXCEPT ![name] = v.val, !.dec = v.dec]
IfPresent(r, name, id, Read(_, _)) ==
  IF Present(DecodeTag(r.dec.buf), id) THEN Taken(r, name, Read(r.dec, id)) ELSE r
ThenProperty(r) == Taken(r, "property", ContextValue(r.dec, 1))

Parameters(data) ==
  LET none  == [object |-> NoObject, property |-> 0, index |-> NoIndex,
                value |-> GoNil, priority |-> 0, dec |-> NewDecoder(data)]
      named == ThenProperty(Taken(none, "object", DecodeObjectID(none.dec, 0)))
      index == IfPresent(named, "index", 2, ContextValue)
      value == IfPresent(index, "value", 3, DecodeAbstractType)
  IN IfPresent(value, "priority", 4, ContextValue)

(* How the standard reads a confirmed request, behind its flags. *)
UnderstoodAs(npdu, octets, r) ==
  [invokeID |-> octets[1], service |-> octets[2], err |-> r.dec.err,
   object |-> r.object, property |-> r.property, index |-> r.index,
   value |-> r.value, priority |-> r.priority, rest |-> Rest(r.dec.buf),
   dest |-> npdu.dest, reply |-> npdu.reply]
Understand(npdu) ==
  LET octets == npdu.apdu.payload.bytes
  IN UnderstoodAs(npdu, octets, Parameters(SubSeq(octets, 3, Len(octets))))

(* Application data: tag 1 has its value in the tag, 3 one octet, 5 eight. *)
StandardValue(v) ==
  CASE v.tag = 1 -> EncodeTag(AppTag(1, v.value.num))
    [] v.tag = 3 -> EncodeTag(AppTag(3, 1)) \o BigEndian(v.value.num, 1)
    [] v.tag = 5 -> EncodeTag(AppTag(5, 8)) \o <<0, 0, 0, 0>>
                      \o BigEndian(v.value.num, 4)
    [] v.tag = 9 -> EncodeTag(AppTag(9, ValueLength(v.value.num)))
                      \o Unsigned(v.value.num)
    [] OTHER     -> EncodeAppData(NewEncoder, v.value).bytes

AckPayload(r, v) ==
  Write(MarshalReadProperty(r),
        EncodeTag(OpeningTag(3)) \o StandardValue(v) \o EncodeTag(ClosingTag(3)))

ErrorPayload == Encoded(EncodeTag(AppTag(9, 1)) \o <<2>> \o EncodeTag(AppTag(9, 1)) \o <<32>>)

(* A frame with an answer: the invoke ID comes first. *)
AnswerFrame(type, id, service, payload) ==
  MarshalBVLC(BacFuncUnicast,
    MarshalNPDU(Plain(Local, device.route, FALSE),
                Encoded(<<type, id, service>> \o payload.bytes)))

-----------------------------------------------------------------------------

Init ==
  /\ pc = "closed"
  /\ client = Nobody
  /\ device \in Devices
  /\ wire = [bytes |-> <<>>, udp |-> device.udp]
  /\ cut = FALSE
  /\ asked = Nobody /\ heard = Nobody /\ answer = Nobody /\ peer = Nobody
  /\ outcome = Nothing

Goto(from, to) == pc = from /\ pc' = to

Open(nets, new) ==
  /\ Goto("closed", "idle")
  /\ new.broadcast # NoAddress
  /\ client' = [nets |-> nets, ip |-> new.ip, broadcast |-> new.broadcast]
  /\ UNCHANGED <<device, wire, cut, asked, heard, answer, peer, outcome>>

(* As if WhoIs were sent to the port that the client listens on. *)
BroadcastToOwnPort == [ip |-> client.broadcast, port |-> 47809]
Broadcast          == [ip |-> client.broadcast, port |-> DefaultUDPPort]

SendWhoIs(range) ==
  /\ WhoIsFrame(range).err = NoErr
  /\ Goto("idle", "scanning")
  /\ wire' = [udp |-> Broadcast, bytes |-> WhoIsFrame(range).bytes]
  /\ asked' = range
  /\ UNCHANGED <<client, device, cut, heard, answer, peer, outcome>>

HearRange(apdu) ==
  /\ apdu.kind = "WhoIs"
  /\ heard' = [low |-> apdu.payload.low, high |-> apdu.payload.high]

(* A device hears what is sent to all hosts of its own net, at the port of *)
(* the standard.                                                           *)
Subnet == [ip |-> device.udp.ip, ones |-> device.ones]
Hears(udp) ==
  /\ udp.port = 47808
  /\ InNet(Subnet, udp.ip)
  /\ \A k \in DOMAIN udp.ip : (udp.ip[k] + 1) % Hosts(Subnet, k) = 0

HearWhoIs ==
  /\ Goto("scanning", "scanned")
  /\ Hears(wire.udp)
  /\ HearRange(UnmarshalBVLC(wire.bytes).npdu.apdu)
  /\ client' = Nobody
  /\ UNCHANGED <<device, wire, cut, asked, answer, peer, outcome>>

Announce ==
  /\ Goto("scanned", "announced")
  /\ InRange(heard, device.iam.object.instance)
  /\ wire' = [udp |-> device.udp, bytes |->
       MarshalBVLC(BacFuncBroadcast,
         MarshalNPDU(Plain(Everyone, device.route, FALSE),
           MarshalAPDU([type |-> UnconfirmedServiceRequest,
                        service |-> ServiceUnconfirmedIAm],
                       MarshalIam(device.iam)))).bytes]
  /\ UNCHANGED <<client, device, cut, asked, heard, answer, peer, outcome>>

Return(found) ==
  \/ found = {} /\ peer' = Nobody /\ pc' = "nobody found"
  \/ peer' \in found /\ pc' = "found"

Collect ==
  /\ pc = "announced"
  /\ Return(Found(asked, UnmarshalBVLC(wire.bytes), wire.udp))
  /\ UNCHANGED <<client, device, wire, cut, asked, heard, answer, outcome>>

Call(r, id) ==
  /\ RequestFrame(r, id, peer.route).err = NoErr
  /\ wire' = [udp |-> UDPFromAddress(peer.mac),
              bytes |-> RequestFrame(r, id, peer.route).bytes]
  /\ asked' = r
  /\ answer' = [invokeID |-> id]
  /\ UNCHANGED <<client, device, cut, heard, peer, outcome>>

HearCall ==
  /\ Goto("called", "heard")
  /\ heard' = Understand(UnmarshalBVLC(wire.bytes).npdu)
  /\ UNCHANGED <<client, device, wire, cut, asked, answer, peer, outcome>>

Reply(a, type, payload) ==
  /\ Goto("heard", "answered")
  /\ answer' = a
  /\ wire' = [udp |-> device.udp,
              bytes |-> AnswerFrame(type, heard.invokeID, heard.service, payload).bytes]
  /\ UNCHANGED <<client, device, cut, asked, heard, peer, outcome>>

AcknowledgeRead(v) ==
  /\ pc = "heard" /\ heard.service = ServiceConfirmedReadProperty
  /\ Reply([err |-> NoErr, value |-> v.value], ComplexAck, AckPayload(heard, v))

AcknowledgeWrite ==
  /\ pc = "heard" /\ heard.service = ServiceConfirmedWriteProperty
  /\ Reply([err |-> NoErr, value |-> GoNil], SimpleAck, Encoded(<<>>))

(* Answers that the client does not know: a Reject, an Abort, an            *)
(* acknowledgement of a segment, a first segment.  They count as none.     *)
UnknownAnswers(id) ==
  {<<96, id, 9>>, <<113, id, 4>>, <<64, id, 0, 1>>, <<60, id, 0, 4, heard.service, 9>>}

(* Acknowledgements of another kind of request. *)
MisplacedAnswers(id) ==
  IF heard.service = ServiceConfirmedReadProperty
  THEN {<<SimpleAck, id, heard.service>>, <<ComplexAck, id, ServiceConfirmedWriteProperty>>}
  ELSE {<<SimpleAck, id, ServiceConfirmedReadProperty>>, <<ComplexAck, id, heard.service>>}

(* Network layer messages, of the standard and of vendors. *)
NetworkMessages == {0, 127, 128, 129, 255}
NetworkMessage(type) == [Plain(Local, device.route, FALSE) EXCEPT
                           !.network = TRUE, !.message = type, !.vendor = 364]

(* Something else comes instead of an acknowledgement: b, in the NPDU npdu. *)
Stray(a, npdu, b) ==
  /\ Goto("heard", "answered")
  /\ answer' = a
  /\ wire' = [udp |-> device.udp,
              bytes |-> MarshalBVLC(BacFuncUnicast, MarshalNPDU(npdu, Encoded(b))).bytes]
  /\ UNCHANGED <<client, device, cut, asked, heard, peer, outcome>>

ErrorAPDU(e) ==
  IF e = "whole"
  THEN <<ErrorPDU, heard.invokeID, heard.service>> \o ErrorPayload.bytes
  ELSE <<ErrorPDU, heard.invokeID>>

Refuse(e) == Stray([err |-> "ApduError", value |-> GoNil],
                   Plain(Local, device.route, FALSE), ErrorAPDU(e))

AnswerStrangely ==
  LET plain == Plain(Local, device.route, FALSE) IN
  /\ pc = "heard"
  /\ \/ \E b \in UnknownAnswers(heard.invokeID) : Stray(Nothing, plain, b)
     \/ \E b \in MisplacedAnswers(heard.invokeID) :
          Stray([err |-> "invalid answer", value |-> GoNil], plain, b)
     \/ \E m \in NetworkMessages :
          Stray(Nothing, NetworkMessage(m), <<ComplexAck, heard.invokeID, heard.service>>)

(* The network, or a datagram larger than the buffer of listen. *)
CutShort ==
  /\ pc \in {"announced", "answered"} /\ ~cut
  /\ cut' = TRUE
  /\ \E n \in 0..(Len(wire.bytes) - 1) :
       wire' = [wire EXCEPT !.bytes = SubSeq(@, 1, n)]
  /\ UNCHANGED <<pc, client, device, asked, heard, answer, peer, outcome>>

Outcome(b) ==
  IF Dropped(b) \/ ~IsAnswer(b.npdu.apdu.header)
     \/ b.npdu.apdu.header.invokeID # heard.invokeID THEN Nothing
  ELSE IF asked.service = ServiceConfirmedReadProperty
       THEN ReadAnswer(b.npdu.apdu) ELSE WriteAnswer(b.npdu.apdu)

Receive ==
  /\ Goto("answered", "returned")
  /\ outcome' = Outcome(UnmarshalBVLC(wire.bytes))
  /\ UNCHANGED <<client, device, wire, cut, asked, heard, answer, peer>>

Next ==
  \/ \E m \in Machines : Open(m.nets, NewClientByIp(m.nets, m.ip))
                       \/ Open(m.nets, NewClient(m.nets))
  \/ \E range \in Ranges : SendWhoIs(range)
  \/ HearWhoIs
  \/ Announce
  \/ Collect
  \/ \E r \in Requests, id \in InvokeIDs : Goto("found", "called") /\ Call(r, id)
  \/ HearCall
  \/ \E v \in Values : AcknowledgeRead(v)
  \/ AcknowledgeWrite
  \/ \E e \in Errors : Refuse(e)
  \/ AnswerStrangely
  \/ CutShort
  \/ Receive

Spec == Init /\ [][Next]_vars

-----------------------------------------------------------------------------
(* Properties *)

(* What is on the wire are octets, in a frame that says its own length.    *)
ExchangeTypeOK ==
  /\ wire.bytes \in Seq(Octet)
  /\ pc \notin {"closed", "idle"} /\ ~cut =>
       Len(wire.bytes) = FromBigEndian(SubSeq(wire.bytes, 3, 4))

(* A scan finds the device that announces itself, as it announces itself,  *)
(* and does so only if the announcement arrived whole (client.go:260, and  *)
(* the length test at network_types.go:411).                               *)
ScanExact ==
  /\ pc = "nobody found" => cut
  /\ pc = "found" =>
       /\ ~cut
       /\ peer.iam.object = device.iam.object
       /\ peer.iam.maxApdu = device.iam.maxApdu
       /\ peer.iam.segmentation = device.iam.segmentation
       /\ peer.iam.vendor = device.iam.vendor

(* A WhoIs reaches the devices in the net of the client's address, whatever *)
(* its prefix and whatever other nets the machine has (client.go:49, 117    *)
(* and 419), unless another net of the machine has the address as well.    *)
WhoIsReachesNeighbours ==
  pc = "scanning"
    /\ (\A i \in DOMAIN client.nets : InNet(client.nets[i], client.ip) =>
          client.nets[i].ones = device.ones /\ InNet(Subnet, client.ip))
  => Hears(wire.udp)

(* The range a WhoIs asks for is the one the devices see; half a range is  *)
(* none (services.go:15).                                                  *)
RangeHeard ==
  pc = "scanned" =>
    heard = IF NoLimit \in {asked.low, asked.high}
            THEN [low |-> NoLimit, high |-> NoLimit] ELSE asked

(* A request goes to the address the announcement came from, names the     *)
(* network behind it, and says there what the caller asked for: no field   *)
(* of it is lost or taken for its neighbour, present or not (network_      *)
(* types.go:43, services.go:76 and 113, types.go:133).                     *)
RequestReachesDevice ==
  pc = "heard" =>
    /\ wire.udp = device.udp /\ heard.dest = device.route /\ heard.reply
    /\ heard.err = NoErr /\ heard.rest = <<>>
    /\ heard.invokeID = answer.invokeID /\ heard.service = asked.service
    /\ heard.object = asked.object /\ heard.property = asked.property
    /\ heard.index = asked.index
    /\ heard.service = ServiceConfirmedWriteProperty =>
         heard.value = asked.value.value /\ heard.priority = asked.priority

(* A call returns what the device answered; an answer cut short, wherever, *)
(* is as good as none, although the errors of UnmarshalBinary are mostly   *)
(* not looked at, and so is one that the client does not know, although    *)
(* its invoke ID reads as 0 (client.go:171 and 185, network_types.go:301   *)
(* and 411).                                                               *)
AnswerReturned ==
  pc = "returned" => outcome = IF cut THEN Nothing ELSE answer

(* What a call returns without an error is the device's value: "ensure     *)
(* response validity" (client.go:331).                                     *)
ValidAnswers ==
  pc = "returned" /\ outcome.err = NoErr => outcome.value = answer.value

(* A call returns, with an error or without: "ensure conversion cannot     *)
(* panic" (client.go:331 and 376).                                         *)
AnswersDoNotPanic == pc = "returned" => outcome.err # Panics

=============================================================================
