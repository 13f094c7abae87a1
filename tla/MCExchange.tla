----------------------------- MODULE MCExchange -----------------------------
(* Devices, requests and values for TLC. *)
EXTENDS Exchange

Object(type, instance) == [type |-> type, instance |-> instance]
Uint(n) == GoNum("uint32", n)

(* A machine: a loopback, an IPv6 net, and the net of its IPv4 address; one *)
(* without an IPv4 address; one whose address is in two nets.              *)
Net(ip, ones) == [ip |-> ip, ones |-> ones]
Loopback == Net(<<127, 0, 0, 1>>, 8)
Ten(k, n) == <<10, 0, k, n>>
Six(n) == [k \in 1..16 |-> n]
Machine(nets, ip) == [nets |-> nets, ip |-> ip]
SomeMachines ==
  {Machine(<<Loopback, Net(Six(32), 64), Net(Ten(0, 5), 24)>>, Ten(0, 5)),
   Machine(<<Net(Six(32), 64), Net(Ten(0, 5), 20), Loopback>>, Ten(0, 200)),
   Machine(<<Net(Ten(0, 5), 29), Net(<<192, 168, 1, 1>>, 17)>>, Ten(0, 5)),
   Machine(<<Net(<<11, 0, 0, 1>>, 8), Net(Ten(3, 5), 22)>>, Ten(3, 5)),
   Machine(<<Net(Six(32), 64)>>, Six(32)),
   Machine(<<Net(Ten(0, 5), 8), Net(Ten(0, 5), 24)>>, Ten(0, 5))}

(* One device on the local network, two behind routers. *)
Dev(instance, route, ones, port) ==
  [iam |-> [object |-> Object(8, instance), maxApdu |-> 1476, segmentation |-> 3,
            vendor |-> 364],
   udp |-> [ip |-> Ten(0, 7), port |-> port],
   ones |-> ones,
   route |-> route]
SomeDevices ==
  {Dev(0, Local, 24, 47808), Dev(30185, [net |-> 5, adr |-> <<12>>], 20, 255),
   Dev(4194303, [net |-> 65534, adr |-> <<1, 0, 3>>], 22, 47809)}

Limits(low, high) == [low |-> low, high |-> high]
SomeRanges ==
  {Limits(NoLimit, NoLimit), Limits(0, 4194303), Limits(256, 65536),
   Limits(256, NoLimit), Limits(9, 8), Limits(0, 4194304)}

Request(service, object, property, index, type, value, priority) ==
  [service |-> service, object |-> object, property |-> property,
   index |-> index, value |-> [type |-> type, value |-> value],
   priority |-> priority]

(* The value and the priority of a read are not sent. *)
Reads ==
  {Request(ServiceConfirmedReadProperty, o, p, i, 1, GoNum("bool", 0), 0) :
     o \in {Object(0, 0), Object(4, 4194303)}, p \in {85, 512}, i \in {NoIndex, 0, 256}}

(* The values DeltaCallback makes, with the priority writeValue gives. *)
Written ==
  {<<1, GoNum("bool", 0)>>, <<1, GoNum("bool", 1)>>,
   <<4, GoNum("float32", 1090519040)>>, <<9, Uint(0)>>, <<9, Uint(65536)>>}
Writes ==
  {Request(ServiceConfirmedWriteProperty, Object(2, 300), 85, i, w[1], w[2], p) :
     w \in Written, i \in {NoIndex, 3}, p \in {0, 16}}
SomeRequests == Reads \union Writes

Refused == {Request(ServiceConfirmedWriteProperty, Object(2, 4194304), 85,
                    NoIndex, 1, GoNum("bool", 1), 16)}

Value(tag, value) == [tag |-> tag, value |-> value]
DecodedValues ==
  {Value(0, GoNil), Value(1, GoNum("bool", 0)), Value(1, GoNum("bool", 1)),
   Value(2, Uint(255)), Value(2, Uint(65536)), Value(4, GoNum("float32", 1090519040)),
   Value(7, GoString(<<>>)), Value(7, GoString(<<65, 66, 67, 68, 69>>)),
   Value(9, Uint(98)), Value(12, GoObject(Object(8, 7)))}

(* A signed number and a double. *)
OtherValues == {Value(3, GoNum("int32", 5)), Value(5, GoNum("float64", 5))}
SomeReads == {r \in Reads : r.property = 85 /\ r.index = NoIndex}
ReadsAndWrites == SomeReads \union {w \in Writes : w.priority = 16 /\ w.index = NoIndex}

RequestsWithRefused == SomeRequests \union Refused
=============================================================================
