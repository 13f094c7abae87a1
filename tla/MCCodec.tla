------------------------------ MODULE MCCodec -------------------------------
(* Items at the limits of every length, for TLC. *)
EXTENDS Codec

Item(method, id, type, value, target) ==
  [method |-> method, id |-> id, type |-> type, value |-> value, target |-> target]

Uint(n) == GoNum("uint32", n)
Text(length) == GoString([i \in 1..length |-> 65])
Object(type, instance) == GoObject([type |-> type, instance |-> instance])

Limits == {0, 255, 256, 65535, 65536, 16777215, 16777216}

CtxUnsigned(ids, values) ==
  {Item("ContextUnsigned", id, 0, Uint(n), "uint32") : id \in ids, n \in values}
CtxObject(ids, objects) ==
  {Item("ContextObjectID", id, 0, o, "ObjectID") : id \in ids, o \in objects}
App(value, targets) == {Item("AppData", 0, 0, value, t) : t \in targets}
Property(type, value) == Item("ContextAbstractType", 3, type, value, "any")

Objects == {Object(0, 0), Object(8, 4194303), Object(511, 1)}
Properties ==
  {Property(1, GoNum("bool", b)) : b \in {0, 1}}
    \union {Property(4, GoNum("float32", 1090519040))}
    \union {Property(9, Uint(n)) : n \in {0, 256}}

AppItems ==
  UNION {App(Uint(n), {"uint32", "any"}) : n \in {0, 1476, 65536}}
    \union UNION {App(o, {"ObjectID", "any"}) : o \in Objects}
    \union App(GoNum("SegmentationSupport", 3), {"SegmentationSupport", "any"})
    \union App(GoNum("float32", 1090519040), {"float32", "any"})
    \union App(GoNil, {"any"})

LongAndShort ==
  CtxUnsigned({0, 14, 15}, Limits) \union CtxObject({0, 20}, Objects)
    \union AppItems \union Properties
    \union UNION {App(Text(n), {"string"}) : n \in {0, 3, 4, 252, 253}}
=============================================================================
