------------------------------ MODULE MCDriver ------------------------------
(* A template, its mappings and deltas for TLC. *)
EXTENDS Driver

Property(id, name, visitor, type, address, tag) ==
  [id |-> id, name |-> name, visitor |-> visitor, type |-> type,
   address |-> address, tag |-> tag]

(* "lost" collides with "fan", the type of "odd" cannot be encoded, "none" *)
(* has no visitor, the type of "mode" is cut.  Two points are called "far":*)
(* the address of the first cannot be encoded, the second one, once it is  *)
(* cut, is the object of "temp".                                           *)
SomeProperties ==
  <<Property("1", "temp", TRUE, 2, 0, 4), Property("2", "lost", TRUE, 5, 0, 1),
    Property("3", "fan", TRUE, 5, 0, 1), Property("4", "far", TRUE, 2, 2, 9),
    Property("5", "none", FALSE, 2, 1, 9), Property("6", "mode", TRUE, 30, 1, 9),
    Property("7", "odd", TRUE, 15, 0, 9), Property("8", "far", TRUE, 18, 8, 9)>>

Mapping(attribute, type, scale, params) ==
  [attribute |-> attribute, type |-> type, scale |-> scale, params |-> params]

SomeMappings ==
  <<Mapping("t", "calculate", 2, <<"1">>), Mapping("f", "value", 1, <<"3">>),
    Mapping("both", "calculate", 1, <<"1", "3">>),
    Mapping("both", "value", 1, <<"4">>), Mapping("f", "value", 1, <<"2">>),
    Mapping("far", "value", 1, <<"4">>), Mapping("x", "value", 1, <<"9">>),
    Mapping("m", "value", 1, <<"6">>), Mapping("c", "calculate", 1, <<"6">>),
    Mapping("v", "value", 1, <<"1">>), Mapping("odd", "value", 1, <<"7">>)>>

Number(kind, n) == [kind |-> kind, num |-> n]
Bool(n)  == Number("bool", n)
Float(n) == Number("float64", n)

(* Every kind of number on either side of every limit: 2 1/2 for an        *)
(* integer, a number between those of a float32, one too large for a       *)
(* uint32, a negative one; and values that are none.                       *)
SomeNumbers ==
  {Number("int", 4), Number("int16", -2), Number("int16", 6), Number("int32", 10),
   Number("int64", 16), Float(-5), Float(-2), Float(5), Float(10), Float(16), Float(40),
   Float(-36), Number("float32", 6), Bool(2), Number("string", 0)}
SomeDeltas ==
  [d1 |-> UNION {{[m |-> n], [c |-> n], [v |-> n]} : n \in SomeNumbers}
            \union {[m |-> Float(10), f |-> Bool(2)]},
   d2 |-> {[t |-> Float(4), f |-> Bool(2), x |-> Bool(2)],
           [t |-> Float(8), f |-> Float(2), both |-> Float(2)],
           [t |-> Float(4), far |-> Float(2)], [t |-> Float(4), odd |-> Float(2)]}]

(* What a point may have. *)
SomeReals == -5..16

(* Two points, and a property that collides with one of them; an attribute *)
(* without parameters.                                                     *)
FewProperties == SubSeq(SomeProperties, 1, 3)
FewMappings   == SubSeq(SomeMappings, 1, 3) \o <<Mapping("k", "value", 1, <<>>)>>
OneDelta      == [d1 |-> {[t |-> Float(4)]}]
=============================================================================
