------------------------------- MODULE GValue -------------------------------
(***************************************************************************)
(* Values on their way between Go and GLib (go-glib/glib/gvalue.go, the    *)
(* property functions of gobject.go, and Element.Build).  A Go value is    *)
(* its dynamic type and a number, which stands for its content; a GValue   *)
(* is a GType and what it holds.  The widths of the integers are           *)
(* parameters: a Go int is wider than the gint it is stored in.            *)
(***************************************************************************)
EXTENDS Integers

CONSTANTS
  CBits,    \* bits of a gint and a guint (32)
  WideBits  \* bits of int, uint, gint64 and guint64 (64)

ASSUME WidthAssumption == CBits \in Nat \ {0} /\ WideBits \in Nat /\ CBits < WideBits

Error == [go |-> "error", n |-> 0]
Go(type, n) == [go |-> type, n |-> n]

Unsigned(n, bits) == n % 2^bits
Signed(n, bits) == ((n + 2^(bits - 1)) % 2^bits) - 2^(bits - 1)

\* The type switch of gValue, and the kinds its default looks at: defined types
\* have the name of their kind with a prefix.  Any other type is refused.
TypeSwitch ==
  [nil |-> "pointer", bool |-> "boolean", int8 |-> "char", int64 |-> "int64",
   int |-> "int", uint8 |-> "uchar", uint64 |-> "uint64", uint |-> "uint",
   float32 |-> "float", float64 |-> "double", string |-> "string",
   object |-> "object", param |-> "param", my_int8 |-> "char",
   my_int64 |-> "int64", my_int |-> "int", uintptr |-> "pointer", ptr |-> "pointer"]

\* The C type a Set function casts to, by what it keeps of the number.
SetNumber(t, n) ==
  CASE t \in {"int", "enum"} -> Signed(n, CBits)
    [] t \in {"uint", "flags"} -> Unsigned(n, CBits)
    [] t = "param" -> 0     \* gValue never calls SetParam
    [] OTHER -> n

\* gValue.  A ValueTransformer says its own type: GstCaps is the one in use.
ToGValue(v) ==
  CASE v.go = "caps" -> [type |-> "GstCaps", n |-> v.n]
    [] v.go \in DOMAIN TypeSwitch ->
         [type |-> TypeSwitch[v.go], n |-> SetNumber(TypeSwitch[v.go], v.n)]
    [] OTHER -> [type |-> "invalid", n |-> 0]

\* The types of properties that are derived from a fundamental type.
Derived == [GstQueueLeaky |-> "enum", GstRTSPLowerTrans |-> "flags", GstCaps |-> "boxed",
            GstPad |-> "object"]
Fundamental(t) == IF t \in DOMAIN Derived THEN Derived[t] ELSE t

\* gValueMarshalers: the Go type a type is marshalled to.  go-gst registers GstCaps.
Marshalers ==
  [none |-> "nil", char |-> "int8", uchar |-> "uint8", boolean |-> "bool", int |-> "int",
   long |-> "int", enum |-> "int", int64 |-> "int64", uint |-> "uint", ulong |-> "uint",
   flags |-> "uint", uint64 |-> "uint64", float |-> "float32", double |-> "float64",
   string |-> "string", pointer |-> "ptr", boxed |-> "ptr", object |-> "object",
   param |-> "param", GstCaps |-> "caps"]

\* Mutant of Lookup: the fundamental type is asked for first.
LookupFundamental(t) == IF Fundamental(t) \in DOMAIN Marshalers THEN Fundamental(t) ELSE t

\* lookup: the marshaler of the very type before that of its fundamental type.
Lookup(t) == IF t \in DOMAIN Marshalers THEN t ELSE Fundamental(t)

\* GoValue: interfaces, variants and invalid values have marshalers that refuse.
GoValue(gv) ==
  IF Lookup(gv.type) \in DOMAIN Marshalers
  THEN Go(Marshalers[Lookup(gv.type)], gv.n)
  ELSE Error

(***************************************************************************)
(* Properties of a GObject.                                                *)
(***************************************************************************)

Unset == [type |-> "unset", n |-> 0]

\* NewIntParam, NewUintParam and so on: the bounds are cast like a value.  For bounds
\* the wrong way round GLib makes no ParamSpec, and InstallProperties no property.
NewParam(t, min, max) ==
  IF SetNumber(t, min) <= SetNumber(t, max)
  THEN [type |-> t, min |-> SetNumber(t, min), max |-> SetNumber(t, max)]
  ELSE [type |-> "missing", min |-> 0, max |-> 0]

\* g_object_set_property refuses what the ParamSpec does not allow, with a warning
\* no caller sees.  Flags take any sum of those there are.
InRange(spec, n) ==
  CASE Fundamental(spec.type) \in {"enum", "flags"} -> n \in 0 .. 4
    [] spec.type \in {"int", "uint"} -> n \in spec.min .. spec.max
    [] OTHER -> TRUE

\* SetPropertyValue: the type has to be the very type of the property, which it
\* has to have.  What is stored, or an error.
SetPropertyValue(spec, held, gv) ==
  IF spec.type = "missing" \/ gv.type # spec.type THEN Error
  ELSE IF InRange(spec, gv.n) THEN gv ELSE held

SetProperty(spec, held, v) == SetPropertyValue(spec, held, ToGValue(v))

\* The loop of Element.Build: enums are made of an int and flags of a uint.
BuildProperty(spec, held, v) ==
  LET t == spec.type IN
    CASE Fundamental(t) = "enum" ->
           IF v.go # "int" THEN Error
           ELSE SetPropertyValue(spec, held, [type |-> t, n |-> SetNumber("enum", v.n)])
      [] Fundamental(t) = "flags" ->
           IF v.go # "uint" THEN Error
           ELSE SetPropertyValue(spec, held, [type |-> t, n |-> SetNumber("flags", v.n)])
      [] OTHER -> SetProperty(spec, held, v)

\* GetProperty.
GetProperty(spec, held) == IF spec.type = "missing" THEN Error ELSE GoValue(held)
=============================================================================
