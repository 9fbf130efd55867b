----------------------------- MODULE GlibObject -----------------------------
(***************************************************************************)
(* The references on a GObject (go-glib/glib/gobject.go): those the Go     *)
(* wrappers own and give back in a finalizer, those GValues hold, those    *)
(* the With functions take for a callback, and those of C.  A floating     *)
(* object has a reference nobody owns yet, which the first RefSink takes.  *)
(***************************************************************************)
EXTENDS Integers, FiniteSets

CONSTANTS
  Threads,      \* that run Take, wrapObject or a With function
  MaxWrappers,  \* bound: Go wrappers with a finalizer at a time
  MaxParents    \* bound: references of C at a time

ASSUME ObjectAssumption ==
  IsFiniteSet(Threads) /\ MaxWrappers \in Nat /\ MaxParents \in Nat \ {0}

VARIABLES
  life,      \* "none" before the object is made, "alive", "finalised"
  refs,      \* ref_count
  floating,  \* g_object_is_floating
  parents,   \* references C owns
  wrappers,  \* Go wrappers whose finalizer is Unref
  values,    \* GValues that hold the object
  within,    \* thread -> where it is: <<function, step, what IsFloating said>>
  overlap    \* history: two WithTransferOriginal have overlapped

objectVars == <<life, refs, floating, parents, wrappers, values, within, overlap>>

Outside == <<"none", "none", FALSE>>
InStep(step) == {t \in Threads : within[t][2] = step}

ObjectTypeOK ==
  /\ life \in {"none", "alive", "finalised"}
  /\ refs \in Nat /\ floating \in BOOLEAN
  /\ parents \in 0 .. MaxParents /\ wrappers \in 0 .. MaxWrappers /\ values \in 0 .. 1
  /\ within \in [Threads -> {"none", "take", "original", "none-full"} \X
                            {"none", "read", "inside"} \X BOOLEAN]
  /\ overlap \in BOOLEAN

ObjectInit ==
  /\ life = "none" /\ refs = 0 /\ floating = FALSE
  /\ parents = 0 /\ wrappers = 0 /\ values = 0
  /\ within = [t \in Threads |-> Outside] /\ overlap = FALSE

\* g_object_ref_sink, g_object_ref and g_object_unref.
RefSink == refs' = (IF floating THEN refs ELSE refs + 1) /\ floating' = FALSE
Ref == refs' = refs + 1 /\ UNCHANGED floating
Unref == refs' = refs - 1 /\ life' = (IF refs = 1 THEN "finalised" ELSE "alive") /\ UNCHANGED floating

\* C makes an object: a GInitiallyUnowned floats, another is its maker's.
Create ==
  /\ life = "none"
  /\ life' = "alive" /\ refs' = 1
  /\ floating' \in BOOLEAN /\ parents' = (IF floating' THEN 0 ELSE 1)
  /\ UNCHANGED <<wrappers, values, within, overlap>>

\* A container takes the object.
ParentSinks ==
  /\ life = "alive" /\ parents < MaxParents
  /\ RefSink /\ parents' = parents + 1
  /\ UNCHANGED <<life, wrappers, values, within, overlap>>

CanGive == parents > 0 /\ (InStep("read") = {} \/ parents > 1)

RoomForWrapper == wrappers + Cardinality({t \in Threads : within[t][1] = "take"}) < MaxWrappers

\* C gives a reference back; who passes the object to Go keeps it until Go has its own.
ParentUnrefs ==
  /\ CanGive
  /\ Unref /\ parents' = parents - 1
  /\ UNCHANGED <<wrappers, values, within, overlap>>

\* TransferFull: the wrapper takes over a reference of C.
TransferFull ==
  /\ CanGive
  /\ RoomForWrapper
  /\ wrappers' = wrappers + 1 /\ parents' = parents - 1
  /\ UNCHANGED <<life, refs, floating, values, within, overlap>>

\* Take and wrapObject, WithTransferOriginal, and WithPointerTransferNone begin with
\* IsFloating, on an object that C keeps, that nobody owns yet, or that is in use here.
Begin(t, function) ==
  /\ life = "alive" /\ within[t] = Outside
  /\ \/ parents > 0
     \/ InStep("read") = {} /\ (floating \/ InStep("inside") # {})
  /\ function = "take" => RoomForWrapper
  /\ function = "original" => ~overlap   \* bound: they overlap once
  /\ within' = [within EXCEPT ![t] = <<function, "read", floating>>]
  /\ overlap' = (overlap \/ (function = "original" /\ \E u \in Threads : within[u][1] = "original"))
  /\ UNCHANGED <<life, refs, floating, parents, wrappers, values>>

\* Mutant of Took: what floats is not sunk.
TookWithoutSink(t) ==
  /\ within[t][1] \in {"take", "none-full"} /\ within[t][2] = "read"
  /\ IF within[t][3] THEN UNCHANGED <<refs, floating>> ELSE Ref
  /\ within' = [within EXCEPT ![t] = IF within[t][1] = "take" THEN Outside ELSE [@ EXCEPT ![2] = "inside"]]
  /\ wrappers' = wrappers + (IF within[t][1] = "take" THEN 1 ELSE 0)
  /\ UNCHANGED <<life, parents, values, overlap>>

\* Take returns a wrapper with a finalizer, WithPointerTransferNone calls its function.
Took(t) ==
  /\ within[t][1] \in {"take", "none-full"} /\ within[t][2] = "read"
  /\ IF within[t][3] THEN RefSink ELSE Ref
  /\ within' = [within EXCEPT ![t] = IF within[t][1] = "take" THEN Outside ELSE [@ EXCEPT ![2] = "inside"]]
  /\ wrappers' = wrappers + (IF within[t][1] = "take" THEN 1 ELSE 0)
  /\ UNCHANGED <<life, parents, values, overlap>>

\* WithTransferOriginal sinks in any case, and calls its function.
OriginalSinks(t) ==
  /\ within[t][1] = "original" /\ within[t][2] = "read"
  /\ RefSink
  /\ within' = [within EXCEPT ![t][2] = "inside"]
  /\ UNCHANGED <<life, parents, wrappers, values, overlap>>

\* WithPointerTransferFull calls its function with a reference of C.
FullBegins(t) ==
  /\ within[t] = Outside /\ CanGive
  /\ parents' = parents - 1
  /\ within' = [within EXCEPT ![t] = <<"none-full", "inside", FALSE>>]
  /\ UNCHANGED <<life, refs, floating, wrappers, values, overlap>>

\* The function has returned: the object floats again, or loses the reference.
End(t) ==
  /\ within[t][2] = "inside"
  /\ parents = 0 => InStep("read") = {}
  /\ IF within[t][1] = "original" /\ within[t][3]
     THEN floating' = TRUE /\ UNCHANGED <<refs, life>>
     ELSE Unref
  /\ within' = [within EXCEPT ![t] = Outside]
  /\ UNCHANGED <<parents, wrappers, values, overlap>>

\* gValue of a wrapper, and goValue: SetInstance; and the finalizer of the Value.
SetInstance ==
  /\ wrappers > 0 /\ values = 0
  /\ Ref /\ values' = 1
  /\ UNCHANGED <<life, parents, wrappers, within, overlap>>

UnsetValue ==
  /\ values = 1
  /\ Unref /\ values' = 0
  /\ UNCHANGED <<parents, wrappers, within, overlap>>

\* The finalizer of a wrapper nobody reaches.
FinalizeWrapper ==
  /\ wrappers > 0
  /\ Unref /\ wrappers' = wrappers - 1
  /\ UNCHANGED <<parents, values, within, overlap>>

\* The references that have an owner.
Owned == parents + wrappers + values + Cardinality(InStep("inside"))
=============================================================================
