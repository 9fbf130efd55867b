------------------------------ MODULE GoTypes -------------------------------
(***************************************************************************)
(* GObject types written in Go (go-glib/glib/go_object.go, the functions   *)
(* it exports to C, and register.go).  RegisterGoType, class_init and      *)
(* instance_init take registerMutex, which is not recursive; GLib holds a  *)
(* lock of its own while it initialises a class and adds an interface.  C  *)
(* keeps Go values as keys of the table of go-pointer.                     *)
(***************************************************************************)
EXTENDS Integers, FiniteSets

CONSTANTS
  Threads,    \* that register types and make objects
  Types,      \* Go types, each with a name of its own
  MaxObjects  \* bound: objects made

Objects == 1 .. MaxObjects
None == "none"

ASSUME TypesAssumption == MaxObjects \in Nat /\ None \notin Threads

VARIABLES
  interfaces,      \* the types registered with an interface
  careless,        \* whether New, InstanceInit and ClassInit of Go use the type system
  pc,              \* thread -> [step, type, object]: where it is in its call
  mutex,           \* registerMutex: the thread that holds it
  classLock,       \* of GLib, while it initialises a class or adds an interface
  gtypes,          \* types GLib knows
  registeredTypes, \* types of the map of that name
  registrations,   \* history: type -> calls of g_type_register_static
  class,           \* type -> "none", "initialised" (class_init has run) or "ready"
  saved,           \* the table of go-pointer
  object,          \* object -> its type and life: "none", "made", "constructed", "finalised"
  private,         \* object -> what its private data points to: an object, or 0
  status           \* of the process: "up" or "panicked"

vars == <<interfaces, careless, pc, mutex, classLock, gtypes, registeredTypes, registrations,
          class, saved, object, private, status>>

Idle == [step |-> "idle", type |-> None, object |-> 0]
NoObject == [type |-> None, life |-> "none"]

TypeOK ==
  /\ interfaces \subseteq Types /\ careless \in BOOLEAN
  /\ \A t \in Threads : pc[t] # Idle => pc[t].type \in Types /\ pc[t].object \in 0 .. MaxObjects
  /\ mutex \in Threads \cup {None} /\ classLock \in Threads \cup {None}
  /\ registeredTypes \subseteq gtypes /\ gtypes \subseteq Types
  /\ class \in [Types -> {"none", "initialised", "ready"}]
  /\ object \in [Objects -> [type : Types \cup {None},
                             life : {"none", "made", "constructed", "finalised"}]]
  /\ private \in [Objects -> 0 .. MaxObjects]
  /\ status \in {"up", "panicked"}

Init ==
  /\ interfaces \in SUBSET Types /\ careless \in BOOLEAN
  /\ pc = [t \in Threads |-> Idle]
  /\ mutex = None /\ classLock = None
  /\ gtypes = {} /\ registeredTypes = {} /\ registrations = [y \in Types |-> 0]
  /\ class = [y \in Types |-> "none"] /\ saved = {}
  /\ object = [o \in Objects |-> NoObject] /\ private = [o \in Objects |-> 0]
  /\ status = "up"

inputs == <<interfaces, careless>>

At(t, step) == status = "up" /\ pc[t].step = step
Goes(t, step) == pc' = [pc EXCEPT ![t].step = step]
Returns(t) == pc' = [pc EXCEPT ![t] = Idle]
Lock(t) == mutex = None /\ mutex' = t
Unlock(t) == mutex = t /\ mutex' = None

(***************************************************************************)
(* RegisterGoType.                                                         *)
(***************************************************************************)

RegisterGoType(t, y) ==
  /\ At(t, "idle")
  /\ pc' = [pc EXCEPT ![t] = [step |-> "register", type |-> y, object |-> 0]]
  /\ UNCHANGED <<inputs, mutex, classLock, gtypes, registeredTypes, registrations, class,
                 saved, object, private, status>>

\* Mutants of RegisterLocked: a type is in the map before GLib knows it; the mutex is
\* kept by the early return.
RegisterLockedMarks(t) ==
  /\ At(t, "register")
  /\ IF pc[t].type \in registeredTypes
     THEN mutex = None /\ Returns(t) /\ UNCHANGED mutex
     ELSE Lock(t) /\ Goes(t, "register_static")
  /\ registeredTypes' = registeredTypes \cup {pc[t].type}
  /\ UNCHANGED <<inputs, classLock, gtypes, registrations, class, saved, object, private, status>>

RegisterLockedReturns(t) ==
  /\ At(t, "register") /\ Lock(t)
  /\ IF pc[t].type \in registeredTypes THEN Returns(t) ELSE Goes(t, "register_static")
  /\ UNCHANGED <<inputs, classLock, gtypes, registeredTypes, registrations, class, saved,
                 object, private, status>>

\* The mutex is taken; a type that is in the map already is returned.
RegisterLocked(t) ==
  /\ At(t, "register")
  /\ IF pc[t].type \in registeredTypes
     THEN mutex = None /\ Returns(t) /\ UNCHANGED mutex
     ELSE Lock(t) /\ Goes(t, "register_static")
  /\ UNCHANGED <<inputs, classLock, gtypes, registeredTypes, registrations, class, saved,
                 object, private, status>>

\* The class data is saved and GLib knows the type from here on.
RegisterStatic(t) ==
  /\ At(t, "register_static")
  /\ LET y == pc[t].type IN
       /\ gtypes' = gtypes \cup {y}
       /\ registrations' = [registrations EXCEPT ![y] = @ + 1]
       /\ saved' = saved \cup {<<"class", y>>}
       /\ Goes(t, IF y \in interfaces THEN "add_interface" ELSE "register_end")
  /\ UNCHANGED <<inputs, mutex, classLock, registeredTypes, class, object, private, status>>

\* g_type_add_interface_static waits for the lock of GLib, under the mutex.
AddInterface(t) ==
  /\ At(t, "add_interface") /\ classLock \in {None, t}
  /\ saved' = saved \cup {<<"interface", pc[t].type>>}
  /\ Goes(t, "register_end")
  /\ UNCHANGED <<inputs, mutex, classLock, gtypes, registeredTypes, registrations, class,
                 object, private, status>>

RegisterEnd(t) ==
  /\ At(t, "register_end") /\ Unlock(t) /\ Returns(t)
  /\ registeredTypes' = registeredTypes \cup {pc[t].type}
  /\ UNCHANGED <<inputs, classLock, gtypes, registrations, class, saved, object, private, status>>

(***************************************************************************)
(* g_object_new, and the functions of Go it calls.                         *)
(***************************************************************************)

NewObject(t, y, o) ==
  /\ At(t, "idle") /\ y \in gtypes
  /\ object[o] = NoObject /\ \A p \in 1 .. o - 1 : object[p] # NoObject
  /\ object' = [object EXCEPT ![o] = [type |-> y, life |-> "made"]]
  /\ pc' = [pc EXCEPT ![t] = [step |-> "class_ref", type |-> y, object |-> o]]
  /\ UNCHANGED <<inputs, mutex, classLock, gtypes, registeredTypes, registrations, class,
                 saved, private, status>>

\* The first object of a type has its class initialised, under the lock of GLib.
ClassRef(t) ==
  /\ At(t, "class_ref")
  /\ \/ class[pc[t].type] = "ready" /\ Goes(t, "instance_init") /\ UNCHANGED classLock
     \/ class[pc[t].type] # "ready" /\ classLock = None /\ classLock' = t /\ Goes(t, "class_init")
  /\ UNCHANGED <<inputs, mutex, gtypes, registeredTypes, registrations, class, saved, object,
                 private, status>>

\* goClassInit: the class data is released once it is read; ClassInit of Go is called
\* with the mutex held, and waits for ever if it registers a type.
ClassInit(t) ==
  /\ At(t, "class_init") /\ mutex = None
  /\ IF careless
     THEN mutex' = t /\ Goes(t, "nested") /\ UNCHANGED <<class, saved>>
     ELSE /\ class' = [class EXCEPT ![pc[t].type] = "initialised"]
          /\ saved' = saved \ {<<"class", pc[t].type>>}
          /\ Goes(t, "interface_init") /\ UNCHANGED mutex
  /\ UNCHANGED <<inputs, classLock, gtypes, registeredTypes, registrations, object, private, status>>

\* goInterfaceInit, for a class with an interface: classData is nil (the variable set in
\* RegisterGoType hides the one that is used), and its elem is asked for.
InterfaceInit(t) ==
  /\ At(t, "interface_init")
  /\ IF <<"interface", pc[t].type>> \in saved
     THEN status' = "panicked" /\ UNCHANGED <<pc, classLock, class>>
     ELSE /\ class' = [class EXCEPT ![pc[t].type] = "ready"]
          /\ classLock' = None /\ Goes(t, "instance_init") /\ UNCHANGED status
  /\ UNCHANGED <<inputs, mutex, gtypes, registeredTypes, registrations, saved, object, private>>

\* goInstanceInit: the Go object is saved, and found by the private data of the type the
\* map has; New and InstanceInit of Go are called with the mutex held.
InstanceInit(t) ==
  /\ At(t, "instance_init") /\ mutex = None
  /\ LET o == pc[t].object IN
       IF careless
       THEN mutex' = t /\ Goes(t, "nested") /\ UNCHANGED <<saved, private>>
       ELSE /\ saved' = saved \cup {<<"object", o>>}
            /\ private' = [private EXCEPT ![o] = IF pc[t].type \in registeredTypes THEN o ELSE 0]
            /\ Goes(t, "constructed") /\ UNCHANGED mutex
  /\ UNCHANGED <<inputs, classLock, gtypes, registeredTypes, registrations, class, object, status>>

\* FromObjectUnsafePrivate, for goObjectConstructed, SetProperty and GetProperty: none
\* is a nil interface, whose conversion panics.
Restored(o) == <<"object", private[o]>> \in saved

Constructed(t) ==
  /\ At(t, "constructed")
  /\ IF Restored(pc[t].object)
     THEN /\ object' = [object EXCEPT ![pc[t].object].life = "constructed"]
          /\ Returns(t) /\ UNCHANGED status
     ELSE status' = "panicked" /\ UNCHANGED <<object, pc>>
  /\ UNCHANGED <<inputs, mutex, classLock, gtypes, registeredTypes, registrations, class, saved, private>>

\* Mutant of Finalize: the Go object stays in the table.
FinalizeKeeps(o) ==
  /\ status = "up" /\ object[o].life = "constructed"
  /\ object' = [object EXCEPT ![o].life = "finalised"]
  /\ UNCHANGED <<inputs, pc, mutex, classLock, gtypes, registeredTypes, registrations, class,
                 saved, private, status>>

\* objectFinalize: goObjectFinalize releases the Go object.
Finalize(o) ==
  /\ status = "up" /\ object[o].life = "constructed"
  /\ object' = [object EXCEPT ![o].life = "finalised"]
  /\ saved' = saved \ {<<"object", private[o]>>}
  /\ UNCHANGED <<inputs, pc, mutex, classLock, gtypes, registeredTypes, registrations, class,
                 private, status>>

Step(t) ==
  \/ RegisterLocked(t) \/ RegisterStatic(t) \/ AddInterface(t) \/ RegisterEnd(t)
  \/ ClassRef(t) \/ ClassInit(t) \/ InterfaceInit(t) \/ InstanceInit(t) \/ Constructed(t)

Next ==
  \/ \E t \in Threads, y \in Types : RegisterGoType(t, y) \/ \E o \in Objects : NewObject(t, y, o)
  \/ \E t \in Threads : Step(t)
  \/ \E o \in Objects : Finalize(o)

\* A thread that can go on in a call does: Go's mutex and GLib's lock are fair enough
\* that a waiting thread gets them, if they come free again and again.
TypesSpec == Init /\ [][Next]_vars /\ \A t \in Threads : SF_vars(Step(t))

(***************************************************************************)
(* Properties                                                              *)
(***************************************************************************)

\* A name is registered with GLib once, however many threads ask for it, and every
\* object finds the Go object that was made for it, from construction until it is
\* finalised, and leaves nothing in the table (go_object.go:146-151, and line 50 and
\* lines 82-101 of go_object_exports.go); types without an interface never panic.
ObjectsHaveTheirGoObject ==
  /\ \A y \in Types : registrations[y] <= 1
  /\ \A o \in Objects :
       /\ object[o].life = "constructed" => private[o] = o /\ Restored(o)
       /\ object[o].life = "finalised" => ~Restored(o)
  /\ status = "panicked" => interfaces # {}
  /\ \A y \in Types : <<"class", y>> \in saved <=> y \in gtypes /\ class[y] = "none"

\* A registration or an object's construction comes to its end, with any number of
\* threads, as long as types have no interface (with one, AddInterface waits for the
\* lock of GLib under the mutex and ClassInit for the mutex under that lock; and
\* goInterfaceInit panics) and the Go callbacks keep away from the type system.
CallsReturn ==
  \A t \in Threads :
    (pc[t] # Idle /\ interfaces = {} /\ ~careless) ~> (pc[t] = Idle)
=============================================================================
