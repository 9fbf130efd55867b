--------------------------- MODULE GoTypes_proofs ---------------------------
(***************************************************************************)
(* The registration of Go types and the making of their objects are safe   *)
(* for any number of threads, types and objects.                           *)
(***************************************************************************)
EXTENDS GoTypes, TLAPS

\* Where a thread is in RegisterGoType, where it holds registerMutex, and where it is in
\* g_object_new.
Registering == {"register", "register_static", "add_interface", "register_end"}
Holding == {"register_static", "add_interface", "register_end", "nested"}
Making == {"class_ref", "class_init", "interface_init", "instance_init", "nested", "constructed"}

PcOK ==
  pc \in [Threads -> [step : {"idle"} \cup Registering \cup Making,
                      type : Types \cup {None}, object : 0 .. MaxObjects]]

\* What is known of a thread from the step it is at.
ThreadInv(t) ==
  /\ pc[t].step = "idle" => pc[t] = Idle
  /\ pc[t].step \in Registering => pc[t].type \in Types /\ pc[t].object = 0
  /\ pc[t].step \in Making =>
       pc[t].type \in gtypes /\ pc[t].object \in Objects /\ object[pc[t].object].life = "made"
  /\ pc[t].step \in Holding => mutex = t
  /\ pc[t].step = "register_static" => pc[t].type \notin registeredTypes
  /\ pc[t].step \in {"add_interface", "register_end"} => pc[t].type \in gtypes
  /\ pc[t].step = "add_interface" => interfaces # {}
  /\ pc[t].step = "interface_init" => class[pc[t].type] # "none"
  /\ pc[t].step = "constructed" =>
       private[pc[t].object] = pc[t].object /\ <<"object", pc[t].object>> \in saved
CallInv == \A t \in Threads : ThreadInv(t)

\* An object is made by one thread.
MakersInv ==
  \A t, u \in Threads :
    pc[t].step \in Making /\ pc[u].step \in Making /\ pc[t].object = pc[u].object => t = u

\* A type GLib knows is in the map, or about to be: its thread still has the mutex.
RegisteredInv ==
  /\ \A y \in gtypes \ registeredTypes :
       \E t \in Threads : pc[t].step \in {"add_interface", "register_end"} /\ pc[t].type = y
  /\ registrations \in [Types -> Nat]
  /\ \A y \in Types : registrations[y] = IF y \in gtypes THEN 1 ELSE 0

\* What the table of go-pointer holds.
TableInv ==
  /\ \A y \in Types : <<"class", y>> \in saved <=> y \in gtypes /\ class[y] = "none"
  /\ \A y \in Types : class[y] # "none" => y \in gtypes
  /\ \A y \in Types : <<"interface", y>> \in saved => interfaces # {}
  /\ status = "panicked" => interfaces # {}
  /\ \A o \in Objects :
       /\ object[o].life \in {"constructed", "finalised"} => private[o] = o
       /\ object[o].life = "constructed" => <<"object", o>> \in saved
       /\ object[o].life = "finalised" => <<"object", o>> \notin saved

\* The inductive invariant.
TypesInv == TypeOK /\ PcOK /\ CallInv /\ MakersInv /\ RegisteredInv /\ TableInv

\* A thread that goes on takes its type and object along, and the others stay.
LEMMA GoesOn ==
  ASSUME PcOK, NEW t \in Threads, NEW s \in {"idle"} \cup Registering \cup Making, Goes(t, s)
  PROVE  /\ PcOK'
         /\ pc'[t].step = s /\ pc'[t].type = pc[t].type /\ pc'[t].object = pc[t].object
         /\ \A u \in Threads \ {t} : pc'[u] = pc[u]
<1> QED
  BY DEF PcOK, Goes

\* A thread that returns is idle again.
LEMMA ReturnsIdle ==
  ASSUME PcOK, NEW t \in Threads, Returns(t)
  PROVE  PcOK' /\ pc'[t] = Idle /\ \A u \in Threads \ {t} : pc'[u] = pc[u]
<1> QED
  BY TypesAssumption DEF PcOK, Returns, Idle

\* While the mutex is free, no thread is where it is held, and the map has every type.
LEMMA MutexFree ==
  ASSUME TypesInv, mutex = None
  PROVE  (\A t \in Threads : pc[t].step \notin Holding) /\ gtypes \subseteq registeredTypes
<1>1. \A t \in Threads : pc[t].step \notin Holding
  BY TypesAssumption DEF TypesInv, CallInv, ThreadInv
<1>2. gtypes \subseteq registeredTypes
  BY <1>1 DEF TypesInv, RegisteredInv, Holding
<1> QED
  BY <1>1, <1>2

\* No thread is anywhere at first.
LEMMA TypesStart == Init => TypesInv
<1> SUFFICES ASSUME Init PROVE TypesInv
  OBVIOUS
<1> USE TypesAssumption DEF Init, Idle, NoObject
<1>1. TypeOK
  BY DEF TypeOK, Objects
<1>2. PcOK
  BY DEF PcOK
<1>3. CallInv /\ MakersInv
  BY DEF CallInv, ThreadInv, MakersInv, Registering, Holding, Making
<1>4. RegisteredInv
  BY DEF RegisteredInv
<1>5. TableInv
  BY DEF TableInv
<1> QED
  BY <1>1, <1>2, <1>3, <1>4, <1>5 DEF TypesInv

\* Every step of a thread in RegisterGoType keeps the invariant.
LEMMA RegistrationStep ==
  ASSUME TypesInv, NEW t \in Threads,
         \/ \E y \in Types : RegisterGoType(t, y)
         \/ RegisterLocked(t) \/ RegisterStatic(t) \/ AddInterface(t) \/ RegisterEnd(t)
  PROVE  TypesInv'
<1> USE TypesAssumption DEF TypesInv
<1>1. ASSUME NEW y \in Types, RegisterGoType(t, y) PROVE TypesInv'
  <2>1. /\ PcOK' /\ pc'[t] = [step |-> "register", type |-> y, object |-> 0]
        /\ \A u \in Threads \ {t} : pc'[u] = pc[u]
    BY <1>1 DEF RegisterGoType, PcOK, Registering
  <2>2. UNCHANGED <<interfaces, careless, mutex, classLock, gtypes, registeredTypes, registrations,
                    class, saved, object, private, status>>
    BY <1>1 DEF RegisterGoType, inputs
  <2>3. TypeOK'
    <3>1. \A u \in Threads : pc'[u] # Idle => pc'[u].type \in Types /\ pc'[u].object \in 0 .. MaxObjects
      BY <2>1 DEF TypeOK
    <3> QED
      BY <2>2, <3>1 DEF TypeOK, Objects
  <2>6. TableInv'
    BY <2>2 DEF TableInv, Objects
  <2>4. CallInv' /\ MakersInv'
    BY <2>1, <2>2 DEF CallInv, ThreadInv, MakersInv, Registering, Holding, Making
  <2>5. RegisteredInv'
    BY <1>1, <2>1, <2>2 DEF RegisterGoType, At, RegisteredInv
  <2> QED
    BY <2>1, <2>3, <2>4, <2>5, <2>6
<1>2. ASSUME RegisterLocked(t) PROVE TypesInv'
  <2>1. UNCHANGED <<interfaces, careless, classLock, gtypes, registeredTypes, registrations,
                    class, saved, object, private, status>>
    BY <1>2 DEF RegisterLocked, inputs
  <2>2. mutex = None /\ pc[t].step = "register"
    BY <1>2 DEF RegisterLocked, At, Lock
  <2>3. TableInv'
    BY <2>1 DEF TableInv, Objects
  <2>4. CASE pc[t].type \in registeredTypes
    <3>1. /\ PcOK' /\ pc'[t] = Idle /\ \A u \in Threads \ {t} : pc'[u] = pc[u]
          /\ mutex' = mutex
      BY <1>2, <2>4, ReturnsIdle DEF RegisterLocked
    <3>2. TypeOK'
      BY <2>1, <3>1 DEF TypeOK, Objects
    <3>3. CallInv' /\ MakersInv'
      BY <2>1, <3>1 DEF CallInv, ThreadInv, MakersInv, Idle, Registering, Holding, Making
    <3>4. RegisteredInv'
      BY <2>1, <2>2, <3>1 DEF RegisteredInv
    <3> QED
      BY <2>3, <3>1, <3>2, <3>3, <3>4
  <2>5. CASE pc[t].type \notin registeredTypes
    <3>1. /\ PcOK' /\ pc'[t].step = "register_static" /\ pc'[t].type = pc[t].type
          /\ pc'[t].object = pc[t].object
          /\ \A u \in Threads \ {t} : pc'[u] = pc[u]
          /\ mutex' = t
      BY <1>2, <2>5, GoesOn DEF RegisterLocked, Registering, Lock
    <3>2. TypeOK'
      BY <2>1, <2>2, <3>1 DEF TypeOK, Objects, PcOK, CallInv, ThreadInv, Registering, Idle
    <3>3. CallInv' /\ MakersInv'
      BY <2>1, <2>2, <2>5, <3>1, MutexFree DEF CallInv, ThreadInv, MakersInv, Idle, Registering, Holding, Making
    <3>4. RegisteredInv'
      BY <2>1, <2>2, <3>1 DEF RegisteredInv
    <3> QED
      BY <2>3, <3>1, <3>2, <3>3, <3>4
  <2> QED
    BY <2>4, <2>5
<1>3. ASSUME RegisterStatic(t) PROVE TypesInv'
  <2> DEFINE y == pc[t].type
  <2>1. UNCHANGED <<interfaces, careless, mutex, classLock, registeredTypes, class, object, private,
                    status>>
    BY <1>3 DEF RegisterStatic, inputs
  <2>2. /\ pc[t].step = "register_static" /\ mutex = t /\ y \in Types /\ y \notin registeredTypes
        /\ pc[t].object = 0
    BY <1>3 DEF RegisterStatic, At, CallInv, ThreadInv, Registering, Holding
  <2>3. y \notin gtypes
    BY <2>2 DEF RegisteredInv, CallInv, ThreadInv, Holding
  <2>4. /\ gtypes' = gtypes \cup {y} /\ registrations' = [registrations EXCEPT ![y] = @ + 1]
        /\ saved' = saved \cup {<<"class", y>>}
    BY <1>3 DEF RegisterStatic
  <2>5. /\ PcOK' /\ pc'[t].step \in {"add_interface", "register_end"} /\ pc'[t].type = y
        /\ pc'[t].object = pc[t].object
        /\ pc'[t].step = "add_interface" => y \in interfaces
        /\ \A u \in Threads \ {t} : pc'[u] = pc[u]
    <3>1. CASE y \in interfaces
      BY <1>3, <3>1, GoesOn DEF RegisterStatic, Registering
    <3>2. CASE y \notin interfaces
      BY <1>3, <3>2, GoesOn DEF RegisterStatic, Registering
    <3> QED
      BY <3>1, <3>2
  <2> HIDE DEF y
  <2>6. TypeOK'
    BY <2>1, <2>2, <2>4, <2>5 DEF TypeOK, Objects, PcOK
  <2>7. CallInv' /\ MakersInv'
    BY <2>1, <2>2, <2>4, <2>5 DEF CallInv, ThreadInv, MakersInv, Idle, Registering, Holding, Making
  <2>8. RegisteredInv'
    BY <2>1, <2>2, <2>3, <2>4, <2>5 DEF RegisteredInv
  <2>9. TableInv'
    BY <2>1, <2>2, <2>3, <2>4 DEF TableInv, Objects, TypeOK
  <2> QED
    BY <2>5, <2>6, <2>7, <2>8, <2>9
<1>4. ASSUME AddInterface(t) PROVE TypesInv'
  <2>1. UNCHANGED <<interfaces, careless, mutex, classLock, gtypes, registeredTypes, registrations,
                    class, object, private, status>>
    BY <1>4 DEF AddInterface, inputs
  <2>2. pc[t].step = "add_interface" /\ saved' = saved \cup {<<"interface", pc[t].type>>}
    BY <1>4 DEF AddInterface, At
  <2>3. /\ PcOK' /\ pc'[t].step = "register_end" /\ pc'[t].type = pc[t].type
        /\ pc'[t].object = pc[t].object
        /\ \A u \in Threads \ {t} : pc'[u] = pc[u]
    BY <1>4, GoesOn DEF AddInterface, Registering
  <2>4. TypeOK'
    BY <2>1, <2>2, <2>3 DEF TypeOK, Objects, PcOK, CallInv, ThreadInv, Registering
  <2>5. CallInv' /\ MakersInv'
    BY <2>1, <2>2, <2>3 DEF CallInv, ThreadInv, MakersInv, Idle, Registering, Holding, Making
  <2>6. RegisteredInv'
    BY <2>1, <2>2, <2>3 DEF RegisteredInv
  <2>7. TableInv'
    BY <2>1, <2>2 DEF TableInv, Objects, CallInv, ThreadInv
  <2> QED
    BY <2>3, <2>4, <2>5, <2>6, <2>7
<1>5. ASSUME RegisterEnd(t) PROVE TypesInv'
  <2>1. UNCHANGED <<interfaces, careless, classLock, gtypes, registrations, class, saved, object,
                    private, status>>
    BY <1>5 DEF RegisterEnd, inputs
  <2>2. /\ pc[t].step = "register_end" /\ pc[t].type \in gtypes /\ mutex = t /\ mutex' = None
        /\ registeredTypes' = registeredTypes \cup {pc[t].type}
    BY <1>5 DEF RegisterEnd, At, Unlock, CallInv, ThreadInv
  <2>3. PcOK' /\ pc'[t] = Idle /\ \A u \in Threads \ {t} : pc'[u] = pc[u]
    BY <1>5, ReturnsIdle DEF RegisterEnd
  <2>4. TypeOK'
    BY <2>1, <2>2, <2>3 DEF TypeOK, Objects, PcOK
  <2>5. CallInv' /\ MakersInv'
    BY <2>1, <2>2, <2>3 DEF CallInv, ThreadInv, MakersInv, Idle, Registering, Holding, Making
  <2>6. RegisteredInv'
    BY <2>1, <2>2, <2>3 DEF RegisteredInv
  <2>7. TableInv'
    BY <2>1 DEF TableInv, Objects
  <2> QED
    BY <2>3, <2>4, <2>5, <2>6, <2>7
<1> QED
  BY <1>1, <1>2, <1>3, <1>4, <1>5

\* Every step of a thread in g_object_new keeps it.
LEMMA MakingStep ==
  ASSUME TypesInv, NEW t \in Threads,
         \/ \E y \in Types, o \in Objects : NewObject(t, y, o)
         \/ ClassRef(t) \/ ClassInit(t) \/ InterfaceInit(t) \/ InstanceInit(t) \/ Constructed(t)
  PROVE  TypesInv'
<1> USE TypesAssumption DEF TypesInv
<1>1. ASSUME NEW y \in Types, NEW o \in Objects, NewObject(t, y, o) PROVE TypesInv'
  <2>1. UNCHANGED <<interfaces, careless, mutex, classLock, gtypes, registeredTypes, registrations,
                    class, saved, private, status>>
    BY <1>1 DEF NewObject, inputs
  <2>2. /\ pc[t].step = "idle" /\ y \in gtypes /\ object[o].life = "none"
        /\ object' = [object EXCEPT ![o] = [type |-> y, life |-> "made"]]
    BY <1>1 DEF NewObject, At, NoObject
  <2>3. /\ PcOK' /\ pc'[t] = [step |-> "class_ref", type |-> y, object |-> o]
        /\ \A u \in Threads \ {t} : pc'[u] = pc[u]
    BY <1>1 DEF NewObject, PcOK, Making, Objects
  <2>4. /\ object'[o].life = "made" /\ \A p \in Objects \ {o} : object'[p] = object[p]
        /\ object' \in [Objects -> [type : Types \cup {None},
                                    life : {"none", "made", "constructed", "finalised"}]]
    BY <2>2 DEF TypeOK
  <2>5. TypeOK'
    <3>1. \A u \in Threads : pc'[u] # Idle => pc'[u].type \in Types /\ pc'[u].object \in 0 .. MaxObjects
      <4>1. o \in 0 .. MaxObjects
        BY DEF Objects
      <4> QED
        BY <2>3, <4>1 DEF TypeOK
    <3> QED
      BY <2>1, <2>4, <3>1 DEF TypeOK
  <2>9. \A u \in Threads : pc[u].step \in Making => pc[u].object # o
    BY <2>2 DEF CallInv, ThreadInv
  <2>6. CallInv'
    <3>1. ASSUME NEW u \in Threads \ {t} PROVE ThreadInv(u)'
      BY <2>1, <2>3, <2>4, <2>9 DEF CallInv, ThreadInv
    <3>2. ThreadInv(t)'
      <4>1. pc'[t].step = "class_ref" /\ pc'[t].type = y /\ pc'[t].object = o
        BY <2>3
      <4> QED
        BY <2>1, <2>2, <2>4, <4>1 DEF ThreadInv, Registering, Holding, Making
    <3> QED
      BY <3>1, <3>2 DEF CallInv
  <2>10. MakersInv'
    BY <2>2, <2>3, <2>9 DEF MakersInv, Making
  <2>7. RegisteredInv'
    BY <2>1, <2>2, <2>3 DEF RegisteredInv
  <2>8. TableInv'
    BY <2>1, <2>4 DEF TableInv
  <2> QED
    BY <2>3, <2>5, <2>6, <2>7, <2>8, <2>10
<1>2. ASSUME ClassRef(t) PROVE TypesInv'
  <2>1. UNCHANGED <<interfaces, careless, mutex, gtypes, registeredTypes, registrations, class, saved,
                    object, private, status>>
    BY <1>2 DEF ClassRef, inputs
  <2>2. /\ pc[t].step = "class_ref" /\ classLock' \in {classLock, t}
    BY <1>2 DEF ClassRef, At
  <2>3. /\ PcOK' /\ pc'[t].step \in {"instance_init", "class_init"} /\ pc'[t].type = pc[t].type
        /\ pc'[t].object = pc[t].object
        /\ \A u \in Threads \ {t} : pc'[u] = pc[u]
    BY <1>2, GoesOn DEF ClassRef, Making
  <2>4. TypeOK'
    BY <2>1, <2>2, <2>3 DEF TypeOK, PcOK, CallInv, ThreadInv, Making, Objects
  <2>5. CallInv' /\ MakersInv'
    BY <2>1, <2>2, <2>3 DEF CallInv, ThreadInv, MakersInv, Idle, Registering, Holding, Making
  <2>6. RegisteredInv'
    BY <2>1, <2>2, <2>3 DEF RegisteredInv
  <2>7. TableInv'
    BY <2>1 DEF TableInv, Objects
  <2> QED
    BY <2>3, <2>4, <2>5, <2>6, <2>7
<1>3. ASSUME ClassInit(t) PROVE TypesInv'
  <2>1. UNCHANGED <<interfaces, careless, classLock, gtypes, registeredTypes, registrations, object,
                    private, status>>
    BY <1>3 DEF ClassInit, inputs
  <2>2. pc[t].step = "class_init" /\ mutex = None
    BY <1>3 DEF ClassInit, At
  <2>3. /\ PcOK' /\ pc'[t].step \in {"nested", "interface_init"} /\ pc'[t].type = pc[t].type
        /\ pc'[t].object = pc[t].object
        /\ \A u \in Threads \ {t} : pc'[u] = pc[u]
        /\ mutex' \in {None, t}
        /\ pc'[t].step = "nested" => mutex' = t
        /\ pc'[t].step = "interface_init" => class' = [class EXCEPT ![pc[t].type] = "initialised"]
    <3>1. CASE careless
      BY <1>3, <3>1, GoesOn DEF ClassInit, Making
    <3>2. CASE ~careless
      BY <1>3, <3>2, <2>2, GoesOn DEF ClassInit, Making
    <3> QED
      BY <3>1, <3>2
  <2>4. \/ UNCHANGED <<class, saved>>
        \/ /\ class' = [class EXCEPT ![pc[t].type] = "initialised"]
           /\ saved' = saved \ {<<"class", pc[t].type>>}
    BY <1>3 DEF ClassInit
  <2>5. pc[t].type \in gtypes
    BY <2>2 DEF CallInv, ThreadInv, Making
  <2>6. TypeOK'
    <3>1. \A u \in Threads : pc'[u] # Idle => pc'[u].type \in Types /\ pc'[u].object \in 0 .. MaxObjects
      BY <2>3, <2>5 DEF TypeOK, PcOK
    <3>2. class' \in [Types -> {"none", "initialised", "ready"}] /\ mutex' \in Threads \cup {None}
      BY <2>3, <2>4 DEF TypeOK
    <3> QED
      BY <2>1, <3>1, <3>2 DEF TypeOK, Objects
  <2>7. CallInv'
    <3>1. \A u \in Threads \ {t} : pc[u].step \notin Holding
      BY <2>2, MutexFree
    <3>2. \A y \in Types : class[y] # "none" => class'[y] # "none"
      BY <2>4 DEF TypeOK
    <3>3. \A u \in Threads : pc[u].step = "constructed" =>
            (<<"object", pc[u].object>> \in saved <=> <<"object", pc[u].object>> \in saved')
      BY <2>4
    <3>4. ASSUME NEW u \in Threads \ {t} PROVE ThreadInv(u)'
      <4>1. ThreadInv(u) /\ pc'[u] = pc[u] /\ pc[u].step \notin Holding
        BY <2>3, <3>1 DEF CallInv
      <4>2. pc[u].step = "interface_init" => class'[pc[u].type] # "none"
        BY <3>2, <4>1 DEF ThreadInv, Making, TypeOK
      <4>3. pc[u].step = "constructed" => <<"object", pc[u].object>> \in saved'
        BY <3>3, <4>1 DEF ThreadInv
      <4> QED
        BY <2>1, <4>1, <4>2, <4>3 DEF ThreadInv, Holding
    <3>5. ThreadInv(t)'
      <4>1. pc'[t].step = "interface_init" => class'[pc[t].type] # "none"
        BY <2>3, <2>5 DEF TypeOK
      <4> QED
        BY <2>1, <2>2, <2>3, <4>1 DEF CallInv, ThreadInv, Registering, Holding, Making
    <3> QED
      BY <3>4, <3>5 DEF CallInv
  <2>10. MakersInv'
    BY <2>2, <2>3 DEF MakersInv, Making
  <2>8. RegisteredInv'
    BY <2>1, <2>2, <2>3, MutexFree DEF RegisteredInv
  <2>9. TableInv'
    BY <2>1, <2>4, <2>5 DEF TableInv, Objects, TypeOK
  <2> QED
    BY <2>3, <2>6, <2>7, <2>8, <2>9, <2>10
<1>4. ASSUME InterfaceInit(t) PROVE TypesInv'
  <2>1. UNCHANGED <<interfaces, careless, mutex, gtypes, registeredTypes, registrations, saved, object,
                    private>>
    BY <1>4 DEF InterfaceInit, inputs
  <2>2. pc[t].step = "interface_init" /\ pc[t].type \in gtypes /\ gtypes \subseteq Types
    BY <1>4 DEF InterfaceInit, At, CallInv, ThreadInv, Making, TypeOK
  <2>3. CASE <<"interface", pc[t].type>> \in saved
    <3>1. status' = "panicked" /\ interfaces # {} /\ UNCHANGED <<pc, classLock, class>>
      BY <1>4, <2>2, <2>3 DEF InterfaceInit, TableInv
    <3> QED
      BY <2>1, <3>1 DEF TypeOK, PcOK, CallInv, ThreadInv, MakersInv, RegisteredInv, TableInv, Objects
  <2>4. CASE <<"interface", pc[t].type>> \notin saved
    <3>1. /\ class' = [class EXCEPT ![pc[t].type] = "ready"]
          /\ classLock' = None /\ UNCHANGED status
      BY <1>4, <2>4 DEF InterfaceInit
    <3>2. /\ PcOK' /\ pc'[t].step = "instance_init" /\ pc'[t].type = pc[t].type
          /\ pc'[t].object = pc[t].object
          /\ \A u \in Threads \ {t} : pc'[u] = pc[u]
      BY <1>4, <2>4, GoesOn DEF InterfaceInit, Making
    <3>3. TypeOK'
      BY <2>1, <2>2, <3>1, <3>2 DEF TypeOK, PcOK, CallInv, ThreadInv, Making, Objects
    <3>4. CallInv'
      BY <2>1, <2>2, <3>1, <3>2 DEF CallInv, ThreadInv, Idle, Registering, Holding, Making, TypeOK
    <3>5. MakersInv'
      BY <2>2, <3>2 DEF MakersInv, Making
    <3>6. RegisteredInv'
      BY <2>1, <2>2, <3>2 DEF RegisteredInv
    <3>7. TableInv'
      BY <2>1, <2>2, <3>1 DEF TableInv, Objects, TypeOK, CallInv, ThreadInv
    <3> QED
      BY <3>2, <3>3, <3>4, <3>5, <3>6, <3>7
  <2> QED
    BY <2>3, <2>4
<1>5. ASSUME InstanceInit(t) PROVE TypesInv'
  <2> DEFINE o == pc[t].object
  <2>1. UNCHANGED <<interfaces, careless, classLock, gtypes, registeredTypes, registrations, class,
                    object, status>>
    BY <1>5 DEF InstanceInit, inputs
  <2>2. /\ pc[t].step = "instance_init" /\ mutex = None /\ o \in Objects
        /\ object[o].life = "made" /\ pc[t].type \in registeredTypes
    BY <1>5, MutexFree DEF InstanceInit, At, CallInv, ThreadInv, Making
  <2>3. \A u \in Threads \ {t} : pc[u].step \in Making => pc[u].object # o
    BY <2>2 DEF MakersInv, Making
  <2>4. CASE careless
    <3>1. mutex' = t /\ UNCHANGED <<saved, private>>
      BY <1>5, <2>4 DEF InstanceInit
    <3>2. /\ PcOK' /\ pc'[t].step = "nested" /\ pc'[t].type = pc[t].type
          /\ pc'[t].object = pc[t].object
          /\ \A u \in Threads \ {t} : pc'[u] = pc[u]
      BY <1>5, <2>4, GoesOn DEF InstanceInit, Making
    <3>3. TypeOK'
      BY <2>1, <2>2, <3>1, <3>2 DEF TypeOK, PcOK, CallInv, ThreadInv, Making, Objects
    <3>4. CallInv' /\ MakersInv'
      BY <2>1, <2>2, <3>1, <3>2, MutexFree
      DEF CallInv, ThreadInv, MakersInv, Idle, Registering, Holding, Making
    <3>5. RegisteredInv'
      BY <2>1, <2>2, <3>2 DEF RegisteredInv
    <3>6. TableInv'
      BY <2>1, <3>1 DEF TableInv, Objects
    <3> QED
      BY <3>2, <3>3, <3>4, <3>5, <3>6
  <2>5. CASE ~careless
    <3>1. /\ UNCHANGED mutex /\ saved' = saved \cup {<<"object", o>>}
          /\ private' = [private EXCEPT ![o] = o]
      BY <1>5, <2>2, <2>5 DEF InstanceInit
    <3>2. /\ PcOK' /\ pc'[t].step = "constructed" /\ pc'[t].type = pc[t].type
          /\ pc'[t].object = pc[t].object
          /\ \A u \in Threads \ {t} : pc'[u] = pc[u]
      BY <1>5, <2>5, GoesOn DEF InstanceInit, Making
    <3> HIDE DEF o
    <3>3. /\ private'[o] = o /\ \A p \in Objects \ {o} : private'[p] = private[p]
          /\ private' \in [Objects -> 0 .. MaxObjects]
      BY <2>2, <3>1 DEF TypeOK, Objects
    <3>4. TypeOK'
      <4>1. \A u \in Threads : pc'[u] # Idle => pc'[u].type \in Types /\ pc'[u].object \in 0 .. MaxObjects
        BY <2>2, <3>2 DEF TypeOK, PcOK
      <4> QED
        BY <2>1, <3>1, <3>3, <4>1 DEF TypeOK, Objects
    <3>5. CallInv'
      <4>1. ASSUME NEW u \in Threads \ {t} PROVE ThreadInv(u)'
        BY <2>1, <2>3, <3>1, <3>2, <3>3 DEF CallInv, ThreadInv, Making
      <4>2. ThreadInv(t)'
        BY <2>1, <2>2, <3>1, <3>2, <3>3 DEF o, CallInv, ThreadInv, Registering, Holding, Making
      <4> QED
        BY <4>1, <4>2 DEF CallInv
    <3>6. MakersInv'
      BY <2>2, <3>2 DEF MakersInv, Making
    <3>7. RegisteredInv'
      BY <2>1, <2>2, <3>2 DEF RegisteredInv
    <3>8. TableInv'
      BY <2>1, <2>2, <3>1, <3>3 DEF TableInv
    <3> QED
      BY <3>2, <3>4, <3>5, <3>6, <3>7, <3>8
  <2> QED
    BY <2>4, <2>5
<1>6. ASSUME Constructed(t) PROVE TypesInv'
  <2> DEFINE o == pc[t].object
  <2>1. UNCHANGED <<interfaces, careless, mutex, classLock, gtypes, registeredTypes, registrations,
                    class, saved, private>>
    BY <1>6 DEF Constructed, inputs
  <2>2. /\ pc[t].step = "constructed" /\ o \in Objects /\ object[o].life = "made"
        /\ private[o] = o /\ <<"object", o>> \in saved
    BY <1>6 DEF Constructed, At, CallInv, ThreadInv, Making
  <2>3. \A u \in Threads \ {t} : pc[u].step \in Making => pc[u].object # o
    BY <2>2 DEF MakersInv, Making
  <2>4. /\ object' = [object EXCEPT ![o].life = "constructed"] /\ UNCHANGED status
        /\ PcOK' /\ pc'[t] = Idle /\ \A u \in Threads \ {t} : pc'[u] = pc[u]
    BY <1>6, <2>2, ReturnsIdle DEF Constructed, Restored
  <2> HIDE DEF o
  <2>5. /\ object'[o].life = "constructed" /\ \A p \in Objects \ {o} : object'[p] = object[p]
        /\ object' \in [Objects -> [type : Types \cup {None},
                                    life : {"none", "made", "constructed", "finalised"}]]
    BY <2>2, <2>4 DEF TypeOK
  <2>6. TypeOK'
    BY <2>1, <2>4, <2>5 DEF TypeOK
  <2>7. CallInv'
    <3>1. ASSUME NEW u \in Threads \ {t} PROVE ThreadInv(u)'
      BY <2>1, <2>3, <2>4, <2>5 DEF CallInv, ThreadInv
    <3>2. ThreadInv(t)'
      BY <2>4 DEF ThreadInv, Idle, Registering, Holding, Making
    <3> QED
      BY <3>1, <3>2 DEF CallInv
  <2>8. MakersInv'
    BY <2>4 DEF MakersInv, Making, Idle
  <2>9. RegisteredInv'
    BY <2>1, <2>2, <2>4 DEF RegisteredInv
  <2>10. TableInv'
    BY <2>1, <2>2, <2>4, <2>5 DEF TableInv
  <2> QED
    BY <2>4, <2>6, <2>7, <2>8, <2>9, <2>10
<1> QED
  BY <1>1, <1>2, <1>3, <1>4, <1>5, <1>6

\* The end of an object keeps it.
LEMMA FinalizeStep ==
  ASSUME TypesInv, NEW o \in Objects, Finalize(o)
  PROVE  TypesInv'
<1> USE TypesAssumption DEF TypesInv
<1>1. UNCHANGED <<interfaces, careless, pc, mutex, classLock, gtypes, registeredTypes, registrations,
                  class, private, status>>
  BY DEF Finalize, inputs
<1>2. /\ object[o].life = "constructed" /\ private[o] = o
      /\ object' = [object EXCEPT ![o].life = "finalised"] /\ saved' = saved \ {<<"object", o>>}
  BY DEF Finalize, TableInv
<1>3. /\ object'[o].life = "finalised" /\ \A p \in Objects \ {o} : object'[p] = object[p]
      /\ object' \in [Objects -> [type : Types \cup {None},
                                  life : {"none", "made", "constructed", "finalised"}]]
  BY <1>2 DEF TypeOK
<1>4. TypeOK' /\ PcOK'
  BY <1>1, <1>3 DEF TypeOK, PcOK
<1>5. CallInv'
  BY <1>1, <1>2, <1>3 DEF CallInv, ThreadInv, Making
<1>6. MakersInv' /\ RegisteredInv'
  BY <1>1 DEF MakersInv, RegisteredInv
<1>7. TableInv'
  BY <1>1, <1>2, <1>3 DEF TableInv
<1> QED
  BY <1>4, <1>5, <1>6, <1>7

\* It is an invariant, however the calls of the threads interleave.
LEMMA TypesInvariant == TypesSpec => []TypesInv
<1>1. TypesInv /\ [Next]_vars => TypesInv'
  <2> SUFFICES ASSUME TypesInv, [Next]_vars PROVE TypesInv'
    OBVIOUS
  <2>1. CASE UNCHANGED vars
    BY <2>1
    DEF vars, TypesInv, TypeOK, PcOK, CallInv, ThreadInv, MakersInv, RegisteredInv, TableInv
  <2> QED
    BY <2>1, RegistrationStep, MakingStep, FinalizeStep DEF Next, Step
<1> QED
  BY <1>1, TypesStart, PTL DEF TypesSpec

\* Every variable has its type.
THEOREM TypesAreTyped == TypesSpec => []TypeOK
<1>1. TypesInv => TypeOK
  BY DEF TypesInv
<1> QED
  BY <1>1, TypesInvariant, PTL

\* However many threads register types and make objects, a name is registered once,
\* every object has its own Go object from construction to its end and leaves nothing
\* behind, and only a type with an interface can make the process panic.
THEOREM ObjectsKeepTheirGoObject == TypesSpec => []ObjectsHaveTheirGoObject
<1>1. ASSUME TypesInv PROVE ObjectsHaveTheirGoObject
  <2>1. \A y \in Types : registrations[y] <= 1
    BY <1>1 DEF TypesInv, RegisteredInv
  <2>2. \A o \in Objects :
          /\ object[o].life = "constructed" => private[o] = o /\ Restored(o)
          /\ object[o].life = "finalised" => ~Restored(o)
    BY <1>1 DEF TypesInv, TableInv, Restored
  <2> QED
    BY <1>1, <2>1, <2>2 DEF TypesInv, TableInv, ObjectsHaveTheirGoObject
<1> QED
  BY <1>1, TypesInvariant, PTL
=============================================================================
