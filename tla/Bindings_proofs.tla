--------------------------- MODULE Bindings_proofs --------------------------
(***************************************************************************)
(* The bindings are safe for any number of addresses, frames, calls and    *)
(* threads: closures.m follows the closures of GLib, and the references on *)
(* an object are those of its owners.                                      *)
(***************************************************************************)
EXTENDS Bindings, FiniteSetTheorems, TLAPS

\* Every call whose closure somebody holds has one in memory, and what is in memory
\* has been connected; pending, connected and disconnected calls are different ones.
HeldInv ==
  /\ \A h \in pending \cup connected \cup Running(running) :
       kind[h] # "none" /\ \E a \in Addresses : memory[a] = h
  /\ \A a \in Addresses : memory[a] # Null => kind[memory[a]] # "none"
  /\ pending \cap connected = {}
  /\ \A h \in Calls : disconnecting[h].step # "no" => kind[h] # "none" /\ h \notin pending \cup connected

\* A handle is known from the end of Connect until HandlerDisconnect has read it.
HandleInv ==
  \A h \in Calls :
    /\ h \in Signals(connected) \/ disconnecting[h].step = "invalidate" => signals[h] \in Addresses
    /\ disconnecting[h].step = "delete" => disconnecting[h].closure \in Addresses

ClosuresInv == ClosuresTypeOK /\ ContextsMatchClosures /\ HeldInv /\ HandleInv

\* Who looks whether the object floats has C keep it, or else is alone with an object
\* that floats, or that a function under way keeps.
ReadInv ==
  \A t \in InStep("read") :
    \/ parents > 0
    \/ InStep("read") = {t} /\ (floating \/ InStep("inside") # {})

\* An object that WithTransferOriginal has sunk, and will make float again, does not
\* float before that, unless two of them have overlapped.
OriginalInv ==
  ~overlap =>
    /\ \A t, u \in Threads : within[t][1] = "original" /\ within[u][1] = "original" => t = u
    /\ \A t \in InStep("inside") : within[t][1] = "original" /\ within[t][3] => ~floating

Takers == {t \in Threads : within[t][1] = "take"}

\* Where a thread can be in each of the functions.
WithinInv ==
  /\ wrappers + Cardinality(Takers) <= MaxWrappers
  /\ \A t \in Threads :
       /\ within[t][1] = "none" <=> within[t] = Outside
       /\ within[t][2] = "none" <=> within[t] = Outside
       /\ within[t][1] = "take" => within[t][2] # "inside"

ObjectInv ==
  /\ ObjectTypeOK /\ (life = "alive" <=> refs > 0) /\ emissions \in 0 .. Cardinality(Frames)
  /\ RefsMatchOwners /\ ReadInv /\ OriginalInv /\ WithinInv

\* The emissions under way hold the object; a Connect under way, or a callback that
\* keeps one, has a wrapper.
BetweenInv ==
  /\ EmittingFrames <= emissions
  /\ Signals(pending) # {} => wrappers > 0
  /\ captures \subseteq Calls /\ \A h \in captures : kind[h] # "none"
  /\ Captured <= wrappers

\* The inductive invariant.
BindingsInv == ClosuresInv /\ ObjectInv /\ BetweenInv /\ FinalisedHasNoContext

-----------------------------------------------------------------------------
(***************************************************************************)
(* closures.m and the closures of GLib.                                    *)
(***************************************************************************)

FrameStates == [call : {Null} \cup Calls, step : {"idle", "marshal", "callback"}]

\* When some closures lose holders, and no other gets any, those that are finalised take
\* their context with them, and the others keep theirs.
LEMMA HoldKeeps ==
  ASSUME ClosuresInv, NEW connected1 \in SUBSET connected, NEW running1 \in [Frames -> FrameStates],
         Running(running1) \subseteq Running(running),
         Hold(connected1, running1), UNCHANGED <<kind, pending>>, lost \subseteq lost'
  PROVE  /\ connected' = connected1 /\ running' = running1
         /\ memory' \in [Addresses -> {Null} \cup Calls]
         /\ contexts' \in [Addresses -> {Null} \cup Calls]
         /\ ContextsMatchClosures'
         /\ \A h \in (pending \cup connected \cup Running(running))' :
              kind'[h] # "none" /\ \E a \in Addresses : memory'[a] = h
         /\ \A a \in Addresses : memory'[a] # Null => kind'[memory'[a]] # "none"
         /\ \A a \in Addresses : contexts'[a] \in {contexts[a], Null}
<1> DEFINE held == pending \cup connected1 \cup Running(running1)
<1>1. Null \notin Calls
  BY ClosuresAssumption DEF Null, Calls
<1>2. held \subseteq pending \cup connected \cup Running(running)
  OBVIOUS
<1>3. Null \notin held
  BY <1>1 DEF ClosuresInv, ClosuresTypeOK, Running
<1>4. /\ connected' = connected1 /\ running' = running1
      /\ memory' = [a \in Addresses |-> IF memory[a] \in held THEN memory[a] ELSE Null]
      /\ contexts' = ContextsAfter(held)
  BY DEF Hold
<1> HIDE DEF held
<1>5. memory' \in [Addresses -> {Null} \cup Calls] /\ contexts' \in [Addresses -> {Null} \cup Calls]
  BY <1>4 DEF ClosuresInv, ClosuresTypeOK, ContextsAfter
<1>6. \A a \in Addresses : contexts'[a] \in {contexts[a], Null}
  BY <1>4 DEF ContextsAfter
<1>7. ContextsMatchClosures'
  <2>1. ASSUME NEW a \in Addresses
        PROVE  contexts'[a] = memory'[a] \/ (contexts'[a] = Null /\ memory'[a] \in lost')
    BY <1>3, <1>4 DEF ClosuresInv, ContextsMatchClosures, ContextsAfter
  <2> QED
    BY <2>1 DEF ContextsMatchClosures
<1>8. ASSUME NEW h \in held PROVE kind'[h] # "none" /\ \E a \in Addresses : memory'[a] = h
  <2>1. kind[h] # "none" /\ \E a \in Addresses : memory[a] = h
    BY <1>2 DEF ClosuresInv, HeldInv
  <2> QED
    BY <1>4, <2>1
<1>9. (pending \cup connected \cup Running(running))' = held
  BY <1>4 DEF held, Running
<1>10. \A a \in Addresses : memory'[a] # Null => kind'[memory'[a]] # "none"
  BY <1>4 DEF ClosuresInv, HeldInv
<1> QED
  BY <1>4, <1>5, <1>6, <1>7, <1>8, <1>9, <1>10

\* Nothing is connected at first.
LEMMA ClosuresStart == ClosuresInit => ClosuresInv
<1> SUFFICES ASSUME ClosuresInit PROVE ClosuresInv
  OBVIOUS
<1> USE ClosuresAssumption DEF ClosuresInit, IdleFrame, NotDisconnecting
<1>1. ClosuresTypeOK
  BY DEF ClosuresTypeOK
<1>2. Running(running) = {}
  BY DEF Running
<1>3. ContextsMatchClosures /\ HeldInv
  BY <1>2 DEF ContextsMatchClosures, HeldInv
<1>4. HandleInv
  BY DEF HandleInv, Signals
<1> QED
  BY <1>1, <1>3, <1>4 DEF ClosuresInv

\* A new closure and its context share an address nobody uses.
LEMMA ClosureNewKeeps ==
  ASSUME ClosuresInv, NEW h \in Calls, NEW k \in {"signal", "source"}, NEW a \in Addresses,
         ClosureNew(h, k, a)
  PROVE  ClosuresInv'
<1> USE ClosuresAssumption DEF ClosuresInv
<1>1. /\ kind[h] = "none" /\ memory[a] = Null /\ kind' = [kind EXCEPT ![h] = k]
      /\ memory' = [memory EXCEPT ![a] = h] /\ contexts' = [contexts EXCEPT ![a] = h]
      /\ pending' = pending \cup {h}
      /\ UNCHANGED <<signals, connected, invalid, running, disconnecting, lost, status>>
  BY DEF ClosureNew, IsNext
<1>2. ClosuresTypeOK'
  BY <1>1 DEF ClosuresTypeOK
<1>3. ContextsMatchClosures'
  BY <1>1 DEF ContextsMatchClosures, ClosuresTypeOK
<1>4. h \notin pending \cup connected \cup Running(running) /\ disconnecting[h].step = "no"
  BY <1>1 DEF HeldInv
<1>5. HeldInv'
  <2>1. Running(running)' = Running(running)
    BY <1>1 DEF Running
  <2>2. ASSUME NEW g \in (pending \cup connected \cup Running(running))'
        PROVE  kind'[g] # "none" /\ \E b \in Addresses : memory'[b] = g
    <3>1. CASE g = h
      BY <1>1, <3>1 DEF ClosuresTypeOK
    <3>2. CASE g # h
      <4>1. g \in pending \cup connected \cup Running(running)
        BY <1>1, <2>1, <3>2
      <4>2. g \in Calls
        BY <4>1 DEF ClosuresTypeOK, Running
      <4>3. kind[g] # "none" /\ \E b \in Addresses : memory[b] = g
        BY <4>1 DEF HeldInv
      <4>4. PICK b \in Addresses : memory[b] = g
        BY <4>3
      <4>5. b # a
        BY <1>1, <4>2, <4>4 DEF Null, Calls
      <4> QED
        BY <1>1, <3>2, <4>2, <4>3, <4>4, <4>5 DEF ClosuresTypeOK
    <3> QED
      BY <3>1, <3>2
  <2>3. \A b \in Addresses : memory'[b] # Null => kind'[memory'[b]] # "none"
    BY <1>1 DEF HeldInv, ClosuresTypeOK
  <2>4. (pending \cap connected)' = {}
    BY <1>1, <1>4 DEF HeldInv
  <2>5. \A g \in Calls : disconnecting'[g].step # "no" =>
          kind'[g] # "none" /\ g \notin (pending \cup connected)'
    BY <1>1, <1>4 DEF HeldInv, ClosuresTypeOK
  <2> QED
    BY <2>2, <2>3, <2>4, <2>5 DEF HeldInv
<1>6. HandleInv'
  BY <1>1, <1>4 DEF HandleInv, Signals, ClosuresTypeOK
<1> QED
  BY <1>2, <1>3, <1>5, <1>6

\* No callback becomes reachable that was not: what a step may do to the contexts and
\* to the frames.
LEMMA ReachableShrinks ==
  ASSUME \A a \in Addresses : contexts'[a] \in {contexts[a], Null},
         \A f \in Frames : \/ running'[f] = running[f]
                           \/ running'[f].step # "callback"
                           \/ running'[f].call \in Reachable
  PROVE  Calls \cap Reachable' \subseteq Reachable
<1>1. Null \notin Calls
  BY ClosuresAssumption DEF Null, Calls
<1> QED
  BY <1>1 DEF Reachable

\* A step that goes no further than to let closures go keeps the invariant, if it does
\* to the handles, the disconnections and the invalid closures what it may.
LEMMA LettingGoKeeps ==
  ASSUME ClosuresInv, NEW connected1 \in SUBSET connected, NEW running1 \in [Frames -> FrameStates],
         Running(running1) \subseteq Running(running),
         Hold(connected1, running1), UNCHANGED <<kind, pending, signals, disconnecting, lost>>,
         invalid' \subseteq Calls, status' \in {"up", "panicked", "corrupted"}
  PROVE  ClosuresInv'
<1>1. /\ connected' = connected1 /\ running' = running1
      /\ memory' \in [Addresses -> {Null} \cup Calls]
      /\ contexts' \in [Addresses -> {Null} \cup Calls]
      /\ ContextsMatchClosures'
      /\ \A h \in (pending \cup connected \cup Running(running))' :
           kind'[h] # "none" /\ \E a \in Addresses : memory'[a] = h
      /\ \A a \in Addresses : memory'[a] # Null => kind'[memory'[a]] # "none"
  BY HoldKeeps
<1>2. ClosuresTypeOK'
  BY <1>1 DEF ClosuresInv, ClosuresTypeOK, FrameStates
<1>3. HeldInv'
  BY <1>1 DEF ClosuresInv, HeldInv
<1>4. HandleInv'
  BY <1>1 DEF ClosuresInv, HandleInv, Signals
<1> QED
  BY <1>1, <1>2, <1>3, <1>4 DEF ClosuresInv

\* A frame that ends lets at most the call go that it has invoked.
LEMMA ReturnedKeeps ==
  ASSUME ClosuresInv, NEW f \in Frames, NEW again \in BOOLEAN, running[f].step # "idle",
         Returned(f, again), UNCHANGED <<kind, signals, pending, invalid, disconnecting, lost>>,
         status' = status
  PROVE  ClosuresInv' /\ Calls \cap Reachable' \subseteq Reachable
         /\ \A g \in Frames : running'[g].call \in {running[g].call, Null}
<1> DEFINE h == running[f].call
           connected1 == IF kind[h] = "source" /\ ~again THEN connected \ {h} ELSE connected
           running1 == [running EXCEPT ![f] = IdleFrame]
<1>1. Hold(connected1, running1)
  BY DEF Returned
<1>2. /\ running1 \in [Frames -> FrameStates] /\ Running(running1) \subseteq Running(running)
      /\ \A g \in Frames : running1[g] = running[g] \/ running1[g] = IdleFrame
  BY DEF ClosuresInv, ClosuresTypeOK, FrameStates, IdleFrame, Running
<1>3. connected1 \in SUBSET connected
  OBVIOUS
<1> HIDE DEF connected1, running1
<1>4. invalid' \subseteq Calls /\ status' \in {"up", "panicked", "corrupted"}
  BY DEF ClosuresInv, ClosuresTypeOK
<1>5. ClosuresInv'
  BY <1>1, <1>2, <1>3, <1>4, LettingGoKeeps
<1>6. running' = running1 /\ \A a \in Addresses : contexts'[a] \in {contexts[a], Null}
  BY <1>1, <1>2, <1>3, HoldKeeps
<1>7. Calls \cap Reachable' \subseteq Reachable
  BY <1>2, <1>6, ReachableShrinks DEF IdleFrame
<1> QED
  BY <1>2, <1>5, <1>6, <1>7 DEF IdleFrame

\* The rest of Connect, SourceAttach and SourceRemove.
LEMMA ConnectKeeps ==
  ASSUME ClosuresInv, NEW h \in Calls, ConnectClosure(h) \/ SourceAttach(h) \/ SourceRemove(h)
  PROVE  /\ ClosuresInv' /\ Calls \cap Reachable' \subseteq Reachable
         /\ running' = running /\ pending' \subseteq pending
         /\ \A g \in Calls : kind'[g] = kind[g] \/ (kind[g] = "signal" /\ kind'[g] = "unknown")
<1> USE DEF ClosuresInv
<1>1. CASE ConnectClosure(h)
  <2>1. /\ h \in pending /\ kind[h] = "signal" /\ pending' \subseteq pending
        /\ UNCHANGED <<memory, contexts, invalid, running, disconnecting, lost, status>>
    BY <1>1 DEF ConnectClosure
  <2>2. Calls \cap Reachable' \subseteq Reachable
    BY <2>1 DEF Reachable
  <2>3. CASE /\ signals' = [signals EXCEPT ![h] = AddressOf(h)]
             /\ pending' = pending \ {h} /\ connected' = connected \cup {h}
             /\ UNCHANGED kind
    <3>1. AddressOf(h) \in Addresses
      BY <2>1 DEF HeldInv, AddressOf
    <3>2. ClosuresTypeOK'
      BY <2>1, <2>3, <3>1 DEF ClosuresTypeOK
    <3>3. ContextsMatchClosures'
      BY <2>1 DEF ContextsMatchClosures
    <3>4. HeldInv'
      BY <2>1, <2>3 DEF HeldInv, Running
    <3>5. HandleInv'
      BY <2>1, <2>3, <3>1 DEF HandleInv, Signals, ClosuresTypeOK
    <3> QED
      BY <2>1, <2>2, <2>3, <3>2, <3>3, <3>4, <3>5
  <2>4. CASE kind' = [kind EXCEPT ![h] = "unknown"] /\ UNCHANGED <<signals, pending, connected>>
    <3>1. ClosuresTypeOK' /\ ContextsMatchClosures'
      BY <2>1, <2>4 DEF ClosuresTypeOK, ContextsMatchClosures
    <3>2. \A g \in Calls : kind[g] # "none" => kind'[g] # "none"
      BY <2>4 DEF ClosuresTypeOK
    <3>3. HeldInv'
      BY <2>1, <2>4, <3>2 DEF HeldInv, Running, ClosuresTypeOK
    <3>4. HandleInv'
      BY <2>1, <2>4 DEF HandleInv, Signals, ClosuresTypeOK
    <3> QED
      BY <2>1, <2>2, <2>4, <3>1, <3>3, <3>4 DEF ClosuresTypeOK
  <2> QED
    BY <1>1, <2>3, <2>4 DEF ConnectClosure
<1>2. CASE SourceAttach(h)
  <2>1. /\ h \in pending /\ kind[h] = "source"
        /\ pending' = pending \ {h} /\ connected' = connected \cup {h}
        /\ UNCHANGED <<kind, memory, contexts, signals, invalid, running, disconnecting, lost, status>>
    BY <1>2 DEF SourceAttach
  <2>2. ClosuresTypeOK' /\ ContextsMatchClosures'
    BY <2>1 DEF ClosuresTypeOK, ContextsMatchClosures
  <2>3. HeldInv'
    BY <2>1 DEF HeldInv, Running
  <2>4. HandleInv'
    BY <2>1 DEF HandleInv, Signals
  <2> QED
    BY <2>1, <2>2, <2>3, <2>4 DEF Reachable
<1>3. CASE SourceRemove(h)
  <2>1. /\ Hold(connected \ {h}, running)
        /\ UNCHANGED <<kind, signals, pending, invalid, disconnecting, lost, status>>
    BY <1>3 DEF SourceRemove
  <2>2. running \in [Frames -> FrameStates] /\ invalid' \subseteq Calls
        /\ status' \in {"up", "panicked", "corrupted"}
    BY <2>1 DEF ClosuresTypeOK, FrameStates
  <2>3. ClosuresInv'
    BY <2>1, <2>2, LettingGoKeeps
  <2>4. running' = running /\ \A a \in Addresses : contexts'[a] \in {contexts[a], Null}
    BY <2>1, <2>2, HoldKeeps
  <2> QED
    BY <2>1, <2>3, <2>4, ReachableShrinks
<1> QED
  BY <1>1, <1>2, <1>3

\* HandlerDisconnect: the handle is read before it is dropped, and so is the address
\* whose context is removed; what is removed there is recorded as lost.
LEMMA DisconnectKeeps ==
  ASSUME ClosuresInv, NEW h \in Calls,
         Disconnect(h) \/ DisconnectInvalidate(h) \/ DisconnectDelete(h)
  PROVE  /\ ClosuresInv' /\ Calls \cap Reachable' \subseteq Reachable
         /\ UNCHANGED <<running, pending, kind>>
<1> USE DEF ClosuresInv
<1>0. /\ running \in [Frames -> FrameStates] /\ connected \subseteq Calls
      /\ disconnecting \in [Calls -> [step : {"no", "invalidate", "delete"},
                                      closure : {Null} \cup Addresses]]
  BY DEF ClosuresTypeOK, FrameStates
<1>1. CASE Disconnect(h)
  <2>1. /\ h \in connected /\ kind[h] = "signal" /\ Hold(connected \ {h}, running)
        /\ disconnecting' = [disconnecting EXCEPT ![h].step = "invalidate"]
        /\ UNCHANGED <<kind, signals, pending, invalid, lost, status>>
    BY <1>1 DEF Disconnect, Signals
  <2>2. /\ connected' = connected \ {h} /\ running' = running
        /\ memory' \in [Addresses -> {Null} \cup Calls]
        /\ contexts' \in [Addresses -> {Null} \cup Calls]
        /\ ContextsMatchClosures'
        /\ \A g \in (pending \cup connected \cup Running(running))' :
             kind'[g] # "none" /\ \E a \in Addresses : memory'[a] = g
        /\ \A a \in Addresses : memory'[a] # Null => kind'[memory'[a]] # "none"
        /\ \A a \in Addresses : contexts'[a] \in {contexts[a], Null}
    BY <1>0, <2>1, HoldKeeps
  <2>3. /\ disconnecting' \in [Calls -> [step : {"no", "invalidate", "delete"},
                                         closure : {Null} \cup Addresses]]
        /\ disconnecting'[h].step = "invalidate"
        /\ \A g \in Calls \ {h} : disconnecting'[g] = disconnecting[g]
    BY <1>0, <2>1
  <2>4. ClosuresTypeOK'
    BY <2>1, <2>2, <2>3 DEF ClosuresTypeOK
  <2>5. h \notin pending /\ kind[h] # "none" /\ signals[h] \in Addresses
    BY <2>1 DEF HeldInv, HandleInv, Signals
  <2>6. HeldInv'
    BY <2>1, <2>2, <2>3, <2>5 DEF HeldInv
  <2>7. HandleInv'
    BY <2>1, <2>2, <2>3, <2>5 DEF HandleInv, Signals
  <2> QED
    BY <2>1, <2>2, <2>4, <2>6, <2>7, ReachableShrinks
<1>2. CASE DisconnectInvalidate(h)
  <2> DEFINE g == memory[signals[h]]
  <2>1. /\ disconnecting[h].step = "invalidate" /\ signals[h] \in Addresses
        /\ disconnecting' = [disconnecting EXCEPT ![h] = [step |-> "delete", closure |-> signals[h]]]
        /\ signals' = [signals EXCEPT ![h] = Null]
        /\ UNCHANGED <<kind, pending, lost>>
    BY <1>2 DEF DisconnectInvalidate, HandleInv
  <2>2. /\ disconnecting' \in [Calls -> [step : {"no", "invalidate", "delete"},
                                         closure : {Null} \cup Addresses]]
        /\ disconnecting'[h] = [step |-> "delete", closure |-> signals[h]]
        /\ \A k \in Calls \ {h} : disconnecting'[k] = disconnecting[k]
        /\ signals' \in [Calls -> {Null} \cup Addresses]
        /\ \A k \in Calls \ {h} : signals'[k] = signals[k]
    BY <1>0, <2>1 DEF ClosuresTypeOK
  <2>3. h \notin connected /\ kind[h] # "none" /\ h \notin pending
    BY <2>1 DEF HeldInv
  <2>4. CASE /\ g = Null /\ status' \in {"up", "corrupted"}
             /\ UNCHANGED <<memory, contexts, connected, running, invalid>>
    <3>1. ClosuresTypeOK' /\ ContextsMatchClosures'
      BY <2>1, <2>2, <2>4 DEF ClosuresTypeOK, ContextsMatchClosures
    <3>2. HeldInv'
      BY <2>1, <2>2, <2>3, <2>4 DEF HeldInv, Running
    <3>3. HandleInv'
      BY <2>1, <2>2, <2>3, <2>4 DEF HandleInv, Signals
    <3> QED
      BY <2>1, <2>4, <3>1, <3>2, <3>3 DEF Reachable
  <2>5. CASE /\ g # Null /\ invalid' = invalid \cup {g} /\ UNCHANGED status
             /\ Hold(connected \ (Signals({g}) \cap connected), running)
    <3> DEFINE connected1 == connected \ (Signals({g}) \cap connected)
    <3>1. g \in Calls /\ connected1 \in SUBSET connected
      BY <2>1, <2>5 DEF ClosuresTypeOK
    <3> HIDE DEF connected1
    <3>2. Hold(connected1, running) /\ lost \subseteq lost'
      BY <2>1, <2>5 DEF connected1
    <3>3. /\ connected' = connected1 /\ running' = running
          /\ memory' \in [Addresses -> {Null} \cup Calls]
          /\ contexts' \in [Addresses -> {Null} \cup Calls]
          /\ ContextsMatchClosures'
          /\ \A k \in (pending \cup connected \cup Running(running))' :
               kind'[k] # "none" /\ \E a \in Addresses : memory'[a] = k
          /\ \A a \in Addresses : memory'[a] # Null => kind'[memory'[a]] # "none"
          /\ \A a \in Addresses : contexts'[a] \in {contexts[a], Null}
      BY <1>0, <2>1, <3>1, <3>2, HoldKeeps
    <3>4. ClosuresTypeOK'
      BY <1>0, <2>1, <2>2, <2>5, <3>1, <3>3 DEF ClosuresTypeOK
    <3>5. HeldInv'
      BY <2>1, <2>2, <2>3, <3>1, <3>3 DEF HeldInv
    <3>6. HandleInv'
      BY <2>1, <2>2, <2>3, <3>1, <3>3 DEF HandleInv, Signals
    <3> QED
      BY <2>1, <3>3, <3>4, <3>5, <3>6, ReachableShrinks
  <2> QED
    BY <1>2, <2>4, <2>5 DEF DisconnectInvalidate
<1>3. CASE DisconnectDelete(h)
  <2> DEFINE d == disconnecting[h].closure
  <2>1. /\ disconnecting[h].step = "delete" /\ d \in Addresses
        /\ contexts' = [contexts EXCEPT ![d] = Null]
        /\ lost' = lost \cup ({contexts[d]} \ {Null})
        /\ disconnecting' = [disconnecting EXCEPT ![h] = NotDisconnecting]
        /\ UNCHANGED <<kind, memory, signals, pending, connected, invalid, running, status>>
    BY <1>3 DEF DisconnectDelete, HandleInv
  <2> HIDE DEF d
  <2>2. /\ disconnecting' \in [Calls -> [step : {"no", "invalidate", "delete"},
                                         closure : {Null} \cup Addresses]]
        /\ disconnecting'[h].step = "no"
        /\ \A k \in Calls \ {h} : disconnecting'[k] = disconnecting[k]
    BY <1>0, <2>1 DEF NotDisconnecting
  <2>3. ClosuresTypeOK'
    BY <2>1, <2>2 DEF ClosuresTypeOK
  <2>4. ContextsMatchClosures'
    BY <2>1 DEF ContextsMatchClosures, ClosuresTypeOK
  <2>5. HeldInv'
    BY <2>1, <2>2 DEF HeldInv, Running
  <2>6. HandleInv'
    BY <2>1, <2>2 DEF HandleInv, Signals
  <2>7. \A a \in Addresses : contexts'[a] \in {contexts[a], Null}
    BY <2>1 DEF ClosuresTypeOK
  <2> QED
    BY <2>1, <2>3, <2>4, <2>5, <2>6, <2>7, ReachableShrinks
<1> QED
  BY <1>1, <1>2, <1>3

\* goMarshal finds the callback of the call that is invoked, or none at all: the one
\* that runs was reachable.  The end of an object, and a frame that returns, let go.
LEMMA FramesKeep ==
  ASSUME ClosuresInv, NEW f \in Frames, Marshal(f) \/ Return(f)
  PROVE  /\ ClosuresInv' /\ Calls \cap Reachable' \subseteq Reachable
         /\ UNCHANGED <<pending, kind>>
         /\ \A g \in Frames : running'[g].call \in {running[g].call, Null}
<1> USE DEF ClosuresInv
<1>1. CASE Return(f)
  <2>1. PICK again \in BOOLEAN : Returned(f, again)
    BY <1>1 DEF Return
  <2>2. /\ running[f].step # "idle" /\ status' = status
        /\ UNCHANGED <<kind, signals, pending, invalid, disconnecting, lost>>
    BY <1>1 DEF Return
  <2> QED
    BY <2>1, <2>2, ReturnedKeeps
<1>2. CASE Marshal(f)
  <2> DEFINE a == AddressOf(running[f].call)
  <2>1. /\ running[f].step = "marshal"
        /\ UNCHANGED <<kind, signals, pending, invalid, disconnecting, lost>>
    BY <1>2 DEF Marshal
  <2>2. CASE /\ contexts[a] = Null /\ status' = "panicked"
             /\ UNCHANGED <<memory, contexts, connected, running>>
    <3>1. ClosuresTypeOK' /\ ContextsMatchClosures'
      BY <2>1, <2>2 DEF ClosuresTypeOK, ContextsMatchClosures
    <3>2. HeldInv' /\ HandleInv'
      BY <2>1, <2>2 DEF HeldInv, HandleInv, Running, Signals
    <3> QED
      BY <2>1, <2>2, <3>1, <3>2 DEF Reachable
  <2>3. CASE /\ contexts[a] # Null
             /\ running' = [running EXCEPT ![f] = [@ EXCEPT !.step = "callback"]]
             /\ UNCHANGED <<memory, contexts, connected, status>>
    <3>1. /\ running' \in [Frames -> FrameStates]
          /\ \A g \in Frames : running'[g].call = running[g].call
          /\ \A g \in Frames \ {f} : running'[g] = running[g]
      BY <2>3 DEF ClosuresTypeOK, FrameStates
    <3>2. Running(running)' = Running(running)
      BY <3>1 DEF Running
    <3>3. ClosuresTypeOK' /\ ContextsMatchClosures'
      BY <2>1, <2>3, <3>1 DEF ClosuresTypeOK, ContextsMatchClosures, FrameStates
    <3>4. HeldInv' /\ HandleInv'
      BY <2>1, <2>3, <3>2 DEF HeldInv, HandleInv, Signals
    <3>5. running[f].call = Null \/ running[f].call \in Reachable
      <4>1. SUFFICES ASSUME running[f].call # Null PROVE running[f].call \in Reachable
        OBVIOUS
      <4>2. running[f].call \in Running(running)
        BY <4>1 DEF Running
      <4>3. a \in Addresses /\ memory[a] = running[f].call
        BY <4>2 DEF HeldInv, AddressOf
      <4>4. contexts[a] = running[f].call
        BY <2>3, <4>3 DEF ContextsMatchClosures
      <4> QED
        BY <4>3, <4>4 DEF Reachable
    <3>6. Calls \cap Reachable' \subseteq Reachable
      <4>1. Null \notin Calls
        BY ClosuresAssumption DEF Null, Calls
      <4> QED
        BY <2>3, <3>1, <3>5, <4>1 DEF Reachable
    <3> QED
      BY <2>1, <3>1, <3>3, <3>4, <3>6
  <2>4. CASE Returned(f, FALSE) /\ UNCHANGED status
    BY <2>1, <2>4, ReturnedKeeps
  <2> QED
    BY <1>2, <2>2, <2>3, <2>4 DEF Marshal
<1> QED
  BY <1>1, <1>2

\* An emission or a dispatch begins with a call that is connected.
LEMMA InvokeKeeps ==
  ASSUME ClosuresInv, NEW f \in Frames, NEW h \in Calls, Invoke(f, h)
  PROVE  ClosuresInv' /\ Calls \cap Reachable' \subseteq Reachable
<1> USE DEF ClosuresInv
<1>1. /\ h \in connected /\ running[f] = IdleFrame
      /\ running' = [running EXCEPT ![f] = [call |-> h, step |-> "marshal"]]
      /\ UNCHANGED <<kind, memory, contexts, signals, pending, connected, invalid,
                     disconnecting, lost, status>>
  BY DEF Invoke
<1>2. /\ running' \in [Frames -> FrameStates] /\ running'[f] = [call |-> h, step |-> "marshal"]
      /\ \A g \in Frames \ {f} : running'[g] = running[g]
  BY <1>1 DEF ClosuresTypeOK, FrameStates
<1>3. ClosuresTypeOK' /\ ContextsMatchClosures'
  BY <1>1, <1>2 DEF ClosuresTypeOK, ContextsMatchClosures, FrameStates
<1>4. Running(running)' \subseteq Running(running) \cup {h}
  BY <1>2 DEF Running
<1>5. HeldInv' /\ HandleInv'
  BY <1>1, <1>4 DEF HeldInv, HandleInv, Signals
<1>6. Calls \cap Reachable' \subseteq Reachable
  BY <1>1, <1>2 DEF Reachable
<1> QED
  BY <1>3, <1>5, <1>6

\* The object is finalised: of the signals, only those of calls that are pending or run
\* keep a context.
LEMMA DestroyedKeeps ==
  ASSUME ClosuresInv, HandlersDestroyed
  PROVE  /\ ClosuresInv' /\ Calls \cap Reachable' \subseteq Reachable
         /\ UNCHANGED <<kind, pending, running>>
         /\ \A a \in Addresses :
              contexts'[a] \in Signals(Calls) => contexts'[a] \in pending \cup Running(running)
<1> DEFINE connected1 == connected \ Signals(connected)
<1>1. /\ Hold(connected1, running) /\ connected1 \in SUBSET connected
      /\ UNCHANGED <<kind, signals, pending, invalid, disconnecting, lost, status>>
  BY DEF HandlersDestroyed
<1>2. /\ running \in [Frames -> FrameStates] /\ invalid' \subseteq Calls
      /\ status' \in {"up", "panicked", "corrupted"}
  BY <1>1 DEF ClosuresInv, ClosuresTypeOK, FrameStates
<1>3. \A h \in connected1 : kind[h] # "signal"
  BY DEF Signals
<1>4. contexts' = ContextsAfter(pending \cup connected1 \cup Running(running))
  BY <1>1 DEF Hold
<1> HIDE DEF connected1
<1>5. ClosuresInv'
  BY <1>1, <1>2, LettingGoKeeps
<1>6. running' = running /\ \A a \in Addresses : contexts'[a] \in {contexts[a], Null}
  BY <1>1, <1>2, HoldKeeps
<1>7. ASSUME NEW a \in Addresses, contexts'[a] \in Signals(Calls)
      PROVE  contexts'[a] \in pending \cup Running(running)
  <2>1. contexts'[a] # Null /\ kind[contexts'[a]] = "signal"
    BY <1>7, ClosuresAssumption DEF Signals, Calls, Null
  <2>2. contexts'[a] = contexts[a] /\ contexts[a] = memory[a]
    BY <1>6, <2>1 DEF ClosuresInv, ContextsMatchClosures
  <2>3. memory[a] \in pending \cup connected1 \cup Running(running)
    BY <1>4, <2>1, <2>2 DEF ContextsAfter
  <2> QED
    BY <1>3, <2>1, <2>2, <2>3
<1> QED
  BY <1>1, <1>5, <1>6, <1>7, ReachableShrinks

-----------------------------------------------------------------------------
(***************************************************************************)
(* The references on the object.                                           *)
(***************************************************************************)

\* A finite set that gets or loses at most one element.
LEMMA OneMoves ==
  ASSUME NEW A, NEW B, NEW x, IsFiniteSet(A), \A y : y # x => (y \in A <=> y \in B)
  PROVE  /\ IsFiniteSet(B) /\ Cardinality(A) \in Nat /\ Cardinality(B) \in Nat
         /\ Cardinality(B) = Cardinality(A) + (IF x \in B THEN 1 ELSE 0)
                                            - (IF x \in A THEN 1 ELSE 0)
<1>1. CASE (x \in A) = (x \in B)
  <2>1. A = B
    BY <1>1
  <2> QED
    BY <2>1, FS_CardinalityType
<1>2. CASE x \in B /\ x \notin A
  <2>1. B = A \cup {x}
    BY <1>2
  <2>2. IsFiniteSet(B) /\ Cardinality(B) = Cardinality(A) + 1
    BY <1>2, <2>1, FS_AddElement
  <2> QED
    BY <1>2, <2>2, FS_CardinalityType
<1>3. CASE x \in A /\ x \notin B
  <2>1. B = A \ {x}
    BY <1>3
  <2>2. IsFiniteSet(B) /\ Cardinality(B) = Cardinality(A) - 1
    BY <1>3, <2>1, FS_RemoveElement
  <2>3. Cardinality(A) \in Nat /\ Cardinality(B) \in Nat
    BY <2>2, FS_CardinalityType
  <2> QED
    BY <1>3, <2>2, <2>3
<1> QED
  BY <1>1, <1>2, <1>3

Positions ==
  {"none", "take", "original", "none-full"} \X {"none", "read", "inside"} \X BOOLEAN

\* As many threads are inside a function, and in Take, as the sets say.
LEMMA ThreadsCounted ==
  ASSUME NEW step
  PROVE  /\ IsFiniteSet(InStep(step)) /\ Cardinality(InStep(step)) \in Nat
         /\ Cardinality(InStep(step)) = 0 <=> InStep(step) = {}
         /\ IsFiniteSet(Takers) /\ Cardinality(Takers) \in Nat
<1>1. InStep(step) \in SUBSET Threads /\ Takers \in SUBSET Threads
  BY DEF InStep, Takers
<1>2. IsFiniteSet(InStep(step)) /\ IsFiniteSet(Takers)
  BY <1>1, ObjectAssumption, FS_Subset
<1> QED
  BY <1>2, FS_CardinalityType, FS_EmptySet

\* A thread that moves is counted where it goes, and no longer where it was.
LEMMA ThreadMoves ==
  ASSUME within \in [Threads -> Positions], NEW t \in Threads, NEW p \in Positions,
         within' = [within EXCEPT ![t] = p]
  PROVE  /\ within' \in [Threads -> Positions] /\ within'[t] = p
         /\ \A u \in Threads \ {t} : within'[u] = within[u]
         /\ \A step : InStep(step)' = (InStep(step) \ {t}) \cup (IF p[2] = step THEN {t} ELSE {})
         /\ Cardinality(InStep("inside"))' =
              Cardinality(InStep("inside")) + (IF p[2] = "inside" THEN 1 ELSE 0)
                                            - (IF within[t][2] = "inside" THEN 1 ELSE 0)
         /\ Cardinality(Takers)' =
              Cardinality(Takers) + (IF p[1] = "take" THEN 1 ELSE 0)
                                  - (IF within[t][1] = "take" THEN 1 ELSE 0)
<1>1. /\ within' \in [Threads -> Positions] /\ within'[t] = p
      /\ \A u \in Threads \ {t} : within'[u] = within[u]
  OBVIOUS
<1>2. ASSUME NEW step
      PROVE  InStep(step)' = (InStep(step) \ {t}) \cup (IF p[2] = step THEN {t} ELSE {})
  BY <1>1 DEF InStep
<1>3. Cardinality(InStep("inside")') =
        Cardinality(InStep("inside")) + (IF t \in InStep("inside")' THEN 1 ELSE 0)
                                      - (IF t \in InStep("inside") THEN 1 ELSE 0)
  <2>1. \A y : y # t => (y \in InStep("inside") <=> y \in InStep("inside")')
    BY <1>1 DEF InStep
  <2> QED
    BY <2>1, ThreadsCounted, OneMoves
<1>4. Cardinality(Takers') =
        Cardinality(Takers) + (IF t \in Takers' THEN 1 ELSE 0) - (IF t \in Takers THEN 1 ELSE 0)
  <2>1. \A y : y # t => (y \in Takers <=> y \in Takers')
    BY <1>1 DEF Takers
  <2> QED
    BY <2>1, ThreadsCounted, OneMoves
<1>5. /\ t \in InStep("inside")' <=> p[2] = "inside"
      /\ t \in InStep("inside") <=> within[t][2] = "inside"
      /\ t \in Takers' <=> p[1] = "take"
      /\ t \in Takers <=> within[t][1] = "take"
  BY <1>1 DEF InStep, Takers
<1> QED
  BY <1>1, <1>2, <1>3, <1>4, <1>5

\* The reference that nobody owns yet.
Loose(float) == IF float THEN 1 ELSE 0

\* It is one or none.
LEMMA LooseIsOne ==
  ASSUME NEW float \in BOOLEAN
  PROVE  /\ Loose(float) \in Nat /\ Loose(float) \in {0, 1}
         /\ float => Loose(float) = 1
         /\ ~float => Loose(float) = 0
  BY DEF Loose

\* The owners that a step of no thread can change.
Others == parents + wrappers + values + emissions + Loose(floating)

\* The numbers of the invariant, and that whoever reads whether the object floats, or
\* owns a reference, finds it alive.
LEMMA OwnersCounted ==
  ASSUME ObjectInv
  PROVE  /\ refs \in Nat /\ parents \in Nat /\ wrappers \in Nat /\ values \in Nat
         /\ emissions \in Nat /\ Cardinality(InStep("inside")) \in Nat /\ Others \in Nat
         /\ Loose(floating) \in Nat /\ floating \in BOOLEAN
         /\ \/ refs = Others + Cardinality(InStep("inside"))
            \/ refs > Others + Cardinality(InStep("inside")) /\ overlap
         /\ refs >= Others + Cardinality(InStep("inside"))
         /\ InStep("read") # {} => parents > 0 \/ floating \/ Cardinality(InStep("inside")) > 0
<1>1. /\ refs \in Nat /\ parents \in Nat /\ wrappers \in Nat /\ values \in Nat
      /\ emissions \in Nat /\ Cardinality(InStep("inside")) \in Nat
  <2>1. Cardinality(Frames) \in Nat
    BY ClosuresAssumption, FS_CardinalityType
  <2> QED
    BY <2>1, ThreadsCounted, ObjectAssumption DEF ObjectInv, ObjectTypeOK
<1>2. floating \in BOOLEAN /\ Loose(floating) \in Nat
  BY LooseIsOne DEF ObjectInv, ObjectTypeOK
<1>3. Others \in Nat
  BY <1>1, <1>2 DEF Others
<1>4. Owned + emissions + (IF floating THEN 1 ELSE 0) = Others + Cardinality(InStep("inside"))
  <2>1. (IF floating THEN 1 ELSE 0) = Loose(floating)
    BY DEF Loose
  <2> QED
    BY <1>1, <1>2, <2>1 DEF Owned, Others
<1>5. \/ refs = Others + Cardinality(InStep("inside"))
      \/ refs > Others + Cardinality(InStep("inside")) /\ overlap
  BY <1>4 DEF ObjectInv, RefsMatchOwners
<1>6. refs >= Others + Cardinality(InStep("inside"))
  BY <1>1, <1>3, <1>5
<1>7. InStep("read") # {} => parents > 0 \/ floating \/ Cardinality(InStep("inside")) > 0
  BY <1>1, ThreadsCounted DEF ObjectInv, ReadInv
<1> QED
  BY <1>1, <1>2, <1>3, <1>5, <1>6, <1>7

\* An object that is not alive has neither wrappers nor emissions.
LEMMA NobodyOwns == ObjectInv /\ life # "alive" => wrappers = 0 /\ emissions = 0
<1> SUFFICES ASSUME ObjectInv, life # "alive" PROVE wrappers = 0 /\ emissions = 0
  OBVIOUS
<1> DEFINE inside == Cardinality(InStep("inside"))
           loose == Loose(floating)
<1>1. ~(refs > 0)
  BY DEF ObjectInv
<1>2. /\ refs \in Nat /\ parents \in Nat /\ wrappers \in Nat /\ values \in Nat
      /\ emissions \in Nat /\ loose \in Nat /\ inside \in Nat
  BY OwnersCounted
<1>3. refs >= parents + wrappers + values + emissions + loose + inside
  BY OwnersCounted DEF Others
<1> HIDE DEF inside, loose
<1> QED
  BY <1>1, <1>2, <1>3

\* Nor has one that is not alive after a step.
LEMMA NobodyOwnsNext == ObjectInv' /\ life' # "alive" => wrappers' = 0 /\ emissions' = 0
<1> DEFINE Unowned == ObjectInv /\ life # "alive" => wrappers = 0 /\ emissions = 0
<1>1. Unowned
  BY NobodyOwns
<1> HIDE DEF Unowned
<1>2. Unowned'
  BY <1>1, PTL
<1> QED
  BY <1>2 DEF Unowned

\* A step that moves no thread keeps the invariant, if references and owners change
\* alike, and C keeps the object for who reads whether it floats.
LEMMA OwnersKeep ==
  ASSUME ObjectInv, UNCHANGED <<within, overlap>>,
         refs' \in Nat, parents' \in 0 .. MaxParents, values' \in 0 .. 1,
         life' \in {"none", "alive", "finalised"}, floating' \in BOOLEAN,
         emissions' \in 0 .. Cardinality(Frames),
         wrappers' \in Nat, wrappers' + Cardinality(Takers) <= MaxWrappers,
         life' = "alive" <=> refs' > 0,
         refs' - Others' = refs - Others,
         InStep("read") # {} => parents' > 0 \/ (parents' = parents /\ (floating => floating')),
         floating' => floating \/ InStep("inside") = {}
  PROVE  ObjectInv'
<1>1. /\ InStep("inside")' = InStep("inside") /\ InStep("read")' = InStep("read")
      /\ Takers' = Takers
  BY DEF InStep, Takers
<1>2. Cardinality(InStep("inside")) \in Nat /\ Cardinality(Takers) \in Nat
  BY ThreadsCounted
<1>3. RefsMatchOwners'
  <2> DEFINE owned == Owned + emissions + (IF floating THEN 1 ELSE 0)
  <2>1. parents' \in Nat /\ values' \in Nat /\ emissions' \in Nat
    BY ClosuresAssumption, ObjectAssumption, FS_CardinalityType
  <2>2. Loose(floating') \in Nat /\ (IF floating' THEN 1 ELSE 0) = Loose(floating')
    BY LooseIsOne DEF Loose
  <2>3. Others' \in Nat
    BY <2>1, <2>2 DEF Others
  <2>4. owned' = Others' + Cardinality(InStep("inside"))
    BY <1>1, <1>2, <2>1, <2>2 DEF Owned, Others
  <2> HIDE DEF owned
  <2>5. refs' = owned' \/ (refs' > owned' /\ overlap)
    BY <1>2, <2>3, <2>4, OwnersCounted
  <2> QED
    BY <2>5 DEF RefsMatchOwners, owned
<1>4. ReadInv'
  BY <1>1 DEF ObjectInv, ReadInv
<1>5. OriginalInv'
  BY <1>1 DEF ObjectInv, OriginalInv
<1>6. WithinInv'
  BY <1>1 DEF ObjectInv, WithinInv
<1>7. ObjectTypeOK'
  <2>1. wrappers' \in 0 .. MaxWrappers
    BY <1>2, ObjectAssumption
  <2> QED
    BY <2>1 DEF ObjectInv, ObjectTypeOK
<1> QED
  BY <1>3, <1>4, <1>5, <1>6, <1>7 DEF ObjectInv

\* C, the collector, the values and the emissions.
LEMMA OwnersStep ==
  ASSUME ObjectInv, EmittingFrames \in Nat,
         \/ (Create \/ ParentSinks \/ ParentUnrefs \/ TransferFull \/ SetInstance \/ UnsetValue
               \/ FinalizeWrapper) /\ UNCHANGED emissions
         \/ EmitBegins \/ EmitEnds
  PROVE  ObjectInv'
<1> USE ObjectAssumption
<1>1. /\ ObjectTypeOK /\ (life = "alive" <=> refs > 0) /\ emissions \in 0 .. Cardinality(Frames)
      /\ wrappers + Cardinality(Takers) <= MaxWrappers /\ Cardinality(Frames) \in Nat
      /\ parents \in 0 .. MaxParents /\ values \in 0 .. 1 /\ floating \in BOOLEAN
      /\ life \in {"none", "alive", "finalised"} /\ Cardinality(Takers) \in Nat
  BY ClosuresAssumption, ThreadsCounted, FS_CardinalityType DEF ObjectInv, WithinInv, ObjectTypeOK
<1>2. /\ refs \in Nat /\ parents \in Nat /\ wrappers \in Nat /\ values \in Nat
      /\ emissions \in Nat /\ Cardinality(InStep("inside")) \in Nat /\ Others \in Nat
      /\ Loose(floating) \in Nat /\ refs >= Others + Cardinality(InStep("inside"))
      /\ Others = parents + wrappers + values + emissions + Loose(floating)
  BY OwnersCounted DEF Others
<1>3. Others' = parents' + wrappers' + values' + emissions' + Loose(floating')
  BY DEF Others
<1>4. CASE Create /\ UNCHANGED emissions
  <2>1. /\ life' = "alive" /\ refs' = 1 /\ floating' \in BOOLEAN
        /\ parents' = (IF floating' THEN 0 ELSE 1)
        /\ UNCHANGED <<wrappers, values, within, overlap, emissions>> /\ refs = 0
    BY <1>1, <1>2, <1>4 DEF Create
  <2>2. /\ parents = 0 /\ wrappers = 0 /\ values = 0 /\ emissions = 0 /\ Loose(floating) = 0
        /\ Cardinality(InStep("inside")) = 0
    <3> DEFINE loose == Loose(floating)
               inside == Cardinality(InStep("inside"))
    <3>1. loose \in Nat /\ inside \in Nat /\ 0 >= parents + wrappers + values + emissions + loose + inside
      BY <1>2, <2>1
    <3> HIDE DEF loose, inside
    <3>2. parents = 0 /\ wrappers = 0 /\ values = 0 /\ emissions = 0 /\ loose = 0 /\ inside = 0
      BY <1>2, <3>1
    <3> QED
      BY <3>2 DEF loose, inside
  <2>3. ~floating /\ InStep("inside") = {} /\ InStep("read") = {}
    BY <2>2, OwnersCounted, ThreadsCounted, LooseIsOne
  <2>4. parents' + Loose(floating') = 1 /\ parents' \in 0 .. 1
    BY <2>1 DEF Loose
  <2>5. parents' \in 0 .. MaxParents /\ refs' - Others' = refs - Others
    <3>1. Loose(floating') \in Nat
      BY <2>1, LooseIsOne
    <3> QED
      BY <1>2, <1>3, <2>1, <2>2, <2>4, <3>1
  <2>6. refs' > 0 /\ wrappers' \in Nat /\ wrappers' + Cardinality(Takers) <= MaxWrappers
    BY <1>1, <1>2, <2>1
  <2> QED
    BY <1>1, <2>1, <2>3, <2>5, <2>6, OwnersKeep
<1>5. CASE ParentSinks /\ UNCHANGED emissions
  <2>1. /\ life = "alive" /\ refs > 0 /\ refs' = (IF floating THEN refs ELSE refs + 1) /\ floating' = FALSE
        /\ parents' = parents + 1 /\ parents < MaxParents
        /\ UNCHANGED <<life, wrappers, values, within, overlap, emissions>>
    BY <1>1, <1>5 DEF ParentSinks, RefSink
  <2>2. refs' = refs + 1 - Loose(floating) /\ Loose(floating') = 0
    <3>1. CASE floating
      BY <1>2, <2>1, <3>1 DEF Loose
    <3>2. CASE ~floating
      BY <1>2, <2>1, <3>2 DEF Loose
    <3> QED
      BY <3>1, <3>2
  <2>3. refs' \in Nat /\ refs' > 0
    BY <1>2, <2>1, <2>2
  <2>4. refs' - Others' = refs - Others /\ parents' > 0 /\ parents' \in 0 .. MaxParents
    BY <1>1, <1>2, <1>3, <2>1, <2>2
  <2> QED
    BY <1>1, <1>2, <2>1, <2>3, <2>4, OwnersKeep
<1>6. CASE ParentUnrefs /\ UNCHANGED emissions
  <2>1. /\ parents > 0 /\ (InStep("read") = {} \/ parents > 1)
        /\ refs' = refs - 1 /\ life' = (IF refs = 1 THEN "finalised" ELSE "alive")
        /\ parents' = parents - 1
        /\ UNCHANGED <<floating, wrappers, values, within, overlap, emissions>>
    BY <1>6 DEF ParentUnrefs, Unref, CanGive
  <2>2. refs > 0 /\ refs' \in Nat /\ refs' - Others' = refs - Others /\ parents' \in 0 .. MaxParents
    BY <1>1, <1>2, <1>3, <2>1
  <2>3. life' = "alive" <=> refs' > 0
    BY <1>2, <2>1, <2>2
  <2>4. InStep("read") # {} => parents' > 0
    BY <1>2, <2>1
  <2> QED
    BY <1>1, <1>2, <2>1, <2>2, <2>3, <2>4, OwnersKeep
<1>7. CASE TransferFull /\ UNCHANGED emissions
  <2>1. Takers = {t \in Threads : within[t][1] = "take"}
    BY DEF Takers
  <2>2. /\ parents > 0 /\ (InStep("read") = {} \/ parents > 1)
        /\ wrappers + Cardinality(Takers) < MaxWrappers
        /\ wrappers' = wrappers + 1 /\ parents' = parents - 1
        /\ UNCHANGED <<life, refs, floating, values, within, overlap, emissions>>
    BY <1>7, <2>1 DEF TransferFull, CanGive, RoomForWrapper
  <2>3. /\ refs' - Others' = refs - Others /\ parents' \in 0 .. MaxParents
        /\ wrappers' \in Nat /\ wrappers' + Cardinality(Takers) <= MaxWrappers
        /\ (InStep("read") # {} => parents' > 0)
    BY <1>1, <1>2, <1>3, <2>2
  <2> QED
    BY <1>1, <1>2, <2>2, <2>3, OwnersKeep
<1>8. CASE SetInstance /\ UNCHANGED emissions
  <2>1. /\ wrappers > 0 /\ values = 0 /\ refs' = refs + 1 /\ values' = 1
        /\ UNCHANGED <<life, floating, parents, wrappers, within, overlap, emissions>>
    BY <1>8 DEF SetInstance, Ref
  <2>2. refs > 0 /\ refs' > 0 /\ refs' \in Nat /\ refs' - Others' = refs - Others /\ values' \in 0 .. 1
    BY <1>1, <1>2, <1>3, <2>1
  <2> QED
    BY <1>1, <1>2, <2>1, <2>2, OwnersKeep
<1>9. CASE UnsetValue /\ UNCHANGED emissions
  <2>1. /\ values = 1 /\ values' = 0
        /\ refs' = refs - 1 /\ life' = (IF refs = 1 THEN "finalised" ELSE "alive")
        /\ UNCHANGED <<floating, parents, wrappers, within, overlap, emissions>>
    BY <1>9 DEF UnsetValue, Unref
  <2>2. refs > 0 /\ refs' \in Nat /\ refs' - Others' = refs - Others /\ values' \in 0 .. 1
    BY <1>1, <1>2, <1>3, <2>1
  <2>3. life' = "alive" <=> refs' > 0
    BY <1>2, <2>1, <2>2
  <2> QED
    BY <1>1, <1>2, <2>1, <2>2, <2>3, OwnersKeep
<1>10. CASE FinalizeWrapper /\ UNCHANGED emissions
  <2>1. /\ wrappers > 0 /\ wrappers' = wrappers - 1
        /\ refs' = refs - 1 /\ life' = (IF refs = 1 THEN "finalised" ELSE "alive")
        /\ UNCHANGED <<floating, parents, values, within, overlap, emissions>>
    BY <1>10 DEF FinalizeWrapper, Unref
  <2>2. /\ refs > 0 /\ refs' \in Nat /\ refs' - Others' = refs - Others
        /\ wrappers' \in Nat /\ wrappers' + Cardinality(Takers) <= MaxWrappers
    BY <1>1, <1>2, <1>3, <2>1
  <2>3. life' = "alive" <=> refs' > 0
    BY <1>2, <2>1, <2>2
  <2> QED
    BY <1>1, <1>2, <2>1, <2>2, <2>3, OwnersKeep
<1>11. CASE EmitBegins
  <2>1. /\ life = "alive" /\ emissions < Cardinality(Frames) /\ refs' = refs + 1
        /\ emissions' = emissions + 1
        /\ UNCHANGED <<life, floating, parents, wrappers, values, within, overlap>>
    BY <1>11 DEF EmitBegins, Ref
  <2>2. /\ refs' > 0 /\ refs' \in Nat /\ refs' - Others' = refs - Others
        /\ emissions' \in 0 .. Cardinality(Frames)
    BY <1>1, <1>2, <1>3, <2>1
  <2> QED
    BY <1>1, <1>2, <2>1, <2>2, OwnersKeep
<1>12. CASE EmitEnds
  <2>1. /\ emissions > EmittingFrames /\ emissions' = emissions - 1
        /\ refs' = refs - 1 /\ life' = (IF refs = 1 THEN "finalised" ELSE "alive")
        /\ UNCHANGED <<floating, parents, wrappers, values, within, overlap>>
    BY <1>12 DEF EmitEnds, Unref
  <2>2. /\ refs > 0 /\ refs' \in Nat /\ refs' - Others' = refs - Others
        /\ emissions' \in 0 .. Cardinality(Frames)
    BY <1>1, <1>2, <1>3, <2>1
  <2>3. life' = "alive" <=> refs' > 0
    BY <1>2, <2>1, <2>2
  <2> QED
    BY <1>1, <1>2, <2>1, <2>2, <2>3, OwnersKeep
<1> QED
  BY <1>4, <1>5, <1>6, <1>7, <1>8, <1>9, <1>10, <1>11, <1>12

\* A thread goes from one step of its function to another.
LEMMA StepMoves ==
  ASSUME NEW w \in Positions
  PROVE  /\ [w EXCEPT ![2] = "inside"] = <<w[1], "inside", w[3]>>
         /\ w[1] \in {"none", "take", "original", "none-full"}
         /\ w[2] \in {"none", "read", "inside"} /\ w[3] \in BOOLEAN
  BY DEF Positions

\* A step of one thread keeps the invariant, if the owners are still counted and what it
\* changes leaves room for those that look whether the object floats.
LEMMA MoveKeeps ==
  ASSUME ObjectInv, NEW t \in Threads, NEW p \in Positions, within' = [within EXCEPT ![t] = p],
         p[1] = "none" <=> p = Outside, p[2] = "none" <=> p = Outside,
         p[1] = "take" => p[2] # "inside",
         UNCHANGED <<values, emissions>>,
         refs' \in Nat, parents' \in 0 .. MaxParents, life' \in {"none", "alive", "finalised"},
         floating' \in BOOLEAN, overlap' \in BOOLEAN,
         wrappers' \in Nat, wrappers' + Cardinality(Takers)' <= MaxWrappers,
         life' = "alive" <=> refs' > 0,
         \/ refs' = Others' + Cardinality(InStep("inside"))'
         \/ refs' > Others' + Cardinality(InStep("inside"))' /\ overlap',
         ReadInv', OriginalInv'
  PROVE  ObjectInv'
<1>1. /\ within \in [Threads -> Positions]
      /\ within' \in [Threads -> Positions] /\ within'[t] = p
      /\ \A u \in Threads \ {t} : within'[u] = within[u]
  BY ThreadMoves DEF ObjectInv, ObjectTypeOK, Positions
<1>2. WithinInv'
  <2>1. ASSUME NEW u \in Threads
        PROVE  /\ within'[u][1] = "none" <=> within'[u] = Outside
               /\ within'[u][2] = "none" <=> within'[u] = Outside
               /\ within'[u][1] = "take" => within'[u][2] # "inside"
    BY <1>1 DEF ObjectInv, WithinInv
  <2> QED
    BY <2>1 DEF WithinInv
<1>3. RefsMatchOwners'
  <2>1. /\ parents' \in Nat /\ values' \in Nat /\ emissions' \in Nat
        /\ Cardinality(InStep("inside"))' \in Nat
    <3>1. Cardinality(InStep("inside")') \in Nat
      <4>1. InStep("inside")' \in SUBSET Threads
        BY DEF InStep
      <4>2. IsFiniteSet(InStep("inside")')
        BY <4>1, ObjectAssumption, FS_Subset
      <4> QED
        BY <4>2, FS_CardinalityType
    <3> QED
      BY <3>1, ObjectAssumption, OwnersCounted
  <2>2. Loose(floating') \in Nat /\ (IF floating' THEN 1 ELSE 0) = Loose(floating')
    BY LooseIsOne DEF Loose
  <2>3. (Owned + emissions + (IF floating THEN 1 ELSE 0))' = Others' + Cardinality(InStep("inside"))'
    BY <2>1, <2>2 DEF Owned, Others
  <2> QED
    BY <2>3 DEF RefsMatchOwners
<1>4. ObjectTypeOK'
  <2>1. Cardinality(Takers') \in Nat
    <3>1. Takers' \in SUBSET Threads
      BY DEF Takers
    <3>2. IsFiniteSet(Takers')
      BY <3>1, ObjectAssumption, FS_Subset
    <3> QED
      BY <3>2, FS_CardinalityType
  <2>2. wrappers' \in 0 .. MaxWrappers
    BY <2>1, ObjectAssumption
  <2> QED
    BY <1>1, <2>2 DEF ObjectInv, ObjectTypeOK, Positions
<1> QED
  BY <1>2, <1>3, <1>4 DEF ObjectInv

\* A thread that ends its look whether the object floats was the only one, or C keeps
\* the object.
LEMMA OthersRead ==
  ASSUME ObjectInv, NEW t \in Threads, t \in InStep("read"),
         InStep("read")' = InStep("read") \ {t}, parents' = parents
  PROVE  ReadInv'
  BY DEF ObjectInv, ReadInv

\* A reference more, or a floating one that gets its owner.
LEMMA SinkOrRef ==
  ASSUME ObjectInv, NEW sinks \in BOOLEAN, IF sinks THEN RefSink ELSE Ref, refs > 0
  PROVE  /\ floating' \in BOOLEAN /\ Loose(floating') \in Nat
         /\ floating' => floating
         /\ refs' \in Nat /\ refs' > 0
         /\ refs' + Loose(floating) = refs + 1 + Loose(floating')
<1>1. refs \in Nat /\ floating \in BOOLEAN /\ Loose(floating) \in Nat
  BY OwnersCounted
<1>2. CASE sinks
  <2>1. refs' = (IF floating THEN refs ELSE refs + 1) /\ floating' = FALSE /\ Loose(floating') = 0
    BY <1>2 DEF RefSink, Loose
  <2>2. refs' + Loose(floating) = refs + 1 /\ refs' \in Nat /\ refs' > 0
    <3>1. CASE floating
      <4>1. refs' = refs /\ Loose(floating) = 1
        BY <2>1, <3>1, LooseIsOne
      <4> QED
        BY <1>1, <4>1
    <3>2. CASE ~floating
      <4>1. refs' = refs + 1 /\ Loose(floating) = 0
        BY <1>1, <2>1, <3>2, LooseIsOne
      <4> QED
        BY <1>1, <4>1
    <3> QED
      BY <3>1, <3>2
  <2>3. floating' \in BOOLEAN /\ (floating' => floating)
    BY <2>1
  <2>4. refs' + Loose(floating) = refs + 1 + Loose(floating') /\ Loose(floating') \in Nat
    BY <1>1, <2>1, <2>2
  <2> QED
    BY <2>2, <2>3, <2>4
<1>3. CASE ~sinks
  BY <1>1, <1>3 DEF Ref
<1> QED
  BY <1>2, <1>3

\* Take, wrapObject and the With functions.
LEMMA ThreadStep ==
  ASSUME ObjectInv, NEW t \in Threads, UNCHANGED emissions,
         \/ \E function \in {"take", "original", "none-full"} : Begin(t, function)
         \/ Took(t) \/ OriginalSinks(t) \/ FullBegins(t) \/ End(t)
  PROVE  ObjectInv'
<1> USE ObjectAssumption
<1> DEFINE Inside == Cardinality(InStep("inside"))
<1>1. /\ within \in [Threads -> Positions] /\ within[t] \in Positions
      /\ wrappers + Cardinality(Takers) <= MaxWrappers /\ (life = "alive" <=> refs > 0)
      /\ parents \in 0 .. MaxParents /\ floating \in BOOLEAN /\ overlap \in BOOLEAN
      /\ life \in {"none", "alive", "finalised"} /\ Cardinality(Takers) \in Nat
  BY ThreadsCounted DEF ObjectInv, ObjectTypeOK, WithinInv, Positions
<1>2. /\ refs \in Nat /\ parents \in Nat /\ wrappers \in Nat /\ values \in Nat
      /\ emissions \in Nat /\ Inside \in Nat /\ Others \in Nat
      /\ Loose(floating) \in Nat /\ refs >= Others + Inside
      /\ (refs = Others + Inside \/ (refs > Others + Inside /\ overlap))
      /\ Others = parents + wrappers + values + emissions + Loose(floating)
  BY OwnersCounted DEF Others
<1>3. Others' = parents' + wrappers' + values' + emissions' + Loose(floating')
  BY DEF Others
<1>4. /\ within[t][1] \in {"none", "take", "original", "none-full"}
      /\ within[t][2] \in {"none", "read", "inside"} /\ within[t][3] \in BOOLEAN
  BY <1>1, StepMoves
<1>5. Outside \in Positions /\ Outside[1] = "none" /\ Outside[2] = "none"
  BY DEF Outside, Positions
<1>6. t \in InStep("read") => refs > 0
  <2> SUFFICES ASSUME t \in InStep("read") PROVE refs > 0
    OBVIOUS
  <2>1. parents > 0 \/ floating \/ Inside > 0
    BY OwnersCounted
  <2>2. floating => Loose(floating) = 1
    BY <1>1, LooseIsOne
  <2> HIDE DEF Inside
  <2> QED
    BY <1>2, <2>1, <2>2
<1>7. ASSUME NEW function \in {"take", "original", "none-full"}, Begin(t, function)
      PROVE  ObjectInv'
  <2> DEFINE p == <<function, "read", floating>>
  <2>1. p \in Positions /\ p[1] = function /\ p[2] = "read" /\ p # Outside
    BY <1>1 DEF Positions, Outside
  <2>2. /\ life = "alive" /\ within[t] = Outside
        /\ (parents > 0 \/ (InStep("read") = {} /\ (floating \/ InStep("inside") # {})))
        /\ (function = "take" => RoomForWrapper)
        /\ within' = [within EXCEPT ![t] = p]
        /\ overlap' = (overlap \/ (function = "original" /\ \E u \in Threads : within[u][1] = "original"))
        /\ UNCHANGED <<life, refs, floating, parents, wrappers, values>>
    BY <1>7 DEF Begin
  <2> HIDE DEF p
  <2>3. /\ within' \in [Threads -> Positions] /\ within'[t] = p
        /\ \A u \in Threads \ {t} : within'[u] = within[u]
        /\ InStep("read")' = InStep("read") \cup {t}
        /\ InStep("inside")' = InStep("inside") \ {t}
        /\ Cardinality(Takers)' = Cardinality(Takers) + (IF p[1] = "take" THEN 1 ELSE 0)
                                                      - (IF within[t][1] = "take" THEN 1 ELSE 0)
        /\ Inside' = Inside + (IF p[2] = "inside" THEN 1 ELSE 0)
                            - (IF within[t][2] = "inside" THEN 1 ELSE 0)
    <3>1. \A step : InStep(step)' = (InStep(step) \ {t}) \cup (IF p[2] = step THEN {t} ELSE {})
      BY <1>1, <2>1, <2>2, ThreadMoves
    <3>2. t \notin InStep("read")
      BY <1>5, <2>2 DEF InStep
    <3>3. InStep("read")' = InStep("read") \cup {t} /\ InStep("inside")' = InStep("inside") \ {t}
      BY <2>1, <3>1, <3>2
    <3> QED
      BY <1>1, <2>1, <2>2, <3>3, ThreadMoves
  <2>4. t \notin InStep("inside")
    BY <1>5, <2>2 DEF InStep
  <2>5. Inside' = Inside /\ InStep("inside")' = InStep("inside")
    <3>1. InStep("inside")' = InStep("inside")
      BY <2>3, <2>4
    <3> QED
      BY <3>1
  <2>6. wrappers' + Cardinality(Takers)' <= MaxWrappers
    <3>1. function = "take" => wrappers + Cardinality(Takers) < MaxWrappers
      BY <2>2 DEF RoomForWrapper, Takers
    <3> QED
      BY <1>1, <1>2, <1>5, <2>1, <2>2, <2>3, <3>1
  <2>7. ReadInv'
    BY <2>2, <2>3, <2>5 DEF ObjectInv, ReadInv
  <2>8. OriginalInv'
    <3> SUFFICES ASSUME ~overlap' PROVE
          /\ \A u, v \in Threads : within'[u][1] = "original" /\ within'[v][1] = "original" => u = v
          /\ \A u \in InStep("inside")' : within'[u][1] = "original" /\ within'[u][3] => ~floating'
      BY DEF OriginalInv
    <3>1. ~overlap /\ ~(function = "original" /\ \E u \in Threads : within[u][1] = "original")
      BY <2>2
    <3>2. \A u, v \in Threads : within[u][1] = "original" /\ within[v][1] = "original" => u = v
      BY <3>1 DEF ObjectInv, OriginalInv
    <3>3. \A u \in InStep("inside") : within[u][1] = "original" /\ within[u][3] => ~floating
      BY <3>1 DEF ObjectInv, OriginalInv
    <3>4. \A u \in InStep("inside") : u \in Threads \ {t}
      BY <2>4 DEF InStep
    <3>5. \A u \in InStep("inside")' : within'[u][1] = "original" /\ within'[u][3] => ~floating'
      BY <2>2, <2>3, <2>5, <3>3, <3>4
    <3>6. \A u, v \in Threads : within'[u][1] = "original" /\ within'[v][1] = "original" => u = v
      BY <2>1, <2>3, <3>1, <3>2
    <3> QED
      BY <3>5, <3>6
  <2>9. Others' = Others /\ overlap' \in BOOLEAN
    BY <2>2 DEF Others
  <2>10. \/ refs' = Others' + Inside'
         \/ refs' > Others' + Inside' /\ overlap'
    BY <1>2, <2>2, <2>5, <2>9
  <2> QED
    BY <1>1, <1>2, <2>1, <2>2, <2>6, <2>7, <2>8, <2>9, <2>10, MoveKeeps
<1>8. ASSUME NEW p \in Positions, NEW sinks \in BOOLEAN, IF sinks THEN RefSink ELSE Ref,
             within[t][2] = "read", within' = [within EXCEPT ![t] = p],
             UNCHANGED <<life, parents, values, overlap>>,
             \/ within[t][1] = "take" /\ p = Outside /\ wrappers' = wrappers + 1
             \/ /\ within[t][1] \in {"original", "none-full"} /\ p[1] = within[t][1] /\ p[2] = "inside"
                /\ p[1] = "original" => sinks
                /\ wrappers' = wrappers
      PROVE  ObjectInv'
  <2>1. /\ p[1] = "none" <=> p = Outside
        /\ p[2] = "none" <=> p = Outside
        /\ p[1] # "take" /\ p[2] # "read"
        /\ p[1] = "original" => within[t][1] = "original" /\ sinks
    BY <1>5, <1>8
  <2>2. /\ within' \in [Threads -> Positions] /\ within'[t] = p
        /\ \A u \in Threads \ {t} : within'[u] = within[u]
        /\ \A step : InStep(step)' = (InStep(step) \ {t}) \cup (IF p[2] = step THEN {t} ELSE {})
        /\ Cardinality(Takers)' = Cardinality(Takers) + (IF p[1] = "take" THEN 1 ELSE 0)
                                                      - (IF within[t][1] = "take" THEN 1 ELSE 0)
        /\ Inside' = Inside + (IF p[2] = "inside" THEN 1 ELSE 0)
                            - (IF within[t][2] = "inside" THEN 1 ELSE 0)
    BY <1>1, <1>8, ThreadMoves
  <2>3. t \in InStep("read") /\ InStep("read")' = InStep("read") \ {t} /\ t \notin InStep("inside")
    <3>1. InStep("read")' = (InStep("read") \ {t}) \cup (IF p[2] = "read" THEN {t} ELSE {})
      BY <2>2
    <3> QED
      BY <1>8, <2>1, <3>1 DEF InStep
  <2>4. /\ floating' \in BOOLEAN /\ Loose(floating') \in Nat
        /\ floating' => floating
        /\ refs' \in Nat /\ refs' > 0
        /\ refs' + Loose(floating) = refs + 1 + Loose(floating')
    BY <1>6, <1>8, <2>3, SinkOrRef
  <2>5. /\ wrappers' + Inside' = wrappers + Inside + 1 /\ Inside' \in Nat /\ wrappers' \in Nat
        /\ wrappers' + Cardinality(Takers)' <= MaxWrappers
    <3>1. CASE within[t][1] = "take" /\ p = Outside /\ wrappers' = wrappers + 1
      <4>1. Inside' = Inside /\ Cardinality(Takers)' = Cardinality(Takers) - 1
        BY <1>1, <1>2, <1>5, <1>8, <2>2, <3>1
      <4> QED
        BY <1>1, <1>2, <3>1, <4>1
    <3>2. CASE /\ within[t][1] \in {"original", "none-full"} /\ p[2] = "inside"
               /\ wrappers' = wrappers
      <4>1. Inside' = Inside + 1 /\ Cardinality(Takers)' = Cardinality(Takers)
        BY <1>1, <1>2, <1>8, <2>1, <2>2, <3>2
      <4> QED
        BY <1>1, <1>2, <3>2, <4>1
    <3> QED
      BY <1>8, <3>1, <3>2
  <2>6. \/ refs' = Others' + Inside'
        \/ refs' > Others' + Inside' /\ overlap'
    <3>1. Others' + Inside' + Loose(floating) = Others + Inside + 1 + Loose(floating')
      BY <1>2, <1>3, <1>8, <2>4, <2>5
    <3>2. Others' \in Nat
      BY <1>2, <1>3, <1>8, <2>4, <2>5
    <3> QED
      BY <1>2, <1>8, <2>4, <2>5, <3>1, <3>2
  <2>7. ReadInv'
    BY <1>8, <2>3, OthersRead
  <2>8. OriginalInv'
    <3> SUFFICES ASSUME ~overlap' PROVE
          /\ \A u, v \in Threads : within'[u][1] = "original" /\ within'[v][1] = "original" => u = v
          /\ \A u \in InStep("inside")' : within'[u][1] = "original" /\ within'[u][3] => ~floating'
      BY DEF OriginalInv
    <3>1. /\ \A u, v \in Threads : within[u][1] = "original" /\ within[v][1] = "original" => u = v
          /\ \A u \in InStep("inside") : within[u][1] = "original" /\ within[u][3] => ~floating
      BY <1>8 DEF ObjectInv, OriginalInv
    <3>2. \A u \in Threads : within'[u][1] = "original" => within[u][1] = "original"
      BY <2>1, <2>2
    <3>3. \A u, v \in Threads : within'[u][1] = "original" /\ within'[v][1] = "original" => u = v
      BY <3>1, <3>2
    <3>4. ASSUME NEW u \in InStep("inside")', within'[u][1] = "original", within'[u][3]
          PROVE  ~floating'
      <4>1. CASE u = t
        BY <1>8, <2>1, <2>2, <3>4, <4>1 DEF RefSink
      <4>2. CASE u # t
        <5>1. u \in InStep("inside") /\ u \in Threads
          BY <2>2, <4>2 DEF InStep
        <5> QED
          BY <2>2, <2>4, <3>1, <3>4, <4>2, <5>1
      <4> QED
        BY <4>1, <4>2
    <3> QED
      BY <3>3, <3>4
  <2>9. life' = "alive"
    BY <1>1, <1>6, <1>8, <2>3
  <2> QED
    BY <1>1, <1>8, <2>1, <2>4, <2>5, <2>6, <2>7, <2>8, <2>9, MoveKeeps
<1>9. CASE Took(t)
  <2> DEFINE p == IF within[t][1] = "take" THEN Outside ELSE [within[t] EXCEPT ![2] = "inside"]
  <2>1. /\ within[t][1] \in {"take", "none-full"} /\ within[t][2] = "read"
        /\ IF within[t][3] THEN RefSink ELSE Ref
        /\ within' = [within EXCEPT ![t] = p]
        /\ wrappers' = wrappers + (IF within[t][1] = "take" THEN 1 ELSE 0)
        /\ UNCHANGED <<life, parents, values, overlap>>
    BY <1>9 DEF Took
  <2>2. /\ p \in Positions
        /\ within[t][1] = "take" => p = Outside
        /\ within[t][1] # "take" => p = <<within[t][1], "inside", within[t][3]>>
    BY <1>1, <1>4, <1>5, StepMoves DEF Positions
  <2>3. \/ within[t][1] = "take" /\ p = Outside /\ wrappers' = wrappers + 1
        \/ /\ within[t][1] = "none-full" /\ p[1] = within[t][1] /\ p[2] = "inside"
           /\ wrappers' = wrappers
    BY <1>2, <2>1, <2>2
  <2> HIDE DEF p
  <2> QED
    BY <1>4, <1>8, <2>1, <2>2, <2>3
<1>10. CASE OriginalSinks(t)
  <2> DEFINE p == [within[t] EXCEPT ![2] = "inside"]
  <2>1. /\ within[t][1] = "original" /\ within[t][2] = "read" /\ RefSink
        /\ within' = [within EXCEPT ![t] = p]
        /\ UNCHANGED <<life, parents, wrappers, values, overlap>>
    BY <1>10 DEF OriginalSinks
  <2>2. p \in Positions /\ p = <<within[t][1], "inside", within[t][3]>>
    BY <1>1, <1>4, StepMoves DEF Positions
  <2>3. p[1] = within[t][1] /\ p[2] = "inside"
    BY <2>2
  <2> HIDE DEF p
  <2> QED
    BY <1>8, <2>1, <2>2, <2>3
<1>11. CASE FullBegins(t)
  <2> DEFINE p == <<"none-full", "inside", FALSE>>
  <2>1. /\ within[t] = Outside /\ parents > 0 /\ (InStep("read") = {} \/ parents > 1)
        /\ parents' = parents - 1 /\ within' = [within EXCEPT ![t] = p]
        /\ UNCHANGED <<life, refs, floating, wrappers, values, overlap>>
    BY <1>11 DEF FullBegins, CanGive
  <2>2. p \in Positions /\ p[1] = "none-full" /\ p[2] = "inside" /\ p # Outside
    BY DEF Positions, Outside
  <2> HIDE DEF p
  <2>3. /\ within' \in [Threads -> Positions] /\ within'[t] = p
        /\ \A u \in Threads \ {t} : within'[u] = within[u]
        /\ \A step : InStep(step)' = (InStep(step) \ {t}) \cup (IF p[2] = step THEN {t} ELSE {})
        /\ Cardinality(Takers)' = Cardinality(Takers) + (IF p[1] = "take" THEN 1 ELSE 0)
                                                      - (IF within[t][1] = "take" THEN 1 ELSE 0)
        /\ Inside' = Inside + (IF p[2] = "inside" THEN 1 ELSE 0)
                            - (IF within[t][2] = "inside" THEN 1 ELSE 0)
    BY <1>1, <2>1, <2>2, ThreadMoves
  <2>4. Inside' = Inside + 1 /\ Cardinality(Takers)' = Cardinality(Takers)
    BY <1>1, <1>2, <1>5, <2>1, <2>2, <2>3
  <2>5. InStep("read")' = InStep("read") /\ t \notin InStep("read")
    <3>1. InStep("read")' = (InStep("read") \ {t}) \cup (IF p[2] = "read" THEN {t} ELSE {})
      BY <2>3
    <3> QED
      BY <1>5, <2>1, <2>2, <3>1 DEF InStep
  <2>6. /\ Others' + Inside' = Others + Inside /\ parents' \in 0 .. MaxParents
        /\ wrappers' + Cardinality(Takers)' <= MaxWrappers
        /\ InStep("read") # {} => parents' > 0
    BY <1>1, <1>2, <1>3, <2>1, <2>4
  <2>7. \/ refs' = Others' + Inside'
        \/ refs' > Others' + Inside' /\ overlap'
    BY <1>2, <2>1, <2>6
  <2>8. ReadInv'
    BY <2>5, <2>6 DEF ReadInv
  <2>9. OriginalInv'
    <3> SUFFICES ASSUME ~overlap' PROVE
          /\ \A u, v \in Threads : within'[u][1] = "original" /\ within'[v][1] = "original" => u = v
          /\ \A u \in InStep("inside")' : within'[u][1] = "original" /\ within'[u][3] => ~floating'
      BY DEF OriginalInv
    <3>1. /\ \A u, v \in Threads : within[u][1] = "original" /\ within[v][1] = "original" => u = v
          /\ \A u \in InStep("inside") : within[u][1] = "original" /\ within[u][3] => ~floating
      BY <2>1 DEF ObjectInv, OriginalInv
    <3>2. \A u \in Threads : within'[u][1] = "original" => u # t /\ within[u][1] = "original"
      BY <2>2, <2>3
    <3>3. \A u \in InStep("inside")' : u # t => u \in InStep("inside") /\ u \in Threads
      BY <2>3 DEF InStep
    <3> QED
      BY <2>1, <2>2, <2>3, <3>1, <3>2, <3>3
  <2> QED
    BY <1>1, <1>2, <2>1, <2>2, <2>6, <2>7, <2>8, <2>9, MoveKeeps
<1>12. CASE End(t)
  <2> DEFINE again == within[t][1] = "original" /\ within[t][3]
  <2>1. /\ within[t][2] = "inside" /\ (parents = 0 => InStep("read") = {})
        /\ IF again THEN floating' = TRUE /\ UNCHANGED <<refs, life>> ELSE Unref
        /\ within' = [within EXCEPT ![t] = Outside]
        /\ UNCHANGED <<parents, wrappers, values, overlap>>
    BY <1>12 DEF End
  <2>2. /\ within' \in [Threads -> Positions] /\ within'[t] = Outside
        /\ \A u \in Threads \ {t} : within'[u] = within[u]
        /\ \A step : InStep(step)' = (InStep(step) \ {t}) \cup (IF Outside[2] = step THEN {t} ELSE {})
        /\ Cardinality(Takers)' = Cardinality(Takers) + (IF Outside[1] = "take" THEN 1 ELSE 0)
                                                      - (IF within[t][1] = "take" THEN 1 ELSE 0)
        /\ Inside' = Inside + (IF Outside[2] = "inside" THEN 1 ELSE 0)
                            - (IF within[t][2] = "inside" THEN 1 ELSE 0)
    BY <1>1, <1>5, <2>1, ThreadMoves
  <2>3. t \in InStep("inside") /\ within[t][1] # "take"
    BY <2>1 DEF InStep, ObjectInv, WithinInv
  <2>4. Inside' = Inside - 1 /\ Cardinality(Takers)' = Cardinality(Takers) /\ Inside > 0
    <3>1. Inside' = Inside - 1 /\ Cardinality(Takers)' = Cardinality(Takers)
      BY <1>1, <1>2, <1>5, <2>1, <2>2, <2>3
    <3>2. Inside # 0
      BY <2>3, ThreadsCounted
    <3> QED
      BY <1>2, <3>1, <3>2
  <2>5. InStep("read")' = InStep("read") /\ InStep("inside")' = InStep("inside") \ {t}
    <3>1. /\ InStep("read")' = (InStep("read") \ {t}) \cup (IF Outside[2] = "read" THEN {t} ELSE {})
          /\ InStep("inside")' = (InStep("inside") \ {t}) \cup (IF Outside[2] = "inside" THEN {t} ELSE {})
      BY <2>2
    <3>2. t \notin InStep("read")
      BY <2>1 DEF InStep
    <3> QED
      BY <1>5, <3>1, <3>2
  <2>6. refs > 0 /\ life = "alive"
    BY <1>1, <1>2, <2>4
  <2>7. wrappers' + Cardinality(Takers)' <= MaxWrappers
    BY <1>1, <2>1, <2>4
  <2>8. ReadInv'
    <3>1. InStep("read") # {} => parents' > 0
      BY <1>2, <2>1
    <3> QED
      BY <2>5, <3>1 DEF ReadInv
  <2>9. ASSUME ~overlap
        PROVE  /\ \A u, v \in Threads : within[u][1] = "original" /\ within[v][1] = "original" => u = v
               /\ \A u \in InStep("inside") : within[u][1] = "original" /\ within[u][3] => ~floating
    BY <2>9 DEF ObjectInv, OriginalInv
  <2>10. \A u \in Threads : within'[u][1] = "original" => u # t /\ within'[u] = within[u]
    BY <1>5, <2>2
  <2>11. \A u \in InStep("inside")' : u # t /\ u \in InStep("inside") /\ u \in Threads
    BY <2>5 DEF InStep
  <2>12. CASE again
    <3> DEFINE loose == Loose(floating)
    <3>1. floating' = TRUE /\ UNCHANGED <<refs, life>> /\ Loose(floating') = 1
      BY <2>1, <2>12 DEF Loose
    <3>2. Others' = Others + (1 - loose) /\ Others' \in Nat
      BY <1>2, <1>3, <2>1, <3>1
    <3>3. (overlap \/ loose = 0) /\ loose \in {0, 1}
      BY <1>1, <2>3, <2>9, <2>12, LooseIsOne
    <3>4. Others \in Nat /\ Inside \in Nat /\ refs \in Nat /\ refs >= Others + Inside
      BY <1>2
    <3> HIDE DEF loose
    <3>5. \/ refs' = Others' + Inside'
          \/ refs' > Others' + Inside' /\ overlap'
      <4>1. CASE loose = 0
        <5>1. Others' + Inside' = Others + Inside
          BY <2>4, <3>2, <3>4, <4>1
        <5> QED
          BY <1>2, <2>1, <3>1, <5>1
      <4>2. CASE loose = 1
        <5>1. refs' > Others' + Inside'
          BY <2>4, <3>1, <3>2, <3>4, <4>2
        <5>2. overlap'
          BY <2>1, <3>3, <4>2
        <5> QED
          BY <5>1, <5>2
      <4> QED
        BY <3>3, <4>1, <4>2
    <3>6. OriginalInv'
      <4>1. SUFFICES ASSUME ~overlap PROVE
              /\ \A u, v \in Threads : within'[u][1] = "original" /\ within'[v][1] = "original" => u = v
              /\ \A u \in InStep("inside")' : within'[u][1] # "original"
        BY <2>1 DEF OriginalInv
      <4> QED
        BY <2>9, <2>10, <2>11, <2>12, <4>1
    <3> QED
      BY <1>1, <1>2, <1>5, <2>1, <2>6, <2>7, <2>8, <3>1, <3>5, <3>6, MoveKeeps
  <2>13. CASE ~again
    <3>1. /\ refs' = refs - 1 /\ life' = (IF refs = 1 THEN "finalised" ELSE "alive")
          /\ UNCHANGED floating
      BY <2>1, <2>13 DEF Unref
    <3>2. /\ refs' \in Nat /\ (life' = "alive" <=> refs' > 0)
          /\ life' \in {"none", "alive", "finalised"}
      BY <1>2, <2>6, <3>1
    <3>3. Others' = Others
      BY <1>2, <1>3, <2>1, <3>1
    <3>4. \/ refs' = Others' + Inside'
          \/ refs' > Others' + Inside' /\ overlap'
      <4>1. Others' + Inside' = Others + Inside - 1
        BY <1>2, <2>4, <3>3
      <4>2. CASE refs = Others + Inside
        BY <1>2, <3>1, <4>1, <4>2
      <4>3. CASE refs > Others + Inside /\ overlap
        BY <1>2, <2>1, <3>1, <4>1, <4>3
      <4> QED
        BY <1>2, <4>2, <4>3
    <3>5. OriginalInv'
      <4>1. SUFFICES ASSUME ~overlap PROVE
              /\ \A u, v \in Threads : within'[u][1] = "original" /\ within'[v][1] = "original" => u = v
              /\ \A u \in InStep("inside")' : within'[u][1] = "original" /\ within'[u][3] => ~floating
        BY <2>1, <3>1 DEF OriginalInv
      <4> QED
        BY <2>9, <2>10, <2>11, <4>1
    <3> QED
      BY <1>1, <1>2, <1>5, <2>1, <2>7, <2>8, <3>1, <3>2, <3>4, <3>5, MoveKeeps
  <2> QED
    BY <2>12, <2>13
<1> QED
  BY <1>7, <1>9, <1>10, <1>11, <1>12

\* Nobody has made the object at first.
LEMMA ObjectStarts == ObjectInit /\ emissions = 0 => ObjectInv
<1> SUFFICES ASSUME ObjectInit, emissions = 0 PROVE ObjectInv
  OBVIOUS
<1> USE ObjectAssumption DEF ObjectInit
<1>1. \A t \in Threads : within[t] = Outside /\ Outside[1] = "none" /\ Outside[2] = "none"
  BY DEF Outside
<1>2. InStep("read") = {} /\ InStep("inside") = {} /\ Takers = {}
  BY <1>1 DEF InStep, Takers
<1>3. Cardinality(InStep("inside")) = 0 /\ Cardinality(Takers) = 0
  BY <1>2, FS_EmptySet
<1>4. ObjectTypeOK
  <2>1. Outside \in Positions
    BY DEF Outside, Positions
  <2>2. within \in [Threads -> Positions]
    BY <2>1
  <2>3. parents \in 0 .. MaxParents /\ wrappers \in 0 .. MaxWrappers /\ values \in 0 .. 1
    OBVIOUS
  <2>4. life \in {"none", "alive", "finalised"} /\ refs \in Nat /\ floating \in BOOLEAN
        /\ overlap \in BOOLEAN
    OBVIOUS
  <2> QED
    BY <2>2, <2>3, <2>4, Zenon DEF ObjectTypeOK, Positions
<1>5. RefsMatchOwners
  BY <1>3 DEF RefsMatchOwners, Owned
<1>6. ReadInv /\ OriginalInv /\ WithinInv
  BY <1>1, <1>2, <1>3 DEF ReadInv, OriginalInv, WithinInv
<1>7. emissions \in 0 .. Cardinality(Frames)
  BY ClosuresAssumption, FS_CardinalityType
<1> QED
  BY <1>4, <1>5, <1>6, <1>7 DEF ObjectInv

-----------------------------------------------------------------------------
(***************************************************************************)
(* The object and its callbacks.                                           *)
(***************************************************************************)

Emitting == {f \in Frames : running[f].call \in Signals(Calls)}

\* The frames that emit are finitely many, and so are the callbacks with a wrapper.
LEMMA FramesCounted ==
  /\ IsFiniteSet(Emitting) /\ EmittingFrames = Cardinality(Emitting) /\ EmittingFrames \in Nat
  /\ IsFiniteSet(Calls)
<1>1. Emitting \in SUBSET Frames /\ EmittingFrames = Cardinality(Emitting)
  BY DEF Emitting, EmittingFrames
<1>2. IsFiniteSet(Emitting)
  BY <1>1, ClosuresAssumption, FS_Subset
<1>3. IsFiniteSet(Calls)
  BY ClosuresAssumption, FS_Interval DEF Calls
<1> QED
  BY <1>1, <1>2, <1>3, FS_CardinalityType

\* At most one call more.
LEMMA SetGrows ==
  ASSUME NEW A, NEW B, NEW x, IsFiniteSet(A), B \subseteq A \cup {x}
  PROVE  /\ IsFiniteSet(B) /\ Cardinality(B) \in Nat /\ Cardinality(A) \in Nat
         /\ Cardinality(B) <= Cardinality(A) + 1
         /\ B \subseteq A => Cardinality(B) <= Cardinality(A)
<1>1. IsFiniteSet(A \cup {x}) /\ Cardinality(A \cup {x}) <= Cardinality(A) + 1
      /\ Cardinality(A \cup {x}) \in Nat /\ Cardinality(A) \in Nat
  BY FS_AddElement, FS_CardinalityType
<1>2. IsFiniteSet(B) /\ Cardinality(B) <= Cardinality(A \cup {x})
  BY <1>1, FS_Subset
<1>3. B \subseteq A => Cardinality(B) <= Cardinality(A)
  BY FS_Subset
<1> QED
  BY <1>1, <1>2, <1>3, FS_CardinalityType

\* Callbacks with a wrapper are not more than the wrappers, so there are none without.
LEMMA CapturedCounted ==
  ASSUME BetweenInv
  PROVE  /\ IsFiniteSet(captures \cap Reachable) /\ Captured \in Nat
         /\ Captured = Cardinality(captures \cap Reachable)
         /\ Captured = 0 <=> captures \cap Reachable = {}
<1>1. captures \cap Reachable \in SUBSET Calls
  BY DEF BetweenInv
<1>2. IsFiniteSet(captures \cap Reachable)
  BY <1>1, FramesCounted, FS_Subset
<1> QED
  BY <1>2, FS_CardinalityType, FS_EmptySet DEF Captured

\* No step of a closure that is made already gives an address another context.
LEMMA ContextsShrink ==
  ASSUME ClosuresInv, ClosureStep
  PROVE  \A a \in Addresses : contexts'[a] \in {contexts[a], Null}
<1> SUFFICES ASSUME NEW a \in Addresses PROVE contexts'[a] \in {contexts[a], Null}
  OBVIOUS
<1>1. ASSUME NEW c, NEW r, Hold(c, r) PROVE contexts'[a] \in {contexts[a], Null}
  BY <1>1 DEF Hold, ContextsAfter
<1>2. ASSUME NEW h \in Calls, ConnectClosure(h) \/ SourceAttach(h) \/ SourceRemove(h)
      PROVE  contexts'[a] \in {contexts[a], Null}
  BY <1>1, <1>2 DEF ConnectClosure, SourceAttach, SourceRemove
<1>3. ASSUME NEW h \in Calls, Disconnect(h) \/ DisconnectInvalidate(h) \/ DisconnectDelete(h)
      PROVE  contexts'[a] \in {contexts[a], Null}
  <2>1. DisconnectDelete(h) => contexts'[a] \in {contexts[a], Null}
    BY DEF DisconnectDelete, ClosuresInv, ClosuresTypeOK
  <2> QED
    BY <1>1, <1>3, <2>1 DEF Disconnect, DisconnectInvalidate
<1>4. ASSUME NEW f \in Frames, Marshal(f) \/ Return(f) PROVE contexts'[a] \in {contexts[a], Null}
  <2>1. ASSUME NEW again \in BOOLEAN, Returned(f, again) PROVE contexts'[a] \in {contexts[a], Null}
    BY <1>1, <2>1 DEF Returned
  <2> QED
    BY <1>4, <2>1 DEF Marshal, Return
<1>5. ASSUME NEW h \in Calls, NEW f \in Frames, Invoke(f, h)
      PROVE  contexts'[a] \in {contexts[a], Null}
  BY <1>5 DEF Invoke
<1> QED
  BY <1>2, <1>3, <1>4, <1>5 DEF ClosureStep

\* What a step of a closure that is made already does to the calls and to the frames.
LEMMA ClosureStepKeeps ==
  ASSUME ClosuresInv, EmittingFrames <= emissions, emissions \in Nat, ClosureStep
  PROVE  /\ ClosuresInv' /\ Calls \cap Reachable' \subseteq Reachable
         /\ pending' \subseteq pending
         /\ \A g \in Calls : kind'[g] = kind[g] \/ (kind[g] = "signal" /\ kind'[g] = "unknown")
         /\ EmittingFrames' <= emissions'
<1>1. UNCHANGED <<objectVars, emissions, captures>>
  BY DEF ClosureStep
<1>2. ASSUME \A g \in Frames : running'[g].call \in {running[g].call, Null},
             \A g \in Calls : kind'[g] = kind[g] \/ (kind[g] = "signal" /\ kind'[g] = "unknown")
      PROVE  EmittingFrames' <= emissions'
  <2>1. Null \notin Calls
    BY ClosuresAssumption DEF Calls, Null
  <2>2. Emitting' \subseteq Emitting
    BY <1>2, <2>1 DEF Emitting, Signals
  <2>3. Cardinality(Emitting') <= Cardinality(Emitting) /\ Cardinality(Emitting') \in Nat
    BY <2>2, FramesCounted, FS_Subset, FS_CardinalityType
  <2>4. EmittingFrames' = Cardinality(Emitting')
    BY DEF EmittingFrames, Emitting
  <2> QED
    BY <1>1, <2>3, <2>4, FramesCounted
<1>3. ASSUME NEW h \in Calls, ConnectClosure(h) \/ SourceAttach(h) \/ SourceRemove(h)
      PROVE  /\ ClosuresInv' /\ Calls \cap Reachable' \subseteq Reachable
             /\ running' = running /\ pending' \subseteq pending
             /\ \A g \in Calls : kind'[g] = kind[g] \/ (kind[g] = "signal" /\ kind'[g] = "unknown")
  BY <1>3, ConnectKeeps
<1>4. ASSUME NEW h \in Calls, Disconnect(h) \/ DisconnectInvalidate(h) \/ DisconnectDelete(h)
      PROVE  /\ ClosuresInv' /\ Calls \cap Reachable' \subseteq Reachable
             /\ UNCHANGED <<running, pending, kind>>
  BY <1>4, DisconnectKeeps
<1>5. ASSUME NEW f \in Frames, Marshal(f) \/ Return(f)
      PROVE  /\ ClosuresInv' /\ Calls \cap Reachable' \subseteq Reachable
             /\ UNCHANGED <<pending, kind>>
             /\ \A g \in Frames : running'[g].call \in {running[g].call, Null}
  BY <1>5, FramesKeep
<1>6. ASSUME NEW h \in Calls, NEW f \in Frames, Invoke(f, h),
             kind[h] = "signal" => emissions > EmittingFrames
      PROVE  /\ ClosuresInv' /\ Calls \cap Reachable' \subseteq Reachable
             /\ UNCHANGED <<pending, kind>>
             /\ EmittingFrames' <= emissions'
  <2>1. ClosuresInv' /\ Calls \cap Reachable' \subseteq Reachable
    BY <1>6, InvokeKeeps
  <2>2. /\ running' = [running EXCEPT ![f] = [call |-> h, step |-> "marshal"]]
        /\ UNCHANGED <<pending, kind>> /\ running \in [Frames -> FrameStates]
    BY <1>6 DEF Invoke, ClosuresInv, ClosuresTypeOK, FrameStates
  <2>3. Emitting' \subseteq Emitting \cup {f} /\ (kind[h] # "signal" => Emitting' \subseteq Emitting)
    BY <2>2 DEF Emitting, Signals
  <2>4. /\ Cardinality(Emitting') \in Nat /\ Cardinality(Emitting') <= Cardinality(Emitting) + 1
        /\ kind[h] # "signal" => Cardinality(Emitting') <= Cardinality(Emitting)
    BY <2>3, FramesCounted, SetGrows
  <2>5. EmittingFrames' = Cardinality(Emitting')
    BY DEF EmittingFrames, Emitting
  <2>6. EmittingFrames' <= emissions'
    BY <1>1, <1>6, <2>4, <2>5, FramesCounted
  <2> QED
    BY <2>1, <2>2, <2>6
<1> QED
  BY <1>2, <1>3, <1>4, <1>5, <1>6 DEF ClosureStep

\* A call of Connect makes a new call of what was none.
LEMMA ConnectStep ==
  ASSUME BindingsInv, Connect
  PROVE  ClosuresInv' /\ BetweenInv' /\ FinalisedHasNoContext'
<1>1. PICK h \in Calls, k \in {"signal", "source"}, a \in Addresses :
        /\ ClosureNew(h, k, a)
        /\ k = "signal" => wrappers > 0
        /\ \/ UNCHANGED captures
           \/ wrappers > Captured /\ captures' = captures \cup {h}
  BY DEF Connect
<1>2. /\ kind[h] = "none" /\ kind' = [kind EXCEPT ![h] = k]
      /\ contexts' = [contexts EXCEPT ![a] = h] /\ pending' = pending \cup {h}
      /\ UNCHANGED <<running, objectVars, emissions>>
  BY <1>1 DEF ClosureNew, IsNext, Connect
<1>3. /\ kind \in [Calls -> {"none", "signal", "unknown", "source"}]
      /\ contexts \in [Addresses -> {Null} \cup Calls]
      /\ pending \subseteq Calls /\ captures \subseteq Calls
      /\ \A g \in captures : kind[g] # "none"
      /\ \A g \in pending \cup Running(running) : kind[g] # "none"
  BY DEF BindingsInv, ClosuresInv, ClosuresTypeOK, BetweenInv, HeldInv
<1>4. ClosuresInv'
  BY <1>1, ClosureNewKeeps DEF BindingsInv
<1>5. wrappers' = wrappers /\ wrappers \in Nat /\ emissions' = emissions /\ emissions \in Nat
      /\ life' = life /\ refs' = refs
  BY <1>2, OwnersCounted DEF BindingsInv, objectVars
<1>6. \A g \in Calls \ {h} : kind'[g] = kind[g]
  BY <1>2, <1>3
<1>7. kind'[h] = k
  BY <1>2, <1>3
<1>8. EmittingFrames' <= emissions'
  <2>1. Null \notin Calls
    BY ClosuresAssumption DEF Calls, Null
  <2>2. \A f \in Frames : running[f].call \in Calls => running[f].call # h
    BY <1>2, <1>3, <2>1 DEF Running
  <2>3. Emitting' \subseteq Emitting
    BY <1>2, <1>6, <2>2 DEF Emitting, Signals
  <2>4. Cardinality(Emitting') <= Cardinality(Emitting) /\ Cardinality(Emitting') \in Nat
    BY <2>3, FramesCounted, FS_Subset, FS_CardinalityType
  <2>5. EmittingFrames' = Cardinality(Emitting')
    BY DEF EmittingFrames, Emitting
  <2> QED
    BY <1>5, <2>4, <2>5, FramesCounted DEF BindingsInv, BetweenInv
<1>9. Signals(pending)' # {} => wrappers' > 0
  <2>1. CASE k = "signal"
    BY <1>1, <1>5, <2>1
  <2>2. CASE k = "source"
    <3>1. Signals(pending)' \subseteq Signals(pending)
      BY <1>2, <1>3, <1>6, <1>7, <2>2 DEF Signals
    <3> QED
      BY <1>5, <3>1 DEF BindingsInv, BetweenInv
  <2> QED
    BY <2>1, <2>2
<1>10. captures' \subseteq Calls /\ \A g \in captures' : kind'[g] # "none"
  BY <1>1, <1>3, <1>6, <1>7
<1>11. Reachable' \subseteq Reachable \cup {h}
  BY <1>2, <1>3 DEF Reachable
<1>12. h \notin captures
  BY <1>2, <1>3
<1>13. Captured' <= wrappers' /\ (UNCHANGED captures => captures' \cap Reachable' \subseteq captures \cap Reachable)
  <2>1. /\ IsFiniteSet(captures \cap Reachable) /\ Captured \in Nat
        /\ Captured = Cardinality(captures \cap Reachable) /\ Captured <= wrappers
    BY CapturedCounted DEF BindingsInv, BetweenInv
  <2>2. captures' \cap Reachable' \subseteq (captures \cap Reachable) \cup {h}
    BY <1>1, <1>11
  <2>3. UNCHANGED captures => captures' \cap Reachable' \subseteq captures \cap Reachable
    BY <1>11, <1>12
  <2>4. /\ Cardinality(captures' \cap Reachable') \in Nat
        /\ Cardinality(captures' \cap Reachable') <= Cardinality(captures \cap Reachable) + 1
        /\ UNCHANGED captures =>
             Cardinality(captures' \cap Reachable') <= Cardinality(captures \cap Reachable)
    BY <2>1, <2>2, <2>3, SetGrows
  <2>5. Captured' = Cardinality(captures' \cap Reachable')
    BY DEF Captured
  <2>6. CASE UNCHANGED captures
    BY <1>5, <2>1, <2>3, <2>4, <2>5, <2>6
  <2>7. CASE wrappers > Captured
    BY <1>5, <2>1, <2>3, <2>4, <2>5, <2>7
  <2> QED
    BY <1>1, <2>6, <2>7
<1>14. BetweenInv'
  BY <1>8, <1>9, <1>10, <1>13 DEF BetweenInv
<1>15. FinalisedHasNoContext'
  <2> SUFFICES ASSUME life = "finalised"
               PROVE  /\ \A b \in Addresses : contexts'[b] \notin Signals(Calls)'
                      /\ captures' \cap Reachable' = {}
    BY <1>5 DEF FinalisedHasNoContext
  <2>1. /\ \A b \in Addresses : contexts[b] \notin Signals(Calls)
        /\ captures \cap Reachable = {}
    BY DEF BindingsInv, FinalisedHasNoContext
  <2>2. wrappers = 0
    BY NobodyOwns DEF BindingsInv
  <2>3. Captured \in Nat
    BY CapturedCounted DEF BindingsInv
  <2>4. k = "source" /\ UNCHANGED captures
    BY <1>1, <2>2, <2>3
  <2>5. \A b \in Addresses : contexts'[b] \notin Signals(Calls)'
    BY <1>2, <1>3, <1>6, <1>7, <2>1, <2>4 DEF Signals
  <2> QED
    BY <1>13, <2>1, <2>4, <2>5
<1> QED
  BY <1>4, <1>14, <1>15

\* If no callback becomes reachable that was not, none has a wrapper that had none.
LEMMA CapturedShrinks ==
  ASSUME BetweenInv, Calls \cap Reachable' \subseteq Reachable, UNCHANGED captures
  PROVE  /\ Captured' \in Nat /\ Captured' <= Captured /\ Captured \in Nat
         /\ captures' \cap Reachable' \subseteq captures \cap Reachable
<1>1. captures' \cap Reachable' \subseteq captures \cap Reachable
  BY DEF BetweenInv
<1>2. Captured' = Cardinality(captures' \cap Reachable')
  BY DEF Captured
<1> QED
  BY <1>1, <1>2, CapturedCounted, FS_Subset, FS_CardinalityType

\* The emissions, the wrappers and the captures after a step of a closure.
LEMMA ClosureStepBetween ==
  ASSUME BindingsInv, ClosureStep
  PROVE  ClosuresInv' /\ BetweenInv' /\ FinalisedHasNoContext'
<1>1. UNCHANGED <<objectVars, emissions, captures>>
  BY DEF ClosureStep
<1>2. wrappers' = wrappers /\ wrappers \in Nat /\ emissions \in Nat /\ life' = life
  BY <1>1, OwnersCounted DEF BindingsInv, objectVars
<1>3. /\ ClosuresInv' /\ Calls \cap Reachable' \subseteq Reachable
      /\ pending' \subseteq pending
      /\ \A g \in Calls : kind'[g] = kind[g] \/ (kind[g] = "signal" /\ kind'[g] = "unknown")
      /\ EmittingFrames' <= emissions'
  BY <1>2, ClosureStepKeeps DEF BindingsInv, BetweenInv
<1>4. pending \subseteq Calls /\ captures \subseteq Calls /\ Null \notin Calls
  BY ClosuresAssumption DEF BindingsInv, ClosuresInv, ClosuresTypeOK, BetweenInv, Calls, Null
<1>5. Signals(pending)' \subseteq Signals(pending) /\ Signals(Calls)' \subseteq Signals(Calls)
  BY <1>3, <1>4 DEF Signals
<1>6. Signals(pending)' # {} => wrappers' > 0
  BY <1>2, <1>5 DEF BindingsInv, BetweenInv
<1>7. captures' \subseteq Calls /\ \A g \in captures' : kind'[g] # "none"
  BY <1>1, <1>3, <1>4 DEF BindingsInv, BetweenInv
<1>8. Captured' \in Nat /\ Captured' <= Captured /\ Captured \in Nat
      /\ captures' \cap Reachable' \subseteq captures \cap Reachable
  BY <1>1, <1>3, CapturedShrinks DEF BindingsInv
<1>9. Captured' <= wrappers'
  BY <1>2, <1>8 DEF BindingsInv, BetweenInv
<1>10. BetweenInv'
  BY <1>3, <1>6, <1>7, <1>9 DEF BetweenInv
<1>11. \A a \in Addresses : contexts'[a] \in {contexts[a], Null}
  BY ContextsShrink DEF BindingsInv
<1>12. Null \notin Signals(Calls)
  BY <1>4 DEF Signals
<1>13. FinalisedHasNoContext'
  <2> SUFFICES ASSUME life = "finalised"
               PROVE  /\ \A a \in Addresses : contexts'[a] \notin Signals(Calls)'
                      /\ captures' \cap Reachable' = {}
    BY <1>2 DEF FinalisedHasNoContext
  <2>1. /\ \A a \in Addresses : contexts[a] \notin Signals(Calls)
        /\ captures \cap Reachable = {}
    BY DEF BindingsInv, FinalisedHasNoContext
  <2> QED
    BY <1>5, <1>8, <1>11, <1>12, <2>1
<1> QED
  BY <1>3, <1>10, <1>13

\* What a step of the object does to its emissions, its wrappers and its life.
LEMMA ObjectEffects ==
  ASSUME ObjectInv, BetweenInv, OwnerStep \/ EmitBegins \/ EmitEnds
  PROVE  /\ ObjectInv'
         /\ EmittingFrames <= emissions'
         /\ Captured <= wrappers'
         /\ Signals(pending) # {} => wrappers' > 0
         /\ life' = "finalised" => life = "finalised" \/ refs = 1
<1>1. /\ wrappers \in Nat /\ emissions \in Nat /\ EmittingFrames \in Nat /\ Captured \in Nat
      /\ EmittingFrames <= emissions /\ Captured <= wrappers
      /\ Signals(pending) # {} => wrappers > 0
  BY OwnersCounted, FramesCounted, CapturedCounted DEF BetweenInv
<1>2. CASE EmitBegins \/ EmitEnds
  <2>1. ObjectInv'
    BY <1>1, <1>2, OwnersStep
  <2>2. wrappers' = wrappers /\ (life' = "finalised" => life = "finalised" \/ refs = 1)
    BY <1>2 DEF EmitBegins, EmitEnds, Ref, Unref
  <2>3. EmittingFrames <= emissions'
    BY <1>1, <1>2 DEF EmitBegins, EmitEnds
  <2> QED
    BY <1>1, <2>1, <2>2, <2>3
<1>3. ASSUME Create \/ ParentSinks \/ ParentUnrefs \/ TransferFull \/ SetInstance \/ UnsetValue,
             UNCHANGED emissions
      PROVE  /\ ObjectInv' /\ emissions' = emissions /\ wrappers' >= wrappers /\ wrappers' \in Nat
             /\ life' = "finalised" => life = "finalised" \/ refs = 1
  <2>1. ObjectInv'
    BY <1>1, <1>3, OwnersStep
  <2>2. wrappers' \in {wrappers, wrappers + 1}
    BY <1>3 DEF Create, ParentSinks, ParentUnrefs, TransferFull, SetInstance, UnsetValue
  <2>3. life' = "finalised" => life = "finalised" \/ refs = 1
    BY <1>3 DEF Create, ParentSinks, ParentUnrefs, TransferFull, SetInstance, UnsetValue, Unref
  <2> QED
    BY <1>1, <1>3, <2>1, <2>2, <2>3
<1>4. ASSUME wrappers > Captured, wrappers > 1 \/ Signals(pending) = {}, FinalizeWrapper,
             UNCHANGED emissions
      PROVE  /\ ObjectInv' /\ emissions' = emissions /\ Captured <= wrappers'
             /\ Signals(pending) # {} => wrappers' > 0
             /\ life' = "finalised" => life = "finalised" \/ refs = 1
  <2>1. ObjectInv'
    BY <1>1, <1>4, OwnersStep
  <2>2. wrappers' = wrappers - 1
    BY <1>4 DEF FinalizeWrapper
  <2>3. life' = "finalised" => life = "finalised" \/ refs = 1
    BY <1>4 DEF FinalizeWrapper, Unref
  <2> QED
    BY <1>1, <1>4, <2>1, <2>2, <2>3
<1>5. ASSUME NEW t \in Threads, UNCHANGED emissions,
             \/ \E function \in {"take", "original", "none-full"} : Begin(t, function)
             \/ Took(t) \/ OriginalSinks(t) \/ FullBegins(t) \/ End(t)
      PROVE  /\ ObjectInv' /\ emissions' = emissions /\ wrappers' >= wrappers /\ wrappers' \in Nat
             /\ life' = "finalised" => life = "finalised" \/ refs = 1
  <2>1. ObjectInv'
    BY <1>5, ThreadStep
  <2>2. wrappers' = wrappers \/ wrappers' = wrappers + (IF within[t][1] = "take" THEN 1 ELSE 0)
    BY <1>5 DEF Begin, Took, OriginalSinks, FullBegins, End
  <2>3. wrappers' >= wrappers /\ wrappers' \in Nat
    BY <1>1, <2>2
  <2>4. life' = "finalised" => life = "finalised" \/ refs = 1
    BY <1>5 DEF Begin, Took, OriginalSinks, FullBegins, End, Unref
  <2> QED
    BY <1>5, <2>1, <2>3, <2>4
<1>6. CASE OwnerStep
  <2>1. \/ (Create \/ ParentSinks \/ ParentUnrefs \/ TransferFull \/ SetInstance \/ UnsetValue)
             /\ UNCHANGED emissions
        \/ /\ wrappers > Captured /\ (wrappers > 1 \/ Signals(pending) = {})
           /\ FinalizeWrapper /\ UNCHANGED emissions
        \/ \E t \in Threads :
             /\ UNCHANGED emissions
             /\ \/ \E function \in {"take", "original", "none-full"} : Begin(t, function)
                \/ Took(t) \/ OriginalSinks(t) \/ FullBegins(t) \/ End(t)
    BY <1>6 DEF OwnerStep
  <2>2. CASE (Create \/ ParentSinks \/ ParentUnrefs \/ TransferFull \/ SetInstance \/ UnsetValue)
               /\ UNCHANGED emissions
    BY <1>1, <1>3, <2>2
  <2>3. CASE /\ wrappers > Captured /\ (wrappers > 1 \/ Signals(pending) = {})
             /\ FinalizeWrapper /\ UNCHANGED emissions
    BY <1>1, <1>4, <2>3
  <2>4. CASE \E t \in Threads :
               /\ UNCHANGED emissions
               /\ \/ \E function \in {"take", "original", "none-full"} : Begin(t, function)
                  \/ Took(t) \/ OriginalSinks(t) \/ FullBegins(t) \/ End(t)
    BY <1>1, <1>5, <2>4
  <2> QED
    BY <2>1, <2>2, <2>3, <2>4
<1> QED
  BY <1>2, <1>6

\* The object moves on, and takes its handlers with it when it is finalised.
LEMMA ObjectStepKeeps ==
  ASSUME BindingsInv, ObjectStep
  PROVE  BindingsInv'
<1>1. /\ OwnerStep \/ EmitBegins \/ EmitEnds
      /\ IF life = "alive" /\ life' = "finalised" THEN HandlersDestroyed ELSE UNCHANGED closureVars
      /\ UNCHANGED captures
  BY DEF ObjectStep
<1>2. /\ ObjectInv'
      /\ EmittingFrames <= emissions'
      /\ Captured <= wrappers'
      /\ Signals(pending) # {} => wrappers' > 0
      /\ life' = "finalised" => life = "finalised" \/ refs = 1
  BY <1>1, ObjectEffects DEF BindingsInv
<1>3. /\ ClosuresInv' /\ Calls \cap Reachable' \subseteq Reachable
      /\ UNCHANGED <<kind, pending, running>>
  <2>1. CASE HandlersDestroyed
    BY <2>1, DestroyedKeeps DEF BindingsInv
  <2>2. CASE UNCHANGED closureVars
    <3>1. ClosuresInv'
      BY <2>2 DEF BindingsInv, ClosuresInv, ClosuresTypeOK, ContextsMatchClosures, HeldInv,
                  HandleInv, Signals, Running, closureVars
    <3> QED
      BY <2>2, <3>1 DEF closureVars, Reachable
  <2> QED
    BY <1>1, <2>1, <2>2
<1>4. /\ Captured' \in Nat /\ Captured' <= Captured /\ Captured \in Nat
      /\ captures' \cap Reachable' \subseteq captures \cap Reachable
  BY <1>1, <1>3, CapturedShrinks DEF BindingsInv
<1>5. EmittingFrames' = EmittingFrames /\ Signals(pending)' = Signals(pending)
      /\ Signals(Calls)' = Signals(Calls)
  BY <1>3 DEF EmittingFrames, Signals
<1>6. wrappers' \in Nat /\ emissions' \in Nat /\ EmittingFrames \in Nat
  <2>1. Cardinality(Frames) \in Nat
    BY ClosuresAssumption, FS_CardinalityType
  <2>2. wrappers' \in 0 .. MaxWrappers /\ emissions' \in 0 .. Cardinality(Frames)
    BY <1>2 DEF ObjectInv, ObjectTypeOK
  <2> QED
    BY <2>1, <2>2, ObjectAssumption, FramesCounted
<1>7. BetweenInv'
  <2>1. Captured' <= wrappers'
    BY <1>2, <1>4, <1>6
  <2>2. captures' \subseteq Calls /\ \A g \in captures' : kind'[g] # "none"
    BY <1>1, <1>3 DEF BindingsInv, BetweenInv
  <2> QED
    BY <1>2, <1>5, <2>1, <2>2 DEF BetweenInv
<1>8. FinalisedHasNoContext'
  <2> SUFFICES ASSUME life' = "finalised"
               PROVE  /\ \A a \in Addresses : contexts'[a] \notin Signals(Calls)'
                      /\ captures' \cap Reachable' = {}
    BY DEF FinalisedHasNoContext
  <2>1. CASE life = "finalised"
    <3>1. UNCHANGED closureVars
      BY <1>1, <2>1
    <3>2. /\ \A a \in Addresses : contexts[a] \notin Signals(Calls)
          /\ captures \cap Reachable = {}
      BY <2>1 DEF BindingsInv, FinalisedHasNoContext
    <3> QED
      BY <1>4, <1>5, <3>1, <3>2 DEF closureVars
  <2>2. CASE life # "finalised"
    <3>1. refs = 1 /\ life = "alive" /\ HandlersDestroyed
      <4>1. refs = 1
        BY <1>2, <2>2
      <4>2. life = "alive"
        BY <4>1 DEF BindingsInv, ObjectInv
      <4> QED
        BY <1>1, <4>1, <4>2
    <3>2. wrappers' = 0 /\ emissions' = 0
      <4>1. life' # "alive"
        BY <2>2
      <4> QED
        BY <1>2, <4>1, NobodyOwnsNext
    <3>3. EmittingFrames = 0 /\ Signals(pending) = {} /\ Captured' = 0
      BY <1>2, <1>4, <1>6, <3>2
    <3>4. captures' \cap Reachable' = {}
      <4>1. captures' \cap Reachable' \in SUBSET Calls /\ Captured' = Cardinality(captures' \cap Reachable')
        BY <1>1 DEF BindingsInv, BetweenInv, Captured
      <4>2. IsFiniteSet(captures' \cap Reachable')
        BY <4>1, FramesCounted, FS_Subset
      <4> QED
        BY <3>3, <4>1, <4>2, FS_EmptySet
    <3>5. Emitting = {}
      BY <3>3, FramesCounted, FS_EmptySet
    <3>6. ASSUME NEW a \in Addresses, contexts'[a] \in Signals(Calls) PROVE FALSE
      <4>1. contexts'[a] \in pending \cup Running(running)
        BY <3>1, <3>6, DestroyedKeeps DEF BindingsInv
      <4>2. contexts'[a] \notin pending
        BY <3>3, <3>6 DEF Signals
      <4>3. PICK f \in Frames : running[f].call = contexts'[a]
        BY <4>1, <4>2 DEF Running
      <4> QED
        BY <3>5, <3>6, <4>3 DEF Emitting
    <3> QED
      BY <1>5, <3>4, <3>6
  <2> QED
    BY <2>1, <2>2
<1> QED
  BY <1>2, <1>3, <1>7, <1>8 DEF BindingsInv

\* The invariant holds in every behaviour.
LEMMA BindingsInvariant == BindingsSpec => []BindingsInv
<1>1. Init => BindingsInv
  <2> SUFFICES ASSUME Init PROVE BindingsInv
    OBVIOUS
  <2>1. ClosuresInv /\ ObjectInv
    BY ClosuresStart, ObjectStarts DEF Init
  <2>2. /\ kind = [h \in Calls |-> "none"] /\ running = [f \in Frames |-> IdleFrame] /\ pending = {}
        /\ captures = {} /\ emissions = 0 /\ wrappers = 0 /\ life = "none"
    BY DEF Init, ClosuresInit, ObjectInit
  <2>3. Emitting = {} /\ Signals(pending) = {} /\ captures \cap Reachable = {}
    BY <2>2, ClosuresAssumption DEF Emitting, Signals
  <2>4. EmittingFrames = 0 /\ Captured = 0
    BY <2>3, FramesCounted, FS_EmptySet DEF Captured
  <2>5. BetweenInv
    BY <2>2, <2>3, <2>4 DEF BetweenInv
  <2>6. FinalisedHasNoContext
    BY <2>2 DEF FinalisedHasNoContext
  <2> QED
    BY <2>1, <2>5, <2>6 DEF BindingsInv
<1>2. BindingsInv /\ [Next]_vars => BindingsInv'
  <2> SUFFICES ASSUME BindingsInv, [Next]_vars PROVE BindingsInv'
    OBVIOUS
  <2>1. ASSUME UNCHANGED <<objectVars, emissions>> PROVE ObjectInv'
    <3>1. UNCHANGED <<life, refs, floating, parents, wrappers, values, within, overlap, emissions>>
      BY <2>1 DEF objectVars
    <3>2. InStep("read")' = InStep("read") /\ InStep("inside")' = InStep("inside")
          /\ Takers' = Takers /\ Owned' = Owned
      BY <3>1 DEF InStep, Takers, Owned
    <3>3. ObjectTypeOK' /\ RefsMatchOwners'
      BY <3>1, <3>2 DEF BindingsInv, ObjectInv, ObjectTypeOK, RefsMatchOwners
    <3>4. ReadInv' /\ OriginalInv' /\ WithinInv'
      BY <3>1, <3>2 DEF BindingsInv, ObjectInv, ReadInv, OriginalInv, WithinInv
    <3> QED
      BY <3>1, <3>3, <3>4 DEF BindingsInv, ObjectInv
  <2>2. CASE Connect
    BY <2>1, <2>2, ConnectStep DEF BindingsInv, Connect
  <2>3. CASE ClosureStep
    BY <2>1, <2>3, ClosureStepBetween DEF BindingsInv, ClosureStep
  <2>4. CASE ObjectStep
    BY <2>4, ObjectStepKeeps
  <2>5. CASE UNCHANGED vars
    <3>1. UNCHANGED <<closureVars, objectVars, emissions, captures>>
      BY <2>5 DEF vars
    <3>2. ClosuresInv' /\ Reachable' = Reachable
      BY <3>1 DEF BindingsInv, ClosuresInv, ClosuresTypeOK, ContextsMatchClosures, HeldInv,
                  HandleInv, Signals, Running, closureVars, Reachable
    <3>3. EmittingFrames' = EmittingFrames /\ Captured' = Captured
          /\ Signals(pending)' = Signals(pending) /\ Signals(Calls)' = Signals(Calls)
      BY <3>1, <3>2 DEF EmittingFrames, Captured, Signals, closureVars
    <3>4. BetweenInv' /\ FinalisedHasNoContext'
      BY <3>1, <3>2, <3>3 DEF BindingsInv, BetweenInv, FinalisedHasNoContext, closureVars, objectVars
    <3> QED
      BY <2>1, <3>1, <3>2, <3>4 DEF BindingsInv
  <2> QED
    BY <2>2, <2>3, <2>4, <2>5 DEF Next
<1> QED
  BY <1>1, <1>2, PTL DEF BindingsSpec

\* The variables keep their types, and an object is alive exactly while it has references.
THEOREM BindingsTypes == BindingsSpec => []TypeOK
<1>1. BindingsInv => TypeOK
  BY DEF BindingsInv, ClosuresInv, ObjectInv, BetweenInv, TypeOK
<1> QED
  BY <1>1, BindingsInvariant, PTL

\* However addresses come again, whoever disconnects: closures.m has the context of the
\* closure that lives at an address, or lost it to HandlerDisconnect (connect.go:96-103,
\* gobject.go:325).
THEOREM ContextsFollowClosures == BindingsSpec => []ContextsMatchClosures
<1>1. BindingsInv => ContextsMatchClosures
  BY DEF BindingsInv, ClosuresInv
<1> QED
  BY <1>1, BindingsInvariant, PTL

\* No wrapper, value, callback or emission is left with a finalised object, and nothing
\* leaks but what overlapping WithTransferOriginal make (gobject.go:332-352).
THEOREM ReferencesAreOwned == BindingsSpec => []RefsMatchOwners
<1>1. BindingsInv => RefsMatchOwners
  BY DEF BindingsInv, ObjectInv
<1> QED
  BY <1>1, BindingsInvariant, PTL

\* With the object go the contexts of its handlers (connect.go:103-106), and no callback
\* that can still be reached has a wrapper of it.
THEOREM FinalisedObjectsLetGo == BindingsSpec => []FinalisedHasNoContext
<1>1. BindingsInv => FinalisedHasNoContext
  BY DEF BindingsInv
<1> QED
  BY <1>1, BindingsInvariant, PTL
=============================================================================
