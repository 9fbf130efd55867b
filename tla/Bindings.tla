------------------------------ MODULE Bindings ------------------------------
(***************************************************************************)
(* An object and the callbacks connected to its signals: an emission holds *)
(* the object, a callback may keep a wrapper of it from the collector, and *)
(* the object takes its handlers with it when it is finalised.             *)
(***************************************************************************)
EXTENDS GlibClosures, GlibObject

VARIABLES
  emissions,  \* emissions in progress, which hold the object
  captures    \* the calls whose callback keeps a wrapper of the object

vars == <<closureVars, objectVars, emissions, captures>>

TypeOK ==
  /\ ClosuresTypeOK /\ ObjectTypeOK
  /\ emissions \in 0 .. Cardinality(Frames)
  /\ captures \subseteq Calls
  /\ life = "alive" <=> refs > 0

Init == ClosuresInit /\ ObjectInit /\ emissions = 0 /\ captures = {}

\* Callbacks that Go can still reach: in closures.m, or running.
Reachable ==
  {contexts[a] : a \in Addresses}
    \cup {running[f].call : f \in {g \in Frames : running[g].step = "callback"}}
Captured == Cardinality(captures \cap Reachable)
EmittingFrames == Cardinality({f \in Frames : running[f].call \in Signals(Calls)})

\* Bound: with two threads within a function, there has been one call at most.
Crowded == overlap \/ \A t \in Threads : within[t] # Outside
Few == Cardinality({h \in Calls : kind[h] # "none"}) <= (IF Crowded THEN 1 ELSE MaxCalls)

\* A call of Connect is one of a wrapper; its callback may keep another.
Connect ==
  /\ \E h \in Calls, k \in {"signal", "source"}, a \in Addresses :
       /\ ClosureNew(h, k, a)
       /\ k = "signal" => wrappers > 0
       /\ \/ UNCHANGED captures
          \/ wrappers > Captured /\ captures' = captures \cup {h}
  /\ UNCHANGED <<objectVars, emissions>>

ClosureStep ==
  /\ \/ \E h \in Calls :
          \/ ConnectClosure(h) \/ SourceAttach(h) \/ SourceRemove(h)
          \/ wrappers > 0 /\ Disconnect(h)
          \/ DisconnectInvalidate(h) \/ DisconnectDelete(h)
          \/ \E f \in Frames :
               /\ kind[h] = "signal" => emissions > EmittingFrames
               /\ Invoke(f, h)
     \/ \E f \in Frames : Marshal(f) \/ Return(f)
  /\ UNCHANGED <<objectVars, emissions, captures>>

\* g_signal_emit holds the object until all handlers have run.
EmitBegins ==
  /\ life = "alive" /\ emissions < Cardinality(Frames)
  /\ Ref /\ emissions' = emissions + 1
  /\ UNCHANGED <<life, parents, wrappers, values, within, overlap>>

EmitEnds ==
  /\ emissions > EmittingFrames
  /\ Unref /\ emissions' = emissions - 1
  /\ UNCHANGED <<parents, wrappers, values, within, overlap>>

\* A wrapper that a callback keeps, or whose Connect is under way, has no finalizer to
\* run.
OwnerStep ==
  /\ \/ Create \/ ParentSinks \/ ParentUnrefs \/ TransferFull \/ SetInstance \/ UnsetValue
     \/ /\ wrappers > Captured /\ (wrappers > 1 \/ Signals(pending) = {})
        /\ FinalizeWrapper
     \/ \E t \in Threads :
          \/ \E function \in {"take", "original", "none-full"} : Begin(t, function)
          \/ Took(t) \/ OriginalSinks(t) \/ FullBegins(t) \/ End(t)
  /\ UNCHANGED emissions

\* With its last reference an object loses its handlers.
ObjectStep ==
  /\ (OwnerStep \/ EmitBegins \/ EmitEnds)
  /\ IF life = "alive" /\ life' = "finalised" THEN HandlersDestroyed ELSE UNCHANGED closureVars
  /\ UNCHANGED captures

Next == status = "up" /\ (Connect \/ ClosureStep \/ ObjectStep) /\ Few'

BindingsSpec == Init /\ [][Next]_vars

(***************************************************************************)
(* Properties                                                              *)
(***************************************************************************)

\* closures.m is in step with the closures of GLib, whose addresses come again: an
\* address has the context of the very closure that lives there and none when none
\* does, so a callback is never run for another, and none is kept longer than its
\* closure (connect.go:96-103).  The one exception is HandlerDisconnect, which removes
\* what it finds under an address its closure may have left already (gobject.go:325).
ContextsMatchClosures ==
  \A a \in Addresses :
    \/ contexts[a] = memory[a]
    \/ contexts[a] = Null /\ memory[a] \in lost

\* The reference count covers every owner, so that no wrapper, value, callback or
\* emission is left with a finalised object; and it is exact, so that nothing leaks,
\* unless two WithTransferOriginal have overlapped, which its comment calls "not
\* thread safe" (gobject.go:332-352).
RefsMatchOwners ==
  LET owned == Owned + emissions + (IF floating THEN 1 ELSE 0) IN
    refs = owned \/ (refs > owned /\ overlap)

\* A finalised object has left no context in closures.m: "needed to prevent a leak
\* where Go code can access the closure context even after an object has been
\* destroyed" (connect.go:103-106).  Left are callbacks under way, and those of signals
\* Connect did not know; and an object whose callback keeps a wrapper is not finalised.
FinalisedHasNoContext ==
  life = "finalised" =>
    /\ \A a \in Addresses : contexts[a] \notin Signals(Calls)
    /\ captures \cap Reachable = {}
=============================================================================
