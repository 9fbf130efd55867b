---------------------------- MODULE GlibClosures ----------------------------
(***************************************************************************)
(* Go callbacks in GLib (go-glib/glib/connect.go, and goMarshal, IdleAdd   *)
(* and TimeoutAdd of glib.go).  A GClosure stands for the callback of one  *)
(* call of Connect, IdleAdd or TimeoutAdd; the binding finds the callback  *)
(* in closures.m by the address of the closure, and GLib uses an address   *)
(* again once its closure is finalised.  Calls are numbered.               *)
(***************************************************************************)
EXTENDS Integers, FiniteSets

CONSTANTS
  Addresses,  \* where closures are allocated
  Frames,     \* invocations of closures in progress: emissions and dispatches
  MaxCalls    \* bound: calls of Connect, IdleAdd and TimeoutAdd

Calls == 1 .. MaxCalls
Null == 0

ASSUME ClosuresAssumption == MaxCalls \in Nat /\ Null \notin Addresses /\ IsFiniteSet(Frames)

VARIABLES
  kind,          \* what a call connects: "none" yet, a "signal", an "unknown" signal, a "source"
  memory,        \* address -> the call whose closure lives there, Null for none
  contexts,      \* closures.m: address -> the call whose callback is kept, Null for none
  signals,       \* signals.m: call -> the address kept under its handle, Null for none
  pending,       \* calls whose closure is made and not (or never) sunk by a handler or source
  connected,     \* calls whose handler or source holds the closure
  invalid,       \* calls whose closure is invalidated
  running,       \* frame -> the call it invokes and how far it is
  disconnecting, \* call -> the step of HandlerDisconnect and the address it has read
  lost,          \* history: calls whose context HandlerDisconnect removed
  status         \* of the process: "up", "panicked", or "corrupted"

closureVars == <<kind, memory, contexts, signals, pending, connected, invalid, running,
                 disconnecting, lost, status>>

IdleFrame == [call |-> Null, step |-> "idle"]
NotDisconnecting == [step |-> "no", closure |-> Null]
Signals(set) == {h \in set : kind[h] = "signal"}
Running(frames) == {frames[f].call : f \in Frames} \ {Null}

ClosuresTypeOK ==
  /\ kind \in [Calls -> {"none", "signal", "unknown", "source"}]
  /\ memory \in [Addresses -> {Null} \cup Calls]
  /\ contexts \in [Addresses -> {Null} \cup Calls]
  /\ signals \in [Calls -> {Null} \cup Addresses]
  /\ pending \subseteq Calls /\ connected \subseteq Calls /\ invalid \subseteq Calls
  /\ running \in [Frames -> [call : {Null} \cup Calls, step : {"idle", "marshal", "callback"}]]
  /\ disconnecting \in [Calls -> [step : {"no", "invalidate", "delete"},
                                  closure : {Null} \cup Addresses]]
  /\ lost \subseteq Calls
  /\ status \in {"up", "panicked", "corrupted"}

ClosuresInit ==
  /\ kind = [h \in Calls |-> "none"]
  /\ memory = [a \in Addresses |-> Null] /\ contexts = [a \in Addresses |-> Null]
  /\ signals = [h \in Calls |-> Null]
  /\ pending = {} /\ connected = {} /\ invalid = {}
  /\ running = [f \in Frames |-> IdleFrame]
  /\ disconnecting = [h \in Calls |-> NotDisconnecting]
  /\ lost = {} /\ status = "up"

AddressOf(h) == CHOOSE a \in Addresses : memory[a] = h
IsNext(h) == kind[h] = "none" /\ \A g \in 1 .. h - 1 : kind[g] # "none"

\* Mutant of ContextsAfter: no finalize notifier, the context stays.
ContextsKept(held) == contexts

\* removeClosure, the finalize notifier, for the closures nobody holds any more.
ContextsAfter(held) ==
  [a \in Addresses |-> IF memory[a] \in held THEN contexts[a]
                       ELSE IF memory[a] # Null THEN Null ELSE contexts[a]]

\* The holders of closures change; those without any are finalised.
Hold(connected1, running1) ==
  LET held == pending \cup connected1 \cup Running(running1) IN
    /\ connected' = connected1 /\ running' = running1
    /\ memory' = [a \in Addresses |-> IF memory[a] \in held THEN memory[a] ELSE Null]
    /\ contexts' = ContextsAfter(held)

\* ClosureNew: a closure at a free address, and its context.
ClosureNew(h, k, a) ==
  /\ IsNext(h) /\ memory[a] = Null
  /\ kind' = [kind EXCEPT ![h] = k]
  /\ memory' = [memory EXCEPT ![a] = h]
  /\ contexts' = [contexts EXCEPT ![a] = h]
  /\ pending' = pending \cup {h}
  /\ UNCHANGED <<signals, connected, invalid, running, disconnecting, lost, status>>

\* The rest of connectClosure: the handler sinks the closure, its handle is kept.  An
\* unknown signal has handle 0, no error is returned, and nobody holds the closure.
ConnectClosure(h) ==
  /\ h \in pending /\ kind[h] = "signal"
  /\ \/ /\ signals' = [signals EXCEPT ![h] = AddressOf(h)]
        /\ pending' = pending \ {h} /\ connected' = connected \cup {h}
        /\ UNCHANGED kind
     \/ kind' = [kind EXCEPT ![h] = "unknown"] /\ UNCHANGED <<signals, pending, connected>>
  /\ UNCHANGED <<memory, contexts, invalid, running, disconnecting, lost, status>>

\* The rest of sourceAttach.
SourceAttach(h) ==
  /\ h \in pending /\ kind[h] = "source"
  /\ pending' = pending \ {h} /\ connected' = connected \cup {h}
  /\ UNCHANGED <<kind, memory, contexts, signals, invalid, running, disconnecting, lost, status>>

\* GLib emits the signal or dispatches the source, and holds the closure meanwhile; it
\* does not invoke one that is invalid.  A source is dispatched by one frame at a time.
Invoke(f, h) ==
  /\ running[f] = IdleFrame /\ h \in connected \ invalid
  /\ kind[h] = "source" => h \notin Running(running)
  /\ running' = [running EXCEPT ![f] = [call |-> h, step |-> "marshal"]]
  /\ UNCHANGED <<kind, memory, contexts, signals, pending, connected, invalid,
                 disconnecting, lost, status>>

\* What is left of a frame that returns: a source stays only if its callback says so.
Returned(f, again) ==
  LET h == running[f].call IN
    Hold(IF kind[h] = "source" /\ ~again THEN connected \ {h} ELSE connected,
         [running EXCEPT ![f] = IdleFrame])

\* goMarshal up to the call: the type of a missing callback is asked for in vain, and
\* a callback that takes more arguments than there are, or others, is not called.
Marshal(f) ==
  /\ running[f].step = "marshal"
  /\ LET a == AddressOf(running[f].call) IN
       \/ /\ contexts[a] = Null
          /\ status' = "panicked"
          /\ UNCHANGED <<memory, contexts, connected, running>>
       \/ /\ contexts[a] # Null
          /\ running' = [running EXCEPT ![f] = [@ EXCEPT !.step = "callback"]]
          /\ UNCHANGED <<memory, contexts, connected, status>>
       \/ contexts[a] # Null /\ Returned(f, FALSE) /\ UNCHANGED status
  /\ UNCHANGED <<kind, signals, pending, invalid, disconnecting, lost>>

\* The callback returns, and goMarshal keeps what it returned.
Return(f) ==
  /\ running[f].step = "callback"
  /\ \E again \in BOOLEAN : Returned(f, again)
  /\ UNCHANGED <<kind, signals, pending, invalid, disconnecting, lost, status>>

\* SourceRemove.
SourceRemove(h) ==
  /\ h \in connected /\ kind[h] = "source"
  /\ Hold(connected \ {h}, running)
  /\ UNCHANGED <<kind, signals, pending, invalid, disconnecting, lost, status>>

\* HandlerDisconnect, of a handle Connect returned: GLib drops the handler.
Disconnect(h) ==
  /\ h \in Signals(connected) /\ disconnecting[h] = NotDisconnecting
  /\ Hold(connected \ {h}, running)
  /\ disconnecting' = [disconnecting EXCEPT ![h].step = "invalidate"]
  /\ UNCHANGED <<kind, signals, pending, invalid, lost, status>>

\* What the address of the handle holds is invalidated: the closure if a frame holds it
\* still; one made there since; or memory that is free, which is left or destroyed.
DisconnectInvalidate(h) ==
  /\ disconnecting[h].step = "invalidate"
  /\ LET g == memory[signals[h]] IN
       \/ /\ g # Null
          /\ invalid' = invalid \cup {g}
          /\ Hold(connected \ (Signals({g}) \cap connected), running)
          /\ UNCHANGED status
       \/ /\ g = Null
          /\ status' \in {"up", "corrupted"}
          /\ UNCHANGED <<memory, contexts, connected, running, invalid>>
  /\ disconnecting' = [disconnecting EXCEPT ![h] = [step |-> "delete", closure |-> signals[h]]]
  /\ signals' = [signals EXCEPT ![h] = Null]
  /\ UNCHANGED <<kind, pending, lost>>

\* The context under that address is removed.
DisconnectDelete(h) ==
  /\ disconnecting[h].step = "delete"
  /\ contexts' = [contexts EXCEPT ![disconnecting[h].closure] = Null]
  /\ lost' = lost \cup ({contexts[disconnecting[h].closure]} \ {Null})
  /\ disconnecting' = [disconnecting EXCEPT ![h] = NotDisconnecting]
  /\ UNCHANGED <<kind, memory, signals, pending, connected, invalid, running, status>>

\* The object is finalised, and its handlers with it.
HandlersDestroyed ==
  /\ Hold(connected \ Signals(connected), running)
  /\ UNCHANGED <<kind, signals, pending, invalid, disconnecting, lost, status>>

=============================================================================
