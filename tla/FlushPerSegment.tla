-------------------------- MODULE FlushPerSegment ---------------------------
(***************************************************************************)
(* What onNewFileSegmentCreate of SegmentationPipeline can count on.  As   *)
(* long as segments are opened in turn, each after all before it have been *)
(* closed, it is called for 1, 2, 3 ... : for every segment, once and in   *)
(* order.  From the first that is not, a call may be for any segment, even *)
(* one called for before; what remains is that there are never more calls  *)
(* than segments begun, and in the end as many.                            *)
(***************************************************************************)
EXTENDS Naturals, Sequences

VARIABLES
  begun,   \* segments begun
  inTurn,  \* the last of those begun in turn
  called   \* the segments onNewFileSegmentCreate was called for, in order

vars == <<begun, inTurn, called>>

Init == begun = 0 /\ inTurn = 0 /\ called = <<>>

Begin ==
  /\ begun' = begun + 1
  /\ \/ inTurn = begun /\ inTurn' = begun'
     \/ UNCHANGED inTurn
  /\ UNCHANGED called

Call(s) ==
  /\ Len(called) < begun
  /\ s \in 1 .. begun
  /\ Len(called) < inTurn => s = Len(called) + 1
  /\ called' = Append(called, s)
  /\ UNCHANGED <<begun, inTurn>>

Next == Begin \/ \E s \in 1 .. begun : Call(s)

Spec == Init /\ [][Next]_vars
Fairness == WF_vars(\E s \in 1 .. begun : Call(s))
FairSpec == Spec /\ Fairness
=============================================================================
