------------------------------- MODULE Source -------------------------------
(***************************************************************************)
(* SourcePipeline (pipeline/source.go): the callback of pad-added, by      *)
(* which the video pad of rtspsrc is linked to the tee of the base         *)
(* pipeline through a depay element made for its encoding.  The pads come  *)
(* as the camera describes its streams, audio or video first, and go and   *)
(* come again when rtspsrc reconnects.                                     *)
(***************************************************************************)
EXTENDS Naturals

CONSTANT MaxPads \* bound: pads rtspsrc adds

None == "none"
Supported == {"H264", "H265"}
PadEncodings == Supported \cup {"other", None} \* None: the caps have no encoding-name

VARIABLES
  available, \* the encodings whose depay plugin is installed
  pads,      \* pads added so far
  factory,   \* depay.Factory, by its encoding, or "unknown"
  depay,     \* the depay element in the pipeline, by its encoding
  linked,    \* the encoding of the pad linked to it
  tee,       \* the encoding it is linked to the tee with
  panicked   \* log.Panic "desired caps is nil"

vars == <<available, pads, factory, depay, linked, tee, panicked>>

TypeOK ==
  /\ available \subseteq Supported
  /\ pads \in 0 .. MaxPads
  /\ factory \in Supported \cup {"unknown"}
  /\ depay \in Supported \cup {None}
  /\ linked \in PadEncodings
  /\ tee \in PadEncodings
  /\ panicked \in BOOLEAN

\* Mutant of Init: depay is made for H264 until a pad says otherwise.
InitH264 ==
  /\ available \in SUBSET Supported
  /\ pads = 0
  /\ factory = "H264"
  /\ depay = None /\ linked = None /\ tee = None /\ panicked = FALSE

Init ==
  /\ available \in SUBSET Supported
  /\ pads = 0
  /\ factory = "unknown"
  /\ depay = None /\ linked = None /\ tee = None /\ panicked = FALSE

\* The switch on the encoding leaves the factory alone in its default.
FactoryFor(e) == IF e \in Supported THEN e ELSE factory

Arrives ==
  /\ ~panicked /\ pads < MaxPads
  /\ pads' = pads + 1

\* The pad is linked already, or its caps have no encoding-name: the callback returns.
PadWithoutEncoding ==
  /\ Arrives
  /\ UNCHANGED <<available, factory, depay, linked, tee, panicked>>

\* There is no such plugin: Build fails, and the callback returns.
PadNotBuilt(e) ==
  /\ e # None /\ Arrives
  /\ depay = None /\ FactoryFor(e) \notin available
  /\ factory' = FactoryFor(e)
  /\ UNCHANGED <<available, depay, linked, tee, panicked>>

\* Mutant of PadRepeated: the callback goes on when the element cannot be added.
RepeatedRelinks(e) ==
  /\ e # None /\ Arrives /\ depay # None
  /\ factory' = FactoryFor(e)
  /\ linked' \in {linked, e} /\ tee' = linked'
  /\ UNCHANGED <<available, depay, panicked>>

\* depay is built already: Build does nothing, Add fails for an element that is
\* in the pipeline, and the callback returns.
PadRepeated(e) ==
  /\ e # None /\ Arrives /\ depay # None
  /\ factory' = FactoryFor(e)
  /\ UNCHANGED <<available, depay, linked, tee, panicked>>

\* depay is built and added; the callback panics without caps to ask for, and
\* otherwise links rtspsrc to depay and depay to the tee, as far as it gets.
PadTaken(e) ==
  /\ e # None /\ Arrives
  /\ depay = None /\ FactoryFor(e) \in available
  /\ factory' = FactoryFor(e) /\ depay' = FactoryFor(e)
  /\ panicked' = (e \notin Supported)
  /\ IF panicked' THEN UNCHANGED <<linked, tee>>
     ELSE linked' \in {None, e} /\ tee' \in {None, linked'}
  /\ UNCHANGED available

\* rtspsrc loses the camera, removes the pad and connects again.
PadRemoved ==
  /\ ~panicked /\ linked # None
  /\ linked' = None
  /\ UNCHANGED <<available, pads, factory, depay, tee, panicked>>

Next ==
  \/ PadWithoutEncoding \/ PadRemoved
  \/ \E e \in PadEncodings : PadNotBuilt(e) \/ PadRepeated(e) \/ PadTaken(e)

Spec == Init /\ [][Next]_vars

-----------------------------------------------------------------------------
\* The panic on missing caps is out of reach, in whatever order pads arrive: an
\* unsupported pad finds depay either impossible to build or already added.
NeverPanics == ~panicked
=============================================================================
