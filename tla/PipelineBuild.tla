---------------------------- MODULE PipelineBuild ----------------------------
(***************************************************************************)
(* The construction of the pipelines: Pipeline.Build (pipeline/pipeline.go)*)
(* with Prepare and Build of its partial pipelines, and Element.Build, in  *)
(* the order NewCCTVPipeline calls them, and the Connects that follow.  A  *)
(* caller may build a pipeline again: Start always does.  The elements of  *)
(* a thumbnail pipeline are made anew by every Prepare, those of the other *)
(* once, by the constructors.                                              *)
(***************************************************************************)
EXTENDS GValue, Sequences, FiniteSets

CONSTANT MaxBuilds  \* bound: calls of Build of one pipeline

ASSUME BuildsAssumption == MaxBuilds \in Nat

Pipelines == {"thumbnail", "base"}
None == "none"

\* The elements, in the order they are built and added, with their factories and
\* the values set on their properties, whose types are those of gst.
Factories ==
  [appsrc |-> "appsrc", webpenc |-> "webpenc", capsfilter |-> "capsfilter",
   customSink |-> "appsink", converter |-> "videoconvert", videoscale |-> "videoscale",
   src |-> "rtspsrc", tee |-> "tee", stream_queue |-> "queue",
   destination |-> "rtspclientsink", muxer |-> "mpegtsmux",
   input_queue |-> "queue", sink |-> "splitmuxsink", custom |-> "filesrc"]
Properties ==
  [appsrc |-> {<<"boolean", Go("bool", 1)>>},
   webpenc |-> {<<"float", Go("float32", 0)>>},
   src |-> {<<"string", Go("string", 1)>>},
   stream_queue |-> {<<"GstQueueLeaky", Go("int", 2)>>},
   destination |-> {<<"string", Go("string", 1)>>, <<"GstRTSPLowerTrans", Go("uint", 4)>>},
   input_queue |-> {<<"uint", Go("uint", 1)>>},
   sink |-> {<<"uint64", Go("uint64", 1)>>, <<"boolean", Go("bool", 1)>>,
             <<"string", Go("string", 1)>>}]

ThumbnailElements == <<"appsrc", "webpenc", "capsfilter", "customSink", "converter", "videoscale">>
SourceElements == <<"src", "tee">>
StreamElements == <<"stream_queue", "destination", "muxer">>
SegmentationElements == <<"input_queue", "sink">>

\* Types a property may have, "missing" for none of that name, and Go values a caller
\* may give; the numbers are those around the widths of the C types.
PropertyTypes ==
  {"missing", "GstQueueLeaky", "GstRTSPLowerTrans", "GstCaps", "GstPad", "boolean", "char",
   "long", "int64", "uint64", "float", "double", "string", "object", "pointer"}
GoValues ==
  {Go("int", n) : n \in {-(2^(CBits - 1)) - 1, -(2^(CBits - 1)), 0, 2, 2^(CBits - 1) - 1,
                         2^(CBits - 1), 2^CBits}}
  \cup {Go("uint", n) : n \in {0, 4, 2^CBits - 1, 2^CBits}}
  \cup {Go(t, 1) : t \in {"nil", "bool", "int8", "int64", "uint64", "float32", "float64",
                          "string", "object", "caps", "ptr", "my_int", "my_string", "int32"}}

\* The bounds an element written in Go may declare for one of its numbers.
Bounds == {<<0, 4>>, <<-(2^(CBits - 1)), 2^(CBits - 1) - 1>>, <<0, 2^CBits - 1>>, <<-1, 2^CBits>>}
Specs ==
  {NewParam(t, b[1], b[2]) : t \in {"int", "uint"}, b \in Bounds}
    \cup {NewParam(t, 0, 0) : t \in PropertyTypes}

VARIABLES
  missing,   \* the factories whose plugin is not installed
  ask,       \* the property a caller sets on an element of its own: <<ParamSpec, value>>
  held,      \* the GValue of that property, once the element is built
  at,        \* the call of Build in progress: <<pipeline, number of its next step>>
  builds,    \* calls of Build of a pipeline that was not built
  built,     \* p.built
  elements,  \* p.elements: pairs of a name and the Prepare it was made by, 0 for none
  watches,   \* p.watches
  el,        \* the elements whose el is set
  parent,    \* <<element, bin>>: bins are the gst pipelines and bins of each Build
  linked     \* the partial pipelines that are linked to the tee of the source

vars == <<missing, ask, held, at, builds, built, elements, watches, el, parent, linked>>
inputs == <<missing, ask>>

\* What Build does, in order.
Steps ==
  [thumbnail |-> <<"prepare", "instantiate", "elements", "add", "thumbnail">>,
   base |-> <<"prepare", "instantiate", "elements", "add", "stream", "source",
              "segmentation">>]

Idle == <<None, 0>>
Custom == <<"custom", 0>>
MadeElements == (DOMAIN Factories) \X (0 .. MaxBuilds)
Bin(name, p) == <<name, p, builds[p]>>

TypeOK ==
  /\ missing \subseteq {Factories[e] : e \in DOMAIN Factories}
  /\ held.type \in {"unset", ask[1].type}
  /\ \/ at = Idle
     \/ at[1] \in Pipelines /\ at[2] \in DOMAIN Steps[at[1]] /\ ~built[at[1]]
  /\ builds \in [Pipelines -> 0 .. MaxBuilds]
  /\ built \in [Pipelines -> BOOLEAN]
  /\ \A p \in Pipelines : elements[p] \in Seq(MadeElements)
  /\ watches \in [Pipelines -> 0 .. MaxBuilds]
  /\ el \subseteq MadeElements
  /\ {x[1] : x \in parent} \subseteq el
  /\ linked \subseteq {"stream", "segmentation"}

\* The constructors, and a caller that adds an element of its own.  A missing plugin
\* and a property of another type are not looked at together.
Init ==
  /\ \/ missing = {} /\ ask \in Specs \X GoValues
     \/ /\ \E e \in DOMAIN Factories : missing = {Factories[e]}
        /\ ask = <<NewParam("string", 0, 0), Go("string", 1)>>
  /\ held = Unset /\ at = Idle
  /\ builds = [p \in Pipelines |-> 0] /\ built = [p \in Pipelines |-> FALSE]
  /\ elements = [thumbnail |-> <<>>, base |-> <<Custom>>]
  /\ watches = [p \in Pipelines |-> 0]
  /\ el = {} /\ parent = {} /\ linked = {}

(***************************************************************************)
(* Element.Build, and Add of gst.                                          *)
(***************************************************************************)

PropertiesOf(e) ==
  IF e = Custom THEN {ask}
  ELSE IF e[1] \in DOMAIN Properties
       THEN {<<NewParam(q[1], 0, q[2].n), q[2]>> : q \in Properties[e[1]]}
       ELSE {}

\* Element.Build of an element that is not built: el is set if the factory is
\* there and takes every property.
CanBuild(e) ==
  \/ e \in el
  \/ /\ Factories[e[1]] \notin missing
     /\ \A q \in PropertiesOf(e) : BuildProperty(q[1], Unset, q[2]) # Error

\* A bin takes an element that has no parent, under a name it does not know yet:
\* the i-th of a sequence that is added in order.
CanAdd(seq, i, bin) ==
  /\ \A x \in parent : x[1] = seq[i] \/ x[2] = bin => x[1][1] # seq[i][1]
  /\ \A j \in 1 .. i - 1 : seq[j][1] # seq[i][1]

\* How many of a sequence pass a test, up to the first that does not.
Passed(seq, Test(_)) ==
  CHOOSE n \in 0 .. Len(seq) :
    /\ \A i \in 1 .. n : Test(i)
    /\ n < Len(seq) => ~Test(n + 1)

First(seq, n) == {seq[i] : i \in 1 .. n}
Named(names, k) == [i \in 1 .. Len(names) |-> <<names[i], k>>]

Sets(new) ==
  /\ el' = el \cup new
  /\ held' = IF Custom \in new \ el THEN BuildProperty(ask[1], Unset, ask[2]) ELSE held

\* The loops of the partial pipelines, which build and add one element at a time.
Put(names, bin, ok) ==
  LET seq == Named(names, 0)
      n == Passed(seq, LAMBDA i : CanBuild(seq[i]) /\ CanAdd(seq, i, bin))
      next == IF n < Len(seq) /\ CanBuild(seq[n + 1]) THEN n + 1 ELSE n IN
    /\ Sets(First(seq, next))
    /\ parent' = parent \cup {<<e, bin>> : e \in First(seq, n)}
    /\ ok = (n = Len(seq))

(***************************************************************************)
(* Pipeline.Build.                                                         *)
(***************************************************************************)

AtStep(step) == at # Idle /\ Steps[at[1]][at[2]] = step

\* A step returns: the next one follows, or Build returns.
Return(ok) ==
  LET p == at[1]
      last == at[2] = Len(Steps[p]) IN
    /\ at' = IF ok /\ ~last THEN <<p, at[2] + 1>> ELSE Idle
    /\ built' = [built EXCEPT ![p] = ok /\ last]

\* Mutant of Build: it does not ask whether the pipeline is built.
BuildAlways(p) ==
  /\ at = Idle /\ builds[p] < MaxBuilds
  /\ at' = <<p, 1>>
  /\ builds' = [builds EXCEPT ![p] = @ + 1]
  /\ UNCHANGED <<inputs, held, built, elements, watches, el, parent, linked>>

\* Build of a pipeline that is built returns at once, and changes nothing.
Build(p) ==
  /\ at = Idle /\ builds[p] < MaxBuilds
  /\ ~built[p]
  /\ at' = <<p, 1>>
  /\ builds' = [builds EXCEPT ![p] = @ + 1]
  /\ UNCHANGED <<inputs, held, built, elements, watches, el, parent, linked>>

\* Mutant of Prepare: the elements of an earlier Prepare are replaced.
PrepareAgain(p) ==
  /\ AtStep("prepare") /\ at[1] = p
  /\ LET names == IF p = "thumbnail" THEN ThumbnailElements ELSE SourceElements
         made == Named(names, IF p = "thumbnail" THEN builds[p] ELSE 0)
         n == IF p = "thumbnail" THEN Passed(made, LAMBDA i : CanBuild(made[i])) ELSE 0 IN
       /\ elements' = [elements EXCEPT ![p] = IF p = "base" THEN <<Custom>> \o made ELSE made]
       /\ Sets(First(made, n))
       /\ Return(p = "thumbnail" => n = Len(made))
  /\ watches' = [watches EXCEPT ![p] = @ + (IF p = "base" THEN 1 ELSE 0)]
  /\ UNCHANGED <<inputs, builds, parent, linked>>

\* Prepare of the partial pipelines.  NewElements makes and builds the elements of
\* the thumbnail pipeline; they are added to p.elements also if it fails.
Prepare(p) ==
  /\ AtStep("prepare") /\ at[1] = p
  /\ LET names == IF p = "thumbnail" THEN ThumbnailElements ELSE SourceElements
         made == Named(names, IF p = "thumbnail" THEN builds[p] ELSE 0)
         n == IF p = "thumbnail" THEN Passed(made, LAMBDA i : CanBuild(made[i])) ELSE 0 IN
       /\ elements' = [elements EXCEPT ![p] = @ \o made]
       /\ Sets(First(made, n))
       /\ Return(p = "thumbnail" => n = Len(made))
  /\ watches' = [watches EXCEPT ![p] = @ + (IF p = "base" THEN 1 ELSE 0)]
  /\ UNCHANGED <<inputs, builds, parent, linked>>

\* gst.NewPipeline; the gst pipeline of an earlier Build is left to the collector.
Instantiate ==
  /\ AtStep("instantiate")
  /\ \E ok \in BOOLEAN : Return(ok)
  /\ UNCHANGED <<inputs, held, builds, elements, watches, el, parent, linked>>

BuildElements ==
  /\ AtStep("elements")
  /\ LET seq == elements[at[1]]
         n == Passed(seq, LAMBDA i : CanBuild(seq[i])) IN
       Sets(First(seq, n)) /\ Return(n = Len(seq))
  /\ UNCHANGED <<inputs, builds, elements, watches, parent, linked>>

AddElements ==
  /\ AtStep("add")
  /\ LET seq == elements[at[1]]
         bin == Bin("pipeline", at[1])
         n == Passed(seq, LAMBDA i : CanAdd(seq, i, bin)) IN
       parent' = parent \cup {<<e, bin>> : e \in First(seq, n)} /\ Return(n = Len(seq))
  /\ UNCHANGED <<inputs, held, builds, elements, watches, el, linked>>

\* StreamPipeline.Build: muxer and destination may not link.
BuildStream ==
  /\ AtStep("stream")
  /\ \E placed, links \in BOOLEAN :
       Put(StreamElements, Bin("stream-bin", "base"), placed) /\ Return(placed /\ links)
  /\ UNCHANGED <<inputs, builds, elements, watches, linked>>

\* SourcePipeline.Build connects its handler to src, and ThumbnailPipeline.Build
\* keeps the pipeline.
BuildHandler ==
  /\ AtStep("source") \/ AtStep("thumbnail")
  /\ Return(TRUE)
  /\ UNCHANGED <<inputs, held, builds, elements, watches, el, parent, linked>>

\* SegmentationPipeline.Build: the error of the second Connect is not looked at.
BuildSegmentation ==
  /\ AtStep("segmentation")
  /\ \E placed \in BOOLEAN :
       Put(SegmentationElements, Bin("segmentation-bin", "base"), placed) /\ Return(placed)
  /\ UNCHANGED <<inputs, builds, elements, watches, linked>>

\* StreamPipeline.Connect, then SegmentationPipeline.Connect, whose source is a tee:
\* each links the tee to the queue of its bin.  A Connect that fails is the end.
ConnectSource(branch) ==
  /\ at = Idle /\ \A p \in Pipelines : built[p]
  /\ branch = IF linked = {} THEN "stream" ELSE "segmentation"
  /\ branch \notin linked
  /\ {<<"tee", 0>>, IF branch = "stream" THEN <<"stream_queue", 0>> ELSE <<"input_queue", 0>>}
       \subseteq {x[1] : x \in parent}
  /\ linked' = linked \cup {branch}
  /\ UNCHANGED <<inputs, held, at, builds, built, elements, watches, el, parent>>

\* The collector finalises the gst pipeline or the bin of an earlier Build, and its
\* elements lose their parent.
Collect(bin) ==
  /\ bin[3] < builds[bin[2]]
  /\ parent' = {x \in parent : x[2] # bin}
  /\ UNCHANGED <<inputs, held, at, builds, built, elements, watches, el, linked>>

Next ==
  \/ \E p \in Pipelines : Build(p) \/ Prepare(p)
  \/ Instantiate \/ BuildElements \/ AddElements
  \/ BuildStream \/ BuildHandler \/ BuildSegmentation
  \/ \E branch \in {"stream", "segmentation"} : ConnectSource(branch)
  \/ \E bin \in {x[2] : x \in parent} : Collect(bin)

BuildSpec == Init /\ [][Next]_vars

(***************************************************************************)
(* Properties                                                              *)
(***************************************************************************)

\* "Once built it will never be built again" (pipeline.go:39), and a pipeline is only
\* ever built by its first Build: p.elements keeps what a failed one has put there,
\* which no bin takes a second time.  So a built pipeline has each of its elements
\* once, built and in a bin of that Build, and one watch for the segments.
BuiltByTheFirst ==
  \A p \in Pipelines : built[p] =>
    /\ builds[p] = 1
    /\ \A i, j \in DOMAIN elements[p] : elements[p][i] = elements[p][j] => i = j
    /\ \A i \in DOMAIN elements[p] : <<elements[p][i], <<"pipeline", p, 1>>>> \in parent
    /\ {x[1] : x \in parent} \subseteq el
    /\ watches[p] = (IF p = "base" THEN 1 ELSE 0)

\* Values GoValue gives back as they were set: of a type with a case of its own in
\* gValue, and within what the C type and the property hold.
Lossless(spec, v) ==
  /\ v.go \in {"bool", "int8", "int64", "int", "uint8", "uint64", "uint", "float32",
               "float64", "string", "object", "caps"}
  /\ v.go = "int" => v.n \in -(2^(CBits - 1)) .. 2^(CBits - 1) - 1
  /\ v.go = "uint" => v.n \in 0 .. 2^CBits - 1
  /\ InRange(spec, v.n)

\* A property Element.Build accepted is what a caller reads again with GetProperty,
\* whatever its type: Build takes enums and flags, whose type no Go type maps to, out
\* of the way of SetProperty, and the marshalers find them by their fundamental type.
PropertyAsAsked ==
  Custom \in el /\ Lossless(ask[1], ask[2]) => GetProperty(ask[1], held) = ask[2]
=============================================================================
