------------------------ MODULE PipelineBuild_proofs ------------------------
(***************************************************************************)
(* A pipeline is built by its first Build or never, for any number of      *)
(* attempts, whatever plugin is missing and whatever property is asked for.*)
(***************************************************************************)
EXTENDS PipelineBuild, FiniteSetTheorems, SequenceTheorems, TLAPS

\* The calls of Prepare that have been made of a pipeline.
Prepared(p) == IF at = <<p, 1>> THEN builds[p] - 1 ELSE builds[p]

\* The name of the element every Prepare makes first.
FirstName(p) == IF p = "thumbnail" THEN "appsrc" ELSE "src"
Knows(seq, name) == \E i \in DOMAIN seq : seq[i][1] = name
Repeats(seq) == \E i, j \in DOMAIN seq : i < j /\ seq[i][1] = seq[j][1]

\* A second Prepare repeats the names of the first in p.elements, and they stay.
PrepareInv ==
  \A p \in Pipelines :
    /\ watches[p] = (IF p = "base" THEN Prepared(p) ELSE 0)
    /\ at[1] = p => builds[p] > 0
    /\ Prepared(p) >= 1 => Knows(elements[p], FirstName(p))
    /\ Prepared(p) >= 2 => Repeats(elements[p])

\* The elements of a pipeline are different ones, and in the bin of its first Build.
Placed(p) ==
  /\ builds[p] = 1
  /\ \A i, j \in DOMAIN elements[p] : elements[p][i] = elements[p][j] => i = j
  /\ \A i \in DOMAIN elements[p] : <<elements[p][i], <<"pipeline", p, 1>>>> \in parent

\* So they are once they have been added, and before that they have been built.
PlaceInv ==
  \A p \in Pipelines :
    /\ built[p] \/ (at[1] = p /\ at[2] > 4) => Placed(p)
    /\ at[1] = p /\ at[2] = 4 => \A i \in DOMAIN elements[p] : elements[p][i] \in el

\* The inductive invariant.
BuildInv ==
  /\ TypeOK /\ at \in {Idle} \cup (Pipelines \X Nat)
  /\ elements \in [Pipelines -> Seq(MadeElements)]
  /\ PrepareInv /\ PlaceInv

\* A set of numbers has a least one.
LEMMA LeastNatural ==
  ASSUME NEW T \in SUBSET Nat, T # {}
  PROVE  \E m \in T : \A k \in T : m <= k
<1>1. PICK m \in T : \A k \in T : ~(<<k, m>> \in OpToRel(<, Nat))
  BY NatLessThanWellFounded, WFMin
<1>2. \A k \in T : ~(k < m) BY <1>1 DEF OpToRel
<1>3. QED BY <1>2

\* Of N tests in order a number of them pass, up to the first that does not.
LEMMA LongestPrefix ==
  ASSUME NEW N \in Nat, NEW S
  PROVE  \E n \in 0 .. N : (\A i \in 1 .. n : i \in S) /\ (n < N => n + 1 \notin S)
<1> DEFINE T == {k \in Nat : k < N /\ k + 1 \notin S}
<1>1. CASE T = {}
  <2>1. \A i \in 1 .. N : i - 1 \in Nat /\ i - 1 < N /\ (i - 1) + 1 = i OBVIOUS
  <2>2. \A i \in 1 .. N : i \in S BY <1>1, <2>1
  <2>3. QED BY <2>2
<1>2. CASE T # {}
  <2>1. PICK m \in T : \A k \in T : m <= k BY <1>2, LeastNatural
  <2>2. m \in 0 .. N /\ m + 1 \notin S OBVIOUS
  <2>3. ASSUME NEW i \in 1 .. m PROVE i \in S
    <3>1. i - 1 \in Nat /\ i - 1 < N /\ (i - 1) + 1 = i /\ ~(m <= i - 1) BY <2>2
    <3>2. QED BY <3>1, <2>1
  <2>4. QED BY <2>2, <2>3
<1>3. QED BY <1>1, <1>2

\* What Passed finds for the elements that are built: they pass, the next does not.
LEMMA PassedBuild ==
  ASSUME NEW seq, Len(seq) \in Nat
  PROVE  LET n == Passed(seq, LAMBDA i : CanBuild(seq[i])) IN
           /\ n \in 0 .. Len(seq)
           /\ \A i \in 1 .. n : CanBuild(seq[i])
           /\ n < Len(seq) => ~CanBuild(seq[n + 1])
<1> DEFINE S == {i \in 1 .. Len(seq) : CanBuild(seq[i])}
<1>1. PICK n \in 0 .. Len(seq) : (\A i \in 1 .. n : i \in S) /\ (n < Len(seq) => n + 1 \notin S)
  BY LongestPrefix
<1>2. (\A i \in 1 .. n : CanBuild(seq[i])) /\ (n < Len(seq) => ~CanBuild(seq[n + 1]))
  <2>1. n < Len(seq) => n + 1 \in 1 .. Len(seq) OBVIOUS
  <2>2. QED BY <1>1, <2>1
<1>3. QED BY <1>2 DEF Passed

\* The same for the elements that are added to a bin.
LEMMA PassedAdd ==
  ASSUME NEW seq, NEW bin, Len(seq) \in Nat
  PROVE  LET n == Passed(seq, LAMBDA i : CanAdd(seq, i, bin)) IN
           /\ n \in 0 .. Len(seq)
           /\ \A i \in 1 .. n : CanAdd(seq, i, bin)
           /\ n < Len(seq) => ~CanAdd(seq, n + 1, bin)
<1> DEFINE S == {i \in 1 .. Len(seq) : CanAdd(seq, i, bin)}
<1>1. PICK n \in 0 .. Len(seq) : (\A i \in 1 .. n : i \in S) /\ (n < Len(seq) => n + 1 \notin S)
  BY LongestPrefix
<1>2. (\A i \in 1 .. n : CanAdd(seq, i, bin)) /\ (n < Len(seq) => ~CanAdd(seq, n + 1, bin))
  <2>1. n < Len(seq) => n + 1 \in 1 .. Len(seq) OBVIOUS
  <2>2. QED BY <1>1, <2>1
<1>3. QED BY <1>2 DEF Passed

\* The same for the loops of the partial pipelines, which do both.
LEMMA PassedBoth ==
  ASSUME NEW seq, NEW bin, Len(seq) \in Nat
  PROVE  LET n == Passed(seq, LAMBDA i : CanBuild(seq[i]) /\ CanAdd(seq, i, bin)) IN
           /\ n \in 0 .. Len(seq)
           /\ \A i \in 1 .. n : CanBuild(seq[i]) /\ CanAdd(seq, i, bin)
<1> DEFINE S == {i \in 1 .. Len(seq) : CanBuild(seq[i]) /\ CanAdd(seq, i, bin)}
<1>1. PICK n \in 0 .. Len(seq) : (\A i \in 1 .. n : i \in S) /\ (n < Len(seq) => n + 1 \notin S)
  BY LongestPrefix
<1>2. /\ \A i \in 1 .. n : CanBuild(seq[i]) /\ CanAdd(seq, i, bin)
      /\ n < Len(seq) => ~(CanBuild(seq[n + 1]) /\ CanAdd(seq, n + 1, bin))
  <2>1. n < Len(seq) => n + 1 \in 1 .. Len(seq) OBVIOUS
  <2>2. QED BY <1>1, <2>1
<1>3. QED BY <1>2 DEF Passed

\* The steps of the two Builds.
LEMMA Steps7 ==
  /\ Steps["thumbnail"] = <<"prepare", "instantiate", "elements", "add", "thumbnail">>
  /\ Steps["base"] = <<"prepare", "instantiate", "elements", "add", "stream", "source",
                       "segmentation">>
  /\ Len(Steps["thumbnail"]) = 5 /\ Len(Steps["base"]) = 7
  /\ DOMAIN Steps["thumbnail"] = 1 .. 5 /\ DOMAIN Steps["base"] = 1 .. 7
BY DEF Steps

\* Which number a step has, so that at tells how far a Build has come.
LEMMA StepNumbers ==
  ASSUME at[1] \in Pipelines, at[2] \in DOMAIN Steps[at[1]], at # Idle
  PROVE  /\ at[2] \in Nat
         /\ AtStep("prepare") => at[2] = 1
         /\ AtStep("instantiate") => at[2] = 2
         /\ AtStep("elements") => at[2] = 3
         /\ AtStep("add") => at[2] = 4
         /\ AtStep("thumbnail") => at[1] = "thumbnail" /\ at[2] = 5
         /\ AtStep("stream") => at[1] = "base" /\ at[2] = 5
         /\ AtStep("source") => at[1] = "base" /\ at[2] = 6
         /\ AtStep("segmentation") => at[1] = "base" /\ at[2] = 7
<1>1. CASE at[1] = "thumbnail"
  <2>1. at[2] \in 1 .. 5 BY <1>1, Steps7
  <2>2. QED BY <1>1, <2>1, Steps7 DEF AtStep
<1>2. CASE at[1] = "base"
  <2>1. at[2] \in 1 .. 7 BY <1>2, Steps7
  <2>2. QED BY <1>2, <2>1, Steps7 DEF AtStep
<1>3. QED BY <1>1, <1>2 DEF Pipelines

\* SetPropertyValue stores nothing but a value of the type of the property.
LEMMA SetKeepsType ==
  ASSUME NEW spec, NEW gv, SetPropertyValue(spec, Unset, gv) # Error
  PROVE  SetPropertyValue(spec, Unset, gv).type \in {"unset", spec.type}
BY DEF SetPropertyValue, Unset

\* So does Element.Build for the element of a caller.
LEMMA BuiltHasType ==
  ASSUME CanBuild(Custom), Custom \notin el
  PROVE  BuildProperty(ask[1], Unset, ask[2]).type \in {"unset", ask[1].type}
<1>1. BuildProperty(ask[1], Unset, ask[2]) # Error BY DEF CanBuild, PropertiesOf
<1>2. QED BY <1>1, SetKeepsType DEF BuildProperty, SetProperty

\* Building elements that can be built keeps the types of el and held.
LEMMA SetsTypes ==
  ASSUME NEW new \in SUBSET MadeElements, Sets(new), held.type \in {"unset", ask[1].type},
         ask' = ask, el \subseteq MadeElements, \A e \in new : CanBuild(e)
  PROVE  /\ el' = el \cup new /\ el' \subseteq MadeElements
         /\ held'.type \in {"unset", ask'[1].type}
BY BuiltHasType DEF Sets

\* The elements the constructors and Prepare name, and which of them is the first.
LEMMA NamedElements ==
  ASSUME NEW k \in 0 .. MaxBuilds
  PROVE  /\ \A names \in {ThumbnailElements, SourceElements, StreamElements,
                          SegmentationElements} :
              Named(names, k) \in Seq(MadeElements)
         /\ Named(ThumbnailElements, k)[1][1] = "appsrc"
         /\ Named(SourceElements, k)[1][1] = "src"
         /\ Len(Named(ThumbnailElements, k)) = 6
         /\ Len(Named(SourceElements, k)) = 2
<1>1. ASSUME NEW names \in {ThumbnailElements, SourceElements, StreamElements,
                            SegmentationElements}
      PROVE  names \in Seq(DOMAIN Factories)
  <2>1. {"appsrc", "webpenc", "capsfilter", "customSink", "converter", "videoscale", "src",
         "tee", "stream_queue", "destination", "muxer", "input_queue", "sink"}
          \subseteq DOMAIN Factories
    BY DEF Factories
  <2>2. ThumbnailElements \in Seq(DOMAIN Factories) BY <2>1 DEF ThumbnailElements
  <2>3. SourceElements \in Seq(DOMAIN Factories) BY <2>1 DEF SourceElements
  <2>4. StreamElements \in Seq(DOMAIN Factories) BY <2>1 DEF StreamElements
  <2>5. SegmentationElements \in Seq(DOMAIN Factories) BY <2>1 DEF SegmentationElements
  <2>6. QED BY <2>2, <2>3, <2>4, <2>5
<1>2. ASSUME NEW names \in Seq(DOMAIN Factories)
      PROVE  /\ Named(names, k) \in Seq(MadeElements)
             /\ Len(Named(names, k)) = Len(names)
             /\ \A i \in 1 .. Len(names) : Named(names, k)[i][1] = names[i]
  <2>1. Len(names) \in Nat /\ \A i \in 1 .. Len(names) : names[i] \in DOMAIN Factories
    BY <1>2
  <2>2. \A i \in 1 .. Len(names) : <<names[i], k>> \in MadeElements BY <2>1 DEF MadeElements
  <2>3. QED BY <2>1, <2>2 DEF Named
<1>3. Len(ThumbnailElements) = 6 /\ Len(SourceElements) = 2
      /\ ThumbnailElements[1] = "appsrc" /\ SourceElements[1] = "src"
  BY DEF ThumbnailElements, SourceElements
<1>4. /\ ThumbnailElements \in Seq(DOMAIN Factories) /\ SourceElements \in Seq(DOMAIN Factories)
      /\ \A names \in {ThumbnailElements, SourceElements, StreamElements, SegmentationElements} :
           Named(names, k) \in Seq(MadeElements)
  BY <1>1, <1>2
<1>5. Len(Named(ThumbnailElements, k)) = 6 /\ Named(ThumbnailElements, k)[1][1] = "appsrc"
  <2>1. 1 \in 1 .. Len(ThumbnailElements) BY <1>3
  <2>2. QED BY <1>2, <1>3, <1>4, <2>1
<1>6. Len(Named(SourceElements, k)) = 2 /\ Named(SourceElements, k)[1][1] = "src"
  <2>1. 1 \in 1 .. Len(SourceElements) BY <1>3
  <2>2. QED BY <1>2, <1>3, <1>4, <2>1
<1>7. QED BY <1>4, <1>5, <1>6, Zenon

\* The first elements of a sequence are elements.
LEMMA FirstElements ==
  ASSUME NEW seq \in Seq(MadeElements), NEW n \in 0 .. Len(seq)
  PROVE  First(seq, n) \subseteq MadeElements
BY DEF First

\* After a step Build is at the next one, or it has returned; it has succeeded only if
\* the step was the last.
LEMMA ReturnKeeps ==
  ASSUME TypeOK, at # Idle, NEW ok \in BOOLEAN, Return(ok)
  PROVE  /\ \/ at' = Idle
            \/ at' = <<at[1], at[2] + 1>> /\ at[2] + 1 \in DOMAIN Steps[at[1]] /\ ok
               /\ ~built'[at[1]]
         /\ built' \in [Pipelines -> BOOLEAN]
         /\ \A q \in Pipelines \ {at[1]} : built'[q] = built[q]
         /\ built'[at[1]] => ok /\ at[2] > 4
<1>1. at[1] \in Pipelines /\ at[2] \in DOMAIN Steps[at[1]] /\ ~built[at[1]]
      /\ built \in [Pipelines -> BOOLEAN]
  BY DEF TypeOK
<1>2. built' = [built EXCEPT ![at[1]] = ok /\ at[2] = Len(Steps[at[1]])]
      /\ at' = IF ok /\ at[2] # Len(Steps[at[1]]) THEN <<at[1], at[2] + 1>> ELSE Idle
  BY DEF Return
<1>3. Len(Steps[at[1]]) > 4 /\ (at[2] # Len(Steps[at[1]]) => at[2] + 1 \in DOMAIN Steps[at[1]])
  <2>1. CASE at[1] = "thumbnail" BY <2>1, <1>1, Steps7
  <2>2. CASE at[1] = "base" BY <2>2, <1>1, Steps7
  <2>3. QED BY <2>1, <2>2, <1>1 DEF Pipelines
<1>4. built' \in [Pipelines -> BOOLEAN] BY <1>1, <1>2, Zenon
<1>5. \A q \in Pipelines \ {at[1]} : built'[q] = built[q] BY <1>1, <1>2, Zenon
<1>6. built'[at[1]] = (ok /\ at[2] = Len(Steps[at[1]])) BY <1>1, <1>2, Zenon
<1>7. built'[at[1]] => ok /\ at[2] > 4 BY <1>6, <1>3
<1>8. at' = Idle \/ (at' = <<at[1], at[2] + 1>> /\ ok /\ at[2] # Len(Steps[at[1]]))
  BY <1>2, Zenon
<1>9. QED BY <1>3, <1>4, <1>5, <1>6, <1>7, <1>8, Zenon

\* The steps behind Prepare keep the invariant if el and parent only grow, BuildElements
\* builds what is in p.elements and AddElements puts it in its place.
LEMMA AfterPrepare ==
  ASSUME NEW q \in Pipelines, BuildInv, at[1] = q, at[2] > 1, NEW ok \in BOOLEAN, Return(ok),
         UNCHANGED <<inputs, builds, elements, watches, linked>>,
         held'.type \in {"unset", ask'[1].type},
         el \subseteq el', el' \subseteq MadeElements,
         parent \subseteq parent', {x[1] : x \in parent'} \subseteq el',
         ok /\ at[2] = 3 => \A i \in DOMAIN elements[q] : elements[q][i] \in el',
         ok /\ at[2] = 4 => Placed(q)'
  PROVE  BuildInv'
<1>0. at # Idle BY DEF Idle, None, Pipelines
<1>1. TypeOK /\ at \in Pipelines \X Nat /\ elements \in [Pipelines -> Seq(MadeElements)]
      /\ PrepareInv /\ PlaceInv
  BY <1>0 DEF BuildInv
<1>2. /\ \/ at' = Idle
         \/ at' = <<at[1], at[2] + 1>> /\ at[2] + 1 \in DOMAIN Steps[at[1]] /\ ok
            /\ ~built'[at[1]]
      /\ built' \in [Pipelines -> BOOLEAN]
      /\ \A p \in Pipelines \ {at[1]} : built'[p] = built[p]
      /\ built'[at[1]] => ok /\ at[2] > 4
  BY <1>0, <1>1, ReturnKeeps
<1>3. at' \in {Idle} \cup (Pipelines \X Nat) BY <1>1, <1>2
<1>4. TypeOK'
  <2>1. at' = Idle \/ (at'[1] \in Pipelines /\ at'[2] \in DOMAIN Steps[at'[1]] /\ ~built'[at'[1]])
    BY <1>1, <1>2
  <2>2. QED BY <2>1, <1>1, <1>2, Zenon DEF TypeOK, inputs
<1>5. PrepareInv'
  <2>1. ASSUME NEW p \in Pipelines
        PROVE  Prepared(p) = builds[p] /\ Prepared(p)' = builds[p] /\ (at'[1] = p => at[1] = p)
    <3>1. at # <<p, 1>> BY <1>1
    <3>2. at' # <<p, 1>> BY <1>1, <1>2 DEF Idle
    <3>3. at'[1] = p => at[1] = p BY <1>1, <1>2 DEF Idle, None, Pipelines
    <3>4. QED BY <3>1, <3>2, <3>3 DEF Prepared
  <2>2. builds' = builds /\ elements' = elements /\ watches' = watches OBVIOUS
  <2>3. ASSUME NEW p \in Pipelines
        PROVE  /\ watches'[p] = (IF p = "base" THEN Prepared(p)' ELSE 0)
               /\ at'[1] = p => builds'[p] > 0
               /\ Prepared(p)' >= 1 => Knows(elements'[p], FirstName(p))
               /\ Prepared(p)' >= 2 => Repeats(elements'[p])
    BY <2>1, <2>2, <1>1, Zenon DEF PrepareInv
  <2>4. QED BY <2>3, Zenon DEF PrepareInv, Knows, Repeats, FirstName
<1>6. PlaceInv'
  <2>1. ASSUME NEW p \in Pipelines, Placed(p) PROVE Placed(p)' BY <2>1 DEF Placed
  <2>2. ASSUME NEW p \in Pipelines, p # q
        PROVE  at'[1] # p /\ (built'[p] => Placed(p)')
    <3>1. at'[1] # p BY <1>1, <1>2, <2>2 DEF Idle, None, Pipelines
    <3>2. built'[p] => built[p] BY <1>2, <2>2
    <3>3. QED BY <3>1, <3>2, <2>1, <1>1 DEF PlaceInv
  <2>3. built'[q] => Placed(q)' BY <1>1, <1>2, <2>1 DEF PlaceInv
  <2>4. ASSUME at'[1] = q PROVE ok /\ at'[2] = at[2] + 1 /\ at[2] \in Nat
    BY <1>1, <1>2, <2>4 DEF Idle, None, Pipelines
  <2>5. at'[1] = q /\ at'[2] > 4 => Placed(q)'
    <3>1. SUFFICES ASSUME at'[1] = q, at'[2] > 4 PROVE Placed(q)' OBVIOUS
    <3>2. at[2] = 4 \/ at[2] > 4 BY <2>4, <3>1
    <3>3. CASE at[2] = 4 BY <3>3, <2>4, <3>1
    <3>4. CASE at[2] > 4 BY <3>4, <2>1, <1>1 DEF PlaceInv
    <3>5. QED BY <3>2, <3>3, <3>4
  <2>6. at'[1] = q /\ at'[2] = 4 => \A i \in DOMAIN elements[q] : elements[q][i] \in el'
    BY <2>4
  <2>7. ASSUME NEW p \in Pipelines
        PROVE  /\ built'[p] \/ (at'[1] = p /\ at'[2] > 4) => Placed(p)'
               /\ at'[1] = p /\ at'[2] = 4 => \A i \in DOMAIN elements'[p] : elements'[p][i] \in el'
    <3>1. CASE p = q BY <3>1, <2>3, <2>5, <2>6, Zenon
    <3>2. CASE p # q BY <3>2, <2>2, Zenon
    <3>3. QED BY <3>1, <3>2
  <2>8. QED BY <2>7, Zenon DEF PlaceInv
<1>7. QED BY <1>1, <1>3, <1>4, <1>5, <1>6 DEF BuildInv

\* The invariant holds of what the constructors make.
LEMMA InitKeeps == Init => BuildInv
<1> SUFFICES ASSUME Init PROVE BuildInv OBVIOUS
<1>1. Custom \in MadeElements BY BuildsAssumption DEF Custom, MadeElements, Factories
<1>2. elements["thumbnail"] = <<>> /\ elements["base"] = <<Custom>>
      /\ DOMAIN elements = Pipelines /\ elements = [p \in Pipelines |-> elements[p]]
  BY DEF Init, Pipelines
<1>3. elements \in [Pipelines -> Seq(MadeElements)]
  <2>1. elements["thumbnail"] \in Seq(MadeElements) BY <1>2
  <2>2. elements["base"] \in Seq(MadeElements) BY <1>1, <1>2
  <2>3. QED BY <1>2, <2>1, <2>2 DEF Pipelines
<1>4. missing \subseteq {Factories[e] : e \in DOMAIN Factories} BY DEF Init
<1>5. TypeOK BY <1>3, <1>4, BuildsAssumption DEF Init, TypeOK, Unset
<1>6. \A p \in Pipelines : Prepared(p) = 0 BY DEF Init, Prepared, Idle, None, Pipelines
<1>7. \A p \in Pipelines : at[1] # p /\ ~built[p] BY DEF Init, Idle, None, Pipelines
<1>8. PrepareInv BY <1>6, <1>7 DEF Init, PrepareInv
<1>9. PlaceInv BY <1>7 DEF PlaceInv
<1>10. QED BY <1>3, <1>5, <1>8, <1>9 DEF BuildInv, Init

\* A call of Build: the next Prepare is still to come.
LEMMA BuildKeeps ==
  ASSUME BuildInv, NEW q \in Pipelines, Build(q) PROVE BuildInv'
<1>1. TypeOK /\ elements \in [Pipelines -> Seq(MadeElements)] /\ PrepareInv /\ PlaceInv
  BY DEF BuildInv
<1>2. /\ at = Idle /\ builds[q] \in Nat /\ builds[q] < MaxBuilds /\ ~built[q] /\ at' = <<q, 1>>
      /\ builds' \in [Pipelines -> 0 .. MaxBuilds] /\ builds'[q] = builds[q] + 1
      /\ \A p \in Pipelines : p # q => builds'[p] = builds[p]
      /\ UNCHANGED <<inputs, held, built, elements, watches, el, parent, linked>>
  BY <1>1, BuildsAssumption DEF Build, TypeOK
<1>3. 1 \in DOMAIN Steps[q] BY Steps7 DEF Pipelines
<1>4. TypeOK' BY <1>1, <1>2, <1>3 DEF TypeOK, inputs
<1>5. \A p \in Pipelines : Prepared(p)' = Prepared(p)
  <2>1. Prepared(q) = builds[q] /\ Prepared(q)' = builds[q] BY <1>2 DEF Prepared, Idle
  <2>2. ASSUME NEW p \in Pipelines, p # q PROVE Prepared(p)' = Prepared(p)
    BY <1>2, <2>2 DEF Prepared, Idle, None, Pipelines
  <2>3. QED BY <2>1, <2>2
<1>6. PrepareInv'
  <2>1. ASSUME NEW p \in Pipelines
        PROVE  /\ watches'[p] = (IF p = "base" THEN Prepared(p)' ELSE 0)
               /\ at'[1] = p => builds'[p] > 0
               /\ Prepared(p)' >= 1 => Knows(elements'[p], FirstName(p))
               /\ Prepared(p)' >= 2 => Repeats(elements'[p])
    <3>1. at'[1] = p => builds'[p] > 0 BY <1>2
    <3>2. QED BY <3>1, <1>1, <1>2, <1>5, Zenon DEF PrepareInv
  <2>2. QED BY <2>1, Zenon DEF PrepareInv, Knows, Repeats, FirstName
<1>7. PlaceInv'
  <2>1. ASSUME NEW p \in Pipelines, built'[p] PROVE Placed(p)'
    BY <1>1, <1>2, <2>1 DEF PlaceInv, Placed
  <2>2. ~(at'[2] > 4) /\ at'[2] # 4 BY <1>2
  <2>3. QED BY <2>1, <2>2 DEF PlaceInv
<1>8. at' \in Pipelines \X Nat BY <1>2
<1>9. QED BY <1>1, <1>2, <1>4, <1>6, <1>7, <1>8 DEF BuildInv

\* What Prepare does to p.elements.
LEMMA PrepareMakes ==
  ASSUME BuildInv, NEW q \in Pipelines, Prepare(q)
  PROVE  \E made \in Seq(MadeElements), n \in Nat, ok \in BOOLEAN :
           /\ Len(made) > 0 /\ made[1][1] = FirstName(q)
           /\ n \in 0 .. Len(made) /\ \A i \in 1 .. n : CanBuild(made[i])
           /\ elements' = [elements EXCEPT ![q] = elements[q] \o made]
           /\ Sets(First(made, n)) /\ Return(ok)
<1>1. builds[q] \in 0 .. MaxBuilds /\ 0 \in 0 .. MaxBuilds
  BY BuildsAssumption DEF BuildInv, TypeOK
<1>2. CASE q = "thumbnail"
  <2> DEFINE made == Named(ThumbnailElements, builds[q])
             n == Passed(made, LAMBDA i : CanBuild(made[i]))
  <2>1. made \in Seq(MadeElements) /\ Len(made) = 6 /\ made[1][1] = "appsrc"
    BY <1>1, NamedElements, Zenon
  <2>2. n \in 0 .. Len(made) /\ (\A i \in 1 .. n : CanBuild(made[i]))
    <3>1. Len(made) \in Nat BY <2>1
    <3> HIDE DEF made
    <3>2. QED BY <3>1, PassedBuild
  <2>3. elements' = [elements EXCEPT ![q] = elements[q] \o made] /\ Sets(First(made, n))
        /\ Return(q = "thumbnail" => n = Len(made))
    BY <1>2 DEF Prepare
  <2> HIDE DEF made, n
  <2>4. n \in Nat /\ Len(made) > 0 /\ FirstName(q) = "appsrc" BY <1>2, <2>1, <2>2 DEF FirstName
  <2>5. (q = "thumbnail" => n = Len(made)) \in BOOLEAN OBVIOUS
  <2>6. QED BY <2>1, <2>2, <2>3, <2>4, <2>5, Zenon
<1>3. CASE q = "base"
  <2> DEFINE made == Named(SourceElements, 0)
  <2>1. made \in Seq(MadeElements) /\ Len(made) = 2 /\ made[1][1] = "src"
    BY <1>1, NamedElements, Zenon
  <2>3. elements' = [elements EXCEPT ![q] = elements[q] \o made] /\ Sets(First(made, 0))
        /\ Return(q = "thumbnail" => 0 = Len(made))
    BY <1>3 DEF Prepare
  <2> HIDE DEF made
  <2>4. /\ 0 \in Nat /\ Len(made) > 0 /\ FirstName(q) = "src" /\ 0 \in 0 .. Len(made)
        /\ \A i \in 1 .. 0 : CanBuild(made[i])
    BY <1>3, <2>1 DEF FirstName
  <2>5. (q = "thumbnail" => 0 = Len(made)) \in BOOLEAN OBVIOUS
  <2>6. QED BY <2>1, <2>3, <2>4, <2>5, Zenon
<1>4. QED BY <1>2, <1>3 DEF Pipelines

\* Prepare: a second one repeats the name of the first element.
LEMMA PrepareKeeps ==
  ASSUME BuildInv, NEW q \in Pipelines, Prepare(q) PROVE BuildInv'
<1>1. /\ TypeOK /\ elements \in [Pipelines -> Seq(MadeElements)] /\ PrepareInv /\ PlaceInv
      /\ at \in {Idle} \cup (Pipelines \X Nat)
  BY DEF BuildInv
<1>2. at # Idle /\ at[1] = q /\ at[2] = 1 /\ at = <<q, 1>>
  <2>1. AtStep("prepare") /\ at[1] = q BY DEF Prepare
  <2>2. at # Idle BY <2>1 DEF AtStep
  <2>3. at[2] = 1 BY <1>1, <2>1, <2>2, StepNumbers DEF TypeOK
  <2>4. QED BY <1>1, <2>1, <2>2, <2>3
<1>3. /\ watches' = [watches EXCEPT ![q] = @ + (IF q = "base" THEN 1 ELSE 0)]
      /\ UNCHANGED <<inputs, builds, parent, linked>>
  BY DEF Prepare
<1>4. PICK made \in Seq(MadeElements), n \in Nat, ok \in BOOLEAN :
        /\ Len(made) > 0 /\ made[1][1] = FirstName(q)
        /\ n \in 0 .. Len(made) /\ \A i \in 1 .. n : CanBuild(made[i])
        /\ elements' = [elements EXCEPT ![q] = elements[q] \o made]
        /\ Sets(First(made, n)) /\ Return(ok)
  BY PrepareMakes
<1>5. /\ el' = el \cup First(made, n) /\ el' \subseteq MadeElements
      /\ held'.type \in {"unset", ask'[1].type}
  <2>1. First(made, n) \subseteq MadeElements /\ (\A e \in First(made, n) : CanBuild(e))
    BY <1>4, FirstElements DEF First
  <2>2. ask' = ask BY <1>3 DEF inputs
  <2>3. QED BY <1>1, <1>4, <2>1, <2>2, SetsTypes DEF TypeOK
<1>6. /\ at' = Idle \/ at' = <<q, 2>>
      /\ 2 \in DOMAIN Steps[q]
      /\ built' \in [Pipelines -> BOOLEAN]
      /\ \A p \in Pipelines : p # q => built'[p] = built[p]
      /\ ~built'[q]
  <2>1. at[2] + 1 = 2 /\ ~(at[2] > 4) BY <1>2
  <2>2. 2 \in DOMAIN Steps[q] BY Steps7 DEF Pipelines
  <2>3. QED BY <1>1, <1>2, <1>4, <2>1, <2>2, ReturnKeeps
<1>7. at' \in {Idle} \cup (Pipelines \X Nat) BY <1>6
<1>8. /\ elements' \in [Pipelines -> Seq(MadeElements)]
      /\ elements'[q] = elements[q] \o made
      /\ \A p \in Pipelines : p # q => elements'[p] = elements[p]
  <2>1. elements[q] \o made \in Seq(MadeElements) BY <1>1, <1>4, ConcatProperties
  <2>2. QED BY <1>1, <1>4, <2>1
<1>9. Prepared(q) = builds[q] - 1 /\ Prepared(q)' = builds[q] /\ builds[q] \in 1 .. MaxBuilds
  <2>1. builds[q] > 0 /\ builds[q] \in 0 .. MaxBuilds BY <1>1, <1>2 DEF PrepareInv, TypeOK
  <2>2. at' # <<q, 1>> BY <1>6 DEF Idle
  <2>3. QED BY <1>2, <1>3, <2>1, <2>2, BuildsAssumption DEF Prepared
<1>10. \A p \in Pipelines : p # q => Prepared(p)' = Prepared(p)
  <2>1. ASSUME NEW p \in Pipelines, p # q PROVE at # <<p, 1>> /\ at' # <<p, 1>>
    BY <1>2, <1>6, <2>1 DEF Idle
  <2>2. QED BY <2>1, <1>3 DEF Prepared
<1>11. /\ Len(elements[q]) \in Nat /\ Len(made) \in Nat /\ Len(made) > 0
       /\ DOMAIN elements[q] = 1 .. Len(elements[q])
       /\ DOMAIN elements'[q] = 1 .. Len(elements[q]) + Len(made)
       /\ \A i \in 1 .. Len(elements[q]) : elements'[q][i] = elements[q][i]
       /\ elements'[q][Len(elements[q]) + 1][1] = FirstName(q)
  <2>1. elements[q] \in Seq(MadeElements) /\ made \in Seq(MadeElements) /\ Len(made) > 0
        /\ elements'[q] = elements[q] \o made /\ made[1][1] = FirstName(q)
    BY <1>1, <1>4, <1>8
  <2>2. QED BY <2>1
<1>12. PrepareInv'
  <2>1. watches'[q] = (IF q = "base" THEN Prepared(q)' ELSE 0)
    <3>1. watches \in [Pipelines -> 0 .. MaxBuilds] BY <1>1 DEF TypeOK
    <3>2. watches[q] = (IF q = "base" THEN builds[q] - 1 ELSE 0) BY <1>1, <1>9 DEF PrepareInv
    <3>3. watches'[q] = watches[q] + (IF q = "base" THEN 1 ELSE 0) BY <1>3, <3>1
    <3>4. QED BY <3>2, <3>3, <1>9
  <2>2. Knows(elements'[q], FirstName(q))
    <3>1. Len(elements[q]) + 1 \in DOMAIN elements'[q] BY <1>11
    <3>2. QED BY <3>1, <1>11 DEF Knows
  <2>3. Prepared(q)' >= 2 => Repeats(elements'[q])
    <3>1. SUFFICES ASSUME Prepared(q)' >= 2 PROVE Repeats(elements'[q]) OBVIOUS
    <3>2. Prepared(q) >= 1 BY <3>1, <1>9
    <3>3. PICK i \in DOMAIN elements[q] : elements[q][i][1] = FirstName(q)
      BY <3>2, <1>1 DEF PrepareInv, Knows
    <3>4. /\ i \in DOMAIN elements'[q] /\ Len(elements[q]) + 1 \in DOMAIN elements'[q]
          /\ i < Len(elements[q]) + 1
      BY <1>11, <3>3
    <3>5. elements'[q][i][1] = elements'[q][Len(elements[q]) + 1][1]
      BY <1>11, <3>3
    <3>6. QED BY <3>4, <3>5 DEF Repeats
  <2>4. at'[1] = q => builds'[q] > 0 BY <1>3, <1>9
  <2>5. ASSUME NEW p \in Pipelines, p # q
        PROVE  /\ watches'[p] = (IF p = "base" THEN Prepared(p)' ELSE 0)
               /\ at'[1] = p => builds'[p] > 0
               /\ Prepared(p)' >= 1 => Knows(elements'[p], FirstName(p))
               /\ Prepared(p)' >= 2 => Repeats(elements'[p])
    <3>1. watches'[p] = watches[p] BY <1>1, <1>3, <2>5 DEF TypeOK
    <3>2. at'[1] # p BY <1>6, <2>5 DEF Idle, None, Pipelines
    <3>3. QED BY <3>1, <3>2, <1>1, <1>8, <1>10, <2>5, Zenon DEF PrepareInv
  <2>6. ASSUME NEW p \in Pipelines
        PROVE  /\ watches'[p] = (IF p = "base" THEN Prepared(p)' ELSE 0)
               /\ at'[1] = p => builds'[p] > 0
               /\ Prepared(p)' >= 1 => Knows(elements'[p], FirstName(p))
               /\ Prepared(p)' >= 2 => Repeats(elements'[p])
    BY <2>1, <2>2, <2>3, <2>4, <2>5, Zenon
  <2>7. QED BY <2>6, Zenon DEF PrepareInv, Knows, Repeats, FirstName
<1>13. PlaceInv'
  <2>1. ~(at'[2] > 4) /\ at'[2] # 4 BY <1>6 DEF Idle
  <2>2. ASSUME NEW p \in Pipelines, built'[p] PROVE Placed(p)'
    <3>1. p # q /\ built[p] BY <1>6, <2>2
    <3>2. Placed(p) BY <3>1, <1>1 DEF PlaceInv
    <3>3. QED BY <3>1, <3>2, <1>3, <1>8 DEF Placed
  <2>3. QED BY <2>1, <2>2 DEF PlaceInv
<1>14. TypeOK'
  <2>1. \A p \in Pipelines : watches'[p] \in 0 .. MaxBuilds
    <3>1. watches \in [Pipelines -> 0 .. MaxBuilds] BY <1>1 DEF TypeOK
    <3>2. watches'[q] \in 0 .. MaxBuilds BY <1>12, <1>9, BuildsAssumption DEF PrepareInv
    <3>3. \A p \in Pipelines : p # q => watches'[p] = watches[p] BY <1>3, <3>1
    <3>4. QED BY <3>1, <3>2, <3>3
  <2>2. watches' \in [Pipelines -> 0 .. MaxBuilds] BY <2>1, <1>1, <1>3 DEF TypeOK
  <2>3. at' = Idle \/ (at'[1] \in Pipelines /\ at'[2] \in DOMAIN Steps[at'[1]] /\ ~built'[at'[1]])
    BY <1>6
  <2>4. {x[1] : x \in parent'} \subseteq el' BY <1>1, <1>3, <1>5 DEF TypeOK
  <2>5. QED BY <2>2, <2>3, <2>4, <1>1, <1>3, <1>5, <1>6, <1>8, Zenon DEF TypeOK, inputs
<1>15. QED BY <1>7, <1>8, <1>12, <1>13, <1>14 DEF BuildInv

\* AddElements: it succeeds only if no name is in p.elements twice, so only if one
\* Prepare has been called.
LEMMA AddKeeps ==
  ASSUME NEW q \in Pipelines, BuildInv, AddElements, at[1] = q PROVE BuildInv'
<1>1. /\ TypeOK /\ elements \in [Pipelines -> Seq(MadeElements)] /\ PrepareInv /\ PlaceInv
      /\ at \in {Idle} \cup (Pipelines \X Nat)
  BY DEF BuildInv
<1>2. at # Idle /\ AtStep("add") BY DEF AddElements, AtStep
<1>3. at = <<q, 4>> /\ at[2] = 4 BY <1>1, <1>2, StepNumbers DEF TypeOK
<1> DEFINE seq == elements[q]
           bin == <<"pipeline", q, builds[q]>>
           n == Passed(seq, LAMBDA i : CanAdd(seq, i, bin))
<1>4. /\ parent' = parent \cup {<<e, bin>> : e \in First(seq, n)} /\ Return(n = Len(seq))
      /\ UNCHANGED <<inputs, held, builds, elements, watches, el, linked>>
  BY DEF AddElements, Bin
<1>5. seq \in Seq(MadeElements) /\ Len(seq) \in Nat /\ DOMAIN seq = 1 .. Len(seq) BY <1>1, <1>3
<1>6. n \in 0 .. Len(seq) /\ (\A i \in 1 .. n : CanAdd(seq, i, bin))
  <2> HIDE DEF seq, bin
  <2>1. /\ n \in 0 .. Len(seq)
        /\ \A i \in 1 .. n : CanAdd(seq, i, bin)
        /\ n < Len(seq) => ~CanAdd(seq, n + 1, bin)
    BY <1>5, PassedAdd, Zenon
  <2>2. QED BY <2>1
<1> HIDE DEF n
<1>7. \A e \in First(seq, n) : e \in el
  <2>1. \A i \in DOMAIN seq : seq[i] \in el BY <1>1, <1>3 DEF PlaceInv
  <2>2. QED BY <2>1, <1>5, <1>6 DEF First
<1>8. {x[1] : x \in parent'} \subseteq el'
  <2>1. {x[1] : x \in parent} \subseteq el /\ el' = el BY <1>1, <1>4 DEF TypeOK
  <2>2. QED BY <2>1, <1>4, <1>7
<1>9. ASSUME n = Len(seq) PROVE Placed(q)'
  <2>1. \A i, j \in DOMAIN seq : i < j => seq[i][1] # seq[j][1]
    <3>1. SUFFICES ASSUME NEW i \in DOMAIN seq, NEW j \in DOMAIN seq, i < j
                   PROVE  seq[i][1] # seq[j][1]
      OBVIOUS
    <3>2. j \in 1 .. n /\ i \in 1 .. j - 1 BY <1>5, <1>9, <3>1
    <3>3. CanAdd(seq, j, bin) BY <1>6, <3>2
    <3>4. QED BY <3>2, <3>3 DEF CanAdd
  <2>2. builds[q] = 1
    <3>1. Prepared(q) = builds[q] /\ builds[q] \in Nat /\ builds[q] > 0
      BY <1>1, <1>3, BuildsAssumption DEF Prepared, PrepareInv, TypeOK
    <3>2. ~Repeats(seq) BY <2>1 DEF Repeats
    <3>3. ~(Prepared(q) >= 2) BY <1>1, <1>3, <3>2 DEF PrepareInv
    <3>4. QED BY <3>1, <3>3
  <2>3. \A i, j \in DOMAIN seq : seq[i] = seq[j] => i = j
    <3>1. SUFFICES ASSUME NEW i \in DOMAIN seq, NEW j \in DOMAIN seq, i # j
                   PROVE  seq[i] # seq[j]
      OBVIOUS
    <3>2. i < j \/ j < i
      <4>1. i \in Nat /\ j \in Nat BY <1>5
      <4>2. QED BY <3>1, <4>1
    <3>3. QED BY <2>1, <3>2
  <2>4. \A i \in DOMAIN seq : <<seq[i], <<"pipeline", q, 1>>>> \in parent'
    <3>1. \A i \in DOMAIN seq : seq[i] \in First(seq, n) BY <1>5, <1>9 DEF First
    <3>2. bin = <<"pipeline", q, 1>> BY <2>2
    <3>3. QED BY <1>4, <3>1, <3>2
  <2>5. builds' = builds /\ elements' = elements BY <1>4
  <2>6. QED BY <2>2, <2>3, <2>4, <2>5 DEF Placed
<1>10. (n = Len(seq)) \in BOOLEAN /\ el' \subseteq MadeElements
       /\ held'.type \in {"unset", ask'[1].type}
  BY <1>1, <1>4 DEF TypeOK, inputs
<1>11. QED
  <2> DEFINE ok == n = Len(seq)
  <2>1. ok \in BOOLEAN /\ Return(ok) BY <1>4, <1>10
  <2>2. ok => Placed(q)' BY <1>9
  <2>3. parent \subseteq parent' /\ el \subseteq el' BY <1>4
  <2> HIDE DEF ok, seq, bin
  <2>4. QED BY <1>3, <1>4, <1>8, <1>10, <2>1, <2>2, <2>3, AfterPrepare

\* BuildElements.
LEMMA ElementsKeep ==
  ASSUME NEW q \in Pipelines, BuildInv, BuildElements, at[1] = q PROVE BuildInv'
<1>1. /\ TypeOK /\ elements \in [Pipelines -> Seq(MadeElements)]
      /\ at \in {Idle} \cup (Pipelines \X Nat)
  BY DEF BuildInv
<1>2. at # Idle /\ AtStep("elements") BY DEF BuildElements, AtStep
<1>3. at[2] = 3 BY <1>1, <1>2, StepNumbers DEF TypeOK
<1> DEFINE seq == elements[q]
           n == Passed(seq, LAMBDA i : CanBuild(seq[i]))
<1>4. /\ Sets(First(seq, n)) /\ Return(n = Len(seq))
      /\ UNCHANGED <<inputs, builds, elements, watches, parent, linked>>
  BY DEF BuildElements
<1>5. seq \in Seq(MadeElements) /\ Len(seq) \in Nat /\ DOMAIN seq = 1 .. Len(seq) BY <1>1
<1>6. n \in 0 .. Len(seq) /\ (\A i \in 1 .. n : CanBuild(seq[i]))
  <2> HIDE DEF seq
  <2>1. QED BY <1>5, PassedBuild
<1> HIDE DEF n
<1>7. First(seq, n) \subseteq MadeElements /\ (\A e \in First(seq, n) : CanBuild(e))
  BY <1>5, <1>6, FirstElements DEF First
<1>8. /\ el' = el \cup First(seq, n) /\ el' \subseteq MadeElements
      /\ held'.type \in {"unset", ask'[1].type}
  <2>1. ask' = ask /\ held.type \in {"unset", ask[1].type} /\ el \subseteq MadeElements
    BY <1>1, <1>4 DEF inputs, TypeOK
  <2> HIDE DEF seq
  <2>2. QED BY <1>4, <1>7, <2>1, SetsTypes
<1>9. {x[1] : x \in parent'} \subseteq el' BY <1>1, <1>4, <1>8 DEF TypeOK
<1> DEFINE ok == n = Len(seq)
<1>10. ok \in BOOLEAN /\ Return(ok) BY <1>4
<1>11. ok => \A i \in DOMAIN elements[q] : elements[q][i] \in el' BY <1>5, <1>8 DEF First
<1>12. parent \subseteq parent' /\ el \subseteq el' BY <1>4, <1>8
<1> HIDE DEF ok, seq
<1>13. QED BY <1>3, <1>4, <1>8, <1>9, <1>10, <1>11, <1>12, AfterPrepare

\* The loops of the partial pipelines build and place elements of their own.
LEMMA PutKeeps ==
  ASSUME NEW names \in {StreamElements, SegmentationElements}, NEW bin, NEW ok,
         Put(names, bin, ok), TypeOK, ask' = ask
  PROVE  /\ ok \in BOOLEAN
         /\ el \subseteq el' /\ el' \subseteq MadeElements
         /\ held'.type \in {"unset", ask'[1].type}
         /\ parent \subseteq parent' /\ {x[1] : x \in parent'} \subseteq el'
         /\ \E new : Sets(new) /\ \A e \in new : CanBuild(e)
<1> DEFINE seq == Named(names, 0)
           n == Passed(seq, LAMBDA i : CanBuild(seq[i]) /\ CanAdd(seq, i, bin))
           next == IF n < Len(seq) /\ CanBuild(seq[n + 1]) THEN n + 1 ELSE n
<1>1. /\ Sets(First(seq, next)) /\ parent' = parent \cup {<<e, bin>> : e \in First(seq, n)}
      /\ ok = (n = Len(seq))
  BY DEF Put
<1>2. seq \in Seq(MadeElements) /\ Len(seq) \in Nat
  <2>1. 0 \in 0 .. MaxBuilds BY BuildsAssumption
  <2>2. seq \in Seq(MadeElements) BY <2>1, NamedElements
  <2>3. QED BY <2>2
<1> HIDE DEF seq
<1>3. n \in 0 .. Len(seq) /\ (\A i \in 1 .. n : CanBuild(seq[i]))
  <2>1. /\ n \in 0 .. Len(seq)
        /\ \A i \in 1 .. n : CanBuild(seq[i]) /\ CanAdd(seq, i, bin)
    BY <1>2, PassedBoth, Zenon
  <2> HIDE DEF n
  <2>2. QED BY <2>1
<1> HIDE DEF n
<1>4. next \in 0 .. Len(seq) /\ n <= next /\ (\A i \in 1 .. next : CanBuild(seq[i]))
  <2>1. CASE n < Len(seq) /\ CanBuild(seq[n + 1])
    <3>1. next = n + 1 BY <2>1
    <3>2. \A i \in 1 .. n + 1 : i \in 1 .. n \/ i = n + 1 BY <1>2, <1>3
    <3>3. QED BY <1>2, <1>3, <2>1, <3>1, <3>2
  <2>2. CASE ~(n < Len(seq) /\ CanBuild(seq[n + 1])) BY <2>2, <1>2, <1>3
  <2>3. QED BY <2>1, <2>2
<1> HIDE DEF next
<1>5. /\ First(seq, next) \subseteq MadeElements /\ (\A e \in First(seq, next) : CanBuild(e))
      /\ First(seq, n) \subseteq First(seq, next)
  BY <1>2, <1>3, <1>4, FirstElements DEF First
<1>6. /\ el' = el \cup First(seq, next) /\ el' \subseteq MadeElements
      /\ held'.type \in {"unset", ask'[1].type}
  BY <1>1, <1>5, SetsTypes DEF TypeOK
<1>7. {x[1] : x \in parent'} \subseteq el'
  <2>1. {x[1] : x \in parent} \subseteq el BY DEF TypeOK
  <2>2. QED BY <2>1, <1>1, <1>5, <1>6
<1>8. QED BY <1>1, <1>5, <1>6, <1>7

\* StreamPipeline.Build.
LEMMA StreamKeeps ==
  ASSUME NEW q \in Pipelines, BuildInv, BuildStream, at[1] = q PROVE BuildInv'
<1>1. at # Idle /\ AtStep("stream") BY DEF BuildStream, AtStep
<1>2. at[2] = 5 BY <1>1, StepNumbers DEF BuildInv, TypeOK
<1>3. PICK placed \in BOOLEAN, links \in BOOLEAN :
        Put(StreamElements, Bin("stream-bin", "base"), placed) /\ Return(placed /\ links)
  BY DEF BuildStream
<1>4. UNCHANGED <<inputs, builds, elements, watches, linked>> /\ ask' = ask
  BY DEF BuildStream, inputs
<1> DEFINE bin == Bin("stream-bin", "base")
<1>5. Put(StreamElements, bin, placed) BY <1>3
<1> HIDE DEF bin
<1>6. /\ el \subseteq el' /\ el' \subseteq MadeElements
      /\ held'.type \in {"unset", ask'[1].type}
      /\ parent \subseteq parent' /\ {x[1] : x \in parent'} \subseteq el'
  BY <1>4, <1>5, PutKeeps DEF BuildInv
<1> DEFINE ok == placed /\ links
<1>7. ok \in BOOLEAN /\ Return(ok) BY <1>3
<1> HIDE DEF ok
<1>8. QED BY <1>2, <1>4, <1>6, <1>7, AfterPrepare

\* SegmentationPipeline.Build.
LEMMA SegmentationKeeps ==
  ASSUME NEW q \in Pipelines, BuildInv, BuildSegmentation, at[1] = q PROVE BuildInv'
<1>1. at # Idle /\ AtStep("segmentation") BY DEF BuildSegmentation, AtStep
<1>2. at[2] = 7 BY <1>1, StepNumbers DEF BuildInv, TypeOK
<1>3. PICK placed \in BOOLEAN :
        Put(SegmentationElements, Bin("segmentation-bin", "base"), placed) /\ Return(placed)
  BY DEF BuildSegmentation
<1>4. UNCHANGED <<inputs, builds, elements, watches, linked>> /\ ask' = ask
  BY DEF BuildSegmentation, inputs
<1> DEFINE bin == Bin("segmentation-bin", "base")
<1>5. Put(SegmentationElements, bin, placed) BY <1>3
<1> HIDE DEF bin
<1>6. /\ el \subseteq el' /\ el' \subseteq MadeElements
      /\ held'.type \in {"unset", ask'[1].type}
      /\ parent \subseteq parent' /\ {x[1] : x \in parent'} \subseteq el'
  BY <1>4, <1>5, PutKeeps DEF BuildInv
<1>7. QED BY <1>2, <1>3, <1>4, <1>6, AfterPrepare

\* The steps that touch nothing but at and built.
LEMMA ReturnsKeep ==
  ASSUME NEW q \in Pipelines, BuildInv, Instantiate \/ BuildHandler, at[1] = q PROVE BuildInv'
<1>1. at # Idle /\ (at[2] = 2 \/ at[2] = 5 \/ at[2] = 6)
  <2>1. at # Idle BY DEF Instantiate, BuildHandler, AtStep
  <2>2. at[1] \in Pipelines /\ at[2] \in DOMAIN Steps[at[1]] BY <2>1 DEF BuildInv, TypeOK
  <2>3. QED BY <2>1, <2>2, StepNumbers DEF Instantiate, BuildHandler
<1>2. PICK ok \in BOOLEAN : Return(ok) BY DEF Instantiate, BuildHandler
<1>3. UNCHANGED <<inputs, held, builds, elements, watches, el, parent, linked>>
  BY DEF Instantiate, BuildHandler
<1>4. /\ held'.type \in {"unset", ask'[1].type} /\ el \subseteq el' /\ el' \subseteq MadeElements
      /\ parent \subseteq parent' /\ {x[1] : x \in parent'} \subseteq el'
  BY <1>3 DEF BuildInv, TypeOK, inputs
<1>5. at[2] > 1 /\ at[2] # 3 /\ at[2] # 4 BY <1>1
<1>6. QED BY <1>2, <1>3, <1>4, <1>5, AfterPrepare

\* Connect changes what is linked, no more.
LEMMA ConnectKeeps ==
  ASSUME BuildInv, NEW branch \in {"stream", "segmentation"}, ConnectSource(branch)
  PROVE  BuildInv'
<1>1. UNCHANGED <<inputs, held, at, builds, built, elements, watches, el, parent>>
      /\ linked' \subseteq {"stream", "segmentation"}
  BY DEF ConnectSource, BuildInv, TypeOK
<1>2. TypeOK' BY <1>1 DEF BuildInv, TypeOK, inputs
<1>3. PrepareInv'
  BY <1>1 DEF BuildInv, PrepareInv, Prepared, Knows, Repeats
<1>4. PlaceInv' BY <1>1 DEF BuildInv, PlaceInv, Placed
<1>5. QED BY <1>1, <1>2, <1>3, <1>4 DEF BuildInv

\* The bins of the first Build are never left to the collector.
LEMMA CollectKeeps ==
  ASSUME BuildInv, NEW bin, Collect(bin) PROVE BuildInv'
<1>1. /\ bin[3] < builds[bin[2]] /\ parent' = {x \in parent : x[2] # bin}
      /\ UNCHANGED <<inputs, held, at, builds, built, elements, watches, el, linked>>
  BY DEF Collect
<1>2. TypeOK' BY <1>1 DEF BuildInv, TypeOK, inputs
<1>3. PrepareInv'
  BY <1>1 DEF BuildInv, PrepareInv, Prepared, Knows, Repeats
<1>4. PlaceInv'
  <2>1. ASSUME NEW p \in Pipelines, Placed(p) PROVE Placed(p)'
    <3>1. builds[p] = 1 BY <2>1 DEF Placed
    <3>2. bin # <<"pipeline", p, 1>> BY <1>1, <3>1
    <3>3. \A i \in DOMAIN elements[p] : <<elements[p][i], <<"pipeline", p, 1>>>> \in parent'
      BY <1>1, <2>1, <3>2 DEF Placed
    <3>4. QED BY <1>1, <2>1, <3>3 DEF Placed
  <2>2. QED BY <1>1, <2>1 DEF BuildInv, PlaceInv
<1>5. QED BY <1>1, <1>2, <1>3, <1>4 DEF BuildInv

\* A step that changes nothing.
LEMMA StutterKeeps == BuildInv /\ UNCHANGED vars => BuildInv'
<1> SUFFICES ASSUME BuildInv, UNCHANGED vars PROVE BuildInv' OBVIOUS
<1>1. UNCHANGED <<inputs, held, at, builds, built, elements, watches, el, parent, linked>>
  BY DEF vars, inputs
<1>2. TypeOK' BY <1>1 DEF BuildInv, TypeOK, inputs
<1>3. PrepareInv'
  BY <1>1 DEF BuildInv, PrepareInv, Prepared, Knows, Repeats
<1>4. PlaceInv' BY <1>1 DEF BuildInv, PlaceInv, Placed
<1>5. QED BY <1>1, <1>2, <1>3, <1>4 DEF BuildInv

\* The inductive invariant holds of every state of the construction.
LEMMA BuildInvariant == BuildSpec => []BuildInv
<1>1. Init => BuildInv BY InitKeeps
<1>2. BuildInv /\ [Next]_vars => BuildInv'
  <2> SUFFICES ASSUME BuildInv, [Next]_vars PROVE BuildInv' OBVIOUS
  <2>1. ASSUME at # Idle PROVE at[1] \in Pipelines BY <2>1 DEF BuildInv, TypeOK
  <2>2. ASSUME NEW p \in Pipelines, Build(p) PROVE BuildInv' BY <2>2, BuildKeeps
  <2>3. ASSUME NEW p \in Pipelines, Prepare(p) PROVE BuildInv' BY <2>3, PrepareKeeps
  <2>4. CASE Instantiate BY <2>1, <2>4, ReturnsKeep DEF Instantiate, AtStep
  <2>5. CASE BuildElements BY <2>1, <2>5, ElementsKeep DEF BuildElements, AtStep
  <2>6. CASE AddElements BY <2>1, <2>6, AddKeeps DEF AddElements, AtStep
  <2>7. CASE BuildStream BY <2>1, <2>7, StreamKeeps DEF BuildStream, AtStep
  <2>8. CASE BuildHandler BY <2>1, <2>8, ReturnsKeep DEF BuildHandler, AtStep
  <2>9. CASE BuildSegmentation BY <2>1, <2>9, SegmentationKeeps DEF BuildSegmentation, AtStep
  <2>10. ASSUME NEW branch \in {"stream", "segmentation"}, ConnectSource(branch)
         PROVE  BuildInv'
    BY <2>10, ConnectKeeps
  <2>11. ASSUME NEW bin, Collect(bin) PROVE BuildInv' BY <2>11, CollectKeeps
  <2>12. CASE UNCHANGED vars BY <2>12, StutterKeeps
  <2>13. QED BY <2>2, <2>3, <2>4, <2>5, <2>6, <2>7, <2>8, <2>9, <2>10, <2>11, <2>12 DEF Next
<1>3. QED BY <1>1, <1>2, PTL DEF BuildSpec

\* Whatever plugin is missing, whatever property is asked for and however often the
\* pipelines are built, the state of the construction is well typed.
THEOREM BuildTypes == BuildSpec => []TypeOK
<1>1. BuildInv => TypeOK BY DEF BuildInv
<1>2. QED BY <1>1, BuildInvariant, PTL

\* "Once built it will never be built again" (pipeline.go:39): Build succeeds on its
\* first call or on none, and then the gst pipeline has all the elements, once each.
THEOREM BuiltAtFirst == BuildSpec => []BuiltByTheFirst
<1>1. BuildInv => BuiltByTheFirst
  <2> SUFFICES ASSUME BuildInv, NEW p \in Pipelines, built[p]
               PROVE  /\ Placed(p) /\ {x[1] : x \in parent} \subseteq el
                      /\ watches[p] = (IF p = "base" THEN 1 ELSE 0)
    BY DEF BuiltByTheFirst, Placed
  <2>1. Placed(p) BY DEF BuildInv, PlaceInv
  <2>2. {x[1] : x \in parent} \subseteq el BY DEF BuildInv, TypeOK
  <2>3. Prepared(p) = 1
    <3>1. at # <<p, 1>> BY DEF BuildInv, TypeOK, Idle, None, Pipelines
    <3>2. QED BY <2>1, <3>1 DEF Prepared, Placed
  <2>4. QED BY <2>1, <2>2, <2>3 DEF BuildInv, PrepareInv
<1>2. QED BY <1>1, BuildInvariant, PTL

-----------------------------------------------------------------------------
(***************************************************************************)
(* What the properties of an element hold.                                 *)
(***************************************************************************)

\* A power of two is the number of the subsets of a set: all there is to know about
\* powers of a variable.
LEMMA PowerIsCount ==
  ASSUME NEW n \in Nat
  PROVE  IsFiniteSet(SUBSET (1 .. n)) /\ Cardinality(SUBSET (1 .. n)) = 2^n
<1>1. IsFiniteSet(1 .. n) /\ Cardinality(1 .. n) = n
  BY FS_Interval
<1>2. IsFiniteSet(SUBSET (1 .. n)) /\ Cardinality(SUBSET (1 .. n)) = 2^Cardinality(1 .. n)
  BY <1>1, FS_SUBSET
<1> QED
  BY <1>1, <1>2

\* One more element doubles the subsets: those without it, and those with it.
LEMMA PowersDouble ==
  ASSUME NEW n \in Nat
  PROVE  2^n \in Nat /\ 2^(n + 1) = 2^n + 2^n
<1> DEFINE A == SUBSET (1 .. n)
           B == {X \cup {n + 1} : X \in A}
           f == [X \in A |-> X \cup {n + 1}]
<1>1. IsFiniteSet(A) /\ Cardinality(A) = 2^n
  BY PowerIsCount
<1>2. n + 1 \in Nat /\ \A X \in A : n + 1 \notin X
  OBVIOUS
<1>3. f \in Bijection(A, B)
  <2>1. \A X, Y \in A : X \cup {n + 1} = Y \cup {n + 1} => X = Y
    BY <1>2
  <2>2. f \in [A -> B] /\ \A y \in B : \E x \in A : f[x] = y
    OBVIOUS
  <2>3. \A X, Y \in A : f[X] = f[Y] => X = Y
    BY <2>1
  <2> HIDE DEF A, B, f
  <2> QED
    BY <2>2, <2>3 DEF Bijection, Injection, Surjection, IsInjective
<1>4. IsFiniteSet(B) /\ Cardinality(B) = Cardinality(A)
  <2> HIDE DEF A, B, f
  <2> QED
    BY <1>1, <1>3, FS_Bijection DEF ExistsBijection
<1>5. A \cap B = {}
  BY <1>2
<1>6. SUBSET (1 .. n + 1) = A \cup B
  <2>1. 1 .. n + 1 = (1 .. n) \cup {n + 1}
    OBVIOUS
  <2>2. ASSUME NEW X \in SUBSET (1 .. n + 1) PROVE X \in A \cup B
    <3>1. CASE n + 1 \in X
      <4>1. X \ {n + 1} \in A /\ (X \ {n + 1}) \cup {n + 1} = X
        BY <2>1, <3>1
      <4> QED
        BY <4>1
    <3>2. CASE n + 1 \notin X
      BY <2>1, <3>2
    <3> QED
      BY <3>1, <3>2
  <2>3. A \cup B \subseteq SUBSET (1 .. n + 1)
    BY <2>1
  <2> QED
    BY <2>2, <2>3
<1>7. Cardinality(SUBSET (1 .. n + 1)) = 2^(n + 1)
  BY <1>2, PowerIsCount
<1> HIDE DEF A, B
<1>8. Cardinality(A \cup B) = Cardinality(A) + Cardinality(B) - Cardinality(A \cap B)
  BY <1>1, <1>4, FS_Union
<1>9. Cardinality(A \cap B) = 0 /\ Cardinality(A) \in Nat
  BY <1>1, <1>5, FS_EmptySet, FS_CardinalityType
<1>10. Cardinality(A \cup B) = Cardinality(A) + Cardinality(A)
  BY <1>4, <1>8, <1>9
<1> QED
  BY <1>1, <1>6, <1>7, <1>9, <1>10

\* The casts of the setters keep what the C type holds.
LEMMA CastsKeep ==
  ASSUME NEW n \in Int
  PROVE  /\ n \in -(2^(CBits - 1)) .. 2^(CBits - 1) - 1 => Signed(n, CBits) = n
         /\ n \in 0 .. 2^CBits - 1 => Unsigned(n, CBits) = n
<1>1. CBits \in Nat /\ CBits - 1 \in Nat /\ (CBits - 1) + 1 = CBits
  BY WidthAssumption
<1> DEFINE half == 2^(CBits - 1)
           whole == 2^CBits
<1>2. half \in Nat /\ whole = half + half
  BY <1>1, PowersDouble
<1> HIDE DEF half, whole
<1>3. ASSUME n \in -half .. half - 1 PROVE ((n + half) % whole) - half = n
  <2>1. n + half \in 0 .. whole - 1 /\ whole \in Nat
    BY <1>2, <1>3
  <2>2. (n + half) % whole = n + half
    BY <2>1
  <2> QED
    BY <1>2, <2>2
<1>4. ASSUME n \in 0 .. whole - 1 PROVE n % whole = n
  BY <1>2, <1>4
<1> QED
  BY <1>3, <1>4 DEF Signed, Unsigned, half, whole

\* What the type switch of gValue makes of a Go type, the marshaler takes back.
LEMMA MarshalersInvert ==
  ASSUME NEW g \in {"bool", "int8", "int64", "int", "uint8", "uint64", "uint", "float32",
                    "float64", "string", "object"}
  PROVE  /\ g \in DOMAIN TypeSwitch /\ g # "caps" /\ TypeSwitch[g] \in DOMAIN Marshalers
         /\ Marshalers[TypeSwitch[g]] = g
         /\ TypeSwitch[g] \notin {"enum", "flags", "param"}
         /\ TypeSwitch[g] = "int" <=> g = "int"
         /\ TypeSwitch[g] = "uint" <=> g = "uint"
  BY DEF TypeSwitch, Marshalers

\* The marshalers of enums, flags and GstCaps.
LEMMA OtherMarshalers ==
  ASSUME NEW t
  PROVE  /\ Fundamental(t) = "enum" =>
              Lookup(t) \in DOMAIN Marshalers /\ Marshalers[Lookup(t)] = "int" /\ t # "missing"
         /\ Fundamental(t) = "flags" =>
              Lookup(t) \in DOMAIN Marshalers /\ Marshalers[Lookup(t)] = "uint" /\ t # "missing"
         /\ Lookup("GstCaps") \in DOMAIN Marshalers /\ Marshalers[Lookup("GstCaps")] = "caps"
         /\ t \in DOMAIN Marshalers => Lookup(t) = t
  BY DEF Fundamental, Lookup, Derived, Marshalers

\* What a property that is not refused holds is what was stored, if it is in range.
LEMMA StoredIsHeld ==
  ASSUME NEW spec, NEW gv, SetPropertyValue(spec, Unset, gv) # Error, InRange(spec, gv.n)
  PROVE  /\ SetPropertyValue(spec, Unset, gv) = gv
         /\ spec.type # "missing" /\ gv.type = spec.type
  BY DEF SetPropertyValue

\* A value a property can hold comes back as it was set, through Element.Build and
\* GetProperty, for any widths and any number.
LEMMA RoundTrip ==
  ASSUME NEW spec, NEW v, v.n \in Int, v = Go(v.go, v.n), Lossless(spec, v),
         BuildProperty(spec, Unset, v) # Error
  PROVE  GetProperty(spec, BuildProperty(spec, Unset, v)) = v
<1>1. /\ v.go = "int" => Signed(v.n, CBits) = v.n
      /\ v.go = "uint" => Unsigned(v.n, CBits) = v.n
      /\ InRange(spec, v.n)
  BY CastsKeep DEF Lossless
<1> DEFINE t == spec.type
<1>2. CASE Fundamental(t) = "enum"
  <2> DEFINE gv == [type |-> t, n |-> v.n]
  <2>1. v.go = "int" /\ SetNumber("enum", v.n) = v.n
    BY <1>1, <1>2 DEF BuildProperty, SetNumber
  <2>2. BuildProperty(spec, Unset, v) = SetPropertyValue(spec, Unset, gv)
    BY <1>2, <2>1 DEF BuildProperty
  <2>3. BuildProperty(spec, Unset, v) = gv /\ t # "missing"
    BY <1>1, <2>2, StoredIsHeld
  <2>4. GoValue(gv) = Go("int", v.n)
    BY <1>2, OtherMarshalers DEF GoValue
  <2> QED
    BY <2>1, <2>3, <2>4 DEF GetProperty
<1>3. CASE Fundamental(t) = "flags"
  <2> DEFINE gv == [type |-> t, n |-> v.n]
  <2>1. v.go = "uint" /\ SetNumber("flags", v.n) = v.n
    BY <1>1, <1>3 DEF BuildProperty, SetNumber
  <2>2. BuildProperty(spec, Unset, v) = SetPropertyValue(spec, Unset, gv)
    BY <1>3, <2>1 DEF BuildProperty
  <2>3. BuildProperty(spec, Unset, v) = gv /\ t # "missing"
    BY <1>1, <2>2, StoredIsHeld
  <2>4. GoValue(gv) = Go("uint", v.n)
    BY <1>3, OtherMarshalers DEF GoValue
  <2> QED
    BY <2>1, <2>3, <2>4 DEF GetProperty
<1>4. CASE Fundamental(t) \notin {"enum", "flags"}
  <2> DEFINE gv == ToGValue(v)
  <2>1. BuildProperty(spec, Unset, v) = SetPropertyValue(spec, Unset, gv)
    BY <1>4 DEF BuildProperty, SetProperty
  <2>2. gv.n = v.n /\ GoValue(gv) = v
    <3>1. CASE v.go = "caps"
      <4>1. gv = [type |-> "GstCaps", n |-> v.n]
        <5>1. "caps" \notin DOMAIN TypeSwitch
          BY DEF TypeSwitch
        <5> QED
          BY <3>1, <5>1 DEF ToGValue
      <4> HIDE DEF gv
      <4> QED
        BY <3>1, <4>1, OtherMarshalers DEF GoValue
    <3>2. CASE v.go # "caps"
      <4>1. v.go \in {"bool", "int8", "int64", "int", "uint8", "uint64", "uint", "float32",
                      "float64", "string", "object"}
        BY <3>2 DEF Lossless
      <4> DEFINE u == TypeSwitch[v.go]
      <4>2. gv = [type |-> u, n |-> SetNumber(u, v.n)]
        BY <3>2, <4>1, MarshalersInvert DEF ToGValue
      <4>3. /\ u \in DOMAIN Marshalers /\ Marshalers[u] = v.go
            /\ u \notin {"enum", "flags", "param"}
            /\ u = "int" <=> v.go = "int"
            /\ u = "uint" <=> v.go = "uint"
        BY <4>1, MarshalersInvert
      <4> HIDE DEF u, gv
      <4>4. SetNumber(u, v.n) = v.n
        BY <1>1, <4>3 DEF SetNumber
      <4>5. Lookup(u) = u
        BY <4>3, OtherMarshalers
      <4> QED
        BY <4>2, <4>3, <4>4, <4>5 DEF GoValue
    <3> QED
      BY <3>1, <3>2
  <2>3. BuildProperty(spec, Unset, v) = gv /\ t # "missing"
    BY <1>1, <2>1, <2>2, StoredIsHeld
  <2> HIDE DEF gv
  <2> QED
    BY <2>2, <2>3 DEF GetProperty
<1> QED
  BY <1>2, <1>3, <1>4

\* The element of the caller, once built, holds what Element.Build has made of the
\* value it was given.
AskInv ==
  /\ ask[2].n \in Int /\ ask[2] = Go(ask[2].go, ask[2].n)
  /\ Custom \in el => held = BuildProperty(ask[1], Unset, ask[2])
                     /\ BuildProperty(ask[1], Unset, ask[2]) # Error

\* The element is not built at first, and the values are those of the type switch.
LEMMA AskStarts == Init => AskInv
<1> SUFFICES ASSUME Init PROVE AskInv
  OBVIOUS
<1>1. 2^(CBits - 1) \in Int /\ 2^CBits \in Int
  <2>1. CBits \in Nat /\ CBits - 1 \in Nat
    BY WidthAssumption
  <2> QED
    BY <2>1, PowersDouble
<1>2. ASSUME NEW v \in GoValues PROVE v.n \in Int /\ v = Go(v.go, v.n)
  BY <1>1 DEF GoValues, Go
<1>3. ask[2] \in GoValues
  BY DEF Init, GoValues
<1>4. Custom \notin el
  BY DEF Init
<1> QED
  BY <1>2, <1>3, <1>4 DEF AskInv

\* A step that builds nothing keeps el and held; another builds what can be built.
LEMMA StepBuilds ==
  ASSUME BuildInv, [Next]_vars
  PROVE  /\ ask' = ask /\ missing' = missing
         /\ \/ UNCHANGED <<el, held>>
            \/ \E new : Sets(new) /\ \A e \in new : CanBuild(e)
<1> DEFINE Builds == \E new : Sets(new) /\ \A e \in new : CanBuild(e)
<1>1. TypeOK /\ elements \in [Pipelines -> Seq(MadeElements)]
  BY DEF BuildInv
<1>2. CASE BuildElements
  <2>1. at[1] \in Pipelines
    BY <1>1, <1>2 DEF BuildElements, AtStep, TypeOK
  <2> DEFINE seq == elements[at[1]]
             n == Passed(seq, LAMBDA i : CanBuild(seq[i]))
  <2>2. Len(seq) \in Nat
    BY <1>1, <2>1
  <2>3. Sets(First(seq, n)) /\ UNCHANGED inputs
    BY <1>2 DEF BuildElements
  <2>4. n \in 0 .. Len(seq) /\ (\A i \in 1 .. n : CanBuild(seq[i]))
    <3> HIDE DEF seq
    <3> QED
      BY <2>2, PassedBuild
  <2> HIDE DEF n, seq
  <2> QED
    BY <2>3, <2>4 DEF First, inputs
<1>3. ASSUME NEW p \in Pipelines, Prepare(p) PROVE Builds /\ UNCHANGED inputs
  <2>1. PICK made \in Seq(MadeElements), n \in Nat, ok \in BOOLEAN :
          (\A i \in 1 .. n : CanBuild(made[i])) /\ Sets(First(made, n))
    BY <1>3, PrepareMakes
  <2>2. \A e \in First(made, n) : CanBuild(e)
    BY <2>1 DEF First
  <2> QED
    BY <1>3, <2>1, <2>2 DEF Prepare
<1>4. CASE BuildStream
  <2>1. PICK placed \in BOOLEAN : Put(StreamElements, Bin("stream-bin", "base"), placed)
    BY <1>4 DEF BuildStream
  <2>2. ask' = ask /\ missing' = missing
    BY <1>4 DEF BuildStream, inputs
  <2> DEFINE bin == Bin("stream-bin", "base")
  <2>3. Put(StreamElements, bin, placed)
    BY <2>1
  <2> HIDE DEF bin
  <2>4. \E new : Sets(new) /\ \A e \in new : CanBuild(e)
    BY <1>1, <2>2, <2>3, PutKeeps
  <2> QED
    BY <2>2, <2>4
<1>5. CASE BuildSegmentation
  <2>1. PICK placed \in BOOLEAN :
          Put(SegmentationElements, Bin("segmentation-bin", "base"), placed)
    BY <1>5 DEF BuildSegmentation
  <2>2. ask' = ask /\ missing' = missing
    BY <1>5 DEF BuildSegmentation, inputs
  <2> DEFINE bin == Bin("segmentation-bin", "base")
  <2>3. Put(SegmentationElements, bin, placed)
    BY <2>1
  <2> HIDE DEF bin
  <2>4. \E new : Sets(new) /\ \A e \in new : CanBuild(e)
    BY <1>1, <2>2, <2>3, PutKeeps
  <2> QED
    BY <2>2, <2>4
<1>6. ASSUME NEW p \in Pipelines, Build(p) PROVE UNCHANGED <<inputs, el, held>>
  BY <1>6 DEF Build
<1>7. CASE Instantiate \/ AddElements \/ BuildHandler
  BY <1>7 DEF Instantiate, AddElements, BuildHandler, inputs
<1>8. ASSUME NEW branch, ConnectSource(branch) PROVE UNCHANGED <<inputs, el, held>>
  BY <1>8 DEF ConnectSource
<1>9. ASSUME NEW bin, Collect(bin) PROVE UNCHANGED <<inputs, el, held>>
  BY <1>9 DEF Collect
<1>10. CASE UNCHANGED vars
  BY <1>10 DEF vars
<1>11. ASSUME UNCHANGED inputs PROVE ask' = ask /\ missing' = missing
  BY <1>11 DEF inputs
<1> QED
  BY <1>2, <1>3, <1>4, <1>5, <1>6, <1>7, <1>8, <1>9, <1>10, <1>11 DEF Next

\* It is built once, and nobody sets the property again.
LEMMA AskKeeps ==
  ASSUME BuildInv, AskInv, [Next]_vars
  PROVE  AskInv'
<1>1. ask' = ask /\ missing' = missing
  BY StepBuilds
<1>2. CASE UNCHANGED <<el, held>>
  BY <1>1, <1>2 DEF AskInv
<1>3. CASE \E new : Sets(new) /\ \A e \in new : CanBuild(e)
  <2>1. PICK new : Sets(new) /\ \A e \in new : CanBuild(e)
    BY <1>3
  <2>2. CASE Custom \in el
    <3>1. held' = held /\ Custom \in el'
      BY <2>1, <2>2 DEF Sets
    <3> QED
      BY <1>1, <2>2, <3>1 DEF AskInv
  <2>3. CASE Custom \notin el /\ Custom \in new
    <3>1. held' = BuildProperty(ask[1], Unset, ask[2]) /\ Custom \in el'
      BY <2>1, <2>3 DEF Sets
    <3>2. BuildProperty(ask[1], Unset, ask[2]) # Error
      BY <2>1, <2>3 DEF CanBuild, PropertiesOf
    <3> QED
      BY <1>1, <3>1, <3>2 DEF AskInv
  <2>4. CASE Custom \notin el /\ Custom \notin new
    <3>1. Custom \notin el'
      BY <2>1, <2>4 DEF Sets
    <3> QED
      BY <1>1, <3>1 DEF AskInv
  <2> QED
    BY <2>2, <2>3, <2>4
<1> QED
  BY <1>2, <1>3, StepBuilds

\* For widths of any size: what Element.Build accepts for a property, and the C type
\* can hold, is what GetProperty returns, enums and flags included.
THEOREM PropertiesAsAsked == BuildSpec => []PropertyAsAsked
<1>1. BuildInv /\ AskInv /\ [Next]_vars => AskInv'
  BY AskKeeps
<1>2. BuildSpec => []AskInv
  BY <1>1, AskStarts, BuildInvariant, PTL DEF BuildSpec
<1>3. AskInv => PropertyAsAsked
  BY RoundTrip DEF AskInv, PropertyAsAsked
<1> QED
  BY <1>2, <1>3, PTL
=============================================================================
