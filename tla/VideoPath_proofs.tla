-------------------------- MODULE VideoPath_proofs --------------------------
(***************************************************************************)
(* The safety of the path of the video, for either branch or both, any set *)
(* of encodings and any number of notifications and pads.                  *)
(***************************************************************************)
EXTENDS VideoPath, TLAPS

\* The elements HandleStreamChange builds.
Kinds == {"decoder", "encoder", "converter", "parser"}

\* Each callback that has not brought the branch to the encoding of its caps posts an
\* error for these caps before it sets the pipeline to Playing.
ReportInv ==
  \A b \in Branches :
    at[b] \in {"idle", "resume"} /\ caps[b] \notin {NoCaps, name[b]} => reported[b]

\* A callback under way has been notified of caps other than those of its branch, and of
\* none only if it is the segmentation's.
ChangeInv ==
  \A b \in Branches :
    at[b] = "change" => caps[b] # name[b] /\ (caps[b] = NoCaps => b = "segmentation")

\* The inductive invariant of the branches.
BranchesInv == TypeOK /\ ReportInv /\ ChangeInv /\ PausedByBranch

\* Until depay is in the pipeline nothing is linked and its factory is one that is not
\* installed; what it is linked to the tee with is an encoding it was made for.
DepayInv ==
  /\ depay = Src!None =>
       factory \notin available /\ linked = Src!None /\ tee = Src!None
  /\ tee \in Src!Supported \cup {Src!None}
  /\ Src!NeverPanics

\* With the camera, no branch is ever notified of, nor settles on, another encoding
\* than that of the tee.
TeeInv ==
  camera = "rtsp" =>
    \A b \in Branches :
      /\ caps[b] # NoCaps => tee \in Src!Supported /\ caps[b] = MediaType[tee]
      /\ name[b] # NoCaps => tee \in Src!Supported /\ name[b] = MediaType[tee]

\* The inductive invariant of the path.
PathInv == BranchesInv /\ Src!TypeOK /\ DepayInv /\ TeeInv

\* Whatever the encoding, the elements are of the four kinds.
LEMMA ElementsKnown ==
  ASSUME NEW b \in Branches, NEW e, NEW n \in Nat, n <= Len(Elements(b, e))
  PROVE  First(b, e, n) \subseteq Kinds
<1>1. CASE Elements(b, e) = <<"encoder", "converter", "parser">>
  <2>1. n \in 0 .. 3
    BY <1>1
  <2> QED
    BY <1>1, <2>1 DEF First, Kinds
<1>2. CASE Elements(b, e) = <<"decoder", "encoder", "converter", "parser">>
  <2>1. n \in 0 .. 4
    BY <1>2
  <2> QED
    BY <1>2, <2>1 DEF First, Kinds
<1>3. CASE Elements(b, e) = <<"decoder", "encoder", "converter">>
  <2>1. n \in 0 .. 3
    BY <1>3
  <2> QED
    BY <1>3, <2>1 DEF First, Kinds
<1>4. CASE Elements(b, e) = <<>>
  <2>1. n = 0
    BY <1>4
  <2> QED
    BY <1>4, <2>1 DEF First, Kinds
<1> QED
  BY <1>1, <1>2, <1>3, <1>4 DEF Elements

\* No branch has been notified at first.
LEMMA BranchesStart == Init => BranchesInv
<1> SUFFICES ASSUME Init PROVE BranchesInv
  OBVIOUS
<1>1. TypeOK
  <2>1. reported \in [Branches -> BOOLEAN] /\ unbuilt \in [Branches -> BOOLEAN]
    BY Zenon DEF Init
  <2>2. inBin \in [Branches -> SUBSET Kinds]
    BY DEF Init
  <2>3. at \in [Branches -> {"idle", "change", "resume", "panic"}] /\ gst = "playing"
    BY DEF Init
  <2>4. caps \in [Branches -> Encodings \cup {NoCaps}]
        /\ name \in [Branches -> Encodings \cup {NoCaps}]
    BY DEF Init
  <2>5. notified \in [Branches -> 0 .. MaxNotify]
    BY CapsAssumption DEF Init
  <2>6. resumeFailed \in BOOLEAN
    BY DEF Init
  <2> QED
    BY <2>1, <2>2, <2>3, <2>4, <2>5, <2>6, Zenon DEF TypeOK, Kinds
<1>2. ReportInv /\ ChangeInv
  <2>1. ASSUME NEW b \in Branches
        PROVE  at[b] = "idle" /\ caps[b] = NoCaps /\ name[b] = NoCaps
    BY DEF Init
  <2> QED
    BY <2>1 DEF ReportInv, ChangeInv
<1>3. PausedByBranch
  BY DEF Init, PausedByBranch
<1> QED
  BY <1>1, <1>2, <1>3 DEF BranchesInv

\* Every step of either callback keeps the invariant of the branches.
LEMMA BranchesStep == BranchesInv /\ [Next]_vars => BranchesInv'
<1> SUFFICES ASSUME BranchesInv, [Next]_vars PROVE BranchesInv'
  OBVIOUS
<1> USE CapsAssumption DEF BranchesInv, TypeOK, Kinds, ReportInv, ChangeInv, PausedByBranch
<1>1. ASSUME NEW b \in Branches, NEW e \in Encodings \cup {NoCaps}, NotifyIgnored(b, e)
      PROVE  BranchesInv'
  BY <1>1 DEF NotifyIgnored
<1>2. ASSUME NEW b \in Branches, NEW e \in Encodings \cup {NoCaps}, Notify(b, e)
      PROVE  BranchesInv'
  <2>1. reported' \in [Branches -> BOOLEAN]
    BY <1>2, Zenon DEF Notify
  <2>2. TypeOK'
    <3>1. resumeFailed' \in BOOLEAN /\ inBin' = inBin /\ unbuilt' = unbuilt /\ name' = name
      BY <1>2 DEF Notify
    <3>2. notified' \in [Branches -> 0 .. MaxNotify]
      BY <1>2 DEF Notify
    <3>3. /\ at' \in [Branches -> {"idle", "change", "resume", "panic"}]
          /\ caps' \in [Branches -> Encodings \cup {NoCaps}]
          /\ gst' \in {"playing", "paused"}
      BY <1>2 DEF Notify
    <3> QED
      BY <2>1, <3>1, <3>2, <3>3, Zenon
  <2>3. ReportInv' /\ ChangeInv'
    BY <1>2 DEF Notify
  <2>4. PausedByBranch'
    BY <1>2 DEF Notify
  <2> QED
    BY <2>2, <2>3, <2>4
<1>3. ASSUME NEW b \in Branches, ChangeSucceeds(b) PROVE BranchesInv'
  BY <1>3, ElementsKnown DEF ChangeSucceeds, Begins, Remains
<1>4. ASSUME NEW b \in Branches, ChangeRefused(b) PROVE BranchesInv'
  BY <1>4 DEF ChangeRefused
<1>5. ASSUME NEW b \in Branches, ChangePanics(b) PROVE BranchesInv'
  BY <1>5 DEF ChangePanics
<1>6. ASSUME NEW b \in Branches, NEW n \in 0 .. 4, ChangeFails(b, n) PROVE BranchesInv'
  <2>1. inBin' \in [Branches -> SUBSET Kinds]
    BY <1>6, ElementsKnown DEF ChangeFails, Remains
  <2>2. unbuilt' \in [Branches -> BOOLEAN] /\ reported' \in [Branches -> BOOLEAN]
    BY <1>6 DEF ChangeFails
  <2>3. TypeOK'
    BY <1>6, <2>1, <2>2 DEF ChangeFails
  <2>4. ReportInv' /\ ChangeInv' /\ PausedByBranch'
    BY <1>6 DEF ChangeFails
  <2> QED
    BY <2>3, <2>4
<1>7. ASSUME NEW b \in Branches, Resume(b) PROVE BranchesInv'
  BY <1>7 DEF Resume
<1>8. CASE UNCHANGED vars
  BY <1>8 DEF vars
<1> QED
  BY <1>1, <1>2, <1>3, <1>4, <1>5, <1>6, <1>7, <1>8 DEF Next, Change

\* Nothing is linked or built at first.
LEMMA PathStarts == PathInit => PathInv
<1> SUFFICES ASSUME PathInit PROVE PathInv
  OBVIOUS
<1>1. BranchesInv
  BY BranchesStart DEF PathInit
<1>2. Src!TypeOK
  <2>1. 0 \in 0 .. MaxPads
    BY PadsAssumption
  <2>2. /\ available \subseteq Src!Supported /\ pads = 0 /\ factory = "unknown"
        /\ depay = Src!None /\ linked = Src!None /\ tee = Src!None /\ panicked = FALSE
    BY DEF PathInit, Src!Init
  <2> QED
    BY <2>1, <2>2, Zenon DEF Src!TypeOK, Src!PadEncodings
<1>4. DepayInv
  BY DEF PathInit, Src!Init, Src!None, Src!Supported, DepayInv, Src!NeverPanics
<1>3. TeeInv
  BY DEF PathInit, Init, TeeInv
<1> QED
  BY <1>1, <1>2, <1>3, <1>4 DEF PathInv

\* Pads coming and going leave the tee with the first encoding it was linked in.
LEMMA SourceStep ==
  ASSUME Src!TypeOK, DepayInv, Src!Next
  PROVE  Src!TypeOK' /\ DepayInv' /\ (tee # Src!None => tee' = tee)
<1> USE PadsAssumption
    DEF Src!TypeOK, DepayInv, Src!NeverPanics, Src!None, Src!Supported, Src!PadEncodings,
        Src!Arrives, Src!FactoryFor
<1>1. CASE Src!PadWithoutEncoding
  BY <1>1 DEF Src!PadWithoutEncoding
<1>2. CASE Src!PadRemoved
  BY <1>2 DEF Src!PadRemoved
<1>3. ASSUME NEW e \in Src!PadEncodings, Src!PadNotBuilt(e)
      PROVE  Src!TypeOK' /\ DepayInv' /\ (tee # Src!None => tee' = tee)
  BY <1>3 DEF Src!PadNotBuilt
<1>4. ASSUME NEW e \in Src!PadEncodings, Src!PadRepeated(e)
      PROVE  Src!TypeOK' /\ DepayInv' /\ (tee # Src!None => tee' = tee)
  BY <1>4 DEF Src!PadRepeated
<1>5. ASSUME NEW e \in Src!PadEncodings, Src!PadTaken(e)
      PROVE  Src!TypeOK' /\ DepayInv' /\ (tee # Src!None => tee' = tee)
  <2>1. e \in Src!Supported
    BY <1>5 DEF Src!PadTaken
  <2> QED
    BY <1>5, <2>1 DEF Src!PadTaken
<1> QED
  BY <1>1, <1>2, <1>3, <1>4, <1>5 DEF Src!Next

\* Every step of a branch or of the camera keeps the invariant of the path.
LEMMA PathStep == PathInv /\ [PathNext]_pathVars => PathInv'
<1> SUFFICES ASSUME PathInv, [PathNext]_pathVars PROVE PathInv'
  OBVIOUS
<1>1. CASE Branch
  <2>1. [Next]_vars /\ UNCHANGED <<camera, sourceVars>>
    BY <1>1 DEF Branch, Next
  <2>2. BranchesInv' /\ Src!TypeOK' /\ DepayInv'
    BY <2>1, BranchesStep DEF PathInv, sourceVars, Src!TypeOK, DepayInv, Src!NeverPanics
  <2>3. TeeInv'
    <3> SUFFICES ASSUME camera = "rtsp" PROVE TeeInv'
      BY <2>1 DEF TeeInv
    <3> USE DEF PathInv, BranchesInv, TypeOK, TeeInv
    <3>0. UNCHANGED tee
      BY <2>1 DEF sourceVars
    <3>1. ASSUME NEW b \in Branches, NEW e \in Encodings \cup {NoCaps}, Reaches(e),
                 NotifyIgnored(b, e) \/ Notify(b, e)
          PROVE  TeeInv'
      BY <2>1, <3>0, <3>1 DEF Reaches, NotifyIgnored, Notify, MediaType, Src!Supported
    <3>2. ASSUME NEW b \in Branches, Change(b) PROVE TeeInv'
      BY <2>1, <3>0, <3>2
      DEF Change, ChangeSucceeds, ChangeRefused, ChangePanics, ChangeFails, Begins, Supported, NoCaps
    <3>3. ASSUME NEW b \in Branches, Resume(b) PROVE TeeInv'
      BY <2>1, <3>0, <3>3 DEF Resume
    <3> QED
      BY <1>1, <3>1, <3>2, <3>3 DEF Branch
  <2> QED
    BY <2>2, <2>3 DEF PathInv
<1>2. CASE Camera
  <2>1. Src!Next /\ UNCHANGED vars /\ UNCHANGED camera
    BY <1>2 DEF Camera
  <2>2. BranchesInv' /\ Src!TypeOK' /\ DepayInv' /\ (tee # Src!None => tee' = tee)
    BY <2>1, BranchesStep, SourceStep DEF PathInv
  <2>3. TeeInv'
    BY <2>1, <2>2 DEF PathInv, TeeInv, vars, Src!Supported, Src!None
  <2> QED
    BY <2>2, <2>3 DEF PathInv
<1>3. CASE UNCHANGED pathVars
  <2>1. UNCHANGED vars /\ UNCHANGED camera /\ UNCHANGED sourceVars
    BY <1>3 DEF pathVars
  <2> QED
    BY <2>1, BranchesStep
    DEF PathInv, sourceVars, Src!TypeOK, DepayInv, Src!NeverPanics, TeeInv, vars
<1> QED
  BY <1>1, <1>2, <1>3 DEF PathNext

\* It is an invariant: however the branches, their notifications and the pads interleave.
LEMMA PathInvariant == PathSpec => []PathInv
<1> QED
  BY PathStarts, PathStep, PTL DEF PathSpec

\* Every variable of the path has its type; so a branch puts none but elements of the
\* four kinds in the bin.
THEOREM PathTypes == PathSpec => []PathTypeOK
<1>1. PathInv => PathTypeOK
  BY DEF PathInv, BranchesInv, PathTypeOK
<1> QED
  BY <1>1, PathInvariant, PTL

\* However two branches pause and play the pipeline they share, and although either
\* change of state may fail: once both stand by, the pipeline is paused only if the last
\* attempt to play it has failed.
THEOREM NoLastPause == PathSpec => []PausedByBranch
<1>1. PathInv => PausedByBranch
  BY DEF PathInv, BranchesInv
<1> QED
  BY <1>1, PathInvariant, PTL

\* No change of encoding is missed: the branch has it, or an error was posted for it.
THEOREM ChangesReported == PathSpec => []UnhandledIsReported
<1>1. PathInv => UnhandledIsReported
  BY DEF PathInv, BranchesInv, ReportInv, UnhandledIsReported
<1> QED
  BY <1>1, PathInvariant, PTL

\* A complete branch behind a camera is never asked to change over to another encoding,
\* which HandleStreamChange does not implement; only the segmentation can be asked to,
\* and then to none.
THEOREM BranchesNeverChangeOver == PathSpec => []NoStreamChange
<1>1. PathInv => NoStreamChange
  BY DEF PathInv, BranchesInv, ChangeInv, TeeInv, NoStreamChange
<1> QED
  BY <1>1, PathInvariant, PTL

\* log.Panic of the callback of pad-added is out of reach.
THEOREM PadsNeverPanic == PathSpec => []NeverPanics
<1>1. PathInv => NeverPanics
  BY DEF PathInv, DepayInv, NeverPanics
<1> QED
  BY <1>1, PathInvariant, PTL
=============================================================================
