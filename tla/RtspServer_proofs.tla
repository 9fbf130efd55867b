-------------------------- MODULE RtspServer_proofs -------------------------
(***************************************************************************)
(* The safety of ServerHandler for any set of sessions.                    *)
(***************************************************************************)
EXTENDS RtspServer, TLAPS

\* The inductive invariant: the publisher's stream is the published one, the only
\* one open, for as long as the publisher lives.
IInv ==
  /\ TypeOK
  /\ OnlyStreamOpen /\ StreamOfPublisher /\ PublisherKeepsStream /\ OnePublisher

\* A server without sessions satisfies the invariant.
LEMMA InvInit == Init => IInv
<1> SUFFICES ASSUME Init PROVE IInv
  OBVIOUS
<1>1. opened \in SUBSET Sessions /\ closing \in SUBSET Sessions /\ crashed \in BOOLEAN
  BY Zenon DEF Init
<1>2. TypeOK
  BY <1>1 DEF Init, TypeOK, Phases
<1>3. OnlyStreamOpen /\ StreamOfPublisher /\ PublisherKeepsStream /\ OnePublisher
  BY DEF Init, OnlyStreamOpen, StreamOfPublisher, PublisherKeepsStream, OnePublisher
<1> QED
  BY <1>2, <1>3 DEF IInv

\* Every handler keeps it: OnAnnounce replaces stream and publisher together, and
\* OnSessionClose of another session than the publisher touches neither.
LEMMA InvStep == IInv /\ [Next]_vars => IInv'
<1> SUFFICES ASSUME IInv, [Next]_vars PROVE IInv'
  OBVIOUS
<1> USE NobodyAssumption
     DEF IInv, TypeOK, Phases, OnlyStreamOpen, StreamOfPublisher,
         PublisherKeepsStream, OnePublisher
<1>1. ASSUME NEW s \in Sessions, Announce(s) PROVE IInv'
  <2>1. stream' = s /\ publisher' = s /\ phase' = [phase EXCEPT ![s] = "announced"]
    BY <1>1 DEF Announce
  <2>2. opened' = {s}
    BY <1>1 DEF Announce
  <2>3. closing' \in SUBSET Sessions
    BY <1>1 DEF Announce
  <2>4. ASSUME NEW t \in Sessions, phase'[t] \in {"announced", "recording"}, t # s
        PROVE  t \in closing'
    BY <1>1, <2>1, <2>4 DEF Announce
  <2> QED
    BY <1>1, <2>1, <2>2, <2>3, <2>4 DEF Announce
<1>2. ASSUME NEW s \in Sessions, SetupCheck(s) PROVE IInv'
  BY <1>2 DEF SetupCheck
<1>3. ASSUME NEW s \in Sessions, SetupAnswer(s) PROVE IInv'
  BY <1>3 DEF SetupAnswer
<1>4. ASSUME NEW s \in Sessions, Record(s) PROVE IInv'
  BY <1>4 DEF Record
<1>5. ASSUME NEW s \in Sessions, PacketRTP(s) PROVE IInv'
  BY <1>5 DEF PacketRTP
<1>6. ASSUME NEW s \in Sessions, Leave(s) PROVE IInv'
  BY <1>6 DEF Leave
<1>7. ASSUME NEW s \in Sessions, SessionClose(s) PROVE IInv'
  <2>1. CASE stream # Nobody /\ s = publisher
    BY <1>7, <2>1 DEF SessionClose
  <2>2. CASE ~(stream # Nobody /\ s = publisher)
    BY <1>7, <2>2 DEF SessionClose
  <2> QED
    BY <2>1, <2>2
<1>8. CASE UNCHANGED vars
  BY <1>8 DEF vars
<1> QED
  BY <1>1, <1>2, <1>3, <1>4, <1>5, <1>6, <1>7, <1>8 DEF Next

\* Sessions, streams and phases keep their types.
THEOREM SessionsTyped == Spec => []TypeOK
<1>1. IInv => TypeOK
  BY DEF IInv
<1>2. QED
  BY <1>1, InvInit, InvStep, PTL DEF Spec

\* The published stream belongs to the last session that announced and is the
\* only one open, and no late OnSessionClose takes it away.
THEOREM StreamsCorrect ==
  Spec => [](OnlyStreamOpen /\ PublisherKeepsStream /\ OnePublisher)
<1>1. IInv => OnlyStreamOpen /\ PublisherKeepsStream /\ OnePublisher
  BY DEF IInv
<1>2. QED
  BY <1>1, InvInit, InvStep, PTL DEF Spec

\* A live publisher is never left without its stream.
THEOREM PublisherKeepsStreamCorrect == Spec => []PublisherKeepsStream
<1>1. QED
  BY StreamsCorrect, PTL
=============================================================================
