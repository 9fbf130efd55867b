----------------------------- MODULE RtspServer -----------------------------
(***************************************************************************)
(* ServerHandler (internal/rtsp/server.go): one published stream, relayed  *)
(* to any number of readers.  gortsplib runs the requests of a session in  *)
(* order, those of different sessions concurrently; it ends a session it   *)
(* was told to close in its own time, with OnSessionClose as the last call *)
(* of that session.  A session announces at most once, so the stream made  *)
(* for it is named after it; it sets one media up.                         *)
(***************************************************************************)
EXTENDS Naturals, FiniteSets

CONSTANTS Sessions, Nobody

ASSUME NobodyAssumption == Nobody \notin Sessions

VARIABLES
  stream,    \* sh.stream: the session whose stream is published, or Nobody
  publisher, \* sh.publisher: the last session that announced, or Nobody
  opened,    \* the streams made by NewServerStream and not closed
  phase,     \* where a session is
  closing,   \* the sessions that gortsplib is to end
  setup,     \* OnSetup of a session: before it, between its reads, its answer
  written,   \* the last packet: the session it came from, the stream it went to
  crashed    \* a packet met a nil stream: the process has panicked

vars == <<stream, publisher, opened, phase, closing, setup, written, crashed>>

Phases == {"open", "announced", "recording", "closed"}

TypeOK ==
  /\ stream \in Sessions \cup {Nobody}
  /\ publisher \in Sessions \cup {Nobody}
  /\ opened \in SUBSET Sessions
  /\ phase \in [Sessions -> Phases]
  /\ closing \in SUBSET Sessions
  /\ setup \in [Sessions -> {"no", "checked", "404", "ok", "okNil"}]
  /\ written \in (Sessions \cup {Nobody}) \X (Sessions \cup {Nobody})
  /\ crashed \in BOOLEAN

Init ==
  /\ stream = Nobody /\ publisher = Nobody /\ opened = {}
  /\ phase = [s \in Sessions |-> "open"]
  /\ closing = {}
  /\ setup = [s \in Sessions |-> "no"]
  /\ written = <<Nobody, Nobody>>
  /\ crashed = FALSE

\* Mutants of Announce: the test for a stream dropped; the replaced stream, or the
\* replaced publisher, not closed.
AnnounceClosesNobody(s) ==
  /\ ~crashed /\ phase[s] = "open" /\ setup[s] = "no" /\ s \notin closing
  /\ opened' = (opened \ {stream}) \cup {s}
  /\ closing' = closing \cup {publisher}
  /\ stream' = s /\ publisher' = s
  /\ phase' = [phase EXCEPT ![s] = "announced"]
  /\ UNCHANGED <<setup, written, crashed>>
AnnounceKeepsStream(s) ==
  /\ ~crashed /\ phase[s] = "open" /\ setup[s] = "no" /\ s \notin closing
  /\ opened' = opened \cup {s}
  /\ closing' = IF stream # Nobody THEN closing \cup {publisher} ELSE closing
  /\ stream' = s /\ publisher' = s
  /\ phase' = [phase EXCEPT ![s] = "announced"]
  /\ UNCHANGED <<setup, written, crashed>>
AnnounceKeepsPublisher(s) ==
  /\ ~crashed /\ phase[s] = "open" /\ setup[s] = "no" /\ s \notin closing
  /\ opened' = (IF stream # Nobody THEN opened \ {stream} ELSE opened) \cup {s}
  /\ stream' = s /\ publisher' = s
  /\ phase' = [phase EXCEPT ![s] = "announced"]
  /\ UNCHANGED <<closing, setup, written, crashed>>

\* OnAnnounce, under the mutex: the existing stream and publisher are closed,
\* the latter by gortsplib later on, and both are replaced.
Announce(s) ==
  /\ ~crashed /\ phase[s] = "open" /\ setup[s] = "no" /\ s \notin closing
  /\ opened' = (IF stream # Nobody THEN opened \ {stream} ELSE opened) \cup {s}
  /\ closing' = IF stream # Nobody THEN closing \cup {publisher} ELSE closing
  /\ stream' = s /\ publisher' = s
  /\ phase' = [phase EXCEPT ![s] = "announced"]
  /\ UNCHANGED <<setup, written, crashed>>

\* OnSetup, without the mutex: it reads sh.stream to see if it is nil ...
SetupCheck(s) ==
  /\ ~crashed /\ phase[s] \in {"open", "announced"} /\ setup[s] = "no" /\ s \notin closing
  /\ setup' = [setup EXCEPT ![s] = IF stream = Nobody THEN "404" ELSE "checked"]
  /\ UNCHANGED <<stream, publisher, opened, phase, closing, written, crashed>>

\* ... and again to return it.
SetupAnswer(s) ==
  /\ ~crashed /\ setup[s] = "checked"
  /\ setup' = [setup EXCEPT ![s] = IF stream = Nobody THEN "okNil" ELSE "ok"]
  /\ UNCHANGED <<stream, publisher, opened, phase, closing, written, crashed>>

\* OnRecord installs the packet callback on the session that announced.
Record(s) ==
  /\ ~crashed /\ phase[s] = "announced" /\ setup[s] = "ok" /\ s \notin closing
  /\ phase' = [phase EXCEPT ![s] = "recording"]
  /\ UNCHANGED <<stream, publisher, opened, closing, setup, written, crashed>>

\* The callback writes to whatever sh.stream is, without the mutex; packets come
\* until the session has ended.
PacketRTP(s) ==
  /\ ~crashed /\ phase[s] = "recording"
  /\ written' = <<s, stream>>
  /\ crashed' = (stream = Nobody)
  /\ UNCHANGED <<stream, publisher, opened, phase, closing, setup>>

\* The peer tears the session down, times out or disconnects.
Leave(s) ==
  /\ ~crashed /\ phase[s] # "closed" /\ s \notin closing
  /\ closing' = closing \cup {s}
  /\ UNCHANGED <<stream, publisher, opened, phase, setup, written, crashed>>

\* Mutant of SessionClose: ctx.Session is not compared with the publisher.
AnySessionClosesStream(s) ==
  /\ ~crashed /\ s \in closing /\ phase[s] # "closed" /\ setup[s] # "checked"
  /\ phase' = [phase EXCEPT ![s] = "closed"]
  /\ opened' = opened \ {stream} /\ stream' = Nobody
  /\ UNCHANGED <<publisher, closing, setup, written, crashed>>

\* gortsplib has stopped the session's connections, whatever request they were
\* in; OnSessionClose, under the mutex, closes the stream of the publisher only.
SessionClose(s) ==
  /\ ~crashed /\ s \in closing /\ phase[s] # "closed" /\ setup[s] # "checked"
  /\ phase' = [phase EXCEPT ![s] = "closed"]
  /\ IF stream # Nobody /\ s = publisher
     THEN opened' = opened \ {stream} /\ stream' = Nobody
     ELSE UNCHANGED <<opened, stream>>
  /\ UNCHANGED <<publisher, closing, setup, written, crashed>>

Next ==
  \E s \in Sessions :
    \/ Announce(s) \/ SetupCheck(s) \/ SetupAnswer(s) \/ Record(s)
    \/ PacketRTP(s) \/ Leave(s) \/ SessionClose(s)

\* gortsplib finishes the request a session is in and ends the sessions it is to.
Fairness ==
  \A s \in Sessions : WF_vars(SetupAnswer(s)) /\ WF_vars(SessionClose(s))

Spec == Init /\ [][Next]_vars
FairSpec == Spec /\ Fairness

-----------------------------------------------------------------------------
\* The only stream that is open is the published one: a replaced stream and that
\* of a publisher that left are closed, and no other.
OnlyStreamOpen == opened = IF stream = Nobody THEN {} ELSE {stream}

\* The stream and the publisher change together, so that closing one of them is
\* never done on behalf of the other's session.
StreamOfPublisher == stream # Nobody => stream = publisher

\* As long as the last session that announced has not ended, its stream is the
\* published one: the late OnSessionClose of a publisher it replaced does not
\* take it away.
PublisherKeepsStream ==
  publisher # Nobody /\ phase[publisher] # "closed" => stream = publisher

\* Every session that announced but the last one is on its way out.
OnePublisher ==
  \A s \in Sessions : phase[s] \in {"announced", "recording"} => s = publisher \/ s \in closing

\* A replaced publisher is gone in the end, unless the server has crashed.
ReplacedLeaves ==
  \A s \in Sessions :
    phase[s] \in {"announced", "recording"} /\ s # publisher
      ~> phase[s] = "closed" \/ crashed

-----------------------------------------------------------------------------
\* server.go:85 "disconnect existing publisher" : packets of a session that has
\* been replaced go nowhere.  But Close is asynchronous, and the packet callback
\* writes to the stream of the new publisher.
OnlyPublisherWrites == written[1] = written[2]
=============================================================================
