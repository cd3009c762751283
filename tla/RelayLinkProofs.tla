-------------------------- MODULE RelayLinkProofs ---------------------------
(***************************************************************************)
(* Theorems about the table of streams of the relay link, for any number   *)
(* of streams, requests and connections.                                   *)
(***************************************************************************)
EXTENDS RelayLink, TLAPS

(* Every variable keeps its type; in particular the wait before the next dial  *)
(* stays between retryMin and retryMax, however often dialling fails           *)
(* (link.go Run).                                                              *)
THEOREM TypeCorrect == Spec => []TypeOK
<1> USE RetryAssumption, MaxConnsAssumption DEF TypeOK
<1>1. Init => TypeOK
  <2>1. RetryMin \in RetryMin..RetryMax /\ 0 \in 0..MaxConns
    OBVIOUS
  <2>2. ASSUME Init
        PROVE  /\ stream \in [Streams -> {"none", "start", "open", "ending",
                                          "farewell", "end"}]
               /\ request \in [Requests -> {"none", "calling", "answer", "sending", "end"}]
               /\ via \in [Requests -> 0..MaxConns]
               /\ answers \in [Requests -> Nat]
    BY <2>1, <2>2 DEF Init
  <2>3. ASSUME Init
        PROVE  conns \in 0..MaxConns /\ backoff \in RetryMin..RetryMax
    BY <2>1, <2>3 DEF Init
  <2> QED
    BY <2>2, <2>3 DEF Init
<1>2. TypeOK /\ [Next]_vars => TypeOK'
  <2> SUFFICES ASSUME TypeOK, [Next]_vars
               PROVE  TypeOK'
    OBVIOUS
  <2>1. CASE Quit \/ ConnBreaks \/ ReadError \/ Welcome
    BY <2>1 DEF Quit, ConnBreaks, ReadError, Welcome, runVars, streamVars, requestVars
  <2>2. CASE DialOk
    <3>1. conns' \in 0..MaxConns
      BY <2>2 DEF DialOk
    <3> QED
      BY <2>2, <3>1 DEF DialOk, streamVars, requestVars
  <2>3. CASE DialFail \/ SetConnected
    BY <2>3 DEF DialFail, SetConnected, streamVars, requestVars
  <2>4. CASE CloseAllStreams \/ Lost \/ RunStops
    BY <2>4 DEF CloseAllStreams, Lost, RunStops, streamVars, requestVars
  <2>5. CASE Retry
    BY <2>5 DEF Retry, Double, streamVars, requestVars
  <2>6. ASSUME NEW s \in Streams, AskStream(s) \/ AskClose(s) \/ SourceEnds(s)
        PROVE  TypeOK'
    BY <2>6 DEF AskStream, AskClose, SourceEnds, runVars, requestVars
  <2>7. ASSUME NEW s \in Streams, StreamStep(s)
        PROVE  TypeOK'
    BY <2>7 DEF StreamStep, Register, SeeCancel, Unregister, SayDone, runVars,
                requestVars
  <2>8. ASSUME NEW r \in Requests, AskRequest(r) \/ CallReturns(r) \/ RequestStep(r)
        PROVE  TypeOK'
    <3>1. CASE AskRequest(r) \/ CallReturns(r) \/ CallTimeout(r) \/ Answer(r)
      BY <3>1 DEF AskRequest, CallReturns, CallTimeout, Answer, runVars, streamVars
    <3>2. CASE Write(r)
      <4>1. answers' \in [Requests -> Nat]
        BY <3>2 DEF Write
      <4>2. up' \in BOOLEAN
        BY <3>2, Zenon DEF Write
      <4>3. request' \in [Requests -> {"none", "calling", "answer", "sending", "end"}]
        BY <3>2 DEF Write
      <4> QED
        BY <3>2, <4>1, <4>2, <4>3 DEF Write, streamVars
    <3> QED
      BY <2>8, <3>1, <3>2 DEF RequestStep
  <2>9. CASE UNCHANGED vars
    BY <2>9 DEF vars, runVars, streamVars, requestVars
  <2> QED
    BY <2>1, <2>2, <2>3, <2>4, <2>5, <2>6, <2>7, <2>8, <2>9 DEF Next, RunStep
<1> QED
  BY <1>1, <1>2, PTL DEF Spec

(* No goroutine but a stream's own and the reading one touches its entry, and  *)
(* the reading one cancels the stream whose entry it takes.                    *)
LEMMA TableNext ==
  ASSUME TypeOK, TableMatchesStreams, [Next]_vars
  PROVE  TableMatchesStreams'
<1> USE DEF TableMatchesStreams, TypeOK
<1>1. CASE UNCHANGED <<stream, streams, cancelled>>
  BY <1>1
<1>2. CASE CloseAllStreams
  BY <1>2 DEF CloseAllStreams
<1>3. ASSUME NEW s \in Streams, AskStream(s)
      PROVE  TableMatchesStreams'
  BY <1>3 DEF AskStream
<1>4. ASSUME NEW s \in Streams, AskClose(s)
      PROVE  TableMatchesStreams'
  BY <1>4 DEF AskClose
<1>5. ASSUME NEW s \in Streams, Register(s)
      PROVE  TableMatchesStreams'
  BY <1>5 DEF Register
<1>6. ASSUME NEW s \in Streams, SourceEnds(s) \/ SeeCancel(s)
      PROVE  TableMatchesStreams'
  BY <1>6 DEF SourceEnds, SeeCancel
<1>7. ASSUME NEW s \in Streams, Unregister(s)
      PROVE  TableMatchesStreams'
  BY <1>7 DEF Unregister
<1>8. ASSUME NEW s \in Streams, SayDone(s)
      PROVE  TableMatchesStreams'
  BY <1>8 DEF SayDone
<1> HIDE DEF TableMatchesStreams, TypeOK
<1>9. CASE Quit \/ ConnBreaks \/ ReadError \/ Welcome \/ UNCHANGED vars
  BY <1>1, <1>9 DEF Quit, ConnBreaks, ReadError, Welcome, vars, streamVars
<1>10. CASE DialOk \/ DialFail \/ SetConnected \/ Lost \/ Retry \/ RunStops
  BY <1>1, <1>10 DEF DialOk, DialFail, SetConnected, Lost, Retry, RunStops,
                     streamVars
<1>11. ASSUME NEW r \in Requests, AskRequest(r) \/ CallReturns(r) \/ RequestStep(r)
       PROVE  TableMatchesStreams'
  BY <1>1, <1>11 DEF AskRequest, CallReturns, RequestStep, CallTimeout, Answer,
                     Write, streamVars
<1> QED
  BY <1>2, <1>3, <1>4, <1>5, <1>6, <1>7, <1>8, <1>9, <1>10, <1>11
     DEF Next, RunStep, StreamStep

(* Nobody leaves an entry behind, and a stream that nobody can find in the     *)
(* table any more was cancelled (link.go:236, link.go:332-336, link.go:400).   *)
THEOREM TableIsRight == Spec => []TableMatchesStreams
<1>1. Init => TableMatchesStreams
  BY DEF Init, TableMatchesStreams
<1>2. TypeOK /\ TableMatchesStreams /\ [Next]_vars => TableMatchesStreams'
  BY TableNext
<1> QED
  BY <1>1, <1>2, TypeCorrect, PTL DEF Spec
=============================================================================
