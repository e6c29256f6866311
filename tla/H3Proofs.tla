------------------------------ MODULE H3Proofs ------------------------------
(***************************************************************************)
(* Proofs about HTTP/3. About H3Exchange, for bodies and responses of any  *)
(* length and whatever the resolver answers: what finish() promises the    *)
(* peer, why an exchange may fail, and that no report of failure is lost.  *)
(* About H3Pool (P), for any requests and keys: that its lock, channels    *)
(* and connections fit together, and that it implements SingleFlight.      *)
(***************************************************************************)
EXTENDS H3Exchange, TLAPS

CONSTANTS Requests, Keys, HasIdleTimeout

VARIABLES pc, key, connecting, sent, waiter, client, conn, idle, stale

(* The pool. Its assumption, that None is not a request, is a hypothesis   *)
(* of the theorems about it.                                               *)
P == INSTANCE H3Pool

-----------------------------------------------------------------------------
(* The exchange.                                                           *)

(* Before the first address nothing has been sent.                         *)
LEMMA IInvInitially == Init => IInv
<1> SUFFICES ASSUME Init
             PROVE  IInv
  OBVIOUS
<1> USE ExchangeAssumption DEF Init
<1>1. Plain
  BY DEF Plain, ExchangeAssumption
<1>2. Written
  BY <1>1 DEF Plain, Written
<1>3. HasStream /\ Reported /\ FailureHasACause
  BY DEF HasStream, Reported, FailureHasACause, TriesEveryAddress,
     EarlyAnswerSurvives
<1>4. QED
  BY <1>1, <1>2, <1>3 DEF IInv

(* The parts that steps without the task, without the caller and without   *)
(* the peer leave alone.                                                   *)
LEMMA WrittenKept ==
    ASSUME Written, UNCHANGED <<body, sending>>
    PROVE  Written'
  BY DEF Written, sending

LEMMA PlainKept ==
    ASSUME Plain, UNCHANGED <<body, sending, stop, resp>>
    PROVE  Plain'
  BY DEF Plain, sending

(* Connecting, and opening the stream.                                     *)
LEMMA DialingPreserves ==
    IInv /\ (Connect \/ Open \/ OpenFails) => IInv'
<1> SUFFICES ASSUME IInv, Connect \/ Open \/ OpenFails
             PROVE  IInv'
  OBVIOUS
<1> USE DEF IInv, dialing, request, sending, peer
<1>1. CASE Resolve \/ DialRefused
  <2>1. UNCHANGED <<request, sending, report, seen, parked, peer, read>>
    BY <1>1 DEF Resolve, DialRefused
  <2>2. Plain' /\ Written'
    BY <2>1, PlainKept, WrittenKept
  <2>3. HasStream' /\ Reported' /\ FailureHasACause'
    BY <1>1, <2>1
    DEF Resolve, DialRefused, HasStream, Reported, FailureHasACause,
        TriesEveryAddress, EarlyAnswerSurvives
  <2>4. QED
    BY <2>2, <2>3
<1>2. CASE DialSucceeds \/ BuildFails \/ DialExhausted \/ OpenFails
  <2>1. Plain' /\ Written'
    BY <1>2, PlainKept, WrittenKept
    DEF DialSucceeds, BuildFails, DialExhausted, OpenFails
  <2>2. HasStream' /\ Reported' /\ FailureHasACause'
    BY <1>2
    DEF DialSucceeds, BuildFails, DialExhausted, OpenFails, HasStream,
        Reported, FailureHasACause, TriesEveryAddress, EarlyAnswerSurvives
  <2>3. QED
    BY <2>1, <2>2
<1>3. CASE Open
  <2>1. task = "none" /\ task' = "reading" /\ stream' = "open"
    BY <1>3 DEF Open, HasStream
  <2>2. UNCHANGED <<body, taken, got, stop, resp, report, seen, up>>
    BY <1>3 DEF Open
  <2>3. Plain'
    BY <2>1, <2>2 DEF Plain
  <2>4. Written'
    BY <2>1, <2>2 DEF Written
  <2>5. HasStream' /\ Reported' /\ FailureHasACause'
    BY <1>3, <2>1, <2>2
    DEF Open, HeadLength, HasStream, Reported, FailureHasACause,
        TriesEveryAddress, EarlyAnswerSurvives
  <2>6. QED
    BY <2>3, <2>4, <2>5
<1>4. QED
  BY <1>1, <1>2, <1>3 DEF Connect

(* The task takes the frames in order, and writes each once.               *)
LEMMA FramesInOrder ==
    ASSUME IInv, TakeFrame \/ SendData
    PROVE  Plain' /\ Written'
<1> USE DEF IInv, dialing, request, sending, peer
<1>1. body.data \in Nat /\ taken \in Nat /\ Len(got) \in Nat
  BY DEF Plain
<1>2. CASE TakeFrame
  <2>1. taken' = taken + 1 /\ got' = got /\ body' = body
        /\ task' = (IF taken < body.data THEN "sending" ELSE "reading")
        /\ UNCHANGED <<stream, stop, resp>> /\ task = "reading"
    BY <1>2 DEF TakeFrame
  <2>2. Plain'
    BY <1>1, <2>1 DEF Plain
  <2>3. Written'
    <3>1. CASE taken < body.data
      <4>1. Len(got) = taken /\ task' = "sending"
        BY <2>1, <3>1 DEF Written
      <4>2. taken + 1 \in 1..body.data /\ Len(got) = (taken + 1) - 1
        BY <1>1, <3>1, <4>1
      <4>3. QED
        BY <2>1, <4>1, <4>2 DEF Written
    <3>2. CASE ~(taken < body.data)
      <4>1. Len(got) = body.data /\ task' = "reading"
        BY <2>1, <3>2 DEF Written
      <4>2. ~(taken + 1 < body.data)
        BY <1>1, <3>2
      <4>3. QED
        BY <2>1, <4>1, <4>2 DEF Written
    <3>3. QED
      BY <3>1, <3>2
  <2>4. QED
    BY <2>2, <2>3
<1>3. CASE SendData
  <2>1. got' = Append(got, taken) /\ task' = "reading" /\ task = "sending"
        /\ UNCHANGED <<body, taken, stream, stop, resp>>
    BY <1>3 DEF SendData
  <2>2. taken \in 1..body.data /\ Len(got) = taken - 1 /\ got \in Seq(Nat)
    BY <2>1 DEF Plain, Written
  <2>3. got' \in Seq(Nat) /\ Len(got') = taken
    BY <1>1, <2>1, <2>2
  <2>4. \A i \in 1..Len(got') : got'[i] = i
    BY <1>1, <2>1, <2>2, <2>3 DEF Written
  <2>5. Plain'
    BY <2>1, <2>3 DEF Plain
  <2>6. Len(got') = IF taken < body.data THEN taken ELSE body.data
    BY <1>1, <2>2, <2>3
  <2>7. Len(got') <= body.data /\ stream # "finished"
    BY <1>1, <2>1, <2>2, <2>3 DEF Written
  <2>8. Written'
    BY <2>1, <2>4, <2>6, <2>7 DEF Written
  <2>9. QED
    BY <2>5, <2>8
<1>4. QED
  BY <1>2, <1>3

(* The spawned task.                                                       *)
LEMMA TaskPreserves == IInv /\ Task => IInv'
<1> SUFFICES ASSUME IInv, Task
             PROVE  IInv'
  OBVIOUS
<1> USE DEF IInv, dialing, request, sending, peer
<1>1. CASE TakeFrame \/ SendData
  <2>1. Plain' /\ Written'
    BY <1>1, FramesInOrder
  <2>2. HasStream' /\ Reported' /\ FailureHasACause'
    BY <1>1
    DEF TakeFrame, SendData, HasStream, Reported, FailureHasACause,
        TriesEveryAddress, EarlyAnswerSurvives
  <2>3. QED
    BY <2>1, <2>2
<1>2. CASE BodyEnds
  <2>1. Plain' /\ Written'
    <3>1. task = "reading" /\ taken = Frames /\ task' = "finishing"
          /\ body.ends = "end"
          /\ UNCHANGED <<body, taken, got, stream, stop, resp>>
      BY <1>2 DEF BodyEnds
    <3>2. body.data \in Nat /\ ~(taken < body.data)
      BY <3>1 DEF Frames, Plain
    <3>3. Len(got) = body.data /\ stream # "finished"
      BY <3>1, <3>2 DEF Written
    <3>4. QED
      BY <3>1, <3>3 DEF Plain, Written
  <2>2. HasStream' /\ Reported' /\ FailureHasACause'
    BY <1>2
    DEF BodyEnds, HasStream, Reported, FailureHasACause, TriesEveryAddress,
        EarlyAnswerSurvives
  <2>3. QED
    BY <2>1, <2>2
<1>3. ASSUME NEW what \in {"ok", "error", "closed"},
             NEW left \in {"finished", "left"},
             Ends(what, left), task \notin {"none", "over"},
             left = "finished" => task = "finishing",
             what = "error" => \/ body.ends = "error" \/ stop = "error"
                               \/ ~up
      PROVE  IInv'
  <2>1. /\ task' = "over" /\ report' = what /\ stream' = left
        /\ UNCHANGED <<body, taken, got, stop, resp, caller, seen, up, dial,
                       length>>
    BY <1>3 DEF Ends
  <2>2. Plain'
    BY <2>1 DEF Plain
  <2>3. Written'
    BY <1>3, <2>1 DEF Written
  <2>4. ~seen /\ stream # "none"
    BY <1>3 DEF Reported, HasStream
  <2>5. HasStream' /\ Reported' /\ FailureHasACause'
    BY <1>3, <2>1, <2>4
    DEF HasStream, Reported, FailureHasACause, TriesEveryAddress,
        EarlyAnswerSurvives
  <2>6. QED
    BY <2>2, <2>3, <2>5
<1>4. CASE SendFails \/ FinishFails
  <2>1. Verdict \in {"ok", "error"}
    BY DEF Verdict
  <2>2. Verdict = "error" => stop = "error" \/ ~up
    BY <1>4 DEF SendFails, FinishFails, Verdict, Plain
  <2>3. Ends(Verdict, "left") /\ task \in {"sending", "finishing"}
    BY <1>4 DEF SendFails, FinishFails
  <2>4. QED
    BY <1>3, <2>1, <2>2, <2>3
<1>5. CASE BodyFails
  BY <1>3, <1>5 DEF BodyFails
<1>6. CASE BodyPanics
  BY <1>3, <1>6 DEF BodyPanics
<1>7. CASE Finish
  BY <1>3, <1>7 DEF Finish
<1>8. QED
  BY <1>1, <1>2, <1>4, <1>5, <1>6, <1>7 DEF Task

(* The caller, before and after the head of the response.                  *)
LEMMA CallerPreserves == IInv /\ (Select \/ PollFrame \/ Drop) => IInv'
<1> SUFFICES ASSUME IInv, Select \/ PollFrame \/ Drop
             PROVE  IInv'
  OBVIOUS
<1> USE DEF IInv, dialing, request, sending, peer
<1>1. UNCHANGED <<body, sending, stop, resp>>
  BY DEF Select, SelectSeesReport, SelectSeesHead, SelectSeesFailure,
     PollFrame, Drop
<1>2. Plain' /\ Written'
  BY <1>1, PlainKept, WrittenKept
<1>3. CASE SelectSeesReport
  BY <1>2, <1>3
  DEF SelectSeesReport, HasStream, Reported, FailureHasACause,
      TriesEveryAddress, EarlyAnswerSurvives
<1>4. CASE SelectSeesHead \/ SelectSeesFailure
  BY <1>2, <1>4
  DEF SelectSeesHead, SelectSeesFailure, Broken, HasStream, Reported,
      FailureHasACause, TriesEveryAddress, EarlyAnswerSurvives
<1>5. CASE PollFrame
  <2>1. /\ caller = "reading" /\ stream # "none"
        /\ seen' = (seen \/ report # "empty")
        /\ UNCHANGED <<dial, length, task, stream, report, up>>
    BY <1>5 DEF PollFrame, HasStream
  <2>2. CASE report = "error" /\ ~seen
    <3>1. caller' = "failed"
      BY <1>5, <2>2 DEF PollFrame
    <3>2. QED
      BY <1>1, <1>2, <2>1, <2>2, <3>1
      DEF HasStream, Reported, FailureHasACause, TriesEveryAddress,
          EarlyAnswerSurvives
  <2>3. CASE ~(report = "error" /\ ~seen)
    <3>1. report # "error"
      BY <2>1, <2>3 DEF Reported
    <3>2. caller' \in {"reading", "complete"} \/ (caller' = "failed" /\ Broken)
      BY <1>5, <2>1, <2>3 DEF PollFrame, PollRecv
    <3>3. QED
      BY <1>1, <1>2, <2>1, <3>1, <3>2
      DEF Broken, HasStream, Reported, FailureHasACause, TriesEveryAddress,
          EarlyAnswerSurvives
  <2>4. QED
    BY <2>2, <2>3
<1>6. CASE Drop
  BY <1>2, <1>6
  DEF Drop, HasStream, Reported, FailureHasACause, TriesEveryAddress,
      EarlyAnswerSurvives
<1>7. QED
  BY <1>3, <1>4, <1>5, <1>6 DEF Select

(* The peer and the connection.                                            *)
LEMMA PeerPreserves == IInv /\ Peer => IInv'
<1> SUFFICES ASSUME IInv, Peer
             PROVE  IInv'
  OBVIOUS
<1> USE DEF IInv, dialing, request, sending, peer
<1>1. UNCHANGED <<body, sending, dial, length, caller, report, seen>>
  BY DEF Peer, PeerAnswers, PeerSendsChunk, PeerEnds, PeerResets,
     ConnectionLost, PeerStops, Arrives
<1>2. Written'
  BY <1>1, WrittenKept
<1>3. Plain' /\ (resp.end = "reset" => resp'.end = "reset")
  <2>1. ASSUME NEW r \in [head : BOOLEAN, chunks : 0..MaxChunks,
                          end : {"open", "end", "reset"}],
               Arrives(r), resp.end = "open"
        PROVE  Plain' /\ resp.end # "reset"
    BY <1>1, <2>1 DEF Arrives, Plain
  <2>2. CASE PeerAnswers
    <3>1. [resp EXCEPT !.head = TRUE] \in
              [head : BOOLEAN, chunks : 0..MaxChunks,
               end : {"open", "end", "reset"}]
      BY DEF Plain
    <3>2. QED
      BY <2>1, <2>2, <3>1 DEF PeerAnswers
  <2>3. CASE PeerSendsChunk
    <3>1. resp.chunks \in 0..MaxChunks /\ resp.chunks < MaxChunks
      BY <2>3 DEF Plain, PeerSendsChunk
    <3>2. resp.chunks + 1 \in 0..MaxChunks
      BY <3>1, ExchangeAssumption DEF ExchangeAssumption
    <3>3. [resp EXCEPT !.chunks = @ + 1] \in
              [head : BOOLEAN, chunks : 0..MaxChunks,
               end : {"open", "end", "reset"}]
      BY <3>2 DEF Plain
    <3>4. QED
      BY <2>1, <2>3, <3>3 DEF PeerSendsChunk
  <2>4. CASE PeerEnds \/ PeerResets
    <3>1. \A e \in {"end", "reset"} : [resp EXCEPT !.end = e] \in
              [head : BOOLEAN, chunks : 0..MaxChunks,
               end : {"open", "end", "reset"}]
      BY DEF Plain
    <3>2. QED
      BY <2>1, <2>4, <3>1 DEF PeerEnds, PeerResets
  <2>5. CASE ConnectionLost \/ PeerStops
    BY <1>1, <2>5 DEF ConnectionLost, PeerStops, Plain
  <2>6. QED
    BY <2>2, <2>3, <2>4, <2>5 DEF Peer
<1>4. (~up => ~up') /\ (stop = "error" => stop' = "error")
  BY DEF Peer, PeerAnswers, PeerSendsChunk, PeerEnds, PeerResets,
     ConnectionLost, PeerStops, Arrives
<1>5. HasStream' /\ Reported' /\ FailureHasACause'
  <2>1. up' => up
    BY <1>4
  <2>2. UNCHANGED <<task, stream>>
    BY <1>1
  <2>3. QED
    BY <1>1, <1>3, <1>4, <2>1, <2>2
    DEF HasStream, Reported, FailureHasACause, TriesEveryAddress,
        EarlyAnswerSurvives
<1>6. QED
  BY <1>2, <1>3, <1>5

(* The inductive invariant of an exchange.                                 *)
THEOREM ExchangeInvariant == Spec => []IInv
<1>1. IInv /\ [Next]_vars => IInv'
  <2>1. IInv /\ UNCHANGED vars => IInv'
    BY DEF vars, IInv, Plain, Written, HasStream, Reported,
       FailureHasACause, TriesEveryAddress, EarlyAnswerSurvives
  <2>2. QED
    BY <2>1, DialingPreserves, TaskPreserves, CallerPreserves, PeerPreserves
    DEF Next
<1>2. QED
  BY IInvInitially, <1>1, PTL DEF Spec

(* A finished stream carries every frame of a body that ended well, in     *)
(* order, and as many as a length the client announced itself.             *)
THEOREM WholeWhenFinished == Spec => []FinishedIsWhole
<1>1. IInv => FinishedIsWhole
  <2> SUFFICES ASSUME IInv
               PROVE  FinishedIsWhole
    OBVIOUS
  <2>1. /\ body.data \in Nat /\ got \in Seq(Nat)
        /\ Len(got) \in Nat /\ Len(got) <= body.data
        /\ \A i \in 1..Len(got) : got[i] = i
    BY DEF IInv, Plain, Written
  <2>2. Data \in Seq(Nat) /\ Len(Data) = body.data
        /\ \A i \in 1..body.data : Data[i] = i
    BY <2>1 DEF Data
  <2>3. IsPrefix(got, Data)
    <3>1. SubSeq(got, 1, Len(got)) = [i \in 1..Len(got) |-> got[i]]
      BY <2>1
    <3>2. SubSeq(Data, 1, Len(got)) = [i \in 1..Len(got) |-> Data[i]]
      BY <2>1, <2>2
    <3>3. \A i \in 1..Len(got) : got[i] = Data[i]
      BY <2>1, <2>2
    <3>4. QED
      BY <2>1, <2>2, <3>1, <3>2, <3>3 DEF IsPrefix
  <2>4. ASSUME stream = "finished"
        PROVE  /\ got = Data /\ body.ends = "end"
               /\ body.exact /\ body.data > 0 => length = Len(got)
    <3>1. Len(got) = body.data /\ body.ends = "end"
      BY <2>4 DEF IInv, Written
    <3>2. got = Data
      BY <2>1, <2>2, <3>1 DEF Data
    <3>3. QED
      BY <2>4, <3>1, <3>2 DEF IInv, HasStream
  <2>5. QED
    BY <2>3, <2>4 DEF FinishedIsWhole
<1>2. QED
  BY <1>1, ExchangeInvariant, PTL

(* An exchange that got a stream fails only of its body, of an error of    *)
(* the peer's or of the connection; one that got none, of every address.   *)
THEOREM FailuresHaveCauses == Spec => []FailureHasACause
<1>1. IInv => FailureHasACause
  BY DEF IInv
<1>2. QED
  BY <1>1, ExchangeInvariant, PTL

(* Whoever takes an error out of the receiver fails, and no response is    *)
(* read to its end over a report of failure.                               *)
THEOREM ReportsAreHeard == Spec => ReportIsHeard
<1>1. IInv /\ [Next]_vars =>
          [/\ (report = "error" /\ seen' /\ ~seen) => caller' = "failed"
           /\ (caller' = "complete" /\ caller # "complete") =>
                  report # "error"]_vars
  <2> SUFFICES ASSUME IInv, Next
               PROVE  /\ (report = "error" /\ seen' /\ ~seen) =>
                             caller' = "failed"
                      /\ (caller' = "complete" /\ caller # "complete") =>
                             report # "error"
    OBVIOUS
  <2> USE DEF dialing, request, sending, peer
  <2>1. CASE SelectSeesReport
    BY <2>1 DEF SelectSeesReport
  <2>2. CASE PollFrame
    BY <2>2 DEF PollFrame, PollRecv, IInv, Reported
  <2>3. CASE Connect \/ Open \/ OpenFails \/ SelectSeesHead
             \/ SelectSeesFailure \/ Drop
    BY <2>3 DEF Connect, Resolve, DialSucceeds, BuildFails, DialRefused,
       DialExhausted, Open, OpenFails, SelectSeesHead, SelectSeesFailure, Drop
  <2>4. CASE Task
    BY <2>4 DEF Task, TakeFrame, SendData, SendFails, BodyFails, BodyPanics,
       BodyEnds, Finish, FinishFails, Ends
  <2>5. CASE Peer
    BY <2>5 DEF Peer, PeerAnswers, PeerSendsChunk, PeerEnds, PeerResets,
       ConnectionLost, PeerStops, Arrives
  <2>6. QED
    BY <2>1, <2>2, <2>3, <2>4, <2>5 DEF Next, Select
<1>2. QED
  BY <1>1, ExchangeInvariant, PTL DEF Spec, ReportIsHeard

-----------------------------------------------------------------------------
(* The pool.                                                               *)

(* Initially nobody has anything.                                          *)
LEMMA PoolInitially ==
  ASSUME None \notin Requests
  PROVE  P!Init => P!IInv
  BY DEF P!Init, P!IInv, P!TypeOK, P!PCs, P!Settled, P!ConnStates, P!Leading,
       P!LockIsHeld, P!NeverPanics, P!HoldingsByPc, P!SentIsOwn,
       P!PooledUnderOwnKey, P!WaitedForLed, P!ClientIsForKey, P!FailureIsShared

(* What new_connection does for a request that holds the lock.             *)
LEMMA NewConnectionPools ==
  ASSUME NEW r \in Requests, None \notin Requests, key[r] \in Keys,
         P!NewConnection(r), P!LockIsHeld
  PROVE  /\ pc[r] = "connected" /\ connecting[key[r]] = r
         /\ pc' = [pc EXCEPT ![r] = "sending"]
         /\ connecting' = [connecting EXCEPT ![key[r]] = None]
         /\ sent' = [sent EXCEPT ![r] = r]
         /\ idle' = [idle EXCEPT ![key[r]] = r]
         /\ stale' = [stale EXCEPT ![key[r]] = FALSE]
         /\ client' = [client EXCEPT ![r] = r]
         /\ UNCHANGED <<key, waiter, conn>>
<1>1. pc[r] = "connected"
  BY DEF P!NewConnection
<1>2. connecting[key[r]] = r /\ r # None
  BY <1>1 DEF P!LockIsHeld, P!Leading
<1>3. QED
  BY <1>1, <1>2 DEF P!NewConnection

(* Every step of a request, of a driver and of the clock preserves the     *)
(* inductive invariant.                                                    *)
LEMMA PoolPreserved ==
  ASSUME None \notin Requests
  PROVE  P!IInv /\ [P!Next]_(P!vars) => P!IInv'
<1> SUFFICES ASSUME P!IInv, [P!Next]_(P!vars)
             PROVE  P!IInv'
  OBVIOUS
<1> USE DEF P!IInv, P!TypeOK, P!PCs, P!Settled, P!ConnStates, P!Leading
<1>1. ASSUME NEW r \in Requests, P!Request(r) PROVE P!IInv'
  BY <1>1 DEF P!Request, P!LockIsHeld, P!NeverPanics, P!HoldingsByPc,
       P!SentIsOwn, P!PooledUnderOwnKey, P!WaitedForLed, P!ClientIsForKey,
       P!FailureIsShared
<1>2. ASSUME NEW r \in Requests, P!TryPoolHit(r) PROVE P!IInv'
  BY <1>2 DEF P!TryPoolHit, P!LockIsHeld, P!NeverPanics, P!HoldingsByPc,
       P!SentIsOwn, P!PooledUnderOwnKey, P!WaitedForLed, P!ClientIsForKey,
       P!FailureIsShared
<1>3. ASSUME NEW r \in Requests, P!TryPoolMiss(r) PROVE P!IInv'
  BY <1>3 DEF P!TryPoolMiss, P!LockIsHeld, P!NeverPanics, P!HoldingsByPc,
       P!SentIsOwn, P!PooledUnderOwnKey, P!WaitedForLed, P!ClientIsForKey,
       P!FailureIsShared
<1>4. ASSUME NEW r \in Requests, P!Subscribe(r) PROVE P!IInv'
  <2>1. /\ connecting[key[r]] \in Requests
        /\ P!Leading(connecting[key[r]])
        /\ key[connecting[key[r]]] = key[r]
    BY <1>4 DEF P!Subscribe, P!LockIsHeld
  <2>2. P!WaitedForLed'
    BY <1>4, <2>1 DEF P!Subscribe, P!HoldingsByPc, P!WaitedForLed
  <2>3. QED
    BY <1>4, <2>1, <2>2 DEF P!Subscribe, P!LockIsHeld, P!NeverPanics,
         P!HoldingsByPc, P!SentIsOwn, P!PooledUnderOwnKey, P!ClientIsForKey,
         P!FailureIsShared
<1>5. ASSUME NEW r \in Requests, P!Acquire(r) PROVE P!IInv'
  <2>1. \A q \in Requests : P!Leading(q) => key[q] # key[r]
    BY <1>5 DEF P!Acquire, P!LockIsHeld
  <2>2. P!LockIsHeld'
    BY <1>5, <2>1 DEF P!Acquire, P!LockIsHeld
  <2>3. QED
    BY <1>5, <2>2 DEF P!Acquire, P!NeverPanics, P!HoldingsByPc, P!SentIsOwn,
         P!PooledUnderOwnKey, P!WaitedForLed, P!ClientIsForKey,
         P!FailureIsShared
<1>6. ASSUME NEW r \in Requests, P!WaiterReceives(r) PROVE P!IInv'
  <2>1. /\ waiter[r] \in Requests
        /\ key[waiter[r]] = key[r]
        /\ sent[waiter[r]] = waiter[r]
        /\ conn[waiter[r]] # "none"
    BY <1>6 DEF P!WaiterReceives, P!HoldingsByPc, P!SentIsOwn, P!WaitedForLed
  <2>2. P!ClientIsForKey'
    BY <1>6, <2>1 DEF P!WaiterReceives, P!ClientIsForKey
  <2>3. QED
    BY <1>6, <2>1, <2>2 DEF P!WaiterReceives, P!LockIsHeld, P!NeverPanics,
         P!HoldingsByPc, P!SentIsOwn, P!PooledUnderOwnKey, P!WaitedForLed,
         P!FailureIsShared
<1>7. ASSUME NEW r \in Requests, P!WaiterFails(r) PROVE P!IInv'
  <2>1. waiter[r] \in Requests /\ ~P!Leading(waiter[r])
    BY <1>7 DEF P!WaiterFails, P!SenderDropped, P!HoldingsByPc, P!LockIsHeld
  <2>2. /\ pc[waiter[r]] \in {"failed", "cancelled"}
        /\ conn[waiter[r]] = "none"
    BY <1>7, <2>1 DEF P!WaiterFails, P!HoldingsByPc, P!WaitedForLed
  <2>3. P!FailureIsShared'
    BY <1>7, <2>2 DEF P!WaiterFails, P!FailureIsShared
  <2>4. QED
    BY <1>7, <2>3 DEF P!WaiterFails, P!LockIsHeld, P!NeverPanics,
         P!HoldingsByPc, P!SentIsOwn, P!PooledUnderOwnKey, P!WaitedForLed,
         P!ClientIsForKey
<1>8. ASSUME NEW r \in Requests, P!ConnectFails(r) PROVE P!IInv'
  <2>1. P!LockIsHeld'
    BY <1>8 DEF P!ConnectFails, P!DropLock, P!LockIsHeld
  <2>2. P!WaitedForLed'
    BY <1>8 DEF P!ConnectFails, P!HoldingsByPc, P!WaitedForLed
  <2>3. P!TypeOK'
    BY <1>8 DEF P!ConnectFails, P!DropLock
  <2>4. QED
    BY <1>8, <2>1, <2>2, <2>3 DEF P!ConnectFails, P!NeverPanics,
         P!HoldingsByPc, P!SentIsOwn, P!PooledUnderOwnKey, P!ClientIsForKey,
         P!FailureIsShared
<1>9. ASSUME NEW r \in Requests, P!Connects(r) PROVE P!IInv'
  BY <1>9 DEF P!Connects, P!LockIsHeld, P!NeverPanics, P!HoldingsByPc,
       P!SentIsOwn, P!PooledUnderOwnKey, P!WaitedForLed, P!ClientIsForKey,
       P!FailureIsShared
<1>10. ASSUME NEW r \in Requests, P!NewConnection(r) PROVE P!IInv'
  <2>1. /\ pc[r] = "connected" /\ connecting[key[r]] = r
        /\ pc' = [pc EXCEPT ![r] = "sending"]
        /\ connecting' = [connecting EXCEPT ![key[r]] = None]
        /\ sent' = [sent EXCEPT ![r] = r]
        /\ idle' = [idle EXCEPT ![key[r]] = r]
        /\ stale' = [stale EXCEPT ![key[r]] = FALSE]
        /\ client' = [client EXCEPT ![r] = r]
        /\ UNCHANGED <<key, waiter, conn>>
    BY <1>10, NewConnectionPools
  <2>2. P!LockIsHeld'
    BY <2>1 DEF P!LockIsHeld
  <2>3. P!SentIsOwn'
    BY <2>1 DEF P!SentIsOwn, P!HoldingsByPc
  <2>4. P!WaitedForLed'
    BY <2>1 DEF P!WaitedForLed
  <2>5. P!PooledUnderOwnKey'
    BY <2>1 DEF P!PooledUnderOwnKey, P!HoldingsByPc
  <2>6. QED
    BY <2>1, <2>2, <2>3, <2>4, <2>5
    DEF P!NeverPanics, P!HoldingsByPc, P!ClientIsForKey, P!FailureIsShared
<1>11. ASSUME NEW r \in Requests, P!Responds(r) PROVE P!IInv'
  BY <1>11 DEF P!Responds, P!LockIsHeld, P!NeverPanics, P!HoldingsByPc,
       P!SentIsOwn, P!PooledUnderOwnKey, P!WaitedForLed, P!ClientIsForKey,
       P!FailureIsShared
<1>12. ASSUME NEW r \in Requests, P!SendFails(r) PROVE P!IInv'
  BY <1>12 DEF P!SendFails, P!LockIsHeld, P!NeverPanics, P!HoldingsByPc,
       P!SentIsOwn, P!PooledUnderOwnKey, P!WaitedForLed, P!ClientIsForKey,
       P!FailureIsShared
<1>13. ASSUME NEW r \in Requests, P!Cancel(r) PROVE P!IInv'
  <2>1. P!LockIsHeld'
    BY <1>13 DEF P!Cancel, P!DropLock, P!LockIsHeld
  <2>2. P!WaitedForLed'
    BY <1>13 DEF P!Cancel, P!HoldingsByPc, P!WaitedForLed
  <2>3. QED
    BY <1>13, <2>1, <2>2 DEF P!Cancel, P!DropLock, P!NeverPanics,
         P!HoldingsByPc, P!SentIsOwn, P!PooledUnderOwnKey, P!ClientIsForKey,
         P!FailureIsShared
<1>14. ASSUME NEW c \in Requests, P!Driver(c) PROVE P!IInv'
  BY <1>14 DEF P!Driver, P!Closes, P!DriverReports, P!DriverLost, P!LockIsHeld,
       P!NeverPanics, P!HoldingsByPc, P!SentIsOwn, P!PooledUnderOwnKey,
       P!WaitedForLed, P!ClientIsForKey, P!FailureIsShared
<1>15. ASSUME NEW k \in Keys, P!Expire(k) PROVE P!IInv'
  BY <1>15 DEF P!Expire, P!LockIsHeld, P!NeverPanics, P!HoldingsByPc,
       P!SentIsOwn, P!PooledUnderOwnKey, P!WaitedForLed, P!ClientIsForKey,
       P!FailureIsShared
<1>16. CASE UNCHANGED P!vars
  BY <1>16 DEF P!vars, P!LockIsHeld, P!NeverPanics, P!HoldingsByPc,
       P!SentIsOwn, P!PooledUnderOwnKey, P!WaitedForLed, P!ClientIsForKey,
       P!FailureIsShared
<1>17. QED
  BY <1>1, <1>2, <1>3, <1>4, <1>5, <1>6, <1>7, <1>8, <1>9, <1>10, <1>11,
     <1>12, <1>13, <1>14, <1>15, <1>16 DEF P!Next, P!Poll, P!Quiescent

(* The inductive invariant holds throughout.                               *)
THEOREM PoolInvariant ==
  ASSUME None \notin Requests
  PROVE  P!Spec => []P!IInv
<1>1. P!Init => P!IInv
  BY PoolInitially
<1>2. P!IInv /\ [P!Next]_(P!vars) => P!IInv'
  BY PoolPreserved
<1>3. QED
  BY <1>1, <1>2, PTL DEF P!Spec

(* The pool's maps, its channels and its requests keep their types.        *)
THEOREM PoolTypes ==
  ASSUME None \notin Requests
  PROVE  P!Spec => []P!TypeOK
<1>1. P!IInv => P!TypeOK
  BY DEF P!IInv
<1>2. QED
  BY <1>1, PoolInvariant, PTL

(* The connecting map holds a sender for a key exactly while one request   *)
(* holds that key's ConnectingLock: one attempt per key at a time.         *)
THEOREM LockSafety ==
  ASSUME None \notin Requests
  PROVE  P!Spec => []P!LockIsHeld
<1>1. P!IInv => P!LockIsHeld
  BY DEF P!IInv
<1>2. QED
  BY <1>1, PoolInvariant, PTL

(* The unreachable!() of Pool::new_connection is unreachable.              *)
THEOREM PanicFreedom ==
  ASSUME None \notin Requests
  PROVE  P!Spec => []P!NeverPanics
<1>1. P!IInv => P!NeverPanics
  BY DEF P!IInv
<1>2. QED
  BY <1>1, PoolInvariant, PTL

(* Nobody waits on a channel whose sender is kept by nobody who connects.  *)
THEOREM WaitersHaveALeader ==
  ASSUME None \notin Requests
  PROVE  P!Spec => []P!NoStrandedWaiter
<1>1. P!IInv => P!NoStrandedWaiter
  BY DEF P!IInv, P!TypeOK, P!NoStrandedWaiter, P!SenderDropped, P!LockIsHeld,
       P!HoldingsByPc, P!WaitedForLed
<1>2. QED
  BY <1>1, PoolInvariant, PTL

(* A request only uses an established connection to its own key.           *)
THEOREM ClientsMatchKeys ==
  ASSUME None \notin Requests
  PROVE  P!Spec => []P!ClientIsForKey
<1>1. P!IInv => P!ClientIsForKey
  BY DEF P!IInv
<1>2. QED
  BY <1>1, PoolInvariant, PTL

(* A waiter fails only with an attempt that made no connection.            *)
THEOREM FailuresAreShared ==
  ASSUME None \notin Requests
  PROVE  P!Spec => []P!FailureIsShared
<1>1. P!IInv => P!FailureIsShared
  BY DEF P!IInv
<1>2. QED
  BY <1>1, PoolInvariant, PTL

-----------------------------------------------------------------------------
(* Action properties.                                                      *)

(* try_pool hands out no connection whose driver has reported or is gone.  *)
THEOREM NoClosedHandOut ==
  ASSUME None \notin Requests
  PROVE  P!Spec => P!ClosedOnlyFromAttempt
<1> DEFINE Handed(r) == pc[r] = "start" /\ client'[r] # None
<1>1. P!IInv /\ [P!Next]_(P!vars) =>
        [\A r \in Requests : Handed(r) =>
            conn[client'[r]] \notin {"reported", "lost"}]_(P!vars)
  <2> SUFFICES ASSUME P!IInv, P!Next, NEW r \in Requests, Handed(r)
               PROVE  conn[client'[r]] \notin {"reported", "lost"}
    OBVIOUS
  <2>1. client[r] = None
    BY DEF P!IInv, P!HoldingsByPc
  <2>2. CASE P!TryPoolHit(r)
    BY <2>2 DEF P!TryPoolHit, P!IsInvalid, P!IInv, P!TypeOK
  <2>3. CASE ~P!TryPoolHit(r)
    BY <2>1, <2>3 DEF P!Next, P!Poll, P!Driver, P!Quiescent, P!Request,
         P!TryPoolHit, P!TryPoolMiss, P!Subscribe, P!Acquire, P!WaiterReceives,
         P!WaiterFails, P!ConnectFails, P!Connects, P!NewConnection,
         P!Responds, P!SendFails, P!Cancel, P!Closes, P!DriverReports,
         P!DriverLost, P!Expire, P!vars, P!IInv, P!TypeOK
  <2>4. QED
    BY <2>2, <2>3
<1>2. QED
  BY <1>1, PoolInvariant, PTL DEF P!Spec, P!ClosedOnlyFromAttempt

(* With a usable connection pooled and nobody past try_pool for its key,   *)
(* no attempt to that key begins and the connection stays pooled.          *)
THEOREM StableReuse ==
  ASSUME None \notin Requests
  PROVE  P!Spec => P!ReuseIsStable
<1> DEFINE Stays(k) == P!Usable(k) /\ ~P!Racing(k)
                         => ~P!Racing(k)' /\ idle'[k] = idle[k]
<1>1. P!IInv /\ [P!Next]_(P!vars) => [\A k \in Keys : Stays(k)]_(P!vars)
  <2> SUFFICES ASSUME P!IInv, P!Next, NEW k \in Keys, P!Usable(k), ~P!Racing(k)
               PROVE  ~P!Racing(k)' /\ idle'[k] = idle[k]
    OBVIOUS
  <2> USE DEF P!IInv, P!TypeOK, P!PCs, P!Settled, P!Usable, P!Racing
  <2>1. ASSUME NEW r \in Requests, P!TryPoolMiss(r) PROVE key[r] # k
    BY <2>1 DEF P!TryPoolMiss
  <2>2. ASSUME NEW r \in Requests, P!NewConnection(r) PROVE key[r] # k
    BY <2>2 DEF P!NewConnection
  <2>3. ASSUME NEW r \in Requests, P!Request(r) \/ P!Poll(r) \/ P!Cancel(r)
        PROVE  ~P!Racing(k)' /\ idle'[k] = idle[k]
    BY <2>1, <2>2, <2>3 DEF P!Poll, P!Request, P!TryPoolHit, P!TryPoolMiss,
         P!Subscribe, P!Acquire, P!WaiterReceives, P!WaiterFails,
         P!ConnectFails, P!Connects, P!NewConnection, P!Responds, P!SendFails,
         P!Cancel
  <2>4. QED
    BY <2>3 DEF P!Next, P!Driver, P!Closes, P!DriverReports, P!DriverLost,
         P!Expire, P!Quiescent, P!vars
<1>2. QED
  BY <1>1, PoolInvariant, PTL DEF P!Spec, P!ReuseIsStable

-----------------------------------------------------------------------------
(* Refinement.                                                             *)

(* The pool implements SingleFlight: every step maps to one of its steps   *)
(* or leaves the mapped state alone.                                       *)
THEOREM Refinement ==
  ASSUME None \notin Requests
  PROVE  P!Spec => P!ImplementsSingleFlight
<1> USE DEF P!PhaseOf
<1>1. P!Init => P!Flight!Init
  BY DEF P!Init, P!Flight!Init
<1>2. P!IInv /\ [P!Next]_(P!vars) => [P!Flight!Next]_(P!Flight!vars)
  <2> SUFFICES ASSUME P!IInv, [P!Next]_(P!vars)
               PROVE  [P!Flight!Next]_(P!Flight!vars)
    OBVIOUS
  <2> USE DEF P!IInv, P!TypeOK
  <2> DEFINE phase == [r \in Requests |-> P!PhaseOf(r)]
             landed == [r \in Requests |-> sent[r] # None]
             Phase(p) == CASE p \in {"new", "start", "missed"}  -> "idle"
                           [] p \in {"connecting", "connected"} -> "leading"
                           [] p = "waiting"                     -> "riding"
                           [] p = "stranded"                    -> "stranded"
                           [] OTHER                             -> "over"
             Moves(r) == \/ P!Flight!Lead(r)
                         \/ P!Flight!Join(r)
                         \/ P!Flight!Land(r)
                         \/ P!Flight!Abort(r)
                         \/ P!Flight!Arrive(r)
                         \/ P!Flight!Strand(r)
                         \/ \E a \in Requests : P!Flight!Reuse(r, a)
                         \/ P!Flight!Leave(r)
                         \/ UNCHANGED P!Flight!vars
  <2>1. \A r \in Requests, p \in P!PCs :
          pc' = [pc EXCEPT ![r] = p] => phase' = [phase EXCEPT ![r] = Phase(p)]
    <3> SUFFICES ASSUME NEW r \in Requests, NEW p \in P!PCs,
                        pc' = [pc EXCEPT ![r] = p]
                 PROVE  phase' = [phase EXCEPT ![r] = Phase(p)]
      OBVIOUS
    <3>1. /\ P!PhaseOf(r)' = Phase(p)
          /\ \A q \in Requests \ {r} : P!PhaseOf(q)' = P!PhaseOf(q)
      OBVIOUS
    <3> HIDE DEF P!PhaseOf, Phase
    <3>2. QED
      BY <3>1
  <2>2. ASSUME NEW r \in Requests, P!Request(r) PROVE Moves(r)
    <3>1. CASE pc' = [pc EXCEPT ![r] = "start"]
      BY <2>1, <2>2, <3>1 DEF P!Request, P!PCs, P!Flight!vars
    <3>2. CASE pc' = [pc EXCEPT ![r] = "failed"]
      <4>1. "failed" \in P!PCs /\ phase[r] = "idle"
        BY <2>2 DEF P!Request, P!PCs, P!Settled
      <4>2. phase' = [phase EXCEPT ![r] = "over"]
        BY <2>1, <3>2, <4>1
      <4>3. QED
        BY <2>2, <4>1, <4>2 DEF P!Request, P!Flight!Leave
    <3>3. QED
      BY <2>2, <3>1, <3>2 DEF P!Request
  <2>3. ASSUME NEW r \in Requests, P!TryPoolHit(r) PROVE Moves(r)
    <3>1. PICK a \in Requests : a = idle[key[r]]
      BY <2>3 DEF P!TryPoolHit
    <3>2. key[a] = key[r] /\ landed[a] /\ phase[r] = "idle"
      BY <2>3, <3>1 DEF P!TryPoolHit, P!PooledUnderOwnKey
    <3>3. phase' = [phase EXCEPT ![r] = "over"]
      BY <2>1, <2>3 DEF P!TryPoolHit, P!PCs
    <3>4. P!Flight!Reuse(r, a)
      BY <2>3, <3>1, <3>2, <3>3 DEF P!TryPoolHit, P!Flight!Reuse
    <3>5. QED
      BY <3>4
  <2>4. ASSUME NEW r \in Requests, P!TryPoolMiss(r) PROVE Moves(r)
    BY <2>1, <2>4 DEF P!TryPoolMiss, P!PCs, P!Flight!vars
  <2>5. ASSUME NEW r \in Requests, P!Subscribe(r) PROVE Moves(r)
    BY <2>1, <2>5 DEF P!Subscribe, P!PCs, P!Flight!Join
  <2>6. ASSUME NEW r \in Requests, P!Acquire(r) PROVE Moves(r)
    BY <2>1, <2>6 DEF P!Acquire, P!PCs, P!Flight!Lead
  <2>7. ASSUME NEW r \in Requests, P!WaiterReceives(r) PROVE Moves(r)
    <3>1. /\ waiter[r] \in Requests
          /\ landed[waiter[r]]
          /\ sent[waiter[r]] = waiter[r]
          /\ phase[r] = "riding"
      BY <2>7 DEF P!WaiterReceives, P!HoldingsByPc, P!SentIsOwn
    <3>2. phase' = [phase EXCEPT ![r] = "over"]
      BY <2>1, <2>7 DEF P!WaiterReceives, P!PCs
    <3>3. QED
      BY <2>7, <3>1, <3>2 DEF P!WaiterReceives, P!Flight!Arrive
  <2>8. ASSUME NEW r \in Requests, P!WaiterFails(r) PROVE Moves(r)
    <3>1. waiter[r] \in Requests /\ ~landed[waiter[r]]
      BY <2>8 DEF P!WaiterFails, P!HoldingsByPc
    <3>2. phase[waiter[r]] = "over"
      <4>1. ~P!Leading(waiter[r]) /\ sent[waiter[r]] = None
        BY <2>8, <3>1 DEF P!WaiterFails, P!SenderDropped, P!LockIsHeld
      <4>2. pc[waiter[r]] \in {"failed", "cancelled"}
        BY <2>8, <3>1, <4>1 DEF P!WaitedForLed
      <4>3. QED
        BY <3>1, <4>2
    <3>3. phase[r] = "riding" /\ phase' = [phase EXCEPT ![r] = "stranded"]
      BY <2>1, <2>8 DEF P!WaiterFails, P!PCs, P!Settled
    <3>4. QED
      BY <2>8, <3>1, <3>2, <3>3 DEF P!WaiterFails, P!Flight!Strand
  <2>9. ASSUME NEW r \in Requests, P!ConnectFails(r) PROVE Moves(r)
    BY <2>1, <2>9 DEF P!ConnectFails, P!DropLock, P!PCs, P!Settled,
         P!Flight!Abort
  <2>10. ASSUME NEW r \in Requests, P!Connects(r) PROVE Moves(r)
    BY <2>1, <2>10 DEF P!Connects, P!PCs, P!Flight!vars
  <2>11. ASSUME NEW r \in Requests, P!NewConnection(r) PROVE Moves(r)
    <3>1. /\ pc[r] = "connected" /\ connecting[key[r]] = r
          /\ pc' = [pc EXCEPT ![r] = "sending"]
          /\ connecting' = [connecting EXCEPT ![key[r]] = None]
          /\ sent' = [sent EXCEPT ![r] = r]
          /\ client' = [client EXCEPT ![r] = r]
          /\ UNCHANGED <<key, waiter>>
      BY <2>11, NewConnectionPools
    <3>2. landed' = [landed EXCEPT ![r] = TRUE]
      BY <3>1
    <3>3. phase[r] = "leading" /\ phase' = [phase EXCEPT ![r] = "over"]
      <4>1. pc[r] = "connected" /\ pc' = [pc EXCEPT ![r] = "sending"]
        BY <3>1
      <4>2. QED
        BY <2>1, <4>1 DEF P!PCs
    <3>4. QED
      BY <3>1, <3>2, <3>3 DEF P!Flight!Land
  <2>12. ASSUME NEW r \in Requests, P!Responds(r) \/ P!SendFails(r)
         PROVE  Moves(r)
    <3> SUFFICES UNCHANGED P!Flight!vars
      OBVIOUS
    <3>1. phase[r] = "over" /\ phase' = [phase EXCEPT ![r] = "over"]
      <4>1. phase[r] = "over"
        BY <2>12 DEF P!Responds, P!SendFails
      <4>2. PICK p \in {"done", "failed"} : pc' = [pc EXCEPT ![r] = p]
        BY <2>12 DEF P!Responds, P!SendFails
      <4>3. p \in P!PCs /\ Phase(p) = "over"
        BY DEF P!PCs, P!Settled
      <4>4. phase' = [phase EXCEPT ![r] = Phase(p)]
        BY <2>1, <4>2, <4>3
      <4>5. QED
        BY <4>1, <4>3, <4>4
    <3>2. phase' = phase
      BY <3>1
    <3>3. UNCHANGED <<key, connecting, sent, waiter, client>>
      BY <2>12 DEF P!Responds, P!SendFails
    <3>4. QED
      BY <3>2, <3>3 DEF P!Flight!vars
  <2>13. ASSUME NEW r \in Requests, P!Cancel(r) PROVE Moves(r)
    BY <2>1, <2>13
    DEF P!Cancel, P!DropLock, P!PCs, P!Settled, P!Flight!Leave, P!Flight!Abort,
        P!Flight!vars
  <2>14. ASSUME NEW c \in Requests, P!Driver(c) PROVE UNCHANGED P!Flight!vars
    BY <2>14 DEF P!Driver, P!Closes, P!DriverReports, P!DriverLost,
         P!Flight!vars
  <2>15. ASSUME NEW k \in Keys, P!Expire(k) PROVE UNCHANGED P!Flight!vars
    BY <2>15 DEF P!Expire, P!Flight!vars
  <2>16. CASE UNCHANGED P!vars
    BY <2>16 DEF P!vars, P!Flight!vars
  <2>17. ASSUME NEW r \in Requests, P!Request(r) \/ P!Poll(r) \/ P!Cancel(r)
         PROVE  Moves(r)
    BY <2>2, <2>3, <2>4, <2>5, <2>6, <2>7, <2>8, <2>9, <2>10, <2>11,
       <2>12, <2>13, <2>17 DEF P!Poll
  <2>18. QED
    BY <2>14, <2>15, <2>16, <2>17 DEF P!Next, P!Quiescent, P!Flight!Next
<1>3. QED
  BY <1>1, <1>2, PoolInvariant, PTL
  DEF P!Spec, P!ImplementsSingleFlight, P!Flight!Spec
=============================================================================
