-------------------------- MODULE DeadlinesProofs --------------------------
(***************************************************************************)
(* Proofs about the timeouts of a request: for any timeouts, delays and    *)
(* bounds of Deadlines, the inductive invariant and the safety properties  *)
(* of the clock; for response bodies of any length of WasmFetch (W), that  *)
(* the guard that cancels a fetch is never lost.                           *)
(***************************************************************************)
EXTENDS Deadlines, TLAPS

CONSTANT MaxChunks
VARIABLES timeout, cors, caller, error, guard, timer, signal, net, head,
          chunks, taken

W == INSTANCE WasmFetch WITH body <- chunks

(* Initially no timer is armed.                                            *)
LEMMA IInvInitially == Init => IInv
<1> SUFFICES ASSUME Init
             PROVE  IInv
  OBVIOUS
<1> USE DeadlinesAssumption DEF Init
<1>1. TypeOK
  <2>1. 0 \in 0..MaxRetries /\ 0 \in 0..MaxFrames /\ 0 \in 0..MaxHops
    OBVIOUS
  <2>2. QED
    BY <2>1 DEF TypeOK, Phases, Answers, Outcomes
<1>2. QED
  BY <1>1 DEF IInv, Answers, InFlight, DeadlineFirst, SleepOfRead, WokenInTime,
         SleepEndsInTime, EndsByTotalTimeout, ReadTimeoutMeansStalled

(* Every poll, answer, drop and tick preserves the inductive invariant.    *)
LEMMA IInvPreserved == IInv /\ [Next]_vars => IInv'
<1> USE DeadlinesAssumption
<1> SUFFICES ASSUME IInv, [Next]_vars
             PROVE  IInv'
  OBVIOUS
<1> USE DEF IInv, TypeOK, Phases, Answers, Outcomes, InFlight,
            DeadlineFirst, SleepOfRead, WokenInTime, SleepEndsInTime,
            EndsByTotalTimeout,
            ReadTimeoutMeansStalled, After, Fired, TimersQuiet,
            BodyTimersQuiet, config, timers, waits, body, vars
<1>1. CASE Execute
  BY <1>1 DEF Execute
<1>2. CASE Arm
  BY <1>2 DEF Arm
<1>3. CASE TimesOut
  BY <1>3 DEF TimesOut
<1>4. CASE Returns
  BY <1>4 DEF Returns
<1>5. CASE Retries
  BY <1>5 DEF Retries, Fits
<1>6. CASE Wakes
  BY <1>6 DEF Wakes
<1>7. CASE Redirects
  <2>1. TypeOK'
    BY <1>7 DEF Redirects
  <2>2. QED
    BY <1>7, <2>1 DEF Redirects
<1>8. CASE BodyTimesOut
  BY <1>8 DEF BodyTimesOut
<1>9. CASE GetsFrame
  BY <1>9 DEF GetsFrame
<1>10. CASE ServerAnswers
  BY <1>10 DEF ServerAnswers
<1>11. CASE Drops
  BY <1>11 DEF Drops
<1>12. CASE ServerSends
  <2>1. buffered' \in 0..MaxFrames /\ frames' \in 0..MaxFrames
    BY <1>12 DEF ServerSends
  <2>2. TypeOK'
    BY <1>12, <2>1 DEF ServerSends
  <2>3. QED
    BY <1>12, <2>2 DEF ServerSends
<1>13. CASE StartsRead
  BY <1>13 DEF StartsRead
<1>14. CASE AbandonsRead
  BY <1>14 DEF AbandonsRead
<1>15. CASE Tick
  BY <1>15 DEF Tick, Woken
<1>16. CASE UNCHANGED vars
  BY <1>16
<1>17. QED
  BY <1>1, <1>2, <1>3, <1>4, <1>5, <1>6, <1>7, <1>8, <1>9, <1>10, <1>11,
     <1>12, <1>13, <1>14, <1>15, <1>16 DEF Next, Polls, Over

-----------------------------------------------------------------------------
(* The inductive invariant holds in every state of a request.              *)
THEOREM DeadlinesInvariant == Spec => []IInv
  BY IInvInitially, IInvPreserved, PTL DEF Spec

(* Timers are times or None, and counts stay within their bounds.          *)
THEOREM TypeCorrect == Spec => []TypeOK
<1>1. IInv => TypeOK
  BY DEF IInv
<1>2. QED
  BY <1>1, DeadlinesInvariant, PTL

(* No retry delay lasts until the total timeout, in any hop.               *)
THEOREM DelaysFit == Spec => []SleepEndsInTime
<1>1. IInv => SleepEndsInTime
  BY DEF IInv
<1>2. QED
  BY <1>1, DeadlinesInvariant, PTL

(* With prompt polls nothing is under way after the total timeout.         *)
THEOREM OverInTime == Spec => []EndsByTotalTimeout
<1>1. IInv => EndsByTotalTimeout
  BY DEF IInv
<1>2. QED
  BY <1>1, DeadlinesInvariant, PTL

(* A read that was not abandoned times out only if it stalled.             *)
THEOREM ReadsStall == Spec => []ReadTimeoutMeansStalled
<1>1. IInv => ReadTimeoutMeansStalled
  BY DEF IInv
<1>2. QED
  BY <1>1, DeadlinesInvariant, PTL

(* However late the polls, no head and no frame comes after the timeout.   *)
THEOREM NothingLate == Spec => NothingAfterDeadline
<1>1. IInv /\ [Next]_vars =>
         (totalTimeout # None /\ Delivers => totalAt # None /\ now < totalAt)
  <2> SUFFICES ASSUME IInv, [Next]_vars, totalTimeout # None, Delivers
               PROVE  totalAt # None /\ now < totalAt
    OBVIOUS
  <2> USE DeadlinesAssumption
      DEF IInv, TypeOK, InFlight, Delivers, DeadlineFirst
  <2>1. CASE Returns
    BY <2>1 DEF Returns, TimersQuiet, Fired
  <2>2. CASE GetsFrame
    BY <2>2 DEF GetsFrame, BodyTimersQuiet, Fired
  <2>3. ASSUME ~Returns, ~GetsFrame
        PROVE  FALSE
    BY <2>3
    DEF Next, Polls, Execute, Arm, TimesOut, Retries, Wakes, Redirects,
        BodyTimesOut, ServerAnswers, Drops, ServerSends, StartsRead,
        AbandonsRead, Tick, Over, vars, body
  <2>4. QED
    BY <2>1, <2>2, <2>3
<1>2. QED
  BY <1>1, DeadlinesInvariant, PTL DEF Spec, NothingAfterDeadline

(* With prompt polls the total timeout never cuts a retry delay short.     *)
THEOREM NoDelayCutShort == Spec => NoTotalTimeoutAsleep
<1>1. IInv /\ [Next]_vars =>
         (prompt /\ phase = "sleeping" => outcome' # "total")
  <2> SUFFICES ASSUME IInv, [Next]_vars, prompt, phase = "sleeping"
               PROVE  outcome' # "total"
    OBVIOUS
  <2> USE DeadlinesAssumption
      DEF IInv, TypeOK, Outcomes, InFlight
  <2>1. CASE TimesOut
    <3>1. ~Fired(totalAt)
      BY DEF SleepEndsInTime, WokenInTime, Fired
    <3>2. QED
      BY <2>1, <3>1 DEF TimesOut
  <2>2. ASSUME ~TimesOut
        PROVE  outcome' # "total"
    BY <2>2
    DEF Next, Polls, Execute, Arm, Returns, Retries, Wakes, Redirects,
        BodyTimesOut, GetsFrame, ServerAnswers, Drops, ServerSends,
        StartsRead, AbandonsRead, Tick, Over, vars
  <2>3. QED
    BY <2>1, <2>2
<1>2. QED
  BY <1>1, DeadlinesInvariant, PTL DEF Spec, NoTotalTimeoutAsleep

-----------------------------------------------------------------------------
(* The timer of a browser's fetch (WasmFetch), for response bodies of any  *)
(* length.                                                                 *)

(* Before the fetch nothing has begun.                                     *)
LEMMA FetchInitially ==
    ASSUME MaxChunks \in Nat, W!Init
    PROVE  W!IInv
  BY DEF W!Init, W!IInv, W!TypeOK, W!GuardIsKept, W!TimerHasItsCallback,
         W!OnlyTimeoutOrCallerCancels, W!SignalHasACause, W!NothingBegun,
         W!Over, W!Callers

(* A guard that is dropped with the caller's last handle takes the timer   *)
(* with it, and its abort has a cause.                                     *)
LEMMA GuardGoes ==
    ASSUME MaxChunks \in Nat, W!IInv, W!DropGuard, caller' \in W!Over,
           error' \in [kind : {"builder", "request", "decode", "status"},
                       timedOut : BOOLEAN] \cup {None},
           UNCHANGED <<W!request, W!browser, taken>>
    PROVE  W!IInv'
<1> USE DEF W!DropGuard, W!request, W!browser, W!Over
<1>1. W!TypeOK'
  BY DEF W!IInv, W!TypeOK, W!Callers
<1>2. W!GuardIsKept'
  BY DEF W!IInv, W!TypeOK, W!GuardIsKept, W!TimerHasItsCallback,
     W!OnlyTimeoutOrCallerCancels
<1>3. W!SignalHasACause' /\ W!NothingBegun'
  BY DEF W!SignalHasACause, W!NothingBegun
<1>4. QED
  BY <1>1, <1>2, <1>3 DEF W!IInv

(* Every error of the module has a kind.                                   *)
LEMMA FailureType ==
    ASSUME NEW k \in {"builder", "request", "decode", "status"},
           NEW t \in BOOLEAN
    PROVE  W!Failure(k, t) \in [kind : {"builder", "request", "decode",
                                      "status"}, timedOut : BOOLEAN]
  BY DEF W!Failure

(* What the caller's side does.                                            *)
LEMMA CallerPreserves ==
    ASSUME MaxChunks \in Nat, W!IInv, W!Choose \/ W!Poll
    PROVE  W!IInv'
<1> USE DEF W!request, W!browser
<1>1. CASE W!ConversionFails \/ W!TimeoutPanics \/ W!RequestRefused \/ W!Fetch
  BY ZenonT(40), <1>1, FailureType
  DEF W!ConversionFails, W!TimeoutPanics, W!RequestRefused, W!Fetch, W!IInv,
      W!TypeOK, W!GuardIsKept, W!TimerHasItsCallback,
      W!OnlyTimeoutOrCallerCancels, W!SignalHasACause, W!NothingBegun, W!Over,
      W!Callers
<1>2. CASE \/ W!FetchRejected \/ W!ErrorForStatus \/ W!ReadRejected
           \/ W!ResponseFails \/ W!JsonFails
  BY <1>2, GuardGoes, FailureType
  DEF W!FetchRejected, W!ErrorForStatus, W!ReadRejected, W!ResponseFails,
      W!JsonFails, W!Over
<1>3. CASE W!ReadResolves \/ W!BytesStreamEmpty
  BY <1>3, GuardGoes
  DEF W!ReadResolves, W!BytesStreamEmpty, W!Over, W!IInv, W!TypeOK
<1>4. CASE \/ W!FetchResolves \/ W!OpaqueThrows \/ W!Read \/ W!BytesStream
           \/ W!StreamEnds \/ W!StreamFails
  BY <1>4, FailureType
  DEF W!FetchResolves, W!OpaqueThrows, W!Read, W!BytesStream, W!StreamEnds,
      W!StreamFails, W!IInv, W!TypeOK, W!GuardIsKept, W!TimerHasItsCallback,
      W!OnlyTimeoutOrCallerCancels, W!SignalHasACause, W!NothingBegun, W!Over,
      W!Callers
<1>5. CASE W!StreamYields
  <2>1. taken + 1 \in 0..MaxChunks
    BY <1>5 DEF W!StreamYields, W!IInv, W!TypeOK
  <2>2. QED
    BY <1>5, <2>1
    DEF W!StreamYields, W!IInv, W!TypeOK, W!GuardIsKept, W!TimerHasItsCallback,
        W!OnlyTimeoutOrCallerCancels, W!SignalHasACause, W!NothingBegun
<1>6. CASE W!Drop
  <2>1. CASE guard = "held"
    BY <1>6, <2>1, GuardGoes DEF W!Drop, W!Over, W!IInv, W!TypeOK
  <2>2. CASE guard # "held"
    BY <1>6, <2>2
    DEF W!Drop, W!IInv, W!TypeOK, W!GuardIsKept, W!TimerHasItsCallback,
        W!OnlyTimeoutOrCallerCancels, W!SignalHasACause, W!NothingBegun,
        W!Over, W!Callers
  <2>3. QED
    BY <2>1, <2>2
<1>7. QED
  BY <1>1, <1>2, <1>3, <1>4, <1>5, <1>6 DEF W!Choose, W!Poll

(* What the browser does.                                                  *)
LEMMA BrowserPreserves ==
    ASSUME MaxChunks \in Nat, W!IInv,
           W!Network \/ W!Aborted \/ W!TimerFires
    PROVE  W!IInv'
<1> USE DEF W!request, W!browser
<1>1. CASE W!HeadArrives \/ W!BodyEnds \/ W!NetworkFails \/ W!Aborted
  BY <1>1
  DEF W!HeadArrives, W!BodyEnds, W!NetworkFails, W!Aborted, W!Stops, W!IInv,
      W!TypeOK, W!GuardIsKept, W!TimerHasItsCallback,
      W!OnlyTimeoutOrCallerCancels, W!SignalHasACause, W!NothingBegun
<1>2. CASE W!ChunkArrives
  <2>1. chunks + 1 \in 0..MaxChunks
    BY <1>2 DEF W!ChunkArrives, W!IInv, W!TypeOK
  <2>2. QED
    BY <1>2, <2>1
    DEF W!ChunkArrives, W!IInv, W!TypeOK, W!GuardIsKept, W!TimerHasItsCallback,
        W!OnlyTimeoutOrCallerCancels, W!SignalHasACause, W!NothingBegun
<1>3. CASE W!TimerFires
  BY <1>3
  DEF W!TimerFires, W!IInv, W!TypeOK, W!GuardIsKept, W!TimerHasItsCallback,
      W!OnlyTimeoutOrCallerCancels, W!SignalHasACause, W!NothingBegun, W!Over
<1>4. QED
  BY <1>1, <1>2, <1>3 DEF W!Network

(* The inductive invariant.                                                *)
THEOREM FetchInvariant ==
    ASSUME MaxChunks \in Nat
    PROVE  W!Spec => []W!IInv
<1>1. W!Init => W!IInv
  BY FetchInitially
<1>2. W!IInv /\ [W!Next]_(W!vars) => W!IInv'
  <2> SUFFICES ASSUME W!IInv, [W!Next]_(W!vars)
               PROVE  W!IInv'
    OBVIOUS
  <2>1. CASE UNCHANGED W!vars
    BY <2>1
    DEF W!vars, W!IInv, W!TypeOK, W!GuardIsKept, W!TimerHasItsCallback,
        W!OnlyTimeoutOrCallerCancels, W!SignalHasACause, W!NothingBegun
  <2>2. CASE W!Choose \/ W!Poll
    BY <2>2, CallerPreserves
  <2>3. CASE W!Network \/ W!Aborted \/ W!TimerFires
    BY <2>3, BrowserPreserves
  <2>4. QED
    BY <2>1, <2>2, <2>3 DEF W!Next
<1>3. QED
  BY <1>1, <1>2, PTL DEF W!Spec

(* The request, the promise and the stream keep their types.               *)
THEOREM FetchTypes ==
    ASSUME MaxChunks \in Nat
    PROVE  W!Spec => []W!TypeOK
<1>1. W!IInv => W!TypeOK
  BY DEF W!IInv
<1>2. QED
  BY <1>1, FetchInvariant, PTL

(* The timer goes with the guard that owns its callback, and a transfer is *)
(* cancelled only by its timeout or by a caller who let go of everything.  *)
THEOREM GuardKept ==
    ASSUME MaxChunks \in Nat
    PROVE  W!Spec => []W!GuardIsKept
<1>1. W!IInv => W!GuardIsKept
  BY DEF W!IInv
<1>2. QED
  BY <1>1, FetchInvariant, PTL
=============================================================================
