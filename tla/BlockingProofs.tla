--------------------------- MODULE BlockingProofs ---------------------------
(***************************************************************************)
(* Proofs about BlockingClient, for any threads, calls and chunks: the     *)
(* inductive invariant and the safety properties of the runs.              *)
(***************************************************************************)
EXTENDS BlockingClient, TLAPS

(* Initially there is no client.                                           *)
LEMMA IInvInitially == Init => IInv
<1> SUFFICES ASSUME Init
             PROVE  IInv
  OBVIOUS
<1> USE BlockingAssumption DEF Init
<1>1. TypeOK
  BY DEF TypeOK, Calls, Bodies, NoBody, Waits
<1>2. QueuedOnce
  BY DEF QueuedOnce
<1>3. QED
  BY <1>1, <1>2 DEF IInv, HandleKeepsRuntime, Holders, Waits, PanicsClose,
     PanicsOnlyAfterPanic, EarlyEndAborts, EndsWell, NoBody, Undecided,
     ParkedAreAnswered

(* A thread that waits has a call.                                         *)
LEMMA CurIsCall ==
    ASSUME IInv, NEW p \in Callers, pc[p] \in Waits
    PROVE  Cur(p) \in Calls
  BY DEF IInv, HandleKeepsRuntime, Cur, Calls

(* The next call of a thread is one.                                       *)
LEMMA NextCall ==
    ASSUME TypeOK, BlockingAssumption, NEW p \in Callers,
           count[p] < MaxCalls
    PROVE  /\ <<p, count[p] + 1>> \in Calls
           /\ count[p] \in Nat
           /\ count[p] + 1 \in 1..MaxCalls /\ count[p] + 1 \in 0..MaxCalls
<1>1. count[p] \in 0..MaxCalls
  BY DEF TypeOK
<1>2. /\ count[p] \in Nat
      /\ count[p] + 1 \in 1..MaxCalls /\ count[p] + 1 \in 0..MaxCalls
  BY <1>1 DEF BlockingAssumption
<1>3. QED
  BY <1>2 DEF Calls

(* A call is a thread and a number.                                        *)
LEMMA CallParts ==
    ASSUME BlockingAssumption, NEW c \in Calls
    PROVE  c[1] \in Callers /\ c[2] \in Nat /\ c = <<c[1], c[2]>>
<1>1. PICK p \in Callers, i \in 1..MaxCalls : c = <<p, i>>
  BY DEF Calls
<1>2. i \in Nat
  BY DEF BlockingAssumption
<1>3. QED
  BY <1>1, <1>2

(* The counts are numbers.                                                 *)
LEMMA CountsAreNumbers ==
    ASSUME TypeOK, BlockingAssumption, NEW p \in Callers
    PROVE  count[p] \in Nat
<1>1. count[p] \in 0..MaxCalls
  BY DEF TypeOK
<1>2. QED
  BY <1>1 DEF BlockingAssumption

(* A poll that is not in vain ends the call.                               *)
LEMMA PollLeaves ==
    ASSUME IInv, NEW p \in Callers, Poll(p), slot[Cur(p)] # "empty"
    PROVE  \E how \in {"response", "error", "canceled"} :
              Leave(p, how, body[Cur(p)])
<1>1. Cur(p) \in Calls
  BY CurIsCall DEF Poll, Waits
<1>2. slot[Cur(p)] \in {"response", "error", "closed"}
  BY <1>1 DEF IInv, TypeOK
<1>3. CASE slot[Cur(p)] = "response"
  BY <1>3 DEF Poll
<1>4. CASE slot[Cur(p)] = "error"
  BY <1>4 DEF Poll
<1>5. CASE slot[Cur(p)] = "closed"
  BY <1>5 DEF Poll
<1>6. QED
  BY <1>2, <1>3, <1>4, <1>5

(* What no step changes, and what only an answer does.                     *)
LEMMA Kept ==
    ASSUME IInv, [Next]_vars
    PROVE  /\ UNCHANGED config
           /\ (\A d \in Calls : ~Answer(d)) => parked' = parked
<1> USE DEF core, owners, call, caller, config
<1> DEFINE Good == UNCHANGED <<config, parked>>
<1>1. ASSUME NEW p \in Callers, NEW how, NEW b, Leave(p, how, b)
      PROVE  Good
  BY <1>1 DEF Leave
<1>2. ASSUME NEW p \in Callers, Feed(p)
      PROVE  Good
  BY <1>1, <1>2 DEF Feed
<1>3. ASSUME NEW p \in Callers, Poll(p)
      PROVE  Good
  <2>1. CASE slot[Cur(p)] = "empty"
    BY <1>3, <2>1 DEF Poll
  <2>2. CASE slot[Cur(p)] # "empty"
    BY <1>1, <1>3, <2>2, PollLeaves
  <2>3. QED
    BY <2>1, <2>2
<1>4. ASSUME NEW p \in Callers, TimesOut(p) \/ ReadFails(p)
      PROVE  Good
  BY <1>1, <1>4 DEF TimesOut, ReadFails
<1>5. ASSUME NEW p \in Callers, Send(p)
      PROVE  Good
  BY <1>5 DEF Send
<1>6. ASSUME NEW p \in Callers,
             \/ New(p) \/ Created(p) \/ Parks(p) \/ Unparks(p) \/ Joined(p)
             \/ SpuriouslyUnparks(p) \/ Expires(p)
             \/ DropClient(p) \/ DropResponse(p)
      PROVE  Good
  BY <1>6 DEF New, Created, Parks, Unparks, Joined, SpuriouslyUnparks,
     Expires, DropClient, DropResponse, DropOne
<1>7. CASE \/ \E p, q \in Callers : Clone(p, q)
           \/ Starts \/ Receive \/ UNCHANGED vars
  BY <1>7 DEF Clone, Starts, Receive, vars
<1>8. ASSUME NEW how, Ends(how)
      PROVE  Good
  BY <1>8 DEF Ends
<1>9. ASSUME NEW d \in Calls,
             Cancels(d) \/ TaskPanics(d) \/ Consume(d) \/ SeeEnd(d)
             \/ Refuse(d)
      PROVE  Good
  BY <1>9 DEF Cancels, TaskPanics, Consume, SeeEnd, Refuse
<1>10. ASSUME NEW d \in Calls, Answer(d)
       PROVE  UNCHANGED config
  BY <1>10 DEF Answer
<1> QED
  BY <1>2, <1>3, <1>4, <1>5, <1>6, <1>7, <1>8, <1>9, <1>10
  DEF Next, Step, Reads, Done, ThreadPanics, HangsUp

(* A body that is read has a chunk less.                                   *)
LEMMA Less ==
    ASSUME BlockingAssumption, NEW b \in Bodies, b.left > 0
    PROVE  b.left - 1 \in 0..MaxChunks
<1>1. b.left \in 0..MaxChunks
  BY DEF Bodies
<1>2. QED
  BY <1>1 DEF BlockingAssumption

(* Sequences of calls.                                                     *)
LEMMA Queues ==
    ASSUME NEW q \in Seq(Calls)
    PROVE  /\ \A c \in Calls : Append(q, c) \in Seq(Calls)
           /\ q # << >> => Head(q) \in Calls /\ Tail(q) \in Seq(Calls)
  OBVIOUS

(* What a thread leaves keeps its type.                                    *)
LEMMA LeaveType ==
    ASSUME IInv, BlockingAssumption, NEW p \in Callers, pc[p] \in Waits,
           NEW how \in {"response", "error", "timeout", "body error",
                        "canceled", "dead"},
           NEW b \in Bodies, Leave(p, how, b),
           resp' \subseteq Callers
    PROVE  TypeOK'
<1>1. Cur(p) \in Calls
  BY CurIsCall
<1>2. [b EXCEPT !.tx = FALSE] \in Bodies
  BY DEF Bodies
<1>3. body' \in [Calls -> Bodies] /\ outcome' \in [Calls -> {"none",
         "response", "error", "timeout", "body error", "canceled", "dead"}]
  BY <1>1, <1>2 DEF Leave, IInv, TypeOK
<1>4. pc' \in [Callers -> Waits \cup {"free", "creating", "joining"}]
  BY DEF Leave, IInv, TypeOK
<1>5. QED
  BY <1>3, <1>4 DEF Leave, IInv, TypeOK, core, config

(* What Ends does keeps its type.                                          *)
LEMMA EndsType ==
    ASSUME IInv, NEW how \in {"exited", "panicked"}, Ends(how)
    PROVE  TypeOK'
<1>1. task' \in [Calls -> {"none", "queued", "running", "over"}]
  BY DEF Ends, IInv, TypeOK
<1>2. slot' \in [Calls -> {"empty", "response", "error", "closed"}]
  BY DEF Ends, IInv, TypeOK
<1>3. body' \in [Calls -> Bodies]
  <2>1. ASSUME NEW c \in Calls
        PROVE  [body[c] EXCEPT !.rx = FALSE] \in Bodies
    <3>1. body[c] \in Bodies
      BY DEF IInv, TypeOK
    <3>2. QED
      BY <3>1 DEF Bodies
  <2>2. QED
    BY <2>1 DEF Ends
<1>4. token' \in [Callers -> BOOLEAN]
  BY DEF Ends, IInv, TypeOK
<1>5. queue' \in Seq(Calls)
  BY DEF Ends
<1>6. QED
  BY <1>1, <1>2, <1>3, <1>4, <1>5 DEF Ends, IInv, TypeOK, caller, owners,
     call, config

(* A wakeup sets tokens.                                                   *)
LEMMA WakeType ==
    ASSUME IInv, NEW C, NEW f, Wake(C, f)
    PROVE  token' \in [Callers -> BOOLEAN]
  BY DEF Wake, IInv, TypeOK

(* Every step keeps the types.                                             *)
LEMMA TypePreserved == IInv /\ [Next]_vars => TypeOK'
<1> USE BlockingAssumption
<1> SUFFICES ASSUME IInv, [Next]_vars
             PROVE  TypeOK'
  OBVIOUS
<1> USE DEF IInv, TypeOK, config, core, owners, call, caller
<1>1. ASSUME NEW p \in Callers, New(p)
      PROVE  TypeOK'
  BY <1>1 DEF New
<1>2. ASSUME NEW p \in Callers, Send(p)
      PROVE  TypeOK'
  <2> DEFINE c == <<p, count[p] + 1>>
  <2>1. c \in Calls /\ count[p] + 1 \in 0..MaxCalls
    BY <1>2, NextCall DEF Send
  <2>2. body' \in [Calls -> Bodies]
    <3>1. CASE UNCHANGED body
      BY <3>1
    <3>2. CASE \E k \in 0..MaxChunks :
                  body' = [body EXCEPT ![c].left = k, ![c].tx = TRUE,
                                       ![c].rx = TRUE]
      <4>1. PICK k \in 0..MaxChunks :
                   body' = [body EXCEPT ![c].left = k, ![c].tx = TRUE,
                                        ![c].rx = TRUE]
        BY <3>2
      <4>2. body[c] \in Bodies
        BY <2>1
      <4>3. [body[c] EXCEPT !.left = k, !.tx = TRUE, !.rx = TRUE] \in Bodies
        BY <4>2 DEF Bodies
      <4>4. QED
        BY <2>1, <4>1, <4>3
    <3>3. QED
      BY <1>2, <3>1, <3>2 DEF Send
  <2>3. queue' \in Seq(Calls)
    <3>1. queue' = queue \/ queue' = Append(queue, c)
      BY <1>2 DEF Send
    <3>2. Append(queue, c) \in Seq(Calls)
      BY <2>1, Queues
    <3>3. QED
      BY <3>1, <3>2
  <2>4. /\ task' \in [Calls -> {"none", "queued", "running", "over"}]
        /\ pc' \in [Callers -> Waits \cup {"free", "creating", "joining"}]
        /\ outcome' \in [Calls -> {"none", "response", "error", "timeout",
                                   "body error", "canceled", "dead"}]
    BY <1>2, <2>1 DEF Send, Waits
  <2>5. QED
    BY <1>2, <2>1, <2>2, <2>3, <2>4 DEF Send
<1>3. ASSUME NEW p \in Callers, Created(p)
      PROVE  TypeOK'
  BY <1>3 DEF Created
<1>4. ASSUME NEW p \in Callers, Feed(p)
      PROVE  TypeOK'
  <2> DEFINE c == Cur(p)
  <2>1. c \in Calls
    BY <1>4, CurIsCall DEF Feed, Waits
  <2>2. CASE UNCHANGED body /\ pc' = [pc EXCEPT ![p] = "checking"]
             /\ UNCHANGED <<core, call, owners, token>>
    BY <2>2 DEF Waits
  <2>3. CASE /\ body' = [body EXCEPT ![c].tx = FALSE]
             /\ UNCHANGED <<caller, core, token>>
    <3>1. body[c] \in Bodies
      BY <2>1
    <3>2. [body[c] EXCEPT !.tx = FALSE] \in Bodies
      BY <3>1 DEF Bodies
    <3>3. body' \in [Calls -> Bodies]
      BY <2>1, <2>3, <3>2
    <3>4. QED
      BY <2>3, <3>3
  <2>4. CASE /\ body[c].left > 0
             /\ body' = [body EXCEPT ![c].left = @ - 1, ![c].chan = "data"]
             /\ UNCHANGED <<caller, core, token>>
    <3>1. body[c] \in Bodies
      BY <2>1
    <3>2. body[c].left - 1 \in 0..MaxChunks
      BY <2>4, <3>1, Less
    <3>3. [body[c] EXCEPT !.left = @ - 1, !.chan = "data"] \in Bodies
      BY <3>1, <3>2 DEF Bodies
    <3>4. body' \in [Calls -> Bodies]
      BY <2>1, <2>4, <3>3
    <3>5. QED
      BY <2>4, <3>4
  <2>5. CASE Leave(p, "body error", body[c]) /\ UNCHANGED resp
    BY <1>4, <2>1, <2>5, LeaveType DEF Feed, Waits
  <2>6. QED
    BY <1>4, <2>2, <2>3, <2>4, <2>5 DEF Feed
<1>5. ASSUME NEW p \in Callers, Poll(p)
      PROVE  TypeOK'
  <2>1. Cur(p) \in Calls /\ pc[p] \in Waits
    BY <1>5, CurIsCall DEF Poll, Waits
  <2>2. CASE slot[Cur(p)] = "empty"
    BY <1>5, <2>2 DEF Poll, Waits
  <2>3. CASE slot[Cur(p)] = "response"
    BY <1>5, <2>1, <2>3, LeaveType DEF Poll
  <2>4. CASE slot[Cur(p)] = "error"
    BY <1>5, <2>1, <2>4, LeaveType DEF Poll
  <2>5. CASE slot[Cur(p)] = "closed"
    BY <1>5, <2>1, <2>5, LeaveType DEF Poll
  <2>6. QED
    BY <2>1, <2>2, <2>3, <2>4, <2>5
<1>6. ASSUME NEW p \in Callers, TimesOut(p)
      PROVE  TypeOK'
  BY <1>6, CurIsCall, LeaveType DEF TimesOut, Waits
<1>7. ASSUME NEW p \in Callers, Parks(p)
      PROVE  TypeOK'
  BY <1>7 DEF Parks, Waits
<1>8. ASSUME NEW p \in Callers, Unparks(p)
      PROVE  TypeOK'
  BY <1>8 DEF Unparks, Waits
<1>9. ASSUME NEW p \in Callers, Joined(p)
      PROVE  TypeOK'
  BY <1>9 DEF Joined
<1>10. ASSUME NEW p \in Callers, ReadFails(p)
      PROVE  TypeOK'
  <2> DEFINE b == body[Cur(p)]
             k == IF b.rx THEN "abort" ELSE b.chan
  <2>1. Cur(p) \in Calls /\ pc[p] \in Waits
    BY <1>10, CurIsCall DEF ReadFails, Waits
  <2>2. b \in Bodies /\ k \in {"none", "data", "abort"}
    BY <2>1 DEF Bodies
  <2>3. [b EXCEPT !.chan = k] \in Bodies
    BY <2>2 DEF Bodies
  <2>4. Leave(p, "body error", [b EXCEPT !.chan = k]) /\ UNCHANGED resp
    BY <1>10 DEF ReadFails
  <2>5. QED
    BY <2>1, <2>3, <2>4, LeaveType
<1>11. ASSUME NEW p \in Callers, SpuriouslyUnparks(p)
      PROVE  TypeOK'
  BY <1>11 DEF SpuriouslyUnparks, Waits
<1>12. ASSUME NEW p \in Callers, Expires(p)
      PROVE  TypeOK'
  BY <1>12 DEF Expires
<1>13. ASSUME NEW p \in Callers, DropClient(p)
      PROVE  TypeOK'
  BY <1>13 DEF DropClient, DropOne
<1>14. ASSUME NEW p \in Callers, DropResponse(p)
      PROVE  TypeOK'
  BY <1>14 DEF DropResponse, DropOne
<1>15. ASSUME NEW p \in Callers, NEW q \in Callers, Clone(p, q)
      PROVE  TypeOK'
  BY <1>15 DEF Clone
<1>16. CASE Starts
  BY <1>16 DEF Starts
<1>17. CASE Receive
  <2>1. queue # << >>
    BY <1>17 DEF Receive
  <2>2. queue \in Seq(Calls)
    OBVIOUS
  <2>3. Head(queue) \in Calls /\ Tail(queue) \in Seq(Calls)
    BY <2>1, <2>2, Queues
  <2>4. QED
    BY <1>17, <2>3 DEF Receive
<1>18. CASE ThreadPanics
  BY <1>18, EndsType DEF ThreadPanics
<1>19. CASE HangsUp
  BY <1>19, EndsType DEF HangsUp
<1>20. ASSUME NEW c \in Calls, Answer(c)
      PROVE  TypeOK'
  <2>1. token' \in [Callers -> BOOLEAN]
    BY <1>20, WakeType DEF Answer
  <2>2. parked' \subseteq Calls
    BY <1>20 DEF Answer
  <2>3. /\ slot' \in [Calls -> {"empty", "response", "error", "closed"}]
        /\ task' \in [Calls -> {"none", "queued", "running", "over"}]
    BY <1>20 DEF Answer
  <2>4. QED
    BY <1>20, <2>1, <2>2, <2>3 DEF Answer
<1>21. ASSUME NEW c \in Calls, Cancels(c)
      PROVE  TypeOK'
  BY <1>21 DEF Cancels
<1>22. ASSUME NEW c \in Calls, TaskPanics(c)
      PROVE  TypeOK'
  <2>1. token' \in [Callers -> BOOLEAN]
    BY <1>22, WakeType DEF TaskPanics
  <2>2. QED
    BY <1>22, <2>1 DEF TaskPanics
<1>23. ASSUME NEW c \in Calls, Consume(c)
      PROVE  TypeOK'
  <2> DEFINE e == IF body[c].chan = "abort" THEN "abort" ELSE body[c].end
  <2>1. token' \in [Callers -> BOOLEAN]
    BY <1>23, WakeType DEF Consume
  <2>2. body[c] \in Bodies /\ e \in {"none", "whole", "cut", "abort"}
    BY DEF Bodies
  <2>3. [body[c] EXCEPT !.chan = "none", !.rx = body[c].chan = "data",
                        !.end = e] \in Bodies
    BY <2>2 DEF Bodies
  <2>4. body' = [body EXCEPT ![c] = [body[c] EXCEPT
                    !.chan = "none", !.rx = body[c].chan = "data", !.end = e]]
    BY <1>23, <2>2 DEF Consume, Bodies
  <2>5. body' \in [Calls -> Bodies]
    BY <2>3, <2>4
  <2>6. QED
    BY <1>23, <2>1, <2>5 DEF Consume
<1>24. ASSUME NEW c \in Calls, SeeEnd(c)
      PROVE  TypeOK'
  <2> DEFINE e == IF body[c].left = 0 THEN "whole" ELSE "cut"
  <2>1. body[c] \in Bodies
    OBVIOUS
  <2>2. [body[c] EXCEPT !.rx = FALSE, !.end = e] \in Bodies
    BY <2>1 DEF Bodies
  <2>3. body' \in [Calls -> Bodies]
    BY <1>24, <2>2 DEF SeeEnd
  <2>4. QED
    BY <1>24, <2>3 DEF SeeEnd
<1>25. ASSUME NEW c \in Calls, Refuse(c)
      PROVE  TypeOK'
  <2>1. token' \in [Callers -> BOOLEAN]
    BY <1>25, WakeType DEF Refuse
  <2>2. body[c] \in Bodies
    OBVIOUS
  <2>3. [body[c] EXCEPT !.rx = FALSE] \in Bodies
    BY <2>2 DEF Bodies
  <2>4. body' \in [Calls -> Bodies]
    BY <1>25, <2>3 DEF Refuse
  <2>5. QED
    BY <1>25, <2>1, <2>4 DEF Refuse
<1>26. CASE UNCHANGED vars
  BY <1>26 DEF vars
<1> QED
  BY <1>1, <1>2, <1>3, <1>4, <1>5, <1>6, <1>7, <1>8, <1>9, <1>10, <1>11,
     <1>12, <1>13, <1>14, <1>15, <1>16, <1>17, <1>18, <1>19, <1>20, <1>21,
     <1>22, <1>23, <1>24, <1>25, <1>26 DEF Next, Step, Reads, Done

(* Whoever has a part of the handle keeps the thread.                     *)
LEMMA HandlePreserved == IInv /\ [Next]_vars => HandleKeepsRuntime'
<1> SUFFICES ASSUME IInv, [Next]_vars
             PROVE  HandleKeepsRuntime'
  OBVIOUS
<1> USE DEF core, owners, call, caller
<1>0. /\ pc \in [Callers -> Waits \cup {"free", "creating", "joining"}]
      /\ count \in [Callers -> 0..MaxCalls] /\ MaxCalls \in Nat
      /\ handle \subseteq Callers /\ resp \subseteq Callers
      /\ HandleKeepsRuntime
  BY BlockingAssumption DEF IInv, TypeOK, BlockingAssumption
<1>1. ASSUME UNCHANGED <<pc, count, handle, resp, runtime>>
      PROVE  HandleKeepsRuntime'
  BY <1>0, <1>1 DEF HandleKeepsRuntime, Holders, Waits
<1>2. ASSUME NEW p \in Callers, New(p)
      PROVE  HandleKeepsRuntime'
  BY <1>0, <1>2 DEF New, HandleKeepsRuntime, Holders, Waits
<1>3. ASSUME NEW p \in Callers, Send(p)
      PROVE  HandleKeepsRuntime'
  <2>1. runtime # "exited" /\ p \in handle
    BY <1>0, <1>3 DEF Send, HandleKeepsRuntime, Holders
  <2>2. count[p] + 1 \in 1..MaxCalls
    BY <1>3, NextCall, BlockingAssumption DEF Send, IInv
  <2>3. \A q \in Callers : pc'[q] \in Waits =>
            q \in handle' /\ count'[q] \in 1..MaxCalls
    BY <1>0, <1>3, <2>1, <2>2 DEF Send, HandleKeepsRuntime
  <2>4. \A q \in Callers : pc'[q] = "creating" => pc[q] = "creating"
    BY <1>0, <1>3 DEF Send
  <2>5. QED
    BY <1>0, <1>3, <2>3, <2>4 DEF Send, HandleKeepsRuntime, Holders
<1>4. ASSUME NEW p \in Callers, Created(p)
      PROVE  HandleKeepsRuntime'
  BY <1>0, <1>4 DEF Created, HandleKeepsRuntime, Holders, Waits
<1>5. ASSUME NEW p \in Callers, Feed(p)
      PROVE  HandleKeepsRuntime'
  <2>1. /\ \/ pc' = [pc EXCEPT ![p] = "checking"]
           \/ UNCHANGED pc
           \/ pc' = [pc EXCEPT ![p] = "free"]
        /\ UNCHANGED <<runtime, handle, resp, count>>
    BY <1>5 DEF Feed, Leave
  <2>2. pc[p] \in Waits
    BY <1>5 DEF Feed, Waits
  <2>3. QED
    BY <1>0, <2>1, <2>2 DEF HandleKeepsRuntime, Holders, Waits
<1>6. ASSUME NEW p \in Callers, Poll(p)
      PROVE  HandleKeepsRuntime'
  <2>1. Cur(p) \in Calls /\ pc[p] \in Waits
    BY <1>6, CurIsCall DEF Poll, Waits
  <2>2. slot[Cur(p)] \in {"empty", "response", "error", "closed"}
    BY <2>1 DEF IInv, TypeOK
  <2>3. \/ pc' = [pc EXCEPT ![p] = "checking"] /\ UNCHANGED resp
        \/ pc' = [pc EXCEPT ![p] = "free"] /\ resp' \in {resp, resp \cup {p}}
    BY <1>6, <2>2 DEF Poll, Leave
  <2>4. UNCHANGED <<runtime, handle, count>>
    BY <1>6, <2>2 DEF Poll, Leave
  <2>5. p \in handle
    BY <1>0, <2>1 DEF HandleKeepsRuntime
  <2>6. QED
    BY <1>0, <2>1, <2>3, <2>4, <2>5 DEF HandleKeepsRuntime, Holders, Waits
<1>7. ASSUME NEW p \in Callers, TimesOut(p)
      PROVE  HandleKeepsRuntime'
  BY <1>0, <1>7 DEF TimesOut, Leave, HandleKeepsRuntime, Holders, Waits
<1>8. ASSUME NEW p \in Callers, Parks(p)
      PROVE  HandleKeepsRuntime'
  BY <1>0, <1>8 DEF Parks, HandleKeepsRuntime, Holders, Waits
<1>9. ASSUME NEW p \in Callers, Unparks(p)
      PROVE  HandleKeepsRuntime'
  BY <1>0, <1>9 DEF Unparks, HandleKeepsRuntime, Holders, Waits
<1>10. ASSUME NEW p \in Callers, Joined(p)
      PROVE  HandleKeepsRuntime'
  BY <1>0, <1>10 DEF Joined, HandleKeepsRuntime, Holders, Waits
<1>11. ASSUME NEW p \in Callers, ReadFails(p)
      PROVE  HandleKeepsRuntime'
  BY <1>0, <1>11 DEF ReadFails, Leave, HandleKeepsRuntime, Holders, Waits
<1>12. ASSUME NEW p \in Callers, SpuriouslyUnparks(p)
      PROVE  HandleKeepsRuntime'
  BY <1>0, <1>12 DEF SpuriouslyUnparks, HandleKeepsRuntime, Holders, Waits
<1>13. ASSUME NEW p \in Callers, DropClient(p)
      PROVE  HandleKeepsRuntime'
  BY <1>0, <1>13 DEF DropClient, DropOne, HandleKeepsRuntime, Holders,
     Waits
<1>14. ASSUME NEW p \in Callers, DropResponse(p)
      PROVE  HandleKeepsRuntime'
  BY <1>0, <1>14 DEF DropResponse, DropOne, HandleKeepsRuntime, Holders,
     Waits
<1>15. ASSUME NEW p \in Callers, NEW q \in Callers, Clone(p, q)
      PROVE  HandleKeepsRuntime'
  BY <1>0, <1>15 DEF Clone, HandleKeepsRuntime, Holders, Waits
<1>16. CASE Starts
  BY <1>0, <1>16 DEF Starts, HandleKeepsRuntime, Holders, Waits
<1>17. CASE ThreadPanics
  BY <1>0, <1>17 DEF ThreadPanics, Ends, HandleKeepsRuntime, Holders, Waits
<1>18. CASE HangsUp
  BY <1>0, <1>18 DEF HangsUp, Ends, HandleKeepsRuntime, Holders, Waits
<1>19. CASE UNCHANGED vars
  BY <1>1, <1>19 DEF vars, config
<1>20. CASE \/ \E p \in Callers : Expires(p)
            \/ Receive
            \/ \E c \in Calls : Answer(c)
            \/ \E c \in Calls : Cancels(c)
            \/ \E c \in Calls : TaskPanics(c)
            \/ \E c \in Calls : Consume(c)
            \/ \E c \in Calls : SeeEnd(c)
            \/ \E c \in Calls : Refuse(c)
  BY <1>1, <1>20 DEF Expires, Receive, Answer, Cancels, TaskPanics,
     Consume, SeeEnd, Refuse, core, caller, call, owners, config
<1> QED
  BY <1>1, <1>2, <1>3, <1>4, <1>5, <1>6, <1>7, <1>8, <1>9, <1>10, <1>11,
     <1>12, <1>13, <1>14, <1>15, <1>16, <1>17, <1>18, <1>19,
     <1>20 DEF Next, Step, Reads, Done

(* Nothing but a panic closes a oneshot that is waited for.                *)
LEMMA PanicsPreserved == IInv /\ [Next]_vars => (PanicsClose /\ PanicsOnlyAfterPanic)'
<1> SUFFICES ASSUME IInv, [Next]_vars
             PROVE  (PanicsClose /\ PanicsOnlyAfterPanic)'
  OBVIOUS
<1> USE DEF core, owners, call, caller, config
<1>0. /\ slot \in [Calls -> {"empty", "response", "error", "closed"}]
      /\ outcome \in [Calls -> {"none", "response", "error", "timeout",
                             "body error", "canceled", "dead"}]
      /\ HandleKeepsRuntime /\ PanicsClose /\ PanicsOnlyAfterPanic
  BY DEF IInv, TypeOK
<1>1. ASSUME UNCHANGED <<mayPanic, outcome, slot, runtime>>
      PROVE  (PanicsClose /\ PanicsOnlyAfterPanic)'
  BY <1>0, <1>1 DEF PanicsClose, PanicsOnlyAfterPanic
<1>2. ASSUME NEW p \in Callers, New(p)
      PROVE  (PanicsClose /\ PanicsOnlyAfterPanic)'
  BY <1>0, <1>2 DEF New, PanicsClose, PanicsOnlyAfterPanic
<1>3. ASSUME NEW p \in Callers, Send(p)
      PROVE  (PanicsClose /\ PanicsOnlyAfterPanic)'
  <2>1. ~mayPanic => runtime = "running"
    BY <1>0, <1>3 DEF Send, HandleKeepsRuntime, Holders, PanicsClose
  <2>2. QED
    BY <1>0, <1>3, <2>1 DEF Send, PanicsClose, PanicsOnlyAfterPanic
<1>4. ASSUME NEW p \in Callers, Feed(p)
      PROVE  (PanicsClose /\ PanicsOnlyAfterPanic)'
  <2>1. UNCHANGED outcome \/ outcome' = [outcome EXCEPT ![Cur(p)] =
                                              "body error"]
    BY <1>4 DEF Feed, Leave
  <2>2. UNCHANGED <<mayPanic, runtime, slot>>
    BY <1>4 DEF Feed, Leave
  <2>3. QED
    BY <1>0, <2>1, <2>2 DEF PanicsClose, PanicsOnlyAfterPanic
<1>5. ASSUME NEW p \in Callers, Poll(p)
      PROVE  (PanicsClose /\ PanicsOnlyAfterPanic)'
  <2>1. Cur(p) \in Calls /\ p \in handle
    BY <1>0, <1>5, CurIsCall DEF Poll, HandleKeepsRuntime, Waits
  <2>2. ~mayPanic => slot[Cur(p)] # "closed"
    BY <1>0, <2>1 DEF HandleKeepsRuntime, Holders, PanicsClose
  <2>3. CASE slot[Cur(p)] = "empty"
    BY <1>0, <1>5, <2>3 DEF Poll, PanicsClose, PanicsOnlyAfterPanic
  <2>4. CASE slot[Cur(p)] # "empty"
    BY <1>0, <1>5, <2>1, <2>2, <2>4 DEF Poll, Leave, PanicsClose,
       PanicsOnlyAfterPanic
  <2>5. QED
    BY <2>3, <2>4
<1>6. ASSUME NEW p \in Callers, TimesOut(p)
      PROVE  (PanicsClose /\ PanicsOnlyAfterPanic)'
  BY <1>0, <1>6 DEF TimesOut, Leave, PanicsClose, PanicsOnlyAfterPanic
<1>7. ASSUME NEW p \in Callers, ReadFails(p)
      PROVE  (PanicsClose /\ PanicsOnlyAfterPanic)'
  BY <1>0, <1>7 DEF ReadFails, Leave, PanicsClose, PanicsOnlyAfterPanic
<1>8. CASE Starts
  BY <1>0, <1>8 DEF Starts, PanicsClose, PanicsOnlyAfterPanic
<1>9. CASE ThreadPanics
  BY <1>0, <1>9 DEF ThreadPanics, Ends, PanicsClose, PanicsOnlyAfterPanic
<1>10. CASE HangsUp
  BY <1>0, <1>10 DEF HangsUp, Ends, PanicsClose, PanicsOnlyAfterPanic
<1>11. ASSUME NEW c \in Calls, Answer(c)
      PROVE  (PanicsClose /\ PanicsOnlyAfterPanic)'
  BY <1>0, <1>11 DEF Answer, PanicsClose, PanicsOnlyAfterPanic
<1>12. ASSUME NEW c \in Calls, TaskPanics(c)
      PROVE  (PanicsClose /\ PanicsOnlyAfterPanic)'
  BY <1>0, <1>12 DEF TaskPanics, PanicsClose, PanicsOnlyAfterPanic
<1>13. CASE UNCHANGED vars
  BY <1>1, <1>13 DEF vars, config
<1>14. CASE \/ \E p \in Callers : Created(p)
            \/ \E p \in Callers : Parks(p)
            \/ \E p \in Callers : Unparks(p)
            \/ \E p \in Callers : Joined(p)
            \/ \E p \in Callers : SpuriouslyUnparks(p)
            \/ \E p \in Callers : Expires(p)
            \/ \E p \in Callers : DropClient(p)
            \/ \E p \in Callers : DropResponse(p)
            \/ \E p, q \in Callers : Clone(p, q)
            \/ Receive
            \/ \E c \in Calls : Cancels(c)
            \/ \E c \in Calls : Consume(c)
            \/ \E c \in Calls : SeeEnd(c)
            \/ \E c \in Calls : Refuse(c)
  BY <1>1, <1>14 DEF Created, Parks, Unparks, Joined, SpuriouslyUnparks,
     Expires, DropClient, DropResponse, Clone, Receive, Cancels, Consume,
     SeeEnd, Refuse, DropOne, core, caller, call, owners, config
<1> QED
  BY <1>1, <1>2, <1>3, <1>4, <1>5, <1>6, <1>7, <1>8, <1>9, <1>10, <1>11,
     <1>12, <1>13, <1>14 DEF Next, Step, Reads, Done

(* A body that ends early is aborted, if one call's body is all that has   *)
(* changed.                                                                *)
LEMMA OneBody ==
    ASSUME IInv, NEW c \in Calls, NEW b, EndsWell(b),
           body' = [body EXCEPT ![c] = b],
           UNCHANGED <<hasTimeout, expired>>
    PROVE  EarlyEndAborts'
<1>1. body \in [Calls -> Bodies] /\ EarlyEndAborts
  BY DEF IInv, TypeOK
<1>2. ASSUME ~hasTimeout, NEW d \in Calls
      PROVE  EndsWell(body'[d])
  <2>1. CASE d = c
    BY <1>1, <2>1
  <2>2. CASE d # c
    BY <1>1, <1>2, <2>2 DEF EarlyEndAborts
  <2>3. QED
    BY <2>1, <2>2
<1>3. QED
  BY <1>1, <1>2 DEF EarlyEndAborts, EndsWell

(* What a thread leaves ends well, if what it leaves it with does.         *)
LEMMA LeaveEndsWell ==
    ASSUME IInv, NEW p \in Callers, pc[p] \in Waits, NEW how, NEW b,
           Leave(p, how, b), EndsWell([b EXCEPT !.tx = FALSE])
    PROVE  EarlyEndAborts'
<1>1. Cur(p) \in Calls
  BY CurIsCall
<1>2. UNCHANGED <<hasTimeout, expired>>
  BY DEF Leave, core, config
<1>3. body' = [body EXCEPT ![Cur(p)] = [b EXCEPT !.tx = FALSE]]
  BY DEF Leave
<1>4. QED
  BY <1>1, <1>2, <1>3, OneBody

(* Without a timeout no body ends early and unaborted.                     *)
LEMMA EarlyEndPreserved == IInv /\ [Next]_vars => EarlyEndAborts'
<1> SUFFICES ASSUME IInv, [Next]_vars
             PROVE  EarlyEndAborts'
  OBVIOUS
<1>0. /\ body \in [Calls -> Bodies] /\ expired \in [Callers -> BOOLEAN]
      /\ hasTimeout \in BOOLEAN
      /\ EarlyEndAborts
  BY DEF IInv, TypeOK
<1> USE DEF core, owners, call, caller, config
<1>1. ASSUME UNCHANGED <<hasTimeout, body, expired>>
      PROVE  EarlyEndAborts'
  BY <1>0, <1>1 DEF EarlyEndAborts, EndsWell
<1>2. CASE hasTimeout /\ hasTimeout' = hasTimeout
  BY <1>2 DEF EarlyEndAborts
<1>3. ASSUME ~hasTimeout, NEW c \in Calls
      PROVE  /\ body[c] \in Bodies /\ EndsWell(body[c])
             /\ body[c].left \in 0..MaxChunks
  BY <1>0, <1>3 DEF EarlyEndAborts, Bodies
<1>4. ASSUME NEW p \in Callers, Send(p)
      PROVE  EarlyEndAborts'
  <2> DEFINE c == <<p, count[p] + 1>>
  <2>1. c \in Calls
    BY <1>4, NextCall, BlockingAssumption DEF Send, IInv
  <2>2. /\ hasTimeout' = hasTimeout
        /\ ~hasTimeout => \A q \in Callers : ~expired'[q]
    BY <1>0, <1>4 DEF Send, EarlyEndAborts
  <2>3. CASE UNCHANGED body
    BY <1>0, <2>2, <2>3 DEF EarlyEndAborts, EndsWell
  <2>4. CASE \E n \in 0..MaxChunks :
                body' = [body EXCEPT ![c].left = n, ![c].tx = TRUE,
                                     ![c].rx = TRUE]
    <3>1. PICK n \in 0..MaxChunks :
                 body' = [body EXCEPT ![c].left = n, ![c].tx = TRUE,
                                      ![c].rx = TRUE]
      BY <2>4
    <3>2. body[c] \in Bodies
      BY <1>0, <2>1
    <3>3. ~hasTimeout => body[c].end # "cut"
      BY <1>0, <2>1 DEF EarlyEndAborts, EndsWell
    <3>4. body'[c].tx /\ body'[c].end = body[c].end
      BY <1>0, <2>1, <3>1, <3>2 DEF Bodies
    <3>5. \A d \in Calls : d # c => body'[d] = body[d]
      BY <1>0, <3>1
    <3>6. ASSUME ~hasTimeout, NEW d \in Calls
          PROVE  EndsWell(body'[d])
      <4>1. CASE d = c
        BY <3>3, <3>4, <3>6, <4>1 DEF EndsWell
      <4>2. CASE d # c
        BY <1>0, <3>5, <3>6, <4>2 DEF EarlyEndAborts
      <4>3. QED
        BY <4>1, <4>2
    <3>7. QED
      BY <2>2, <3>6 DEF EarlyEndAborts, EndsWell
  <2>5. QED
    BY <1>4, <2>3, <2>4 DEF Send
<1>5. ASSUME NEW p \in Callers, Feed(p), ~hasTimeout
      PROVE  EarlyEndAborts'
  <2> DEFINE c == Cur(p)
             b == body[c]
  <2>1. c \in Calls /\ pc[p] \in Waits
    BY <1>5, CurIsCall DEF Feed, Waits
  <2>2. b \in Bodies /\ EndsWell(b) /\ b.left \in 0..MaxChunks
    BY <1>3, <1>5, <2>1
  <2>3. b.tx
    BY <1>5 DEF Feed, Feeding
  <2>4. CASE UNCHANGED <<core, call, owners, body, token>>
    BY <1>1, <2>4
  <2>5. CASE /\ b.left = 0
             /\ body' = [body EXCEPT ![c].tx = FALSE]
             /\ UNCHANGED <<caller, core, token>>
    <3>1. EndsWell([b EXCEPT !.tx = FALSE])
      BY <2>2, <2>5 DEF EndsWell, Bodies
    <3>2. QED
      BY <2>1, <2>5, <3>1, OneBody
  <2>6. CASE /\ body' = [body EXCEPT ![c].left = @ - 1, ![c].chan = "data"]
             /\ UNCHANGED <<caller, core, token>>
    <3> DEFINE e == [b EXCEPT !.left = @ - 1, !.chan = "data"]
    <3>1. e.tx /\ e.end # "cut"
      BY <2>2, <2>3 DEF EndsWell, Bodies
    <3>2. EndsWell(e)
      BY <3>1 DEF EndsWell
    <3>3. body' = [body EXCEPT ![c] = e]
      BY <1>0, <2>1, <2>2, <2>6 DEF Bodies
    <3>4. QED
      BY <2>1, <2>6, <3>2, <3>3, OneBody
  <2>7. CASE ~b.rx /\ Leave(p, "body error", b)
    <3>1. EndsWell([b EXCEPT !.tx = FALSE])
      BY <2>2, <2>7 DEF EndsWell, Bodies
    <3>2. QED
      BY <2>1, <2>7, <3>1, LeaveEndsWell
  <2>8. QED
    BY <1>5, <2>4, <2>5, <2>6, <2>7 DEF Feed
<1>6. ASSUME NEW p \in Callers, Poll(p), ~hasTimeout
      PROVE  EarlyEndAborts'
  <2> DEFINE b == body[Cur(p)]
  <2>1. Cur(p) \in Calls /\ pc[p] \in Waits
    BY <1>6, CurIsCall DEF Poll, Waits
  <2>2. b \in Bodies /\ EndsWell(b)
    BY <1>3, <1>6, <2>1
  <2>3. ~b.tx
    BY <1>6 DEF Poll, Feeding
  <2>4. EndsWell([b EXCEPT !.tx = FALSE])
    BY <2>2, <2>3 DEF EndsWell, Bodies
  <2>5. CASE slot[Cur(p)] = "empty"
    BY <1>1, <1>6, <2>5 DEF Poll
  <2>6. CASE slot[Cur(p)] = "response"
    BY <1>6, <2>1, <2>4, <2>6, LeaveEndsWell DEF Poll
  <2>7. CASE slot[Cur(p)] = "error"
    BY <1>6, <2>1, <2>4, <2>7, LeaveEndsWell DEF Poll
  <2>8. CASE slot[Cur(p)] = "closed"
    BY <1>6, <2>1, <2>4, <2>8, LeaveEndsWell DEF Poll
  <2>9. slot[Cur(p)] \in {"empty", "response", "error", "closed"}
    BY <2>1 DEF IInv, TypeOK
  <2>10. QED
    BY <2>5, <2>6, <2>7, <2>8, <2>9
<1>7. ASSUME NEW p \in Callers, TimesOut(p)
      PROVE  EarlyEndAborts'
  <2>1. hasTimeout /\ hasTimeout' = hasTimeout
    BY <1>0, <1>7 DEF TimesOut, Leave, EarlyEndAborts
  <2>2. QED
    BY <1>2, <2>1
<1>8. ASSUME NEW p \in Callers, ReadFails(p), ~hasTimeout
      PROVE  EarlyEndAborts'
  <2> DEFINE b == body[Cur(p)]
             k == IF b.rx THEN "abort" ELSE b.chan
             e == [b EXCEPT !.chan = k]
  <2>1. Cur(p) \in Calls /\ pc[p] \in Waits
    BY <1>8, CurIsCall DEF ReadFails, Waits
  <2>2. b \in Bodies /\ EndsWell(b)
    BY <1>3, <1>8, <2>1
  <2>3. EndsWell([e EXCEPT !.tx = FALSE])
    <3>1. CASE b.rx
      BY <2>2, <3>1 DEF EndsWell, Bodies
    <3>2. CASE ~b.rx
      BY <2>2, <3>2 DEF EndsWell, Bodies
    <3>3. QED
      BY <3>1, <3>2
  <2>4. Leave(p, "body error", e)
    BY <1>8 DEF ReadFails
  <2>5. QED
    BY <2>1, <2>3, <2>4, LeaveEndsWell
<1>9. ASSUME NEW p \in Callers, Expires(p)
      PROVE  EarlyEndAborts'
  BY <1>2, <1>9 DEF Expires
<1>10. ASSUME NEW how, Ends(how), ~hasTimeout
       PROVE  EarlyEndAborts'
  <2>1. ASSUME NEW c \in Calls
        PROVE  EndsWell(body'[c])
    <3>1. body[c] \in Bodies /\ EndsWell(body[c])
      BY <1>3, <1>10
    <3>2. body'[c] = [body[c] EXCEPT !.rx = FALSE]
      BY <1>10 DEF Ends
    <3>3. QED
      BY <3>1, <3>2 DEF EndsWell, Bodies
  <2>2. UNCHANGED <<hasTimeout, expired>>
    BY <1>10 DEF Ends
  <2>3. QED
    BY <1>0, <2>1, <2>2 DEF EarlyEndAborts, EndsWell
<1>11. ASSUME NEW c \in Calls, Consume(c), ~hasTimeout
       PROVE  EarlyEndAborts'
  <2> DEFINE b == body[c]
             e == [b EXCEPT !.chan = "none", !.rx = b.chan = "data",
                            !.end = IF b.chan = "abort" THEN "abort" ELSE @]
  <2>1. b \in Bodies /\ EndsWell(b) /\ b.rx /\ b.chan # "none"
    BY <1>3, <1>11 DEF Consume
  <2>2. EndsWell(e)
    <3>1. CASE b.chan = "data"
      BY <2>1, <3>1 DEF EndsWell, Bodies
    <3>2. CASE b.chan = "abort"
      BY <2>1, <3>2 DEF EndsWell, Bodies
    <3>3. QED
      BY <2>1, <3>1, <3>2 DEF Bodies
  <2>3. body' = [body EXCEPT ![c] = e]
    BY <1>0, <1>11, <2>1 DEF Consume, Bodies
  <2>4. UNCHANGED <<hasTimeout, expired>>
    BY <1>11 DEF Consume
  <2>5. QED
    BY <2>2, <2>3, <2>4, OneBody
<1>12. ASSUME NEW c \in Calls, SeeEnd(c), ~hasTimeout
       PROVE  EarlyEndAborts'
  <2> DEFINE b == body[c]
             e == [b EXCEPT !.rx = FALSE,
                            !.end = IF b.left = 0 THEN "whole" ELSE "cut"]
  <2>1. /\ b \in Bodies /\ EndsWell(b) /\ b.left \in 0..MaxChunks
        /\ b.rx /\ b.chan = "none" /\ ~b.tx
    BY <1>3, <1>12 DEF SeeEnd
  <2>2. b.left = 0
    BY <2>1, BlockingAssumption DEF EndsWell, BlockingAssumption
  <2>3. EndsWell(e)
    BY <2>1, <2>2 DEF EndsWell, Bodies
  <2>4. body' = [body EXCEPT ![c] = e]
    BY <1>0, <1>12, <2>1 DEF SeeEnd, Bodies
  <2>5. UNCHANGED <<hasTimeout, expired>>
    BY <1>12 DEF SeeEnd
  <2>6. QED
    BY <2>3, <2>4, <2>5, OneBody
<1>13. ASSUME NEW c \in Calls, Refuse(c), ~hasTimeout
       PROVE  EarlyEndAborts'
  <2>1. body[c] \in Bodies /\ EndsWell(body[c])
    BY <1>3, <1>13
  <2>2. EndsWell([body[c] EXCEPT !.rx = FALSE])
    BY <2>1 DEF EndsWell, Bodies
  <2>3. /\ body' = [body EXCEPT ![c] = [body[c] EXCEPT !.rx = FALSE]]
        /\ UNCHANGED <<hasTimeout, expired>>
    BY <1>13 DEF Refuse
  <2>4. QED
    BY <2>2, <2>3, OneBody
<1>14. CASE UNCHANGED vars
  BY <1>1, <1>14 DEF vars
<1>15. CASE \/ \E p \in Callers : New(p)
            \/ \E p \in Callers : Created(p)
            \/ \E p \in Callers : Parks(p)
            \/ \E p \in Callers : Unparks(p)
            \/ \E p \in Callers : Joined(p)
            \/ \E p \in Callers : SpuriouslyUnparks(p)
            \/ \E p \in Callers : DropClient(p)
            \/ \E p \in Callers : DropResponse(p)
            \/ \E p, q \in Callers : Clone(p, q)
            \/ Starts
            \/ Receive
            \/ \E c \in Calls : Answer(c)
            \/ \E c \in Calls : Cancels(c)
            \/ \E c \in Calls : TaskPanics(c)
  BY <1>1, <1>15 DEF New, Created, Parks, Unparks, Joined,
     SpuriouslyUnparks, DropClient, DropResponse, DropOne, Clone, Starts,
     Receive, Answer, Cancels, TaskPanics
<1>16. hasTimeout' = hasTimeout
  BY Kept DEF config
<1>17. CASE hasTimeout
  BY <1>2, <1>16, <1>17
<1>18. CASE ~hasTimeout
  BY <1>4, <1>5, <1>6, <1>7, <1>8, <1>9, <1>10, <1>11, <1>12, <1>13, <1>14,
     <1>15, <1>18 DEF Next, Step, Reads, Done, ThreadPanics, HangsUp
<1> QED
  BY <1>17, <1>18

(* The head and the tail of a queue in which each call is once.            *)
LEMMA HeadAndTail ==
    ASSUME NEW q \in Seq(Calls), q # << >>
    PROVE  /\ Head(q) = q[1] /\ 1 \in 1..Len(q)
           /\ Len(Tail(q)) = Len(q) - 1
           /\ \A i \in 1..Len(Tail(q)) :
                 Tail(q)[i] = q[i + 1] /\ i + 1 \in 1..Len(q) /\ i + 1 # 1
  OBVIOUS

LEMMA Appended ==
    ASSUME NEW q \in Seq(Calls), NEW c \in Calls
    PROVE  /\ Len(Append(q, c)) = Len(q) + 1
           /\ \A i \in 1..Len(q) : Append(q, c)[i] = q[i]
           /\ Append(q, c)[Len(q) + 1] = c
           /\ \A i \in 1..(Len(q) + 1) : i \in 1..Len(q) \/ i = Len(q) + 1
  OBVIOUS

(* Calls are queued once.                                                  *)
LEMMA QueuedPreserved == IInv /\ [Next]_vars => QueuedOnce'
<1> SUFFICES ASSUME IInv, [Next]_vars
             PROVE  QueuedOnce'
  OBVIOUS
<1>0. /\ task \in [Calls -> {"none", "queued", "running", "over"}]
      /\ queue \in Seq(Calls)
      /\ count \in [Callers -> 0..MaxCalls]
      /\ QueuedOnce
  BY DEF IInv, TypeOK
<1> USE DEF core, owners, call, caller, config
<1>1. ASSUME UNCHANGED <<count, task, queue>>
      PROVE  QueuedOnce'
  BY <1>0, <1>1 DEF QueuedOnce
<1>2. ASSUME NEW p \in Callers, Send(p)
      PROVE  QueuedOnce'
  <2> DEFINE c == <<p, count[p] + 1>>
  <2>1. c \in Calls /\ count[p] \in Nat
    BY <1>2, NextCall, BlockingAssumption DEF Send, IInv
  <2>2. task[c] = "none"
    BY <1>0, <2>1 DEF QueuedOnce
  <2>3. count' = [count EXCEPT ![p] = count[p] + 1]
    BY <1>2 DEF Send
  <2>4. \A d \in Calls : d[2] > count'[d[1]] =>
            d # c /\ d[2] > count[d[1]]
    <3>1. ASSUME NEW d \in Calls, d[2] > count'[d[1]]
          PROVE  d # c /\ d[2] > count[d[1]]
      <4>1. d[1] \in Callers /\ d[2] \in Nat
        BY BlockingAssumption DEF Calls, BlockingAssumption
      <4>2. CASE d[1] = p
        BY <1>0, <2>1, <2>3, <3>1, <4>1, <4>2
      <4>3. CASE d[1] # p
        BY <1>0, <2>3, <3>1, <4>1, <4>3
      <4>4. QED
        BY <4>2, <4>3
    <3>2. QED
      BY <3>1
  <2>5. CASE runtime = "running"
    <3>1. task' = [task EXCEPT ![c] = "queued"] /\ queue' = Append(queue, c)
      BY <1>2, <2>5 DEF Send
    <3>2. \A d \in Calls : d[2] > count'[d[1]] => task'[d] = "none"
      BY <1>0, <2>4, <3>1 DEF QueuedOnce
    <3>3. \A i \in 1..Len(queue) : /\ queue[i] \in Calls /\ queue[i] # c
                                   /\ task[queue[i]] = "queued"
      BY <1>0, <2>2 DEF QueuedOnce
    <3>4. \A i \in 1..Len(queue') : task'[queue'[i]] = "queued"
      BY <1>0, <2>1, <3>1, <3>3, Appended
    <3>5. \A i, j \in 1..Len(queue') : i # j => queue'[i] # queue'[j]
      BY <1>0, <2>1, <3>1, <3>3, Appended DEF QueuedOnce
    <3>6. QED
      BY <3>2, <3>4, <3>5 DEF QueuedOnce
  <2>6. CASE runtime # "running"
    BY <1>0, <1>2, <2>4, <2>6 DEF Send, QueuedOnce
  <2>7. QED
    BY <2>5, <2>6
<1>3. CASE Receive
  <2>1. /\ queue # << >>
        /\ task' = [task EXCEPT ![Head(queue)] = "running"]
        /\ queue' = Tail(queue) /\ count' = count
    BY <1>3 DEF Receive
  <2>2. Head(queue) = queue[1] /\ 1 \in 1..Len(queue)
    BY <1>0, <2>1, HeadAndTail
  <2>3. task[queue[1]] = "queued"
    BY <1>0, <2>2 DEF QueuedOnce
  <2>4. \A d \in Calls : d[2] > count'[d[1]] => task'[d] = "none"
    BY <1>0, <2>1, <2>2, <2>3 DEF QueuedOnce
  <2>5. \A i \in 1..Len(queue') : /\ queue'[i] = queue[i + 1]
                                  /\ i + 1 \in 1..Len(queue) /\ i + 1 # 1
    BY <1>0, <2>1, HeadAndTail
  <2>6. \A i \in 1..Len(queue') : task'[queue'[i]] = "queued"
    <3>1. ASSUME NEW i \in 1..Len(queue')
          PROVE  task'[queue'[i]] = "queued"
      <4>1. queue'[i] = queue[i + 1] /\ i + 1 \in 1..Len(queue)
        BY <2>5
      <4>2. queue[i + 1] # queue[1] /\ task[queue[i + 1]] = "queued"
        BY <1>0, <2>2, <2>5, <4>1 DEF QueuedOnce
      <4>3. queue[i + 1] \in Calls
        BY <1>0, <4>1
      <4>4. QED
        BY <1>0, <2>1, <2>2, <4>1, <4>2, <4>3
    <3>2. QED
      BY <3>1
  <2>7. \A i, j \in 1..Len(queue') : i # j => queue'[i] # queue'[j]
    <3>1. ASSUME NEW i \in 1..Len(queue'), NEW j \in 1..Len(queue'), i # j
          PROVE  queue'[i] # queue'[j]
      <4>1. i + 1 # j + 1
        BY <3>1
      <4>2. QED
        BY <1>0, <2>5, <4>1 DEF QueuedOnce
    <3>2. QED
      BY <3>1
  <2>8. QED
    BY <2>4, <2>6, <2>7 DEF QueuedOnce
<1>4. ASSUME NEW c \in Calls, task[c] = "running",
             task' = [task EXCEPT ![c] = "over"],
             UNCHANGED <<count, queue>>
      PROVE  QueuedOnce'
  BY <1>0, <1>4 DEF QueuedOnce
<1>5. ASSUME NEW how, Ends(how)
      PROVE  QueuedOnce'
  <2>1. queue' = << >> /\ count' = count
    BY <1>5 DEF Ends
  <2>2. \A c \in Calls : task[c] = "none" => task'[c] = "none"
    BY <1>5 DEF Ends, Unanswered
  <2>3. QED
    BY <1>0, <2>1, <2>2 DEF QueuedOnce
<1>6. CASE UNCHANGED vars
  BY <1>1, <1>6 DEF vars
<1>7. ASSUME NEW p \in Callers,
             \/ New(p) \/ Created(p) \/ Parks(p) \/ Unparks(p) \/ Joined(p)
             \/ SpuriouslyUnparks(p) \/ Expires(p)
             \/ DropClient(p) \/ DropResponse(p)
      PROVE  QueuedOnce'
  BY <1>1, <1>7 DEF New, Created, Parks, Unparks, Joined,
     SpuriouslyUnparks, Expires, DropClient, DropResponse, DropOne
<1>8. ASSUME NEW p \in Callers, Feed(p)
      PROVE  QueuedOnce'
  BY <1>1, <1>8 DEF Feed, Leave
<1>9. ASSUME NEW p \in Callers, Poll(p)
      PROVE  QueuedOnce'
  <2>1. CASE slot[Cur(p)] = "empty"
    BY <1>1, <1>9, <2>1 DEF Poll
  <2>2. CASE slot[Cur(p)] # "empty"
    BY <1>1, <1>9, <2>2, PollLeaves DEF Leave
  <2>3. QED
    BY <2>1, <2>2
<1>10. ASSUME NEW p \in Callers, TimesOut(p) \/ ReadFails(p)
       PROVE  QueuedOnce'
  BY <1>1, <1>10 DEF TimesOut, ReadFails, Leave
<1>11. CASE (\E p, q \in Callers : Clone(p, q)) \/ Starts
  BY <1>1, <1>11 DEF Clone, Starts
<1>12. ASSUME NEW c \in Calls, Answer(c) \/ Cancels(c) \/ TaskPanics(c)
       PROVE  QueuedOnce'
  BY <1>4, <1>12 DEF Answer, Cancels, TaskPanics
<1>13. ASSUME NEW c \in Calls, Consume(c) \/ SeeEnd(c) \/ Refuse(c)
       PROVE  QueuedOnce'
  BY <1>1, <1>13 DEF Consume, SeeEnd, Refuse
<1> QED
  BY <1>2, <1>3, <1>5, <1>6, <1>7, <1>8, <1>9, <1>10, <1>11, <1>12, <1>13
  DEF Next, Step, Reads, Done, ThreadPanics, HangsUp

(* No outcome comes before the end of a call.                              *)
LEMMA UndecidedPreserved == IInv /\ [Next]_vars => Undecided'
<1> SUFFICES ASSUME IInv, [Next]_vars, NEW c \in Calls,
                    c[2] > count'[c[1]] \/ Listening(c)'
             PROVE  outcome'[c] = "none"
  BY DEF Undecided
<1>0. /\ pc \in [Callers -> Waits \cup {"free", "creating", "joining"}]
      /\ count \in [Callers -> 0..MaxCalls] /\ MaxCalls \in Nat
      /\ outcome \in [Calls -> {"none", "response", "error", "timeout",
                                "body error", "canceled", "dead"}]
      /\ c[1] \in Callers /\ c[2] \in Nat /\ c = <<c[1], c[2]>>
      /\ c[2] > count[c[1]] \/ Listening(c) => outcome[c] = "none"
      /\ \A p \in Callers : count[p] \in Nat
  BY BlockingAssumption, CallParts, CountsAreNumbers
  DEF IInv, TypeOK, Undecided, BlockingAssumption
<1> USE DEF core, owners, call, caller, config
<1>1. ASSUME UNCHANGED <<count, outcome>>,
             pc'[c[1]] \in Waits => pc[c[1]] \in Waits
      PROVE  outcome'[c] = "none"
  BY <1>0, <1>1 DEF Listening, Cur
<1>2. ASSUME NEW p \in Callers, Send(p)
      PROVE  outcome'[c] = "none"
  <2> DEFINE n == <<p, count[p] + 1>>
  <2>1. count' = [count EXCEPT ![p] = count[p] + 1] /\ count[p] \in Nat
        /\ pc[p] = "free"
    BY <1>0, <1>2 DEF Send
  <2> HIDE DEF n
  <2>2. CASE c[1] # p
    <3>1. outcome'[c] = outcome[c]
      <4>1. c # n
        BY <2>2 DEF n
      <4>2. outcome' = outcome \/ outcome' = [outcome EXCEPT ![n] = "dead"]
        BY <1>2 DEF Send, n
      <4>3. QED
        BY <1>0, <4>1, <4>2
    <3>2. count'[c[1]] = count[c[1]] /\ pc'[c[1]] = pc[c[1]]
      BY <1>0, <1>2, <2>1, <2>2 DEF Send
    <3>3. QED
      BY <1>0, <3>1, <3>2 DEF Listening, Cur
  <2>3. CASE c[1] = p
    <3>1. count'[p] = count[p] + 1
      BY <1>0, <2>1
    <3>2. c[2] > count[p]
      <4>1. CASE c[2] > count'[c[1]]
        <5>1. c[2] > count[p] + 1 /\ c[2] \in Nat /\ count[p] \in Nat
          BY <1>0, <2>1, <2>3, <3>1, <4>1
        <5>2. QED
          BY <5>1
      <4>2. CASE Listening(c)'
        <5>1. c = <<p, count[p] + 1>>
          BY <2>3, <3>1, <4>2 DEF Listening, Cur
        <5>2. QED
          BY <2>1, <5>1
      <4>3. QED
        BY <4>1, <4>2
    <3>3. outcome[c] = "none"
      BY <1>0, <2>3, <3>2
    <3>4. CASE runtime = "running"
      BY <1>2, <3>3, <3>4 DEF Send
    <3>5. CASE runtime # "running"
      <4>1. pc' = pc /\ outcome' = [outcome EXCEPT ![n] = "dead"]
        BY <1>2, <3>5 DEF Send, n
      <4>2. pc'[c[1]] \notin Waits
        BY <2>1, <2>3, <4>1 DEF Waits
      <4>3. c[2] > count[p] + 1
        BY <2>3, <3>1, <4>2 DEF Listening
      <4>4. c # n
        <5>1. c = n => c[2] = count[p] + 1
          BY DEF n
        <5>2. count[p] \in Nat
          BY <2>1
        <5>3. QED
          BY <4>3, <5>1, <5>2
      <4>5. QED
        BY <3>3, <4>1, <4>4
    <3>6. QED
      BY <3>4, <3>5
  <2>4. QED
    BY <2>2, <2>3
<1>3. ASSUME NEW p \in Callers, NEW how, NEW b, Leave(p, how, b)
      PROVE  outcome'[c] = "none"
  <2>1. /\ count' = count /\ pc' = [pc EXCEPT ![p] = "free"]
        /\ outcome' = [outcome EXCEPT ![Cur(p)] = how]
    BY <1>3 DEF Leave
  <2>2. c # Cur(p)
    <3>1. c = Cur(p) => c[1] = p /\ c[2] = count[p]
      BY DEF Cur
    <3>2. count[p] \in Nat /\ count'[p] = count[p] /\ pc'[p] = "free"
      BY <1>0, <2>1
    <3>3. c[2] > count'[c[1]] \/ pc'[c[1]] \in Waits
      BY DEF Listening
    <3>4. QED
      BY <3>1, <3>2, <3>3 DEF Waits
  <2>3. c[2] > count[c[1]] \/ Listening(c)
    BY <1>0, <2>1 DEF Listening, Cur, Waits
  <2>4. QED
    BY <1>0, <2>1, <2>2, <2>3
<1>4. ASSUME NEW p \in Callers, Feed(p)
      PROVE  outcome'[c] = "none"
  <2>1. pc[p] = "polling"
    BY <1>4 DEF Feed
  <2>2. CASE Leave(p, "body error", body[Cur(p)])
    BY <1>3, <2>2
  <2>3. CASE UNCHANGED <<count, outcome>> /\ pc' = [pc EXCEPT ![p] = "checking"]
    BY <1>0, <1>1, <2>1, <2>3 DEF Waits
  <2>4. CASE UNCHANGED <<count, outcome, pc>>
    BY <1>1, <2>4
  <2>5. QED
    BY <1>4, <2>2, <2>3, <2>4 DEF Feed
<1>5. ASSUME NEW p \in Callers, Poll(p)
      PROVE  outcome'[c] = "none"
  <2>1. pc[p] = "polling"
    BY <1>5 DEF Poll
  <2>2. CASE slot[Cur(p)] = "empty"
    BY <1>0, <1>1, <1>5, <2>1, <2>2 DEF Poll, Waits
  <2>3. CASE slot[Cur(p)] # "empty"
    <3>1. \E how : Leave(p, how, body[Cur(p)])
      BY <1>5, <2>3, PollLeaves
    <3>2. QED
      BY <1>3, <3>1
  <2>4. QED
    BY <2>2, <2>3
<1>6. ASSUME NEW p \in Callers, TimesOut(p) \/ ReadFails(p)
      PROVE  outcome'[c] = "none"
  BY <1>3, <1>6 DEF TimesOut, ReadFails
<1>7. ASSUME NEW p \in Callers,
             \/ New(p) \/ Created(p) \/ Parks(p) \/ Unparks(p) \/ Joined(p)
             \/ SpuriouslyUnparks(p)
      PROVE  outcome'[c] = "none"
  BY <1>0, <1>1, <1>7 DEF New, Created, Parks, Unparks, Joined,
     SpuriouslyUnparks, Waits
<1>8. ASSUME NEW p \in Callers, DropClient(p) \/ DropResponse(p)
      PROVE  outcome'[c] = "none"
  BY <1>0, <1>1, <1>8 DEF DropClient, DropResponse, DropOne, Waits
<1>9. CASE \/ \E p, q \in Callers : Clone(p, q)
           \/ \E p \in Callers : Expires(p)
           \/ Starts \/ Receive \/ \E how : Ends(how)
           \/ UNCHANGED vars
  BY <1>1, <1>9 DEF Clone, Expires, Starts, Receive, Ends, vars
<1>10. ASSUME NEW d \in Calls,
              \/ Answer(d) \/ Cancels(d) \/ TaskPanics(d)
              \/ Consume(d) \/ SeeEnd(d) \/ Refuse(d)
       PROVE  outcome'[c] = "none"
  BY <1>1, <1>10 DEF Answer, Cancels, TaskPanics, Consume, SeeEnd, Refuse
<1> QED
  BY <1>2, <1>4, <1>5, <1>6, <1>7, <1>8, <1>9, <1>10
  DEF Next, Step, Reads, Done, ThreadPanics, HangsUp

(* A step that leaves an answered call alone.                              *)
LEMMA StaysAnswered ==
    ASSUME NEW c \in Calls, Answered(c),
           slot'[c] = slot[c], task'[c] = task[c],
           body'[c].tx = body[c].tx, outcome'[c] = outcome[c],
           Listening(c)' => /\ Listening(c)
                            /\ \/ pc'[c[1]] = pc[c[1]]
                               \/ pc'[c[1]] = "polling"
    PROVE  Answered(c)'
  BY DEF Answered

(* ... because it is another call that its thread leaves.                  *)
LEMMA LeavesOther ==
    ASSUME IInv, NEW c \in Calls, Answered(c), NEW p \in Callers,
           NEW how, NEW b \in Bodies, Leave(p, how, b),
           c = Cur(p) => how # "timeout"
    PROVE  Answered(c)'
<1>1. /\ pc \in [Callers -> Waits \cup {"free", "creating", "joining"}]
      /\ body \in [Calls -> Bodies] /\ c[1] \in Callers
      /\ outcome \in [Calls -> {"none", "response", "error", "timeout",
                                "body error", "canceled", "dead"}]
  BY DEF IInv, TypeOK, Calls
<1>2. /\ pc' = [pc EXCEPT ![p] = "free"]
      /\ outcome' = [outcome EXCEPT ![Cur(p)] = how]
      /\ body' = [body EXCEPT ![Cur(p)] = [b EXCEPT !.tx = FALSE]]
      /\ UNCHANGED <<slot, task, count>>
  BY DEF Leave, core
<1>3. ~Listening(c)' \/ (Listening(c) /\ pc'[c[1]] = pc[c[1]])
  BY <1>1, <1>2 DEF Listening, Cur, Waits
<1>4. CASE c # Cur(p)
  <2>1. body'[c] = body[c] /\ outcome'[c] = outcome[c]
    BY <1>1, <1>2, <1>4
  <2>2. QED
    BY <1>2, <1>3, <2>1, StaysAnswered
<1>5. CASE c = Cur(p)
  <2>1. ~Listening(c)'
    BY <1>1, <1>2, <1>5 DEF Listening, Cur, Waits
  <2>2. outcome'[c] = how /\ body'[c] = [b EXCEPT !.tx = FALSE]
    BY <1>1, <1>2, <1>5
  <2>3. ~body'[c].tx
    BY <2>2 DEF Bodies
  <2>4. QED
    BY <1>2, <1>5, <2>1, <2>2, <2>3 DEF Answered
<1>6. QED
  BY <1>4, <1>5

(* An answer that comes to a parked thread is not lost from there on.      *)
LEMMA ParkedPreserved == IInv /\ [Next]_vars => ParkedAreAnswered'
<1>0. ASSUME IInv
      PROVE  /\ pc \in [Callers -> Waits \cup {"free", "creating", "joining"}]
             /\ count \in [Callers -> 0..MaxCalls] /\ MaxCalls \in Nat
             /\ task \in [Calls -> {"none", "queued", "running", "over"}]
             /\ slot \in [Calls -> {"empty", "response", "error", "closed"}]
             /\ body \in [Calls -> Bodies]
             /\ outcome \in [Calls -> {"none", "response", "error", "timeout",
                                       "body error", "canceled", "dead"}]
             /\ queue \in Seq(Calls) /\ parked \subseteq Calls
  BY <1>0, BlockingAssumption DEF IInv, TypeOK, BlockingAssumption
<1> USE DEF core, owners, call, caller, config
<1>1. ASSUME IInv, NEW d \in Calls, Answer(d)
      PROVE  ParkedAreAnswered'
  <2> SUFFICES ASSUME NEW c \in parked'
               PROVE  Answered(c)'
    BY DEF ParkedAreAnswered
  <2>1. /\ task[d] = "running" /\ task' = [task EXCEPT ![d] = "over"]
        /\ slot' \in {[slot EXCEPT ![d] = v] : v \in {"response", "error"}}
        /\ UNCHANGED <<pc, count, outcome, body>>
    BY <1>1 DEF Answer
  <2>2. CASE c \in parked
    <3>1. c \in Calls /\ Answered(c)
      BY <1>0, <1>1, <2>2 DEF IInv, ParkedAreAnswered
    <3>2. c # d
      BY <2>1, <3>1 DEF Answered
    <3>3. slot'[c] = slot[c] /\ task'[c] = task[c]
      BY <1>0, <1>1, <2>1, <3>1, <3>2
    <3>4. QED
      BY <2>1, <3>1, <3>3, StaysAnswered DEF Listening, Cur
  <2>3. CASE c \notin parked
    <3>1. c = d /\ Listening(d) /\ pc[d[1]] = "parked" /\ ~Feeding(d)
      BY <1>1, <2>3 DEF Answer
    <3>2. outcome[d] = "none"
      BY <1>1, <3>1 DEF IInv, Undecided
    <3>3. slot'[d] \in {"response", "error"} /\ task'[d] = "over"
      BY <1>0, <1>1, <2>1
    <3>4. QED
      BY <2>1, <3>1, <3>2, <3>3 DEF Answered, Feeding
  <2>4. QED
    BY <2>2, <2>3
<1>2. ASSUME IInv, [Next]_vars, \A d \in Calls : ~Answer(d)
      PROVE  parked' = parked
  BY <1>2, Kept
<1> SUFFICES ASSUME IInv, [Next]_vars, \A d \in Calls : ~Answer(d),
                    NEW c \in parked
             PROVE  Answered(c)'
  BY <1>1, <1>2 DEF ParkedAreAnswered
<1>3. /\ c \in Calls /\ Answered(c) /\ task[c] = "over"
      /\ c[1] \in Callers /\ c[2] \in Nat /\ c = <<c[1], c[2]>>
  <2>1. c \in Calls /\ Answered(c)
    BY <1>0 DEF IInv, ParkedAreAnswered
  <2>2. QED
    BY <2>1, CallParts, BlockingAssumption DEF Answered
<1>4. ASSUME UNCHANGED <<slot, task, outcome, pc, count>>,
             body'[c].tx = body[c].tx
      PROVE  Answered(c)'
  BY <1>3, <1>4, StaysAnswered DEF Listening, Cur
<1>5. ASSUME UNCHANGED <<slot, task, outcome, body, count>>,
             NEW p \in Callers,
             NEW to \in {"free", "creating", "joining", "polling"},
             pc' = [pc EXCEPT ![p] = to],
             to = "polling" => pc[p] \in Waits
      PROVE  Answered(c)'
  <2>1. Listening(c)' => /\ Listening(c)
                         /\ pc'[c[1]] \in {pc[c[1]], "polling"}
    BY <1>0, <1>3, <1>5 DEF Listening, Cur, Waits
  <2>2. QED
    BY <1>3, <1>5, <2>1, StaysAnswered
<1>6. ASSUME NEW p \in Callers, Send(p)
      PROVE  Answered(c)'
  <2> DEFINE n == <<p, count[p] + 1>>
  <2>1. /\ n \in Calls /\ count[p] \in Nat
        /\ count' = [count EXCEPT ![p] = count[p] + 1]
    BY <1>6, NextCall, BlockingAssumption DEF Send, IInv
  <2>2. task[n] = "none"
    BY <2>1 DEF IInv, QueuedOnce
  <2>3. c # n
    BY <1>3, <2>2
  <2>4. /\ slot' = slot /\ task'[c] = task[c] /\ outcome'[c] = outcome[c]
        /\ body'[c] = body[c]
    BY <1>0, <1>3, <1>6, <2>3 DEF Send
  <2>5. Listening(c)' => Listening(c) /\ pc'[c[1]] = pc[c[1]]
    <3>1. CASE c[1] = p
      BY <1>0, <1>3, <2>1, <2>3, <3>1 DEF Listening, Cur
    <3>2. CASE c[1] # p
      <4>1. pc'[c[1]] = pc[c[1]] /\ count'[c[1]] = count[c[1]]
        BY <1>0, <1>3, <1>6, <2>1, <3>2 DEF Send
      <4>2. QED
        BY <4>1 DEF Listening, Cur
    <3>3. QED
      BY <3>1, <3>2
  <2>6. QED
    BY <1>3, <2>4, <2>5, StaysAnswered
<1>7. ASSUME NEW p \in Callers, pc[p] = "checking",
             pc' = [pc EXCEPT ![p] = "parked"],
             UNCHANGED <<slot, task, outcome, body, count>>
      PROVE  Answered(c)'
  <2>1. Listening(c)' => Listening(c) /\ pc'[c[1]] = pc[c[1]]
    BY <1>0, <1>3, <1>7 DEF Listening, Cur, Waits, Answered
  <2>2. QED
    BY <1>3, <1>7, <2>1, StaysAnswered
<1>8. ASSUME NEW p \in Callers, Feed(p)
      PROVE  Answered(c)'
  <2> DEFINE b == body[Cur(p)]
  <2>1. pc[p] = "polling" /\ b.tx /\ Cur(p) \in Calls
    BY <1>8, CurIsCall DEF Feed, Feeding, Waits
  <2>2. c # Cur(p) /\ b \in Bodies
    BY <1>0, <1>3, <2>1 DEF Answered
  <2>3. CASE /\ pc' = [pc EXCEPT ![p] = "checking"]
             /\ UNCHANGED <<core, call, owners, body, token>>
    <3>1. Listening(c)' => Listening(c) /\ pc'[c[1]] = pc[c[1]]
      BY <1>0, <1>3, <2>2, <2>3 DEF Listening, Cur
    <3>2. QED
      BY <1>3, <2>3, <3>1, StaysAnswered
  <2>4. CASE body'[c] = body[c] /\ UNCHANGED <<caller, core, token>>
    BY <1>4, <2>4
  <2>5. CASE Leave(p, "body error", b)
    BY <1>3, <2>2, <2>5, LeavesOther
  <2>6. QED
    BY <1>0, <1>3, <1>8, <2>2, <2>3, <2>4, <2>5 DEF Feed
<1>9. ASSUME NEW p \in Callers, Poll(p)
      PROVE  Answered(c)'
  <2>1. pc[p] = "polling" /\ Cur(p) \in Calls
    BY <1>9, CurIsCall DEF Poll, Waits
  <2>2. CASE slot[Cur(p)] = "empty"
    <3>1. c # Cur(p)
      BY <1>3, <2>2 DEF Answered
    <3>2. /\ pc' = [pc EXCEPT ![p] = "checking"]
          /\ UNCHANGED <<core, call, owners, body, token>>
      BY <1>9, <2>2 DEF Poll
    <3>3. Listening(c)' => Listening(c) /\ pc'[c[1]] = pc[c[1]]
      BY <1>0, <1>3, <3>1, <3>2 DEF Listening, Cur
    <3>4. QED
      BY <1>3, <3>2, <3>3, StaysAnswered
  <2>3. CASE slot[Cur(p)] # "empty"
    <3>1. PICK how \in {"response", "error", "canceled"} :
                 Leave(p, how, body[Cur(p)])
      BY <1>9, <2>3, PollLeaves
    <3>2. body[Cur(p)] \in Bodies
      BY <1>0, <2>1
    <3>3. QED
      BY <1>3, <3>1, <3>2, LeavesOther
  <2>4. QED
    BY <2>2, <2>3
<1>10. ASSUME NEW p \in Callers, TimesOut(p)
       PROVE  Answered(c)'
  <2>1. /\ pc[p] = "checking" /\ body[Cur(p)] \in Bodies
        /\ Leave(p, "timeout", body[Cur(p)])
    BY <1>0, <1>10, CurIsCall DEF TimesOut, Waits
  <2>2. c # Cur(p)
    BY <1>3, <2>1 DEF Answered, Listening, Cur, Waits
  <2>3. QED
    BY <1>3, <2>1, <2>2, LeavesOther
<1>11. ASSUME NEW p \in Callers, ReadFails(p)
       PROVE  Answered(c)'
  <2> DEFINE b == body[Cur(p)]
             k == IF b.rx THEN "abort" ELSE b.chan
  <2>1. b \in Bodies
    BY <1>0, <1>11, CurIsCall DEF ReadFails, Waits
  <2>2. [b EXCEPT !.chan = k] \in Bodies
    BY <2>1 DEF Bodies
  <2>3. Leave(p, "body error", [b EXCEPT !.chan = k])
    BY <1>11 DEF ReadFails
  <2>4. QED
    BY <1>3, <2>2, <2>3, LeavesOther
<1>12. ASSUME NEW p \in Callers,
              New(p) \/ Created(p) \/ Unparks(p) \/ Joined(p)
              \/ SpuriouslyUnparks(p)
       PROVE  Answered(c)'
  <2>1. CASE New(p)
    BY <1>5, <2>1 DEF New
  <2>2. CASE Created(p)
    BY <1>5, <2>2 DEF Created
  <2>3. CASE Unparks(p)
    BY <1>5, <2>3 DEF Unparks, Waits
  <2>4. CASE Joined(p)
    BY <1>5, <2>4 DEF Joined
  <2>5. CASE SpuriouslyUnparks(p)
    BY <1>5, <2>5 DEF SpuriouslyUnparks, Waits
  <2>6. QED
    BY <1>12, <2>1, <2>2, <2>3, <2>4, <2>5
<1>13. ASSUME NEW p \in Callers, DropClient(p) \/ DropResponse(p)
       PROVE  Answered(c)'
  <2>1. /\ pc[p] = "free"
        /\ \/ pc' = [pc EXCEPT ![p] = "joining"]
           \/ pc' = [pc EXCEPT ![p] = "free"]
        /\ UNCHANGED <<slot, task, outcome, body, count>>
    BY <1>0, <1>13 DEF DropClient, DropResponse, DropOne
  <2>2. QED
    BY <1>5, <2>1
<1>14. ASSUME NEW p \in Callers, Parks(p)
       PROVE  Answered(c)'
  BY <1>7, <1>14 DEF Parks
<1>15. CASE Receive
  <2>1. /\ queue # << >> /\ task' = [task EXCEPT ![Head(queue)] = "running"]
        /\ UNCHANGED <<slot, outcome, pc, count, body>>
    BY <1>15 DEF Receive
  <2>2. task[Head(queue)] = "queued"
    BY <1>0, <2>1, HeadAndTail DEF IInv, QueuedOnce
  <2>3. task'[c] = task[c]
    BY <1>0, <1>3, <2>1, <2>2
  <2>4. QED
    BY <1>3, <2>1, <2>3, StaysAnswered DEF Listening, Cur
<1>16. ASSUME NEW d \in Calls, Cancels(d) \/ TaskPanics(d)
       PROVE  Answered(c)'
  <2>1. /\ task[d] = "running" /\ task' = [task EXCEPT ![d] = "over"]
        /\ slot' \in {slot, [slot EXCEPT ![d] = "closed"]}
        /\ UNCHANGED <<outcome, pc, count, body>>
    BY <1>16 DEF Cancels, TaskPanics
  <2>2. c # d
    BY <1>3, <2>1
  <2>3. task'[c] = task[c] /\ slot'[c] = slot[c]
    BY <1>0, <1>3, <2>1, <2>2
  <2>4. QED
    BY <1>3, <2>1, <2>3, StaysAnswered DEF Listening, Cur
<1>17. ASSUME NEW how, Ends(how)
       PROVE  Answered(c)'
  <2>1. c \notin Unanswered
    BY <1>3 DEF Unanswered
  <2>2. task'[c] = task[c] /\ slot'[c] = slot[c]
    BY <1>3, <1>17, <2>1 DEF Ends
  <2>3. body'[c] = [body[c] EXCEPT !.rx = FALSE] /\ body[c] \in Bodies
    BY <1>0, <1>3, <1>17 DEF Ends
  <2>4. body'[c].tx = body[c].tx
    BY <2>3 DEF Bodies
  <2>5. UNCHANGED <<outcome, pc, count>>
    BY <1>17 DEF Ends
  <2>6. QED
    BY <1>3, <2>2, <2>4, <2>5, StaysAnswered DEF Listening, Cur
<1>18. ASSUME NEW d \in Calls, Consume(d) \/ SeeEnd(d) \/ Refuse(d)
       PROVE  Answered(c)'
  <2>1. body[c] \in Bodies /\ body[d] \in Bodies
    BY <1>0, <1>3
  <2>2. body'[c].tx = body[c].tx
    <3>1. CASE Consume(d)
      BY <1>0, <1>3, <2>1, <3>1 DEF Consume, Bodies
    <3>2. CASE SeeEnd(d)
      BY <1>0, <1>3, <2>1, <3>2 DEF SeeEnd, Bodies
    <3>3. CASE Refuse(d)
      BY <1>0, <1>3, <2>1, <3>3 DEF Refuse, Bodies
    <3>4. QED
      BY <1>18, <3>1, <3>2, <3>3
  <2>3. UNCHANGED <<slot, task, outcome, pc, count>>
    BY <1>18 DEF Consume, SeeEnd, Refuse
  <2>4. QED
    BY <1>4, <2>2, <2>3
<1>19. CASE \/ \E p, q \in Callers : Clone(p, q)
            \/ \E p \in Callers : Expires(p)
            \/ Starts \/ UNCHANGED vars
  BY <1>4, <1>19 DEF Clone, Expires, Starts, vars
<1> QED
  BY <1>6, <1>8, <1>9, <1>10, <1>11, <1>12, <1>13, <1>14, <1>15, <1>16,
     <1>17, <1>18, <1>19 DEF Next, Step, Reads, Done, ThreadPanics, HangsUp

(* The inductive invariant, for any threads, calls and chunks.             *)
THEOREM BlockingInvariant == Spec => []IInv
<1>1. IInv /\ [Next]_vars => IInv'
  BY TypePreserved, HandlePreserved, PanicsPreserved, EarlyEndPreserved,
     QueuedPreserved, UndecidedPreserved, ParkedPreserved DEF IInv
<1>2. QED
  BY IInvInitially, <1>1, PTL DEF Spec

(* Every variable has its type.                                            *)
THEOREM BlockingTypes == Spec => []TypeOK
<1>1. IInv => TypeOK
  BY DEF IInv
<1>2. QED
  BY <1>1, BlockingInvariant, PTL

(* The runtime thread is not shut down while a thread has a Client, a      *)
(* Response or a call under way.                                           *)
THEOREM RuntimeStays == Spec => []RuntimeOutlivesUsers
<1>1. IInv => RuntimeOutlivesUsers
  BY DEF IInv, HandleKeepsRuntime, Holders, RuntimeOutlivesUsers
<1>2. QED
  BY <1>1, BlockingInvariant, PTL

(* Unless user code panics, no call finds its oneshot or channel closed.   *)
THEOREM NobodyElsePanics == Spec => []PanicsOnlyAfterPanic
<1>1. IInv => PanicsOnlyAfterPanic
  BY DEF IInv
<1>2. QED
  BY <1>1, BlockingInvariant, PTL

(* An answer that comes while its caller is parked is not lost to the      *)
(* timeout.                                                                *)
THEOREM AnswersWin == Spec => []AnswerBeatsTimeout
<1>1. IInv => AnswerBeatsTimeout
  BY DEF IInv, ParkedAreAnswered, Answered, AnswerBeatsTimeout
<1>2. QED
  BY <1>1, BlockingInvariant, PTL

(* Without a timeout no connection takes a cut body for complete.          *)
THEOREM CutBodiesAbort == Spec => []CompleteOrAborted
<1>1. IInv => CompleteOrAborted
  BY DEF IInv, EarlyEndAborts, EndsWell, CompleteOrAborted
<1>2. QED
  BY <1>1, BlockingInvariant, PTL
=============================================================================
