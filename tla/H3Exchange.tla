------------------------------ MODULE H3Exchange ------------------------------
(***************************************************************************)
(* One HTTP/3 exchange: H3Connector::connect (h3_client/connect.rs) makes  *)
(* the connection, PoolClient::send_request (h3_client/pool.rs) spawns a   *)
(* task that sends the body and reports over a oneshot, races that report  *)
(* against the response's head, and leaves the receiver to Incoming, the   *)
(* response's body.                                                        *)
(*                                                                         *)
(* Three parties act: the caller, who polls the future and then the body;  *)
(* the task, which nobody aborts; and the peer, over a connection that may *)
(* be lost.  A body is its number of data frames, whether trailers follow, *)
(* what ends it, and the exact size it hints at, if any.  Module H3Pool    *)
(* has what stands between connect and send_request.                       *)
(***************************************************************************)
EXTENDS Naturals, Sequences, SequencesExt

CONSTANTS None,       \* no value
          AddressLists, \* what the resolver may answer
          BodySet,     \* request bodies
          MaxChunks    \* bound: data frames of a response

ASSUME ExchangeAssumption ==
    /\ MaxChunks \in Nat
    /\ AddressLists \subseteq Seq({"v4", "v6"})
    /\ BodySet \subseteq [data : Nat, trailers : BOOLEAN, exact : BOOLEAN,
                          ends : {"end", "error", "panic", "never"}]

VARIABLES bound,    \* the family of the address the endpoint is bound to
          dial,     \* the addresses still to be tried
          refused,  \* history: the addresses that failed
          body,     \* the request's body
          length,   \* the request's Content-Length, or None
          caller,   \* where the caller's future is, then its response's body
          task,     \* where the spawned task is
          taken,    \* frames the task took from the body
          report,   \* the value of the oneshot
          seen,     \* its receiver has been polled to completion
          parked,   \* the response's body was polled and had nothing
          stream,   \* the send half, as this end left it
          got,      \* the data frames written to the stream
          stop,     \* whether, and how, the peer stopped reading the request
          resp,     \* what the peer has sent: its head, its chunks, its end
          read,     \* chunks of the response the caller was given
          up        \* the connection is not lost

vars == <<bound, dial, refused, body, length, caller, task, taken, report,
          seen, parked, stream, got, stop, resp, read, up>>

dialing == <<bound, dial, refused>>
request == <<body, length>>
sending == <<task, taken, stream, got>>
peer == <<stop, resp, up>>

Callers == {"resolving", "dialing", "opening", "waiting", "reading",
            "complete", "failed", "dropped"}

TypeOK ==
    /\ bound \in {"v4", "v6"}
    /\ dial \in Seq({"v4", "v6"}) /\ refused \in Seq({"v4", "v6"})
    /\ body \in BodySet
    /\ length \in Nat \cup {None}
    /\ caller \in Callers
    /\ task \in {"none", "reading", "sending", "finishing", "over"}
    /\ taken \in 0..(body.data + 1)
    /\ report \in {"empty", "ok", "error", "closed"}
    /\ seen \in BOOLEAN /\ parked \in BOOLEAN
    /\ stream \in {"none", "open", "finished", "left"}
    /\ got \in Seq(Nat)
    /\ stop \in {"no", "quietly", "error"}
    /\ resp \in [head : BOOLEAN, chunks : 0..MaxChunks,
                 end : {"open", "end", "reset"}]
    /\ read \in 0..MaxChunks
    /\ up \in BOOLEAN

(* The user may have given a streaming body a length; no body has been     *)
(* looked at yet.                                                          *)
Init ==
    /\ bound \in {"v4", "v6"}
    /\ dial = << >> /\ refused = << >>
    /\ body \in BodySet
    /\ length \in {None, body.data}
    /\ caller = "resolving"
    /\ task = "none" /\ taken = 0
    /\ report = "empty" /\ seen = FALSE /\ parked = FALSE
    /\ stream = "none" /\ got = << >>
    /\ stop = "no"
    /\ resp = [head |-> FALSE, chunks |-> 0, end |-> "open"]
    /\ read = 0
    /\ up = TRUE

-----------------------------------------------------------------------------
(* Connecting.                                                             *)

(* H3Connector::remote_connect keeps the addresses of the family its       *)
(* endpoint is bound to, in the resolver's order.                          *)
Dialable(addrs) == SelectSeq(addrs, LAMBDA a : a = bound)

(* connect: an IP address or what the resolver answers, if it does.        *)
Resolve ==
    /\ caller = "resolving"
    /\ \/ \E addrs \in AddressLists :
              /\ dial' = Dialable(addrs)
              /\ caller' = "dialing"
       \/ UNCHANGED dial /\ caller' = "failed"
    /\ UNCHANGED <<bound, refused, request, sending, report, seen, parked,
                   peer, read>>

DialSucceeds ==
    /\ caller = "dialing" /\ dial # << >>
    /\ caller' = "opening"
    /\ UNCHANGED <<dialing, request, sending, report, seen, parked, peer,
                   read>>

(* The connection is made, and lost while h3 sets up its own streams: the  *)
(* error is returned at once, whatever addresses are left.                 *)
BuildFails ==
    /\ caller = "dialing" /\ dial # << >>
    /\ caller' = "failed"
    /\ up' = FALSE
    /\ UNCHANGED <<dialing, request, sending, report, seen, parked, stop, resp,
                   read>>

(* try_addresses_static goes on to the next address.                       *)
DialRefused ==
    /\ caller = "dialing" /\ dial # << >>
    /\ refused' = Append(refused, Head(dial))
    /\ dial' = Tail(dial)
    /\ UNCHANGED <<bound, request, caller, sending, report, seen, parked,
                   peer, read>>

(* ... and fails when there is none left, or was none.                     *)
DialExhausted ==
    /\ caller = "dialing" /\ dial = << >>
    /\ caller' = "failed"
    /\ UNCHANGED <<dialing, request, sending, report, seen, parked, peer,
                   read>>

-----------------------------------------------------------------------------
(* Sending the request.                                                    *)

(* A body of known size, unless empty, says so in place of any header the  *)
(* request has.                                                            *)
HeadLength == IF body.exact /\ body.data > 0 THEN body.data ELSE length

(* send_request opens the stream, splits it and spawns the task.           *)
Open ==
    /\ caller = "opening" /\ up
    /\ length' = HeadLength
    /\ caller' = "waiting"
    /\ task' = "reading" /\ stream' = "open"
    /\ UNCHANGED <<dialing, body, taken, report, seen, parked, got, peer,
                   read>>

OpenFails ==
    /\ caller = "opening" /\ ~up
    /\ caller' = "failed"
    /\ UNCHANGED <<dialing, request, sending, report, seen, parked, peer,
                   read>>

(* The task takes the next frame; what is not data is skipped.             *)
Frames == body.data + IF body.trailers THEN 1 ELSE 0

TakeFrame ==
    /\ task = "reading" /\ taken < Frames
    /\ taken' = taken + 1
    /\ task' = IF taken < body.data THEN "sending" ELSE "reading"
    /\ UNCHANGED <<dialing, request, caller, report, seen, parked, stream,
                   got, peer, read>>

(* The peer takes the frame in; the task waits while flow control bids.    *)
SendData ==
    /\ task = "sending" /\ up /\ stop = "no"
    /\ got' = Append(got, taken)
    /\ task' = "reading"
    /\ UNCHANGED <<dialing, request, caller, taken, report, seen, parked,
                   stream, peer, read>>

(* The task reports and is over, and its half of the stream with it.       *)
Ends(what, left) ==
    /\ task' = "over"
    /\ report' = what
    /\ stream' = left
    /\ UNCHANGED <<dialing, request, caller, taken, seen, parked, got, peer,
                   read>>

(* Defect: a peer that wants no more of the body has failed the request.   *)
VerdictAlwaysError == "error"

(* What a failed write comes to: a peer that stops reading without error   *)
(* (is_stop_sending) has not failed the request.                           *)
Verdict == IF up /\ stop = "quietly" THEN "ok" ELSE "error"

SendFails ==
    /\ task = "sending"
    /\ ~up \/ stop # "no"
    /\ Ends(Verdict, "left")

(* Defect: after a failed read the task goes on to finish the stream.      *)
BodyFailsBreaks ==
    /\ task = "reading" /\ taken = Frames /\ body.ends = "error"
    /\ task' = "finishing"
    /\ UNCHANGED <<dialing, request, caller, taken, report, seen, parked,
                   stream, got, peer, read>>

(* The body yields an error in place of a frame.                           *)
BodyFails ==
    /\ task = "reading" /\ taken = Frames /\ body.ends = "error"
    /\ Ends("error", "left")

(* The user's body panics inside the task: the sender is dropped unused.   *)
BodyPanics ==
    /\ task = "reading" /\ taken = Frames /\ body.ends = "panic"
    /\ Ends("closed", "left")

BodyEnds ==
    /\ task = "reading" /\ taken = Frames /\ body.ends = "end"
    /\ task' = "finishing"
    /\ UNCHANGED <<dialing, request, caller, taken, report, seen, parked,
                   stream, got, peer, read>>

Finish ==
    /\ task = "finishing" /\ up /\ stop = "no"
    /\ Ends("ok", "finished")

FinishFails ==
    /\ task = "finishing"
    /\ ~up \/ stop # "no"
    /\ Ends(Verdict, "left")

-----------------------------------------------------------------------------
(* The caller.                                                             *)

(* select! polls the receiver: an error ends the exchange, and anything    *)
(* else leaves the response to wait for.                                   *)
SelectSeesReport ==
    /\ caller = "waiting" /\ report # "empty" /\ ~seen
    /\ seen' = TRUE
    /\ caller' = IF report = "error" THEN "failed" ELSE "waiting"
    /\ UNCHANGED <<dialing, request, sending, report, parked, peer, read>>

(* select! polls the stream: which of two ready branches wins is random.   *)
SelectSeesHead ==
    /\ caller = "waiting"
    /\ resp.head
    /\ caller' = "reading"
    /\ UNCHANGED <<dialing, request, sending, report, seen, parked, peer,
                   read>>

(* The transport may still hand over what had arrived before.              *)
Broken == resp.end = "reset" \/ (~up /\ resp.end # "end")

SelectSeesFailure ==
    /\ caller = "waiting"
    /\ Broken
    /\ caller' = "failed"
    /\ UNCHANGED <<dialing, request, sending, report, seen, parked, peer,
                   read>>

(* What the caller's poll of the response's body comes to, once the        *)
(* receiver has nothing to say against it.                                 *)
PollRecv ==
    \/ /\ read < resp.chunks
       /\ read' = read + 1
       /\ UNCHANGED <<caller, parked>>
    \/ /\ read = resp.chunks /\ resp.end = "end"
       /\ caller' = "complete"
       /\ UNCHANGED <<read, parked>>
    \/ /\ Broken
       /\ caller' = "failed"
       /\ UNCHANGED <<read, parked>>
    \/ /\ read = resp.chunks /\ resp.end = "open" /\ up
       /\ parked' = TRUE
       /\ UNCHANGED <<read, caller>>

(* Defect: the response's body does not look at the receiver.              *)
PollFrameUnasked ==
    /\ caller = "reading"
    /\ PollRecv
    /\ UNCHANGED <<dialing, request, sending, report, seen, peer>>

(* Incoming::poll_frame: try_recv takes a report that is there and leaves  *)
(* no waker for one that is not.                                           *)
PollFrame ==
    /\ caller = "reading"
    /\ seen' = (seen \/ report # "empty")
    /\ IF report = "error" /\ ~seen
       THEN caller' = "failed" /\ UNCHANGED <<read, parked>>
       ELSE PollRecv
    /\ UNCHANGED <<dialing, request, sending, report, peer>>

(* The caller drops the future, or its response; the task is not told.     *)
Drop ==
    /\ caller \notin {"complete", "failed", "dropped"}
    /\ caller' = "dropped"
    /\ UNCHANGED <<dialing, request, sending, report, seen, parked, peer,
                   read>>

-----------------------------------------------------------------------------
(* The peer and the connection, once there is a stream.  What arrives      *)
(* wakes a caller who waits for it.                                        *)

Arrives(r) ==
    /\ stream # "none"
    /\ resp' = r
    /\ parked' = FALSE
    /\ UNCHANGED <<dialing, request, caller, sending, report, seen, stop,
                   read, up>>

PeerAnswers ==
    /\ up /\ ~resp.head /\ resp.end = "open"
    /\ Arrives([resp EXCEPT !.head = TRUE])

PeerSendsChunk ==
    /\ up /\ resp.head /\ resp.end = "open" /\ resp.chunks < MaxChunks
    /\ Arrives([resp EXCEPT !.chunks = @ + 1])

PeerEnds ==
    /\ up /\ resp.head /\ resp.end = "open"
    /\ Arrives([resp EXCEPT !.end = "end"])

PeerResets ==
    /\ up /\ resp.end = "open"
    /\ Arrives([resp EXCEPT !.end = "reset"])

(* ... which may also happen before the stream is opened.                  *)
ConnectionLost ==
    /\ up /\ (stream # "none" \/ caller = "opening")
    /\ up' = FALSE
    /\ parked' = FALSE
    /\ UNCHANGED <<dialing, request, caller, sending, report, seen, stop,
                   resp, read>>

(* STOP_SENDING, with H3_NO_ERROR or with another code.                    *)
PeerStops ==
    /\ up /\ stream = "open" /\ stop = "no"
    /\ stop' \in {"quietly", "error"}
    /\ UNCHANGED <<dialing, request, caller, sending, report, seen, parked,
                   resp, read, up>>

-----------------------------------------------------------------------------
Connect == Resolve \/ DialSucceeds \/ BuildFails \/ DialRefused
           \/ DialExhausted

Task == TakeFrame \/ SendData \/ SendFails \/ BodyFails \/ BodyPanics
        \/ BodyEnds \/ Finish \/ FinishFails

Select == SelectSeesReport \/ SelectSeesHead \/ SelectSeesFailure

Peer == PeerAnswers \/ PeerSendsChunk \/ PeerEnds \/ PeerResets
        \/ ConnectionLost \/ PeerStops

Next == Connect \/ Open \/ OpenFails \/ Task \/ Select \/ PollFrame \/ Drop
        \/ Peer

Spec == Init /\ [][Next]_vars

(* The runtime polls a task that was woken: select! registers with the     *)
(* receiver and the stream, the response's body with the stream alone.     *)
(* Neither the peer nor the user's body owes anything.                     *)
Fairness ==
    /\ WF_vars(Connect) /\ WF_vars(Open \/ OpenFails)
    /\ WF_vars(Select)
    /\ WF_vars(~parked /\ PollFrame)
    /\ WF_vars(SendFails \/ FinishFails \/ BodyFails)

FairSpec == Spec /\ Fairness

-----------------------------------------------------------------------------
(* Properties.                                                             *)

(* The data a body has to send, by number.                                 *)
Data == [i \in 1..body.data |-> i]

(* finish() is what tells the peer that the request is whole: it is called *)
(* only after every frame of data of a body that ended well was written,   *)
(* and a length the client itself announced is the one it sent.  A body    *)
(* that failed leaves the stream unfinished.                               *)
FinishedIsWhole ==
    /\ IsPrefix(got, Data)
    /\ stream = "finished" =>
          /\ got = Data /\ body.ends = "end"
          /\ body.exact /\ body.data > 0 => length = Len(got)

(* The race of the report with the response loses no error: whoever takes  *)
(* an error out of the receiver, send_request or the response's body,      *)
(* fails with that step, and no response is read to its end over a report  *)
(* of failure that was made before.                                        *)
ReportIsHeard ==
    [][/\ (report = "error" /\ seen' /\ ~seen) => caller' = "failed"
       /\ (caller' = "complete" /\ caller # "complete") =>
              report # "error"]_vars

(* An exchange fails for a reason.  connect fails only after every address *)
(* of the endpoint's family the resolver gave has failed; one that got a   *)
(* stream, only of its own body, an error of the peer's or the connection: *)
(* a peer that answers early and asks for no more of the body, without     *)
(* error, is heard out.                                                    *)
TriesEveryAddress ==
    (caller = "failed" /\ stream = "none" /\ up) => dial = << >>
EarlyAnswerSurvives ==
    (caller = "failed" /\ stream # "none") =>
        \/ body.ends = "error" /\ task = "over"
        \/ stop = "error"
        \/ resp.end = "reset" \/ ~up
FailureHasACause == TriesEveryAddress /\ EarlyAnswerSurvives

SendIsDoomed ==
    \/ report = "error"
    \/ task = "reading" /\ taken = Frames /\ body.ends = "error"
    \/ task \in {"sending", "finishing"} /\ stop = "error"

(* Nobody waits for the head of a response after the send has failed, even *)
(* if the peer never says another word; and once the response is over or   *)
(* broken its reader learns so.                                            *)
ExchangeEnds ==
    /\ (caller = "waiting" /\ SendIsDoomed) ~> caller # "waiting"
    /\ (caller = "reading" /\ (Broken \/ resp.end = "end"))
          ~> caller # "reading"

-----------------------------------------------------------------------------
(* The inductive invariant behind the safety properties.                   *)

Plain ==
    /\ body \in [data : Nat, trailers : BOOLEAN, exact : BOOLEAN,
                 ends : {"end", "error", "panic", "never"}]
    /\ task \in {"none", "reading", "sending", "finishing", "over"}
    /\ taken \in Nat /\ got \in Seq(Nat)
    /\ stop \in {"no", "quietly", "error"}
    /\ resp \in [head : BOOLEAN, chunks : 0..MaxChunks,
                 end : {"open", "end", "reset"}]

(* What the task has written so far, wherever it is.                       *)
Written ==
    /\ \A i \in 1..Len(got) : got[i] = i
    /\ Len(got) <= body.data
    /\ task \in {"none", "reading"} =>
          Len(got) = IF taken < body.data THEN taken ELSE body.data
    /\ task = "sending" => taken \in 1..body.data /\ Len(got) = taken - 1
    /\ task = "finishing" \/ stream = "finished" =>
          Len(got) = body.data /\ body.ends = "end"
    /\ stream = "finished" => task = "over"

(* Nothing is sent without a stream, and a stream has the length announced.*)
HasStream ==
    /\ caller \in {"resolving", "dialing", "opening"} => stream = "none"
    /\ caller \in {"waiting", "reading", "complete"} => stream # "none"
    /\ stream = "none" => task = "none"
    /\ (stream # "none" /\ body.exact /\ body.data > 0) =>
          length = body.data
    /\ caller = "resolving" => dial = << >>

(* A report has a cause, and a caller who took an error fails.             *)
Reported ==
    /\ report # "empty" => task = "over"
    /\ report = "error" => body.ends = "error" \/ stop = "error" \/ ~up
    /\ seen /\ report = "error" => caller \in {"failed", "dropped"}
    /\ seen => report # "empty"

IInv == Plain /\ Written /\ HasStream /\ Reported /\ FailureHasACause
=============================================================================
