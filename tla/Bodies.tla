-------------------------------- MODULE Bodies --------------------------------
(***************************************************************************)
(* Bodies that are read while they are sent: multipart forms (multipart.rs *)
(* of the asynchronous and of the blocking client) and the blocking        *)
(* client's readers (blocking/body.rs).  The thread of the caller reads    *)
(* and sends; the connection receives on a channel of the runtime's thread.*)
(*                                                                         *)
(* A byte is the place it comes from, so that one that is lost, repeated   *)
(* or moved shows.  A boundary is one byte long, the buffer of send_future *)
(* BufferSize instead of 8192.                                             *)
(***************************************************************************)
EXTENDS Naturals, Sequences, FiniteSetsExt

CONSTANTS None,
          Sources,    \* bodies: forms, and readers given to Body::new or sized
          BufferSize

Parts == [head : Nat, data : Nat, len : Nat \cup {None}, reader : BOOLEAN]

(* A byte is told from another by its place; a segment is what one of the  *)
(* chained readers still has.                                              *)
Bytes == {"boundary", "header", "data", "crlf", "closing"} \X Nat \X Nat
Segments == [bytes : Seq(Bytes), reader : BOOLEAN]
Reads == [room : Nat, buf : Seq(Bytes)]
Results == {"ok", "send error", "read error", "timed out"}

ASSUME BodiesAssumption ==
    /\ BufferSize \in Nat \ {0}
    /\ None \notin Nat \cup Results /\ None \notin Reads
    /\ None \notin Seq(Segments)
    /\ Sources \subseteq [form : BOOLEAN, parts : Seq(Parts),
                          len : Nat \cup {None}]
    /\ \A s \in Sources : ~s.form => Len(s.parts) = 1

VARIABLES source,   \* the body
          mode,     \* "send", or "buffer" for Body::buffer
          fields,   \* the parts the Reader has not begun
          computed, \* the headers compute_length left for it
          active,   \* what is left of the part it reads, or None
          call,     \* the call of read in progress, or None
          spare,    \* the capacity left in the buffer
          taken,    \* bytes that reads have returned
          written,  \* how many of them send_future has counted
          chan,     \* what is in the channel
          wire,     \* what the connection, or the buffer, got
          end,      \* how the body ended for the connection
          result,   \* what send or buffer returned
          hiccup    \* a read was interrupted while another was in progress

vars == <<source, mode, fields, computed, active, call, spare, taken, written,
          chan, wire, end, result, hiccup>>

(* --- What a caller can send -------------------------------------------- *)

(* A part has data bytes, says they are len, and comes from a reader or    *)
(* from memory; head is the size of its header.                            *)
PartNew(data, len, reader) ==
    [head |-> 1, data |-> data, len |-> len, reader |-> reader]

PartText(n) == PartNew(n, n, FALSE)
PartReader(n) == PartNew(n, None, TRUE)
PartReaderWithLength(n, len) == PartNew(n, len, TRUE)

PartMime(p) == [p EXCEPT !.head = @ + 1]
PartFileName(p) == [p EXCEPT !.head = @ + 1]

(* The length is the file's when it is opened: now is what is read of it.  *)
PartFile(len, now) == PartFileName(PartMime(PartReaderWithLength(now, len)))

FormNew == [form |-> TRUE, parts |-> <<>>, len |-> None]
FormPart(form, p) == [form EXCEPT !.parts = Append(@, p)]

(* A reader that is a body by itself.                                      *)
BodySized(n, len) ==
    [form |-> FALSE, parts |-> <<PartReader(n)>>, len |-> len]
BodyNew(n) == BodySized(n, None)

(* --- Forms ------------------------------------------------------------- *)

Run(tag, i, n) == [k \in 1..n |-> <<tag, i, k>>]

Boundary(i) == Run("boundary", i, 2 + 1 + 2)
Header(i) == Run("header", i, source.parts[i].head + 4)
Data(i) == Run("data", i, source.parts[i].data)
Crlf(i) == Run("crlf", i, 2)
Closing == Run("closing", 0, 2 + 1 + 4)

PartStream(i) == Boundary(i) \o Header(i) \o Data(i) \o Crlf(i)

(* Form::into_stream of the asynchronous client: the streams of the parts, *)
(* each chained to those before it, and the closing boundary.              *)
Streamed[i \in 0..Len(source.parts)] ==
    IF i = 0 THEN <<>> ELSE Streamed[i - 1] \o PartStream(i)

IntoStream == IF source.parts = <<>> THEN <<>>
              ELSE Streamed[Len(source.parts)] \o Closing

(* The parts before the first one that does not know its length.           *)
Measured ==
    LET n == Len(source.parts)
        unknown == {i \in 1..n : source.parts[i].len = None}
    IN IF unknown = {} THEN n ELSE Min(unknown) - 1

PartLength(p) == 2 + 1 + 2 + p.head + 4 + p.len + 2

(* The length of the first parts, if they know it.                         *)
Lengths[i \in 0..Len(source.parts)] ==
    IF i = 0 THEN 0 ELSE Lengths[i - 1] + PartLength(source.parts[i])

(* Defect: the closing boundary is counted as one that opens a part.       *)
ComputeLengthShort ==
    IF Measured < Len(source.parts) THEN None
    ELSE Lengths[Len(source.parts)]
         + (IF source.parts = <<>> THEN 0 ELSE 2 + 1 + 2)

ComputeLength ==
    IF Measured < Len(source.parts) THEN None
    ELSE Lengths[Len(source.parts)]
         + (IF source.parts = <<>> THEN 0 ELSE 2 + 1 + 4)

(* What a body holds, and the Content-Length it is sent with.              *)
Content == IF source.form THEN IntoStream ELSE Data(1)
ConLen == IF source.form THEN ComputeLength ELSE source.len

(* --- The blocking Reader ----------------------------------------------- *)

(* reader: it may return less than is asked for, and fail.                 *)
Segment(bytes, reader) == [bytes |-> bytes, reader |-> reader]

PartChain(i, header, last) ==
    <<Segment(Boundary(i), FALSE), Segment(header, FALSE),
      Segment(Data(i), source.parts[i].reader), Segment(Crlf(i), FALSE)>>
    \o (IF last THEN <<Segment(Closing, FALSE)>> ELSE <<>>)

(* The header of the next part: computed already, or encoded now.          *)
TakeHeader(headers, i) ==
    IF headers = <<>> THEN Header(i) ELSE Header(Head(headers))

(* Defect: a reader is left behind at the end of the form.                 *)
StartedOnNothing(todo, headers) ==
    IF todo = <<>> THEN <<>>
    ELSE PartChain(Head(todo), TakeHeader(headers, Head(todo)),
                   Len(todo) = 1)

Started(todo, headers) ==
    IF todo = <<>> THEN None
    ELSE PartChain(Head(todo), TakeHeader(headers, Head(todo)),
                   Len(todo) = 1)

Rest(s) == IF s = <<>> THEN s ELSE Tail(s)

(* --- Sending ----------------------------------------------------------- *)

Capacity == IF ConLen = None THEN BufferSize
            ELSE Min({ConLen, BufferSize})

Reading == call # None
Idle == ~Reading /\ chan = <<>> /\ result = None

(* The head of the loop: all is written, or there is a read to do.         *)
Covered == mode = "send" /\ ConLen # None /\ written = ConLen

StopAtLength ==
    /\ Idle /\ Covered
    /\ result' = "ok"
    /\ UNCHANGED <<source, mode, fields, computed, active, call, spare, taken,
                   written, chan, wire, end, hiccup>>

StartRead ==
    /\ Idle /\ ~Covered
    /\ call' = [room |-> spare, buf |-> <<>>]
    /\ UNCHANGED <<source, mode, fields, computed, active, spare, taken,
                   written, chan, wire, end, result, hiccup>>

Present == active # None /\ \E k \in DOMAIN active : active[k].bytes # <<>>
Current == Min({k \in DOMAIN active : active[k].bytes # <<>>})
Room == call.room - Len(call.buf)

(* One read of the reader beneath; a call of a form's Reader goes on until *)
(* the buffer is full or the form is at its end, another one returns.      *)
Returns(filled) == Len(filled) = call.room \/ ~source.form

ReadSome ==
    /\ Reading /\ Present /\ Room > 0
    /\ call.buf = <<>> \/ source.form
    /\ LET s == active[Current]
           most == Min({Len(s.bytes), Room})
       IN \E n \in IF s.reader THEN 1..most ELSE {most} :
            /\ active' = <<[s EXCEPT !.bytes = SubSeq(@, n + 1, Len(@))]>>
                         \o SubSeq(active, Current + 1, Len(active))
            /\ call' = [call EXCEPT !.buf = @ \o SubSeq(s.bytes, 1, n)]
    /\ UNCHANGED <<source, mode, fields, computed, spare, taken, written,
                   chan, wire, end, result, hiccup>>

NextReader ==
    /\ Reading /\ source.form /\ active # None /\ ~Present /\ Room > 0
    /\ fields' = Rest(fields) /\ computed' = Rest(computed)
    /\ active' = Started(fields, computed)
    /\ UNCHANGED <<source, mode, call, spare, taken, written, chan, wire,
                   end, result, hiccup>>

CallEnds ==
    \/ call.buf # <<>> /\ Returns(call.buf)
    \/ ~Present /\ (active = None \/ ~source.form)

(* Defect: the channel is looked at before the reader is asked.            *)
DisconnectedFirst(buf) == end = "dropped"

(* There is something to send and nobody to send it to.                    *)
Disconnected(buf) == buf # <<>> /\ end = "dropped"

Buffered(buf) == wire \o buf

(* Ok(0) ends the body, anything else goes into the channel or the buffer. *)
ReadReturns ==
    /\ Reading /\ CallEnds
    /\ call' = None
    /\ taken' = taken \o call.buf
    /\ spare' = IF spare = Len(call.buf) THEN BufferSize
                ELSE spare - Len(call.buf)
    /\ IF Disconnected(call.buf)
       THEN result' = "send error" /\ UNCHANGED <<chan, wire>>
       ELSE IF call.buf = <<>>
       THEN result' = "ok" /\ UNCHANGED <<chan, wire>>
       ELSE IF mode = "buffer"
       THEN wire' = Buffered(call.buf) /\ UNCHANGED <<chan, result>>
       ELSE chan' = <<call.buf>> /\ UNCHANGED <<wire, result>>
    /\ UNCHANGED <<source, mode, fields, computed, active, written, end,
                   hiccup>>

Failing == Reading /\ Present /\ Room > 0 /\ active[Current].reader

Abort == <<<<"abort", 0, 0>>>>

(* Defect: the sender is dropped without a word.                           *)
DropsSilently == <<>>

(* The clone of the sender always has a slot of its own.                   *)
Aborts == IF mode = "send" /\ end # "dropped" THEN <<Abort>> ELSE <<>>

ReadFails ==
    /\ Failing
    /\ call' = None
    /\ result' = "read error"
    /\ chan' = Aborts
    /\ UNCHANGED <<source, mode, fields, computed, active, spare, taken,
                   written, wire, end, hiccup>>

(* ErrorKind::Interrupted, which only io::copy takes for a reason to try   *)
(* again: what the call had filled of its buffer is gone.                  *)
ReadInterrupted ==
    /\ Failing /\ mode = "buffer"
    /\ call' = [call EXCEPT !.buf = <<>>]
    /\ hiccup' = (hiccup \/ call.buf # <<>>)
    /\ UNCHANGED <<source, mode, fields, computed, active, spare, taken,
                   written, chan, wire, end, result>>

(* wait::timeout drops the future that sends: a read blocks, so that it is *)
(* in a send.                                                              *)
TimedOut ==
    /\ mode = "send" /\ result = None /\ ~Reading /\ taken # <<>>
    /\ result' = "timed out"
    /\ UNCHANGED <<source, mode, fields, computed, active, call, spare, taken,
                   written, chan, wire, end, hiccup>>

(* --- The connection ---------------------------------------------------- *)

Sent(n) == written + n

(* It takes what is in the channel, which lets the sender go on.           *)
Receive ==
    /\ mode = "send" /\ end = "open" /\ chan # <<>>
    /\ IF Head(chan) = Abort
       THEN end' = "aborted" /\ UNCHANGED <<wire, written>>
       ELSE /\ wire' = wire \o Head(chan)
            /\ written' = Sent(Len(Head(chan)))
            /\ UNCHANGED end
    /\ chan' = <<>>
    /\ UNCHANGED <<source, mode, fields, computed, active, call, spare, taken,
                   result, hiccup>>

(* The sender is gone and the channel is empty.                            *)
SeesEnd ==
    /\ mode = "send" /\ end = "open" /\ chan = <<>> /\ result # None
    /\ end' = "eof"
    /\ UNCHANGED <<source, mode, fields, computed, active, call, spare, taken,
                   written, chan, wire, result, hiccup>>

(* The server has its answer, or the connection is lost.  A chunk that was *)
(* in the channel counts as sent.                                          *)
DropsBody ==
    /\ mode = "send" /\ end = "open"
    /\ end' = "dropped"
    /\ written' = IF chan # <<>> /\ result = None
                  THEN Sent(Len(Head(chan))) ELSE written
    /\ chan' = <<>>
    /\ UNCHANGED <<source, mode, fields, computed, active, call, spare, taken,
                   wire, result, hiccup>>

Over == result # None /\ (mode = "send" => end # "open")
Done == Over /\ UNCHANGED vars

Init ==
    /\ source \in Sources
    /\ mode \in {"send", "buffer"}
    /\ LET todo == [i \in DOMAIN source.parts |-> i]
           headers == [i \in 1..Measured |-> i]
       IN IF source.form
          THEN /\ fields = Rest(todo) /\ computed = Rest(headers)
               /\ active = Started(todo, headers)
          ELSE /\ fields = <<>> /\ computed = <<>>
               /\ active = <<Segment(Data(1), TRUE)>>
    /\ call = None /\ spare = IF mode = "send" THEN Capacity ELSE BufferSize
    /\ taken = <<>> /\ written = 0 /\ chan = <<>> /\ wire = <<>>
    /\ end = "open" /\ result = None /\ hiccup = FALSE

(* What the thread of the caller does.                                     *)
Caller ==
    \/ StopAtLength \/ StartRead \/ ReadSome \/ NextReader \/ ReadReturns
    \/ ReadFails

Next ==
    \/ Caller \/ ReadInterrupted \/ TimedOut
    \/ Receive \/ SeesEnd \/ DropsBody
    \/ Done

(* The caller's thread runs; the runtime polls a connection that has       *)
(* something to receive.                                                   *)
Fairness ==
    /\ WF_vars(Caller)
    /\ WF_vars(Receive)
    /\ WF_vars(SeesEnd)

Spec == Init /\ [][Next]_vars /\ Fairness

-----------------------------------------------------------------------------
(* Properties                                                              *)

Truthful == \A i \in DOMAIN source.parts :
               source.parts[i].len \in {None, source.parts[i].data}

(* The length computed for a form is the number of bytes it is sent as, if *)
(* the parts say truly how long they are.  FormParts::compute_length adds  *)
(* up what part_stream and next_reader write.                              *)
FormLengthIsExact ==
    source.form /\ Truthful /\ ComputeLength # None
    => ComputeLength = Len(IntoStream)

Prefix(n) == SubSeq(Content, 1, IF n = None THEN Len(Content)
                                ELSE Min({n, Len(Content)}))

(* hyper takes a body for complete at its end, if it has its length.       *)
Accepted == end = "eof" /\ (ConLen # None => Len(wire) >= ConLen)

(* What the connection gets, and how the body ends for it: Body::buffer    *)
(* has no connection.                                                      *)
Got == IF mode = "buffer" THEN <<>>
       ELSE IF ConLen = None THEN wire
       ELSE SubSeq(wire, 1, Min({ConLen, Len(wire)}))
Ended == IF mode = "buffer" \/ end = "open" THEN "open"
         ELSE IF Accepted /\ result # "timed out" THEN "complete"
         ELSE "broken"

(* What the connection gets is the form as the asynchronous client would   *)
(* stream it, or the reader's data, cut at the Content-Length; it never    *)
(* takes a body for complete that a failed read cut short, and the form    *)
(* survives being read in pieces of any size.  Only a timeout leaves a     *)
(* body without a length looking complete.  Reader, send_future, Abort.    *)
D == INSTANCE Delivery WITH want <- Prefix(ConLen), got <- Got, end <- Ended
ImplementsDelivery == D!Spec

(* When send says that all is well, the connection has all of the body, up *)
(* to the Content-Length, unless it did not want it: nothing is still on   *)
(* its way.  A connection that disappears once it has all the data is no   *)
(* error: the reader is asked for more before the channel is looked at.    *)
(* Body::buffer holds what would have been sent, if no read is interrupted.*)
OkMeansDelivered ==
    (mode = "send" /\ result = "ok" /\ end # "dropped")
    => /\ chan = <<>>
       /\ \E n \in Len(Prefix(ConLen))..Len(Content) :
            wire = SubSeq(Content, 1, n)
LateDropIsNoError == result = "send error" => wire # Content
BufferIsWhole ==
    (mode = "buffer" /\ result = "ok" /\ ~hiccup) => wire = Content
ResultIsTrue == OkMeansDelivered /\ LateDropIsNoError /\ BufferIsWhole

(* Whatever the reader and the connection do, send and buffer return, and  *)
(* the connection learns how the body ended.                               *)
EverySendEnds == <>Over

-----------------------------------------------------------------------------
(* The inductive invariant                                                 *)

TypeOK ==
    /\ source \in Sources /\ mode \in {"send", "buffer"}
    /\ fields \in Seq(Nat) /\ computed \in Seq(Nat)
    /\ active \in Seq(Segments) \cup {None}
    /\ call \in Reads \cup {None} /\ spare \in 0..BufferSize
    /\ taken \in Seq(Bytes) /\ wire \in Seq(Bytes) /\ written \in Nat
    /\ \/ chan \in {<<>>, <<Abort>>}
       \/ /\ chan = <<Head(chan)>>
          /\ Head(chan) \in Seq(Bytes) /\ Head(chan) # <<>>
    /\ end \in {"open", "eof", "aborted", "dropped"}
    /\ result \in Results \cup {None} /\ hiccup \in BOOLEAN

(* The parts are begun in their order, each with a header that is its own. *)
Begun == Len(source.parts) - Len(fields)
InOrder ==
    /\ Len(computed) <= Len(fields) /\ Len(fields) <= Len(source.parts)
    /\ \A k \in DOMAIN fields : fields[k] = Begun + k
    /\ \A k \in DOMAIN computed : computed[k] = Begun + k

(* bytes are what the body has behind its first n.                         *)
Follows(bytes, n) ==
    /\ n + Len(bytes) <= Len(Content)
    /\ \A k \in DOMAIN bytes : bytes[k] = Content[n + k]

(* Segments that are, one behind the other, the bytes from one place of    *)
(* the body to another.                                                    *)
Laid(segments, from, to) ==
    \E at \in [1..Len(segments) + 1 -> Nat] :
       /\ at[1] = from /\ at[Len(segments) + 1] = to
       /\ \A k \in DOMAIN segments :
             /\ at[k + 1] = at[k] + Len(segments[k].bytes)
             /\ Follows(segments[k].bytes, at[k])

(* Where part i ends, with the closing boundary behind the last one.       *)
Ending(i) == IF ~source.form \/ i = Len(source.parts) THEN Len(Content)
             ELSE Len(Streamed[i])

(* What was read and what the reader still has of the parts it has begun   *)
(* is the body, up to there.                                               *)
Place == Len(taken) + IF Reading THEN Len(call.buf) ELSE 0
ReadsTheBody ==
    /\ Follows(taken, 0)
    /\ Reading => Follows(call.buf, Len(taken))
    /\ result = None => IF active = None THEN Place = Len(Content)
                        ELSE Laid(active, Place, Ending(Begun))

CallFits ==
    Reading => /\ result = None /\ chan = <<>>
               /\ call.room = spare /\ Len(call.buf) <= call.room

(* What was read is with the connection or in the channel, until it drops  *)
(* the body.                                                               *)
Pending == IF chan \in {<<>>, <<Abort>>} THEN <<>> ELSE Head(chan)
Forwarded ==
    /\ Follows(wire, 0) /\ Len(wire) <= Len(taken)
    /\ end # "dropped" =>
          /\ written = Len(wire) /\ Len(taken) = Len(wire) + Len(Pending)
          /\ Follows(Pending, Len(wire))
    /\ end # "open" => chan = <<>>
    /\ chan = <<Abort>> => result = "read error"

(* What the connection knows and what the caller is told.                  *)
Told ==
    /\ end \in {"eof", "aborted"} => result # None
    /\ result = "read error" /\ end = "open" => chan = <<Abort>>
    /\ result = "send error" => end = "dropped" /\ Len(wire) < Len(Content)
    /\ result = "ok" /\ end # "dropped" =>
          /\ chan = <<>>
          /\ Len(wire) = Len(Content) \/ ConLen = Len(wire)

Buffers ==
    /\ chan = <<>> /\ end = "open" /\ result # "send error"
    /\ wire = taken
    /\ result = "ok" /\ ~hiccup => Len(taken) = Len(Content)

IInv ==
    /\ TypeOK /\ InOrder /\ CallFits
    /\ ~source.form => active # None
    /\ ~hiccup => ReadsTheBody
    /\ IF mode = "send" THEN ~hiccup /\ Forwarded /\ Told ELSE Buffers
=============================================================================
