------------------------------ MODULE Exchange ------------------------------
(***************************************************************************)
(* One worker, the handler that uses it and their two pipes: a request is  *)
(* encoded, decoded, run, and its response travels back, whole or in       *)
(* frames.  WireFormat has the request's layout, OutputCapture the buffers *)
(* between PHP and the pipe.  From                                         *)
(*   crates/turbine-worker/src/{pool,persistent,stream}.rs                 *)
(*   crates/turbine-core/src/{main,http_helpers}.rs.                       *)
(*                                                                         *)
(* kind is the path through the server:                                    *)
(*   native      pipes, the default pool                                   *)
(*   channel     in-memory channels, the default pool in thread mode       *)
(*   named       pipes, a pool of its own route                            *)
(*   persistent  framed responses, collected by decode_response            *)
(*   stream      framed responses, head first (read_response_head), then   *)
(*               collected or forwarded chunk by chunk                     *)
(* The server takes "persistent" for every framed worker today; "stream",  *)
(* the branch behind it, is checked as it is written.                      *)
(***************************************************************************)
EXTENDS WireFormat, OutputCapture, FiniteSets

CONSTANTS
    Kinds,        \* the paths to consider
    Lengths,      \* the lengths of strings to consider
    HeaderCalls,  \* calls of header() and header_remove() to consider
    Cleanup,      \* worker_cleanup is configured
    MaxHeaders,   \* 1024: headers decode_response_async takes
    FollowSkewed, \* consider requests after a reader has lost its place
    MaxSteps,     \* calls into the output layer per script
    MaxRequests,  \* requests of the client
    PipeCap,      \* frames the response pipe holds
    ChanCap       \* 64: chunks the body channel holds

ASSUME ExchangeAssumption ==
    /\ Kinds \subseteq {"native", "channel", "named", "persistent", "stream"}
    /\ Lengths \subseteq Nat
    /\ HeaderCalls \subseteq [op : {"replace", "add", "delete", "delete_all", "status"}, h : Header]
    /\ MaxSteps \in Nat /\ MaxRequests \in Nat
    /\ PipeCap \in Nat \ {0} /\ ChanCap \in Nat \ {0}
    /\ Cleanup \in BOOLEAN /\ structured_logging_enabled \in BOOLEAN
    /\ MaxHeaders \in Nat /\ FollowSkewed \in BOOLEAN

VARIABLES
    kind,
    n,        \* the number of the request
    cmd,      \* the command pipe: the request sent, and its cells
    wpc,      \* where the worker is
    ok,       \* the result of the script
    steps,    \* calls made by the script
    ob,       \* PHP's own output buffer (output_buffering)
    o,        \* the state of OutputCapture; o.out waits to be written
    pipe,     \* the response pipe, or the response channel
    hpc,      \* where the handler (or its forwarder) is
    acc,      \* what the handler has read of the response
    chan,     \* the body channel between forwarder and client
    client,   \* the answer as the client has it
    printed,  \* every line of this request, in the order PHP printed them
    framed,   \* the kinds of the frames written for this request
    skewed    \* a reader lost its place, or left a response behind

vars == <<kind, n, cmd, wpc, ok, steps, ob, o, pipe, hpc, acc, chan, client, printed, framed, skewed>>

worker  == <<wpc, ok, steps, ob, o, printed, framed>>
handler == <<hpc, acc, chan, client>>

Framed == kind \in {"persistent", "stream"}
Format == IF Framed THEN "persistent" ELSE "native"

Line(who, k) == [req |-> n, by |-> who, kind |-> k]

NoAnswer == [code |-> 0, headers |-> <<>>, lines |-> <<>>, end |-> "waiting"]
Nothing  == [got |-> FALSE, code |-> 0, headers |-> <<>>, lines |-> <<>>]
NoCmd    == [req |-> <<>>, cells |-> <<>>]

Init ==
    /\ kind \in Kinds
    /\ n = 0 /\ cmd = NoCmd
    /\ wpc = "idle" /\ ok = TRUE /\ steps = 0 /\ ob = <<>> /\ o = NoOutput
    /\ pipe = <<>> /\ hpc = "idle" /\ acc = Nothing /\ chan = <<>>
    /\ client = [NoAnswer EXCEPT !.end = "complete"]
    /\ printed = <<>> /\ framed = <<>> /\ skewed = FALSE

----------------------------------------------------------------------------
(***************************************************************************)
(* The worker.                                                             *)
(***************************************************************************)
\* The handler writes the encoded request.  A client sends its next request
\* when it has the answer to the one before, or another client comes.  A
\* worker that was given back while it was busy (a response left behind) is
\* followed from when it is idle again: until then the command waits; and
\* only where FollowSkewed says so, for nothing is claimed of it any more.
Send(r) ==
    /\ wpc = "idle" /\ hpc = "idle" /\ n < MaxRequests /\ (skewed => FollowSkewed)
    /\ client.end # "open"
    /\ n' = n + 1
    /\ cmd' = [req |-> r, cells |-> encode(Format, r)]
    /\ wpc' = "asked"
    /\ hpc' = CASE kind = "stream" -> "head" [] OTHER -> "read"
    /\ acc' = Nothing /\ chan' = <<>> /\ client' = NoAnswer
    /\ printed' = <<>> /\ framed' = <<>>
    /\ UNCHANGED <<kind, ok, steps, ob, o, pipe, skewed>>

\* A whole response of the worker, as its kind writes it.
write_response(success, code, hs, ls) ==
    IF ~Framed THEN <<Native(success, code, hs, ls)>>
    ELSE <<Headers(code, hs)>> \o (IF ls = <<>> THEN <<>> ELSE <<BodyChunk(ls)>>)
         \o <<End(success)>>

\* The event loop reads a command, decodes it, starts the request of PHP and
\* prepares the buffers.  A request that cannot be decoded is answered.
Take ==
    /\ wpc = "asked"
    /\ IF decode(Format, cmd.cells) = <<"refused">>
       THEN /\ o' = [o EXCEPT !.out = write_response(FALSE, 500, <<>>, <<Line("worker", "text")>>)]
            /\ wpc' = "write"
       ELSE /\ o' = LET c == clear_output_buffer([o EXCEPT !.sg = 200])
                    IN  IF Framed THEN arm_streaming(c) ELSE c
            /\ wpc' = "script"
    /\ cmd' = NoCmd /\ ok' = TRUE /\ steps' = 0 /\ ob' = <<>>
    /\ UNCHANGED <<kind, n, pipe, handler, printed, framed, skewed>>

\* A call of the script into the output layer.
Call(next) ==
    /\ wpc = "script" /\ o.out = <<>> /\ steps < MaxSteps
    /\ steps' = steps + 1
    /\ o' = next
    /\ UNCHANGED <<kind, n, cmd, wpc, ok, pipe, handler, framed, skewed>>

SetHeader(op, h) ==
    Call(turbine_header_handler(o, op, h)) /\ UNCHANGED <<ob, printed>>

\* http_response_code().
SetCode == Call([o EXCEPT !.sg = 404]) /\ UNCHANGED <<ob, printed>>

Echo(k) ==
    /\ Call(o)
    /\ ob' = Append(ob, Line("script", k))
    /\ printed' = Append(printed, Line("script", k))

\* ob_flush(), or PHP's buffer is full.
ObFlush == Call(turbine_ub_write(o, ob)) /\ ob' = <<>> /\ UNCHANGED printed

\* flush().
Flush == Call(turbine_sapi_flush(o)) /\ UNCHANGED <<ob, printed>>

ScriptEnds ==
    /\ wpc = "script" /\ o.out = <<>>
    /\ ok' \in BOOLEAN /\ steps' = 0
    /\ wpc' = IF Framed /\ Cleanup THEN "cleanup" ELSE "finish"
    /\ UNCHANGED <<kind, n, cmd, ob, o, pipe, handler, printed, framed,
                   skewed>>

\* The cleanup script prints, or does not; its output goes where that of the
\* request goes.
RunCleanup ==
    /\ wpc = "cleanup"
    /\ \E ls \in {<<>>, <<Line("cleanup", "text")>>} :
           ob' = ob \o ls /\ printed' = printed \o ls
    /\ wpc' = "finish"
    /\ UNCHANGED <<kind, n, cmd, ok, steps, o, pipe, handler, framed,
                   skewed>>

\* The response that is left to write when PHP has shut the request down.
Rest(d) ==
    IF d.engaged
    THEN (IF d.buf = <<>> THEN <<>> ELSE <<BodyChunk(d.buf)>>) \o <<End(ok)>>
    ELSE write_response(ok, response_code(d), d.headers, d.buf)

\* Defect: the output is collected before PHP's own buffer is flushed.
FinishEarly ==
    /\ wpc = "finish" /\ o.out = <<>>
    /\ LET d == turbine_ub_write(o, ob)
       IN  o' = [Taken(finish_streaming(d)) EXCEPT !.out = (IF o.engaged THEN d.out ELSE <<>>) \o Rest(o)]
    /\ ob' = <<>> /\ wpc' = "write"
    /\ UNCHANGED <<kind, n, cmd, ok, steps, pipe, handler, printed, framed,
                   skewed>>

\* request_shutdown flushes PHP's buffer; then the output is collected and
\* the response, or what is left of it, is written.
Finish ==
    /\ wpc = "finish" /\ o.out = <<>>
    /\ LET d == turbine_ub_write(o, ob)
       IN  o' = [Taken(finish_streaming(d)) EXCEPT !.out = d.out \o Rest(d)]
    /\ ob' = <<>> /\ wpc' = "write"
    /\ UNCHANGED <<kind, n, cmd, ok, steps, pipe, handler, printed, framed,
                   skewed>>

\* write(2) or writev(2), which waits while the pipe is full.
Write ==
    /\ o.out # <<>> /\ Len(pipe) < PipeCap
    /\ pipe' = Append(pipe, Head(o.out))
    /\ framed' = Append(framed, Head(o.out).f)
    /\ o' = [o EXCEPT !.out = Tail(@)]
    /\ wpc' = IF wpc = "write" /\ Len(o.out) = 1 THEN "idle" ELSE wpc
    /\ UNCHANGED <<kind, n, cmd, ok, steps, ob, handler, printed, skewed>>

\* The process dies, perhaps in the middle of a write.
Crash ==
    /\ kind # "channel" /\ wpc \notin {"idle", "dead"}
    /\ wpc' = "dead"
    /\ pipe' \in {pipe} \union (IF o.out # <<>> /\ Len(pipe) < PipeCap THEN {Append(pipe, Torn)} ELSE {})
    /\ o' = NoOutput /\ ob' = <<>> /\ cmd' = NoCmd /\ steps' = 0
    /\ UNCHANGED <<kind, n, ok, handler, printed, framed, skewed>>

----------------------------------------------------------------------------
(***************************************************************************)
(* The handler.                                                            *)
(***************************************************************************)
\* What read_frame finds: a frame, the end of the pipe, a broken frame, or
\* nothing yet.
Frame == IF pipe # <<>> THEN Head(pipe) ELSE IF wpc = "dead" THEN [f |-> "Eof"] ELSE [f |-> "None"]

read_frame == pipe' = IF pipe = <<>> THEN <<>> ELSE Tail(pipe)

\* What comes next cannot be read as it was meant: a head whose lengths were
\* cut, or the bytes one left behind.  A channel hands over the response as
\* it is, without an encoding.
Garbled ==
    /\ kind # "channel" /\ pipe # <<>>
    /\ Cut(Head(pipe), Width) \/ (Head(pipe) = Torn /\ wpc # "dead")

\* resolve_sendfile_path and serve_sendfile: the file named is below the root
\* and can be read, or not.
Sendable(hs) == IF check_x_sendfile(hs) THEN BOOLEAN ELSE {FALSE}

\* The answer goes to the client, after postprocess_php_response.
Answered(code, hs, ls) ==
    \E file \in Sendable(hs) :
        LET r == postprocess_php_response([code |-> code, headers |-> hs, lines |-> ls],
                                          file, <<Line("file", "text")>>)
        IN  client' = [code |-> r.code, headers |-> r.headers, lines |-> r.lines, end |-> "complete"]

\* A response of the default pool, whose failure flag is honoured; one of a
\* named pool, whose flag is not; and one that came in frames.
DefaultAnswer(f)   == Answered(Honoured(f.ok, f.code), f.headers, f.lines)
NamedAnswer(f)     == Answered(f.code, f.headers, f.lines)
CollectedAnswer(f) == Answered(Honoured(f.ok, acc.code), acc.headers, acc.lines)

\* The response could not be read: a gateway error of the handler's own.
Failed(code) ==
    client' = [code |-> code, headers |-> <<>>, lines |-> <<Line("server", "text")>>, end |-> "complete"]

\* The same, unless the client is gone.
FailedUnlessGone(code) == IF client.end = "gone" THEN UNCHANGED client ELSE Failed(code)

\* build_streaming_response: the head now, the body through the channel.
Streaming(code, hs) == client' = [code |-> code, headers |-> hs, lines |-> <<>>, end |-> "open"]

response_should_stream(hs) == headers_request_streaming(hs)

\* The task that waits for the forwarder returns the worker to its pool.
Released == hpc' = "idle"

\* The handler is over without a response.  On the guarded paths the armed
\* IdleGuard has the worker killed and its pipes replaced ("left"; what can
\* come between the two is in PersistentDispatch); the others give it back.
Dropped == hpc' = IF kind \in {"native", "persistent"} THEN "left" ELSE "idle"

\* read_native_response, or a receive from the response channel.
ReadNative ==
    /\ ~Framed /\ hpc = "read" /\ Frame.f # "None" /\ ~Garbled /\ client.end # "gone"
    /\ read_frame
    /\ IF Frame.f = "Native"
       THEN /\ IF kind = "named" THEN NamedAnswer(Frame) ELSE DefaultAnswer(Frame)
            /\ hpc' = "idle"
       ELSE Failed(502) /\ Dropped
    /\ UNCHANGED <<kind, n, cmd, worker, acc, chan, skewed>>

\* The reading task of a named pool goes on without its client, and gives the
\* worker back.
ReadUnclaimed ==
    /\ kind = "named" /\ hpc = "read" /\ Frame.f # "None" /\ ~Garbled /\ client.end = "gone"
    /\ read_frame
    /\ hpc' = "idle"
    /\ UNCHANGED <<kind, n, cmd, worker, acc, chan, client, skewed>>

\* decode_response_async: one frame after the other, until End.  A frame out
\* of order, or too many headers, is an error.
Decode ==
    /\ kind = "persistent" /\ hpc = "read" /\ Frame.f # "None" /\ ~Garbled
    /\ read_frame
    /\ \/ /\ Frame.f = "Headers" /\ ~acc.got /\ Len(Frame.headers) <= MaxHeaders
          /\ acc' = [acc EXCEPT !.got = TRUE, !.code = Frame.code, !.headers = Frame.headers]
          /\ UNCHANGED <<hpc, client>>
       \/ /\ Frame.f = "BodyChunk" /\ acc.got
          /\ acc' = [acc EXCEPT !.lines = @ \o Frame.lines]
          /\ UNCHANGED <<hpc, client>>
       \/ /\ Frame.f = "End" /\ acc.got
          /\ CollectedAnswer(Frame)
          /\ hpc' = "idle" /\ UNCHANGED acc
       \/ /\ \/ Frame.f \in {"Eof", "Torn"}
             \/ acc.got <=> Frame.f = "Headers"
             \/ Frame.f = "Headers" /\ Len(Frame.headers) > MaxHeaders
          /\ Failed(502)
          /\ Dropped /\ UNCHANGED acc
    /\ UNCHANGED <<kind, n, cmd, worker, chan, skewed>>

\* read_response_head, response_should_stream and build_streaming_response.
ReadHead ==
    /\ hpc = "head" /\ Frame.f # "None" /\ ~Garbled
    /\ read_frame
    /\ IF Frame.f # "Headers"
       THEN Failed(500) /\ hpc' = "idle" /\ UNCHANGED acc
       ELSE /\ acc' = [got |-> TRUE, code |-> Frame.code, headers |-> Frame.headers, lines |-> <<>>]
            /\ IF response_should_stream(Frame.headers)
               THEN Streaming(Frame.code, Frame.headers) /\ hpc' = "forward"
               ELSE hpc' = "drain" /\ UNCHANGED client
    /\ UNCHANGED <<kind, n, cmd, worker, chan, skewed>>

\* The reader of a head it misreads: it waits for bytes that never come, or
\* takes bytes of the header for a response, or finds none; the rest of the
\* header, or of the response, stays in the pipe.
Misread ==
    /\ hpc \in {"read", "head"} /\ Garbled
    /\ skewed' = TRUE
    /\ \/ hpc' = "lost" /\ read_frame /\ UNCHANGED client
       \/ /\ pipe' \in {Tail(pipe), <<Torn>> \o Tail(pipe)}
          /\ \/ hpc' = "idle" /\ FailedUnlessGone(200)
             \/ Dropped /\ FailedUnlessGone(502)
    /\ UNCHANGED <<kind, n, cmd, worker, acc, chan>>

\* What still comes is read, in vain; only the end of the pipe ends it.
ReadLost ==
    /\ hpc = "lost" /\ Frame.f # "None"
    /\ read_frame
    /\ IF Frame.f = "Eof" THEN FailedUnlessGone(502) /\ Dropped ELSE UNCHANGED <<hpc,
                                                                                 client>>
    /\ UNCHANGED <<kind, n, cmd, worker, acc, chan, skewed>>

\* drain_body_buffered; its ok flag is dropped.
DrainBody ==
    /\ hpc = "drain" /\ Frame.f # "None"
    /\ read_frame
    /\ \/ /\ Frame.f = "BodyChunk"
          /\ acc' = [acc EXCEPT !.lines = @ \o Frame.lines]
          /\ UNCHANGED <<hpc, client>>
       \/ /\ Frame.f = "End"
          /\ Answered(acc.code, acc.headers, acc.lines)
          /\ hpc' = "idle" /\ UNCHANGED acc
       \/ /\ Frame.f \notin {"BodyChunk", "End"}
          /\ Failed(500)
          /\ hpc' = "idle" /\ UNCHANGED acc
    /\ UNCHANGED <<kind, n, cmd, worker, chan, skewed>>

ForwardChunk ==
    /\ hpc = "forward" /\ Frame.f = "BodyChunk" /\ client.end # "gone"
    /\ Len(chan) < ChanCap
    /\ chan' = Append(chan, Frame.lines)
    /\ UNCHANGED <<hpc, client>>

\* The forwarder has returned: the channel is closed and the worker goes
\* back to its pool.  A broken frame is passed on as an error; the end of
\* the pipe is not.
ForwardEnds ==
    /\ hpc \in {"forward", "discard"} /\ Frame.f \in {"End", "Eof", "Torn"}
    /\ Released
    /\ IF hpc = "forward" /\ Frame.f = "Torn" /\ client.end # "gone"
       THEN Len(chan) < ChanCap /\ chan' = Append(chan, <<Torn>>)
       ELSE UNCHANGED chan
    /\ UNCHANGED client

\* The client is gone: the rest of the response is read and thrown away.
ForwardDiscards ==
    /\ \/ hpc = "forward" /\ Frame.f = "BodyChunk" /\ client.end = "gone"
       \/ hpc = "discard" /\ Frame.f \in {"BodyChunk", "Headers"}
    /\ hpc' = "discard"
    /\ UNCHANGED <<chan, client>>

\* Defect: the channel grows without bound.
ForwardUnbounded ==
    /\ Frame.f # "None" /\ read_frame
    /\ \/ hpc = "forward" /\ Frame.f = "BodyChunk" /\ client.end # "gone"
          /\ chan' = Append(chan, Frame.lines) /\ UNCHANGED <<hpc, client>>
       \/ ForwardEnds \/ ForwardDiscards
    /\ UNCHANGED <<kind, n, cmd, worker, acc, skewed>>

\* Defect: the forwarder gives up with the client, in the middle of a response.
ForwardGivesUp ==
    /\ Frame.f # "None" /\ read_frame
    /\ \/ ForwardChunk \/ ForwardEnds
       \/ hpc = "forward" /\ Frame.f = "BodyChunk" /\ client.end = "gone"
          /\ hpc' = "idle" /\ UNCHANGED <<chan, client>>
    /\ UNCHANGED <<kind, n, cmd, worker, acc, skewed>>

\* Defect: the forwarder waits for room in the channel of a client that left.
ForwardWaits ==
    /\ Frame.f # "None" /\ read_frame
    /\ \/ hpc = "forward" /\ Frame.f = "BodyChunk"
          /\ Len(chan) < ChanCap /\ chan' = Append(chan, Frame.lines)
          /\ UNCHANGED <<hpc, client>>
       \/ ForwardEnds
    /\ UNCHANGED <<kind, n, cmd, worker, acc, skewed>>

\* start_streaming_forwarder: a chunk waits for room in the channel.
Forward ==
    /\ Frame.f # "None" /\ read_frame
    /\ ForwardChunk \/ ForwardEnds \/ ForwardDiscards
    /\ UNCHANGED <<kind, n, cmd, worker, acc, skewed>>

----------------------------------------------------------------------------
(***************************************************************************)
(* The client of a streamed response: ChannelBody::poll_frame.             *)
(***************************************************************************)
ClientReads ==
    /\ client.end = "open" /\ chan # <<>>
    /\ chan' = Tail(chan)
    /\ client' = IF Head(chan) = <<Torn>> THEN [client EXCEPT !.end = "aborted"]
                 ELSE [client EXCEPT !.lines = @ \o Head(chan)]
    /\ UNCHANGED <<kind, n, cmd, worker, pipe, hpc, acc, skewed>>

\* A closed channel is the end of the body.
ClientSeesEnd ==
    /\ client.end = "open" /\ chan = <<>> /\ hpc = "idle"
    /\ client' = [client EXCEPT !.end = "complete"]
    /\ UNCHANGED <<kind, n, cmd, worker, pipe, hpc, acc, chan, skewed>>

ClientLeaves ==
    /\ client.end = "open"
    /\ client' = [client EXCEPT !.end = "gone"]
    /\ UNCHANGED <<kind, n, cmd, worker, pipe, hpc, acc, chan, skewed>>

\* The client leaves while it waits for a buffered answer, and hyper drops the
\* handler.  The armed guard has the worker killed, the streaming path keeps
\* it claimed for good, a named pool's reader is a task of its own; the
\* unarmed guard of the channel path returns the slot, and the response comes.
ClientCancels ==
    /\ client.end = "waiting" /\ hpc # "idle"
    /\ client' = [client EXCEPT !.end = "gone"]
    /\ hpc' = CASE kind = "named" -> hpc [] kind = "channel" -> "idle" [] OTHER -> "left"
    /\ acc' = IF kind = "named" THEN acc ELSE Nothing
    /\ skewed' = (skewed \/ kind = "channel")
    /\ UNCHANGED <<kind, n, cmd, worker, pipe, chan>>

----------------------------------------------------------------------------
String(k) == [i \in 1 .. k |-> 7]

\* A small request of a format, and those that differ from it in the length
\* of one string, or of a header value.
Plain(format) ==
    [i \in DOMAIN Layout(format) |->
        CASE Layout(format)[i] = "str" -> String(1) [] Layout(format)[i] = "num" -> 1
          [] OTHER -> <<>>]

Requests(format) ==
    LET Fields(k) == {i \in DOMAIN Layout(format) : Layout(format)[i] = k}
    IN  {[Plain(format) EXCEPT ![i] = String(k)] : i \in Fields("str"), k \in Lengths}
        \union {[Plain(format) EXCEPT ![b] = <<0, 7>>, ![h] = <<String(1), String(k)>>] :
                   b \in Fields("body"), h \in Fields("headers"), k \in Lengths}

Script == \/ \E c \in HeaderCalls : SetHeader(c.op, c.h)
          \/ SetCode
          \/ \E k \in LineKinds : Echo(k)
          \/ ObFlush
          \/ Flush

WorkerStep  == Take \/ Script \/ ScriptEnds \/ RunCleanup \/ Finish \/ Write
HandlerStep == ReadNative \/ ReadUnclaimed \/ Decode \/ ReadHead \/ DrainBody \/ Forward
               \/ Misread \/ ReadLost
ClientStep  == ClientReads \/ ClientSeesEnd \/ ClientLeaves

Next == \/ \E r \in Requests(Format) : Send(r)
        \/ WorkerStep
        \/ Crash
        \/ HandlerStep
        \/ ClientStep
        \/ ClientCancels

\* A script ends, tasks are scheduled, and the client of a stream reads or
\* leaves.  A client that waits need not leave.
Fairness == WF_vars(WorkerStep) /\ WF_vars(HandlerStep) /\ WF_vars(ClientStep)

Spec == Init /\ [][Next]_vars /\ Fairness

----------------------------------------------------------------------------
(***************************************************************************)
(* Properties.                                                             *)
(***************************************************************************)
\* The type of the state, with its bounds: pipe and body channel never hold
\* more than their capacity, and no frame but those of the worker's protocol is on its pipe.
TypeOK ==
    /\ kind \in Kinds /\ n \in 0 .. MaxRequests
    /\ wpc \in {"idle", "asked", "script", "cleanup", "finish", "write", "dead"}
    /\ hpc \in {"idle", "read", "head", "drain", "forward", "discard", "left", "lost"}
    /\ ok \in BOOLEAN /\ steps \in 0 .. MaxSteps
    /\ Len(pipe) <= PipeCap
    /\ \A i \in DOMAIN pipe : pipe[i].f \in
           {"Torn"} \union (IF Framed THEN {"Headers", "BodyChunk", "End"} ELSE {"Native"})
    /\ Len(chan) <= ChanCap
    /\ client.code \in Codes \union {0}
    /\ client.end \in {"waiting", "open", "complete", "aborted", "gone"}
    /\ o.engaged => o.armed
    /\ hpc = "lost" => skewed

\* The worker decodes the request that was sent, or refuses it: a string that
\* does not fit its length field is never taken for another request
\* (encode_native_request_into, NativeRequest::decode, DecodedRequest::decode).
RequestIntact ==
    wpc = "asked" =>
        decode(Format, cmd.cells) = IF TooLong(Format, cmd.req) THEN <<"refused">> ELSE cmd.req

\* The ordering contract of stream.rs: Headers first and once, any number of
\* BodyChunk, one End, whenever and however often the script flushes.
FrameOrder ==
    Framed => /\ framed # <<>> => framed[1] = "Headers"
              /\ \A i \in 2 .. Len(framed) : framed[i] # "Headers"
              /\ \A i \in 1 .. Len(framed) - 1 : framed[i] # "End"

\* Nothing of one response is left for the reader of the next: an idle worker
\* that was given back has an empty pipe and empty buffers, also when the
\* client left in the middle (AsyncPipe is opened again on the same fd) or
\* decode_response_async stopped at an error.  Heads whose lengths were cut,
\* and a channel whose client left, are excepted: FullyDecoded and
\* NothingInFlight are about them.
Aligned ==
    ~skewed /\ wpc = "idle" /\ hpc = "idle" =>
        pipe = <<>> /\ o.out = <<>> /\ o.buf = <<>> /\ o.headers = <<>>

\* An answer the server gives itself: an error, or a file.
Own(ls) == ls # <<>> /\ \A i \in DOMAIN ls : ls[i].by \in {"server", "worker", "file"}

\* A complete answer has every line this request and its cleanup script
\* printed, in order, and no other: neither a flush, PHP's own buffering nor
\* an earlier request shows.  Buffered answers are without their log lines.
\* Of a streamed one whose worker died between two frames the client sees a
\* regular end.  What the comments of the code say of cleanup output and of
\* a cut stream is in CleanupDiscarded and CutStreamShown.
WholeBody ==
    ~skewed /\ client.end = "complete" /\ ~Own(client.lines) =>
        IF kind = "stream" /\ headers_request_streaming(client.headers)
        THEN IF wpc = "dead" THEN IsPrefix(client.lines, printed) ELSE client.lines = printed
        ELSE client.lines = Cleaned(printed)

\* A script that failed is not reported as a success, unless a named pool
\* or the streaming path, which drop the flag, answered; and unless
\* X-Sendfile replaced the answer.
FailureShown ==
    (/\ ~skewed /\ client.end = "complete" /\ n > 0 /\ wpc = "idle" /\ ~ok
     /\ kind \notin {"named", "stream"}) =>
        client.code >= 400 \/ Own(client.lines)

\* Every handler ends, and with it the use of the worker: a client that is
\* slow or leaves, a full pipe and a crash do not leave it waiting.  Only the
\* reader of a head whose lengths were cut may wait for ever ("lost"): no
\* time-out is around the read (main.rs:4102).
ResponseEnds == hpc \notin {"idle", "left"} ~> hpc \in {"idle", "left", "lost"}

----------------------------------------------------------------------------
(***************************************************************************)
(* What comments of the code say, and the code does not keep.              *)
(***************************************************************************)
\* persistent.rs:1022, "Cleanup output is intentionally discarded": no line
\* of the cleanup script is in an answer.
CleanupDiscarded ==
    client.end = "complete" =>
        \A i \in DOMAIN client.lines : client.lines[i].by # "cleanup"

\* stream.rs:361, "Pipe EOF mid-stream": the body of a stream ends as a
\* regular one only if the worker has written its End.
CutStreamShown ==
    (kind = "stream" /\ client.end = "complete" /\ headers_request_streaming(client.headers)) =>
        framed # <<>> /\ Last(framed) = "End"

\* main.rs:744, "the request finished cleanly (response fully decoded)": a
\* worker that is given back has nothing of a response in its pipe.
FullyDecoded ==
    kind = "native" /\ wpc = "idle" /\ hpc = "idle" => pipe = <<>>

\* main.rs:703, "a cancelled future cannot leave bytes in flight": an answer
\* of the channel path has no line of another request.
NothingInFlight ==
    kind = "channel" /\ client.end = "complete" =>
        \A i \in DOMAIN client.lines : client.lines[i].req = n
=============================================================================
