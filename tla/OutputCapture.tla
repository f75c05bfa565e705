--------------------------- MODULE OutputCapture ----------------------------
(***************************************************************************)
(* The output of a script, crates/turbine-engine/src/output.rs: the        *)
(* thread-local buffers the callbacks of PHP fill, and the frames they     *)
(* write straight to the response pipe once streaming is engaged; and what *)
(* becomes of the collected body, crates/turbine-core/src/response.rs.     *)
(*                                                                         *)
(* The state o of one worker holds OUTPUT_BUFFER (buf), HEADER_BUFFER      *)
(* (headers), RESPONSE_CODE (code), PHP's own response code (sg),          *)
(* STREAM_FD (armed), STREAM_ENGAGED (engaged), and in out the frames this *)
(* worker is writing.  Output is a sequence of lines.                      *)
(***************************************************************************)
EXTENDS Integers, Sequences, SequencesExt

CONSTANT structured_logging_enabled

\* Content-Type: text/event-stream and X-Accel-Buffering: no are "stream"; a
\* value of 64 KiB or more, which does not fit its length field, is "long".
Header == {[name |-> "Content-Type", value |-> "stream"],
           [name |-> "Content-Type", value |-> "plain"],
           [name |-> "X-Sendfile", value |-> "plain"],
           [name |-> "X-Data", value |-> "long"]}

LineKinds == {"text", "log", "badlog", "blank"}

Codes == {200, 404, 500, 502}

\* The frames, and the single message of a native worker.
Headers(code, hs)    == [f |-> "Headers", code |-> code, headers |-> hs]
BodyChunk(ls)        == [f |-> "BodyChunk", lines |-> ls]
End(ok)              == [f |-> "End", ok |-> ok]
Native(ok, code, hs, ls) == [f |-> "Native", ok |-> ok, code |-> code, headers |-> hs, lines |-> ls]
\* A part of a frame: what a worker that dies while it writes leaves behind,
\* or what a reader that lost its place left unread.
Torn                 == [f |-> "Torn"]

\* The lengths of names and values, and the number of headers of a native
\* response, are written `as u16`, and behind them all the bytes: whoever
\* reads such a frame takes bytes of a header for what follows the headers.
Cut(x, limit) ==
    /\ x.f \in {"Headers", "Native"}
    /\ \/ \E i \in DOMAIN x.headers : x.headers[i].value = "long"
       \/ x.f = "Native" /\ Len(x.headers) >= limit

NoOutput == [buf |-> <<>>, headers |-> <<>>, code |-> 200, sg |-> 200,
             armed |-> FALSE, engaged |-> FALSE, out |-> <<>>]

----------------------------------------------------------------------------
clear_output_buffer(o) == [o EXCEPT !.buf = <<>>, !.headers = <<>>, !.code = 200]

arm_streaming(o) == [o EXCEPT !.armed = TRUE, !.engaged = FALSE]

\* Also what take_response_code returns: the captured code before PHP's own.
response_code(o) == IF o.code # 200 THEN o.code ELSE o.sg

emit_headers_frame(o) ==
    [o EXCEPT !.out = Append(@, Headers(response_code(o), o.headers)), !.headers = <<>>]

emit_body_chunk_frame(o, ls) == [o EXCEPT !.out = Append(@, BodyChunk(ls))]

headers_request_streaming(hs) ==
    \E i \in DOMAIN hs : hs[i] = [name |-> "Content-Type", value |-> "stream"]

\* Defect: the guard against a second engagement is gone.
engage_streamingAgain(o) ==
    IF ~o.armed THEN o
    ELSE LET e == emit_headers_frame([o EXCEPT !.engaged = TRUE])
         IN  IF o.buf = <<>> THEN e
             ELSE [emit_body_chunk_frame(e, o.buf) EXCEPT !.buf = <<>>]

\* The headers, and what was buffered before, once per request.
engage_streaming(o) ==
    IF ~o.armed \/ o.engaged THEN o
    ELSE LET e == emit_headers_frame([o EXCEPT !.engaged = TRUE])
         IN  IF o.buf = <<>> THEN e
             ELSE [emit_body_chunk_frame(e, o.buf) EXCEPT !.buf = <<>>]

turbine_ub_write(o, ls) ==
    IF ls = <<>> THEN o
    ELSE IF o.engaged THEN emit_body_chunk_frame(o, ls)
    ELSE IF o.armed /\ headers_request_streaming(o.headers)
    THEN emit_body_chunk_frame(engage_streaming(o), ls)
    ELSE [o EXCEPT !.buf = @ \o ls]

turbine_sapi_flush(o) == engage_streaming(o)

Without(hs, names) == SelectSeq(hs, LAMBDA h : h.name \notin names)

\* header(), header_remove() with and without a name, and a status line.
turbine_header_handler(o, op, h) ==
    CASE op = "replace"    -> [o EXCEPT !.headers = Append(Without(@, {h.name}), h)]
      [] op = "add"        -> [o EXCEPT !.headers = Append(@, h)]
      [] op = "delete"     -> [o EXCEPT !.headers = Without(@, {h.name})]
      [] op = "delete_all" -> [o EXCEPT !.headers = <<>>]
      [] op = "status"     -> [o EXCEPT !.code = 404]

\* finish_streaming, take_output, take_headers and take_response_code.
finish_streaming(o) == [o EXCEPT !.armed = FALSE, !.engaged = FALSE]

Taken(o) == [o EXCEPT !.buf = <<>>, !.headers = <<>>, !.code = 200]

----------------------------------------------------------------------------
\* Defect: the flag of the worker is ignored.
HonouredNever(ok, code) == code

\* The 2xx or 3xx of a script that failed becomes 500.
Honoured(ok, code) == IF ~ok /\ code \in 200 .. 399 THEN 500 ELSE code

\* Marker lines go, if at least one of them could be parsed; blank lines in
\* front of the first line kept go with them.
extract_structured_logs(ls) ==
    IF ~\E i \in DOMAIN ls : ls[i].kind = "log" THEN ls
    ELSE LET kept  == SelectSeq(ls, LAMBDA l : l.kind \notin {"log", "badlog"})
             texts == {i \in DOMAIN kept : kept[i].kind # "blank"}
         IN  IF texts = {} THEN <<>>
             ELSE SubSeq(kept, CHOOSE i \in texts : \A j \in texts : i <= j, Len(kept))

\* The first hook of postprocess_php_response.
Cleaned(ls) == IF structured_logging_enabled THEN extract_structured_logs(ls) ELSE ls

check_x_sendfile(hs) == \E i \in DOMAIN hs : hs[i].name = "X-Sendfile"

\* The answer to the client; file: X-Sendfile names a file below the root
\* that can be read, and file_lines are its contents.
postprocess_php_response(r, file, file_lines) ==
    IF check_x_sendfile(r.headers) /\ file
    THEN [code |-> 200, headers |-> Without(r.headers, {"X-Sendfile"}), lines |-> file_lines]
    ELSE [r EXCEPT !.lines = Cleaned(@)]
=============================================================================
