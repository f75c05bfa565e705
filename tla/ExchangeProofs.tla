--------------------------- MODULE ExchangeProofs ---------------------------
(***************************************************************************)
(* What a worker writes and what its handler makes of it, for any number   *)
(* of requests, any script and any capacity of the pipe and the channel.   *)
(***************************************************************************)
EXTENDS Exchange, TLAPS, SequenceTheorems

(***************************************************************************)
(* Sequences whose elements are not of one type                            *)
(***************************************************************************)
IsSeq(s) == s \in Seq({s[i] : i \in DOMAIN s})

LEMMA SeqIntro ==
    ASSUME NEW S, NEW s \in Seq(S)
    PROVE  IsSeq(s)
  BY DEF IsSeq

LEMMA SeqBasic ==
    ASSUME NEW s, IsSeq(s)
    PROVE  /\ Len(s) \in Nat /\ DOMAIN s = 1 .. Len(s)
           /\ s = <<>> <=> Len(s) = 0
  BY LenProperties, EmptySeq DEF IsSeq

LEMMA SeqSmall ==
    /\ IsSeq(<<>>) /\ Len(<<>>) = 0
    /\ \A x : IsSeq(<<x>>) /\ Len(<<x>>) = 1 /\ <<x>>[1] = x /\ <<x>> # <<>>
<1>1. IsSeq(<<>>)
  BY EmptySeq, SeqIntro
<1>2. ASSUME NEW x PROVE IsSeq(<<x>>) /\ Len(<<x>>) = 1 /\ <<x>>[1] = x /\ <<x>> # <<>>
  <2>1. <<x>> \in Seq({x})
    OBVIOUS
  <2>2. IsSeq(<<x>>)
    BY <2>1, SeqIntro
  <2>3. <<x>> # <<>>
    OBVIOUS
  <2>. QED
    BY <2>2, <2>3
<1>. QED
  BY <1>1, <1>2

\* r is s and e.
Added(s, e, r) ==
    /\ IsSeq(r) /\ Len(r) = Len(s) + 1 /\ r # <<>>
    /\ \A i \in 1 .. Len(s) : r[i] = s[i]
    /\ r[Len(s) + 1] = e

LEMMA SeqAppend ==
    ASSUME NEW s, IsSeq(s), NEW e
    PROVE  Added(s, e, Append(s, e))
<1>. DEFINE S == {s[i] : i \in DOMAIN s} \union {e}
<1>1. s \in Seq(S) /\ e \in S
  BY SeqMonotonic DEF IsSeq
<1>. HIDE DEF S
<1>2. /\ Append(s, e) \in Seq(S) /\ Len(Append(s, e)) = Len(s) + 1
      /\ \A i \in 1 .. Len(s) : Append(s, e)[i] = s[i]
      /\ Append(s, e)[Len(s) + 1] = e
      /\ Append(s, e) # <<>>
  BY <1>1, AppendProperties
<1>3. IsSeq(Append(s, e))
  BY <1>2, SeqIntro
<1>. QED
  BY <1>2, <1>3 DEF Added

\* r is s without its first element.
Shifted(s, r) ==
    /\ IsSeq(r) /\ Len(r) = Len(s) - 1
    /\ \A i \in 1 .. Len(s) - 1 : r[i] = s[i + 1]

LEMMA SeqTail ==
    ASSUME NEW s, IsSeq(s), s # <<>>
    PROVE  Shifted(s, Tail(s)) /\ Len(s) > 0 /\ Head(s) = s[1]
<1>. DEFINE S == {s[i] : i \in DOMAIN s}
<1>1. s \in Seq(S)
  BY DEF IsSeq
<1>. HIDE DEF S
<1>2. /\ Tail(s) \in Seq(S) /\ Len(Tail(s)) = Len(s) - 1
      /\ \A i \in 1 .. Len(Tail(s)) : Tail(s)[i] = s[i + 1]
      /\ Head(s) = s[1]
  BY <1>1, HeadTailProperties
<1>3. IsSeq(Tail(s))
  BY <1>2, SeqIntro
<1>4. Len(s) > 0
  BY SeqBasic
<1>. QED
  BY <1>2, <1>3, <1>4 DEF Shifted

\* r is s followed by t.
Joined(s, t, r) ==
    /\ IsSeq(r) /\ Len(r) = Len(s) + Len(t)
    /\ \A i \in 1 .. Len(s) : r[i] = s[i]
    /\ \A i \in 1 .. Len(t) : r[Len(s) + i] = t[i]

LEMMA SeqJoin ==
    ASSUME NEW s, IsSeq(s), NEW t, IsSeq(t)
    PROVE  Joined(s, t, s \o t)
<1>. DEFINE S == {s[i] : i \in DOMAIN s} \union {t[i] : i \in DOMAIN t}
<1>1. s \in Seq(S) /\ t \in Seq(S)
  BY SeqMonotonic DEF IsSeq
<1>. HIDE DEF S
<1>2. /\ s \o t \in Seq(S) /\ Len(s \o t) = Len(s) + Len(t)
      /\ \A i \in 1 .. Len(s) + Len(t) :
             (s \o t)[i] = IF i <= Len(s) THEN s[i] ELSE t[i - Len(s)]
  BY <1>1, ConcatProperties
<1>3. Len(s) \in Nat /\ Len(t) \in Nat
  BY SeqBasic
<1>4. \A i \in 1 .. Len(s) : (s \o t)[i] = s[i]
  BY <1>2, <1>3
<1>5. \A i \in 1 .. Len(t) : (s \o t)[Len(s) + i] = t[i]
  BY <1>2, <1>3
<1>6. IsSeq(s \o t)
  BY <1>2, SeqIntro
<1>. QED
  BY <1>2, <1>4, <1>5, <1>6 DEF Joined

LEMMA SeqEmptyJoin ==
    ASSUME NEW s, IsSeq(s)
    PROVE  <<>> \o s = s /\ s \o <<>> = s
  BY ConcatEmptySeq DEF IsSeq

----------------------------------------------------------------------------
(***************************************************************************)
(* The output layer                                                        *)
(***************************************************************************)
Fields == {"buf", "headers", "code", "sg", "armed", "engaged", "out"}

IsOutput(x) ==
    /\ DOMAIN x = Fields
    /\ IsSeq(x.buf) /\ IsSeq(x.out)
    /\ x.code \in {200, 404} /\ x.sg \in {200, 404}
    /\ x.armed \in BOOLEAN /\ x.engaged \in BOOLEAN
    /\ x.engaged => x.armed /\ x.buf = <<>>

\* The shapes of what is written: the frames of a response that goes on, more
\* of its body, the rest of a response, and a whole one.
Chunks(s) == \A i \in 1 .. Len(s) : s[i].f = "BodyChunk"
Opened(s) == /\ Len(s) > 0 /\ s[1].f = "Headers"
             /\ \A i \in 2 .. Len(s) : s[i].f = "BodyChunk"
Ending(s) == /\ Len(s) > 0 /\ s[Len(s)].f = "End"
             /\ \A i \in 1 .. Len(s) - 1 : s[i].f = "BodyChunk"
Whole(s)  == /\ Len(s) > 1 /\ s[1].f = "Headers" /\ s[Len(s)].f = "End"
             /\ \A i \in 2 .. Len(s) - 1 : s[i].f = "BodyChunk"

\* A call into the output layer keeps the codes and the descriptor; it adds to
\* the buffer, engages streaming, or adds to the body of an engaged response.
Same(a, b) == b.code = a.code /\ b.sg = a.sg /\ b.armed = a.armed

Top(a) == Headers(response_code(a), a.headers)

LEMMA EngageDoes ==
    ASSUME NEW a, IsOutput(a), a.out = <<>>, NEW b, b = engage_streaming(a)
    PROVE  /\ IsOutput(b) /\ Same(a, b)
           /\ \/ b = a /\ (~a.armed \/ a.engaged)
              \/ /\ a.armed /\ ~a.engaged /\ b.engaged
                 /\ b.buf = <<>> /\ b.headers = <<>>
                 /\ b.out = IF a.buf = <<>> THEN Append(<<>>, Top(a))
                            ELSE Append(Append(<<>>, Top(a)), BodyChunk(a.buf))
<1>1. CASE ~a.armed \/ a.engaged
  BY <1>1 DEF engage_streaming, Same
<1>2. CASE a.armed /\ ~a.engaged
  <2>. DEFINE h == [a EXCEPT !.engaged = TRUE]
              e == emit_headers_frame(h)
  <2>1. /\ DOMAIN h = Fields /\ h.buf = a.buf /\ h.out = a.out /\ h.headers = a.headers
        /\ Same(a, h) /\ h.engaged = TRUE
    BY DEF IsOutput, Fields, Same
  <2>2. Headers(response_code(h), h.headers) = Top(a)
    BY <2>1 DEF Top, response_code, Same
  <2>. HIDE DEF h
  <2>3. /\ DOMAIN e = Fields /\ e.buf = a.buf /\ e.headers = <<>> /\ Same(a, e) /\ e.engaged = TRUE
        /\ e.out = Append(<<>>, Top(a))
    BY <2>1, <2>2 DEF emit_headers_frame, Fields, Same
  <2>4. IsSeq(e.out) /\ IsSeq(Append(e.out, BodyChunk(a.buf)))
    BY <2>3, SeqSmall, SeqAppend DEF Added
  <2>. HIDE DEF e
  <2>5. CASE a.buf = <<>>
    <3>1. b = e
      BY <1>2, <2>5 DEF engage_streaming, e, h
    <3>2. /\ DOMAIN b = Fields /\ b.buf = <<>> /\ Same(a, b) /\ b.engaged = TRUE
          /\ IsSeq(b.out)
      BY <2>3, <2>4, <2>5, <3>1
    <3>3. IsOutput(b)
      BY <1>2, <3>2, SeqSmall, ZenonT(60) DEF IsOutput, Same
    <3>. QED
      BY <1>2, <2>3, <2>5, <3>1, <3>3
  <2>6. CASE a.buf # <<>>
    <3>1. b = [[e EXCEPT !.out = Append(@, BodyChunk(a.buf))] EXCEPT !.buf = <<>>]
      BY <1>2, <2>6 DEF engage_streaming, emit_body_chunk_frame, e, h
    <3>2. /\ DOMAIN b = Fields /\ b.buf = <<>> /\ b.headers = <<>> /\ Same(a, b) /\ b.engaged = TRUE
          /\ b.out = Append(e.out, BodyChunk(a.buf))
      BY <3>1, <2>3 DEF Fields, Same
    <3>3. IsOutput(b)
      BY <1>2, <2>3, <2>4, <2>6, <3>2, SeqSmall, ZenonT(60) DEF IsOutput, Same
    <3>. QED
      BY <1>2, <2>3, <2>6, <3>2, <3>3
  <2>. QED
    BY <2>5, <2>6
<1>. QED
  BY <1>1, <1>2 DEF IsOutput
\* What a write of the script, or PHP's last flush, does to the output.
LEMMA WriteDoes ==
    ASSUME NEW a, IsOutput(a), a.out = <<>>, NEW ls, IsSeq(ls),
           NEW b, b = turbine_ub_write(a, ls)
    PROVE  /\ IsOutput(b) /\ Same(a, b)
           /\ \/ /\ ~a.engaged /\ ~b.engaged /\ b.out = <<>>
                 /\ b.buf = a.buf \o ls /\ b.headers = a.headers
              \/ /\ a.engaged /\ b.engaged /\ b.headers = a.headers
                 /\ b.out = IF ls = <<>> THEN <<>> ELSE Append(<<>>, BodyChunk(ls))
              \/ /\ ~a.engaged /\ a.armed /\ b.engaged /\ b.headers = <<>>
                 /\ b.out = IF a.buf = <<>>
                            THEN Append(Append(<<>>, Top(a)), BodyChunk(ls))
                            ELSE Append(Append(Append(<<>>, Top(a)), BodyChunk(a.buf)),
                                        BodyChunk(ls))
<1>. IsSeq(a.buf) /\ DOMAIN a = Fields
  BY DEF IsOutput
<1>1. CASE ls = <<>>
  <2>1. b = a /\ a.buf = a.buf \o ls
    BY <1>1, SeqEmptyJoin DEF turbine_ub_write
  <2>. QED
    BY <1>1, <2>1 DEF Same
<1>2. CASE ls # <<>> /\ a.engaged
  <2>1. b = [a EXCEPT !.out = Append(@, BodyChunk(ls))]
    BY <1>2 DEF turbine_ub_write, emit_body_chunk_frame
  <2>2. /\ DOMAIN b = Fields /\ b.buf = a.buf /\ b.headers = a.headers
        /\ Same(a, b) /\ b.engaged = a.engaged
        /\ b.out = Append(<<>>, BodyChunk(ls))
    BY <2>1 DEF Fields, Same
  <2>3. IsSeq(b.out)
    BY <2>2, SeqSmall, SeqAppend DEF Added
  <2>4. IsOutput(b)
    BY <2>2, <2>3, ZenonT(60) DEF IsOutput, Same
  <2>. QED
    BY <1>2, <2>2, <2>4
<1>3. CASE ls # <<>> /\ ~a.engaged /\ a.armed /\ headers_request_streaming(a.headers)
  <2>. DEFINE e == engage_streaming(a)
  <2>1. b = [e EXCEPT !.out = Append(@, BodyChunk(ls))]
    BY <1>3 DEF turbine_ub_write, emit_body_chunk_frame
  <2>2. /\ IsOutput(e) /\ Same(a, e) /\ e.engaged /\ e.buf = <<>> /\ e.headers = <<>>
        /\ e.out = IF a.buf = <<>> THEN Append(<<>>, Top(a))
                   ELSE Append(Append(<<>>, Top(a)), BodyChunk(a.buf))
    BY <1>3, EngageDoes
  <2>. HIDE DEF e
  <2>3. /\ DOMAIN b = Fields /\ b.buf = e.buf /\ b.headers = e.headers
        /\ Same(e, b) /\ b.engaged = e.engaged
        /\ b.out = Append(e.out, BodyChunk(ls))
    BY <2>1, <2>2, ZenonT(60) DEF Fields, Same, IsOutput
  <2>4. IsSeq(b.out)
    BY <2>2, <2>3, SeqAppend DEF IsOutput, Added
  <2>5. IsOutput(b)
    BY <2>2, <2>3, <2>4, ZenonT(60) DEF IsOutput, Same
  <2>6. Same(a, b)
    BY <2>2, <2>3 DEF Same
  <2>. QED
    BY <1>3, <2>2, <2>3, <2>5, <2>6
<1>4. CASE ls # <<>> /\ ~a.engaged /\ ~(a.armed /\ headers_request_streaming(a.headers))
  <2>1. b = [a EXCEPT !.buf = @ \o ls]
    BY <1>4 DEF turbine_ub_write
  <2>2. /\ DOMAIN b = Fields /\ b.buf = a.buf \o ls /\ b.headers = a.headers
        /\ Same(a, b) /\ b.engaged = a.engaged /\ b.out = a.out
    BY <2>1 DEF Fields, Same
  <2>3. IsSeq(b.buf)
    BY <2>2, SeqJoin DEF Joined
  <2>4. IsOutput(b)
    BY <1>4, <2>2, <2>3, ZenonT(60) DEF IsOutput, Same
  <2>. QED
    BY <1>4, <2>2, <2>4
<1>. QED
  BY <1>1, <1>2, <1>3, <1>4
\* A whole response: the frames of a framed worker, or one message.
Response(r, success, code, hs, ls) ==
    /\ IsSeq(r)
    /\ ~Framed => Len(r) = 1 /\ r[1] = Native(success, code, hs, ls)
    /\ Framed => /\ r[1] = Headers(code, hs) /\ r[Len(r)] = End(success)
                 /\ Len(r) = IF ls = <<>> THEN 2 ELSE 3
                 /\ ls # <<>> => r[2] = BodyChunk(ls)

LEMMA ResponseDoes ==
    ASSUME NEW ok_, NEW code, NEW hs, NEW ls, IsSeq(ls)
    PROVE  Response(write_response(ok_, code, hs, ls), ok_, code, hs, ls)
<1>. DEFINE r == write_response(ok_, code, hs, ls)
<1>. SUFFICES Response(r, ok_, code, hs, ls)
  OBVIOUS
<1>1. CASE ~Framed
  BY <1>1, SeqSmall DEF write_response, Response
<1>2. CASE Framed
  <2>. DEFINE h == <<Headers(code, hs)>>
              m == IF ls = <<>> THEN <<>> ELSE <<BodyChunk(ls)>>
              e == <<End(ok_)>>
  <2>1. r = (h \o m) \o e
    BY <1>2 DEF write_response
  <2>2. /\ IsSeq(h) /\ Len(h) = 1 /\ h[1] = Headers(code, hs)
        /\ IsSeq(m) /\ Len(m) = (IF ls = <<>> THEN 0 ELSE 1)
        /\ ls # <<>> => m[1] = BodyChunk(ls)
        /\ IsSeq(e) /\ Len(e) = 1 /\ e[1] = End(ok_)
    BY SeqSmall
  <2>. HIDE DEF h, m, e
  <2>. DEFINE c == h \o m
  <2>3. Joined(h, m, c)
    BY <2>2, SeqJoin
  <2>. HIDE DEF c
  <2>4. /\ IsSeq(c) /\ Len(c) = (IF ls = <<>> THEN 1 ELSE 2)
        /\ c[1] = Headers(code, hs)
        /\ ls # <<>> => c[2] = BodyChunk(ls)
    BY <2>2, <2>3 DEF Joined
  <2>5. Joined(c, e, c \o e)
    BY <2>2, <2>4, SeqJoin
  <2>6. r = c \o e
    BY <2>1 DEF c
  <2>7. /\ IsSeq(r) /\ Len(r) = Len(c) + 1 /\ r[Len(c) + 1] = End(ok_)
        /\ \A i \in 1 .. Len(c) : r[i] = c[i]
    BY <2>2, <2>5, <2>6 DEF Joined
  <2>. HIDE DEF r
  <2>. QED
    BY <1>2, <2>4, <2>7 DEF Response
<1>. QED
  BY <1>1, <1>2

\* The rest of a response that is engaged is its End frame.
LEMMA RestDoes ==
    ASSUME NEW d, IsOutput(d), NEW r, r = Rest(d)
    PROVE  /\ d.engaged => r = <<>> \o <<End(ok)>>
           /\ ~d.engaged => r = write_response(ok, response_code(d), d.headers, d.buf)
  BY DEF Rest, IsOutput

LEMMA EndAlone ==
    ASSUME NEW v
    PROVE  LET r == <<>> \o <<End(v)>> IN IsSeq(r) /\ Len(r) = 1 /\ r[1] = End(v)
  BY SeqSmall, SeqEmptyJoin
\* What reaches the pipe while the script runs.
Shaped(a, b) ==
    \/ ~a.engaged /\ ~b.engaged /\ b.out = <<>>
    \/ a.engaged /\ b.engaged /\ Chunks(b.out)
    \/ ~a.engaged /\ b.engaged /\ Opened(b.out)

FrameOK(x, v) ==
    /\ x.f \in {"Headers", "BodyChunk", "End", "Native", "Torn"}
    /\ x.f \in {"Headers", "Native"} => x.code \in Codes
    /\ x.f \in {"End", "Native"} => (x.ok => v)

FramesOK(s, v) == \A i \in 1 .. Len(s) : FrameOK(s[i], v)

LEMMA FrameKinds ==
    ASSUME NEW v, NEW c, NEW hs, NEW ls
    PROVE  /\ Headers(c, hs).f = "Headers" /\ Headers(c, hs).code = c
           /\ BodyChunk(ls).f = "BodyChunk" /\ BodyChunk(ls).lines = ls
           /\ End(v).f = "End" /\ End(v).ok = v
           /\ Native(v, c, hs, ls).f = "Native" /\ Native(v, c, hs, ls).code = c
           /\ Native(v, c, hs, ls).ok = v
           /\ Torn.f = "Torn"
  BY DEF Headers, BodyChunk, End, Native, Torn

LEMMA TopCode ==
    ASSUME NEW v, NEW a, IsOutput(a)
    PROVE  /\ response_code(a) \in {200, 404}
           /\ FrameOK(Top(a), v) /\ Top(a).f = "Headers"
<1>1. response_code(a) \in {200, 404}
  BY DEF response_code, IsOutput
<1>. QED
  BY <1>1, FrameKinds DEF FrameOK, Top, Codes

LEMMA BodyOK == ASSUME NEW v, NEW ls PROVE FrameOK(BodyChunk(ls), v) /\ BodyChunk(ls).f = "BodyChunk"
  BY FrameKinds DEF FrameOK

\* A response is opened by its headers and goes on with its body.
LEMMA OpenedByTop ==
    ASSUME NEW v, NEW a, IsOutput(a), NEW r, r = Append(<<>>, Top(a))
    PROVE  IsSeq(r) /\ Len(r) = 1 /\ r[1] = Top(a) /\ Opened(r) /\ FramesOK(r, v)
<1>1. Added(<<>>, Top(a), r)
  BY SeqSmall, SeqAppend
<1>2. IsSeq(r) /\ Len(r) = 1 /\ r[1] = Top(a)
  BY <1>1, SeqSmall DEF Added
<1>. QED
  BY <1>2, TopCode DEF Opened, FramesOK

LEMMA OpenedGoesOn ==
    ASSUME NEW v, NEW s, IsSeq(s), Opened(s), FramesOK(s, v), NEW ls, NEW r, r = Append(s, BodyChunk(ls))
    PROVE  IsSeq(r) /\ Opened(r) /\ FramesOK(r, v)
<1>1. Added(s, BodyChunk(ls), r)
  BY SeqAppend
<1>2. Len(s) \in Nat
  BY SeqBasic
<1>. QED
  BY <1>1, <1>2, BodyOK DEF Added, Opened, FramesOK

LEMMA ChunkShapes ==
    ASSUME NEW v PROVE
    /\ Chunks(<<>>) /\ FramesOK(<<>>, v)
    /\ \A ls : Chunks(Append(<<>>, BodyChunk(ls))) /\ FramesOK(Append(<<>>, BodyChunk(ls)), v)
<1>1. Chunks(<<>>) /\ FramesOK(<<>>, v)
  BY SeqSmall DEF Chunks, FramesOK
<1>2. ASSUME NEW ls, NEW y, y = BodyChunk(ls), NEW one, one = Append(<<>>, y)
      PROVE  Chunks(one) /\ FramesOK(one, v)
  <2>1. Added(<<>>, y, one)
    BY <1>2, SeqSmall, SeqAppend
  <2>2. FrameOK(y, v) /\ y.f = "BodyChunk"
    BY <1>2, BodyOK
  <2>3. Len(one) = 1 /\ one[1] = y
    BY <2>1, SeqSmall DEF Added
  <2>. QED
    BY <2>2, <2>3 DEF Chunks, FramesOK
<1>. QED
  BY <1>1, <1>2

LEMMA EngageShape ==
    ASSUME NEW v, NEW a, IsOutput(a), a.out = <<>>, NEW b, b = engage_streaming(a)
    PROVE  Shaped(a, b) /\ FramesOK(b.out, v)
<1>. DEFINE one == Append(<<>>, Top(a))
            two == Append(one, BodyChunk(a.buf))
<1>1. Opened(one) /\ FramesOK(one, v) /\ Opened(two) /\ FramesOK(two, v)
  <2>1. IsSeq(one) /\ Opened(one) /\ FramesOK(one, v)
    BY OpenedByTop
  <2>. HIDE DEF one
  <2>. QED
    BY <2>1, OpenedGoesOn
<1>2. Chunks(<<>>) /\ FramesOK(<<>>, v)
  BY ChunkShapes
<1>3. CASE b = a /\ (~a.armed \/ a.engaged)
  BY <1>2, <1>3 DEF Shaped, IsOutput
<1>4. CASE ~a.engaged /\ b.engaged /\ b.out = IF a.buf = <<>> THEN one ELSE two
  BY <1>1, <1>4 DEF Shaped
<1>. QED
  BY <1>3, <1>4, EngageDoes

LEMMA WriteShape ==
    ASSUME NEW v, NEW a, IsOutput(a), a.out = <<>>, NEW ls, IsSeq(ls),
           NEW b, b = turbine_ub_write(a, ls)
    PROVE  Shaped(a, b) /\ FramesOK(b.out, v)
<1>. DEFINE one == Append(<<>>, Top(a))
            two == Append(one, BodyChunk(a.buf))
            two_ == Append(one, BodyChunk(ls))
            three == Append(two, BodyChunk(ls))
            chunk == Append(<<>>, BodyChunk(ls))
<1>1. Opened(two_) /\ FramesOK(two_, v) /\ Opened(three) /\ FramesOK(three, v)
  <2>1. IsSeq(one) /\ Opened(one) /\ FramesOK(one, v)
    BY OpenedByTop
  <2>. HIDE DEF one
  <2>2. IsSeq(two) /\ Opened(two) /\ FramesOK(two, v)
    BY <2>1, OpenedGoesOn
  <2>3. Opened(two_) /\ FramesOK(two_, v)
    BY <2>1, OpenedGoesOn
  <2>. HIDE DEF two
  <2>. QED
    BY <2>2, <2>3, OpenedGoesOn
<1>2. Chunks(<<>>) /\ FramesOK(<<>>, v) /\ Chunks(chunk) /\ FramesOK(chunk, v)
  BY ChunkShapes
<1>3. CASE ~a.engaged /\ ~b.engaged /\ b.out = <<>>
  BY <1>2, <1>3 DEF Shaped
<1>4. CASE a.engaged /\ b.engaged /\ b.out = IF ls = <<>> THEN <<>> ELSE chunk
  BY <1>2, <1>4 DEF Shaped
<1>5. CASE ~a.engaged /\ b.engaged /\ b.out = IF a.buf = <<>> THEN two_ ELSE three
  BY <1>1, <1>5 DEF Shaped
<1>. QED
  BY <1>3, <1>4, <1>5, WriteDoes
----------------------------------------------------------------------------
(***************************************************************************)
(* The worker                                                              *)
(***************************************************************************)
Running == {"script", "cleanup", "finish"}

WorkerTypes ==
    /\ kind \in Kinds /\ n \in 0 .. MaxRequests
    /\ wpc \in {"idle", "asked", "write", "dead"} \union Running
    /\ ok \in BOOLEAN /\ steps \in 0 .. MaxSteps
    /\ IsSeq(ob) /\ IsSeq(printed) /\ IsSeq(framed)
    /\ IsOutput(o)

\* What has been written, by kind: the beginning of a response, or all of it.
Begun(k) == /\ Len(k) > 0 /\ k[1] = "Headers"
            /\ \A i \in 2 .. Len(k) : k[i] = "BodyChunk"
Done(k)  == /\ Len(k) > 1 /\ k[1] = "Headers" /\ k[Len(k)] = "End"
            /\ \A i \in 2 .. Len(k) - 1 : k[i] = "BodyChunk"

\* What was written of this response and what waits to be written make up a
\* response, as far as the worker has come.
WorkerOK ==
    /\ n = 0 => wpc = "idle"
    /\ o.armed = (Framed /\ wpc \in Running)
    /\ wpc = "cleanup" => Framed
    /\ wpc \notin Running => o.buf = <<>> /\ o.headers = <<>>
    /\ wpc = "asked" => framed = <<>> /\ o.out = <<>>
    /\ wpc \in Running =>
           IF o.engaged THEN \/ framed = <<>> /\ Opened(o.out)
                             \/ Begun(framed) /\ Chunks(o.out)
           ELSE framed = <<>> /\ o.out = <<>>
    /\ wpc = "write" =>
           IF Framed THEN \/ framed = <<>> /\ Whole(o.out)
                          \/ Begun(framed) /\ Ending(o.out)
           ELSE framed = <<>> /\ Len(o.out) = 1 /\ o.out[1].f = "Native"
    /\ wpc = "idle" =>
           /\ o.out = <<>>
           /\ IF n = 0 THEN framed = <<>>
              ELSE IF Framed THEN Done(framed)
              ELSE Len(framed) = 1 /\ framed[1] = "Native"
    /\ wpc = "dead" => o.out = <<>> /\ (framed = <<>> \/ (Framed /\ Begun(framed)))

LEMMA NoOutputIs == IsOutput(NoOutput) /\ NoOutput.out = <<>> /\ NoOutput.buf = <<>>
                    /\ NoOutput.headers = <<>> /\ NoOutput.armed = FALSE
                    /\ NoOutput.engaged = FALSE
  BY SeqSmall DEF NoOutput, IsOutput, Fields

LEMMA InitWorker ==
    ASSUME Init PROVE WorkerTypes /\ WorkerOK
<1>1. WorkerTypes
  BY ExchangeAssumption, NoOutputIs, SeqSmall DEF Init, WorkerTypes
<1>2. WorkerOK
  BY NoOutputIs DEF Init, WorkerOK, Running
<1>. QED
  BY <1>1, <1>2

LEMMA SendWorker ==
    ASSUME WorkerTypes, WorkerOK, NEW r, Send(r)
    PROVE  (WorkerTypes /\ WorkerOK)'
<1>1. /\ wpc = "idle" /\ wpc' = "asked" /\ n' \in 0 .. MaxRequests /\ n' # 0
      /\ framed' = <<>> /\ printed' = <<>>
      /\ UNCHANGED <<kind, ok, steps, ob, o>>
  BY ExchangeAssumption DEF Send, WorkerTypes
<1>2. WorkerTypes'
  BY <1>1, SeqSmall DEF WorkerTypes
<1>3. WorkerOK'
  BY <1>1 DEF WorkerOK, Running, Framed
<1>. QED
  BY <1>2, <1>3

\* How Take leaves the buffers.
LEMMA TakeDoes ==
    ASSUME WorkerTypes, WorkerOK, Take
    PROVE  /\ IsOutput(o')
           /\ o'.buf = <<>> /\ o'.headers = <<>> /\ o'.engaged = FALSE
           /\ \/ /\ wpc' = "write" /\ o'.armed = FALSE
                 /\ o'.out = write_response(FALSE, 500, <<>>, <<Line("worker", "text")>>)
              \/ /\ wpc' = "script" /\ o'.armed = Framed /\ o'.out = <<>>
<1>1. /\ wpc = "asked" /\ o.armed = FALSE /\ o.engaged = FALSE
      /\ o.buf = <<>> /\ o.headers = <<>> /\ o.out = <<>> /\ DOMAIN o = Fields
  BY ZenonT(60) DEF Take, WorkerTypes, WorkerOK, Running, IsOutput
<1>2. CASE decode(Format, cmd.cells) = <<"refused">>
  <2>. DEFINE r == write_response(FALSE, 500, <<>>, <<Line("worker", "text")>>)
  <2>0. Response(r, FALSE, 500, <<>>, <<Line("worker", "text")>>)
    <3>1. IsSeq(<<Line("worker", "text")>>)
      BY SeqSmall, Zenon
    <3>. QED
      BY <3>1, ResponseDoes, ZenonT(60)
  <2>. HIDE DEF r
  <2>1. IsSeq(r)
    BY <2>0 DEF Response
  <2>2. o' = [o EXCEPT !.out = r] /\ wpc' = "write"
    BY <1>2 DEF Take, r
  <2>3. /\ DOMAIN o' = Fields /\ o'.out = r /\ o'.buf = o.buf /\ o'.headers = o.headers
        /\ o'.armed = o.armed /\ o'.engaged = o.engaged /\ Same(o, o')
    BY <1>1, <2>2 DEF Fields, Same
  <2>4. IsOutput(o')
    BY <1>1, <2>1, <2>3, ZenonT(60) DEF IsOutput, Same, WorkerTypes
  <2>. QED
    BY <1>1, <2>2, <2>3, <2>4 DEF r
<1>3. CASE decode(Format, cmd.cells) # <<"refused">>
  <2>. DEFINE c == clear_output_buffer([o EXCEPT !.sg = 200])
  <2>1. /\ DOMAIN c = Fields /\ c.out = <<>> /\ c.buf = <<>> /\ c.headers = <<>>
        /\ c.armed = FALSE /\ c.engaged = FALSE /\ c.code = 200 /\ c.sg = 200
    BY <1>1 DEF clear_output_buffer, Fields
  <2>. HIDE DEF c
  <2>2. o' = (IF Framed THEN arm_streaming(c) ELSE c) /\ wpc' = "script"
    BY <1>3 DEF Take, c
  <2>3. /\ DOMAIN o' = Fields /\ o'.out = <<>> /\ o'.buf = <<>> /\ o'.headers = <<>>
        /\ o'.armed = Framed /\ o'.engaged = FALSE /\ o'.code = 200 /\ o'.sg = 200
    <3>1. CASE Framed
      <4>1. o' = [c EXCEPT !.armed = TRUE, !.engaged = FALSE]
        BY <2>2, <3>1 DEF arm_streaming
      <4>. QED
        BY <2>1, <4>1, <3>1 DEF Fields
    <3>2. CASE ~Framed
      <4>1. o' = c /\ Framed = FALSE
        BY <2>2, <3>2 DEF Framed
      <4>. QED
        BY <2>1, <4>1
    <3>. QED
      BY <3>1, <3>2
  <2>4. Framed \in BOOLEAN
    BY DEF Framed
  <2>5. IsOutput(o')
    BY <2>3, <2>4, SeqSmall, Zenon DEF IsOutput
  <2>. QED
    BY <2>2, <2>3, <2>5
<1>. QED
  BY <1>2, <1>3
LEMMA ResponseShape ==
    ASSUME NEW r, NEW w, NEW c, NEW hs, NEW ls, NEW v, Response(r, w, c, hs, ls),
           c \in Codes, w => v
    PROVE  /\ IsSeq(r) /\ FramesOK(r, v)
           /\ Framed => Whole(r)
           /\ ~Framed => Len(r) = 1 /\ r[1].f = "Native"
<1>. DEFINE H == Headers(c, hs)
            B == BodyChunk(ls)
            E == End(w)
            M == Native(w, c, hs, ls)
<1>1. /\ H.f = "Headers" /\ B.f = "BodyChunk" /\ E.f = "End" /\ M.f = "Native"
      /\ FrameOK(H, v) /\ FrameOK(B, v) /\ FrameOK(E, v) /\ FrameOK(M, v)
  BY FrameKinds DEF FrameOK
<1>. HIDE DEF H, B, E, M
<1>2. CASE ~Framed
  <2>1. IsSeq(r) /\ Len(r) = 1 /\ r[1] = M
    BY <1>2 DEF Response, M
  <2>. QED
    BY <1>1, <1>2, <2>1 DEF FramesOK
<1>3. CASE Framed
  <2>1. /\ IsSeq(r) /\ Len(r) \in {2, 3} /\ r[1] = H /\ r[Len(r)] = E
        /\ Len(r) = 3 => r[2] = B
    <3>1. /\ IsSeq(r) /\ r[1] = H /\ r[Len(r)] = E
          /\ Len(r) = IF ls = <<>> THEN 2 ELSE 3
          /\ ls # <<>> => r[2] = B
      BY <1>3, Zenon DEF Response, H, B, E
    <3>2. CASE ls = <<>>
      BY <3>1, <3>2
    <3>3. CASE ls # <<>>
      BY <3>1, <3>3
    <3>. QED
      BY <3>2, <3>3
  <2>2. FramesOK(r, v)
    BY <1>1, <2>1 DEF FramesOK
  <2>3. Whole(r)
    BY <1>1, <2>1 DEF Whole
  <2>. QED
    BY <1>3, <2>1, <2>2, <2>3
<1>. QED
  BY <1>2, <1>3

LEMMA TakeWorker ==
    ASSUME WorkerTypes, WorkerOK, Take
    PROVE  WorkerTypes' /\ WorkerOK' /\ FramesOK(o'.out, ok')
<1>1. /\ wpc = "asked" /\ ok' = TRUE /\ steps' = 0 /\ ob' = <<>>
      /\ UNCHANGED <<kind, n, printed, framed>> /\ framed = <<>>
      /\ wpc' \in {"write", "script"}
  BY DEF Take, WorkerOK
<1>2. /\ IsOutput(o')
      /\ o'.buf = <<>> /\ o'.headers = <<>> /\ o'.engaged = FALSE
      /\ \/ /\ wpc' = "write" /\ o'.armed = FALSE
            /\ o'.out = write_response(FALSE, 500, <<>>, <<Line("worker", "text")>>)
         \/ /\ wpc' = "script" /\ o'.armed = Framed /\ o'.out = <<>>
  BY TakeDoes
<1>3. WorkerTypes'
  BY <1>1, <1>2, SeqSmall, ExchangeAssumption DEF WorkerTypes, Running
<1>4. CASE wpc' = "write"
  <2>1. IsSeq(<<Line("worker", "text")>>)
    BY SeqSmall, Zenon
  <2>2. Response(o'.out, FALSE, 500, <<>>, <<Line("worker", "text")>>)
    <3>. DEFINE r == write_response(FALSE, 500, <<>>, <<Line("worker", "text")>>)
    <3>1. o'.out = r
      BY <1>2, <1>4
    <3>2. Response(r, FALSE, 500, <<>>, <<Line("worker", "text")>>)
      BY <2>1, ResponseDoes, ZenonT(60)
    <3>. HIDE DEF r
    <3>. QED
      BY <3>1, <3>2
  <2>3. /\ FramesOK(o'.out, ok')
        /\ Framed => Whole(o'.out)
        /\ ~Framed => Len(o'.out) = 1 /\ o'.out[1].f = "Native"
    <3>1. 500 \in Codes
      BY DEF Codes
    <3>. QED
      BY <2>2, <3>1, ResponseShape, ZenonT(60)
  <2>4. WorkerOK'
    BY <1>1, <1>2, <1>4, <2>3 DEF WorkerOK, Running, Framed
  <2>. QED
    BY <1>3, <2>3, <2>4
<1>5. CASE wpc' = "script"
  <2>1. WorkerOK'
    BY <1>1, <1>2, <1>5 DEF WorkerOK, Running, Framed
  <2>. QED
    BY <1>2, <1>3, <1>5, <2>1, ChunkShapes
<1>. QED
  BY <1>1, <1>4, <1>5

\* A call of the script that leaves the output layer as the lemmas above say.
LEMMA ScriptWorker ==
    ASSUME WorkerTypes, WorkerOK, wpc = "script", o.out = <<>>,
           IsOutput(o'), o'.armed = o.armed, Shaped(o, o'), steps' \in 0 .. MaxSteps,
           IsSeq(ob'), IsSeq(printed'), UNCHANGED <<kind, n, wpc, ok, framed>>
    PROVE  WorkerTypes' /\ WorkerOK'
<1>1. WorkerTypes'
  BY DEF WorkerTypes
<1>2. wpc \in Running /\ (Framed <=> Framed')
  BY DEF Running, Framed
<1>3. IF o'.engaged THEN \/ framed = <<>> /\ Opened(o'.out)
                         \/ Begun(framed) /\ Chunks(o'.out)
      ELSE framed = <<>> /\ o'.out = <<>>
  <2>1. CASE ~o.engaged
    BY <1>2, <2>1 DEF WorkerOK, Shaped
  <2>2. CASE o.engaged
    <3>1. framed # <<>> \/ ~Opened(o.out)
      BY SeqSmall DEF Opened
    <3>. QED
      BY <1>2, <2>2, <3>1 DEF WorkerOK, Shaped
  <2>. QED
    BY <2>1, <2>2
<1>4. o'.armed = (Framed' /\ wpc' \in Running)
  BY <1>2, Zenon DEF WorkerOK, Framed
<1>. QED
  BY <1>1, <1>2, <1>3, <1>4 DEF WorkerOK, Framed

\* header() and the rest of it touch the headers and the code alone.
LEMMA HeaderDoes ==
    ASSUME NEW a, IsOutput(a), a.out = <<>>,
           NEW op \in {"replace", "add", "delete", "delete_all", "status"}, NEW h,
           NEW b, b = turbine_header_handler(a, op, h)
    PROVE  /\ IsOutput(b) /\ b.buf = a.buf /\ b.out = a.out /\ b.armed = a.armed
           /\ b.engaged = a.engaged
<1>0. DOMAIN a = Fields
  BY DEF IsOutput
<1>1. /\ DOMAIN b = Fields /\ b.buf = a.buf /\ b.out = a.out /\ b.armed = a.armed
      /\ b.engaged = a.engaged /\ b.sg = a.sg /\ (b.code = a.code \/ b.code = 404)
  <2>1. CASE op = "replace"
    <3>1. b = [a EXCEPT !.headers = Append(Without(@, {h.name}), h)]
      BY <2>1 DEF turbine_header_handler
    <3>. QED
      BY <1>0, <3>1 DEF Fields
  <2>2. CASE op = "add"
    <3>1. b = [a EXCEPT !.headers = Append(@, h)]
      BY <2>2 DEF turbine_header_handler
    <3>. QED
      BY <1>0, <3>1 DEF Fields
  <2>3. CASE op = "delete"
    <3>1. b = [a EXCEPT !.headers = Without(@, {h.name})]
      BY <2>3 DEF turbine_header_handler
    <3>. QED
      BY <1>0, <3>1 DEF Fields
  <2>4. CASE op = "delete_all"
    <3>1. b = [a EXCEPT !.headers = <<>>]
      BY <2>4 DEF turbine_header_handler
    <3>. QED
      BY <1>0, <3>1 DEF Fields
  <2>5. CASE op = "status"
    <3>1. b = [a EXCEPT !.code = 404]
      BY <2>5 DEF turbine_header_handler
    <3>. QED
      BY <1>0, <3>1 DEF Fields
  <2>. QED
    BY <2>1, <2>2, <2>3, <2>4, <2>5
<1>2. b.code \in {200, 404}
  BY <1>1 DEF IsOutput
<1>3. IsOutput(b)
  <2>1. IsSeq(b.buf) /\ IsSeq(b.out) /\ b.sg \in {200, 404}
    BY <1>1, ZenonT(60) DEF IsOutput
  <2>2. b.armed \in BOOLEAN /\ b.engaged \in BOOLEAN
    BY <1>1, ZenonT(60) DEF IsOutput
  <2>3. b.engaged => b.armed /\ b.buf = <<>>
    BY <1>1, ZenonT(60) DEF IsOutput
  <2>. QED
    BY <1>1, <1>2, <2>1, <2>2, <2>3, Zenon DEF IsOutput
<1>. QED
  BY <1>1, <1>3

\* Every call of a script.
LEMMA CallsWorker ==
    ASSUME WorkerTypes, WorkerOK, Script
    PROVE  WorkerTypes' /\ WorkerOK' /\ FramesOK(o'.out, ok)
<1>1. /\ wpc = "script" /\ o.out = <<>> /\ steps' \in 0 .. MaxSteps
      /\ UNCHANGED <<kind, n, wpc, ok, framed>>
  <2>1. wpc = "script" /\ o.out = <<>> /\ steps < MaxSteps /\ steps' = steps + 1
        /\ UNCHANGED <<kind, n, wpc, ok, framed>>
    BY DEF Script, SetHeader, SetCode, Echo, ObFlush, Flush, Call
  <2>. QED
    BY <2>1, ExchangeAssumption DEF WorkerTypes
<1>2. IsOutput(o) /\ DOMAIN o = Fields /\ IsSeq(ob) /\ IsSeq(printed)
  BY DEF WorkerTypes, IsOutput
<1>3. ASSUME IsOutput(o'), o'.armed = o.armed, o'.engaged = o.engaged, o'.out = o.out
      PROVE  Shaped(o, o') /\ FramesOK(o'.out, ok)
  <2>1. CASE o.engaged = TRUE
    BY <1>1, <1>3, <2>1, ChunkShapes, Zenon DEF Shaped
  <2>2. CASE o.engaged = FALSE
    BY <1>1, <1>3, <2>2, ChunkShapes, Zenon DEF Shaped
  <2>. QED
    BY <1>2, <2>1, <2>2, Zenon DEF IsOutput
<1>4. /\ IsOutput(o') /\ o'.armed = o.armed /\ Shaped(o, o') /\ FramesOK(o'.out, ok)
      /\ IsSeq(ob') /\ IsSeq(printed')
  <2>1. CASE \E e \in HeaderCalls : SetHeader(e.op, e.h)
    <3>1. PICK e \in HeaderCalls : SetHeader(e.op, e.h)
      BY <2>1
    <3>2. o' = turbine_header_handler(o, e.op, e.h) /\ UNCHANGED <<ob, printed>>
      BY <3>1 DEF SetHeader, Call
    <3>3. e.op \in {"replace", "add", "delete", "delete_all", "status"}
      BY ExchangeAssumption
    <3>4. /\ IsOutput(o') /\ o'.armed = o.armed /\ o'.engaged = o.engaged /\ o'.out = o.out
      BY <1>1, <1>2, <3>2, <3>3, HeaderDoes
    <3>. QED
      BY <1>2, <1>3, <3>2, <3>4
  <2>3. CASE SetCode
    <3>1. o' = [o EXCEPT !.sg = 404] /\ UNCHANGED <<ob, printed>>
      BY <2>3 DEF SetCode, Call
    <3>2. /\ DOMAIN o' = Fields /\ o'.buf = o.buf /\ o'.out = o.out /\ o'.armed = o.armed
          /\ o'.engaged = o.engaged /\ o'.sg = 404 /\ o'.code = o.code
      BY <1>2, <3>1 DEF Fields
    <3>3. IsOutput(o')
      BY <1>2, <3>2, ZenonT(60) DEF IsOutput
    <3>. QED
      BY <1>2, <1>3, <3>1, <3>2, <3>3
  <2>4. CASE \E k \in LineKinds : Echo(k)
    <3>1. PICK k \in LineKinds : Echo(k)
      BY <2>4
    <3>2. o' = o /\ ob' = Append(ob, Line("script", k)) /\ printed' = Append(printed, Line("script", k))
      BY <3>1 DEF Echo, Call
    <3>3. IsSeq(ob') /\ IsSeq(printed')
      BY <1>2, <3>2, SeqAppend DEF Added
    <3>. QED
      BY <1>2, <1>3, <3>2, <3>3
  <2>5. CASE ObFlush
    <3>1. o' = turbine_ub_write(o, ob) /\ ob' = <<>> /\ printed' = printed
      BY <2>5 DEF ObFlush, Call
    <3>2. IsOutput(o') /\ Same(o, o')
      BY <1>1, <1>2, <3>1, WriteDoes
    <3>3. Shaped(o, o') /\ FramesOK(o'.out, ok)
      BY <1>1, <1>2, <3>1, WriteShape
    <3>. QED
      BY <1>2, <3>1, <3>2, <3>3, SeqSmall DEF Same
  <2>6. CASE Flush
    <3>1. o' = engage_streaming(o) /\ UNCHANGED <<ob, printed>>
      BY <2>6 DEF Flush, Call, turbine_sapi_flush
    <3>2. IsOutput(o') /\ Same(o, o')
      BY <1>1, <1>2, <3>1, EngageDoes
    <3>3. Shaped(o, o') /\ FramesOK(o'.out, ok)
      BY <1>1, <1>2, <3>1, EngageShape
    <3>. QED
      BY <1>2, <3>1, <3>2, <3>3 DEF Same
  <2>. QED
    BY <2>1, <2>3, <2>4, <2>5, <2>6 DEF Script
<1>. QED
  BY <1>1, <1>4, ScriptWorker

LEMMA ScriptEndsWorker ==
    ASSUME WorkerTypes, WorkerOK, ScriptEnds \/ RunCleanup
    PROVE  WorkerTypes' /\ WorkerOK' /\ o'.out = o.out
<1>1. CASE ScriptEnds
  BY <1>1, ExchangeAssumption DEF ScriptEnds, WorkerTypes, WorkerOK, Running, Framed
<1>2. CASE RunCleanup
  <2>1. /\ wpc = "cleanup" /\ wpc' = "finish"
        /\ UNCHANGED <<kind, n, ok, steps, o, framed>>
    BY <1>2 DEF RunCleanup
  <2>2. IsSeq(ob') /\ IsSeq(printed')
    <3>1. PICK ls \in {<<>>, <<Line("cleanup", "text")>>} :
              ob' = ob \o ls /\ printed' = printed \o ls
      BY <1>2 DEF RunCleanup
    <3>2. IsSeq(ls)
      BY SeqSmall, Zenon
    <3>. QED
      BY <3>1, <3>2, SeqJoin DEF WorkerTypes, Joined
  <2>3. WorkerTypes'
    BY <2>1, <2>2 DEF WorkerTypes, Running
  <2>4. WorkerOK'
    BY <2>1 DEF WorkerOK, Running, Framed
  <2>. QED
    BY <2>1, <2>3, <2>4
<1>. QED
  BY <1>1, <1>2

\* The End frame closes what was opened.
LEMMA Closed ==
    ASSUME NEW v, NEW s, IsSeq(s), FramesOK(s, v), NEW e, IsSeq(e), Len(e) = 1, e[1] = End(v),
           NEW r, r = s \o e
    PROVE  /\ IsSeq(r) /\ FramesOK(r, v)
           /\ Opened(s) => Whole(r)
           /\ Chunks(s) => Ending(r)
<1>1. Joined(s, e, r)
  BY SeqJoin
<1>2. /\ IsSeq(r) /\ Len(r) = Len(s) + 1 /\ Len(s) \in Nat
      /\ \A i \in 1 .. Len(s) : r[i] = s[i]
      /\ r[Len(s) + 1] = End(v)
  BY <1>1, SeqBasic DEF Joined
<1>3. FrameOK(End(v), v) /\ End(v).f = "End"
  BY FrameKinds DEF FrameOK
<1>4. FramesOK(r, v)
  BY <1>2, <1>3 DEF FramesOK
<1>5. Opened(s) => Whole(r)
  BY <1>2, <1>3 DEF Opened, Whole
<1>6. Chunks(s) => Ending(r)
  BY <1>2, <1>3 DEF Chunks, Ending
<1>. QED
  BY <1>2, <1>4, <1>5, <1>6

\* What Finish leaves to be written, with what PHP's last flush wrote.
LEMMA FinishDoes ==
    ASSUME WorkerTypes, WorkerOK, wpc = "finish", o.out = <<>>,
           NEW d, d = turbine_ub_write(o, ob), NEW r, r = d.out \o Rest(d)
    PROVE  /\ IsSeq(r) /\ FramesOK(r, ok) /\ IsOutput(d)
           /\ IF Framed THEN \/ framed = <<>> /\ Whole(r)
                             \/ Begun(framed) /\ Ending(r)
              ELSE framed = <<>> /\ Len(r) = 1 /\ r[1].f = "Native"
<1>1. IsOutput(o) /\ IsSeq(ob)
  BY DEF WorkerTypes
<1>2. IsOutput(d) /\ Same(o, d) /\ Shaped(o, d) /\ FramesOK(d.out, ok)
  BY <1>1, WriteDoes, WriteShape
<1>3. IF o.engaged THEN Begun(framed) ELSE framed = <<>>
  <2>1. ~Opened(o.out)
    BY SeqSmall DEF Opened
  <2>. QED
    BY <2>1 DEF WorkerOK, Running
<1>4. CASE d.engaged
  <2>1. Framed
    BY <1>2, <1>4 DEF WorkerOK, IsOutput, Same
  <2>. DEFINE e == <<>> \o <<End(ok)>>
  <2>2. IsSeq(e) /\ Len(e) = 1 /\ e[1] = End(ok)
    BY EndAlone
  <2>3. r = d.out \o e
    BY <1>2, <1>4, RestDoes
  <2>. HIDE DEF e
  <2>4. /\ IsSeq(r) /\ FramesOK(r, ok)
        /\ Opened(d.out) => Whole(r)
        /\ Chunks(d.out) => Ending(r)
    <3>1. IsSeq(d.out)
      BY <1>2 DEF IsOutput
    <3>. QED
      BY <1>2, <2>2, <2>3, <3>1, Closed
  <2>. QED
    BY <1>2, <1>3, <1>4, <2>1, <2>4 DEF Shaped
<1>5. CASE ~d.engaged
  <2>. DEFINE w == write_response(ok, response_code(d), d.headers, d.buf)
  <2>1. Response(w, ok, response_code(d), d.headers, d.buf)
    BY <1>2, ResponseDoes DEF IsOutput
  <2>2. d.out = <<>> /\ ~o.engaged
    BY <1>2, <1>5 DEF Shaped
  <2>3. r = <<>> \o w
    BY <1>2, <1>5, <2>2, RestDoes
  <2>. HIDE DEF w
  <2>4. r = w
    BY <2>1, <2>3, SeqEmptyJoin DEF Response
  <2>5. response_code(d) \in Codes
    BY <1>2, TopCode DEF Codes
  <2>6. /\ IsSeq(w) /\ FramesOK(w, ok)
        /\ Framed => Whole(w)
        /\ ~Framed => Len(w) = 1 /\ w[1].f = "Native"
    BY <2>1, <2>5, ResponseShape
  <2>. QED
    BY <1>2, <1>3, <2>2, <2>4, <2>6
<1>. QED
  BY <1>4, <1>5

LEMMA FinishWorker ==
    ASSUME WorkerTypes, WorkerOK, Finish
    PROVE  WorkerTypes' /\ WorkerOK' /\ FramesOK(o'.out, ok)
<1>. DEFINE d == turbine_ub_write(o, ob)
            r == d.out \o Rest(d)
<1>1. /\ wpc = "finish" /\ o.out = <<>> /\ ob' = <<>> /\ wpc' = "write"
      /\ UNCHANGED <<kind, n, ok, steps, printed, framed>>
  BY DEF Finish
<1>2. /\ IsSeq(r) /\ FramesOK(r, ok) /\ IsOutput(d)
      /\ IF Framed THEN \/ framed = <<>> /\ Whole(r)
                        \/ Begun(framed) /\ Ending(r)
         ELSE framed = <<>> /\ Len(r) = 1 /\ r[1].f = "Native"
  BY <1>1, FinishDoes
<1>3. o' = [Taken(finish_streaming(d)) EXCEPT !.out = r]
  BY DEF Finish
<1>. HIDE DEF d, r
<1>4. /\ DOMAIN o' = Fields /\ o'.out = r /\ o'.buf = <<>> /\ o'.headers = <<>>
      /\ o'.armed = FALSE /\ o'.engaged = FALSE /\ o'.code = 200 /\ o'.sg = d.sg
  <2>1. DOMAIN d = Fields
    BY <1>2 DEF IsOutput
  <2>. QED
    BY <1>3, <2>1 DEF Taken, finish_streaming, Fields
<1>5. IsOutput(o')
  BY <1>2, <1>4, SeqSmall, ZenonT(60) DEF IsOutput
<1>6. WorkerTypes'
  BY <1>1, <1>5, SeqSmall DEF WorkerTypes
<1>7. WorkerOK'
  BY <1>1, <1>2, <1>4 DEF WorkerOK, Running, Framed
<1>. QED
  BY <1>2, <1>4, <1>6, <1>7

\* One more frame is written: what was written and what waits, by shape.
Moved(k, s, k_, s_) ==
    /\ IsSeq(k_) /\ IsSeq(s_) /\ k_ # <<>>
    /\ Len(s_) = Len(s) - 1 /\ Len(s) \in Nat /\ Len(s) > 0
    /\ k = <<>> /\ Opened(s) => Begun(k_) /\ Chunks(s_)
    /\ Begun(k) /\ Chunks(s) => Begun(k_) /\ Chunks(s_)
    /\ k = <<>> /\ Whole(s) => Len(s) > 1 /\ Begun(k_) /\ Ending(s_)
    /\ Begun(k) /\ Ending(s) /\ Len(s) > 1 => Begun(k_) /\ Ending(s_)
    /\ Begun(k) /\ Ending(s) /\ Len(s) = 1 => Done(k_)
    /\ k = <<>> => Len(k_) = 1 /\ k_[1] = s[1].f

LEMMA WriteShapes ==
    ASSUME NEW k, IsSeq(k), NEW s, IsSeq(s), s # <<>>,
           NEW k_, k_ = Append(k, Head(s).f), NEW s_, s_ = Tail(s)
    PROVE  Moved(k, s, k_, s_)
<1>1. Shifted(s, s_) /\ Len(s) > 0 /\ Head(s) = s[1]
  BY SeqTail
<1>2. Added(k, s[1].f, k_)
  BY <1>1, SeqAppend
<1>3. Len(s) \in Nat /\ Len(k) \in Nat /\ (k = <<>> => Len(k) = 0)
  BY SeqBasic
<1>. DEFINE x == s[1].f
<1>4. /\ IsSeq(k_) /\ k_ # <<>> /\ Len(k_) = Len(k) + 1 /\ k_[Len(k) + 1] = x
      /\ \A i \in 1 .. Len(k) : k_[i] = k[i]
  BY <1>2 DEF Added
<1>5. /\ IsSeq(s_) /\ Len(s_) = Len(s) - 1
      /\ \A i \in 1 .. Len(s) - 1 : s_[i].f = s[i + 1].f
  BY <1>1 DEF Shifted
<1>6. k = <<>> => Len(k_) = 1 /\ k_[1] = x
  BY <1>3, <1>4
<1>7. k = <<>> /\ Opened(s) => Begun(k_) /\ Chunks(s_)
  BY <1>1, <1>3, <1>5, <1>6 DEF Opened, Begun, Chunks
<1>8. Begun(k) /\ Chunks(s) => Begun(k_) /\ Chunks(s_)
  BY <1>1, <1>3, <1>4, <1>5 DEF Begun, Chunks
<1>9. k = <<>> /\ Whole(s) => Len(s) > 1 /\ Begun(k_) /\ Ending(s_)
  BY <1>1, <1>3, <1>5, <1>6 DEF Whole, Begun, Ending
<1>10. Begun(k) /\ Ending(s) /\ Len(s) > 1 => Begun(k_) /\ Ending(s_)
  BY <1>1, <1>3, <1>4, <1>5 DEF Begun, Ending
<1>11. Begun(k) /\ Ending(s) /\ Len(s) = 1 => Done(k_)
  BY <1>1, <1>3, <1>4 DEF Begun, Ending, Done
<1>. QED
  BY <1>1, <1>3, <1>4, <1>5, <1>6, <1>7, <1>8, <1>9, <1>10, <1>11 DEF Moved

LEMMA WriteWorker ==
    ASSUME WorkerTypes, WorkerOK, Write
    PROVE  WorkerTypes' /\ WorkerOK'
<1>1. /\ o.out # <<>> /\ framed' = Append(framed, Head(o.out).f)
      /\ o' = [o EXCEPT !.out = Tail(@)]
      /\ wpc' = (IF wpc = "write" /\ Len(o.out) = 1 THEN "idle" ELSE wpc)
      /\ UNCHANGED <<kind, n, ok, steps, ob, printed>>
  BY DEF Write
<1>2. IsOutput(o) /\ DOMAIN o = Fields /\ IsSeq(o.out) /\ IsSeq(framed)
  BY DEF WorkerTypes, IsOutput
<1>3. /\ DOMAIN o' = Fields /\ o'.out = Tail(o.out) /\ o'.buf = o.buf /\ o'.headers = o.headers
      /\ o'.armed = o.armed /\ o'.engaged = o.engaged /\ o'.code = o.code /\ o'.sg = o.sg
  BY <1>1, <1>2 DEF Fields
<1>. DEFINE k == framed  k_ == framed'  s == o.out  s_ == o'.out
<1>0. Moved(framed, o.out, framed', o'.out)
  BY <1>1, <1>2, <1>3, WriteShapes
<1>4. /\ IsSeq(k_) /\ IsSeq(s_) /\ k_ # <<>>
      /\ Len(s_) = Len(s) - 1 /\ Len(s) \in Nat /\ Len(s) > 0
      /\ k = <<>> /\ Opened(s) => Begun(k_) /\ Chunks(s_)
      /\ Begun(k) /\ Chunks(s) => Begun(k_) /\ Chunks(s_)
      /\ k = <<>> /\ Whole(s) => Len(s) > 1 /\ Begun(k_) /\ Ending(s_)
      /\ Begun(k) /\ Ending(s) /\ Len(s) > 1 => Begun(k_) /\ Ending(s_)
      /\ Begun(k) /\ Ending(s) /\ Len(s) = 1 => Done(k_)
      /\ k = <<>> => Len(k_) = 1 /\ k_[1] = s[1].f
  BY <1>0, Zenon DEF Moved
<1>5. IsOutput(o')
  BY <1>2, <1>3, <1>4, ZenonT(60) DEF IsOutput
<1>6. WorkerTypes'
  BY <1>1, <1>4, <1>5 DEF WorkerTypes
<1>7. Len(s_) = 0 => s_ = <<>>
  BY <1>4, SeqBasic
<1>8. CASE wpc \in Running
  <2>1. wpc' = wpc /\ o.engaged
    BY <1>1, <1>8 DEF Running, WorkerOK
  <2>. QED
    BY <1>1, <1>3, <1>4, <1>6, <1>8, <2>1 DEF WorkerOK, Running, Framed
<1>9. CASE wpc = "write" /\ Framed
  <2>1. n # 0 /\ (Ending(s) \/ Whole(s))
    BY <1>9 DEF WorkerOK
  <2>2. CASE Len(s) = 1
    <3>1. wpc' = "idle" /\ s_ = <<>> /\ Done(k_)
      BY <1>1, <1>4, <1>7, <1>9, <2>2 DEF WorkerOK
    <3>. QED
      BY <1>1, <1>3, <1>6, <1>9, <2>1, <3>1 DEF WorkerOK, Running, Framed
  <2>3. CASE Len(s) # 1
    <3>0. Len(s) > 1
      <4>1. Len(s) \in Nat /\ Len(s) > 0
        BY <1>4, Zenon
      <4>2. \A m \in Nat : m > 0 /\ m # 1 => m > 1
        OBVIOUS
      <4>. QED
        BY <2>3, <4>1, <4>2, Zenon
    <3>1. wpc' = "write" /\ Begun(k_) /\ Ending(s_)
      BY <1>1, <1>4, <1>9, <2>3, <3>0 DEF WorkerOK
    <3>. QED
      BY <1>1, <1>3, <1>6, <1>9, <2>1, <3>1 DEF WorkerOK, Running, Framed
  <2>. QED
    BY <2>2, <2>3
<1>10. CASE wpc = "write" /\ ~Framed
  <2>1. /\ n # 0 /\ wpc' = "idle" /\ s_ = <<>> /\ Len(k_) = 1 /\ k_[1] = "Native"
    BY <1>1, <1>4, <1>7, <1>10 DEF WorkerOK
  <2>. QED
    BY <1>1, <1>3, <1>6, <1>10, <2>1 DEF WorkerOK, Running, Framed
<1>11. wpc \in Running \union {"write"}
  BY <1>1 DEF WorkerOK, WorkerTypes
<1>. QED
  BY <1>8, <1>9, <1>10, <1>11

LEMMA CrashWorker ==
    ASSUME WorkerTypes, WorkerOK, Crash
    PROVE  WorkerTypes' /\ WorkerOK'
<1>1. /\ wpc \notin {"idle", "dead"} /\ wpc' = "dead" /\ o' = NoOutput /\ ob' = <<>>
      /\ steps' = 0 /\ UNCHANGED <<kind, n, ok, printed, framed>>
  BY DEF Crash
<1>2. WorkerTypes'
  BY <1>1, NoOutputIs, SeqSmall, ExchangeAssumption DEF WorkerTypes
<1>3. n # 0 /\ (framed = <<>> \/ (Framed /\ Begun(framed)))
  BY <1>1, ZenonT(60) DEF WorkerOK, WorkerTypes, IsOutput
<1>. QED
  BY <1>1, <1>2, <1>3, NoOutputIs DEF WorkerOK, Running, Framed

\* What stands where among the frames written.
LEMMA KindsWritten ==
    ASSUME WorkerTypes, WorkerOK, NEW j \in 1 .. Len(framed)
    PROVE  /\ n # 0
           /\ Framed => /\ framed[j] \in {"Headers", "BodyChunk", "End"}
                        /\ framed[j] = "Headers" <=> j = 1
                        /\ framed[j] = "End" => j = Len(framed) /\ wpc = "idle"
           /\ ~Framed => framed[j] = "Native" /\ Len(framed) = 1 /\ j = 1 /\ wpc = "idle"
<1>0. Len(framed) \in Nat /\ framed # <<>>
  BY SeqBasic DEF WorkerTypes
<1>1. CASE Framed
  <2>1. n # 0 /\ (Begun(framed) \/ (Done(framed) /\ wpc = "idle"))
    BY <1>0, <1>1 DEF WorkerOK, WorkerTypes, Running
  <2>2. Begun(framed) => /\ framed[j] \in {"Headers", "BodyChunk"}
                         /\ framed[j] = "Headers" <=> j = 1
    BY <1>0 DEF Begun
  <2>3. Done(framed) => /\ framed[j] \in {"Headers", "BodyChunk", "End"}
                        /\ framed[j] = "Headers" <=> j = 1
                        /\ framed[j] = "End" => j = Len(framed)
    BY <1>0 DEF Done
  <2>. QED
    BY <1>1, <2>1, <2>2, <2>3
<1>2. CASE ~Framed
  <2>1. n # 0 /\ wpc = "idle" /\ Len(framed) = 1 /\ framed[1] = "Native"
    BY <1>0, <1>2, ZenonT(60) DEF WorkerOK, WorkerTypes, Running, IsOutput
  <2>. QED
    BY <1>2, <2>1
<1>. QED
  BY <1>1, <1>2

LEMMA OrderHolds ==
    ASSUME WorkerTypes, WorkerOK PROVE FrameOrder
<1>1. Len(framed) \in Nat /\ (framed # <<>> => Len(framed) > 0)
  BY SeqBasic DEF WorkerTypes
<1>. QED
  BY <1>1, KindsWritten DEF FrameOrder

\* The worker's part of the invariant, over every step.
LEMMA NextWorker ==
    ASSUME WorkerTypes, WorkerOK, [Next]_vars
    PROVE  WorkerTypes' /\ WorkerOK'
<1>1. CASE \E r \in Requests(Format) : Send(r)
  BY <1>1, SendWorker
<1>2. CASE WorkerStep
  BY <1>2, TakeWorker, CallsWorker, ScriptEndsWorker, FinishWorker, WriteWorker DEF WorkerStep
<1>3. CASE Crash
  BY <1>3, CrashWorker
<1>4. CASE HandlerStep \/ ClientStep \/ ClientCancels \/ UNCHANGED vars
  <2>1. UNCHANGED <<kind, n, worker>>
    BY <1>4 DEF HandlerStep, ReadNative, ReadUnclaimed, Decode, ReadHead, DrainBody, Forward,
                Misread, ReadLost, ClientStep, ClientReads, ClientSeesEnd, ClientLeaves,
                ClientCancels, vars, worker
  <2>2. WorkerTypes'
    BY <2>1 DEF WorkerTypes, worker
  <2>3. WorkerOK'
    BY <2>1 DEF WorkerOK, worker, Framed
  <2>. QED
    BY <2>2, <2>3
<1>. QED
  BY <1>1, <1>2, <1>3, <1>4 DEF Next

\* The frames of a response are in the order stream.rs promises, whatever the
\* script prints, flushes and sets, and wherever the worker dies.
THEOREM FramesAreOrdered == Spec => []FrameOrder
<1>1. Init => WorkerTypes /\ WorkerOK
  BY InitWorker
<1>2. WorkerTypes /\ WorkerOK /\ [Next]_vars => (WorkerTypes /\ WorkerOK)'
  BY NextWorker
<1>3. WorkerTypes /\ WorkerOK => FrameOrder
  BY OrderHolds
<1>. QED
  BY <1>1, <1>2, <1>3, PTL DEF Spec

----------------------------------------------------------------------------
(***************************************************************************)
(* The handler                                                             *)
(***************************************************************************)
\* c frames of this response have been read, the pipe holds the others that
\* were written, and perhaps the broken one of a worker that died.
Lined(c) ==
    /\ IsSeq(pipe) /\ Len(pipe) <= PipeCap
    /\ \/ /\ c + Len(pipe) = Len(framed)
          /\ \A i \in 1 .. Len(pipe) : pipe[i].f = framed[c + i]
       \/ /\ wpc = "dead" /\ Len(pipe) > 0 /\ pipe[Len(pipe)].f = "Torn"
          /\ c + Len(pipe) - 1 = Len(framed)
          /\ \A i \in 1 .. Len(pipe) - 1 : pipe[i].f = framed[c + i]

Unended(c) == \A i \in 1 .. c : framed[i] # "End"

\* How far the handler has come with c frames.  Without the clause on End, an
\* idle handler could have left frames behind.
Phase(c) ==
    /\ hpc \in {"idle", "read", "head", "drain", "forward", "discard", "left"}
    /\ n = 0 => hpc = "idle"
    /\ hpc # "idle" => Unended(c)
    /\ hpc = "read" => kind # "stream" /\ IF Framed THEN acc.got <=> c > 0 ELSE c = 0
    /\ hpc = "head" => kind = "stream" /\ c = 0
    /\ hpc \in {"drain", "forward", "discard"} => kind = "stream" /\ c > 0
    /\ hpc = "idle" => wpc = "dead" \/ (wpc = "idle" /\ pipe = <<>>)

HandlerOK == \E c \in Nat : Lined(c) /\ Phase(c)

\* What read_frame finds, and how it leaves the pipe.
LEMMA FrameIs ==
    ASSUME WorkerTypes, WorkerOK, NEW c \in Nat, Lined(c),
           Frame.f # "None", read_frame, UNCHANGED worker
    PROVE  \/ Frame.f \in {"Eof", "Torn"} /\ wpc = "dead" /\ pipe' = <<>> /\ Lined(c)'
           \/ /\ Lined(c + 1)' /\ c < Len(framed) /\ Frame.f = framed[c + 1]
              /\ pipe # <<>> /\ Frame = pipe[1]
<1>0. /\ IsSeq(pipe) /\ Len(pipe) \in Nat /\ Len(pipe) <= PipeCap
      /\ Len(framed) \in Nat /\ (pipe = <<>> <=> Len(pipe) = 0)
      /\ UNCHANGED <<wpc, framed>>
  BY SeqBasic DEF Lined, WorkerTypes, worker
<1>1. CASE pipe = <<>>
  <2>1. Frame.f = "Eof" /\ wpc = "dead" /\ pipe' = <<>>
    BY <1>1 DEF Frame, read_frame
  <2>2. Lined(c)'
    BY <1>0, <1>1, <2>1 DEF Lined
  <2>. QED
    BY <2>1, <2>2
<1>2. CASE pipe # <<>>
  <2>1. Frame = Head(pipe) /\ pipe' = Tail(pipe)
    BY <1>2 DEF Frame, read_frame
  <2>2. Shifted(pipe, pipe') /\ Frame = pipe[1]
    BY <1>0, <1>2, <2>1, SeqTail
  <2>3. /\ IsSeq(pipe') /\ Len(pipe') = Len(pipe) - 1 /\ Len(pipe) > 0
        /\ \A i \in 1 .. Len(pipe) - 1 : pipe'[i] = pipe[i + 1]
    BY <1>0, <1>2, <2>2 DEF Shifted
  <2>4. CASE /\ c + Len(pipe) = Len(framed)
             /\ \A i \in 1 .. Len(pipe) : pipe[i].f = framed[c + i]
    <3>1. c < Len(framed) /\ Frame.f = framed[c + 1]
      BY <1>0, <2>2, <2>3, <2>4
    <3>2. /\ (c + 1) + Len(pipe') = Len(framed')
          /\ \A i \in 1 .. Len(pipe') : pipe'[i].f = framed'[(c + 1) + i]
      <4>1. ASSUME NEW i \in 1 .. Len(pipe') PROVE pipe'[i].f = framed'[(c + 1) + i]
        <5>1. pipe'[i] = pipe[i + 1] /\ i + 1 \in 1 .. Len(pipe)
          BY <1>0, <2>3
        <5>2. pipe[i + 1].f = framed[c + (i + 1)]
          BY <2>4, <5>1
        <5>3. c + (i + 1) = (c + 1) + i
          BY <1>0, <2>3
        <5>. QED
          BY <1>0, <5>1, <5>2, <5>3
      <4>2. (c + 1) + Len(pipe') = Len(framed')
        <5>1. c + Len(pipe) = Len(framed) /\ framed' = framed /\ Len(pipe') = Len(pipe) - 1
          BY <1>0, <2>3, <2>4
        <5>. QED
          BY <1>0, <5>1
      <4>. QED
        BY <4>1, <4>2, Zenon
    <3>3. Lined(c + 1)'
      BY <1>0, <2>3, <3>2, ExchangeAssumption DEF Lined
    <3>. QED
      BY <1>2, <2>2, <3>1, <3>3
  <2>5. CASE /\ wpc = "dead" /\ Len(pipe) > 0 /\ pipe[Len(pipe)].f = "Torn"
             /\ c + Len(pipe) - 1 = Len(framed)
             /\ \A i \in 1 .. Len(pipe) - 1 : pipe[i].f = framed[c + i]
    <3>1. CASE Len(pipe) = 1
      <4>1. Frame.f = "Torn" /\ pipe' = <<>> /\ Len(pipe') = 0
        BY <2>2, <2>3, <2>5, <3>1, SeqBasic
      <4>2. Lined(c)'
        BY <1>0, <2>3, <2>5, <3>1, <4>1, ExchangeAssumption DEF Lined
      <4>. QED
        BY <2>5, <4>1, <4>2
    <3>2. CASE Len(pipe) > 1
      <4>1. c < Len(framed) /\ Frame.f = framed[c + 1]
        BY <1>0, <2>2, <2>3, <2>5, <3>2
      <4>2. /\ wpc' = "dead" /\ Len(pipe') > 0 /\ pipe'[Len(pipe')].f = "Torn"
            /\ (c + 1) + Len(pipe') - 1 = Len(framed')
            /\ \A i \in 1 .. Len(pipe') - 1 : pipe'[i].f = framed'[(c + 1) + i]
        <5>1. ASSUME NEW i \in 1 .. Len(pipe') - 1 PROVE pipe'[i].f = framed'[(c + 1) + i]
          <6>1. pipe'[i] = pipe[i + 1] /\ i + 1 \in 1 .. Len(pipe) - 1
            BY <1>0, <2>3
          <6>2. pipe[i + 1].f = framed[c + (i + 1)]
            BY <2>5, <6>1
          <6>3. c + (i + 1) = (c + 1) + i
            BY <1>0, <2>3
          <6>. QED
            BY <1>0, <6>1, <6>2, <6>3
        <5>2. pipe'[Len(pipe')] = pipe[Len(pipe)]
          <6>1. Len(pipe') \in 1 .. Len(pipe) - 1 /\ Len(pipe') + 1 = Len(pipe)
            BY <1>0, <2>3, <3>2
          <6>. QED
            BY <2>3, <6>1
        <5>3. (c + 1) + Len(pipe') - 1 = Len(framed') /\ Len(pipe') > 0
          <6>1. c + Len(pipe) - 1 = Len(framed) /\ framed' = framed /\ Len(pipe') = Len(pipe) - 1
            BY <1>0, <2>3, <2>5
          <6>. QED
            BY <1>0, <3>2, <6>1
        <5>4. wpc' = "dead" /\ pipe'[Len(pipe')].f = "Torn"
          BY <1>0, <2>5, <5>2
        <5>. QED
          BY <5>1, <5>3, <5>4, Zenon
      <4>3. Lined(c + 1)'
        BY <1>0, <2>3, <4>2, ExchangeAssumption DEF Lined
      <4>. QED
        BY <1>2, <2>2, <4>1, <4>3
    <3>. QED
      BY <2>3, <3>1, <3>2, <1>0
  <2>. QED
    BY <2>4, <2>5 DEF Lined
<1>. QED
  BY <1>1, <1>2

AccFields    == {"got", "code", "headers", "lines"}
ClientFields == {"code", "headers", "lines", "end"}

HandlerTypes ==
    /\ DOMAIN acc = AccFields /\ acc.got \in BOOLEAN
    /\ DOMAIN client = ClientFields
    /\ client.end \in {"waiting", "open", "complete", "aborted", "gone"}
    /\ IsSeq(chan) /\ Len(chan) <= ChanCap

\* The answer to the client, as it is or with the file of X-Sendfile.
Answer(cl, code, hs, ls) ==
    /\ cl.end = "complete" /\ DOMAIN cl = ClientFields
    /\ \/ cl.code = 200 /\ cl.lines = <<Line("file", "text")>>
       \/ cl.code = code /\ cl.headers = hs /\ cl.lines = Cleaned(ls)

LEMMA AnsweredIs ==
    ASSUME NEW code, NEW hs, NEW ls, Answered(code, hs, ls)
    PROVE  Answer(client', code, hs, ls)
<1>. DEFINE q == [code |-> code, headers |-> hs, lines |-> ls]
            file_lines == <<Line("file", "text")>>
<1>1. PICK file \in Sendable(hs) :
          LET r == postprocess_php_response(q, file, file_lines)
          IN  client' = [code |-> r.code, headers |-> r.headers, lines |-> r.lines, end |-> "complete"]
  BY DEF Answered
<1>. DEFINE r == postprocess_php_response(q, file, file_lines)
<1>2. \/ r.code = 200 /\ r.lines = file_lines
      \/ r.code = code /\ r.headers = hs /\ r.lines = Cleaned(ls)
  <2>1. CASE check_x_sendfile(hs) /\ file
    BY <2>1 DEF postprocess_php_response
  <2>2. CASE ~(check_x_sendfile(hs) /\ file)
    <3>1. r = [q EXCEPT !.lines = Cleaned(@)]
      BY <2>2 DEF postprocess_php_response
    <3>. QED
      BY <3>1
  <2>. QED
    BY <2>1, <2>2
<1>3. client' = [code |-> r.code, headers |-> r.headers, lines |-> r.lines, end |-> "complete"]
  BY <1>1
<1>. HIDE DEF r, file_lines
<1>5. /\ client'.code = r.code /\ client'.headers = r.headers /\ client'.lines = r.lines
      /\ client'.end = "complete" /\ DOMAIN client' = ClientFields
  BY <1>3 DEF ClientFields
<1>. QED
  BY <1>2, <1>5 DEF Answer, file_lines

\* An error of the handler's own.
Failure(cl, code) ==
    /\ cl.end = "complete" /\ DOMAIN cl = ClientFields /\ cl.code = code
    /\ cl.lines = <<Line("server", "text")>>

LEMMA FailedIs ==
    ASSUME NEW code, Failed(code)
    PROVE  Failure(client', code)
<1>. DEFINE ls == <<Line("server", "text")>>
<1>1. client' = [code |-> code, headers |-> <<>>, lines |-> ls, end |-> "complete"]
  BY DEF Failed
<1>. HIDE DEF ls
<1>2. /\ client'.code = code /\ client'.lines = ls /\ client'.end = "complete"
      /\ DOMAIN client' = ClientFields
  BY <1>1 DEF ClientFields
<1>. QED
  BY <1>2 DEF Failure, ls

\* What a step of the handler reads: the end of the pipe, the end of the
\* response, or a frame after which there is more.
Reading(c) ==
    \/ Frame.f \in {"Eof", "Torn"} /\ wpc = "dead" /\ pipe' = <<>> /\ Lined(c)'
    \/ /\ pipe # <<>> /\ Frame = pipe[1] /\ Lined(c + 1)'
       /\ wpc = "idle" /\ pipe' = <<>>
       /\ IF Framed THEN Frame.f = "End" /\ c > 0 ELSE Frame.f = "Native"
    \/ /\ pipe # <<>> /\ Frame = pipe[1] /\ Lined(c + 1)' /\ Unended(c + 1)'
       /\ Framed
       /\ Frame.f = IF c = 0 THEN "Headers" ELSE "BodyChunk"

LEMMA ReadingIs ==
    ASSUME WorkerTypes, WorkerOK, NEW c \in Nat, Lined(c), Phase(c), hpc # "idle",
           Frame.f # "None", read_frame, UNCHANGED worker
    PROVE  Reading(c)
<1>1. CASE Frame.f \in {"Eof", "Torn"} /\ wpc = "dead" /\ pipe' = <<>> /\ Lined(c)'
  BY <1>1 DEF Reading
<1>2. CASE /\ Lined(c + 1)' /\ c < Len(framed) /\ Frame.f = framed[c + 1]
           /\ pipe # <<>> /\ Frame = pipe[1]
  <2>0. Len(framed) \in Nat /\ c + 1 \in 1 .. Len(framed)
    BY <1>2, SeqBasic DEF WorkerTypes
  <2>1. /\ Framed => /\ framed[c + 1] \in {"Headers", "BodyChunk", "End"}
                     /\ framed[c + 1] = "Headers" <=> c + 1 = 1
                     /\ framed[c + 1] = "End" => c + 1 = Len(framed) /\ wpc = "idle"
        /\ ~Framed => /\ framed[c + 1] = "Native" /\ Len(framed) = 1 /\ c + 1 = 1
                      /\ wpc = "idle"
    BY <2>0, KindsWritten
  <2>2. ASSUME wpc = "idle", c + 1 = Len(framed)
        PROVE  pipe' = <<>>
    <3>1. Len(pipe') \in Nat /\ (pipe' = <<>> <=> Len(pipe') = 0)
      BY <1>2, SeqBasic DEF Lined
    <3>2. (c + 1) + Len(pipe') = Len(framed') /\ framed' = framed
      BY <1>2, <2>2 DEF Lined, worker
    <3>. QED
      BY <2>0, <2>2, <3>1, <3>2
  <2>3. ASSUME framed[c + 1] # "End" PROVE Unended(c + 1)'
    BY <2>0, <2>3 DEF Phase, Unended, worker
  <2>4. CASE ~Framed
    BY <1>2, <2>1, <2>2, <2>4 DEF Reading
  <2>5. CASE Framed /\ framed[c + 1] = "End"
    BY <1>2, <2>1, <2>2, <2>5 DEF Reading
  <2>6. CASE Framed /\ framed[c + 1] # "End"
    BY <1>2, <2>1, <2>3, <2>6 DEF Reading
  <2>. QED
    BY <2>4, <2>5, <2>6
<1>. QED
  BY <1>1, <1>2, FrameIs

LEMMA PhaseOver ==
    ASSUME NEW c, hpc' = "idle", wpc' = "dead" \/ (wpc' = "idle" /\ pipe' = <<>>)
    PROVE  Phase(c)'
  BY DEF Phase

\* A handler that is over without a response, where more may come.
LEMMA GivenUp ==
    ASSUME NEW c \in Nat, Lined(c)', Unended(c)', n' # 0, hpc' = "left"
    PROVE  HandlerOK'
  BY DEF HandlerOK, Phase

\* One that has read the end of the pipe.
LEMMA CutOff ==
    ASSUME NEW c \in Nat, Reading(c), Phase(c), hpc # "idle", UNCHANGED <<n, worker>>,
           hpc' \in {"idle", "left"}, Frame.f \in {"Eof", "Torn"}
    PROVE  HandlerOK'
<1>1. wpc' = "dead" /\ Lined(c)' /\ Unended(c)' /\ n' # 0
  BY DEF Reading, Phase, Unended, Framed, worker
<1>2. CASE hpc' = "idle"
  BY <1>1, <1>2, PhaseOver DEF HandlerOK
<1>3. CASE hpc' = "left"
  BY <1>1, <1>3, GivenUp
<1>. QED
  BY <1>2, <1>3

\* A step of the handler that has read the end of anything is over.
LEMMA ReadOver ==
    ASSUME NEW c \in Nat, Reading(c), UNCHANGED worker, hpc' = "idle",
           Frame.f \notin {"Headers", "BodyChunk"}
    PROVE  HandlerOK'
<1>1. CASE wpc = "dead" /\ Lined(c)'
  BY <1>1, PhaseOver DEF HandlerOK, worker
<1>2. CASE wpc = "idle" /\ pipe' = <<>> /\ Lined(c + 1)'
  BY <1>2, PhaseOver DEF HandlerOK, worker
<1>. QED
  BY <1>1, <1>2 DEF Reading

LEMMA ReadNativeHandler ==
    ASSUME WorkerTypes, WorkerOK, HandlerTypes, HandlerOK, ReadNative
    PROVE  HandlerTypes' /\ HandlerOK'
<1>1. /\ ~Framed /\ hpc = "read" /\ Frame.f # "None" /\ read_frame
      /\ hpc' \in {"idle", "left"} /\ (Frame.f = "Native" => hpc' = "idle")
      /\ UNCHANGED <<kind, n, worker, acc, chan>>
  BY DEF ReadNative, Dropped
<1>2. PICK c \in Nat : Lined(c) /\ Phase(c)
  BY DEF HandlerOK
<1>3. Reading(c)
  BY <1>1, <1>2, ReadingIs
<1>4. Frame.f \in {"Native", "Eof", "Torn"}
  BY <1>1, <1>3 DEF Reading
<1>5. client'.end = "complete" /\ DOMAIN client' = ClientFields
  BY <1>1, AnsweredIs, FailedIs DEF ReadNative, DefaultAnswer, NamedAnswer, Answer, Failure
<1>6. HandlerOK'
  BY <1>1, <1>2, <1>3, <1>4, ReadOver, CutOff
<1>. QED
  BY <1>1, <1>5, <1>6 DEF HandlerTypes

LEMMA UnclaimedHandler ==
    ASSUME WorkerTypes, WorkerOK, HandlerTypes, HandlerOK, ReadUnclaimed
    PROVE  HandlerTypes' /\ HandlerOK'
<1>1. /\ ~Framed /\ hpc = "read" /\ Frame.f # "None" /\ read_frame /\ hpc' = "idle"
      /\ UNCHANGED <<kind, n, worker, acc, chan, client>>
  BY DEF ReadUnclaimed, Framed
<1>2. PICK c \in Nat : Lined(c) /\ Phase(c)
  BY DEF HandlerOK
<1>3. Reading(c)
  BY <1>1, <1>2, ReadingIs
<1>4. Frame.f \notin {"Headers", "BodyChunk"}
  BY <1>1, <1>3 DEF Reading
<1>5. HandlerTypes'
  BY <1>1 DEF HandlerTypes
<1>. QED
  BY <1>1, <1>3, <1>4, <1>5, ReadOver

\* The client of a buffered answer leaves, on a path other than the channels.
LEMMA CancelHandler ==
    ASSUME HandlerTypes, HandlerOK, ClientCancels, ~skewed'
    PROVE  HandlerTypes' /\ HandlerOK'
<1>1. /\ UNCHANGED <<kind, n, worker, pipe, chan>> /\ kind # "channel" /\ hpc # "idle"
      /\ hpc' = (IF kind = "named" THEN hpc ELSE "left")
      /\ client' = [client EXCEPT !.end = "gone"]
      /\ acc' = (IF kind = "named" THEN acc ELSE Nothing)
  BY DEF ClientCancels
<1>2. HandlerTypes'
  BY <1>1 DEF HandlerTypes, ClientFields, Nothing, AccFields
<1>3. PICK c \in Nat : Lined(c) /\ Phase(c)
  BY DEF HandlerOK
<1>4. Lined(c)' /\ Unended(c)' /\ n' # 0
  BY <1>1, <1>3 DEF Lined, Phase, Unended, worker
<1>5. CASE hpc' = "left"
  BY <1>2, <1>4, <1>5, GivenUp
<1>6. CASE hpc' # "left"
  <2>1. kind = "named" /\ UNCHANGED <<hpc, acc>>
    BY <1>1, <1>6
  <2>2. Phase(c)'
    BY <1>1, <1>3, <1>4, <2>1 DEF Phase, Framed
  <2>. QED
    BY <1>2, <1>4, <2>2 DEF HandlerOK
<1>. QED
  BY <1>5, <1>6

\* acc after the headers, and after a chunk.
TopRead(b, x) == /\ DOMAIN b = AccFields /\ b.got = TRUE
                 /\ b.code = x.code /\ b.headers = x.headers
BodyRead(b, a, x) == /\ DOMAIN b = AccFields /\ b.got = a.got /\ b.code = a.code
                     /\ b.headers = a.headers /\ b.lines = a.lines \o x.lines

\* What decode_response does in a state it can be in.
Decoding(c) ==
    \/ /\ Frame.f \in {"Eof", "Torn"} \/ (Frame.f = "Headers" /\ c = 0)
       /\ Failure(client', 502) /\ hpc' = "left" /\ UNCHANGED acc
    \/ /\ Frame.f = "End" /\ acc.got /\ hpc' = "idle" /\ UNCHANGED acc
       /\ Answer(client', Honoured(Frame.ok, acc.code), acc.headers, acc.lines)
    \/ /\ Frame.f = "Headers" /\ c = 0 /\ TopRead(acc', Frame) /\ acc'.lines = acc.lines
       /\ UNCHANGED <<hpc, client>>
    \/ /\ Frame.f = "BodyChunk" /\ c > 0 /\ acc.got /\ BodyRead(acc', acc, Frame)
       /\ UNCHANGED <<hpc, client>>

LEMMA DecodeDoes ==
    ASSUME HandlerTypes, NEW c \in Nat, Reading(c), Phase(c), Decode
    PROVE  Decoding(c)
<1>0. /\ Framed /\ hpc = "read" /\ n' = n /\ (acc.got <=> c > 0)
      /\ DOMAIN acc = AccFields /\ acc.got \in BOOLEAN
  BY DEF Decode, Framed, Phase, HandlerTypes
<1>1. CASE /\ Frame.f = "Headers" /\ ~acc.got /\ UNCHANGED <<hpc, client>>
           /\ acc' = [acc EXCEPT !.got = TRUE, !.code = Frame.code, !.headers = Frame.headers]
  <2>1. TopRead(acc', Frame) /\ acc'.lines = acc.lines
    BY <1>0, <1>1 DEF TopRead, AccFields
  <2>2. c = 0
    BY <1>0, <1>1
  <2>. QED
    BY <1>1, <2>1, <2>2 DEF Decoding
<1>2. CASE /\ Frame.f = "BodyChunk" /\ acc.got /\ UNCHANGED <<hpc, client>>
           /\ acc' = [acc EXCEPT !.lines = @ \o Frame.lines]
  <2>1. BodyRead(acc', acc, Frame)
    BY <1>0, <1>2 DEF BodyRead, AccFields
  <2>. QED
    BY <1>0, <1>2, <2>1 DEF Decoding
<1>3. CASE /\ Frame.f = "End" /\ acc.got /\ hpc' = "idle" /\ UNCHANGED acc
           /\ Answered(Honoured(Frame.ok, acc.code), acc.headers, acc.lines)
  <2>1. Answer(client', Honoured(Frame.ok, acc.code), acc.headers, acc.lines)
    BY <1>0, <1>3, AnsweredIs
  <2>. QED
    BY <1>3, <2>1 DEF Decoding
<1>4. CASE /\ \/ Frame.f \in {"Eof", "Torn"} \/ (acc.got <=> Frame.f = "Headers")
              \/ Frame.f = "Headers" /\ Len(Frame.headers) > MaxHeaders
           /\ Failed(502) /\ Dropped /\ UNCHANGED acc
  <2>1. Failure(client', 502)
    BY <1>0, <1>4, FailedIs
  <2>2. Frame.f \in {"Eof", "Torn"} \/ (Frame.f = "Headers" /\ c = 0)
    <3>1. CASE Frame.f = "Headers"
      BY <3>1 DEF Reading
    <3>2. CASE Frame.f # "Headers"
      BY <1>0, <1>4, <3>2 DEF Reading
    <3>. QED
      BY <3>1, <3>2
  <2>3. hpc' = "left"
    BY <1>4 DEF Dropped, Decode
  <2>. QED
    BY <1>4, <2>1, <2>2, <2>3 DEF Decoding
<1>. QED
  BY <1>1, <1>2, <1>3, <1>4 DEF Decode, CollectedAnswer

LEMMA DecodeHandler ==
    ASSUME WorkerTypes, WorkerOK, HandlerTypes, HandlerOK, Decode
    PROVE  HandlerTypes' /\ HandlerOK'
<1>1. /\ kind = "persistent" /\ hpc = "read" /\ Frame.f # "None" /\ read_frame
      /\ UNCHANGED <<kind, n, worker, chan>>
  BY DEF Decode
<1>2. PICK c \in Nat : Lined(c) /\ Phase(c)
  BY DEF HandlerOK
<1>3. Reading(c)
  BY <1>1, <1>2, ReadingIs
<1>4. Decoding(c)
  BY <1>2, <1>3, DecodeDoes
<1>5. CASE Frame.f = "End"
  <2>1. /\ client'.end = "complete" /\ DOMAIN client' = ClientFields /\ hpc' = "idle"
        /\ UNCHANGED acc
    BY <1>4, <1>5 DEF Decoding, Answer
  <2>. QED
    BY <1>1, <1>3, <1>5, <2>1, ReadOver DEF HandlerTypes
<1>7. CASE hpc' = "left" /\ Failure(client', 502) /\ UNCHANGED acc
  <2>1. HandlerTypes'
    BY <1>1, <1>7 DEF HandlerTypes, Failure
  <2>2. CASE Frame.f \in {"Eof", "Torn"}
    BY <1>1, <1>2, <1>3, <1>7, <2>1, <2>2, CutOff
  <2>3. CASE Frame.f = "Headers"
    <3>1. Lined(c + 1)' /\ Unended(c + 1)' /\ c + 1 \in Nat /\ n' # 0
      BY <1>1, <1>2, <1>3, <2>3 DEF Reading, Phase
    <3>. QED
      BY <1>7, <2>1, <3>1, GivenUp
  <2>. QED
    BY <1>1, <1>4, <1>7, <2>2, <2>3 DEF Decoding
<1>6. CASE UNCHANGED <<hpc, client>> /\ Frame.f \in {"Headers", "BodyChunk"}
  <2>0. /\ UNCHANGED <<hpc, client>>
        /\ TopRead(acc', Frame) \/ (acc.got /\ BodyRead(acc', acc, Frame))
    BY <1>1, <1>4, <1>6 DEF Decoding
  <2>1. /\ DOMAIN acc' = AccFields /\ acc'.got = TRUE /\ UNCHANGED <<hpc, client>>
    BY <2>0, Zenon DEF HandlerTypes, TopRead, BodyRead
  <2>2. Lined(c + 1)' /\ Unended(c + 1)' /\ c + 1 \in Nat /\ c + 1 > 0
    BY <1>3, <1>6 DEF Reading
  <2>3. Phase(c + 1)'
    BY <1>1, <1>2, <2>1, <2>2 DEF Phase, Framed, worker
  <2>4. HandlerTypes'
    BY <1>1, <2>1 DEF HandlerTypes
  <2>. QED
    BY <2>2, <2>3, <2>4 DEF HandlerOK
<1>. QED
  BY <1>4, <1>5, <1>6, <1>7 DEF Decoding

\* What the streaming path does when it has a frame.
HeadReading ==
    \/ /\ Frame.f \notin {"Headers", "BodyChunk"} /\ Failure(client', 500) /\ hpc' = "idle"
       /\ UNCHANGED acc
    \/ /\ Frame.f = "Headers" /\ TopRead(acc', Frame) /\ acc'.lines = <<>>
       /\ IF headers_request_streaming(Frame.headers)
          THEN /\ hpc' = "forward" /\ DOMAIN client' = ClientFields /\ client'.end = "open"
               /\ client'.code = Frame.code /\ client'.headers = Frame.headers
               /\ client'.lines = <<>>
          ELSE hpc' = "drain" /\ UNCHANGED client

LEMMA ReadHeadDoes ==
    ASSUME NEW c \in Nat, Reading(c), Phase(c), ReadHead
    PROVE  HeadReading
<1>1. hpc = "head" /\ c = 0 /\ Frame.f # "BodyChunk"
  BY DEF ReadHead, Phase, Reading
<1>2. CASE Frame.f # "Headers"
  BY <1>1, <1>2, FailedIs DEF ReadHead, HeadReading
<1>3. CASE Frame.f = "Headers"
  <2>1. acc' = [got |-> TRUE, code |-> Frame.code, headers |-> Frame.headers, lines |-> <<>>]
    BY <1>3 DEF ReadHead
  <2>2. TopRead(acc', Frame) /\ acc'.lines = <<>>
    BY <2>1 DEF TopRead, AccFields
  <2>3. CASE headers_request_streaming(Frame.headers)
    <3>1. /\ hpc' = "forward"
          /\ client' = [code |-> Frame.code, headers |-> Frame.headers, lines |-> <<>>, end |-> "open"]
      BY <1>3, <2>3 DEF ReadHead, response_should_stream, Streaming
    <3>2. /\ DOMAIN client' = ClientFields /\ client'.end = "open" /\ client'.code = Frame.code
          /\ client'.headers = Frame.headers /\ client'.lines = <<>>
      BY <3>1 DEF ClientFields
    <3>. QED
      BY <1>3, <2>2, <2>3, <3>1, <3>2 DEF HeadReading
  <2>4. CASE ~headers_request_streaming(Frame.headers)
    BY <1>3, <2>2, <2>4 DEF ReadHead, response_should_stream, HeadReading
  <2>. QED
    BY <2>3, <2>4
<1>. QED
  BY <1>2, <1>3

LEMMA ReadHeadHandler ==
    ASSUME WorkerTypes, WorkerOK, HandlerTypes, HandlerOK, ReadHead
    PROVE  HandlerTypes' /\ HandlerOK'
<1>1. /\ hpc = "head" /\ Frame.f # "None" /\ read_frame /\ UNCHANGED <<kind, n, worker, chan>>
  BY DEF ReadHead
<1>2. PICK c \in Nat : Lined(c) /\ Phase(c)
  BY DEF HandlerOK
<1>3. Reading(c)
  BY <1>1, <1>2, ReadingIs
<1>4. HeadReading
  BY <1>2, <1>3, ReadHeadDoes
<1>5. CASE Frame.f # "Headers"
  <2>1. /\ client'.end = "complete" /\ DOMAIN client' = ClientFields /\ hpc' = "idle"
        /\ UNCHANGED acc /\ Frame.f # "BodyChunk"
    BY <1>4, <1>5 DEF HeadReading, Failure
  <2>. QED
    BY <1>1, <1>3, <1>5, <2>1, ReadOver DEF HandlerTypes
<1>6. CASE Frame.f = "Headers"
  <2>1. /\ TopRead(acc', Frame) /\ hpc' \in {"forward", "drain"}
        /\ UNCHANGED client \/ (DOMAIN client' = ClientFields /\ client'.end = "open")
    BY <1>4, <1>6 DEF HeadReading
  <2>2. Lined(c + 1)' /\ Unended(c + 1)' /\ c + 1 \in Nat /\ c + 1 > 0
    BY <1>3, <1>6 DEF Reading
  <2>3. Phase(c + 1)'
    BY <1>1, <1>2, <2>1, <2>2 DEF Phase, worker
  <2>4. DOMAIN acc' = AccFields /\ acc'.got = TRUE
    BY <2>1 DEF TopRead
  <2>5. HandlerTypes'
    BY <1>1, <2>1, <2>4 DEF HandlerTypes
  <2>. QED
    BY <2>2, <2>3, <2>5 DEF HandlerOK
<1>. QED
  BY <1>5, <1>6

Draining ==
    \/ /\ Frame.f \in {"Eof", "Torn"} /\ Failure(client', 500) /\ hpc' = "idle" /\ UNCHANGED acc
    \/ /\ Frame.f = "End" /\ Answer(client', acc.code, acc.headers, acc.lines) /\ hpc' = "idle"
       /\ UNCHANGED acc
    \/ /\ Frame.f = "BodyChunk" /\ BodyRead(acc', acc, Frame) /\ UNCHANGED <<hpc, client>>

LEMMA DrainDoes ==
    ASSUME HandlerTypes, NEW c \in Nat, Reading(c), Phase(c), DrainBody
    PROVE  Draining
<1>0. hpc = "drain" /\ DOMAIN acc = AccFields /\ Frame.f \in {"Eof", "Torn", "End", "BodyChunk"}
  BY DEF DrainBody, Phase, HandlerTypes, Reading, Framed
<1>1. CASE /\ Frame.f = "BodyChunk" /\ UNCHANGED <<hpc, client>>
           /\ acc' = [acc EXCEPT !.lines = @ \o Frame.lines]
  <2>1. BodyRead(acc', acc, Frame)
    BY <1>0, <1>1 DEF BodyRead, AccFields
  <2>. QED
    BY <1>1, <2>1 DEF Draining
<1>2. CASE /\ Frame.f = "End" /\ Answered(acc.code, acc.headers, acc.lines)
           /\ hpc' = "idle" /\ UNCHANGED acc
  BY <1>2, AnsweredIs DEF Draining
<1>3. CASE /\ Frame.f \notin {"BodyChunk", "End"} /\ Failed(500) /\ hpc' = "idle" /\ UNCHANGED acc
  BY <1>0, <1>3, FailedIs DEF Draining
<1>. QED
  BY <1>1, <1>2, <1>3 DEF DrainBody

LEMMA DrainHandler ==
    ASSUME WorkerTypes, WorkerOK, HandlerTypes, HandlerOK, DrainBody
    PROVE  HandlerTypes' /\ HandlerOK'
<1>1. /\ hpc = "drain" /\ Frame.f # "None" /\ read_frame /\ UNCHANGED <<kind, n, worker, chan>>
  BY DEF DrainBody
<1>2. PICK c \in Nat : Lined(c) /\ Phase(c)
  BY DEF HandlerOK
<1>3. Reading(c)
  BY <1>1, <1>2, ReadingIs
<1>4. Draining
  BY <1>2, <1>3, DrainDoes
<1>5. CASE Frame.f # "BodyChunk"
  <2>1. /\ client'.end = "complete" /\ DOMAIN client' = ClientFields /\ hpc' = "idle"
        /\ UNCHANGED acc /\ Frame.f # "Headers"
    BY <1>4, <1>5 DEF Draining, Answer, Failure
  <2>. QED
    BY <1>1, <1>3, <1>5, <2>1, ReadOver DEF HandlerTypes
<1>6. CASE Frame.f = "BodyChunk"
  <2>1. BodyRead(acc', acc, Frame) /\ UNCHANGED <<hpc, client>>
    BY <1>4, <1>6 DEF Draining
  <2>2. Lined(c + 1)' /\ Unended(c + 1)' /\ c + 1 \in Nat /\ c + 1 > 0
    BY <1>3, <1>6 DEF Reading
  <2>3. Phase(c + 1)'
    BY <1>1, <1>2, <2>1, <2>2 DEF Phase, worker
  <2>4. DOMAIN acc' = AccFields /\ acc'.got = acc.got
    BY <2>1 DEF BodyRead
  <2>5. acc'.got \in BOOLEAN
    BY <2>4, Zenon DEF HandlerTypes
  <2>6. HandlerTypes'
    BY <1>1, <2>1, <2>4, <2>5 DEF HandlerTypes
  <2>. QED
    BY <2>2, <2>3, <2>6 DEF HandlerOK
<1>. QED
  BY <1>5, <1>6

LEMMA ChanGrows ==
    ASSUME IsSeq(chan), Len(chan) < ChanCap, NEW e, chan' = Append(chan, e)
    PROVE  IsSeq(chan') /\ Len(chan') <= ChanCap
<1>1. Added(chan, e, chan') /\ Len(chan) \in Nat
  BY SeqAppend, SeqBasic
<1>. QED
  BY <1>1, ExchangeAssumption DEF Added

LEMMA ForwardHandler ==
    ASSUME WorkerTypes, WorkerOK, HandlerTypes, HandlerOK, Forward
    PROVE  HandlerTypes' /\ HandlerOK'
<1>1. /\ hpc \in {"forward", "discard"} /\ Frame.f # "None" /\ read_frame
      /\ UNCHANGED <<kind, n, worker, acc, client>>
  BY DEF Forward, ForwardChunk, ForwardEnds, ForwardDiscards
<1>2. PICK c \in Nat : Lined(c) /\ Phase(c)
  BY DEF HandlerOK
<1>3. Reading(c)
  BY <1>1, <1>2, ReadingIs
<1>4. IsSeq(chan') /\ Len(chan') <= ChanCap
  BY ChanGrows DEF HandlerTypes, Forward, ForwardChunk, ForwardEnds, ForwardDiscards
<1>5. HandlerTypes'
  BY <1>1, <1>4 DEF HandlerTypes
<1>6. CASE ForwardEnds
  BY <1>1, <1>3, <1>5, <1>6, ReadOver DEF ForwardEnds, Released
<1>7. CASE ForwardChunk \/ ForwardDiscards
  <2>1. hpc' \in {"forward", "discard"} /\ Frame.f \in {"Headers", "BodyChunk"}
    BY <1>1, <1>7 DEF ForwardChunk, ForwardDiscards
  <2>2. Lined(c + 1)' /\ Unended(c + 1)' /\ c + 1 \in Nat /\ c + 1 > 0
    BY <1>3, <2>1 DEF Reading
  <2>3. Phase(c + 1)'
    BY <1>1, <1>2, <2>1, <2>2 DEF Phase, worker
  <2>. QED
    BY <1>5, <2>2, <2>3 DEF HandlerOK
<1>. QED
  BY <1>6, <1>7 DEF Forward

LEMMA ClientHandler ==
    ASSUME HandlerTypes, HandlerOK, ClientStep
    PROVE  HandlerTypes' /\ HandlerOK'
<1>1. UNCHANGED <<kind, n, worker, pipe, hpc, acc>>
  BY DEF ClientStep, ClientReads, ClientSeesEnd, ClientLeaves
<1>2. HandlerOK'
  BY <1>1 DEF HandlerOK, Lined, Phase, Unended, Framed, worker
<1>3. /\ DOMAIN client' = ClientFields
      /\ client'.end \in {"waiting", "open", "complete", "aborted", "gone"}
  <2>1. \/ client' = [client EXCEPT !.lines = @ \o Head(chan)]
        \/ \E e \in {"aborted", "complete", "gone"} : client' = [client EXCEPT !.end = e]
    BY DEF ClientStep, ClientReads, ClientSeesEnd, ClientLeaves
  <2>. QED
    BY <2>1 DEF HandlerTypes, ClientFields
<1>4. IsSeq(chan') /\ Len(chan') <= ChanCap
  <2>1. CASE chan' = chan
    BY <2>1 DEF HandlerTypes
  <2>2. CASE chan # <<>> /\ chan' = Tail(chan)
    <3>1. Shifted(chan, chan') /\ Len(chan) \in Nat
      BY <2>2, SeqTail, SeqBasic DEF HandlerTypes
    <3>. QED
      BY <3>1, ExchangeAssumption DEF Shifted, HandlerTypes
  <2>. QED
    BY <2>1, <2>2 DEF ClientStep, ClientReads, ClientSeesEnd, ClientLeaves
<1>. QED
  BY <1>1, <1>2, <1>3, <1>4 DEF HandlerTypes

LEMMA InitHandler ==
    ASSUME Init PROVE HandlerTypes /\ HandlerOK
<1>1. HandlerTypes
  BY SeqSmall, ExchangeAssumption DEF Init, HandlerTypes, Nothing, NoAnswer, AccFields, ClientFields
<1>2. Lined(0) /\ Phase(0)
  BY SeqSmall, ExchangeAssumption DEF Init, Lined, Phase
<1>. QED
  BY <1>1, <1>2 DEF HandlerOK

LEMMA SendHandler ==
    ASSUME WorkerTypes, HandlerTypes, HandlerOK, NEW r, Send(r)
    PROVE  HandlerTypes' /\ HandlerOK'
<1>1. /\ wpc = "idle" /\ hpc = "idle" /\ n' = n + 1 /\ wpc' = "asked"
      /\ hpc' = (IF kind = "stream" THEN "head" ELSE "read")
      /\ acc' = Nothing /\ chan' = <<>> /\ client' = NoAnswer /\ framed' = <<>>
      /\ UNCHANGED <<kind, pipe>>
  BY DEF Send
<1>2. pipe' = <<>>
  BY <1>1 DEF HandlerOK, Phase
<1>3. HandlerTypes'
  BY <1>1, SeqSmall, ExchangeAssumption DEF HandlerTypes, Nothing, NoAnswer, AccFields, ClientFields
<1>4. Lined(0)'
  BY <1>1, <1>2, SeqSmall, ExchangeAssumption DEF Lined
<1>5. acc'.got = FALSE /\ n' # 0
  BY <1>1, ExchangeAssumption DEF Nothing, WorkerTypes
<1>6. Phase(0)'
  BY <1>1, <1>5 DEF Phase, Unended
<1>. QED
  BY <1>3, <1>4, <1>6 DEF HandlerOK

\* Until it writes, the worker does not touch what the handler looks at.
LEMMA QuietHandler ==
    ASSUME HandlerTypes, HandlerOK, wpc \notin {"idle", "dead"},
           UNCHANGED <<kind, n, pipe, handler, framed>>
    PROVE  HandlerTypes' /\ HandlerOK'
<1>1. HandlerTypes'
  BY DEF HandlerTypes, handler
<1>2. PICK c \in Nat : Lined(c) /\ Phase(c)
  BY DEF HandlerOK
<1>3. hpc # "idle"
  BY <1>2 DEF Phase
<1>4. Lined(c)' /\ Phase(c)'
  BY <1>2, <1>3 DEF Lined, Phase, Unended, Framed, handler
<1>. QED
  BY <1>1, <1>4 DEF HandlerOK

LEMMA WriteHandler ==
    ASSUME WorkerTypes, WorkerOK, HandlerTypes, HandlerOK, Write
    PROVE  HandlerTypes' /\ HandlerOK'
<1>. DEFINE x == Head(o.out)
<1>1. /\ o.out # <<>> /\ Len(pipe) < PipeCap /\ pipe' = Append(pipe, x)
      /\ framed' = Append(framed, x.f) /\ UNCHANGED <<kind, n, handler>>
  BY DEF Write
<1>. HIDE DEF x
<1>2. wpc \notin {"idle", "dead"}
  BY <1>1 DEF WorkerOK
<1>3. PICK c \in Nat : Lined(c) /\ Phase(c)
  BY DEF HandlerOK
<1>4. /\ c + Len(pipe) = Len(framed) /\ IsSeq(pipe)
      /\ \A i \in 1 .. Len(pipe) : pipe[i].f = framed[c + i]
  BY <1>2, <1>3 DEF Lined
<1>5. Len(pipe) \in Nat /\ Len(framed) \in Nat
  BY <1>4, SeqBasic DEF WorkerTypes
<1>6. Added(pipe, x, pipe') /\ Added(framed, x.f, framed')
  BY <1>1, <1>4, SeqAppend DEF WorkerTypes
<1>7. /\ IsSeq(pipe') /\ Len(pipe') = Len(pipe) + 1 /\ Len(framed') = Len(framed) + 1
      /\ \A i \in 1 .. Len(pipe) : pipe'[i] = pipe[i]
      /\ pipe'[Len(pipe) + 1] = x
      /\ \A i \in 1 .. Len(framed) : framed'[i] = framed[i]
      /\ framed'[Len(framed) + 1] = x.f
  BY <1>6 DEF Added
<1>8. \A i \in 1 .. Len(pipe') : pipe'[i].f = framed'[c + i]
  <2>. SUFFICES ASSUME NEW i \in 1 .. Len(pipe') PROVE pipe'[i].f = framed'[c + i]
    OBVIOUS
  <2>1. CASE i = Len(pipe) + 1
    <3>1. c + i = Len(framed) + 1
      BY <1>4, <1>5, <2>1
    <3>. QED
      BY <1>7, <2>1, <3>1
  <2>2. CASE i # Len(pipe) + 1
    <3>1. i \in 1 .. Len(pipe)
      BY <1>5, <1>7, <2>2
    <3>2. c + i \in 1 .. Len(framed)
      BY <1>4, <1>5, <3>1
    <3>3. pipe'[i] = pipe[i] /\ framed'[c + i] = framed[c + i] /\ pipe[i].f = framed[c + i]
      BY <1>4, <1>7, <3>1, <3>2
    <3>. QED
      BY <3>3
  <2>. QED
    BY <2>1, <2>2
<1>9. c + Len(pipe') = Len(framed') /\ Len(pipe') <= PipeCap
  <2>1. c + Len(pipe) = Len(framed) /\ Len(pipe') = Len(pipe) + 1 /\ Len(framed') = Len(framed) + 1
    BY <1>4, <1>7
  <2>. QED
    BY <1>1, <1>5, <2>1, ExchangeAssumption
<1>10. Lined(c)'
  BY <1>7, <1>8, <1>9 DEF Lined
<1>11. hpc # "idle" /\ Unended(c)
  BY <1>2, <1>3 DEF Phase
<1>12. Unended(c)'
  <2>1. ASSUME NEW i \in 1 .. c PROVE framed'[i] = framed[i] /\ framed[i] # "End"
    <3>1. i \in 1 .. Len(framed)
      <4>1. c <= Len(framed)
        <5>1. c + Len(pipe) = Len(framed)
          BY <1>4
        <5>. QED
          BY <1>5, <5>1
      <4>. QED
        BY <1>5, <4>1
    <3>. QED
      BY <1>7, <1>11, <3>1 DEF Unended
  <2>. QED
    BY <2>1 DEF Unended
<1>13. Phase(c)'
  BY <1>1, <1>3, <1>11, <1>12 DEF Phase, Framed, handler
<1>14. HandlerTypes'
  BY <1>1 DEF HandlerTypes, handler
<1>. QED
  BY <1>10, <1>13, <1>14 DEF HandlerOK

LEMMA CrashHandler ==
    ASSUME WorkerTypes, WorkerOK, HandlerTypes, HandlerOK, Crash
    PROVE  HandlerTypes' /\ HandlerOK'
<1>1. /\ wpc \notin {"idle", "dead"} /\ wpc' = "dead" /\ UNCHANGED <<kind, n, handler, framed>>
      /\ pipe' = pipe \/ (Len(pipe) < PipeCap /\ pipe' = Append(pipe, Torn))
  BY DEF Crash
<1>2. PICK c \in Nat : Lined(c) /\ Phase(c)
  BY DEF HandlerOK
<1>3. /\ c + Len(pipe) = Len(framed) /\ IsSeq(pipe) /\ Len(pipe) <= PipeCap
      /\ \A i \in 1 .. Len(pipe) : pipe[i].f = framed[c + i]
  BY <1>1, <1>2 DEF Lined
<1>4. Lined(c)'
  <2>1. CASE pipe' = pipe
    BY <1>1, <1>3, <2>1 DEF Lined
  <2>2. CASE Len(pipe) < PipeCap /\ pipe' = Append(pipe, Torn)
    <3>1. Added(pipe, Torn, pipe') /\ Len(pipe) \in Nat
      BY <1>3, <2>2, SeqAppend, SeqBasic
    <3>2. /\ IsSeq(pipe') /\ Len(pipe') = Len(pipe) + 1
          /\ \A i \in 1 .. Len(pipe) : pipe'[i] = pipe[i]
          /\ pipe'[Len(pipe')].f = "Torn"
      BY <3>1, FrameKinds DEF Added
    <3>3. Len(pipe') > 0 /\ Len(pipe') <= PipeCap /\ Len(pipe') - 1 = Len(pipe)
      BY <2>2, <3>1, <3>2, ExchangeAssumption
    <3>4. c + Len(pipe') - 1 = Len(framed')
      <4>1. c + Len(pipe) = Len(framed) /\ framed' = framed
        BY <1>1, <1>3
      <4>. QED
        BY <3>1, <3>2, <4>1
    <3>5. \A i \in 1 .. Len(pipe') - 1 : pipe'[i].f = framed'[c + i]
      BY <1>1, <1>3, <3>2, <3>3
    <3>. QED
      BY <1>1, <3>2, <3>3, <3>4, <3>5 DEF Lined
  <2>. QED
    BY <1>1, <2>1, <2>2
<1>5. Phase(c)'
  BY <1>1, <1>2 DEF Phase, Unended, Framed, handler
<1>6. HandlerTypes'
  BY <1>1 DEF HandlerTypes, handler
<1>. QED
  BY <1>4, <1>5, <1>6 DEF HandlerOK

Core == WorkerTypes /\ WorkerOK /\ HandlerTypes /\ HandlerOK

\* The worker's steps before it writes.
LEMMA QuietIs ==
    ASSUME Take \/ Script \/ ScriptEnds \/ RunCleanup \/ Finish
    PROVE  wpc \notin {"idle", "dead"} /\ UNCHANGED <<kind, n, pipe, handler, framed>>
<1>1. CASE Take
  BY <1>1 DEF Take
<1>2. CASE Script
  BY <1>2 DEF Script, SetHeader, SetCode, Echo, ObFlush, Flush, Call
<1>3. CASE ScriptEnds \/ RunCleanup
  BY <1>3 DEF ScriptEnds, RunCleanup
<1>4. CASE Finish
  BY <1>4 DEF Finish
<1>. QED
  BY <1>1, <1>2, <1>3, <1>4

LEMMA NextCore ==
    ASSUME Core, [Next]_vars, ~skewed'
    PROVE  Core'
<1>0. WorkerTypes' /\ WorkerOK'
  BY NextWorker DEF Core
<1>1. CASE \E r \in Requests(Format) : Send(r)
  BY <1>0, <1>1, SendHandler DEF Core
<1>2. CASE WorkerStep
  BY <1>0, <1>2, QuietIs, QuietHandler, WriteHandler DEF WorkerStep, Core
<1>3. CASE Crash
  BY <1>0, <1>3, CrashHandler DEF Core
<1>4. CASE HandlerStep
  <2>1. ~Misread /\ ~ReadLost
    BY DEF Misread, ReadLost, Core, HandlerOK, Phase
  <2>. QED
    BY <1>0, <1>4, <2>1, ReadNativeHandler, UnclaimedHandler, DecodeHandler, ReadHeadHandler,
       DrainHandler, ForwardHandler DEF HandlerStep, Core
<1>7. CASE ClientCancels
  BY <1>0, <1>7, CancelHandler DEF Core
<1>5. CASE ClientStep
  BY <1>0, <1>5, ClientHandler DEF Core
<1>6. CASE UNCHANGED vars
  <2>1. HandlerTypes'
    BY <1>6 DEF HandlerTypes, vars, Core
  <2>2. HandlerOK'
    BY <1>6 DEF HandlerOK, Lined, Phase, Unended, Framed, vars, Core
  <2>. QED
    BY <1>0, <2>1, <2>2 DEF Core
<1>. QED
  BY <1>1, <1>2, <1>3, <1>4, <1>5, <1>6, <1>7 DEF Next

\* A reader that has lost its place does not find it again.
LEMMA SkewStays ==
    ASSUME [Next]_vars, ~skewed' PROVE ~skewed
<1>1. CASE HandlerStep
  BY <1>1 DEF HandlerStep, ReadNative, ReadUnclaimed, Decode, ReadHead, DrainBody, Forward,
              Misread, ReadLost
<1>2. CASE ClientStep \/ ClientCancels
  BY <1>2 DEF ClientStep, ClientReads, ClientSeesEnd, ClientLeaves, ClientCancels
<1>3. CASE WorkerStep
  BY <1>3 DEF WorkerStep, Take, Script, SetHeader, SetCode, Echo, ObFlush, Flush, Call, ScriptEnds,
              RunCleanup, Finish, Write
<1>. QED
  BY <1>1, <1>2, <1>3 DEF Next, Send, Crash, vars

LEMMA CoreHolds == Spec => [](skewed \/ Core)
<1>1. Init => Core
  BY InitWorker, InitHandler DEF Core
<1>2. (skewed \/ Core) /\ [Next]_vars => (skewed \/ Core)'
  BY NextCore, SkewStays
<1>. QED
  BY <1>1, <1>2, PTL DEF Spec

\* Nothing of a response is left for the reader of the next, for any number of
\* requests and however each of them ended, as long as no length was cut and
\* no client of a channel left.
THEOREM ResponsesAreAligned == Spec => []Aligned
<1>1. skewed \/ Core => Aligned
  BY DEF Core, HandlerOK, Phase, WorkerOK, Running, Aligned
<1>. QED
  BY <1>1, CoreHolds, PTL

----------------------------------------------------------------------------
(***************************************************************************)
(* Types, codes and the flag of a script that failed                       *)
(***************************************************************************)
\* Every code is one of the program's, and no frame says that a script that
\* failed succeeded.
FrameData == FramesOK(o.out, ok) /\ FramesOK(pipe, ok)

CodesOK ==
    /\ acc.code \in Codes \union {0} /\ (acc.got => acc.code \in Codes)
    /\ client.code \in Codes \union {0}

LEMMA FramesTail ==
    ASSUME NEW v, NEW s, IsSeq(s), FramesOK(s, v), NEW s_, s # <<>> /\ s_ = Tail(s)
    PROVE  FramesOK(s_, v) /\ FrameOK(Head(s), v) /\ FrameOK(s[1], v)
<1>1. Shifted(s, s_) /\ Len(s) > 0 /\ Head(s) = s[1] /\ Len(s) \in Nat
  BY SeqTail, SeqBasic
<1>2. FrameOK(s[1], v)
  BY <1>1 DEF FramesOK
<1>3. ASSUME NEW i \in 1 .. Len(s_) PROVE FrameOK(s_[i], v)
  <2>1. s_[i] = s[i + 1] /\ i + 1 \in 1 .. Len(s)
    BY <1>1 DEF Shifted
  <2>. QED
    BY <2>1 DEF FramesOK
<1>. QED
  BY <1>1, <1>2, <1>3 DEF FramesOK

LEMMA FramesAppend ==
    ASSUME NEW v, NEW s, IsSeq(s), FramesOK(s, v), NEW x, FrameOK(x, v), NEW r, r = Append(s, x)
    PROVE  FramesOK(r, v)
<1>1. Added(s, x, r) /\ Len(s) \in Nat
  BY SeqAppend, SeqBasic
<1>2. ASSUME NEW i \in 1 .. Len(r) PROVE FrameOK(r[i], v)
  <2>1. CASE i = Len(s) + 1
    BY <1>1, <2>1 DEF Added
  <2>2. CASE i \in 1 .. Len(s)
    BY <1>1, <2>2 DEF Added, FramesOK
  <2>. QED
    BY <1>1, <2>1, <2>2 DEF Added
<1>. QED
  BY <1>2 DEF FramesOK

LEMMA TornOK == ASSUME NEW v PROVE FrameOK(Torn, v)
  BY FrameKinds DEF FrameOK

\* While a script runs, no frame has a flag.
LEMMA FlaglessPipe ==
    ASSUME Core, wpc \notin {"idle", "dead"}, NEW v, NEW w, FramesOK(pipe, v)
    PROVE  FramesOK(pipe, w)
<1>1. PICK c \in Nat : Lined(c)
  BY DEF Core, HandlerOK
<1>2. /\ c + Len(pipe) = Len(framed) /\ Len(pipe) \in Nat /\ Len(framed) \in Nat
      /\ \A i \in 1 .. Len(pipe) : pipe[i].f = framed[c + i]
  BY <1>1, SeqBasic DEF Lined, Core, WorkerTypes
<1>3. ASSUME NEW i \in 1 .. Len(pipe) PROVE FrameOK(pipe[i], w)
  <2>1. c + i \in 1 .. Len(framed)
    BY <1>2
  <2>2. framed[c + i] \notin {"End", "Native"}
    BY <2>1, KindsWritten DEF Core
  <2>3. pipe[i].f \notin {"End", "Native"} /\ FrameOK(pipe[i], v)
    BY <1>2, <2>2 DEF FramesOK
  <2>. QED
    BY <2>3 DEF FrameOK
<1>. QED
  BY <1>3 DEF FramesOK

LEMMA NextFrameData ==
    ASSUME Core, FrameData, [Next]_vars, ~skewed'
    PROVE  FrameData'
<1>0. /\ WorkerTypes /\ WorkerOK /\ IsSeq(pipe) /\ IsSeq(o.out) /\ DOMAIN o = Fields
      /\ FramesOK(o.out, ok) /\ FramesOK(pipe, ok)
  BY DEF Core, HandlerOK, Lined, WorkerTypes, IsOutput, FrameData
<1>1. CASE \E r \in Requests(Format) : Send(r)
  <2>1. UNCHANGED <<ok, o, pipe>>
    BY <1>1 DEF Send
  <2>. QED
    BY <2>1 DEF FrameData
<1>2. CASE Take
  BY <1>0, <1>2, TakeWorker, FlaglessPipe, QuietIs DEF FrameData
<1>3. CASE Script
  <2>1. ok' = ok
    BY <1>3 DEF Script, SetHeader, SetCode, Echo, ObFlush, Flush, Call
  <2>. QED
    BY <1>0, <1>3, <2>1, CallsWorker, QuietIs DEF FrameData
<1>4. CASE ScriptEnds
  <2>1. o.out = <<>> /\ o' = o /\ pipe' = pipe
    BY <1>4 DEF ScriptEnds
  <2>2. FramesOK(pipe, ok')
    BY <1>0, <1>4, FlaglessPipe, QuietIs
  <2>3. FramesOK(o'.out, ok')
    BY <2>1, ChunkShapes
  <2>. QED
    BY <2>1, <2>2, <2>3 DEF FrameData
<1>5. CASE RunCleanup
  <2>1. UNCHANGED <<ok, o, pipe>>
    BY <1>5 DEF RunCleanup
  <2>. QED
    BY <2>1 DEF FrameData
<1>6. CASE Finish
  <2>1. ok' = ok
    BY <1>6 DEF Finish
  <2>. QED
    BY <1>0, <1>6, <2>1, FinishWorker, QuietIs DEF FrameData
<1>7. CASE Write
  <2>1. /\ o.out # <<>> /\ pipe' = Append(pipe, Head(o.out)) /\ o' = [o EXCEPT !.out = Tail(@)]
        /\ ok' = ok
    BY <1>7 DEF Write
  <2>2. o'.out = Tail(o.out)
    BY <1>0, <2>1 DEF Fields
  <2>3. FramesOK(o'.out, ok) /\ FrameOK(Head(o.out), ok)
    BY <1>0, <2>1, <2>2, FramesTail
  <2>4. FramesOK(pipe', ok)
    BY <1>0, <2>1, <2>3, FramesAppend
  <2>. QED
    BY <2>1, <2>3, <2>4 DEF FrameData
<1>8. CASE Crash
  <2>1. o' = NoOutput /\ ok' = ok /\ (pipe' = pipe \/ pipe' = Append(pipe, Torn))
    BY <1>8 DEF Crash
  <2>2. FramesOK(o'.out, ok)
    BY <2>1, NoOutputIs, ChunkShapes
  <2>3. FramesOK(pipe', ok)
    BY <1>0, <2>1, FramesAppend, TornOK
  <2>. QED
    BY <2>1, <2>2, <2>3 DEF FrameData
<1>9. CASE HandlerStep
  <2>1. read_frame /\ UNCHANGED worker
    BY <1>9 DEF HandlerStep, ReadNative, ReadUnclaimed, Decode, ReadHead, DrainBody, Forward,
                Misread, ReadLost
  <2>2. FramesOK(pipe', ok)
    <3>1. pipe' = pipe \/ (pipe # <<>> /\ pipe' = Tail(pipe))
      BY <2>1 DEF read_frame
    <3>. QED
      BY <1>0, <3>1, FramesTail
  <2>. QED
    BY <2>1, <2>2 DEF FrameData, worker
<1>10. CASE ClientStep \/ ClientCancels \/ UNCHANGED vars
  <2>1. UNCHANGED <<ok, o, pipe>>
    BY <1>10 DEF ClientStep, ClientReads, ClientSeesEnd, ClientLeaves, ClientCancels, worker, vars
  <2>. QED
    BY <2>1 DEF FrameData
<1>. QED
  BY <1>1, <1>2, <1>3, <1>4, <1>5, <1>6, <1>7, <1>8, <1>9, <1>10 DEF Next, WorkerStep

\* The answer of a worker's failed script, once the client has it.
Shown ==
    /\ client.end = "complete" => hpc = "idle" \/ (hpc = "left" /\ Own(client.lines))
    /\ client.end = "open" => kind = "stream"
    /\ FailureShown

LEMMA FrameCode ==
    ASSUME Core, FrameData, NEW c \in Nat, Reading(c),
           Frame.f \in {"Headers", "BodyChunk", "End", "Native"}
    PROVE  FrameOK(Frame, ok)
<1>1. pipe # <<>> /\ Frame = pipe[1]
  BY DEF Reading
<1>2. IsSeq(pipe) /\ FramesOK(pipe, ok)
  BY DEF Core, HandlerOK, Lined, FrameData
<1>. QED
  BY <1>1, <1>2, FramesTail

LEMMA HonouredIs ==
    ASSUME NEW v, NEW code
    PROVE  /\ code \in Codes \union {0} => Honoured(v, code) \in Codes \union {0}
           /\ ~v /\ code \in Codes => Honoured(v, code) >= 400
  BY DEF Honoured, Codes

LEMMA OwnLines ==
    ASSUME NEW who \in {"server", "worker", "file"}
    PROVE  Own(<<Line(who, "text")>>)
<1>. DEFINE x == Line(who, "text")
<1>1. x.by = who
  BY DEF Line
<1>. HIDE DEF x
<1>2. IsSeq(<<x>>) /\ Len(<<x>>) = 1 /\ <<x>>[1] = x /\ <<x>> # <<>>
  BY SeqSmall
<1>3. DOMAIN <<x>> = 1 .. 1
  BY <1>2, SeqBasic
<1>4. Own(<<x>>)
  BY <1>1, <1>2, <1>3 DEF Own
<1>. QED
  BY <1>4 DEF x

\* A step that leaves the client alone, of a worker that is at work.
LEMMA QuietCodes ==
    ASSUME CodesOK, Shown, UNCHANGED <<kind, n, handler>>, ~skewed,
           client.end = "complete" => UNCHANGED <<wpc, ok>> \/ Own(client.lines)
    PROVE  CodesOK' /\ Shown'
<1>1. CodesOK'
  BY DEF CodesOK, handler
<1>2. Own(client.lines) => Own(client'.lines)
  BY DEF handler
<1>3. FailureShown'
  BY <1>2 DEF Shown, FailureShown, handler
<1>. QED
  BY <1>1, <1>2, <1>3 DEF Shown, handler

\* An answer of the worker's, with a code that shows its failure.
LEMMA AnswerCodes ==
    ASSUME CodesOK, UNCHANGED <<kind, n, worker, acc>>, hpc' = "idle",
           NEW code, code \in Codes \union {0}, NEW hs, NEW ls, Answer(client', code, hs, ls),
           ~ok /\ kind \notin {"named", "stream"} => code >= 400
    PROVE  CodesOK' /\ Shown'
<1>1. \/ client'.code = 200 /\ client'.lines = <<Line("file", "text")>>
      \/ client'.code = code
  BY DEF Answer
<1>2. CodesOK'
  BY <1>1 DEF CodesOK, Codes
<1>3. client'.end = "complete"
  BY DEF Answer
<1>4. FailureShown'
  BY <1>1, OwnLines DEF FailureShown, worker
<1>. QED
  BY <1>2, <1>3, <1>4 DEF Shown

LEMMA FailureCodes ==
    ASSUME CodesOK, UNCHANGED <<kind, n, worker, acc>>, hpc' \in {"idle", "left"},
           NEW code, code \in Codes, Failure(client', code)
    PROVE  CodesOK' /\ Shown'
<1>1. /\ client'.code = code /\ client'.end = "complete"
      /\ client'.lines = <<Line("server", "text")>>
  BY DEF Failure
<1>2. CodesOK'
  BY <1>1 DEF CodesOK
<1>3. Own(client'.lines)
  <2>1. (Line("server", "text"))' = Line("server", "text")
    BY DEF Line
  <2>. QED
    BY <1>1, <2>1, OwnLines
<1>4. FailureShown'
  BY <1>1, <1>3 DEF FailureShown
<1>. QED
  BY <1>1, <1>2, <1>3, <1>4 DEF Shown

LEMMA ReadNativeCodes ==
    ASSUME Core, FrameData, CodesOK, ReadNative
    PROVE  CodesOK' /\ Shown'
<1>1. /\ ~Framed /\ hpc = "read" /\ Frame.f # "None" /\ read_frame
      /\ hpc' \in {"idle", "left"} /\ (Frame.f = "Native" => hpc' = "idle")
      /\ UNCHANGED <<kind, n, worker, acc>>
  BY DEF ReadNative, Dropped
<1>2. PICK c \in Nat : Lined(c) /\ Phase(c)
  BY DEF HandlerOK, Core
<1>3. Reading(c)
  BY <1>1, <1>2, ReadingIs DEF Core
<1>4. CASE Frame.f = "Native"
  <2>. DEFINE code == IF kind = "named" THEN Frame.code ELSE Honoured(Frame.ok, Frame.code)
  <2>1. Answer(client', code, Frame.headers, Frame.lines)
    BY <1>4, AnsweredIs DEF ReadNative, DefaultAnswer, NamedAnswer
  <2>2. Frame.code \in Codes /\ (Frame.ok => ok)
    BY <1>3, <1>4, FrameCode DEF FrameOK
  <2>3. code \in Codes \union {0}
    BY <2>2, HonouredIs
  <2>4. ~ok /\ kind \notin {"named", "stream"} => code >= 400
    BY <2>2, HonouredIs
  <2>. HIDE DEF code
  <2>. QED
    BY <1>1, <1>4, <2>1, <2>3, <2>4, AnswerCodes
<1>5. CASE Frame.f # "Native"
  BY <1>1, <1>5, FailedIs, FailureCodes DEF ReadNative, Codes
<1>. QED
  BY <1>4, <1>5

LEMMA DecodeCodes ==
    ASSUME Core, FrameData, CodesOK, Shown, Decode
    PROVE  CodesOK' /\ Shown'
<1>1. /\ kind = "persistent" /\ hpc = "read" /\ Frame.f # "None" /\ read_frame
      /\ UNCHANGED <<kind, n, worker>>
  BY DEF Decode
<1>2. PICK c \in Nat : Lined(c) /\ Phase(c)
  BY DEF HandlerOK, Core
<1>3. Reading(c)
  BY <1>1, <1>2, ReadingIs DEF Core
<1>4. Decoding(c)
  BY <1>2, <1>3, DecodeDoes DEF Core
<1>5. CASE Failure(client', 502) /\ hpc' = "left" /\ UNCHANGED acc
  BY <1>1, <1>5, FailureCodes DEF Codes
<1>6. CASE /\ Frame.f = "End" /\ acc.got /\ hpc' = "idle" /\ UNCHANGED acc
           /\ Answer(client', Honoured(Frame.ok, acc.code), acc.headers, acc.lines)
  <2>. DEFINE code == Honoured(Frame.ok, acc.code)
  <2>1. acc.code \in Codes /\ (Frame.ok => ok)
    BY <1>3, <1>6, FrameCode DEF FrameOK, CodesOK
  <2>2. code \in Codes \union {0} /\ (~ok => code >= 400)
    BY <2>1, HonouredIs
  <2>3. Answer(client', code, acc.headers, acc.lines)
    BY <1>6
  <2>. HIDE DEF code
  <2>. QED
    BY <1>1, <1>6, <2>2, <2>3, AnswerCodes
<1>7. CASE /\ Frame.f = "Headers" /\ TopRead(acc', Frame) /\ UNCHANGED <<hpc, client>>
  <2>1. acc'.code \in Codes
    BY <1>3, <1>7, FrameCode DEF FrameOK, TopRead
  <2>. QED
    BY <1>1, <1>7, <2>1 DEF CodesOK, Shown, FailureShown, worker
<1>8. CASE /\ acc.got /\ BodyRead(acc', acc, Frame) /\ UNCHANGED <<hpc, client>>
  <2>1. acc'.code \in Codes
    BY <1>8 DEF CodesOK, BodyRead
  <2>. QED
    BY <1>1, <1>8, <2>1 DEF CodesOK, Shown, FailureShown, worker
<1>. QED
  BY <1>4, <1>5, <1>6, <1>7, <1>8 DEF Decoding

LEMMA ReadHeadCodes ==
    ASSUME Core, FrameData, CodesOK, Shown, ReadHead
    PROVE  CodesOK' /\ Shown'
<1>1. /\ hpc = "head" /\ Frame.f # "None" /\ read_frame /\ UNCHANGED <<kind, n, worker>>
  BY DEF ReadHead
<1>2. PICK c \in Nat : Lined(c) /\ Phase(c)
  BY DEF HandlerOK, Core
<1>3. Reading(c) /\ kind = "stream"
  BY <1>1, <1>2, ReadingIs DEF Core, Phase
<1>4. HeadReading
  BY <1>2, <1>3, ReadHeadDoes
<1>5. CASE Failure(client', 500) /\ hpc' = "idle" /\ UNCHANGED acc
  BY <1>1, <1>5, FailureCodes DEF Codes
<1>6. CASE Frame.f = "Headers" /\ TopRead(acc', Frame)
  <2>1. acc'.code \in Codes /\ Frame.code \in Codes
    BY <1>3, <1>6, FrameCode DEF FrameOK, TopRead
  <2>2. \/ client' = client /\ hpc' = "drain"
        \/ client'.end = "open" /\ client'.code = Frame.code /\ hpc' = "forward"
    BY <1>4, <1>6 DEF HeadReading
  <2>3. client.end # "complete"
    BY <1>1 DEF Shown
  <2>. QED
    BY <1>1, <1>3, <2>1, <2>2, <2>3 DEF CodesOK, Shown, FailureShown, worker
<1>. QED
  BY <1>4, <1>5, <1>6 DEF HeadReading

LEMMA DrainCodes ==
    ASSUME Core, FrameData, CodesOK, Shown, DrainBody
    PROVE  CodesOK' /\ Shown'
<1>1. /\ hpc = "drain" /\ Frame.f # "None" /\ read_frame /\ UNCHANGED <<kind, n, worker>>
  BY DEF DrainBody
<1>2. PICK c \in Nat : Lined(c) /\ Phase(c)
  BY DEF HandlerOK, Core
<1>3. Reading(c) /\ kind = "stream"
  BY <1>1, <1>2, ReadingIs DEF Core, Phase
<1>4. Draining
  BY <1>2, <1>3, DrainDoes DEF Core
<1>5. CASE Failure(client', 500) /\ hpc' = "idle" /\ UNCHANGED acc
  BY <1>1, <1>5, FailureCodes DEF Codes
<1>6. CASE Answer(client', acc.code, acc.headers, acc.lines) /\ hpc' = "idle" /\ UNCHANGED acc
  BY <1>1, <1>3, <1>6, AnswerCodes DEF CodesOK
<1>7. CASE BodyRead(acc', acc, Frame) /\ UNCHANGED <<hpc, client>>
  <2>1. acc'.code = acc.code /\ acc'.got = acc.got
    BY <1>7 DEF BodyRead
  <2>2. acc'.got => acc'.code \in Codes
    BY <2>1, Zenon DEF CodesOK
  <2>. QED
    BY <1>1, <1>7, <2>1, <2>2 DEF CodesOK, Shown, FailureShown, worker
<1>. QED
  BY <1>4, <1>5, <1>6, <1>7 DEF Draining

LEMMA ForwardCodes ==
    ASSUME Core, CodesOK, Shown, Forward
    PROVE  CodesOK' /\ Shown'
<1>1. /\ hpc \in {"forward", "discard"} /\ UNCHANGED <<kind, n, worker, acc, client>>
  BY DEF Forward, ForwardChunk, ForwardEnds, ForwardDiscards
<1>2. client.end # "complete"
  BY <1>1 DEF Shown
<1>. QED
  BY <1>1, <1>2 DEF CodesOK, Shown, FailureShown, worker

LEMMA ClientCodes ==
    ASSUME Core, CodesOK, Shown, ClientStep
    PROVE  CodesOK' /\ Shown'
<1>1. /\ client.end = "open" /\ kind = "stream" /\ UNCHANGED <<kind, n, worker, pipe, hpc, acc>>
  BY DEF ClientStep, ClientReads, ClientSeesEnd, ClientLeaves, Shown
<1>2. DOMAIN client = ClientFields
  BY DEF Core, HandlerTypes
<1>3. /\ client'.code = client.code /\ (client'.end = "complete" => hpc = "idle")
  BY <1>1, <1>2 DEF ClientFields, ClientStep, ClientReads, ClientSeesEnd, ClientLeaves
<1>. QED
  BY <1>1, <1>3 DEF CodesOK, Shown, FailureShown

\* The client of a buffered answer leaves, or is gone when it comes.
LEMMA GoneCodes ==
    ASSUME Core, CodesOK, Shown, ClientCancels \/ ReadUnclaimed
    PROVE  CodesOK' /\ Shown'
<1>1. CASE ClientCancels
  <2>1. client' = [client EXCEPT !.end = "gone"] /\ (acc' = acc \/ acc' = Nothing)
    BY <1>1 DEF ClientCancels
  <2>2. client'.end = "gone" /\ client'.code = client.code
    BY <2>1 DEF Core, HandlerTypes, ClientFields
  <2>3. CASE acc' = acc
    BY <2>2, <2>3 DEF CodesOK, Shown, FailureShown
  <2>4. CASE acc' = Nothing
    BY <2>2, <2>4 DEF CodesOK, Shown, FailureShown, Nothing
  <2>. QED
    BY <2>1, <2>3, <2>4
<1>2. CASE ReadUnclaimed
  BY <1>2 DEF ReadUnclaimed, CodesOK, Shown, FailureShown
<1>. QED
  BY <1>1, <1>2

LEMMA NextCodes ==
    ASSUME Core, FrameData, CodesOK, Shown, [Next]_vars, ~skewed'
    PROVE  CodesOK' /\ Shown'
<1>1. CASE \E r \in Requests(Format) : Send(r)
  <2>1. acc' = Nothing /\ client' = NoAnswer
    BY <1>1 DEF Send
  <2>2. /\ acc'.code = 0 /\ acc'.got = FALSE /\ client'.code = 0 /\ client'.end = "waiting"
    BY <2>1 DEF Nothing, NoAnswer
  <2>. QED
    BY <2>2 DEF CodesOK, Shown, FailureShown
<1>2. CASE WorkerStep \/ Crash
  <2>1. wpc \notin {"idle", "dead"} /\ UNCHANGED <<kind, n, handler>>
    BY <1>2, QuietIs DEF WorkerStep, Crash, Write, Core, WorkerOK
  <2>2. client.end = "complete" => Own(client.lines)
    BY <2>1 DEF Core, HandlerOK, Phase, Shown
  <2>. QED
    BY <2>1, <2>2, QuietCodes, SkewStays
<1>3. CASE HandlerStep
  <2>1. ~Misread /\ ~ReadLost
    BY DEF Misread, ReadLost, Core, HandlerOK, Phase
  <2>. QED
    BY <1>3, <2>1, ReadNativeCodes, GoneCodes, DecodeCodes, ReadHeadCodes, DrainCodes, ForwardCodes
       DEF HandlerStep
<1>4. CASE ClientStep \/ ClientCancels
  BY <1>4, ClientCodes, GoneCodes
<1>5. CASE UNCHANGED vars
  BY <1>5, QuietCodes, SkewStays DEF vars, handler
<1>. QED
  BY <1>1, <1>2, <1>3, <1>4, <1>5 DEF Next

LEMMA InitCodes ==
    ASSUME Init PROVE FrameData /\ CodesOK /\ Shown
<1>1. FrameData
  BY NoOutputIs, ChunkShapes DEF Init, FrameData
<1>2. /\ n = 0 /\ hpc = "idle" /\ acc.code = 0 /\ acc.got = FALSE /\ client.code = 0
      /\ client.end = "complete"
  BY DEF Init, Nothing, NoAnswer
<1>. QED
  BY <1>1, <1>2 DEF CodesOK, Shown, FailureShown

Settled == FrameData /\ CodesOK /\ Shown

LEMMA SettledHolds == Spec => [](skewed \/ (Core /\ Settled))
<1>1. Init => Core /\ Settled
  BY InitWorker, InitHandler, InitCodes DEF Core, Settled
<1>2. (skewed \/ (Core /\ Settled)) /\ [Next]_vars => (skewed \/ (Core /\ Settled))'
  BY NextCore, NextFrameData, NextCodes, SkewStays DEF Settled
<1>. QED
  BY <1>1, <1>2, PTL DEF Spec

\* A failed script is never reported as a success, except on the paths that
\* are known to drop the worker's flag: the frame, the accumulated code and
\* the flag agree at every point between the script's end and the answer.
THEOREM FailuresAreShown == Spec => []FailureShown
<1>1. skewed \/ (Core /\ Settled) => FailureShown
  BY DEF Settled, Shown, FailureShown
<1>. QED
  BY <1>1, SettledHolds, PTL

(***************************************************************************)
(* Types and bounds hold also when a reader has lost its place.            *)
(***************************************************************************)
FrameKind == {"Torn"} \union (IF Framed THEN {"Headers", "BodyChunk", "End"} ELSE {"Native"})
Piece(x) == x.f \in FrameKind /\ (x.f \in {"Headers", "Native"} => x.code \in Codes)

Traffic(s) == IsSeq(s) /\ Len(s) <= PipeCap /\ \A i \in 1 .. Len(s) : Piece(s[i])

AccOK    == DOMAIN acc = AccFields /\ acc.got \in BOOLEAN /\ acc.code \in Codes \union {0}
ClientOK == /\ DOMAIN client = ClientFields /\ client.code \in Codes \union {0}
            /\ client.end \in {"waiting", "open", "complete", "aborted", "gone"}
ChanOK   == IsSeq(chan) /\ Len(chan) <= ChanCap
PlaceOK  == /\ hpc \in {"idle", "read", "head", "drain", "forward", "discard", "left", "lost"}
            /\ hpc = "lost" => skewed

Loose == /\ WorkerTypes /\ WorkerOK /\ FramesOK(o.out, ok) /\ Traffic(pipe)
         /\ AccOK /\ ClientOK /\ ChanOK /\ PlaceOK

LEMMA TornPiece == Piece(Torn)
  BY FrameKinds DEF Piece, FrameKind

LEMMA TrafficTail ==
    ASSUME NEW s, Traffic(s), s # <<>>
    PROVE  Traffic(Tail(s)) /\ Piece(Head(s)) /\ Len(Tail(s)) < PipeCap
<1>1. Shifted(s, Tail(s)) /\ Len(s) > 0 /\ Head(s) = s[1] /\ Len(s) \in Nat
  BY SeqTail, SeqBasic DEF Traffic
<1>. DEFINE r == Tail(s)
<1>2. Shifted(s, r)
  BY <1>1
<1>. HIDE DEF r
<1>3. IsSeq(r) /\ Len(r) = Len(s) - 1 /\ Len(r) < PipeCap
  BY <1>1, <1>2, ExchangeAssumption DEF Shifted, Traffic
<1>4. ASSUME NEW i \in 1 .. Len(r) PROVE Piece(r[i])
  <2>1. r[i] = s[i + 1] /\ i + 1 \in 1 .. Len(s)
    BY <1>1, <1>2, <1>3 DEF Shifted
  <2>. QED
    BY <2>1 DEF Traffic
<1>5. Piece(s[1])
  BY <1>1 DEF Traffic
<1>6. Traffic(r)
  BY <1>1, <1>3, <1>4, ExchangeAssumption DEF Traffic
<1>. QED
  BY <1>1, <1>3, <1>5, <1>6 DEF r

LEMMA TrafficAdd ==
    ASSUME NEW s, Traffic(s), Len(s) < PipeCap, NEW x, Piece(x)
    PROVE  Traffic(Append(s, x))
<1>. DEFINE r == Append(s, x)
<1>1. Added(s, x, r) /\ Len(s) \in Nat
  BY SeqAppend, SeqBasic DEF Traffic
<1>. HIDE DEF r
<1>2. Len(r) <= PipeCap
  BY <1>1, ExchangeAssumption DEF Added
<1>3. ASSUME NEW i \in 1 .. Len(r) PROVE Piece(r[i])
  <2>1. CASE i = Len(s) + 1
    BY <1>1, <2>1 DEF Added
  <2>2. CASE i \in 1 .. Len(s)
    BY <1>1, <2>2 DEF Added, Traffic
  <2>. QED
    BY <1>1, <2>1, <2>2 DEF Added
<1>4. Traffic(r)
  BY <1>1, <1>2, <1>3 DEF Traffic, Added
<1>. QED
  BY <1>4 DEF r

LEMMA TrafficTorn ==
    ASSUME NEW s, Traffic(s), Len(s) < PipeCap
    PROVE  Traffic(<<Torn>> \o s)
<1>. DEFINE r == <<Torn>> \o s
            t == <<Torn>>
<1>1. IsSeq(t) /\ Len(t) = 1 /\ t[1] = Torn /\ Len(s) \in Nat /\ IsSeq(s)
  BY SeqSmall, SeqBasic DEF Traffic
<1>2. Joined(t, s, r)
  BY <1>1, SeqJoin
<1>. HIDE DEF r, t
<1>3. IsSeq(r) /\ Len(r) = 1 + Len(s) /\ Len(r) <= PipeCap
  BY <1>1, <1>2, ExchangeAssumption DEF Joined
<1>4. ASSUME NEW i \in 1 .. Len(r) PROVE Piece(r[i])
  <2>1. CASE i = 1
    BY <1>1, <1>2, <2>1, TornPiece DEF Joined
  <2>2. CASE i # 1
    <3>1. PICK j \in 1 .. Len(s) : i = 1 + j
      BY <1>1, <1>3, <2>2
    <3>2. r[i] = s[j]
      BY <1>1, <1>2, <3>1 DEF Joined
    <3>. QED
      BY <3>2 DEF Traffic
  <2>. QED
    BY <2>1, <2>2
<1>5. Traffic(r)
  BY <1>3, <1>4 DEF Traffic
<1>. QED
  BY <1>5 DEF r, t

\* Traffic does not depend on what a step changes.
LEMMA TrafficStays ==
    ASSUME Traffic(pipe'), kind' = kind PROVE Traffic(pipe)'
  BY DEF Traffic, Piece, FrameKind, Framed

LEMMA LooseRead ==
    ASSUME Loose, read_frame, kind' = kind PROVE Traffic(pipe)'
<1>1. pipe' = pipe \/ (pipe # <<>> /\ pipe' = Tail(pipe))
  BY DEF read_frame
<1>2. Traffic(pipe')
  BY <1>1, TrafficTail DEF Loose
<1>. QED
  BY <1>2, TrafficStays

LEMMA LooseFrame ==
    ASSUME Loose, Frame.f \in {"Headers", "Native"} PROVE Frame.code \in Codes
<1>1. pipe # <<>> /\ Frame = Head(pipe)
  BY DEF Frame
<1>2. Piece(Frame)
  BY <1>1, TrafficTail DEF Loose
<1>. QED
  BY <1>2 DEF Piece

LEMMA LooseAnswered ==
    ASSUME NEW code, code \in Codes \union {0}, NEW hs, NEW ls, Answered(code, hs, ls)
    PROVE  ClientOK'
<1>1. Answer(client', code, hs, ls)
  BY AnsweredIs
<1>2. DOMAIN client' = ClientFields /\ client'.end = "complete" /\ client'.code \in Codes \union {0}
  BY <1>1 DEF Answer, Codes
<1>. QED
  BY <1>2 DEF ClientOK

LEMMA LooseFailed ==
    ASSUME NEW code \in Codes, Failed(code) PROVE ClientOK'
<1>1. Failure(client', code)
  BY FailedIs
<1>. QED
  BY <1>1 DEF Failure, ClientOK

LEMMA LooseGone ==
    ASSUME Loose, NEW code \in Codes, FailedUnlessGone(code) PROVE ClientOK'
<1>1. CASE client' = client
  BY <1>1 DEF Loose, ClientOK
<1>2. CASE Failed(code)
  BY <1>2, LooseFailed
<1>. QED
  BY <1>1, <1>2 DEF FailedUnlessGone

LEMMA LooseHandler ==
    ASSUME Loose, HandlerStep
    PROVE  /\ UNCHANGED <<kind, n, worker>>
           /\ Traffic(pipe)' /\ AccOK' /\ ClientOK' /\ ChanOK' /\ PlaceOK'
<1>0. /\ AccOK /\ ClientOK /\ ChanOK /\ PlaceOK
      /\ \A c \in {200, 500, 502} : c \in Codes
  BY DEF Loose, Codes
<1>1. CASE ReadNative
  <2>1. /\ read_frame /\ UNCHANGED <<kind, n, worker, acc, chan, skewed>>
        /\ hpc' \in {"idle", "left"}
    BY <1>1 DEF ReadNative, Dropped
  <2>2. ClientOK'
    <3>1. CASE Frame.f = "Native"
      <4>. DEFINE code == IF kind = "named" THEN Frame.code ELSE Honoured(Frame.ok, Frame.code)
      <4>1. Answered(code, Frame.headers, Frame.lines)
        BY <1>1, <3>1 DEF ReadNative, DefaultAnswer, NamedAnswer
      <4>2. Frame.code \in Codes
        BY <3>1, LooseFrame
      <4>3. code \in Codes \union {0}
        BY <4>2, HonouredIs
      <4>. HIDE DEF code
      <4>. QED
        BY <4>1, <4>3, LooseAnswered
    <3>2. CASE Frame.f # "Native"
      BY <1>0, <1>1, <3>2, LooseFailed DEF ReadNative
    <3>. QED
      BY <3>1, <3>2
  <2>3. AccOK' /\ ChanOK' /\ PlaceOK'
    BY <1>0, <2>1 DEF AccOK, ChanOK, PlaceOK
  <2>. QED
    BY <2>1, <2>2, <2>3, LooseRead
<1>2. CASE ReadUnclaimed
  <2>1. /\ read_frame /\ UNCHANGED <<kind, n, worker, acc, chan, client, skewed>> /\ hpc' = "idle"
    BY <1>2 DEF ReadUnclaimed
  <2>2. AccOK' /\ ChanOK' /\ PlaceOK' /\ ClientOK'
    BY <1>0, <2>1 DEF AccOK, ChanOK, PlaceOK, ClientOK
  <2>. QED
    BY <2>1, <2>2, LooseRead
<1>3. CASE Decode
  <2>1. /\ read_frame /\ UNCHANGED <<kind, n, worker, chan, skewed>> /\ hpc = "read"
        /\ hpc' \in {"idle", "left", "read"}
    BY <1>3 DEF Decode, Dropped
  <2>2. AccOK' /\ ClientOK'
    <3>1. CASE /\ Frame.f = "Headers" /\ UNCHANGED client
               /\ acc' = [acc EXCEPT !.got = TRUE, !.code = Frame.code, !.headers = Frame.headers]
      <4>1. Frame.code \in Codes
        BY <3>1, LooseFrame
      <4>2. DOMAIN acc' = AccFields /\ acc'.got = TRUE /\ acc'.code = Frame.code
        BY <1>0, <3>1 DEF AccOK, AccFields
      <4>. QED
        BY <1>0, <3>1, <4>1, <4>2 DEF AccOK, ClientOK
    <3>2. CASE UNCHANGED client /\ acc' = [acc EXCEPT !.lines = @ \o Frame.lines]
      <4>1. DOMAIN acc' = AccFields /\ acc'.got = acc.got /\ acc'.code = acc.code
        BY <1>0, <3>2 DEF AccOK, AccFields
      <4>2. acc'.got \in BOOLEAN
        BY <1>0, <4>1, Zenon DEF AccOK
      <4>. QED
        BY <1>0, <3>2, <4>1, <4>2 DEF AccOK, ClientOK
    <3>3. CASE Answered(Honoured(Frame.ok, acc.code), acc.headers, acc.lines) /\ UNCHANGED acc
      <4>1. Honoured(Frame.ok, acc.code) \in Codes \union {0}
        BY <1>0, HonouredIs DEF AccOK
      <4>. QED
        BY <1>0, <3>3, <4>1, LooseAnswered DEF AccOK
    <3>4. CASE Failed(502) /\ UNCHANGED acc
      BY <1>0, <3>4, LooseFailed DEF AccOK
    <3>. QED
      BY <1>3, <3>1, <3>2, <3>3, <3>4 DEF Decode, CollectedAnswer
  <2>3. ChanOK' /\ PlaceOK'
    BY <1>0, <2>1 DEF ChanOK, PlaceOK
  <2>. QED
    BY <2>1, <2>2, <2>3, LooseRead
<1>4. CASE ReadHead
  <2>1. /\ read_frame /\ UNCHANGED <<kind, n, worker, chan, skewed>>
        /\ hpc' \in {"idle", "forward", "drain"}
    BY <1>4 DEF ReadHead
  <2>2. AccOK' /\ ClientOK'
    <3>1. CASE Frame.f # "Headers"
      BY <1>0, <1>4, <3>1, LooseFailed DEF ReadHead, AccOK
    <3>2. CASE Frame.f = "Headers"
      <4>1. Frame.code \in Codes
        BY <3>2, LooseFrame
      <4>2. acc' = [got |-> TRUE, code |-> Frame.code, headers |-> Frame.headers, lines |-> <<>>]
        BY <1>4, <3>2 DEF ReadHead
      <4>3. AccOK'
        BY <4>1, <4>2 DEF AccOK, AccFields
      <4>4. \/ client' = client
            \/ client' = [code |-> Frame.code, headers |-> Frame.headers, lines |-> <<>>, end |-> "open"]
        BY <1>4, <3>2 DEF ReadHead, Streaming
      <4>5. ClientOK'
        BY <1>0, <4>1, <4>4 DEF ClientOK, ClientFields
      <4>. QED
        BY <4>3, <4>5
    <3>. QED
      BY <3>1, <3>2
  <2>3. ChanOK' /\ PlaceOK'
    BY <1>0, <2>1 DEF ChanOK, PlaceOK
  <2>. QED
    BY <2>1, <2>2, <2>3, LooseRead
<1>5. CASE DrainBody
  <2>1. /\ read_frame /\ UNCHANGED <<kind, n, worker, chan, skewed>> /\ hpc = "drain"
        /\ hpc' \in {"idle", "drain"}
    BY <1>5 DEF DrainBody
  <2>2. AccOK' /\ ClientOK'
    <3>1. CASE UNCHANGED client /\ acc' = [acc EXCEPT !.lines = @ \o Frame.lines]
      <4>1. DOMAIN acc' = AccFields /\ acc'.got = acc.got /\ acc'.code = acc.code
        BY <1>0, <3>1 DEF AccOK, AccFields
      <4>2. acc'.got \in BOOLEAN
        BY <1>0, <4>1, Zenon DEF AccOK
      <4>. QED
        BY <1>0, <3>1, <4>1, <4>2 DEF AccOK, ClientOK
    <3>2. CASE Answered(acc.code, acc.headers, acc.lines) /\ UNCHANGED acc
      BY <1>0, <3>2, LooseAnswered DEF AccOK
    <3>3. CASE Failed(500) /\ UNCHANGED acc
      BY <1>0, <3>3, LooseFailed DEF AccOK
    <3>. QED
      BY <1>5, <3>1, <3>2, <3>3 DEF DrainBody
  <2>3. ChanOK' /\ PlaceOK'
    BY <1>0, <2>1 DEF ChanOK, PlaceOK
  <2>. QED
    BY <2>1, <2>2, <2>3, LooseRead
<1>6. CASE Forward
  <2>1. /\ read_frame /\ UNCHANGED <<kind, n, worker, acc, client, skewed>>
        /\ hpc' \in {"idle", "forward", "discard"}
    BY <1>6 DEF Forward, ForwardChunk, ForwardEnds, ForwardDiscards, Released
  <2>2. ChanOK'
    BY <1>0, <1>6, ChanGrows DEF ChanOK, Forward, ForwardChunk, ForwardEnds, ForwardDiscards
  <2>3. AccOK' /\ ClientOK' /\ PlaceOK'
    BY <1>0, <2>1 DEF AccOK, ClientOK, PlaceOK
  <2>. QED
    BY <2>1, <2>2, <2>3, LooseRead
<1>7. CASE Misread
  <2>1. /\ UNCHANGED <<kind, n, worker, acc, chan>> /\ hpc' \in {"idle", "left", "lost"} /\ skewed'
        /\ pipe # <<>> /\ pipe' \in {Tail(pipe), <<Torn>> \o Tail(pipe)}
    BY <1>7 DEF Misread, Garbled, Dropped, read_frame
  <2>2. Traffic(pipe)'
    <3>1. Traffic(pipe')
      BY <2>1, TrafficTail, TrafficTorn DEF Loose
    <3>. QED
      BY <2>1, <3>1, TrafficStays
  <2>3. ClientOK'
    <3>1. client' = client \/ FailedUnlessGone(200) \/ FailedUnlessGone(502)
      BY <1>7 DEF Misread
    <3>2. CASE client' = client
      BY <1>0, <3>2 DEF ClientOK
    <3>. QED
      BY <1>0, <3>1, <3>2, LooseGone
  <2>4. AccOK' /\ ChanOK' /\ PlaceOK'
    BY <1>0, <2>1 DEF AccOK, ChanOK, PlaceOK
  <2>. QED
    BY <2>1, <2>2, <2>3, <2>4
<1>8. CASE ReadLost
  <2>1. /\ read_frame /\ UNCHANGED <<kind, n, worker, acc, chan, skewed>>
        /\ hpc' \in {"idle", "left"} \/ hpc' = hpc
        /\ client' = client \/ FailedUnlessGone(502)
    BY <1>8 DEF ReadLost, Dropped
  <2>2. ClientOK'
    <3>1. CASE client' = client
      BY <1>0, <3>1 DEF ClientOK
    <3>. QED
      BY <1>0, <2>1, <3>1, LooseGone
  <2>3. AccOK' /\ ChanOK' /\ PlaceOK'
    BY <1>0, <2>1 DEF AccOK, ChanOK, PlaceOK
  <2>. QED
    BY <2>1, <2>2, <2>3, LooseRead
<1>. QED
  BY <1>1, <1>2, <1>3, <1>4, <1>5, <1>6, <1>7, <1>8 DEF HandlerStep

LEMMA LooseClient ==
    ASSUME Loose, ClientStep \/ ClientCancels
    PROVE  /\ UNCHANGED <<kind, n, worker, pipe>>
           /\ AccOK' /\ ClientOK' /\ ChanOK' /\ PlaceOK'
<1>0. AccOK /\ ClientOK /\ ChanOK /\ PlaceOK
  BY DEF Loose
<1>1. /\ UNCHANGED <<kind, n, worker, pipe>> /\ (acc' = acc \/ acc' = Nothing)
      /\ hpc' = hpc \/ hpc' \in {"idle", "left"}
      /\ skewed => skewed'
      /\ \/ client' = [client EXCEPT !.lines = @ \o Head(chan)]
         \/ \E e \in {"aborted", "complete", "gone"} : client' = [client EXCEPT !.end = e]
      /\ chan' = chan \/ (chan # <<>> /\ chan' = Tail(chan))
  <2>1. CASE ClientStep
    <3>1. skewed => skewed'
      BY <2>1, Zenon DEF ClientStep, ClientReads, ClientSeesEnd, ClientLeaves
    <3>2. /\ \/ client' = [client EXCEPT !.lines = @ \o Head(chan)]
             \/ \E e \in {"aborted", "complete", "gone"} : client' = [client EXCEPT !.end = e]
          /\ chan' = chan \/ (chan # <<>> /\ chan' = Tail(chan))
          /\ UNCHANGED <<kind, n, worker, pipe, hpc, acc>>
      BY <2>1 DEF ClientStep, ClientReads, ClientSeesEnd, ClientLeaves
    <3>. QED
      BY <3>1, <3>2, Zenon
  <2>2. CASE ClientCancels
    <3>1. acc' = acc \/ acc' = Nothing
      BY <2>2 DEF ClientCancels
    <3>2. hpc' = hpc \/ hpc' \in {"idle", "left"}
      BY <2>2 DEF ClientCancels
    <3>3. skewed => skewed'
      BY <2>2, Zenon DEF ClientCancels
    <3>. QED
      BY <2>2, <3>1, <3>2, <3>3 DEF ClientCancels
  <2>. QED
    BY <2>1, <2>2
<1>2. AccOK'
  <2>1. CASE acc' = acc
    BY <1>0, <2>1 DEF AccOK
  <2>2. CASE acc' = Nothing
    <3>1. DOMAIN acc' = AccFields /\ acc'.got = FALSE /\ acc'.code = 0
      BY <2>2 DEF AccFields, Nothing
    <3>. QED
      BY <3>1 DEF AccOK
  <2>. QED
    BY <1>1, <2>1, <2>2
<1>3. ClientOK'
  BY <1>0, <1>1 DEF ClientOK, ClientFields
<1>4. ChanOK'
  <2>1. CASE chan' = chan
    BY <1>0, <2>1 DEF ChanOK
  <2>2. CASE chan # <<>> /\ chan' = Tail(chan)
    <3>1. Shifted(chan, chan') /\ Len(chan) \in Nat
      BY <1>0, <2>2, SeqTail, SeqBasic DEF ChanOK
    <3>. QED
      BY <1>0, <3>1, ExchangeAssumption DEF Shifted, ChanOK
  <2>. QED
    BY <1>1, <2>1, <2>2
<1>5. PlaceOK'
  BY <1>0, <1>1 DEF PlaceOK
<1>. QED
  BY <1>1, <1>2, <1>3, <1>4, <1>5

\* What waits to be written, over the steps of the worker.
LEMMA LooseOut ==
    ASSUME WorkerTypes, WorkerOK, FramesOK(o.out, ok), WorkerStep \/ Crash
    PROVE  FramesOK(o'.out, ok')
<1>1. CASE Take
  BY <1>1, TakeWorker
<1>2. CASE Script
  <2>1. ok' = ok
    BY <1>2 DEF Script, SetHeader, SetCode, Echo, ObFlush, Flush, Call
  <2>. QED
    BY <1>2, <2>1, CallsWorker
<1>3. CASE ScriptEnds
  <2>1. o'.out = <<>>
    BY <1>3 DEF ScriptEnds
  <2>. QED
    BY <2>1, ChunkShapes
<1>4. CASE RunCleanup
  BY <1>4 DEF RunCleanup
<1>5. CASE Finish
  <2>1. ok' = ok
    BY <1>5 DEF Finish
  <2>. QED
    BY <1>5, <2>1, FinishWorker
<1>6. CASE Write
  <2>1. o.out # <<>> /\ o' = [o EXCEPT !.out = Tail(@)] /\ ok' = ok
    BY <1>6 DEF Write
  <2>2. o'.out = Tail(o.out) /\ IsSeq(o.out)
    BY <2>1 DEF WorkerTypes, IsOutput, Fields
  <2>. QED
    BY <2>1, <2>2, FramesTail
<1>7. CASE Crash
  <2>1. o'.out = <<>>
    BY <1>7, NoOutputIs DEF Crash
  <2>. QED
    BY <2>1, ChunkShapes
<1>. QED
  BY <1>1, <1>2, <1>3, <1>4, <1>5, <1>6, <1>7 DEF WorkerStep

\* The next frame to be written is of the worker's protocol.
LEMMA NextKind ==
    ASSUME WorkerTypes, WorkerOK, o.out # <<>>
    PROVE  /\ Framed => Head(o.out).f \in {"Headers", "BodyChunk", "End"}
           /\ ~Framed => Head(o.out).f = "Native"
<1>1. Len(o.out) > 0 /\ Head(o.out) = o.out[1] /\ Len(o.out) \in Nat
  BY SeqTail, SeqBasic DEF WorkerTypes, IsOutput
<1>2. CASE Framed
  <2>1. Opened(o.out) \/ Chunks(o.out) \/ Whole(o.out) \/ Ending(o.out)
    BY <1>2 DEF WorkerOK, WorkerTypes, Running
  <2>2. o.out[1].f \in {"Headers", "BodyChunk", "End"}
    BY <1>1, <2>1 DEF Opened, Chunks, Whole, Ending
  <2>. QED
    BY <1>1, <1>2, <2>2
<1>3. CASE ~Framed
  <2>1. ~o.engaged
    BY <1>3 DEF WorkerOK, WorkerTypes, IsOutput
  <2>2. wpc = "write"
    BY <2>1, Zenon DEF WorkerOK, WorkerTypes, Running
  <2>. QED
    BY <1>1, <1>3, <2>2 DEF WorkerOK
<1>. QED
  BY <1>2, <1>3

\* What a worker writes is of its protocol.
LEMMA LoosePipe ==
    ASSUME Loose, WorkerTypes', WorkerOK', WorkerStep \/ Crash
    PROVE  Traffic(pipe)'
<1>0. Traffic(pipe) /\ kind' = kind
  BY QuietIs DEF Loose, WorkerStep, Write, Crash
<1>1. CASE Take \/ Script \/ ScriptEnds \/ RunCleanup \/ Finish
  <2>1. pipe' = pipe
    BY <1>1, QuietIs
  <2>. QED
    BY <1>0, <2>1, TrafficStays
<1>2. CASE Write
  <2>. DEFINE x == Head(o.out)
  <2>1. /\ o.out # <<>> /\ Len(pipe) < PipeCap /\ pipe' = Append(pipe, x)
    BY <1>2 DEF Write
  <2>2. FrameOK(x, ok)
    BY <2>1, FramesTail DEF Loose, WorkerTypes, IsOutput
  <2>5. /\ Framed => x.f \in {"Headers", "BodyChunk", "End"}
        /\ ~Framed => x.f = "Native"
    BY <2>1, NextKind DEF Loose
  <2>6. Piece(x)
    BY <1>0, <2>2, <2>5 DEF Piece, FrameKind, FrameOK, Framed
  <2>7. Traffic(pipe')
    BY <1>0, <2>1, <2>6, TrafficAdd
  <2>. QED
    BY <1>0, <2>7, TrafficStays
<1>3. CASE Crash
  <2>1. pipe' = pipe \/ (Len(pipe) < PipeCap /\ pipe' = Append(pipe, Torn))
    BY <1>3 DEF Crash
  <2>2. Traffic(pipe')
    BY <1>0, <2>1, TrafficAdd, TornPiece
  <2>. QED
    BY <1>0, <2>2, TrafficStays
<1>. QED
  BY <1>1, <1>2, <1>3 DEF WorkerStep

LEMMA NextLoose ==
    ASSUME Loose, [Next]_vars PROVE Loose'
<1>0. WorkerTypes' /\ WorkerOK'
  BY NextWorker DEF Loose
<1>1. CASE \E r \in Requests(Format) : Send(r)
  <2>1. /\ UNCHANGED <<kind, ok, o, pipe, skewed>> /\ hpc' \in {"head", "read"}
        /\ acc' = Nothing /\ chan' = <<>> /\ client' = NoAnswer
    BY <1>1 DEF Send
  <2>2. AccOK' /\ ClientOK' /\ ChanOK' /\ PlaceOK'
    BY <2>1, SeqSmall, ExchangeAssumption
       DEF AccOK, ClientOK, ChanOK, PlaceOK, Nothing, NoAnswer, AccFields, ClientFields
  <2>3. Traffic(pipe)' /\ FramesOK(o.out, ok)'
    BY <2>1, TrafficStays DEF Loose
  <2>. QED
    BY <1>0, <2>2, <2>3 DEF Loose
<1>2. CASE WorkerStep \/ Crash
  <2>1. UNCHANGED <<handler, skewed>>
    <3>1. UNCHANGED handler
      BY <1>2, QuietIs DEF WorkerStep, Write, Crash
    <3>2. UNCHANGED skewed
      BY <1>2 DEF WorkerStep, Take, Script, SetHeader, SetCode, Echo, ObFlush, Flush, Call,
                  ScriptEnds, RunCleanup, Finish, Write, Crash
    <3>. QED
      BY <3>1, <3>2
  <2>2. AccOK' /\ ClientOK' /\ ChanOK' /\ PlaceOK'
    BY <2>1 DEF Loose, AccOK, ClientOK, ChanOK, PlaceOK, handler
  <2>3. FramesOK(o'.out, ok') /\ Traffic(pipe)'
    BY <1>0, <1>2, LooseOut, LoosePipe DEF Loose
  <2>. QED
    BY <1>0, <2>2, <2>3 DEF Loose
<1>3. CASE HandlerStep
  <2>1. /\ UNCHANGED <<kind, n, worker>>
        /\ Traffic(pipe)' /\ AccOK' /\ ClientOK' /\ ChanOK' /\ PlaceOK'
    BY <1>3, LooseHandler
  <2>2. FramesOK(o.out, ok)'
    BY <2>1 DEF Loose, worker
  <2>. QED
    BY <1>0, <2>1, <2>2 DEF Loose
<1>4. CASE ClientStep \/ ClientCancels
  <2>1. /\ UNCHANGED <<kind, n, worker, pipe>> /\ AccOK' /\ ClientOK' /\ ChanOK' /\ PlaceOK'
    BY <1>4, LooseClient
  <2>2. FramesOK(o.out, ok)' /\ Traffic(pipe)'
    BY <2>1, TrafficStays DEF Loose, worker
  <2>. QED
    BY <1>0, <2>1, <2>2 DEF Loose
<1>5. CASE UNCHANGED vars
  <2>1. UNCHANGED <<kind, ok, o, pipe, hpc, acc, chan, client, skewed>>
    BY <1>5 DEF vars
  <2>2. FramesOK(o.out, ok)' /\ Traffic(pipe)'
    BY <2>1, TrafficStays DEF Loose
  <2>3. AccOK' /\ ClientOK' /\ ChanOK' /\ PlaceOK'
    BY <2>1 DEF Loose, AccOK, ClientOK, ChanOK, PlaceOK
  <2>. QED
    BY <1>0, <2>2, <2>3 DEF Loose
<1>. QED
  BY <1>1, <1>2, <1>3, <1>4, <1>5 DEF Next

LEMMA InitLoose ==
    ASSUME Init PROVE Loose
<1>1. WorkerTypes /\ WorkerOK /\ FrameData
  BY InitWorker, InitCodes
<1>2. pipe = <<>> /\ chan = <<>> /\ acc = Nothing /\ hpc = "idle"
      /\ client = [NoAnswer EXCEPT !.end = "complete"]
  BY DEF Init
<1>3. Traffic(pipe) /\ ChanOK
  BY <1>2, SeqSmall, ExchangeAssumption DEF Traffic, ChanOK
<1>4. AccOK /\ ClientOK /\ PlaceOK
  BY <1>2 DEF AccOK, ClientOK, PlaceOK, Nothing, NoAnswer, AccFields, ClientFields
<1>. QED
  BY <1>1, <1>3, <1>4 DEF Loose, FrameData

\* The types and the bounds of the pipe and of the body channel, and that no
\* frame of another protocol is on a worker's pipe, also once a reader has
\* lost its place.
THEOREM ExchangeTypes == Spec => []TypeOK
<1>1. Loose => TypeOK
  <2>. SUFFICES ASSUME Loose PROVE TypeOK
    OBVIOUS
  <2>1. /\ kind \in Kinds /\ n \in 0 .. MaxRequests
        /\ wpc \in {"idle", "asked", "script", "cleanup", "finish", "write", "dead"}
        /\ ok \in BOOLEAN /\ steps \in 0 .. MaxSteps /\ (o.engaged => o.armed)
    BY DEF Loose, WorkerTypes, Running, IsOutput
  <2>2. /\ hpc \in {"idle", "read", "head", "drain", "forward", "discard", "left", "lost"}
        /\ hpc = "lost" => skewed
        /\ Len(chan) <= ChanCap /\ client.code \in Codes \union {0}
        /\ client.end \in {"waiting", "open", "complete", "aborted", "gone"}
    BY DEF Loose, PlaceOK, ChanOK, ClientOK
  <2>3. /\ Len(pipe) <= PipeCap
        /\ \A i \in DOMAIN pipe : pipe[i].f \in
               {"Torn"} \union (IF Framed THEN {"Headers", "BodyChunk", "End"} ELSE {"Native"})
    <3>1. DOMAIN pipe = 1 .. Len(pipe)
      BY SeqBasic DEF Loose, Traffic
    <3>. QED
      BY <3>1 DEF Loose, Traffic, Piece, FrameKind
  <2>. QED
    BY <2>1, <2>2, <2>3 DEF TypeOK
<1>. QED
  BY <1>1, InitLoose, NextLoose, PTL DEF Spec

----------------------------------------------------------------------------
(***************************************************************************)
(* Where the lines of a response are                                       *)
(***************************************************************************)
\* x is the part of src after its first a elements, up to the b-th.
Slice(x, src, a, b) ==
    /\ IsSeq(x) /\ a \in Nat /\ b \in Nat /\ a <= b /\ b <= Len(src) /\ Len(x) = b - a
    /\ \A i \in 1 .. b - a : x[i] = src[a + i]

\* The m sequences of L are that part, one after the other.
Pieces(L, m, src, a, b) ==
    /\ a \in Nat /\ b \in Nat /\ a <= b /\ b <= Len(src) /\ m \in Nat
    /\ \E cut \in [Nat -> Nat] :
          /\ cut[0] = a /\ cut[m] = b
          /\ \A i, j \in 0 .. m : i <= j => cut[i] <= cut[j]
          /\ \A i \in 1 .. m : Slice(L[i], src, cut[i - 1], cut[i])

LEMMA SliceEmpty ==
    ASSUME NEW src, IsSeq(src), NEW a \in Nat, a <= Len(src)
    PROVE  Slice(<<>>, src, a, a)
  BY SeqSmall DEF Slice

LEMMA EmptySlice ==
    ASSUME NEW src, NEW a, NEW b, Slice(<<>>, src, a, b)
    PROVE  a = b
  BY SeqSmall DEF Slice

LEMMA SliceJoin ==
    ASSUME NEW src, IsSeq(src), NEW a, NEW b, NEW c, NEW x, NEW y, NEW r, r = x \o y,
           Slice(x, src, a, b), Slice(y, src, b, c)
    PROVE  Slice(r, src, a, c)
<1>1. Joined(x, y, r)
  BY SeqJoin DEF Slice
<1>2. /\ a \in Nat /\ b \in Nat /\ c \in Nat /\ a <= b /\ b <= c /\ c <= Len(src)
      /\ Len(x) = b - a /\ Len(y) = c - b /\ Len(src) \in Nat
  BY SeqBasic DEF Slice
<1>3. IsSeq(r) /\ Len(r) = c - a
  BY <1>1, <1>2 DEF Joined
<1>4. ASSUME NEW i \in 1 .. c - a PROVE r[i] = src[a + i]
  <2>1. CASE i <= b - a
    <3>1. i \in 1 .. Len(x) /\ i \in 1 .. b - a
      BY <1>2, <2>1
    <3>2. r[i] = x[i] /\ x[i] = src[a + i]
      BY <1>1, <3>1 DEF Joined, Slice
    <3>. QED
      BY <3>2
  <2>2. CASE i > b - a
    <3>. DEFINE k == i - (b - a)
    <3>1. k \in 1 .. Len(y) /\ k \in 1 .. c - b /\ Len(x) + k = i /\ b + k = a + i
      BY <1>2, <2>2
    <3>2. r[Len(x) + k] = y[k] /\ y[k] = src[b + k]
      <4>. HIDE DEF k
      <4>. QED
        BY <1>1, <3>1 DEF Joined, Slice
    <3>. QED
      BY <3>1, <3>2
  <2>. QED
    BY <1>2, <2>1, <2>2, SMTT(30)
<1>5. a <= c
  BY <1>2
<1>. QED
  BY <1>2, <1>3, <1>4, <1>5 DEF Slice

\* All of src is src.
LEMMA SliceWhole ==
    ASSUME NEW src, IsSeq(src), NEW x, Slice(x, src, 0, Len(src))
    PROVE  x = src
<1>. DEFINE S == {x[i] : i \in DOMAIN x} \union {src[i] : i \in DOMAIN src}
<1>1. x \in Seq(S) /\ src \in Seq(S)
  BY SeqMonotonic DEF IsSeq, Slice
<1>. HIDE DEF S
<1>2. Len(src) \in Nat /\ Len(x) = Len(src) /\ \A i \in 1 .. Len(src) : x[i] = src[i]
  BY SeqBasic DEF Slice
<1>. QED
  BY <1>1, <1>2, SeqEqual

\* src_ begins with src.
Longer(src, src_) ==
    /\ IsSeq(src) /\ IsSeq(src_) /\ Len(src) <= Len(src_)
    /\ \A i \in 1 .. Len(src) : src_[i] = src[i]

LEMMA SliceLonger ==
    ASSUME NEW src, NEW src_, Longer(src, src_), NEW x, NEW a, NEW b, Slice(x, src, a, b)
    PROVE  Slice(x, src_, a, b)
<1>1. Len(src) \in Nat /\ Len(src_) \in Nat
  BY SeqBasic DEF Longer
<1>2. /\ a \in Nat /\ b \in Nat /\ a <= b /\ b <= Len(src) /\ Len(src) <= Len(src_)
  BY DEF Slice, Longer
<1>3. ASSUME NEW i \in 1 .. b - a PROVE x[i] = src_[a + i]
  <2>1. a + i \in 1 .. Len(src)
    BY <1>1, <1>2
  <2>. QED
    BY <2>1 DEF Slice, Longer
<1>4. b <= Len(src_)
  BY <1>1, <1>2
<1>. QED
  BY <1>3, <1>4 DEF Slice

LEMMA PiecesLonger ==
    ASSUME NEW src, NEW src_, Longer(src, src_), NEW L, NEW m, NEW a, NEW b,
           Pieces(L, m, src, a, b)
    PROVE  Pieces(L, m, src_, a, b)
<1>1. PICK cut \in [Nat -> Nat] :
          /\ cut[0] = a /\ cut[m] = b
          /\ \A i, j \in 0 .. m : i <= j => cut[i] <= cut[j]
          /\ \A i \in 1 .. m : Slice(L[i], src, cut[i - 1], cut[i])
  BY DEF Pieces
<1>2. \A i \in 1 .. m : Slice(L[i], src_, cut[i - 1], cut[i])
  BY <1>1, SliceLonger
<1>3. Len(src) \in Nat /\ Len(src_) \in Nat
  BY SeqBasic DEF Longer
<1>4. a \in Nat /\ b \in Nat /\ a <= b /\ b <= Len(src_) /\ m \in Nat
  BY <1>3 DEF Pieces, Longer
<1>. QED
  BY <1>1, <1>2, <1>4 DEF Pieces

LEMMA PiecesNone ==
    ASSUME NEW src, NEW a, NEW b
    PROVE  /\ \A L : Pieces(L, 0, src, a, b) => a = b
           /\ a \in Nat /\ a <= Len(src) => \A L : Pieces(L, 0, src, a, a)
<1>1. ASSUME NEW L, Pieces(L, 0, src, a, b) PROVE a = b
  BY <1>1 DEF Pieces
<1>2. ASSUME NEW L, a \in Nat, a <= Len(src) PROVE Pieces(L, 0, src, a, a)
  <2>. DEFINE cut == [i \in Nat |-> a]
  <2>1. cut \in [Nat -> Nat] /\ \A i \in Nat : cut[i] = a
    BY <1>2
  <2>. HIDE DEF cut
  <2>2. cut[0] = a /\ \A i, j \in 0 .. 0 : i <= j => cut[i] <= cut[j]
    BY <1>2, <2>1
  <2>3. \A i \in 1 .. 0 : Slice(L[i], src, cut[i - 1], cut[i])
    OBVIOUS
  <2>. QED
    BY <1>2, <2>1, <2>2, <2>3 DEF Pieces
<1>. QED
  BY <1>1, <1>2

LEMMA PiecesOne ==
    ASSUME NEW src, NEW a, NEW b, NEW L, Slice(L[1], src, a, b)
    PROVE  Pieces(L, 1, src, a, b)
<1>. DEFINE cut == [i \in Nat |-> IF i = 0 THEN a ELSE b]
<1>1. a \in Nat /\ b \in Nat /\ a <= b /\ b <= Len(src)
  BY DEF Slice
<1>2. cut \in [Nat -> Nat] /\ cut[0] = a /\ cut[1] = b
  BY <1>1
<1>. HIDE DEF cut
<1>3. ASSUME NEW i \in 0 .. 1, NEW j \in 0 .. 1, i <= j
      PROVE  cut[i] <= cut[j]
  <2>1. (i = 0 /\ j = 0) \/ (i = 0 /\ j = 1) \/ (i = 1 /\ j = 1)
    BY <1>3
  <2>2. a <= a /\ b <= b
    BY <1>1
  <2>3. CASE i = 0 /\ j = 0
    BY <1>2, <2>2, <2>3
  <2>4. CASE i = 0 /\ j = 1
    BY <1>1, <1>2, <2>4
  <2>5. CASE i = 1 /\ j = 1
    BY <1>2, <2>2, <2>5
  <2>. QED
    BY <2>1, <2>3, <2>4, <2>5
<1>4. \A i \in 1 .. 1 : Slice(L[i], src, cut[i - 1], cut[i])
  <2>1. Slice(L[1], src, cut[1 - 1], cut[1])
    BY <1>2
  <2>. QED
    BY <2>1
<1>. QED
  BY <1>1, <1>2, <1>3, <1>4 DEF Pieces

LEMMA PiecesConcat ==
    ASSUME NEW src, NEW a, NEW b, NEW c, NEW L1, NEW m1, NEW L2, NEW m2,
           Pieces(L1, m1, src, a, b), Pieces(L2, m2, src, b, c),
           NEW L, \A i \in 1 .. m1 : L[i] = L1[i], \A i \in 1 .. m2 : L[m1 + i] = L2[i]
    PROVE  Pieces(L, m1 + m2, src, a, c)
<1>0. /\ a \in Nat /\ b \in Nat /\ c \in Nat /\ a <= b /\ b <= c /\ c <= Len(src)
      /\ m1 \in Nat /\ m2 \in Nat
  BY DEF Pieces
<1>1. PICK f \in [Nat -> Nat] :
          /\ f[0] = a /\ f[m1] = b
          /\ \A i, j \in 0 .. m1 : i <= j => f[i] <= f[j]
          /\ \A i \in 1 .. m1 : Slice(L1[i], src, f[i - 1], f[i])
  BY DEF Pieces
<1>2. PICK g \in [Nat -> Nat] :
          /\ g[0] = b /\ g[m2] = c
          /\ \A i, j \in 0 .. m2 : i <= j => g[i] <= g[j]
          /\ \A i \in 1 .. m2 : Slice(L2[i], src, g[i - 1], g[i])
  BY DEF Pieces
<1>. DEFINE cut == [i \in Nat |-> IF i <= m1 THEN f[i] ELSE IF i - m1 \in Nat THEN g[i - m1] ELSE 0]
<1>3. cut \in [Nat -> Nat]
  BY <1>0, <1>1, <1>2
<1>4. \A i \in 0 .. m1 : cut[i] = f[i]
  BY <1>0
<1>5. \A i \in 0 .. m2 : cut[m1 + i] = g[i]
  <2>. SUFFICES ASSUME NEW i \in 0 .. m2 PROVE cut[m1 + i] = g[i]
    OBVIOUS
  <2>1. CASE i = 0
    <3>1. m1 + i = m1 /\ m1 \in 0 .. m1
      BY <1>0, <2>1
    <3>. QED
      BY <1>1, <1>2, <1>4, <2>1, <3>1
  <2>2. CASE i # 0
    <3>1. m1 + i \in Nat /\ ~(m1 + i <= m1) /\ (m1 + i) - m1 = i /\ i \in Nat
      BY <1>0, <2>2
    <3>. QED
      BY <3>1
  <2>. QED
    BY <2>1, <2>2
<1>. HIDE DEF cut
<1>6. cut[0] = a /\ cut[m1 + m2] = c
  <2>1. 0 \in 0 .. m1 /\ m2 \in 0 .. m2
    BY <1>0
  <2>. QED
    BY <1>1, <1>2, <1>4, <1>5, <2>1
<1>7. ASSUME NEW i \in 0 .. m1 + m2
      PROVE  \/ i \in 0 .. m1 /\ cut[i] = f[i]
             \/ i > m1 /\ i - m1 \in 1 .. m2 /\ cut[i] = g[i - m1]
  <2>1. CASE i <= m1
    <3>1. i \in 0 .. m1
      BY <1>0, <2>1
    <3>. QED
      BY <1>4, <3>1
  <2>2. CASE i > m1
    <3>1. i - m1 \in 1 .. m2 /\ i - m1 \in 0 .. m2 /\ m1 + (i - m1) = i
      BY <1>0, <2>2
    <3>2. cut[m1 + (i - m1)] = g[i - m1]
      BY <1>5, <3>1
    <3>. QED
      BY <2>2, <3>1, <3>2
  <2>. QED
    BY <1>0, <2>1, <2>2
<1>8. ASSUME NEW i \in 0 .. m1 + m2, NEW j \in 0 .. m1 + m2, i <= j
      PROVE  cut[i] <= cut[j]
  <2>1. CASE j \in 0 .. m1 /\ cut[j] = f[j]
    <3>1. i \in 0 .. m1
      BY <1>0, <1>8, <2>1
    <3>. QED
      BY <1>1, <1>4, <1>8, <2>1, <3>1
  <2>2. CASE j > m1 /\ j - m1 \in 1 .. m2 /\ cut[j] = g[j - m1]
    <3>0. j - m1 \in 0 .. m2 /\ 0 \in 0 .. m2 /\ 0 <= j - m1
      BY <1>0, <2>2
    <3>1. CASE i \in 0 .. m1 /\ cut[i] = f[i]
      <4>1. m1 \in 0 .. m1 /\ i <= m1
        BY <1>0, <3>1
      <4>2. f[i] <= f[m1]
        BY <1>1, <3>1, <4>1
      <4>3. g[0] <= g[j - m1]
        BY <1>2, <3>0
      <4>4. f[i] \in Nat /\ g[j - m1] \in Nat
        BY <1>1, <1>2, <3>0, <3>1
      <4>5. f[i] <= b /\ b <= g[j - m1] /\ b \in Nat
        BY <1>0, <1>1, <1>2, <4>2, <4>3
      <4>6. cut[i] = f[i] /\ cut[j] = g[j - m1]
        BY <2>2, <3>1
      <4>. QED
        BY <4>4, <4>5, <4>6
    <3>2. CASE i > m1 /\ i - m1 \in 1 .. m2 /\ cut[i] = g[i - m1]
      <4>1. i - m1 \in 0 .. m2 /\ i - m1 <= j - m1
        BY <1>0, <1>8, <3>2
      <4>. QED
        BY <1>2, <2>2, <3>0, <3>2, <4>1
    <3>. QED
      BY <1>7, <3>1, <3>2
  <2>. QED
    BY <1>7, <2>1, <2>2
<1>9. ASSUME NEW i \in 1 .. m1 + m2 PROVE Slice(L[i], src, cut[i - 1], cut[i])
  <2>1. CASE i <= m1
    <3>1. i \in 1 .. m1 /\ i - 1 \in 0 .. m1 /\ i \in 0 .. m1
      BY <1>0, <2>1
    <3>. QED
      BY <1>1, <1>4, <3>1
  <2>2. CASE i > m1
    <3>. DEFINE k == i - m1
    <3>1. k \in 1 .. m2 /\ k \in 0 .. m2 /\ k - 1 \in 0 .. m2 /\ m1 + k = i /\ m1 + (k - 1) = i - 1
      BY <1>0, <2>2
    <3>. HIDE DEF k
    <3>2. cut[m1 + k] = g[k] /\ cut[m1 + (k - 1)] = g[k - 1] /\ L[m1 + k] = L2[k]
      BY <1>5, <3>1
    <3>3. Slice(L2[k], src, g[k - 1], g[k])
      BY <1>2, <3>1
    <3>. QED
      BY <3>1, <3>2, <3>3
  <2>. QED
    BY <1>0, <2>1, <2>2
<1>10. a <= c /\ m1 + m2 \in Nat
  BY <1>0
<1>. QED
  BY <1>0, <1>3, <1>6, <1>8, <1>9, <1>10 DEF Pieces

\* The first piece, and the others.
LEMMA PiecesFirst ==
    ASSUME NEW src, NEW a, NEW b, NEW L, NEW m, m > 0, Pieces(L, m, src, a, b),
           NEW L_, \A i \in 1 .. m - 1 : L_[i] = L[i + 1]
    PROVE  \E d : Slice(L[1], src, a, d) /\ Pieces(L_, m - 1, src, d, b)
<1>0. a \in Nat /\ b \in Nat /\ b <= Len(src) /\ m \in Nat /\ m > 0
  BY DEF Pieces
<1>1. PICK f \in [Nat -> Nat] :
          /\ f[0] = a /\ f[m] = b
          /\ \A i, j \in 0 .. m : i <= j => f[i] <= f[j]
          /\ \A i \in 1 .. m : Slice(L[i], src, f[i - 1], f[i])
  BY DEF Pieces
<1>. DEFINE cut == [i \in Nat |-> f[i + 1]]
<1>2. cut \in [Nat -> Nat] /\ \A i \in Nat : cut[i] = f[i + 1]
  BY <1>1
<1>. HIDE DEF cut
<1>3. Slice(L[1], src, a, f[1])
  <2>1. Slice(L[1], src, f[1 - 1], f[1])
    BY <1>0, <1>1
  <2>. QED
    BY <1>1, <2>1
<1>4. f[1] \in Nat /\ f[1] <= b /\ cut[0] = f[1] /\ cut[m - 1] = b
  <2>1. 1 \in 0 .. m /\ m \in 0 .. m /\ 1 <= m /\ m - 1 \in Nat /\ (m - 1) + 1 = m
    BY <1>0
  <2>2. cut[m - 1] = f[(m - 1) + 1]
    BY <1>2, <2>1
  <2>. QED
    BY <1>1, <1>2, <2>1, <2>2
<1>5. ASSUME NEW i \in 0 .. m - 1, NEW j \in 0 .. m - 1, i <= j PROVE cut[i] <= cut[j]
  <2>1. i + 1 \in 0 .. m /\ j + 1 \in 0 .. m /\ i + 1 <= j + 1 /\ i \in Nat /\ j \in Nat
    BY <1>0, <1>5
  <2>. QED
    BY <1>1, <1>2, <2>1
<1>6. ASSUME NEW i \in 1 .. m - 1 PROVE Slice(L_[i], src, cut[i - 1], cut[i])
  <2>1. i + 1 \in 1 .. m /\ i \in Nat /\ i - 1 \in Nat /\ (i - 1) + 1 = i /\ (i + 1) - 1 = i
    BY <1>0
  <2>2. Slice(L[i + 1], src, f[(i + 1) - 1], f[i + 1])
    BY <1>1, <2>1
  <2>3. cut[i] = f[i + 1] /\ cut[i - 1] = f[(i - 1) + 1]
    BY <1>2, <2>1
  <2>. QED
    BY <2>1, <2>2, <2>3
<1>7. Pieces(L_, m - 1, src, f[1], b)
  <2>1. m - 1 \in Nat
    BY <1>0
  <2>. QED
    BY <1>0, <1>2, <1>4, <1>5, <1>6, <2>1 DEF Pieces
<1>. QED
  BY <1>3, <1>7

\* What a frame carries of the body.
Carried(x) == IF x.f \in {"BodyChunk", "Native"} THEN x.lines ELSE <<>>

FrameLines(s) == [i \in 1 .. Len(s) |-> Carried(s[i])]
ChunkLines(s) == [i \in 1 .. Len(s) |-> s[i]]

\* The frames of s, or the entries of s, carry src from a to b.
In(s, src, a, b)     == IsSeq(s) /\ Pieces(FrameLines(s), Len(s), src, a, b)
Queued(s, src, a, b) == IsSeq(s) /\ Pieces(ChunkLines(s), Len(s), src, a, b)

LEMMA InNone ==
    ASSUME NEW src, NEW a \in Nat, a <= Len(src)
    PROVE  In(<<>>, src, a, a) /\ Queued(<<>>, src, a, a)
<1>1. IsSeq(<<>>) /\ Len(<<>>) = 0
  BY SeqSmall
<1>. QED
  BY <1>1, PiecesNone DEF In, Queued

LEMMA NoneIn ==
    ASSUME NEW src, NEW a, NEW b, NEW s, s = <<>>, In(s, src, a, b) \/ Queued(s, src, a, b)
    PROVE  a = b
<1>1. Len(s) = 0
  BY SeqSmall
<1>. QED
  BY <1>1, PiecesNone DEF In, Queued

LEMMA InBounds ==
    ASSUME NEW src, NEW a, NEW b, NEW s, In(s, src, a, b) \/ Queued(s, src, a, b)
    PROVE  a \in Nat /\ b \in Nat /\ a <= b /\ b <= Len(src)
  BY DEF In, Queued, Pieces

LEMMA InLonger ==
    ASSUME NEW src, NEW src_, Longer(src, src_), NEW s, NEW a, NEW b
    PROVE  /\ In(s, src, a, b) => In(s, src_, a, b)
           /\ Queued(s, src, a, b) => Queued(s, src_, a, b)
  BY PiecesLonger DEF In, Queued

LEMMA InJoin ==
    ASSUME NEW src, NEW s, NEW t, NEW a, NEW b, NEW c, In(s, src, a, b), In(t, src, b, c),
           NEW r, Joined(s, t, r)
    PROVE  In(r, src, a, c)
<1>1. /\ IsSeq(r) /\ Len(r) = Len(s) + Len(t) /\ Len(s) \in Nat /\ Len(t) \in Nat
  BY SeqBasic DEF Joined, In
<1>. DEFINE L == FrameLines(r)  L1 == FrameLines(s)  L2 == FrameLines(t)
<1>2. ASSUME NEW i \in 1 .. Len(s) PROVE L[i] = L1[i]
  <2>1. i \in 1 .. Len(r) /\ r[i] = s[i]
    BY <1>1 DEF Joined
  <2>. QED
    BY <2>1 DEF FrameLines
<1>3. ASSUME NEW i \in 1 .. Len(t) PROVE L[Len(s) + i] = L2[i]
  <2>1. Len(s) + i \in 1 .. Len(r) /\ r[Len(s) + i] = t[i]
    BY <1>1 DEF Joined
  <2>. QED
    BY <2>1 DEF FrameLines
<1>4. Pieces(L1, Len(s), src, a, b) /\ Pieces(L2, Len(t), src, b, c)
  BY DEF In
<1>. HIDE DEF L, L1, L2
<1>5. Pieces(L, Len(s) + Len(t), src, a, c)
  BY <1>2, <1>3, <1>4, PiecesConcat
<1>. QED
  BY <1>1, <1>5 DEF In, L

LEMMA InOne ==
    ASSUME NEW src, NEW x, NEW a, NEW b, Slice(Carried(x), src, a, b), NEW s,
           IsSeq(s), Len(s) = 1, s[1] = x
    PROVE  In(s, src, a, b)
<1>1. FrameLines(s)[1] = Carried(x)
  BY DEF FrameLines
<1>. QED
  BY <1>1, PiecesOne DEF In

LEMMA InAdded ==
    ASSUME NEW src, NEW s, NEW a, NEW b, NEW c, In(s, src, a, b), NEW x,
           Slice(Carried(x), src, b, c), NEW r, Added(s, x, r)
    PROVE  In(r, src, a, c)
<1>. DEFINE t == <<x>>
<1>1. IsSeq(t) /\ Len(t) = 1 /\ t[1] = x
  BY SeqSmall
<1>. HIDE DEF t
<1>2. In(t, src, b, c)
  BY <1>1, InOne
<1>3. Len(s) \in Nat
  BY SeqBasic DEF In
<1>4. Joined(s, t, r)
  BY <1>1, <1>3 DEF Added, Joined
<1>. QED
  BY <1>2, <1>4, InJoin

LEMMA InAdd ==
    ASSUME NEW src, NEW s, NEW a, NEW b, NEW c, In(s, src, a, b), NEW x,
           Slice(Carried(x), src, b, c), NEW r, r = Append(s, x)
    PROVE  In(r, src, a, c)
<1>1. Added(s, x, r)
  BY SeqAppend DEF In
<1>. QED
  BY <1>1, InAdded

LEMMA InFirst ==
    ASSUME NEW src, NEW s, s # <<>>, NEW a, NEW b, In(s, src, a, b), NEW r, r = Tail(s)
    PROVE  \E d : Slice(Carried(s[1]), src, a, d) /\ In(r, src, d, b)
<1>1. Shifted(s, r) /\ Len(s) > 0 /\ Len(s) \in Nat
  BY SeqTail, SeqBasic DEF In
<1>2. IsSeq(r) /\ Len(r) = Len(s) - 1
  BY <1>1 DEF Shifted
<1>. DEFINE L == FrameLines(s)  L_ == FrameLines(r)
<1>3. ASSUME NEW i \in 1 .. Len(s) - 1 PROVE L_[i] = L[i + 1]
  <2>1. i \in 1 .. Len(r) /\ i + 1 \in 1 .. Len(s) /\ r[i] = s[i + 1]
    BY <1>1, <1>2 DEF Shifted
  <2>. QED
    BY <2>1 DEF FrameLines
<1>4. L[1] = Carried(s[1]) /\ Pieces(L, Len(s), src, a, b)
  BY <1>1 DEF FrameLines, In
<1>. HIDE DEF L, L_
<1>5. \E d : Slice(L[1], src, a, d) /\ Pieces(L_, Len(s) - 1, src, d, b)
  BY <1>1, <1>3, <1>4, PiecesFirst
<1>. QED
  BY <1>2, <1>4, <1>5 DEF In, L_

LEMMA QueuedAdd ==
    ASSUME NEW src, NEW s, NEW a, NEW b, NEW c, Queued(s, src, a, b), NEW x,
           Slice(x, src, b, c), NEW r, r = Append(s, x)
    PROVE  Queued(r, src, a, c)
<1>1. Added(s, x, r) /\ Len(s) \in Nat
  BY SeqAppend, SeqBasic DEF Queued
<1>. DEFINE L == ChunkLines(r)  L1 == ChunkLines(s)  L2 == [i \in 1 .. 1 |-> x]
<1>2. /\ IsSeq(r) /\ Len(r) = Len(s) + 1 /\ r[Len(s) + 1] = x
      /\ \A i \in 1 .. Len(s) : r[i] = s[i]
  BY <1>1 DEF Added
<1>3. ASSUME NEW i \in 1 .. Len(s) PROVE L[i] = L1[i]
  <2>1. i \in 1 .. Len(r) /\ r[i] = s[i]
    BY <1>1, <1>2
  <2>. QED
    BY <2>1 DEF ChunkLines
<1>4. ASSUME NEW i \in 1 .. 1 PROVE L[Len(s) + i] = L2[i]
  <2>1. i = 1 /\ Len(s) + 1 \in 1 .. Len(r)
    BY <1>1, <1>2
  <2>. QED
    BY <1>2, <2>1 DEF ChunkLines
<1>5. L2[1] = x /\ Pieces(L1, Len(s), src, a, b)
  BY DEF Queued
<1>. HIDE DEF L, L1, L2
<1>6. Pieces(L2, 1, src, b, c)
  BY <1>5, PiecesOne
<1>7. Pieces(L, Len(s) + 1, src, a, c)
  BY <1>3, <1>4, <1>5, <1>6, PiecesConcat
<1>. QED
  BY <1>2, <1>7 DEF Queued, L

LEMMA QueuedFirst ==
    ASSUME NEW src, NEW s, s # <<>>, NEW a, NEW b, Queued(s, src, a, b), NEW r, r = Tail(s)
    PROVE  \E d : Slice(s[1], src, a, d) /\ Queued(r, src, d, b)
<1>1. Shifted(s, r) /\ Len(s) > 0 /\ Len(s) \in Nat
  BY SeqTail, SeqBasic DEF Queued
<1>2. IsSeq(r) /\ Len(r) = Len(s) - 1
  BY <1>1 DEF Shifted
<1>. DEFINE L == ChunkLines(s)  L_ == ChunkLines(r)
<1>3. ASSUME NEW i \in 1 .. Len(s) - 1 PROVE L_[i] = L[i + 1]
  <2>1. i \in 1 .. Len(r) /\ i + 1 \in 1 .. Len(s) /\ r[i] = s[i + 1]
    BY <1>1, <1>2 DEF Shifted
  <2>. QED
    BY <2>1 DEF ChunkLines
<1>4. L[1] = s[1] /\ Pieces(L, Len(s), src, a, b)
  BY <1>1 DEF ChunkLines, Queued
<1>. HIDE DEF L, L_
<1>5. \E d : Slice(L[1], src, a, d) /\ Pieces(L_, Len(s) - 1, src, d, b)
  BY <1>1, <1>3, <1>4, PiecesFirst
<1>. QED
  BY <1>2, <1>4, <1>5 DEF Queued, L_

LEMMA CarriedIs ==
    ASSUME NEW v, NEW c, NEW hs, NEW ls
    PROVE  /\ Carried(Headers(c, hs)) = <<>> /\ Carried(BodyChunk(ls)) = ls
           /\ Carried(End(v)) = <<>> /\ Carried(Native(v, c, hs, ls)) = ls
           /\ Carried(Torn) = <<>>
  BY DEF Carried, Headers, BodyChunk, End, Native, Torn

\* Headers carry nothing: the lines begin after them.
LEMMA TopLines ==
    ASSUME NEW src, IsSeq(src), NEW d \in Nat, d <= Len(src), NEW a,
           NEW r, r = Append(<<>>, Top(a))
    PROVE  In(r, src, d, d)
<1>1. In(<<>>, src, d, d) /\ Slice(<<>>, src, d, d)
  BY InNone, SliceEmpty
<1>2. Carried(Top(a)) = <<>>
  BY CarriedIs DEF Top
<1>. QED
  BY <1>1, <1>2, InAdd

LEMMA BodyLines ==
    ASSUME NEW src, NEW s, NEW a, NEW b, In(s, src, a, b), NEW ls, NEW c, Slice(ls, src, b, c),
           NEW r, r = Append(s, BodyChunk(ls))
    PROVE  In(r, src, a, c)
<1>1. Carried(BodyChunk(ls)) = ls
  BY CarriedIs
<1>2. Slice(Carried(BodyChunk(ls)), src, b, c)
  BY <1>1
<1>. QED
  BY <1>2, InAdd

\* No line is lost or doubled when streaming is engaged ...
LEMMA EngageLines ==
    ASSUME NEW src, IsSeq(src), NEW a, IsOutput(a), a.out = <<>>, NEW b, b = engage_streaming(a),
           NEW d, NEW e, Slice(a.buf, src, d, e)
    PROVE  \E d_ : In(b.out, src, d, d_) /\ Slice(b.buf, src, d_, e)
<1>0. d \in Nat /\ e \in Nat /\ d <= e /\ e <= Len(src) /\ Len(src) \in Nat /\ d <= Len(src)
  BY SeqBasic DEF Slice
<1>1. In(<<>>, src, d, d) /\ Slice(<<>>, src, d, d) /\ Slice(<<>>, src, e, e)
  BY <1>0, InNone, SliceEmpty
<1>. DEFINE one == Append(<<>>, Top(a))
            two == Append(one, BodyChunk(a.buf))
<1>2. In(one, src, d, d)
  BY <1>0, TopLines
<1>. HIDE DEF one
<1>3. In(two, src, d, e)
  BY <1>2, BodyLines
<1>. HIDE DEF two
<1>4. CASE b = a
  BY <1>1, <1>4
<1>5. CASE b.buf = <<>> /\ b.out = IF a.buf = <<>> THEN one ELSE two
  <2>1. CASE a.buf = <<>>
    <3>1. d = e
      BY <2>1, EmptySlice
    <3>. QED
      BY <1>1, <1>2, <1>5, <2>1, <3>1
  <2>2. CASE a.buf # <<>>
    BY <1>1, <1>3, <1>5, <2>2
  <2>. QED
    BY <2>1, <2>2
<1>. QED
  BY <1>4, <1>5, EngageDoes DEF one, two

\* ... nor when the script, or PHP at its end, writes.
LEMMA WriteLines ==
    ASSUME NEW src, IsSeq(src), NEW a, IsOutput(a), a.out = <<>>, NEW ls, NEW b,
           b = turbine_ub_write(a, ls), NEW d, NEW e, NEW f,
           Slice(a.buf, src, d, e), Slice(ls, src, e, f)
    PROVE  \E d_ : In(b.out, src, d, d_) /\ Slice(b.buf, src, d_, f)
<1>0. /\ d \in Nat /\ e \in Nat /\ f \in Nat /\ d <= e /\ e <= Len(src) /\ f <= Len(src)
      /\ Len(src) \in Nat /\ d <= Len(src) /\ IsSeq(ls)
  BY SeqBasic DEF Slice
<1>1. In(<<>>, src, d, d) /\ Slice(<<>>, src, d, d) /\ Slice(<<>>, src, f, f)
  BY <1>0, InNone, SliceEmpty
<1>. DEFINE one == Append(<<>>, Top(a))
            two == Append(one, BodyChunk(a.buf))
            two_ == Append(one, BodyChunk(ls))
            three == Append(two, BodyChunk(ls))
            chunk == Append(<<>>, BodyChunk(ls))
<1>2. In(one, src, d, d)
  BY <1>0, TopLines
<1>3. a.buf = <<>> => d = e
  BY EmptySlice
<1>4. a.buf = <<>> => In(two_, src, d, f) /\ In(chunk, src, d, f)
  <2>. HIDE DEF one
  <2>. QED
    BY <1>1, <1>2, <1>3, BodyLines
<1>5. In(three, src, d, f)
  <2>. HIDE DEF one
  <2>1. In(two, src, d, e)
    BY <1>2, BodyLines
  <2>. HIDE DEF two
  <2>. QED
    BY <2>1, BodyLines
<1>. HIDE DEF one, two, two_, three, chunk
<1>6. IsOutput(b) /\ (b.engaged => b.buf = <<>>) /\ (a.engaged => a.buf = <<>>)
  <2>1. IsOutput(b)
    BY <1>0, WriteDoes
  <2>. QED
    BY <2>1 DEF IsOutput
<1>7. CASE ~b.engaged /\ b.out = <<>> /\ b.buf = a.buf \o ls
  <2>1. Slice(b.buf, src, d, f)
    BY <1>7, SliceJoin
  <2>. QED
    BY <1>1, <1>7, <2>1
<1>8. CASE a.engaged /\ b.engaged /\ b.out = IF ls = <<>> THEN <<>> ELSE chunk
  <2>1. CASE ls = <<>>
    <3>1. e = f
      BY <2>1, EmptySlice
    <3>. QED
      BY <1>1, <1>3, <1>6, <1>8, <2>1, <3>1
  <2>2. CASE ls # <<>>
    BY <1>1, <1>4, <1>6, <1>8, <2>2
  <2>. QED
    BY <2>1, <2>2
<1>9. CASE b.engaged /\ b.out = IF a.buf = <<>> THEN two_ ELSE three
  BY <1>1, <1>4, <1>5, <1>6, <1>9
<1>. QED
  BY <1>0, <1>7, <1>8, <1>9, WriteDoes, SMTT(30) DEF one, two, two_, three, chunk

LEMMA ResponseLines ==
    ASSUME NEW src, IsSeq(src), NEW r, NEW w, NEW c, NEW hs, NEW ls, Response(r, w, c, hs, ls),
           NEW a, NEW b, Slice(ls, src, a, b)
    PROVE  In(r, src, a, b)
<1>. DEFINE H == Headers(c, hs)
            B == BodyChunk(ls)
            E == End(w)
            M == Native(w, c, hs, ls)
<1>1. Carried(H) = <<>> /\ Carried(B) = ls /\ Carried(E) = <<>> /\ Carried(M) = ls
  BY CarriedIs
<1>2. IsSeq(r) /\ (Len(r) > 0 => r # <<>>)
  BY SeqSmall DEF Response
<1>3. a \in Nat /\ b \in Nat /\ a <= Len(src) /\ b <= Len(src)
  BY SeqBasic DEF Slice
<1>4. Slice(<<>>, src, a, a) /\ Slice(<<>>, src, b, b)
  BY <1>3, SliceEmpty
<1>. DEFINE one == <<H>>
            two == Append(one, B)
<1>5. IsSeq(one) /\ Len(one) = 1 /\ one[1] = H
  BY SeqSmall
<1>6. CASE ~Framed
  <2>1. Len(r) = 1 /\ r[1] = M
    BY <1>6 DEF Response
  <2>. HIDE DEF M
  <2>. QED
    BY <1>1, <1>2, <2>1, InOne
<1>7. CASE Framed
  <2>0. /\ r[1] = H /\ r[Len(r)] = E /\ Len(r) = IF ls = <<>> THEN 2 ELSE 3
        /\ ls # <<>> => r[2] = B
    BY <1>7 DEF Response
  <2>. HIDE DEF H, B, E, M, one
  <2>1. In(one, src, a, a)
    BY <1>1, <1>4, <1>5, InOne
  <2>2. CASE ls = <<>>
    <3>1. a = b
      BY <2>2, EmptySlice
    <3>2. Added(one, E, r)
      BY <1>2, <1>5, <2>0, <2>2 DEF Added
    <3>. QED
      BY <1>1, <1>4, <2>1, <3>1, <3>2, InAdded
  <2>3. CASE ls # <<>>
    <3>1. Added(one, B, two)
      BY <1>5, SeqAppend
    <3>2. /\ Len(two) = 2 /\ two[1] = H /\ two[2] = B
      BY <1>5, <3>1 DEF Added
    <3>. HIDE DEF two
    <3>3. Added(two, E, r)
      BY <1>2, <2>0, <2>3, <3>2 DEF Added
    <3>4. In(two, src, a, b)
      BY <1>1, <2>1, <3>1, InAdded
    <3>. QED
      BY <1>1, <1>4, <3>3, <3>4, InAdded
  <2>. QED
    BY <2>2, <2>3
<1>. QED
  BY <1>6, <1>7

----------------------------------------------------------------------------
(***************************************************************************)
(* Whole bodies                                                            *)
(***************************************************************************)
\* src is what this request printed, or the line that refuses it.  Up to p it
\* has been read, up to q it is in the pipe, up to d it waits to be written;
\* the rest is in the two buffers.
WorkerLines(src, p, q, d) ==
    /\ IsSeq(src) /\ (src = printed \/ src = <<Line("worker", "text")>>)
    /\ In(pipe, src, p, q) /\ In(o.out, src, q, d)
    /\ wpc \in Running =>
           src = printed /\ \E e : Slice(o.buf, src, d, e) /\ Slice(ob, src, e, Len(src))
    /\ wpc = "asked" => src = <<>>
    /\ wpc \in {"write", "idle"} => d = Len(src)

\* No broken frame has been passed on.
Unbroken(s) == \A i \in 1 .. Len(s) : s[i] # <<Torn>>

\* The handler has the lines up to p: it collects them, or the body channel
\* and the client share them.
HandlerLines(src, p) ==
    /\ hpc \in {"read", "drain"} => Slice(acc.lines, src, 0, p)
    /\ hpc = "head" \/ (hpc = "read" /\ ~Framed) => p = 0
    /\ hpc = "head" => chan = <<>>
    /\ hpc = "drain" => ~headers_request_streaming(acc.headers)
    /\ hpc \in {"head", "drain", "discard"} => client.end # "open"
    /\ client.end = "open" =>
           /\ headers_request_streaming(client.headers)
           /\ Unbroken(chan) =>
                  \E a : Slice(client.lines, src, 0, a) /\ Queued(chan, src, a, p)

LinesOK == \E src, p, q, d : WorkerLines(src, p, q, d) /\ HandlerLines(src, p)

LEMMA SliceSelf ==
    ASSUME NEW src, IsSeq(src) PROVE Slice(src, src, 0, Len(src))
  BY SeqBasic DEF Slice

LEMMA LongerSelf == ASSUME NEW src, IsSeq(src) PROVE Longer(src, src)
  BY SeqBasic DEF Longer

LEMMA LinesGrow ==
    ASSUME NEW src, IsSeq(src), NEW x, NEW e, Slice(x, src, e, Len(src)), NEW t, IsSeq(t),
           NEW src_, src_ = src \o t, NEW x_, x_ = x \o t
    PROVE  Longer(src, src_) /\ Slice(x_, src_, e, Len(src_))
<1>1. Joined(src, t, src_)
  BY SeqJoin
<1>2. Len(src) \in Nat /\ Len(t) \in Nat /\ Len(src_) = Len(src) + Len(t) /\ IsSeq(src_)
  BY <1>1, SeqBasic DEF Joined
<1>3. Longer(src, src_)
  BY <1>1, <1>2 DEF Longer, Joined
<1>4. Slice(t, src_, Len(src), Len(src_))
  <2>1. /\ Len(src) <= Len(src_) /\ Len(t) = Len(src_) - Len(src) /\ Len(src_) \in Nat
        /\ Len(src_) <= Len(src_)
    BY <1>2
  <2>2. \A i \in 1 .. Len(src_) - Len(src) : t[i] = src_[Len(src) + i]
    BY <1>1, <1>2, <2>1 DEF Joined
  <2>. QED
    BY <1>2, <2>1, <2>2 DEF Slice
<1>5. Slice(x, src_, e, Len(src))
  BY <1>3, SliceLonger
<1>. QED
  BY <1>2, <1>3, <1>4, <1>5, SliceJoin

LEMMA AppendJoins ==
    ASSUME NEW s, IsSeq(s), NEW x PROVE Append(s, x) = s \o <<x>>
<1>. DEFINE S == {s[i] : i \in DOMAIN s} \union {x}
<1>1. s \in Seq(S) /\ x \in S
  BY SeqMonotonic DEF IsSeq
<1>. HIDE DEF S
<1>. QED
  BY <1>1, AppendIsConcat

\* While the handler waits, its lines stay where they are.
LEMMA HandlerLinesKept ==
    ASSUME NEW src, NEW src_, Longer(src, src_), NEW p, HandlerLines(src, p),
           UNCHANGED <<kind, handler>>
    PROVE  HandlerLines(src_, p)'
<1>1. UNCHANGED <<kind, hpc, acc, chan, client>>
  BY DEF handler
<1>2. hpc \in {"read", "drain"} => Slice(acc.lines, src_, 0, p)
  BY SliceLonger DEF HandlerLines
<1>3. client.end = "open" /\ Unbroken(chan) =>
          \E a : Slice(client.lines, src_, 0, a) /\ Queued(chan, src_, a, p)
  BY SliceLonger, InLonger DEF HandlerLines
<1>. QED
  BY <1>1, <1>2, <1>3 DEF HandlerLines, Framed, Unbroken

LEMMA TakeLines ==
    ASSUME Core, NEW src, NEW p, NEW q, NEW d, WorkerLines(src, p, q, d), HandlerLines(src, p), Take
    PROVE  LinesOK'
<1>1. /\ wpc = "asked" /\ ob' = <<>> /\ UNCHANGED <<kind, n, pipe, handler, printed, framed>>
      /\ src = <<>> /\ IsSeq(src) /\ In(pipe, src, p, q) /\ In(o.out, src, q, d) /\ Len(src) = 0
      /\ src = printed
  BY SeqSmall DEF Take, WorkerLines
<1>2. p = 0 /\ q = 0 /\ d = 0
  BY <1>1, InBounds
<1>3. /\ IsOutput(o') /\ o'.buf = <<>>
      /\ \/ /\ wpc' = "write"
            /\ o'.out = write_response(FALSE, 500, <<>>, <<Line("worker", "text")>>)
         \/ wpc' = "script" /\ o'.out = <<>>
  BY TakeDoes DEF Core
<1>4. CASE wpc' = "write" /\ o'.out = write_response(FALSE, 500, <<>>, <<Line("worker", "text")>>)
  <2>1. PICK src_ : src_ = <<Line("worker", "text")>>
    OBVIOUS
  <2>2. IsSeq(src_) /\ Len(src_) = 1
    BY <2>1, SeqSmall, Zenon
  <2>3. Longer(src, src_)
    BY <1>1, <2>2 DEF Longer
  <2>. DEFINE r == write_response(FALSE, 500, <<>>, src_)
  <2>4. Response(r, FALSE, 500, <<>>, src_)
    <3>1. IsSeq(src_)
      BY <2>2
    <3>. QED
      BY <3>1, ResponseDoes, ZenonT(60)
  <2>5. In(o'.out, src_, 0, 1)
    <3>1. Slice(src_, src_, 0, 1)
      BY <2>2, SliceSelf
    <3>2. o'.out = r
      BY <1>4, <2>1
    <3>. HIDE DEF r
    <3>3. IsSeq(src_)
      BY <2>2
    <3>4. In(r, src_, 0, 1)
      BY <2>4, <3>1, <3>3, ResponseLines, Zenon
    <3>. QED
      BY <3>2, <3>4
  <2>6. In(pipe', src_, 0, 0)
    BY <1>1, <1>2, <2>3, InLonger
  <2>7. src_ = <<Line("worker", "text")>>'
    BY <1>1, <2>1 DEF Line
  <2>8. WorkerLines(src_, 0, 0, 1)'
    BY <1>4, <2>2, <2>5, <2>6, <2>7 DEF WorkerLines, Running
  <2>9. HandlerLines(src_, 0)'
    BY <1>1, <1>2, <2>3, HandlerLinesKept
  <2>. QED
    BY <2>8, <2>9 DEF LinesOK
<1>5. CASE wpc' = "script" /\ o'.out = <<>>
  <2>1. Slice(<<>>, src, 0, 0) /\ Longer(src, src)
    BY <1>1, SliceEmpty, LongerSelf
  <2>2. WorkerLines(src, 0, 0, 0)'
    BY <1>1, <1>2, <1>3, <1>5, <2>1, InNone DEF WorkerLines, Running
  <2>3. HandlerLines(src, 0)'
    BY <1>1, <1>2, <2>1, HandlerLinesKept
  <2>. QED
    BY <2>2, <2>3 DEF LinesOK
<1>. QED
  BY <1>3, <1>4, <1>5

\* A step of a running script that prints nothing moves lines at most.
LEMMA RunningLines ==
    ASSUME NEW src, NEW p, NEW q, NEW d, WorkerLines(src, p, q, d), HandlerLines(src, p),
           wpc' \in Running, src = printed',
           UNCHANGED <<kind, handler, pipe>>, NEW d_, In(o'.out, src, q, d_),
           NEW e_, Slice(o'.buf, src, d_, e_), Slice(ob', src, e_, Len(src))
    PROVE  LinesOK'
<1>1. IsSeq(src) /\ In(pipe, src, p, q)
  BY DEF WorkerLines
<1>2. WorkerLines(src, p, q, d_)'
  BY <1>1 DEF WorkerLines, Running
<1>3. HandlerLines(src, p)'
  BY <1>1, LongerSelf, HandlerLinesKept
<1>. QED
  BY <1>2, <1>3 DEF LinesOK

\* A step that prints.
LEMMA PrintingLines ==
    ASSUME NEW src, NEW p, NEW q, NEW d, WorkerLines(src, p, q, d), HandlerLines(src, p),
           wpc \in Running, wpc' \in Running, UNCHANGED <<kind, handler, pipe, o>>,
           NEW t, IsSeq(t), printed' = printed \o t, ob' = ob \o t
    PROVE  LinesOK'
<1>1. IsSeq(src) /\ In(pipe, src, p, q) /\ In(o.out, src, q, d) /\ src = printed
  BY DEF WorkerLines
<1>2. PICK e : Slice(o.buf, src, d, e) /\ Slice(ob, src, e, Len(src))
  BY DEF WorkerLines
<1>3. PICK src_ : src_ = src \o t
  OBVIOUS
<1>4. Longer(src, src_) /\ Slice(ob', src_, e, Len(src_))
  BY <1>1, <1>2, <1>3, LinesGrow
<1>5. /\ In(pipe', src_, p, q) /\ In(o'.out, src_, q, d) /\ Slice(o'.buf, src_, d, e)
      /\ IsSeq(src_)
  BY <1>1, <1>2, <1>4, InLonger, SliceLonger DEF Longer
<1>6. WorkerLines(src_, p, q, d)'
  BY <1>1, <1>3, <1>4, <1>5 DEF WorkerLines, Running
<1>7. HandlerLines(src_, p)'
  BY <1>4, HandlerLinesKept
<1>. QED
  BY <1>6, <1>7 DEF LinesOK

LEMMA ScriptLines ==
    ASSUME Core, NEW src, NEW p, NEW q, NEW d, WorkerLines(src, p, q, d), HandlerLines(src, p), Script
    PROVE  LinesOK'
<1>1. wpc = "script" /\ o.out = <<>> /\ wpc' = wpc /\ UNCHANGED <<kind, n, handler, pipe>>
  BY DEF Script, SetHeader, SetCode, Echo, ObFlush, Flush, Call
<1>2. wpc \in Running /\ wpc' \in Running
  BY <1>1 DEF Running
<1>3. /\ IsOutput(o) /\ IsSeq(src) /\ src = printed /\ q = d /\ In(o.out, src, q, d)
      /\ IsSeq(ob) /\ IsSeq(printed)
  <2>1. IsOutput(o) /\ IsSeq(ob) /\ IsSeq(printed)
    BY DEF Core, WorkerTypes
  <2>2. IsSeq(src) /\ src = printed /\ In(o.out, src, q, d)
    BY <1>2 DEF WorkerLines
  <2>3. q = d
    BY <1>1, <2>2, NoneIn
  <2>. QED
    BY <2>1, <2>2, <2>3
<1>4. PICK e : Slice(o.buf, src, d, e) /\ Slice(ob, src, e, Len(src))
  BY <1>2 DEF WorkerLines
<1>5. Slice(<<>>, src, Len(src), Len(src))
  <2>1. Len(src) \in Nat /\ Len(src) <= Len(src)
    BY <1>3, SeqBasic
  <2>. QED
    BY <1>3, <2>1, SliceEmpty
<1>6. ASSUME o'.buf = o.buf, o'.out = o.out, UNCHANGED <<ob, printed>> PROVE LinesOK'
  BY <1>1, <1>2, <1>3, <1>4, <1>6, RunningLines
<1>7. CASE \E y \in HeaderCalls : SetHeader(y.op, y.h)
  <2>1. PICK y \in HeaderCalls : SetHeader(y.op, y.h)
    BY <1>7
  <2>2. o' = turbine_header_handler(o, y.op, y.h) /\ UNCHANGED <<ob, printed>>
    BY <2>1 DEF SetHeader, Call
  <2>3. y.op \in {"replace", "add", "delete", "delete_all", "status"}
    BY ExchangeAssumption
  <2>4. o'.buf = o.buf /\ o'.out = o.out
    BY <1>1, <1>3, <2>2, <2>3, HeaderDoes
  <2>. QED
    BY <1>6, <2>2, <2>4
<1>9. CASE SetCode
  <2>1. o' = [o EXCEPT !.sg = 404] /\ UNCHANGED <<ob, printed>> /\ DOMAIN o = Fields
    BY <1>3, <1>9 DEF SetCode, Call, IsOutput
  <2>2. o'.buf = o.buf /\ o'.out = o.out
    BY <2>1 DEF Fields
  <2>. QED
    BY <1>6, <2>1, <2>2
<1>10. CASE \E k \in LineKinds : Echo(k)
  <2>1. PICK k \in LineKinds : Echo(k)
    BY <1>10
  <2>. DEFINE t == <<Line("script", k)>>
  <2>2. o' = o /\ ob' = ob \o t /\ printed' = printed \o t
    <3>1. /\ o' = o /\ ob' = Append(ob, Line("script", k))
          /\ printed' = Append(printed, Line("script", k))
      BY <2>1 DEF Echo, Call
    <3>. QED
      BY <1>3, <3>1, AppendJoins
  <2>3. IsSeq(t)
    BY SeqSmall, Zenon
  <2>. HIDE DEF t
  <2>. QED
    BY <1>1, <1>2, <2>2, <2>3, PrintingLines
<1>11. CASE ObFlush
  <2>1. o' = turbine_ub_write(o, ob) /\ ob' = <<>> /\ printed' = printed
    BY <1>11 DEF ObFlush, Call
  <2>2. PICK d_ : In(o'.out, src, d, d_) /\ Slice(o'.buf, src, d_, Len(src))
    BY <1>1, <1>3, <1>4, <2>1, WriteLines
  <2>. QED
    BY <1>1, <1>2, <1>3, <1>5, <2>1, <2>2, RunningLines
<1>12. CASE Flush
  <2>1. o' = engage_streaming(o) /\ UNCHANGED <<ob, printed>>
    BY <1>12 DEF Flush, Call, turbine_sapi_flush
  <2>2. PICK d_ : In(o'.out, src, d, d_) /\ Slice(o'.buf, src, d_, e)
    BY <1>1, <1>3, <1>4, <2>1, EngageLines
  <2>. QED
    BY <1>1, <1>2, <1>3, <1>4, <2>1, <2>2, RunningLines
<1>. QED
  BY <1>7, <1>9, <1>10, <1>11, <1>12 DEF Script

LEMMA EndLines ==
    ASSUME Core, NEW src, NEW p, NEW q, NEW d, WorkerLines(src, p, q, d), HandlerLines(src, p),
           ScriptEnds \/ RunCleanup
    PROVE  LinesOK'
<1>1. /\ wpc \in Running /\ wpc' \in Running /\ UNCHANGED <<kind, handler, pipe, o>>
  BY DEF ScriptEnds, RunCleanup, Running
<1>2. CASE ScriptEnds
  <2>1. UNCHANGED <<ob, printed>>
    BY <1>2 DEF ScriptEnds
  <2>2. /\ src = printed /\ In(o.out, src, q, d)
        /\ \E e : Slice(o.buf, src, d, e) /\ Slice(ob, src, e, Len(src))
    BY <1>1 DEF WorkerLines
  <2>. QED
    BY <1>1, <2>1, <2>2, RunningLines
<1>3. CASE RunCleanup
  <2>1. PICK ls \in {<<>>, <<Line("cleanup", "text")>>} :
            ob' = ob \o ls /\ printed' = printed \o ls
    BY <1>3 DEF RunCleanup
  <2>2. IsSeq(ls)
    BY SeqSmall, Zenon
  <2>. QED
    BY <1>1, <2>1, <2>2, PrintingLines
<1>. QED
  BY <1>2, <1>3

LEMMA RestLines ==
    ASSUME NEW src, IsSeq(src), NEW d, IsOutput(d), NEW a, NEW b, Slice(d.buf, src, a, b),
           NEW r, r = Rest(d)
    PROVE  IsSeq(r) /\ In(r, src, a, b)
<1>1. CASE d.engaged
  <2>. DEFINE e == <<>> \o <<End(ok)>>
  <2>1. IsSeq(e) /\ Len(e) = 1 /\ e[1] = End(ok)
    BY EndAlone
  <2>2. r = e
    BY <1>1, RestDoes
  <2>. HIDE DEF e
  <2>3. Slice(Carried(End(ok)), src, a, b)
    <3>1. Carried(End(ok)) = <<>> /\ d.buf = <<>>
      BY <1>1, CarriedIs DEF IsOutput
    <3>. QED
      BY <3>1
  <2>. QED
    BY <2>1, <2>2, <2>3, InOne
<1>2. CASE ~d.engaged
  <2>. DEFINE w == write_response(ok, response_code(d), d.headers, d.buf)
  <2>1. Response(w, ok, response_code(d), d.headers, d.buf)
    BY ResponseDoes DEF IsOutput
  <2>2. r = w
    BY <1>2, RestDoes
  <2>. HIDE DEF w
  <2>3. In(w, src, a, b)
    BY <2>1, ResponseLines
  <2>. QED
    BY <2>2, <2>3 DEF In
<1>. QED
  BY <1>1, <1>2

LEMMA FinishLines ==
    ASSUME Core, NEW src, NEW p, NEW q, NEW d, WorkerLines(src, p, q, d), HandlerLines(src, p), Finish
    PROVE  LinesOK'
<1>1. /\ wpc = "finish" /\ o.out = <<>> /\ wpc' = "write"
      /\ UNCHANGED <<kind, n, printed, handler, pipe>>
  BY DEF Finish
<1>2. wpc \in Running
  BY <1>1 DEF Running
<1>3. IsOutput(o) /\ IsSeq(ob)
  BY DEF Core, WorkerTypes
<1>4. IsSeq(src) /\ src = printed /\ In(o.out, src, q, d) /\ In(pipe, src, p, q)
  BY <1>2 DEF WorkerLines
<1>5. q = d
  BY <1>1, <1>4, NoneIn
<1>6. PICK e : Slice(o.buf, src, d, e) /\ Slice(ob, src, e, Len(src))
  BY <1>2 DEF WorkerLines
<1>. DEFINE x == turbine_ub_write(o, ob)
            r == x.out \o Rest(x)
<1>7. o' = [Taken(finish_streaming(x)) EXCEPT !.out = r]
  BY DEF Finish
<1>8. IsOutput(x)
  BY <1>1, <1>3, WriteDoes
<1>9. PICK d_ : In(x.out, src, d, d_) /\ Slice(x.buf, src, d_, Len(src))
  BY <1>1, <1>3, <1>4, <1>6, WriteLines
<1>. HIDE DEF x
<1>10. IsSeq(Rest(x)) /\ In(Rest(x), src, d_, Len(src))
  BY <1>4, <1>8, <1>9, RestLines
<1>11. Joined(x.out, Rest(x), r)
  BY <1>8, <1>10, SeqJoin DEF IsOutput
<1>12. In(r, src, d, Len(src))
  BY <1>9, <1>10, <1>11, InJoin
<1>. HIDE DEF r
<1>13. o'.out = r
  <2>1. DOMAIN x = Fields
    BY <1>8 DEF IsOutput
  <2>. QED
    BY <1>7, <2>1 DEF Taken, finish_streaming, Fields
<1>14. WorkerLines(src, p, q, Len(src))'
  BY <1>1, <1>4, <1>5, <1>12, <1>13 DEF WorkerLines, Running
<1>15. HandlerLines(src, p)'
  BY <1>1, <1>4, LongerSelf, HandlerLinesKept
<1>. QED
  BY <1>14, <1>15 DEF LinesOK

LEMMA WritingLines ==
    ASSUME Core, NEW src, NEW p, NEW q, NEW d, WorkerLines(src, p, q, d), HandlerLines(src, p), Write
    PROVE  LinesOK'
<1>1. /\ o.out # <<>> /\ pipe' = Append(pipe, Head(o.out)) /\ o' = [o EXCEPT !.out = Tail(@)]
      /\ wpc' = (IF wpc = "write" /\ Len(o.out) = 1 THEN "idle" ELSE wpc)
      /\ UNCHANGED <<kind, n, ob, printed, handler>>
  BY DEF Write
<1>2. DOMAIN o = Fields /\ IsSeq(o.out)
  BY DEF Core, WorkerTypes, IsOutput
<1>3. o'.out = Tail(o.out) /\ o'.buf = o.buf
  BY <1>1, <1>2 DEF Fields
<1>4. IsSeq(src) /\ In(o.out, src, q, d) /\ In(pipe, src, p, q)
  BY DEF WorkerLines
<1>5. PICK q_ : Slice(Carried(o.out[1]), src, q, q_) /\ In(o'.out, src, q_, d)
  BY <1>1, <1>3, <1>4, InFirst
<1>6. Head(o.out) = o.out[1]
  BY <1>1, <1>2, SeqTail
<1>7. In(pipe', src, p, q_)
  BY <1>1, <1>4, <1>5, <1>6, InAdd
<1>8. <<Line("worker", "text")>>' = <<Line("worker", "text")>>
  BY <1>1 DEF Line
<1>9. wpc' \in Running => wpc \in Running
  BY <1>1 DEF Running
<1>10. wpc' = "asked" => wpc = "asked"
  BY <1>1
<1>11. wpc' \in {"write", "idle"} => wpc \in {"write", "idle"}
  BY <1>1
<1>12. WorkerLines(src, p, q_, d)'
  <2>1. src = printed' \/ src = <<Line("worker", "text")>>'
    BY <1>1, <1>8 DEF WorkerLines
  <2>2. wpc' \in Running =>
            src = printed' /\ \E e : Slice(o'.buf, src, d, e) /\ Slice(ob', src, e, Len(src))
    BY <1>1, <1>3, <1>9 DEF WorkerLines
  <2>3. /\ wpc' = "asked" => src = <<>>
        /\ wpc' \in {"write", "idle"} => d = Len(src)
    BY <1>10, <1>11 DEF WorkerLines
  <2>. QED
    BY <1>4, <1>5, <1>7, <2>1, <2>2, <2>3 DEF WorkerLines, Running
<1>13. HandlerLines(src, p)'
  BY <1>1, <1>4, LongerSelf, HandlerLinesKept
<1>. QED
  BY <1>12, <1>13 DEF LinesOK

LEMMA CrashLines ==
    ASSUME Core, NEW src, NEW p, NEW q, NEW d, WorkerLines(src, p, q, d), HandlerLines(src, p), Crash
    PROVE  LinesOK'
<1>1. /\ wpc' = "dead" /\ o' = NoOutput /\ UNCHANGED <<kind, n, printed, handler>>
      /\ pipe' = pipe \/ pipe' = Append(pipe, Torn)
  BY DEF Crash
<1>2. IsSeq(src) /\ In(pipe, src, p, q)
  BY DEF WorkerLines
<1>3. q \in Nat /\ q <= Len(src)
  BY <1>2, InBounds
<1>4. In(o'.out, src, q, q)
  BY <1>1, <1>3, NoOutputIs, InNone
<1>5. In(pipe', src, p, q)
  <2>1. Slice(Carried(Torn), src, q, q)
    BY <1>2, <1>3, SliceEmpty, CarriedIs
  <2>. QED
    BY <1>1, <1>2, <2>1, InAdd
<1>6. src = printed' \/ src = <<Line("worker", "text")>>'
  BY <1>1 DEF WorkerLines, Line
<1>7. WorkerLines(src, p, q, q)'
  BY <1>1, <1>2, <1>4, <1>5, <1>6 DEF WorkerLines, Running
<1>8. HandlerLines(src, p)'
  BY <1>1, <1>2, LongerSelf, HandlerLinesKept
<1>. QED
  BY <1>7, <1>8 DEF LinesOK

LEMMA SendLines ==
    ASSUME Core, NEW r, Send(r)
    PROVE  LinesOK'
<1>1. /\ wpc = "idle" /\ hpc = "idle" /\ wpc' = "asked" /\ acc' = Nothing /\ chan' = <<>>
      /\ client' = NoAnswer /\ printed' = <<>> /\ UNCHANGED <<o, pipe>>
      /\ hpc' \in {"head", "read"}
  BY DEF Send
<1>2. pipe' = <<>> /\ o'.out = <<>>
  BY <1>1 DEF Core, HandlerOK, Phase, WorkerOK
<1>3. IsSeq(<<>>) /\ Len(<<>>) = 0
  BY SeqSmall
<1>4. In(<<>>, <<>>, 0, 0) /\ Slice(<<>>, <<>>, 0, 0)
  BY <1>3, InNone, SliceEmpty
<1>5. WorkerLines(<<>>, 0, 0, 0)'
  BY <1>1, <1>2, <1>3, <1>4 DEF WorkerLines, Running
<1>6. acc'.lines = <<>> /\ client'.end = "waiting"
  BY <1>1 DEF Nothing, NoAnswer
<1>7. HandlerLines(<<>>, 0)'
  BY <1>1, <1>4, <1>6 DEF HandlerLines
<1>. QED
  BY <1>5, <1>7 DEF LinesOK

\* A frame is read: its lines go from the pipe to the reader.
LEMMA ReadLines ==
    ASSUME NEW src, NEW p, NEW q, NEW d, WorkerLines(src, p, q, d), read_frame,
           UNCHANGED <<n, worker>>
    PROVE  \E p_ : /\ WorkerLines(src, p_, q, d)'
                   /\ pipe # <<>> => Slice(Carried(pipe[1]), src, p, p_)
                   /\ pipe = <<>> => p_ = p
<1>1. In(pipe, src, p, q) /\ UNCHANGED <<wpc, ob, o, printed>>
  BY DEF WorkerLines, worker
<1>2. <<Line("worker", "text")>>' = <<Line("worker", "text")>>
  BY DEF Line
<1>3. ASSUME NEW p_, In(pipe', src, p_, q) PROVE WorkerLines(src, p_, q, d)'
  BY <1>1, <1>2, <1>3 DEF WorkerLines, Running
<1>4. CASE pipe = <<>>
  BY <1>1, <1>3, <1>4 DEF read_frame
<1>5. CASE pipe # <<>>
  <2>1. pipe' = Tail(pipe)
    BY <1>5 DEF read_frame
  <2>2. PICK p_ : Slice(Carried(pipe[1]), src, p, p_) /\ In(pipe', src, p_, q)
    BY <1>1, <1>5, <2>1, InFirst
  <2>. QED
    BY <1>3, <1>5, <2>2
<1>. QED
  BY <1>4, <1>5

\* A worker that is done and whose pipe is empty has given all its lines.
LEMMA AllRead ==
    ASSUME NEW src, NEW p, NEW q, NEW d, NEW s, s = <<>>, NEW t, t = <<>>,
           In(s, src, p, q), In(t, src, q, d), d = Len(src)
    PROVE  p = Len(src)
<1>1. q = d
  BY NoneIn
<1>2. p = q
  BY NoneIn
<1>. QED
  BY <1>1, <1>2

LEMMA EndRead ==
    ASSUME WorkerOK, NEW src, NEW p, NEW q, NEW d, WorkerLines(src, p, q, d)',
           wpc = "idle", pipe' = <<>>, UNCHANGED worker
    PROVE  p = Len(src)
<1>1. o'.out = <<>>
  BY DEF WorkerOK, worker
<1>2. In(pipe', src, p, q) /\ In(o'.out, src, q, d) /\ d = Len(src)
  BY DEF WorkerLines, worker
<1>. QED
  BY <1>1, <1>2, AllRead

LEMMA LinesOver ==
    ASSUME NEW src, NEW p, hpc' \in {"idle", "left"}, client'.end # "open"
    PROVE  HandlerLines(src, p)'
  BY DEF HandlerLines

LEMMA RefusalIsPlain ==
    ASSUME NEW s, s = <<Line("worker", "text")>>
    PROVE  Cleaned(s) = s /\ Own(s)
<1>. DEFINE x == Line("worker", "text")
<1>1. x.kind = "text"
  BY DEF Line
<1>2. Own(s)
  BY OwnLines
<1>3. s = <<x>>
  OBVIOUS
<1>. HIDE DEF x
<1>4. IsSeq(s) /\ Len(s) = 1 /\ s[1] = x
  BY <1>3, SeqSmall
<1>5. DOMAIN s = 1 .. 1
  BY <1>4, SeqBasic
<1>6. ~\E i \in DOMAIN s : s[i].kind = "log"
  BY <1>1, <1>4, <1>5
<1>. QED
  BY <1>2, <1>6 DEF Cleaned, extract_structured_logs

\* An answer with all lines of the response is whole.
LEMMA AnswerWhole ==
    ASSUME NEW src, src = printed \/ src = <<Line("worker", "text")>>,
           UNCHANGED <<kind, n, worker>>, NEW code, NEW hs, Answer(client', code, hs, src),
           ~(kind = "stream" /\ headers_request_streaming(hs))
    PROVE  WholeBody'
<1>1. CASE client'.lines = <<Line("file", "text")>>
  BY <1>1, OwnLines DEF WholeBody
<1>2. CASE client'.headers = hs /\ client'.lines = Cleaned(src)
  <2>1. CASE src = printed
    BY <1>2, <2>1 DEF WholeBody, worker
  <2>2. CASE src = <<Line("worker", "text")>>
    BY <1>2, <2>2, RefusalIsPlain DEF WholeBody
  <2>. QED
    BY <2>1, <2>2
<1>. QED
  BY <1>1, <1>2 DEF Answer

LEMMA FailureWhole ==
    ASSUME NEW code, Failure(client', code) PROVE WholeBody'
  BY OwnLines DEF Failure, WholeBody

BodiesOK == WholeBody /\ LinesOK

LEMMA ReadNativeBody ==
    ASSUME Core, BodiesOK, ReadNative
    PROVE  BodiesOK'
<1>1. /\ ~Framed /\ hpc = "read" /\ Frame.f # "None" /\ read_frame /\ hpc' \in {"idle", "left"}
      /\ UNCHANGED <<kind, n, worker, acc, chan>> /\ kind # "stream"
  BY DEF ReadNative, Framed, Dropped
<1>2. PICK c \in Nat : Lined(c) /\ Phase(c)
  BY DEF HandlerOK, Core
<1>3. Reading(c)
  BY <1>1, <1>2, ReadingIs DEF Core
<1>4. PICK src, p, q, d : WorkerLines(src, p, q, d) /\ HandlerLines(src, p)
  BY DEF BodiesOK, LinesOK
<1>5. PICK p_ : /\ WorkerLines(src, p_, q, d)'
                /\ pipe # <<>> => Slice(Carried(pipe[1]), src, p, p_)
  BY <1>1, <1>4, ReadLines
<1>6. client'.end = "complete"
  BY AnsweredIs, FailedIs DEF ReadNative, DefaultAnswer, NamedAnswer, Answer, Failure
<1>7. LinesOK'
  BY <1>1, <1>5, <1>6, LinesOver DEF LinesOK
<1>8. CASE Frame.f = "Native"
  <2>1. /\ wpc = "idle" /\ pipe' = <<>> /\ Frame = pipe[1] /\ pipe # <<>>
    BY <1>1, <1>3, <1>8 DEF Reading
  <2>2. p_ = Len(src)
    BY <1>1, <1>5, <2>1, EndRead DEF Core
  <2>3. p = 0 /\ IsSeq(src) /\ (src = printed \/ src = <<Line("worker", "text")>>)
    BY <1>1, <1>4 DEF HandlerLines, WorkerLines
  <2>4. Carried(Frame) = Frame.lines
    BY <1>8 DEF Carried
  <2>5. Frame.lines = src
    BY <1>5, <2>1, <2>2, <2>3, <2>4, SliceWhole
  <2>. DEFINE code == IF kind = "named" THEN Frame.code ELSE Honoured(Frame.ok, Frame.code)
  <2>6. Answer(client', code, Frame.headers, Frame.lines)
    BY <1>8, AnsweredIs DEF ReadNative, DefaultAnswer, NamedAnswer
  <2>. HIDE DEF code
  <2>7. WholeBody'
    BY <1>1, <2>3, <2>5, <2>6, AnswerWhole
  <2>. QED
    BY <1>7, <2>7 DEF BodiesOK
<1>9. CASE Frame.f # "Native"
  <2>1. WholeBody'
    BY <1>9, FailedIs, FailureWhole DEF ReadNative
  <2>. QED
    BY <1>7, <2>1 DEF BodiesOK
<1>. QED
  BY <1>8, <1>9

\* The client of a buffered answer is gone: nothing is shown to it.
LEMMA UnclaimedBody ==
    ASSUME BodiesOK, ReadUnclaimed
    PROVE  BodiesOK'
<1>1. /\ read_frame /\ hpc' = "idle" /\ client.end = "gone"
      /\ UNCHANGED <<kind, n, worker, client>>
  BY DEF ReadUnclaimed
<1>2. PICK src, p, q, d : WorkerLines(src, p, q, d)
  BY DEF BodiesOK, LinesOK
<1>3. PICK p_ : WorkerLines(src, p_, q, d)'
  BY <1>1, <1>2, ReadLines
<1>4. LinesOK'
  BY <1>1, <1>3, LinesOver DEF LinesOK
<1>5. WholeBody'
  BY <1>1 DEF WholeBody
<1>. QED
  BY <1>4, <1>5 DEF BodiesOK

LEMMA CancelBody ==
    ASSUME Core, BodiesOK, ClientCancels, ~skewed'
    PROVE  BodiesOK'
<1>1. /\ UNCHANGED <<kind, n, worker, pipe, chan>> /\ kind # "channel"
      /\ client' = [client EXCEPT !.end = "gone"]
      /\ hpc' = "left" \/ UNCHANGED <<hpc, acc>>
  BY DEF ClientCancels
<1>2. client'.end = "gone"
  BY <1>1 DEF Core, HandlerTypes, ClientFields
<1>3. PICK src, p, q, d : WorkerLines(src, p, q, d) /\ HandlerLines(src, p)
  BY DEF BodiesOK, LinesOK
<1>4. <<Line("worker", "text")>>' = <<Line("worker", "text")>>
  BY <1>1 DEF Line
<1>5. WorkerLines(src, p, q, d)'
  BY <1>1, <1>3, <1>4 DEF WorkerLines, Running, worker
<1>6. HandlerLines(src, p)'
  <2>1. CASE hpc' = "left"
    BY <1>2, <2>1, LinesOver
  <2>2. CASE UNCHANGED <<hpc, acc>>
    BY <1>1, <1>2, <1>3, <2>2 DEF HandlerLines, Framed
  <2>. QED
    BY <1>1, <2>1, <2>2
<1>7. WholeBody'
  BY <1>2 DEF WholeBody
<1>. QED
  BY <1>5, <1>6, <1>7 DEF BodiesOK, LinesOK

\* Each step of the handler moves the lines of one frame from the pipe to where
\* it keeps them, or ends the answer.
LEMMA DecodeBody ==
    ASSUME Core, Settled, BodiesOK, Decode
    PROVE  BodiesOK'
<1>1. /\ kind = "persistent" /\ hpc = "read" /\ Frame.f # "None" /\ read_frame
      /\ UNCHANGED <<kind, n, worker, chan>> /\ Framed
  BY DEF Decode, Framed
<1>2. PICK c \in Nat : Lined(c) /\ Phase(c)
  BY DEF HandlerOK, Core
<1>3. Reading(c)
  BY <1>1, <1>2, ReadingIs DEF Core
<1>4. Decoding(c)
  BY <1>2, <1>3, DecodeDoes DEF Core
<1>5. PICK src, p, q, d : WorkerLines(src, p, q, d) /\ HandlerLines(src, p)
  BY DEF BodiesOK, LinesOK
<1>6. PICK p_ : /\ WorkerLines(src, p_, q, d)'
                /\ pipe # <<>> => Slice(Carried(pipe[1]), src, p, p_)
  BY <1>1, <1>5, ReadLines
<1>7. IsSeq(src) /\ (src = printed \/ src = <<Line("worker", "text")>>)
      /\ Slice(acc.lines, src, 0, p)
  BY <1>1, <1>5 DEF WorkerLines, HandlerLines
<1>8. CASE Failure(client', 502) /\ hpc' = "left"
  <2>1. client'.end = "complete"
    BY <1>8 DEF Failure
  <2>2. LinesOK'
    BY <1>6, <1>8, <2>1, LinesOver DEF LinesOK
  <2>. QED
    BY <1>8, <2>2, FailureWhole DEF BodiesOK
<1>9. CASE /\ Frame.f = "End" /\ hpc' = "idle"
           /\ Answer(client', Honoured(Frame.ok, acc.code), acc.headers, acc.lines)
  <2>1. /\ wpc = "idle" /\ pipe' = <<>> /\ Frame = pipe[1] /\ pipe # <<>>
    BY <1>1, <1>3, <1>9 DEF Reading
  <2>2. p_ = Len(src)
    BY <1>1, <1>6, <2>1, EndRead DEF Core
  <2>3. Carried(pipe[1]) = <<>>
    BY <1>9, <2>1 DEF Carried
  <2>4. Slice(<<>>, src, p, p_)
    BY <1>6, <2>1, <2>3
  <2>5. p = Len(src)
    BY <2>2, <2>4, EmptySlice
  <2>6. acc.lines = src
    BY <1>7, <2>5, SliceWhole
  <2>. DEFINE code == Honoured(Frame.ok, acc.code)
  <2>7. Answer(client', code, acc.headers, src) /\ client'.end = "complete"
    BY <1>9, <2>6 DEF Answer
  <2>. HIDE DEF code
  <2>8. WholeBody'
    BY <1>1, <1>7, <2>7, AnswerWhole
  <2>9. LinesOK'
    BY <1>6, <1>9, <2>7, LinesOver DEF LinesOK
  <2>. QED
    BY <2>8, <2>9 DEF BodiesOK
<1>10. CASE /\ Frame.f \in {"Headers", "BodyChunk"} /\ UNCHANGED <<hpc, client>>
            /\ \/ Frame.f = "Headers" /\ acc'.lines = acc.lines
               \/ Frame.f = "BodyChunk" /\ acc'.lines = acc.lines \o Frame.lines
  <2>1. client.end \notin {"complete", "open"}
    BY <1>1, <1>10 DEF Settled, Shown
  <2>2. Frame = pipe[1] /\ pipe # <<>>
    BY <1>3, <1>10 DEF Reading
  <2>3. Slice(Carried(Frame), src, p, p_)
    BY <1>6, <2>2
  <2>4. Slice(acc'.lines, src, 0, p_)
    <3>1. CASE Frame.f = "Headers" /\ acc'.lines = acc.lines
      <4>1. Carried(Frame) = <<>>
        BY <3>1 DEF Carried
      <4>2. p = p_
        BY <2>3, <4>1, EmptySlice
      <4>. QED
        BY <1>7, <3>1, <4>2
    <3>2. CASE Frame.f = "BodyChunk" /\ acc'.lines = acc.lines \o Frame.lines
      <4>1. Carried(Frame) = Frame.lines
        BY <3>2 DEF Carried
      <4>. QED
        BY <1>7, <2>3, <3>2, <4>1, SliceJoin
    <3>. QED
      BY <1>10, <3>1, <3>2
  <2>5. HandlerLines(src, p_)'
    BY <1>1, <1>10, <2>1, <2>4 DEF HandlerLines, Framed
  <2>6. WholeBody'
    BY <1>10, <2>1 DEF WholeBody
  <2>. QED
    BY <1>6, <2>5, <2>6 DEF BodiesOK, LinesOK
<1>. QED
  BY <1>4, <1>8, <1>9, <1>10 DEF Decoding, BodyRead

LEMMA ReadHeadBody ==
    ASSUME Core, Settled, BodiesOK, ReadHead
    PROVE  BodiesOK'
<1>1. /\ hpc = "head" /\ Frame.f # "None" /\ read_frame /\ UNCHANGED <<kind, n, worker, chan>>
  BY DEF ReadHead
<1>2. PICK c \in Nat : Lined(c) /\ Phase(c)
  BY DEF HandlerOK, Core
<1>3. Reading(c)
  BY <1>1, <1>2, ReadingIs DEF Core
<1>4. HeadReading
  BY <1>2, <1>3, ReadHeadDoes
<1>5. PICK src, p, q, d : WorkerLines(src, p, q, d) /\ HandlerLines(src, p)
  BY DEF BodiesOK, LinesOK
<1>6. PICK p_ : /\ WorkerLines(src, p_, q, d)'
                /\ pipe # <<>> => Slice(Carried(pipe[1]), src, p, p_)
  BY <1>1, <1>5, ReadLines
<1>7. IsSeq(src) /\ p = 0 /\ chan = <<>>
  BY <1>1, <1>5 DEF WorkerLines, HandlerLines
<1>8. CASE Failure(client', 500) /\ hpc' = "idle"
  <2>1. client'.end = "complete"
    BY <1>8 DEF Failure
  <2>2. LinesOK'
    BY <1>6, <1>8, <2>1, LinesOver DEF LinesOK
  <2>. QED
    BY <1>8, <2>2, FailureWhole DEF BodiesOK
<1>9. CASE Frame.f = "Headers" /\ TopRead(acc', Frame)
  <2>1. Frame = pipe[1] /\ pipe # <<>>
    BY <1>3, <1>9 DEF Reading
  <2>2. Carried(Frame) = <<>>
    BY <1>9 DEF Carried
  <2>3. p_ = 0
    BY <1>6, <1>7, <2>1, <2>2, EmptySlice
  <2>4. 0 <= Len(src)
    BY <1>7, SeqBasic
  <2>5. Slice(<<>>, src, 0, 0) /\ Queued(<<>>, src, 0, 0)
    BY <1>7, <2>4, SliceEmpty, InNone
  <2>6. client.end \notin {"complete", "open"}
    BY <1>1, <1>5 DEF Settled, Shown, HandlerLines
  <2>7. acc'.headers = Frame.headers /\ acc'.lines = <<>>
    BY <1>4, <1>9 DEF HeadReading, TopRead
  <2>8. CASE headers_request_streaming(Frame.headers)
    <3>1. /\ hpc' = "forward" /\ client'.end = "open" /\ client'.headers = Frame.headers
          /\ client'.lines = <<>> /\ chan' = <<>>
      BY <1>1, <1>4, <1>7, <1>9, <2>8 DEF HeadReading
    <3>2. HandlerLines(src, 0)'
      BY <2>5, <2>8, <3>1 DEF HandlerLines
    <3>3. WholeBody'
      BY <3>1 DEF WholeBody
    <3>. QED
      BY <1>6, <2>3, <3>2, <3>3 DEF BodiesOK, LinesOK
  <2>9. CASE ~headers_request_streaming(Frame.headers)
    <3>1. hpc' = "drain" /\ UNCHANGED client
      BY <1>4, <1>9, <2>9 DEF HeadReading
    <3>2. HandlerLines(src, 0)'
      BY <2>5, <2>6, <2>7, <2>9, <3>1 DEF HandlerLines
    <3>3. WholeBody'
      BY <2>6, <3>1 DEF WholeBody
    <3>. QED
      BY <1>6, <2>3, <3>2, <3>3 DEF BodiesOK, LinesOK
  <2>. QED
    BY <2>8, <2>9
<1>. QED
  BY <1>4, <1>8, <1>9 DEF HeadReading

LEMMA DrainBodies ==
    ASSUME Core, Settled, BodiesOK, DrainBody
    PROVE  BodiesOK'
<1>1. /\ hpc = "drain" /\ Frame.f # "None" /\ read_frame /\ UNCHANGED <<kind, n, worker, chan>>
  BY DEF DrainBody
<1>2. PICK c \in Nat : Lined(c) /\ Phase(c)
  BY DEF HandlerOK, Core
<1>3. Reading(c) /\ kind = "stream" /\ Framed
  BY <1>1, <1>2, ReadingIs DEF Core, Phase, Framed
<1>4. Draining
  BY <1>2, <1>3, DrainDoes DEF Core
<1>5. PICK src, p, q, d : WorkerLines(src, p, q, d) /\ HandlerLines(src, p)
  BY DEF BodiesOK, LinesOK
<1>6. PICK p_ : /\ WorkerLines(src, p_, q, d)'
                /\ pipe # <<>> => Slice(Carried(pipe[1]), src, p, p_)
  BY <1>1, <1>5, ReadLines
<1>7. IsSeq(src) /\ (src = printed \/ src = <<Line("worker", "text")>>)
      /\ Slice(acc.lines, src, 0, p) /\ ~headers_request_streaming(acc.headers)
      /\ client.end \notin {"complete", "open"}
  BY <1>1, <1>5 DEF WorkerLines, HandlerLines, Settled, Shown
<1>8. CASE Failure(client', 500) /\ hpc' = "idle"
  <2>1. client'.end = "complete"
    BY <1>8 DEF Failure
  <2>2. LinesOK'
    BY <1>6, <1>8, <2>1, LinesOver DEF LinesOK
  <2>. QED
    BY <1>8, <2>2, FailureWhole DEF BodiesOK
<1>9. CASE /\ Frame.f = "End" /\ hpc' = "idle"
           /\ Answer(client', acc.code, acc.headers, acc.lines)
  <2>1. /\ wpc = "idle" /\ pipe' = <<>> /\ Frame = pipe[1] /\ pipe # <<>>
    BY <1>1, <1>3, <1>9 DEF Reading
  <2>2. p_ = Len(src)
    BY <1>1, <1>6, <2>1, EndRead DEF Core
  <2>3. Carried(pipe[1]) = <<>>
    BY <1>9, <2>1 DEF Carried
  <2>4. Slice(<<>>, src, p, p_)
    BY <1>6, <2>1, <2>3
  <2>5. p = Len(src)
    BY <2>2, <2>4, EmptySlice
  <2>6. acc.lines = src
    BY <1>7, <2>5, SliceWhole
  <2>7. Answer(client', acc.code, acc.headers, src) /\ client'.end = "complete"
    BY <1>9, <2>6 DEF Answer
  <2>8. WholeBody'
    BY <1>1, <1>7, <2>7, AnswerWhole
  <2>9. LinesOK'
    BY <1>6, <1>9, <2>7, LinesOver DEF LinesOK
  <2>. QED
    BY <2>8, <2>9 DEF BodiesOK
<1>10. CASE Frame.f = "BodyChunk" /\ BodyRead(acc', acc, Frame) /\ UNCHANGED <<hpc, client>>
  <2>1. acc'.lines = acc.lines \o Frame.lines /\ acc'.headers = acc.headers
    BY <1>10 DEF BodyRead
  <2>2. Frame = pipe[1] /\ pipe # <<>>
    BY <1>3, <1>10 DEF Reading
  <2>3. Carried(Frame) = Frame.lines
    BY <1>10 DEF Carried
  <2>4. Slice(acc'.lines, src, 0, p_)
    BY <1>6, <1>7, <2>1, <2>2, <2>3, SliceJoin
  <2>5. HandlerLines(src, p_)'
    BY <1>1, <1>7, <1>10, <2>1, <2>4 DEF HandlerLines
  <2>6. WholeBody'
    BY <1>7, <1>10 DEF WholeBody
  <2>. QED
    BY <1>6, <2>5, <2>6 DEF BodiesOK, LinesOK
<1>. QED
  BY <1>4, <1>8, <1>9, <1>10 DEF Draining

\* A channel without a broken entry had none before the last.
LEMMA LessBroken ==
    ASSUME NEW s, IsSeq(s), NEW e, NEW r, r = Append(s, e), Unbroken(r)
    PROVE  Unbroken(s) /\ e # <<Torn>>
<1>1. Added(s, e, r) /\ Len(s) \in Nat
  BY SeqAppend, SeqBasic
<1>2. Len(r) = Len(s) + 1 /\ r[Len(s) + 1] = e /\ \A i \in 1 .. Len(s) : r[i] = s[i]
  BY <1>1 DEF Added
<1>3. Len(s) + 1 \in 1 .. Len(r)
  BY <1>1, <1>2
<1>4. e # <<Torn>>
  BY <1>2, <1>3 DEF Unbroken
<1>5. ASSUME NEW i \in 1 .. Len(s) PROVE s[i] # <<Torn>>
  <2>1. i \in 1 .. Len(r) /\ r[i] = s[i]
    BY <1>1, <1>2
  <2>. QED
    BY <2>1 DEF Unbroken
<1>. QED
  BY <1>4, <1>5 DEF Unbroken

LEMMA ForwardBody ==
    ASSUME Core, Settled, BodiesOK, Forward
    PROVE  BodiesOK'
<1>1. /\ hpc \in {"forward", "discard"} /\ Frame.f # "None" /\ read_frame
      /\ UNCHANGED <<kind, n, worker, acc, client>>
  BY DEF Forward, ForwardChunk, ForwardEnds, ForwardDiscards
<1>2. PICK c \in Nat : Lined(c) /\ Phase(c)
  BY DEF HandlerOK, Core
<1>3. Reading(c)
  BY <1>1, <1>2, ReadingIs DEF Core
<1>4. PICK src, p, q, d : WorkerLines(src, p, q, d) /\ HandlerLines(src, p)
  BY DEF BodiesOK, LinesOK
<1>5. PICK p_ : /\ WorkerLines(src, p_, q, d)'
                /\ pipe # <<>> => Slice(Carried(pipe[1]), src, p, p_)
                /\ pipe = <<>> => p_ = p
  BY <1>1, <1>4, ReadLines
<1>6. WholeBody'
  BY <1>1 DEF Settled, Shown, WholeBody
<1>7. /\ client.end = "open" => headers_request_streaming(client.headers)
      /\ client.end = "open" /\ Unbroken(chan) =>
             \E a : Slice(client.lines, src, 0, a) /\ Queued(chan, src, a, p)
      /\ hpc = "discard" => client.end # "open"
  BY <1>4 DEF HandlerLines
<1>8. CASE client.end # "open"
  <2>1. hpc' \in {"idle", "forward", "discard"}
    BY <1>1 DEF Forward, ForwardChunk, ForwardEnds, ForwardDiscards, Released
  <2>2. HandlerLines(src, p_)'
    BY <1>1, <1>8, <2>1 DEF HandlerLines
  <2>. QED
    BY <1>5, <1>6, <2>2 DEF BodiesOK, LinesOK
<1>9. CASE client.end = "open"
  <2>1. hpc = "forward"
    BY <1>1, <1>7, <1>9
  <2>2. ASSUME Unbroken(chan')
        PROVE  \E a : Slice(client.lines, src, 0, a) /\ Queued(chan', src, a, p_)
    <3>1. CASE ForwardChunk
      <4>1. chan' = Append(chan, Frame.lines) /\ Frame = pipe[1] /\ pipe # <<>>
            /\ Carried(Frame) = Frame.lines
        BY <1>3, <3>1 DEF ForwardChunk, Reading, Carried
      <4>2. Unbroken(chan)
        BY <2>2, <4>1, LessBroken DEF Core, HandlerTypes
      <4>3. PICK a : Slice(client.lines, src, 0, a) /\ Queued(chan, src, a, p)
        BY <1>7, <1>9, <4>2
      <4>4. Slice(Frame.lines, src, p, p_)
        BY <1>5, <4>1
      <4>. QED
        BY <4>1, <4>3, <4>4, QueuedAdd
    <3>2. CASE ForwardEnds
      <4>1. Frame.f # "Torn"
        <5>1. ASSUME chan' = Append(chan, <<Torn>>) PROVE FALSE
          BY <2>2, <5>1, LessBroken DEF Core, HandlerTypes
        <5>. QED
          BY <1>9, <2>1, <3>2, <5>1 DEF ForwardEnds
      <4>2. chan' = chan /\ Frame.f \in {"End", "Eof"}
        BY <3>2, <4>1 DEF ForwardEnds
      <4>3. p_ = p
        <5>1. CASE pipe # <<>>
          <6>1. Frame = pipe[1]
            BY <1>3, <4>1, <4>2, <5>1 DEF Reading, Frame
          <6>2. Carried(pipe[1]) = <<>>
            BY <4>2, <6>1 DEF Carried
          <6>3. Slice(<<>>, src, p, p_)
            BY <1>5, <5>1, <6>2
          <6>. QED
            BY <6>3, EmptySlice
        <5>. QED
          BY <1>5, <5>1
      <4>. QED
        BY <1>7, <1>9, <2>2, <4>2, <4>3
    <3>. QED
      BY <1>9, <2>1, <3>1, <3>2 DEF Forward, ForwardDiscards
  <2>3. hpc' \in {"idle", "forward"}
    BY <1>9, <2>1 DEF Forward, ForwardChunk, ForwardEnds, ForwardDiscards, Released
  <2>4. HandlerLines(src, p_)'
    BY <1>1, <1>7, <1>9, <2>2, <2>3 DEF HandlerLines
  <2>. QED
    BY <1>5, <1>6, <2>4 DEF BodiesOK, LinesOK
<1>. QED
  BY <1>8, <1>9

\* The first part of a body is a prefix of it.
LEMMA SlicePrefix ==
    ASSUME NEW src, IsSeq(src), NEW x, NEW p, Slice(x, src, 0, p)
    PROVE  IsPrefix(x, src)
<1>. DEFINE S == {x[i] : i \in DOMAIN x} \union {src[i] : i \in DOMAIN src}
<1>1. x \in Seq(S) /\ src \in Seq(S)
  BY SeqMonotonic DEF IsSeq, Slice
<1>2. /\ p \in Nat /\ Len(x) = p /\ p <= Len(src) /\ Len(src) \in Nat /\ Len(x) \in Nat
      /\ DOMAIN x = 1 .. Len(x) /\ DOMAIN src = 1 .. Len(src)
      /\ \A i \in 1 .. p : x[i] = src[i]
  BY SeqBasic DEF Slice
<1>3. /\ \A i \in 1 .. p : x[i] \in S
      /\ \A i \in 1 .. p : src[i] \in S
  BY <1>2
<1>. HIDE DEF S
<1>. DEFINE y == SubSeq(src, 1, p)
<1>4. /\ y \in Seq(S) /\ Len(y) = IF 1 <= p THEN p - 1 + 1 ELSE 0
      /\ \A i \in 1 .. p - 1 + 1 : y[i] = src[1 + i - 1]
  <2>1. p \in Int /\ 1 \in Int
    BY <1>2
  <2>. QED
    BY <1>3, <2>1, SubSeqProperties
<1>5. Len(y) = p /\ \A i \in 1 .. p : y[i] = src[i]
  BY <1>2, <1>4
<1>6. x = y
  <2>. HIDE DEF y
  <2>. QED
    BY <1>1, <1>2, <1>4, <1>5, SeqEqual
<1>7. SubSeq(x, 1, Len(x)) = x
  BY <1>1, SubSeqFull
<1>. QED
  BY <1>2, <1>6, <1>7 DEF IsPrefix

\* A streamed answer that has come to its end.
LEMMA EndSeen ==
    ASSUME Core, Settled, BodiesOK, ClientSeesEnd
    PROVE  WholeBody'
<1>1. /\ client.end = "open" /\ chan = <<>> /\ hpc = "idle" /\ kind = "stream"
      /\ UNCHANGED <<kind, n, worker>>
      /\ client' = [client EXCEPT !.end = "complete"]
  BY DEF ClientSeesEnd, Settled, Shown
<1>2. client'.lines = client.lines /\ client'.headers = client.headers
  BY <1>1 DEF Core, HandlerTypes, ClientFields
<1>3. PICK src, p, q, d : WorkerLines(src, p, q, d) /\ HandlerLines(src, p)
  BY DEF BodiesOK, LinesOK
<1>4. Unbroken(chan)
  <2>1. Len(chan) = 0
    BY <1>1, SeqSmall
  <2>. QED
    BY <2>1 DEF Unbroken
<1>5. /\ headers_request_streaming(client.headers)
      /\ \E a : Slice(client.lines, src, 0, a) /\ Queued(chan, src, a, p)
  BY <1>1, <1>3, <1>4 DEF HandlerLines
<1>6. Slice(client.lines, src, 0, p)
  <2>1. PICK a : Slice(client.lines, src, 0, a) /\ Queued(chan, src, a, p)
    BY <1>5
  <2>2. a = p
    BY <1>1, <2>1, NoneIn
  <2>. QED
    BY <2>1, <2>2
<1>7. IsSeq(src) /\ (src = printed \/ src = <<Line("worker", "text")>>) /\ IsSeq(printed)
  BY <1>3 DEF WorkerLines, Core, WorkerTypes
<1>8. CASE wpc = "dead"
  <2>1. Own(client.lines) \/ IsPrefix(client.lines, printed)
    <3>1. CASE src = printed
      BY <1>6, <1>7, <3>1, SlicePrefix
    <3>2. CASE src = <<Line("worker", "text")>>
      <4>1. Len(src) = 1 /\ p \in Nat /\ p <= 1
        BY <1>6, <3>2, SeqSmall DEF Slice
      <4>2. CASE p = 1
        <5>1. client.lines = src
          BY <1>6, <1>7, <4>1, <4>2, SliceWhole
        <5>. QED
          BY <3>2, <5>1, OwnLines
      <4>3. CASE p = 0
        <5>1. Slice(client.lines, printed, 0, 0)
          BY <1>6, <1>7, <4>3, SeqBasic DEF Slice
        <5>. QED
          BY <1>7, <5>1, SlicePrefix
      <4>. QED
        BY <4>1, <4>2, <4>3
    <3>. QED
      BY <1>7, <3>1, <3>2
  <2>. QED
    BY <1>1, <1>2, <1>5, <1>8, <2>1 DEF WholeBody, worker
<1>9. CASE wpc = "idle" /\ pipe = <<>>
  <2>1. o.out = <<>> /\ In(pipe, src, p, q) /\ In(o.out, src, q, d) /\ d = Len(src)
    BY <1>3, <1>9 DEF WorkerLines, Core, WorkerOK
  <2>2. p = Len(src)
    BY <1>9, <2>1, AllRead
  <2>3. client.lines = src
    BY <1>6, <1>7, <2>2, SliceWhole
  <2>4. Own(client.lines) \/ client.lines = printed
    BY <1>7, <2>3, OwnLines
  <2>. QED
    BY <1>1, <1>2, <1>5, <1>9, <2>4 DEF WholeBody, worker
<1>. QED
  BY <1>1, <1>8, <1>9 DEF Core, HandlerOK, Phase

LEMMA ClientBody ==
    ASSUME Core, Settled, BodiesOK, ClientStep
    PROVE  BodiesOK'
<1>1. /\ client.end = "open" /\ UNCHANGED <<kind, n, worker, pipe, hpc, acc>>
      /\ DOMAIN client = ClientFields /\ IsSeq(chan)
  BY DEF ClientStep, ClientReads, ClientSeesEnd, ClientLeaves, Core, HandlerTypes
<1>2. PICK src, p, q, d : WorkerLines(src, p, q, d) /\ HandlerLines(src, p)
  BY DEF BodiesOK, LinesOK
<1>3. WorkerLines(src, p, q, d)'
  <2>1. <<Line("worker", "text")>>' = <<Line("worker", "text")>>
    BY <1>1 DEF Line
  <2>. QED
    BY <1>1, <1>2, <2>1 DEF WorkerLines, Running, worker
<1>4. /\ hpc \in {"read", "drain"} => Slice(acc.lines, src, 0, p)
      /\ hpc \notin {"head", "drain", "discard"}
      /\ hpc = "read" /\ ~Framed => p = 0
      /\ headers_request_streaming(client.headers)
      /\ Unbroken(chan) => \E a : Slice(client.lines, src, 0, a) /\ Queued(chan, src, a, p)
  BY <1>1, <1>2 DEF HandlerLines
<1>5. CASE client'.end # "open"
  <2>1. HandlerLines(src, p)'
    BY <1>1, <1>4, <1>5 DEF HandlerLines, Framed
  <2>2. WholeBody'
    <3>1. CASE client'.end = "complete"
      <4>1. ClientSeesEnd
        BY <1>1, <3>1 DEF ClientStep, ClientReads, ClientLeaves, ClientFields
      <4>. QED
        BY <4>1, EndSeen
    <3>2. CASE client'.end # "complete"
      BY <3>2 DEF WholeBody
    <3>. QED
      BY <3>1, <3>2
  <2>. QED
    BY <1>3, <2>1, <2>2 DEF BodiesOK, LinesOK
<1>6. CASE client'.end = "open"
  <2>1. /\ chan # <<>> /\ chan' = Tail(chan) /\ Head(chan) # <<Torn>>
        /\ client' = [client EXCEPT !.lines = @ \o Head(chan)]
    BY <1>1, <1>6 DEF ClientStep, ClientReads, ClientSeesEnd, ClientLeaves, ClientFields
  <2>2. client'.lines = client.lines \o Head(chan) /\ client'.headers = client.headers
    BY <1>1, <2>1 DEF ClientFields
  <2>3. Shifted(chan, chan') /\ Head(chan) = chan[1] /\ Len(chan) \in Nat
    BY <1>1, <2>1, SeqTail, SeqBasic
  <2>4. ASSUME Unbroken(chan')
        PROVE  \E a : Slice(client'.lines, src, 0, a) /\ Queued(chan', src, a, p)
    <3>1. Unbroken(chan)
      <4>1. ASSUME NEW i \in 1 .. Len(chan) PROVE chan[i] # <<Torn>>
        <5>1. CASE i = 1
          BY <2>1, <2>3, <5>1
        <5>2. CASE i # 1
          <6>1. i - 1 \in 1 .. Len(chan') /\ chan'[i - 1] = chan[(i - 1) + 1] /\ (i - 1) + 1 = i
            BY <2>3, <5>2 DEF Shifted
          <6>2. chan'[i - 1] # <<Torn>>
            BY <2>4, <6>1 DEF Unbroken
          <6>. QED
            BY <6>1, <6>2
        <5>. QED
          BY <5>1, <5>2
      <4>. QED
        BY <4>1 DEF Unbroken
    <3>2. PICK a : Slice(client.lines, src, 0, a) /\ Queued(chan, src, a, p)
      BY <1>4, <3>1
    <3>3. PICK b : Slice(chan[1], src, a, b) /\ Queued(chan', src, b, p)
      BY <2>1, <3>2, QueuedFirst
    <3>4. IsSeq(src)
      BY <1>2 DEF WorkerLines
    <3>5. Slice(client'.lines, src, 0, b)
      BY <2>2, <2>3, <3>2, <3>3, <3>4, SliceJoin
    <3>. QED
      BY <3>3, <3>5
  <2>5. HandlerLines(src, p)'
    BY <1>1, <1>4, <1>6, <2>2, <2>4 DEF HandlerLines, Framed
  <2>6. WholeBody'
    BY <1>6 DEF WholeBody
  <2>. QED
    BY <1>3, <2>5, <2>6 DEF BodiesOK, LinesOK
<1>. QED
  BY <1>5, <1>6

LEMMA NextBody ==
    ASSUME Core, Settled, BodiesOK, [Next]_vars, ~skewed'
    PROVE  BodiesOK'
<1>1. CASE \E r \in Requests(Format) : Send(r)
  <2>1. LinesOK'
    BY <1>1, SendLines
  <2>2. client'.end = "waiting"
    BY <1>1 DEF Send, NoAnswer
  <2>. QED
    BY <2>1, <2>2 DEF BodiesOK, WholeBody
<1>2. CASE WorkerStep \/ Crash
  <2>1. wpc \notin {"idle", "dead"} /\ UNCHANGED handler
    BY <1>2, QuietIs DEF WorkerStep, Crash, Write, Core, WorkerOK
  <2>2. client'.end = "complete" => Own(client'.lines)
    BY <2>1 DEF Core, HandlerOK, Phase, Settled, Shown, handler
  <2>3. PICK src, p, q, d : WorkerLines(src, p, q, d) /\ HandlerLines(src, p)
    BY DEF BodiesOK, LinesOK
  <2>4. LinesOK'
    BY <1>2, <2>3, TakeLines, ScriptLines, EndLines, FinishLines, WritingLines, CrashLines
       DEF WorkerStep
  <2>. QED
    BY <2>2, <2>4 DEF BodiesOK, WholeBody
<1>3. CASE HandlerStep
  <2>1. ~Misread /\ ~ReadLost
    BY DEF Misread, ReadLost, Core, HandlerOK, Phase
  <2>. QED
    BY <1>3, <2>1, ReadNativeBody, UnclaimedBody, DecodeBody, ReadHeadBody, DrainBodies, ForwardBody
       DEF HandlerStep
<1>4. CASE ClientStep \/ ClientCancels
  BY <1>4, ClientBody, CancelBody
<1>5. CASE UNCHANGED vars
  <2>1. UNCHANGED <<kind, n, wpc, o, ob, pipe, printed, handler, skewed>>
    BY <1>5 DEF vars, handler
  <2>2. PICK src, p, q, d : WorkerLines(src, p, q, d) /\ HandlerLines(src, p)
    BY DEF BodiesOK, LinesOK
  <2>3. <<Line("worker", "text")>>' = <<Line("worker", "text")>>
    BY <2>1 DEF Line
  <2>4. WorkerLines(src, p, q, d)'
    BY <2>1, <2>2, <2>3 DEF WorkerLines, Running
  <2>5. IsSeq(src)
    BY <2>2 DEF WorkerLines
  <2>6. HandlerLines(src, p)'
    BY <2>1, <2>2, <2>5, LongerSelf, HandlerLinesKept
  <2>7. WholeBody'
    BY <2>1 DEF BodiesOK, WholeBody, handler
  <2>. QED
    BY <2>4, <2>6, <2>7 DEF BodiesOK, LinesOK
<1>. QED
  BY <1>1, <1>2, <1>3, <1>4, <1>5 DEF Next

LEMMA InitBody ==
    ASSUME Init PROVE BodiesOK
<1>1. /\ wpc = "idle" /\ hpc = "idle" /\ printed = <<>> /\ pipe = <<>> /\ o.out = <<>>
      /\ client.end = "complete" /\ client.lines = <<>> /\ o = NoOutput
  BY NoOutputIs DEF Init, NoAnswer
<1>2. IsSeq(<<>>) /\ Len(<<>>) = 0
  BY SeqSmall
<1>3. In(<<>>, <<>>, 0, 0)
  BY <1>2, InNone
<1>4. WorkerLines(<<>>, 0, 0, 0)
  BY <1>1, <1>2, <1>3 DEF WorkerLines, Running
<1>5. HandlerLines(<<>>, 0)
  BY <1>1 DEF HandlerLines
<1>6. Cleaned(<<>>) = <<>>
  <2>1. ~\E i \in DOMAIN <<>> : <<>>[i].kind = "log"
    BY <1>2, SeqBasic
  <2>. QED
    BY <2>1 DEF Cleaned, extract_structured_logs
<1>7. WholeBody
  BY <1>1, <1>6 DEF WholeBody
<1>. QED
  BY <1>4, <1>5, <1>7 DEF BodiesOK, LinesOK

\* A complete answer has every line this request printed, in order, and no
\* other, whichever of the five paths it took and however the script's calls,
\* PHP's buffers, the frames, the pipe, the body channel and the client
\* interleave: no flush, no full pipe and no earlier request loses, doubles or
\* reorders a line (crates/turbine-worker/src/{pool,persistent,stream}.rs,
\* start_streaming_forwarder).  After a crash a streamed answer has the first
\* lines, in order.
THEOREM BodiesAreWhole == Spec => []WholeBody
<1>1. Init => Core /\ Settled /\ BodiesOK
  BY InitWorker, InitHandler, InitCodes, InitBody DEF Core, Settled
<1>2. (skewed \/ (Core /\ Settled /\ BodiesOK)) /\ [Next]_vars
          => (skewed \/ (Core /\ Settled /\ BodiesOK))'
  BY NextCore, NextFrameData, NextCodes, NextBody, SkewStays DEF Settled
<1>3. skewed \/ (Core /\ Settled /\ BodiesOK) => WholeBody
  BY DEF BodiesOK, WholeBody
<1>. QED
  BY <1>1, <1>2, <1>3, PTL DEF Spec
=============================================================================
