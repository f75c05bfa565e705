----------------------------- MODULE WireFormat -----------------------------
(***************************************************************************)
(* How a request is laid out on the command pipe: encode_native_request,   *)
(* encode_request and their two decoders, of                               *)
(* crates/turbine-worker/src/{pool,persistent}.rs.                         *)
(*                                                                         *)
(* A message is a sequence of cells.  A number takes one cell whatever its *)
(* width in bytes, a byte of a string or of the body takes one cell, and   *)
(* the cell 0 is the NUL behind every string.  A length is cut to the      *)
(* width of its field: 16 bits in the native format, 32 in the other.      *)
(***************************************************************************)
EXTENDS Integers, Sequences, SequencesExt

CONSTANT Width      \* 2^16

ASSUME WidthAssumption == Width \in Nat \ {0, 1}

Formats == {"native", "persistent"}

\* The numbers a length field of the format can hold.
Limit(format) == IF format = "native" THEN Width ELSE Width * Width

\* The fields of NativeRequest and of DecodedRequest in wire order, by kind.
Layout(format) ==
    IF format = "native"
    THEN <<"str", "str", "str", "str", "str",   \* script_path .. content_type
           "num", "str", "str", "str",          \* content_length, cookie .. remote_addr
           "num", "num", "num", "str", "str",   \* ports, is_https, path_info, script_name
           "body", "headers">>
    ELSE <<"str", "str", "body", "str",         \* method, uri, body, client_ip
           "num", "num", "headers",             \* port, is_https
           "str", "str", "str", "str", "str", "str", "str">>

----------------------------------------------------------------------------
write_str(limit, s) == <<Len(s) % limit>> \o s \o <<0>>

\* Headers are names and values in turn.
write_field(limit, kind, v) ==
    CASE kind = "str"     -> write_str(limit, v)
      [] kind = "num"     -> <<v>>
      [] kind = "body"    -> <<Len(v) % (Width * Width)>> \o v
      [] kind = "headers" -> <<(Len(v) \div 2) % limit>>
                             \o FlattenSeq([i \in DOMAIN v |-> write_str(limit, v[i])])

encode(format, r) ==
    FlattenSeq([i \in DOMAIN Layout(format) |->
                   write_field(Limit(format), Layout(format)[i], r[i])])

----------------------------------------------------------------------------
\* F(e), with e evaluated once.
With(e, F(_)) == CHOOSE v \in {F(x) : x \in {e}} : TRUE

\* The state of a decoder: the cells read, and the fields, until one fails.
Refused == [pos |-> 0, vals |-> <<"refused">>, ok |-> FALSE]

Took(d, cells, v) == [d EXCEPT !.pos = @ + cells, !.vals = Append(@, v)]

\* Defect: the NUL behind the string is not checked.
read_cstrUnchecked(data, d) ==
    IF ~d.ok \/ d.pos + 1 > Len(data) THEN Refused
    ELSE LET len == data[d.pos + 1]
         IN  IF d.pos + len + 2 > Len(data) THEN Refused
             ELSE Took(d, len + 2, SubSeq(data, d.pos + 2, d.pos + 1 + len))

\* A length, the string and its NUL: the slice must end in its only NUL.
read_cstr(data, d) ==
    IF ~d.ok \/ d.pos + 1 > Len(data) THEN Refused
    ELSE LET len == data[d.pos + 1]
             s   == SubSeq(data, d.pos + 2, d.pos + 1 + len)
         IN  IF \/ d.pos + len + 2 > Len(data)
                \/ data[d.pos + len + 2] # 0
                \/ \E i \in DOMAIN s : s[i] = 0
             THEN Refused
             ELSE Took(d, len + 2, s)

read_num(data, d) ==
    IF ~d.ok \/ d.pos + 1 > Len(data) THEN Refused ELSE Took(d, 1, data[d.pos + 1])

read_bytes(data, d) ==
    IF ~d.ok \/ d.pos + 1 > Len(data) THEN Refused
    ELSE LET len == data[d.pos + 1]
         IN  IF d.pos + len + 1 > Len(data) THEN Refused
             ELSE Took(d, len + 1, SubSeq(data, d.pos + 2, d.pos + 1 + len))

\* Names and values in turn, as many as the count says.
read_headers(data, d) ==
    IF ~d.ok \/ d.pos + 1 > Len(data) THEN Refused
    ELSE LET at[i \in 0 .. 2 * data[d.pos + 1]] ==
                 IF i = 0 THEN [pos |-> d.pos + 1, vals |-> <<>>, ok |-> TRUE]
                 ELSE With(at[i - 1], LAMBDA e : read_cstr(data, e))
             h == at[2 * data[d.pos + 1]]
         IN  IF h.ok THEN [d EXCEPT !.pos = h.pos, !.vals = Append(@, h.vals)] ELSE Refused

read_field(kind, data, d) ==
    CASE kind = "str"     -> read_cstr(data, d)
      [] kind = "num"     -> read_num(data, d)
      [] kind = "body"    -> read_bytes(data, d)
      [] kind = "headers" -> read_headers(data, d)

\* The fields one after the other; None (refused) as soon as one fails.
decode(format, data) ==
    LET at[i \in 0 .. Len(Layout(format))] ==
            IF i = 0 THEN [pos |-> 0, vals |-> <<>>, ok |-> TRUE]
            ELSE With(at[i - 1], LAMBDA d : read_field(Layout(format)[i], data, d))
    IN  at[Len(Layout(format))].vals

\* Whether some string of r does not fit the length field of the format.
TooLong(format, r) ==
    \E i \in DOMAIN r :
        \/ Layout(format)[i] = "str" /\ Len(r[i]) >= Limit(format)
        \/ Layout(format)[i] = "headers" /\ \E j \in DOMAIN r[i] : Len(r[i][j]) >= Limit(format)
=============================================================================
