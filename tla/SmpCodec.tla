------------------------------ MODULE SmpCodec ------------------------------
(* The codec of tools/usb_rpc_smoke.py, which speaks to the board without    *)
(* the smp and cbor2 packages: CBOR payloads and SMP serial frames.          *)
(*                                                                           *)
(* Bytes are numbers 0..255.  A value is [is, val] with is one of "int",     *)
(* "bool", "text" (val: its UTF-8 bytes) and "map" (val: its entries         *)
(* <<key bytes, value>> in order).  A line of the serial port is             *)
(* [marker, bytes]: the two marker bytes and the bytes its base64 text       *)
(* stands for; base64 itself is the standard library's.                      *)
EXTENDS SequencesExt, Bitwise, CborHeader

From(s, i) == SubSeq(s, i, Len(s))

Uint(n) == [is |-> "int", val |-> n]
Bool(b) == [is |-> "bool", val |-> b]
Text(bytes) == [is |-> "text", val |-> bytes]
Map(entries) == [is |-> "map", val |-> entries]

-------------------------------------------------------------------------------
(* CBOR. *)

encode_text(bytes) == encode_type_len(3, Len(bytes)) \o bytes

\* encode_value and encode_map
RECURSIVE encode_value(_)
encode_value(v) ==
    CASE v.is = "bool" -> <<IF v.val THEN 245 ELSE 244>>
      [] v.is = "int"  -> encode_type_len(0, v.val)
      [] v.is = "text" -> encode_text(v.val)
      [] v.is = "map"  ->
            FoldLeft(LAMBDA s, e : s \o encode_text(e[1]) \o encode_value(e[2]),
                     encode_type_len(5, Len(v.val)), v.val)

\* A definite text at offset, behind its initial byte
read_text(data, offset, additional) ==
    LET n == read_len(data, offset, additional)
    IN  IF n.ok THEN read(data, n.next, n.val) ELSE Bad

RECURSIVE read_indefinite_text(_, _, _)
read_indefinite_text(data, offset, chunks) ==
    LET initial == read(data, offset, 1)
        byte == initial.val[1]
        chunk == read_text(data, initial.next, byte % 32)
    IN  IF next_is_break(data, offset) THEN Got(chunks, offset + 1)
        ELSE IF initial.ok /\ byte \div 32 = 3 /\ byte % 32 # 31 /\ chunk.ok
        THEN read_indefinite_text(data, chunk.next, chunks \o chunk.val)
        ELSE Bad

RECURSIVE read_value(_, _)

\* read_value's loops over the entries of a map: `left' entries, or up to the
\* break byte when left is -1.  A repeated key replaces the earlier entry.
RECURSIVE read_entries(_, _, _, _)
read_entries(data, offset, left, entries) ==
    LET key == read_value(data, offset)
        value == read_value(data, key.next)
        others == SelectSeq(entries, LAMBDA e : e[1] # key.val.val)
    IN  IF left = 0 THEN Got(Map(entries), offset)
        ELSE IF left < 0 /\ next_is_break(data, offset) THEN Got(Map(entries), offset + 1)
        ELSE IF key.ok /\ key.val.is = "text" /\ value.ok
        THEN read_entries(data, value.next, left - 1,
                          Append(others, <<key.val.val, value.val>>))
        ELSE Bad

read_value(data, offset) ==
    LET initial == read(data, offset, 1)
        at == initial.next
        major == initial.val[1] \div 32
        additional == initial.val[1] % 32
        n == read_len(data, at, additional)
        As(kind, r) == IF r.ok THEN Got([is |-> kind, val |-> r.val], r.next) ELSE Bad
    IN  CASE ~initial.ok -> Bad
          [] initial.ok /\ major = 0 -> As("int", n)
          [] initial.ok /\ major = 3 ->
                IF additional = 31 THEN As("text", read_indefinite_text(data, at, <<>>))
                ELSE As("text", read_text(data, at, additional))
          [] initial.ok /\ major = 5 ->
                IF additional = 31 THEN read_entries(data, at, -1, <<>>)
                ELSE IF n.ok THEN read_entries(data, n.next, n.val, <<>>) ELSE Bad
          [] initial.ok /\ major = 7 /\ additional \in {20, 21} ->
                Got(Bool(additional = 21), at)
          [] OTHER -> Bad

decode_map(data) ==
    LET v == read_value(data, 0)
    IN  IF v.ok /\ v.next = Len(data) /\ v.val.is = "map" THEN v ELSE Bad

-------------------------------------------------------------------------------
(* SMP packets and serial frames. *)

crc16_itu_t(data) ==
    LET shift[crc \in 0..65535] ==
            IF crc >= 32768 THEN (2 * crc % 65536) ^^ 4129 ELSE 2 * crc
        octet[crc \in 0..65535] ==
            shift[shift[shift[shift[shift[shift[shift[shift[crc]]]]]]]]
        after[n \in 0..Len(data)] ==
            IF n = 0 THEN 0 ELSE octet[after[n - 1] ^^ (256 * data[n])]
    IN  after[Len(data)]

encode_smp(op, group, command, seq, payload) ==
    <<op + 8, 0>> \o Bytes(Len(payload), 2) \o Bytes(group, 2) \o <<seq, command>> \o payload

PKT == 1545     \* SERIAL_HDR_PKT
FRAG == 1044    \* SERIAL_HDR_FRAG

serial_frame(packet) ==
    [marker |-> PKT,
     bytes |-> Bytes(Len(packet) + 2, 2) \o packet \o Bytes(crc16_itu_t(packet), 2)]

\* What decoded_frames does once packet_len is len and the bytes so far are
\* decoded: go on, return the packet, or raise.
Verdict(len, decoded) ==
    IF len < 0 \/ Len(decoded) < len THEN "none"
    ELSE IF Len(decoded) > len \/ crc16_itu_t(decoded) # 0 THEN "error"
    ELSE "packet"

\* decoded_frames is a fold over the lines of the port, with the timeout after
\* the last: `len' is packet_len, -1 for None, and `end' how it returned.
\* Slip: a new packet does not discard what came before it.
OnLine_KeepsOld(s, line) ==
    LET fresh == line.marker = PKT
        len == IF fresh THEN Number(SubSeq(line.bytes, 1, 2)) ELSE s.len
        decoded == s.decoded \o From(line.bytes, IF fresh THEN 3 ELSE 1)
    IN  IF s.end # "none" \/ line.marker \notin {PKT, FRAG} THEN s
        ELSE [len |-> len, decoded |-> decoded, end |-> Verdict(len, decoded)]

OnLine(s, line) ==
    LET fresh == line.marker = PKT
        len == IF fresh THEN Number(SubSeq(line.bytes, 1, 2)) ELSE s.len
        decoded == IF fresh THEN From(line.bytes, 3) ELSE s.decoded \o line.bytes
    IN  IF s.end # "none" \/ line.marker \notin {PKT, FRAG} THEN s
        ELSE [len |-> len, decoded |-> decoded,
              end |-> IF fresh /\ Len(line.bytes) < 2 THEN "error"
                      ELSE Verdict(len, decoded)]

decoded_frames(lines) ==
    LET s == FoldLeft(OnLine, [len |-> -1, decoded |-> <<>>, end |-> "none"], lines)
    IN  IF s.end = "packet" THEN Got(SubSeq(s.decoded, 1, Len(s.decoded) - 2), 0) ELSE Bad

\* The checks of call() on the response to a request with these fields, and the
\* map it returns.
answer(response, op, group, command, seq) ==
    LET body == From(response, 9)
    IN  IF /\ Len(response) >= 8
           /\ response[1] % 8 = op + 1 /\ (response[1] \div 8) % 4 = 1
           /\ Number(SubSeq(response, 3, 4)) = Len(body)
           /\ Number(SubSeq(response, 5, 6)) = group
           /\ response[7] = seq /\ response[8] = command
        THEN decode_map(body) ELSE Bad
===============================================================================
