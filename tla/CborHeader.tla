----------------------------- MODULE CborHeader -----------------------------
(* The numbers of the codec of tools/usb_rpc_smoke.py: big-endian fields and *)
(* the head of a CBOR item, a major type with a number (the value of an      *)
(* integer, the length of a text, the entries of a map).                     *)
EXTENDS Integers, Sequences

\* struct.pack and struct.unpack with ">H" (two bytes), ">I" (four) and ">Q"
\* (eight, read only); one byte needs neither.
Bytes(n, width) ==
    CASE width = 1 -> <<n>>
      [] width = 2 -> <<n \div 256, n % 256>>
      [] OTHER -> <<(n \div 65536) \div 256, (n \div 65536) % 256,
                    (n % 65536) \div 256, (n % 65536) % 256>>

Number2(b, i) == 256 * b[i] + b[i + 1]
Number4(b, i) == 65536 * Number2(b, i) + Number2(b, i + 2)

Number(b) ==
    CASE Len(b) = 1 -> b[1]
      [] Len(b) = 2 -> Number2(b, 1)
      [] Len(b) = 4 -> Number4(b, 1)
      [] OTHER -> 65536 * (65536 * Number4(b, 1)) + Number4(b, 5)

encode_type_len(major, n) ==
    IF n < 24 THEN <<32 * major + n>>
    ELSE IF n <= 255 THEN <<32 * major + 24>> \o Bytes(n, 1)
    ELSE IF n <= 65535 THEN <<32 * major + 25>> \o Bytes(n, 2)
    ELSE <<32 * major + 26>> \o Bytes(n, 4)

\* What a reader function returns: the value and the offset after it, or the
\* ValueError it raises.
Got(val, next) == [ok |-> TRUE, val |-> val, next |-> next]
Bad == [ok |-> FALSE, val |-> <<>>, next |-> 0]

\* CborReader.read: count bytes at offset
read(data, offset, count) ==
    IF offset + count > Len(data) THEN Bad
    ELSE Got(SubSeq(data, offset + 1, offset + count), offset + count)

next_is_break(data, offset) == offset < Len(data) /\ data[offset + 1] = 255

\* The number in the next `width' bytes
read_field(data, offset, width) ==
    LET raw == read(data, offset, width)
    IN  IF raw.ok THEN Got(Number(raw.val), raw.next) ELSE Bad

read_len(data, offset, additional) ==
    IF additional < 24 THEN Got(additional, offset)
    ELSE IF additional = 24 THEN read_field(data, offset, 1)
    ELSE IF additional = 25 THEN read_field(data, offset, 2)
    ELSE IF additional = 26 THEN read_field(data, offset, 4)
    ELSE IF additional = 27 THEN read_field(data, offset, 8)
    ELSE Bad
===============================================================================
