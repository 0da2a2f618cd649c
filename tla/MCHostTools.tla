----------------------------- MODULE MCHostTools -----------------------------
(* The questions TLC asks of HostTools, and of the codec of the smoke-test   *)
(* client (SmpCodec): what it makes of the bytes it receives.                *)
EXTENDS HostTools, SmpCodec

Command(cmd, A, B) == [cmd : {cmd}, a : A, b : B]
MCTyped == UNION {
    Command("set", {Word, 0, 1, 6, 7}, {0, 1, Word}),
    Command("pulse", {0, 1, 6, 7}, {Word, 9, 10, 60000, 60001}),
    Command("set-all", {Word, -1, 0, 63, 64}, {0}),
    Command("status", {0}, {0}), Command("off-all", {0}, {0})}

MCCommandJobs ==
    {j \in [ask : {"command"}, tool : {"cli", "relayctl"}, typed : MCTyped, fate : Fates] :
        j.fate = "no daemon" => j.tool = "relayctl"}

\* A layer of settings, out of the values each key may have in it
Layer(P, S, K, R) == [port : P, serial : S, socket : K, rest : R]
MCDevices == [device : {"tty1"}, board : BOOLEAN, product : {"relay", "unset"},
              serial : {"s1", "unset"}]
Plugged == {{}} \cup {{d} : d \in MCDevices}
           \cup {{d, [d EXCEPT !.device = "tty2"]} : d \in MCDevices}
MCResolveJobs ==
    {j \in [ask : {"resolve"}, instance : BOOLEAN, found : BOOLEAN, ports : Plugged,
            file : Layer({"unset", "tty2"}, {"unset", "s1"}, {"unset", "k1"}, {"unset"}),
            env  : Layer({"unset", "", "tty1"}, {"unset", "s1"}, {"unset", "k2"}, {"unset", "bad"}),
            args : Layer({"unset", "tty1"}, {"unset", "s2"}, {"unset", "k3"}, {"unset", "9"})] :
        /\ j.args.port = "unset" \/ j.args.serial = "unset"
        /\ j.found \/ j.file = Unset}

-------------------------------------------------------------------------------
\* Payloads of the board, of values at the limits of the CBOR length forms
Ch == <<99, 104>>
Payloads == {Map(<<>>)}
    \cup {Map(<<<<Ch, Uint(n)>>>>) : n \in {0, 23, 24, 255, 256, 65535, 65536}}
    \cup {Map(<<<<Ch, Bool(b)>>, <<<<97>>, Uint(1)>>>>) : b \in BOOLEAN}
    \cup {Map(<<<<Ch, Text([i \in 1..n |-> 120])>>>>) : n \in {0, 23, 24}}
    \cup {Map(<<<<Ch, Map(<<<<<<97>>, Uint(24)>>>>)>>, <<<<97>>, Uint(2)>>>>)}

\* The board's encoder may also write maps and texts of indefinite length.
RECURSIVE encode_indefinite(_)
encode_indefinite(v) ==
    CASE v.is = "text" -> <<127>> \o encode_text(v.val) \o <<255>>
      [] v.is = "map" -> FoldLeft(LAMBDA s, e : s \o encode_text(e[1]) \o encode_indefinite(e[2]),
                                  <<191>>, v.val) \o <<255>>
      [] OTHER -> encode_value(v)

\* The lines of a packet: one frame, or a first frame of k bytes and a fragment.
Split(packet, k) ==
    LET raw == serial_frame(packet).bytes
    IN  IF k >= Len(raw) THEN <<[marker |-> PKT, bytes |-> raw]>>
        ELSE <<[marker |-> PKT, bytes |-> SubSeq(raw, 1, k)],
               [marker |-> FRAG, bytes |-> From(raw, k + 1)]>>

\* The awaited answer is to command 18.  An earlier answer, to that or to another
\* command, has the same sequence number: call() always uses 1.
Awaited == 18
Stale == Map(<<<<Ch, Text([i \in 1..20 |-> 121])>>>>)
Earlier(command) ==
    Split(encode_smp(IF command = Awaited THEN 1 ELSE 3, 64, command, 1, encode_value(Stale)), 9)

\* What precedes the answer on the port, because reset_input_buffer() discards
\* only what has arrived: nothing, text of the shell, one frame of an earlier
\* answer, or all of it.  `late' is the command of a whole earlier answer.
Before ==
    {[lines |-> ls, late |-> 0] :
        ls \in {<<>>, <<[marker |-> 0, bytes |-> <<1, 2>>]>>}
               \cup {<<Earlier(c)[i]>> : c \in {Awaited, 35}, i \in 1..2}}
    \cup {[lines |-> Earlier(c), late |-> c] : c \in {Awaited, 35}}

Flip(s, i) == [s EXCEPT ![i] = (@ + 1) % 256]

\* What becomes of the answer's lines: intact, a line lost, a byte damaged.
Damaged(lines) ==
    {RemoveAt(lines, i) : i \in DOMAIN lines}
    \cup UNION {{[lines EXCEPT ![i].bytes = Flip(@, k)] : k \in DOMAIN lines[i].bytes} :
                    i \in DOMAIN lines}

Body(m, form) == IF form = "definite" THEN encode_value(m) ELSE encode_indefinite(m)
Packet(body) == encode_smp(1, 64, Awaited, 1, body)

\* A payload cut short, or with a byte behind it, in an intact frame
Spoilt(body) == {SubSeq(body, 1, Len(body) - 1), Append(body, 0),
                 SubSeq(body, 1, Len(body) \div 2)}

DecodeJobs ==
    UNION {LET body == Body(m, form)
               lines == Split(Packet(body), k)
               Job(before, ls, whole) ==
                   [ask |-> "decode", payload |-> m, intact |-> whole, late |-> before.late,
                    lines |-> before.lines \o ls]
           IN  {Job(before, lines, TRUE) : before \in Before}
               \cup {Job(before, ls, FALSE) : before \in Before, ls \in Damaged(lines)}
               \cup {Job([lines |-> <<>>, late |-> 0], Split(Packet(b), k), FALSE) :
                          b \in Spoilt(body)} :
           m \in Payloads, form \in {"definite", "indefinite"}, k \in {2, 9, 100}}

\* call() of usb_rpc_smoke.py: the lines of the port to the payload
Decode ==
    /\ step = "decode"
    /\ LET response == decoded_frames(job.lines)
       IN  out' = IF response.ok THEN answer(response.val, 0, 64, Awaited, 1) ELSE Bad
    /\ step' = "exit"
    /\ UNCHANGED <<job, args, raised, cause, acted>>

-------------------------------------------------------------------------------
MCInit == Init \/ \E j \in DecodeJobs : Start(j, "decode")
MCNext == Next \/ Decode
MCSpec == MCInit /\ [][MCNext]_vars

\* The smoke-test client returns the payload the board sent or raises: no lost
\* line, no damaged byte, no part of an earlier answer and no cut payload makes
\* it return anything else, and an intact answer is understood, at every length
\* form of CBOR, however it is split (usb_rpc_smoke.py decoded_frames,
\* decode_map).  This needs that no whole earlier answer is still on its way:
\* with the fixed sequence number 1 (call) such an answer is returned in place
\* of the awaited one if it is to the same command, and makes call() raise if
\* it is to another.
DecodesOrRaises ==
    Asked("decode") =>
        IF job.late = 0
        THEN /\ out.ok => job.intact /\ out.val = job.payload
             /\ job.intact => out.ok
        ELSE /\ out.ok <=> job.late = Awaited
             /\ out.ok => out.val = Stale
===============================================================================
