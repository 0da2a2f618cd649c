------------------------------- MODULE HostRpc -------------------------------
(* RelayClient._request over SerialSmpTransport.exchange: the host library's *)
(* side of one SMP exchange with the board, over a serial port that may      *)
(* delay or lose packets, vanish and come back.                              *)
(*                                                                           *)
(* A request is sent up to Retries + 1 times with one sequence number, and   *)
(* an answer is accepted when its operation, group, command and sequence     *)
(* number are those of the request.  Sequence numbers wrap, answers of an    *)
(* abandoned request arrive late, and an abandoned request may be executed   *)
(* late.  `wire' holds the exchanges between host and board, oldest first:   *)
(* an entry is a request until the board executes it and its answer          *)
(* afterwards.  The board serves them in order.                              *)
EXTENDS Naturals, Sequences, SequencesExt

CONSTANTS
    SeqNumbers,    \* sequence numbers are 0..SeqNumbers-1 (256 in the code)
    Retries,   \* RelayClient.retries
    MaxWire,   \* exchanges the tty and USB buffers hold; then write() blocks
    MaxLag     \* calls begun while an older exchange is still on the wire

ASSUME HostRpcAssumption ==
    /\ SeqNumbers \in Nat /\ Retries \in Nat /\ MaxWire \in Nat /\ MaxLag \in Nat
    /\ MaxLag < SeqNumbers

VARIABLES
    seq,        \* RelayClient._seq
    call,       \* the _request in progress
    serial,     \* SerialSmpTransport._serial: None, open, or a dead handle
    attached,   \* the board's USB port exists
    wire,       \* exchanges on the wire
    board,      \* one relay channel of the board
    result      \* how the last call ended

vars == <<seq, call, serial, attached, wire, board, result>>

\* What a caller asks, as far as it matters to one relay: read it, switch it
\* on, pulse it, switch it off.
Commands == {"status", "set_on", "pulse", "off_all"}

NoCall == [phase |-> "idle", cmd |-> "none", seq |-> 0, left |-> 0]
NoResult == [kind |-> "none", cmd |-> "none", answer |-> "none", age |-> 0]

Off == [on |-> FALSE, pulsing |-> FALSE]

-------------------------------------------------------------------------------
(* The board, external to this module: relay handlers of the firmware. *)

Reading(b) == IF b.on THEN "on" ELSE "off"

\* New state and answer of command c in state b.  A pulse of a channel that
\* already pulses is refused (-EBUSY); any answer may carry a packet or payload
\* that does not decode.
Outcomes(c, b) ==
    LET n == CASE c = "status"  -> b
               [] c = "set_on"  -> [on |-> TRUE, pulsing |-> FALSE]
               [] c = "pulse"   -> [on |-> TRUE, pulsing |-> TRUE]
               [] c = "off_all" -> Off
    IN  IF c = "pulse" /\ b.pulsing
        THEN {<<b, "busy">>}
        ELSE {<<n, Reading(n)>>, <<n, "undecodable">>}

\* A pulse ends by itself, and a board without power has its relays off.
Alone(b) == {b, Off}

-------------------------------------------------------------------------------
(* The client. *)

Calling == call.phase # "idle"

End(kind, answer, age) ==
    /\ call' = NoCall
    /\ result' = [kind |-> kind, cmd |-> call.cmd, answer |-> answer, age |-> age]

\* RelayClient._next_seq
\* Slip: the number stays.
NextSeq_Stuck(s) == s
NextSeq(s) == IF s = SeqNumbers - 1 THEN 0 ELSE s + 1

Aged == [i \in DOMAIN wire |-> [wire[i] EXCEPT !.age = @ + 1]]

\* The beginning of _request, for any of the public methods of RelayClient.
Request(c) ==
    /\ ~Calling
    /\ \A i \in DOMAIN wire : wire[i].age < MaxLag
    /\ call' = [phase |-> "try", cmd |-> c, seq |-> seq, left |-> Retries + 1]
    /\ seq' = NextSeq(seq)
    /\ wire' = Aged
    /\ result' = NoResult
    /\ UNCHANGED <<serial, attached, board>>

\* How many answers reset_input_buffer() may discard: those that have arrived.
Arrived == {k \in 0..Len(wire) : \A i \in 1..k : wire[i].done}

\* exchange: open the port if it is not, discard the input, write the frames.
Send ==
    /\ call.phase = "try"
    /\ serial = "open" \/ (serial = "none" /\ attached)
    /\ Len(wire) < MaxWire
    /\ serial' = "open"
    /\ \E k \in Arrived :
        wire' = Append(SubSeq(wire, k + 1, Len(wire)),
                       [cmd |-> call.cmd, seq |-> call.seq, age |-> 0,
                        done |-> FALSE, answer |-> "none"])
    /\ call' = [call EXCEPT !.phase = "wait", !.left = @ - 1]
    /\ UNCHANGED <<seq, attached, board, result>>

\* exchange fails otherwise than by a timeout: the port cannot be opened, its
\* handle is dead, or the write times out.  The port is closed.
TransportFails ==
    /\ \/ call.phase = "try" /\ serial = "none" /\ ~attached
       \/ Calling /\ serial = "dead"
       \/ call.phase = "try" /\ Len(wire) >= MaxWire
    /\ serial' = "none"
    /\ End("transport", "none", 0)
    /\ UNCHANGED <<seq, attached, wire, board>>

\* A frame with a bad delimiter or checksum: decoded_serial_frames raises
\* RelayProtocolError inside exchange, which turns it into a transport error.
BadFrame ==
    /\ call.phase = "wait" /\ serial = "open"
    /\ wire # <<>> /\ Head(wire).done
    /\ wire' = Tail(wire)
    /\ serial' = "none"
    /\ End("transport", "none", 0)
    /\ UNCHANGED <<seq, attached, board>>

\* The checks of _decode_response.  The command implies operation and group.
\* Slip: the sequence number is not compared.
Matches_AnySequence(e) == e.cmd = call.cmd
Matches(e) == e.cmd = call.cmd /\ e.seq = call.seq

\* A packet is read: decode_packet, then _decode_response.
Receive ==
    /\ call.phase = "wait" /\ serial = "open"
    /\ wire # <<>> /\ Head(wire).done
    /\ wire' = Tail(wire)
    /\ LET e == Head(wire)
           kind == IF e.answer = "undecodable" \/ ~Matches(e) THEN "protocol"
                   ELSE IF e.answer = "busy" THEN "device" ELSE "ok"
       IN  End(kind, e.answer, e.age)
    /\ UNCHANGED <<seq, serial, attached, board>>

\* readline returns nothing for timeout_s; _request tries again while it may.
\* Slip: a timeout does not use up an attempt.
Timeout_Forever ==
    /\ call.phase = "wait" /\ serial = "open"
    /\ call' = [call EXCEPT !.phase = "try", !.left = Retries + 1]
    /\ UNCHANGED <<seq, serial, attached, wire, board, result>>

Timeout ==
    /\ call.phase = "wait" /\ serial = "open"
    /\ IF call.left > 0
       THEN call' = [call EXCEPT !.phase = "try"] /\ UNCHANGED result
       ELSE End("timeout", "none", 0)
    /\ UNCHANGED <<seq, serial, attached, wire, board>>

\* RelayClient.close
Close ==
    /\ ~Calling /\ serial # "none"
    /\ serial' = "none"
    /\ UNCHANGED <<seq, call, attached, wire, board, result>>

ClientStep == Send \/ TransportFails \/ BadFrame \/ Receive \/ Timeout

-------------------------------------------------------------------------------
(* The environment. *)

\* The board executes the oldest request it has.
Execute ==
    /\ attached
    /\ \E i \in DOMAIN wire :
        /\ ~wire[i].done /\ \A j \in 1..(i - 1) : wire[j].done
        /\ \E o \in Outcomes(wire[i].cmd, board) :
            /\ board' = o[1]
            /\ wire' = [wire EXCEPT ![i].done = TRUE, ![i].answer = o[2]]
    /\ UNCHANGED <<seq, call, serial, attached, result>>

PulseEnds ==
    /\ board.pulsing
    /\ board' = Off
    /\ UNCHANGED <<seq, call, serial, attached, wire, result>>

\* A request or an answer is lost (a buffer overrun, a frame the board drops).
Lose ==
    /\ \E i \in DOMAIN wire : wire' = RemoveAt(wire, i)
    /\ UNCHANGED <<seq, call, serial, attached, board, result>>

Detach ==
    /\ attached
    /\ attached' = FALSE
    /\ wire' = <<>>
    /\ board' = Off
    /\ serial' = IF serial = "open" THEN "dead" ELSE serial
    /\ UNCHANGED <<seq, call, result>>

Attach ==
    /\ ~attached
    /\ attached' = TRUE
    /\ UNCHANGED <<seq, call, serial, wire, board, result>>

-------------------------------------------------------------------------------
Init ==
    /\ seq = 0
    /\ call = NoCall
    /\ serial = "none"
    /\ attached \in BOOLEAN
    /\ wire = <<>>
    /\ board \in {Off, [on |-> TRUE, pulsing |-> FALSE], [on |-> TRUE, pulsing |-> TRUE]}
    /\ result = NoResult

Next ==
    \/ \E c \in Commands : Request(c)
    \/ Send
    \/ TransportFails
    \/ BadFrame
    \/ Receive
    \/ Timeout
    \/ Close
    \/ Execute
    \/ PulseEnds
    \/ Lose
    \/ Detach
    \/ Attach

\* The calling thread runs, and each read of the port ends by its timeout.
Spec == Init /\ [][Next]_vars /\ WF_vars(ClientStep)

-------------------------------------------------------------------------------
Entry == [cmd : Commands, seq : 0..(SeqNumbers - 1), age : 0..MaxLag, done : BOOLEAN,
          answer : {"none", "on", "off", "busy", "undecodable"}]

\* Types, and: exchanges are served in order, oldest call first.
HostRpcTypeOK ==
    /\ seq \in 0..(SeqNumbers - 1)
    /\ call.phase \in {"idle", "try", "wait"} /\ call.left \in 0..(Retries + 1)
    /\ serial \in {"none", "open", "dead"}
    /\ wire \in Seq(Entry) /\ Len(wire) <= MaxWire
    /\ \A i, j \in DOMAIN wire :
        i < j => wire[i].age >= wire[j].age /\ (wire[j].done => wire[i].done)

\* A call that ends with an answer of the board (a value or a device error,
\* client.py _decode_response) ends with an answer to a packet this call sent,
\* never with the late answer of an earlier request, although sequence numbers
\* wrap and a retried request leaves a second answer behind.
AnswerIsOwn == result.kind \in {"ok", "device"} => result.age = 0

\* When a call returned a reading "off" (of off_all, or of a status that the
\* session's close guard trusts), the relay is off, and no older request that
\* would switch it on is still on its way to the board.
ConfirmedOff ==
    ~Calling /\ result.kind = "ok" /\ result.answer = "off" =>
        /\ ~board.on
        /\ \A i \in DOMAIN wire : ~wire[i].done => wire[i].cmd \notin {"set_on", "pulse"}

\* The client keeps the promise of RpcService: an answer comes from an
\* execution during the call, and a call that returned is a fence.
Service == INSTANCE RpcService WITH
    current <- call.cmd,
    ended <- CASE result.kind = "none" -> "none"
               [] result.kind \in {"ok", "device"} -> result.answer
               [] OTHER -> "raised",
    answers <- {wire[i].answer : i \in {k \in DOMAIN wire :
                    Calling /\ wire[k].age = 0 /\ wire[k].done}},
    late <- {wire[i].cmd : i \in {k \in DOMAIN wire :
                    ~wire[k].done /\ (~Calling \/ wire[k].age > 0)}}
ServiceKept == Service!Spec

\* Every call ends (client.py:178, retries + 1 bounded waits), whatever the
\* wire and the board do.
RequestEnds == Calling ~> ~Calling
===============================================================================
