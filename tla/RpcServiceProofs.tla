-------------------------- MODULE RpcServiceProofs --------------------------
(* Proofs about HostRpc, continued: RelayClient keeps the promise of         *)
(* RpcService, step by step, and a reading "off" that a call returned can be *)
(* relied on.                                                                *)
EXTENDS HostRpcProofs

-------------------------------------------------------------------------------
(* The invariant.  Range(wire) are the exchanges on the wire.                *)

BoardType == [on : BOOLEAN, pulsing : BOOLEAN]

\* No call, no command; the youngest exchanges are those of the call.
OwnCommands ==
    /\ ~Calling => call.cmd = "none"
    /\ Calling => \A e \in Range(wire) : e.age = 0 => e.cmd = call.cmd

\* Only a command that leaves the relay off is answered "off", and as long as
\* only this call's command is executed after it, the relay stays off.
OffAnswers ==
    /\ \A e \in Range(wire) : e.answer = "off" => e.cmd \in {"status", "off_all"}
    /\ Calling => \A e \in Range(wire) : e.age = 0 /\ e.done /\ e.answer = "off" => ~board.on

\* A call that returned left nothing on the wire but its own retries.
Returned ==
    ~Calling /\ result.kind \in {"ok", "device"} =>
        /\ \A e \in Range(wire) : e.cmd = result.cmd
        /\ result.kind = "ok" /\ result.answer = "off" =>
              result.cmd \in {"status", "off_all"} /\ ~board.on

Served == OwnCommands /\ OffAnswers /\ Returned

-------------------------------------------------------------------------------
(* The refinement mapping.                                                   *)

Own  == {wire[i].answer : i \in {k \in DOMAIN wire : Calling /\ wire[k].age = 0 /\ wire[k].done}}
Late == {wire[i].cmd : i \in {k \in DOMAIN wire : ~wire[k].done /\ (~Calling \/ wire[k].age > 0)}}
How  == CASE result.kind = "none" -> "none"
          [] result.kind \in {"ok", "device"} -> result.answer
          [] OTHER -> "raised"

LEMMA OwnAnswers ==
    \A x : x \in Own <=> Calling /\ \E e \in Range(wire) : e.age = 0 /\ e.done /\ x = e.answer
  BY DEF Own, Range

LEMMA LateCommands ==
    \A x : x \in Late <=> \E e \in Range(wire) : ~e.done /\ (~Calling \/ e.age > 0) /\ x = e.cmd
  BY DEF Late, Range

LEMMA OwnAnswersNext ==
    \A x : x \in Own' <=> Calling' /\ \E e \in Range(wire') : e.age = 0 /\ e.done /\ x = e.answer
  BY DEF Own, Range

LEMMA LateCommandsNext ==
    \A x : x \in Late' <=> \E e \in Range(wire') : ~e.done /\ (~Calling' \/ e.age > 0) /\ x = e.cmd
  BY DEF Late, Range

LEMMA PartShrinks ==
    ASSUME NEW v \in Seq(Entry), NEW w, Part(w, v)
    PROVE  Range(w) \subseteq Range(v)
<1>1. PICK f \in [1..Len(w) -> 1..Len(v)] : \A i \in 1..Len(w) : w[i] = v[f[i]]
  BY DEF Part
<1>2. DOMAIN w = 1..Len(w) /\ DOMAIN v = 1..Len(v)
  BY DEF Part
<1> QED BY <1>1, <1>2 DEF Range

LEMMA WireFacts ==
    ASSUME Inv
    PROVE  /\ wire \in Seq(Entry)
           /\ \A e \in Range(wire) : e \in Entry /\ e.age \in Nat /\ e.done \in BOOLEAN
                                     /\ e.cmd \in Commands
<1>1. wire \in Seq(Entry)
  BY DEF Inv, WireOK
<1>2. \A e \in Range(wire) : e \in Entry
  BY <1>1 DEF Range
<1> QED BY <1>1, <1>2, HostRpcAssumption DEF Entry

\* What an execution leaves behind, and what it answers.
LEMMA OffOutcome ==
    ASSUME NEW c \in Commands, NEW b \in BoardType, NEW o \in Outcomes(c, b)
    PROVE  /\ o[2] = "off" => c \in {"status", "off_all"} /\ ~o[1].on
           /\ c \in {"status", "off_all"} /\ ~b.on => ~o[1].on
<1>1. CASE c = "status"
  BY <1>1 DEF Outcomes, Reading, BoardType
<1>2. CASE c = "set_on"
  BY <1>2 DEF Outcomes, Reading, BoardType
<1>3. CASE c = "pulse"
  BY <1>3 DEF Outcomes, Reading, BoardType
<1>4. CASE c = "off_all"
  BY <1>4 DEF Outcomes, Reading, BoardType, Off
<1> QED BY <1>1, <1>2, <1>3, <1>4 DEF Commands

-------------------------------------------------------------------------------
(* Steps.                                                                    *)

\* A packet of the call is sent, packets are lost, the relay goes off: the
\* service can tell no more than a fault.
LEMMA QuietStep ==
    ASSUME Inv, Served, Calling' = Calling, call'.cmd = call.cmd, UNCHANGED result,
           board' \in {board, Off},
           \A e \in Range(wire') :
              \/ e \in Range(wire)
              \/ Calling /\ e.age = 0 /\ e.cmd = call.cmd /\ e.done = FALSE /\ e.answer = "none"
    PROVE  Served' /\ Service!Next
<1>1. board.on = FALSE => board'.on = FALSE
  BY DEF Off
<1>2. board \in BoardType
  BY DEF Inv, BoardType
<1>3. OwnCommands'
  BY DEF Served, OwnCommands
<1>4. OffAnswers'
  BY <1>1, <1>2 DEF Served, OffAnswers, BoardType, Off
<1>5. Returned'
  BY <1>1, <1>2 DEF Served, Returned, BoardType, Off
<1>6. Own' \subseteq Own /\ Late' \subseteq Late
  <2>1. \A x \in Own' : x \in Own
    BY OwnAnswers, OwnAnswersNext
  <2>2. \A x \in Late' : x \in Late
    BY LateCommands, LateCommandsNext
  <2> QED BY <2>1, <2>2
<1>7. How' = How
  BY DEF How
<1>8. board' \in Alone(board)
  BY DEF Alone
<1>9. Service!Fault
  BY <1>6, <1>7, <1>8 DEF Service!Fault, Own, Late, How
<1> QED BY <1>3, <1>4, <1>5, <1>9 DEF Served, Service!Next


\* A call ends with an exception; what it sent may still be executed.
LEMMA RaiseStep ==
    ASSUME Inv, Served, Calling, NEW kind \in {"transport", "protocol", "timeout"}, NEW answer, NEW age,
           End(kind, answer, age), UNCHANGED board, Range(wire') \subseteq Range(wire)
    PROVE  Served' /\ Service!Next
<1>1. /\ call'.cmd = "none" /\ ~Calling' /\ result'.kind = kind
      /\ call.cmd \in Commands
  BY DEF End, NoCall, Calling, Inv, CallOK
<1>2. OwnCommands' /\ Returned'
  BY <1>1 DEF OwnCommands, Returned
<1>3. OffAnswers'
  BY <1>1 DEF Served, OffAnswers
<1>4. Own' = {}
  BY <1>1, OwnAnswersNext
<1>5. Late' \subseteq Late \cup {call.cmd}
  <2> SUFFICES ASSUME NEW x \in Late' PROVE x \in Late \cup {call.cmd}
    OBVIOUS
  <2>1. PICK e \in Range(wire) : ~e.done /\ x = e.cmd
    BY LateCommandsNext
  <2>2. e.age = 0 \/ e.age > 0
    BY WireFacts
  <2> QED BY <2>1, <2>2, LateCommands DEF Served, OwnCommands
<1>6. How' = "raised"
  BY <1>1 DEF How
<1>7. Service!Raise
  BY <1>1, <1>4, <1>5, <1>6 DEF Service!Raise, Own, Late, How
<1> QED BY <1>2, <1>3, <1>7 DEF Served, Service!Next

\* A packet is read and leaves the wire.
LEMMA PacketRead ==
    ASSUME Inv, wire # <<>>, wire' = Tail(wire)
    PROVE  /\ Range(wire') \subseteq Range(wire) /\ Head(wire) \in Range(wire)
           /\ \A e \in Range(wire') : Head(wire).age >= e.age
<1>1. wire \in Seq(Entry) /\ Part(Tail(wire), wire)
  BY TailIsPart DEF Inv, WireOK
<1>2. Range(wire') \subseteq Range(wire)
  BY <1>1, PartShrinks
<1>3. Head(wire) = wire[1] /\ 1 \in DOMAIN wire
  BY <1>1
<1>4. ASSUME NEW i \in DOMAIN Tail(wire)
      PROVE  Head(wire).age >= Tail(wire)[i].age
  <2>1. i + 1 \in DOMAIN wire /\ Tail(wire)[i] = wire[i + 1] /\ 1 < i + 1
    BY <1>1
  <2> QED BY <1>3, <2>1 DEF Inv, WireOK, InOrder
<1> QED BY <1>2, <1>3, <1>4 DEF Range

\* The answer that is accepted is one of this call's; by then everything that
\* was sent before this call has left the wire.
LEMMA ReceiveStep ==
    ASSUME Inv, Inv', Served, Receive
    PROVE  Served' /\ Service!Next
<1> DEFINE h == Head(wire)
<1> DEFINE kind == IF h.answer = "undecodable" \/ ~Matches(h) THEN "protocol"
                   ELSE IF h.answer = "busy" THEN "device" ELSE "ok"
<1>1. /\ End(kind, h.answer, h.age) /\ UNCHANGED <<seq, board>> /\ wire' = Tail(wire)
      /\ wire # <<>> /\ h.done /\ Calling
  BY DEF Receive, Calling
<1>2. /\ Range(wire') \subseteq Range(wire) /\ h \in Range(wire)
      /\ \A e \in Range(wire') : h.age >= e.age
  BY <1>1, PacketRead
<1>3. kind \in {"ok", "device", "protocol"}
  OBVIOUS
<1> HIDE DEF kind, h
<1>4. CASE kind = "protocol"
  BY <1>1, <1>2, <1>4, RaiseStep
<1>5. CASE kind \in {"ok", "device"}
  <2>1. /\ call'.cmd = "none" /\ ~Calling'
        /\ result'.kind = kind /\ result'.cmd = call.cmd /\ result'.answer = h.answer
        /\ result'.age = h.age
    BY <1>1 DEF End, NoCall, Calling
  <2>2. h.age = 0
    BY <1>5, <2>1 DEF Inv, AnswerIsOwn
  <2>3. \A e \in Range(wire') : e.age = 0
    BY <1>2, <2>2, WireFacts
  <2>4. h.cmd = call.cmd /\ \A e \in Range(wire') : e.cmd = call.cmd
    BY <1>1, <1>2, <2>2, <2>3 DEF Served, OwnCommands
  <2>5. OwnCommands'
    BY <2>1 DEF OwnCommands
  <2>6. OffAnswers'
    BY <1>2, <2>1 DEF Served, OffAnswers
  <2>7. h.answer = "off" => call.cmd \in {"status", "off_all"} /\ ~board.on
    BY <1>1, <1>2, <2>2, <2>4 DEF Served, OffAnswers
  <2>8. Returned'
    BY <1>1, <2>1, <2>4, <2>7 DEF Returned
  <2>9. h.answer \in Own
    BY <1>1, <1>2, <2>2, OwnAnswers
  <2>10. Own' = {}
    BY <2>1, OwnAnswersNext
  <2>11. Late' \subseteq {call.cmd}
    BY <2>4, LateCommandsNext
  <2>12. How' = h.answer
    BY <1>5, <2>1 DEF How
  <2>13. Service!Return
    BY <1>1, <2>1, <2>9, <2>10, <2>11, <2>12 DEF Service!Return, Own, Late, How
  <2> QED BY <2>5, <2>6, <2>8, <2>13 DEF Served, Service!Next
<1> QED BY <1>3, <1>4, <1>5

\* A new call: every exchange on the wire is now of an earlier one.
LEMMA RequestStep ==
    ASSUME Inv, Served, NEW c \in Commands, Request(c)
    PROVE  Served' /\ Service!Next
<1>1. /\ ~Calling /\ Calling' /\ call'.cmd = c /\ result'.kind = "none" /\ UNCHANGED board
      /\ wire' = [i \in DOMAIN wire |-> [wire[i] EXCEPT !.age = @ + 1]]
  BY DEF Request, Calling, NoResult, Aged
<1>2. /\ wire \in Seq(Entry)
      /\ \A i \in DOMAIN wire : wire[i] \in Entry /\ wire[i].age \in Nat
  <2>1. wire \in Seq(Entry)
    BY DEF Inv, WireOK
  <2>2. \A i \in DOMAIN wire : wire[i] \in Entry
    BY <2>1
  <2>3. \A e \in Entry : e.age \in Nat
    BY HostRpcAssumption DEF Entry
  <2> QED BY <2>1, <2>2, <2>3
<1>3. /\ DOMAIN wire' = DOMAIN wire
      /\ \A i \in DOMAIN wire : /\ wire'[i].age > 0 /\ wire'[i].done = wire[i].done
                                /\ wire'[i].cmd = wire[i].cmd /\ wire'[i].answer = wire[i].answer
  BY <1>1, <1>2 DEF Entry
<1>4. \A e \in Range(wire') :
          /\ e.age > 0
          /\ \E d \in Range(wire) : d.done = e.done /\ d.cmd = e.cmd /\ d.answer = e.answer
  BY <1>3 DEF Range
<1>5. \A d \in Range(wire) : \E e \in Range(wire') :
          e.age > 0 /\ d.done = e.done /\ d.cmd = e.cmd
  BY <1>3 DEF Range
<1>6. OwnCommands' /\ Returned'
  BY <1>1, <1>4 DEF OwnCommands, Returned
<1>7. OffAnswers'
  BY <1>1, <1>4 DEF Served, OffAnswers
<1>8. Own' = {}
  BY <1>4, OwnAnswersNext
<1>9. Late' = Late
  <2>1. ASSUME NEW x \in Late' PROVE x \in Late
    <3>1. PICK e \in Range(wire') : ~e.done /\ x = e.cmd
      BY LateCommandsNext
    <3>2. PICK d \in Range(wire) : d.done = e.done /\ d.cmd = e.cmd
      BY <1>4
    <3> QED BY <1>1, <3>1, <3>2, LateCommands
  <2>2. ASSUME NEW x \in Late PROVE x \in Late'
    <3>1. PICK d \in Range(wire) : ~d.done /\ x = d.cmd
      BY LateCommands
    <3>2. PICK e \in Range(wire') : e.age > 0 /\ d.done = e.done /\ d.cmd = e.cmd
      BY <1>5
    <3> QED BY <3>1, <3>2, LateCommandsNext
  <2> QED BY <2>1, <2>2
<1>10. How' = "none" /\ call.cmd = "none"
  BY <1>1 DEF How, Served, OwnCommands
<1>11. Service!Call
  BY <1>1, <1>8, <1>9, <1>10 DEF Service!Call, Own, Late, How
<1> QED BY <1>6, <1>7, <1>11 DEF Served, Service!Next


\* The board executes a request: of this call, or of one that was given up.
LEMMA ExecuteStep ==
    ASSUME Inv, Served, Execute
    PROVE  Served' /\ Service!Next
<1>1. UNCHANGED <<call, result>>
  BY DEF Execute
<1>a. PICK k \in DOMAIN wire :
        /\ ~wire[k].done
        /\ \E o \in Outcomes(wire[k].cmd, board) :
            /\ board' = o[1]
            /\ wire' = [wire EXCEPT ![k].done = TRUE, ![k].answer = o[2]]
  BY DEF Execute
<1>2. PICK o \in Outcomes(wire[k].cmd, board) :
        /\ ~wire[k].done
        /\ board' = o[1]
        /\ wire' = [wire EXCEPT ![k].done = TRUE, ![k].answer = o[2]]
  BY <1>a
<1> DEFINE r == wire[k]
<1> DEFINE x == [r EXCEPT !.done = TRUE, !.answer = o[2]]
<1>3. wire \in Seq(Entry) /\ r \in Range(wire) /\ r \in Entry /\ r.age \in Nat /\ r.cmd \in Commands
  BY <1>2, WireFacts DEF Range
<1>4. x.done = TRUE /\ x.answer = o[2] /\ x.age = r.age /\ x.cmd = r.cmd
  BY <1>3 DEF Entry
<1>5. wire' = [wire EXCEPT ![k] = x]
  BY <1>2
<1>6. board \in BoardType
  BY DEF Inv, BoardType
<1>7. /\ o[2] = "off" => r.cmd \in {"status", "off_all"} /\ ~o[1].on
      /\ r.cmd \in {"status", "off_all"} /\ ~board.on => ~o[1].on
  BY <1>2, <1>3, <1>6, OffOutcome
<1> HIDE DEF x
<1>8. /\ x \in Range(wire')
      /\ \A e \in Range(wire') : e = x \/ e \in Range(wire)
      /\ \A e \in Range(wire) : e = r \/ e \in Range(wire')
  BY <1>2, <1>5 DEF Range
\* What was answered before is older than what is executed now.
<1>9. \A e \in Range(wire) : e.done => r.age <= e.age
  <2> SUFFICES ASSUME NEW i \in DOMAIN wire, wire[i].done
               PROVE  r.age <= wire[i].age
    BY DEF Range
  <2>1. i \in Nat /\ k \in Nat /\ i # k /\ wire[i].age \in Nat
    BY <1>2, <1>3, WireFacts DEF Range
  <2>2. ~(k < i)
    BY <1>2, <1>3 DEF Inv, WireOK, InOrder
  <2>3. i < k => wire[i].age >= r.age
    BY <1>2, <1>3 DEF Inv, WireOK, InOrder
  <2> QED BY <1>3, <2>1, <2>2, <2>3
<1> HIDE DEF r
<1>10. OwnCommands'
  BY <1>1, <1>3, <1>4, <1>8 DEF Served, OwnCommands, Calling
<1>11. OffAnswers'
  <2>1. ASSUME Calling, NEW e \in Range(wire), e.age = 0, e.done, e.answer = "off"
        PROVE  ~board'.on
    <3>1. r.age = 0
      BY <1>3, <1>9, <2>1
    <3>2. r.cmd = e.cmd /\ e.cmd \in {"status", "off_all"} /\ ~board.on
      BY <1>3, <2>1, <3>1 DEF Served, OwnCommands, OffAnswers
    <3> QED BY <1>2, <1>7, <3>2
  <2>2. o[2] = "off" => ~board'.on
    BY <1>2, <1>7
  <2>3. \A e \in Range(wire') : e.answer = "off" => e.cmd \in {"status", "off_all"}
    BY <1>4, <1>7, <1>8 DEF Served, OffAnswers
  <2>4. Calling' = Calling
    BY <1>1 DEF Calling
  <2>5. ASSUME Calling, NEW e \in Range(wire'), e.age = 0, e.done, e.answer = "off"
        PROVE  ~board'.on
    BY <1>4, <1>8, <2>1, <2>2, <2>5
  <2> QED BY <2>3, <2>4, <2>5 DEF OffAnswers
<1>12. Returned'
  BY <1>1, <1>2, <1>3, <1>4, <1>7, <1>8 DEF Served, Returned, Calling
<1>13. How' = How /\ call'.cmd = call.cmd /\ Calling' = Calling
  BY <1>1 DEF How, Calling
<1>14. CASE Calling /\ r.age = 0
  <2>1. r.cmd = call.cmd /\ call.cmd \in Commands
    BY <1>3, <1>14 DEF Served, OwnCommands
  <2>2. Own' = Own \cup {o[2]}
    <3>1. ASSUME NEW y \in Own' PROVE y \in Own \cup {o[2]}
      <4>1. PICK e \in Range(wire') : e.age = 0 /\ e.done /\ y = e.answer
        BY OwnAnswersNext
      <4> QED BY <1>4, <1>8, <1>14, <4>1, OwnAnswers
    <3>2. ASSUME NEW y \in Own PROVE y \in Own'
      <4>1. PICK e \in Range(wire) : e.age = 0 /\ e.done /\ y = e.answer
        BY OwnAnswers
      <4>2. e \in Range(wire')
        BY <1>2, <1>8, <4>1 DEF r
      <4> QED BY <1>13, <1>14, <4>1, <4>2, OwnAnswersNext
    <3>3. o[2] \in Own'
      BY <1>4, <1>8, <1>13, <1>14, OwnAnswersNext
    <3> QED BY <3>1, <3>2, <3>3
  <2>3. Late' = Late
    <3>1. ASSUME NEW y \in Late' PROVE y \in Late
      <4>1. PICK e \in Range(wire') : ~e.done /\ e.age > 0 /\ y = e.cmd
        BY <1>13, <1>14, LateCommandsNext
      <4> QED BY <1>4, <1>8, <4>1, LateCommands
    <3>2. ASSUME NEW y \in Late PROVE y \in Late'
      <4>1. PICK e \in Range(wire) : ~e.done /\ e.age > 0 /\ y = e.cmd
        BY <1>14, LateCommands
      <4>2. e # r
        BY <1>14, <4>1
      <4> QED BY <1>8, <4>1, <4>2, LateCommandsNext
    <3> QED BY <3>1, <3>2
  <2>4. Service!Execute
    BY <1>2, <1>13, <2>1, <2>2, <2>3 DEF Service!Execute, Own, Late, How, r
  <2> QED BY <1>10, <1>11, <1>12, <2>4 DEF Served, Service!Next
<1>15. CASE ~(Calling /\ r.age = 0)
  <2>1. r.cmd \in Late
    BY <1>2, <1>3, <1>15, LateCommands DEF r
  <2>2. Own' = Own
    <3>1. ASSUME NEW y \in Own' PROVE y \in Own
      <4>1. PICK e \in Range(wire') : e.age = 0 /\ e.done /\ y = e.answer /\ Calling
        BY <1>13, OwnAnswersNext
      <4> QED BY <1>4, <1>8, <1>15, <4>1, OwnAnswers
    <3>2. ASSUME NEW y \in Own PROVE y \in Own'
      <4>1. PICK e \in Range(wire) : e.age = 0 /\ e.done /\ y = e.answer /\ Calling
        BY OwnAnswers
      <4>2. e \in Range(wire')
        BY <1>2, <1>8, <4>1 DEF r
      <4> QED BY <1>13, <4>1, <4>2, OwnAnswersNext
    <3> QED BY <3>1, <3>2
  <2>3. Late' \subseteq Late
    <3> SUFFICES ASSUME NEW y \in Late' PROVE y \in Late
      OBVIOUS
    <3>1. PICK e \in Range(wire') : ~e.done /\ (~Calling \/ e.age > 0) /\ y = e.cmd
      BY <1>13, LateCommandsNext
    <3> QED BY <1>4, <1>8, <3>1, LateCommands
  <2>4. Service!ExecuteLate
    BY <1>2, <1>13, <2>1, <2>2, <2>3 DEF Service!ExecuteLate, Own, Late, How, r
  <2> QED BY <1>10, <1>11, <1>12, <2>4 DEF Served, Service!Next
<1> QED BY <1>14, <1>15

LEMMA SendStep ==
    ASSUME Inv, Served, Send
    PROVE  Served' /\ Service!Next
<1> DEFINE n == [cmd |-> call.cmd, seq |-> call.seq, age |-> 0, done |-> FALSE, answer |-> "none"]
<1>1. PICK k \in Arrived : wire' = Append(SubSeq(wire, k + 1, Len(wire)), n)
  BY DEF Send
<1> DEFINE w == SubSeq(wire, k + 1, Len(wire))
<1>2. wire \in Seq(Entry) /\ k \in 0..Len(wire) /\ call \in CallType /\ call.phase = "try"
      /\ call' = [call EXCEPT !.phase = "wait", !.left = @ - 1] /\ UNCHANGED <<result, board>>
  BY DEF Inv, WireOK, Arrived, Send, CallOK
<1>3. Part(w, wire) /\ w \in Seq(Entry)
  BY <1>2, SuffixIsPart DEF Part
<1>4. Range(w) \subseteq Range(wire)
  BY <1>2, <1>3, PartShrinks
<1>5. n.cmd = call.cmd /\ n.age = 0 /\ n.done = FALSE /\ n.answer = "none"
  OBVIOUS
<1> HIDE DEF n, w
<1>6. \A e \in Range(Append(w, n)) : e \in Range(w) \/ e = n
  BY <1>3 DEF Range
<1>7. Calling /\ Calling' /\ call'.cmd = call.cmd
  BY <1>2 DEF CallType, Calling
<1>8. wire' = Append(w, n)
  BY <1>1 DEF w
<1> QED BY <1>2, <1>4, <1>5, <1>6, <1>7, <1>8, QuietStep

LEMMA FailureStep ==
    ASSUME Inv, Served, TransportFails \/ BadFrame \/ Timeout
    PROVE  Served' /\ Service!Next
<1>1. CASE TransportFails
  <2>1. Calling /\ End("transport", "none", 0) /\ UNCHANGED <<wire, board>>
    BY <1>1 DEF TransportFails, Calling
  <2> QED BY <2>1, RaiseStep
<1>2. CASE BadFrame
  <2>1. Calling /\ End("transport", "none", 0) /\ UNCHANGED board /\ wire # <<>> /\ wire' = Tail(wire)
    BY <1>2 DEF BadFrame, Calling
  <2> QED BY <2>1, PacketRead, RaiseStep
<1>3. CASE Timeout
  <2>1. UNCHANGED <<wire, board>> /\ Calling /\ call \in CallType
    BY <1>3 DEF Timeout, Calling, Inv, CallOK
  <2>2. CASE call.left > 0
    <3>1. call' = [call EXCEPT !.phase = "try"] /\ UNCHANGED result
      BY <1>3, <2>2 DEF Timeout
    <3>2. Calling' /\ call'.cmd = call.cmd
      BY <2>1, <3>1 DEF CallType, Calling
    <3> QED BY <2>1, <3>1, <3>2, QuietStep
  <2>3. CASE ~(call.left > 0)
    <3>1. End("timeout", "none", 0)
      BY <1>3, <2>3 DEF Timeout
    <3> QED BY <2>1, <3>1, RaiseStep
  <2> QED BY <2>2, <2>3
<1> QED BY <1>1, <1>2, <1>3

LEMMA EnvironmentStep ==
    ASSUME Inv, Served, Close \/ PulseEnds \/ Lose \/ Detach \/ Attach \/ UNCHANGED vars
    PROVE  Served' /\ Service!Next
<1>1. UNCHANGED <<call, result>> /\ board' \in {board, Off}
  BY DEF Close, PulseEnds, Lose, Detach, Attach, vars
<1>2. Range(wire') \subseteq Range(wire)
  <2>1. wire \in Seq(Entry)
    BY DEF Inv, WireOK
  <2>2. CASE Lose
    BY <2>1, <2>2, LossIsPart, PartShrinks DEF Lose
  <2>3. CASE Detach
    BY <2>3 DEF Detach, Range
  <2>4. CASE UNCHANGED wire
    BY <2>4
  <2> QED BY <2>2, <2>3, <2>4 DEF Close, PulseEnds, Attach, vars
<1>3. Calling' = Calling /\ call'.cmd = call.cmd
  BY <1>1 DEF Calling
<1> QED BY <1>1, <1>2, <1>3, QuietStep

-------------------------------------------------------------------------------
LEMMA InitServed == Init => Served /\ Service!Init
<1> SUFFICES ASSUME Init PROVE Served /\ Service!Init
  OBVIOUS
<1>1. call.cmd = "none" /\ ~Calling /\ result.kind = "none" /\ Range(wire) = {}
  BY DEF Init, NoCall, NoResult, Calling, Range
<1>2. Own = {} /\ Late = {} /\ How = "none"
  BY <1>1, OwnAnswers, LateCommands DEF How
<1> QED BY <1>1, <1>2 DEF Served, OwnCommands, OffAnswers, Returned, Service!Init, Own, Late, How

LEMMA NextServed == Inv /\ Inv' /\ Served /\ [Next]_vars => Served' /\ Service!Next
<1> SUFFICES ASSUME Inv, Inv', Served, [Next]_vars PROVE Served' /\ Service!Next
  OBVIOUS
<1>1. CASE \E c \in Commands : Request(c)
  BY <1>1, RequestStep
<1>2. CASE Send \/ TransportFails \/ BadFrame \/ Receive \/ Timeout \/ Execute
  BY <1>2, SendStep, FailureStep, ReceiveStep, ExecuteStep
<1>3. CASE Close \/ PulseEnds \/ Lose \/ Detach \/ Attach \/ UNCHANGED vars
  BY <1>3, EnvironmentStep
<1> QED BY <1>1, <1>2, <1>3 DEF Next

LEMMA ServedAlways == Spec => []Served
<1>1. Init => Served
  BY InitServed
<1>2. Inv /\ Inv' /\ Served /\ [Next]_vars => Served'
  BY NextServed
<1> QED BY <1>1, <1>2, Invariant, PTL DEF Spec

\* After a call that returned the reading "off" (off_all, or a status), the
\* relay is off and nothing on the wire can switch it on, for every number of
\* retries and packets: the last word of the board is the one that was read.
THEOREM OffIsConfirmed == Spec => []ConfirmedOff
<1>1. Inv /\ Served => ConfirmedOff
  <2> SUFFICES ASSUME Inv, Served, ~Calling, result.kind = "ok", result.answer = "off"
               PROVE  /\ ~board.on
                      /\ \A i \in DOMAIN wire : wire[i].cmd \notin {"set_on", "pulse"}
    BY DEF ConfirmedOff
  <2>1. \A i \in DOMAIN wire : wire[i] \in Range(wire)
    BY DEF Range
  <2> QED BY <2>1 DEF Served, Returned
<1> QED BY <1>1, Invariant, ServedAlways, PTL

\* RelayClient implements RpcService: an answer comes from an execution during
\* the call, and a call that returned is a fence for everything sent before.
THEOREM ClientKeepsService == Spec => ServiceKept
<1>1. Init => Service!Init
  BY InitServed
<1>2. Inv /\ Inv' /\ Served /\ [Next]_vars => [Service!Next]_(Service!vars)
  BY NextServed
<1> QED BY <1>1, <1>2, Invariant, ServedAlways, PTL DEF Spec, ServiceKept, Service!Spec
=============================================================================
