---------------------------- MODULE HostRpcProofs ----------------------------
(* Proofs about HostRpc: for every number of sequence numbers, of retries    *)
(* and of packets on the wire, a call never takes the answer of an earlier   *)
(* call for its own, as long as no packet is older than the sequence numbers *)
(* take to come round.                                                       *)
EXTENDS HostRpc, SequenceTheorems, TLAPS

-------------------------------------------------------------------------------
(* The inductive invariant: an exchange of age a carries the sequence number *)
(* a calls before the latest one.                                            *)

Prev(s) == IF s = 0 THEN SeqNumbers - 1 ELSE s - 1
Back(s, a) == IF a <= s THEN s - a ELSE s - a + SeqNumbers

InOrder(w) ==
    \A i, j \in DOMAIN w : i < j => w[i].age >= w[j].age /\ (w[j].done => w[i].done)

WireOK(w, s) ==
    /\ w \in Seq(Entry)
    /\ Len(w) <= MaxWire
    /\ \A i \in DOMAIN w : w[i].seq = Back(Prev(s), w[i].age)
    /\ InOrder(w)

CallType == [phase : {"idle", "try", "wait"}, cmd : Commands \cup {"none"},
             seq : 0..(SeqNumbers - 1), left : 0..(Retries + 1)]

CallOK ==
    /\ call \in CallType
    /\ Calling => call.cmd \in Commands /\ call.seq = Prev(seq)
    /\ call.phase = "try" => call.left > 0

Inv ==
    /\ seq \in 0..(SeqNumbers - 1)
    /\ CallOK
    /\ serial \in {"none", "open", "dead"}
    /\ board \in [on : BOOLEAN, pulsing : BOOLEAN]
    /\ WireOK(wire, seq)
    /\ AnswerIsOwn

-------------------------------------------------------------------------------
(* Parts of a wire.                                                          *)

\* w is v without some of its exchanges.
Part(w, v) ==
    /\ w \in Seq(Entry) /\ Len(w) <= Len(v)
    /\ \E f \in [1..Len(w) -> 1..Len(v)] :
        /\ \A i, j \in 1..Len(w) : i < j => f[i] < f[j]
        /\ \A i \in 1..Len(w) : w[i] = v[f[i]]

\* What is left of a wire when packets are read, discarded or lost has the
\* properties of the wire.
LEMMA PartOfWire ==
    ASSUME NEW v, NEW w, NEW s, WireOK(v, s), Part(w, v)
    PROVE  WireOK(w, s)
<1>1. PICK f \in [1..Len(w) -> 1..Len(v)] :
        /\ \A i, j \in 1..Len(w) : i < j => f[i] < f[j]
        /\ \A i \in 1..Len(w) : w[i] = v[f[i]]
  BY DEF Part
<1>2. w \in Seq(Entry) /\ v \in Seq(Entry) /\ Len(w) \in Nat /\ Len(v) \in Nat
      /\ DOMAIN w = 1..Len(w) /\ DOMAIN v = 1..Len(v) /\ Len(w) <= Len(v) /\ Len(v) <= MaxWire
  BY DEF Part, WireOK
<1>3. \A i \in DOMAIN w : w[i].seq = Back(Prev(s), w[i].age)
  BY <1>1, <1>2 DEF WireOK
<1>4. InOrder(w)
  <2> SUFFICES ASSUME NEW i \in 1..Len(w), NEW j \in 1..Len(w), i < j
               PROVE  w[i].age >= w[j].age /\ (w[j].done => w[i].done)
    BY <1>2 DEF InOrder
  <2>1. f[i] \in DOMAIN v /\ f[j] \in DOMAIN v /\ f[i] < f[j] /\ w[i] = v[f[i]] /\ w[j] = v[f[j]]
    BY <1>1, <1>2
  <2> QED BY <2>1 DEF WireOK, InOrder
<1> QED BY <1>2, <1>3, <1>4, HostRpcAssumption DEF WireOK

\* The packets behind the first k.
LEMMA SuffixIsPart ==
    ASSUME NEW v \in Seq(Entry), NEW k \in 0..Len(v)
    PROVE  Part(SubSeq(v, k + 1, Len(v)), v)
<1> DEFINE w == SubSeq(v, k + 1, Len(v))
<1> DEFINE f == [i \in 1..Len(w) |-> i + k]
<1>1. w \in Seq(Entry) /\ Len(w) = Len(v) - k /\ Len(v) \in Nat
      /\ \A i \in 1..(Len(v) - k) : w[i] = v[i + k]
  OBVIOUS
<1>2. f \in [1..Len(w) -> 1..Len(v)]
  BY <1>1
<1>3. \A i, j \in 1..Len(w) : i < j => f[i] < f[j]
  BY <1>1
<1>4. \A i \in 1..Len(w) : w[i] = v[f[i]]
  BY <1>1
<1> HIDE DEF f, w
<1>5. \E g \in [1..Len(w) -> 1..Len(v)] :
        /\ \A i, j \in 1..Len(w) : i < j => g[i] < g[j]
        /\ \A i \in 1..Len(w) : w[i] = v[g[i]]
  BY <1>2, <1>3, <1>4
<1>6. w \in Seq(Entry) /\ Len(w) <= Len(v)
  BY <1>1
<1>7. Part(w, v)
  BY <1>5, <1>6, Zenon DEF Part
<1> QED BY <1>7 DEF w

LEMMA TailIsPart ==
    ASSUME NEW v \in Seq(Entry), v # <<>>
    PROVE  Part(Tail(v), v)
<1>1. 1 \in 0..Len(v)
  OBVIOUS
<1>2. Tail(v) = SubSeq(v, 1 + 1, Len(v))
  BY TailIsSubSeq
<1> QED BY <1>1, <1>2, SuffixIsPart

LEMMA LossIsPart ==
    ASSUME NEW v \in Seq(Entry), NEW k \in DOMAIN v
    PROVE  Part(RemoveAt(v, k), v)
<1> DEFINE w == RemoveAt(v, k)
<1> DEFINE f == [i \in 1..Len(w) |-> IF i < k THEN i ELSE i + 1]
<1>1. k \in 1..Len(v) /\ Len(v) \in Nat
  OBVIOUS
<1>2. /\ SubSeq(v, 1, k - 1) \in Seq(Entry) /\ Len(SubSeq(v, 1, k - 1)) = k - 1
      /\ \A i \in 1..(k - 1) : SubSeq(v, 1, k - 1)[i] = v[i]
  BY <1>1
<1>3. /\ SubSeq(v, k + 1, Len(v)) \in Seq(Entry) /\ Len(SubSeq(v, k + 1, Len(v))) = Len(v) - k
      /\ \A i \in 1..(Len(v) - k) : SubSeq(v, k + 1, Len(v))[i] = v[i + k]
  BY <1>1
<1> DEFINE a == SubSeq(v, 1, k - 1)
<1> DEFINE b == SubSeq(v, k + 1, Len(v))
<1> HIDE DEF a, b
<1>a. /\ a \o b \in Seq(Entry) /\ Len(a \o b) = Len(a) + Len(b)
      /\ \A i \in 1..(Len(a) + Len(b)) :
            (a \o b)[i] = IF i <= Len(a) THEN a[i] ELSE b[i - Len(a)]
  BY <1>2, <1>3, ConcatProperties DEF a, b
<1>b. w = a \o b
  BY DEF RemoveAt, a, b
<1>c. Len(a) = k - 1 /\ Len(b) = Len(v) - k
  BY <1>2, <1>3 DEF a, b
<1>4. w \in Seq(Entry) /\ Len(w) = Len(v) - 1
  <2> HIDE DEF w
  <2> QED BY <1>1, <1>a, <1>b, <1>c
<1>5. \A i \in 1..(Len(v) - 1) : w[i] = v[IF i < k THEN i ELSE i + 1]
  <2> HIDE DEF w
  <2> TAKE i \in 1..(Len(v) - 1)
  <2>1. CASE i < k
    <3>1. w[i] = a[i]
      BY <2>1, <1>1, <1>a, <1>b, <1>c
    <3>2. a[i] = v[i]
      BY <2>1, <1>1, <1>2 DEF a
    <3> QED BY <2>1, <3>1, <3>2
  <2>2. CASE ~(i < k)
    <3>1. w[i] = b[i - (k - 1)]
      <4>1. i \in 1..(Len(a) + Len(b)) /\ ~(i <= Len(a))
        BY <2>2, <1>1, <1>c
      <4>2. (a \o b)[i] = b[i - Len(a)]
        BY <4>1, <1>a
      <4> QED BY <4>2, <1>b, <1>c
    <3>2. i - (k - 1) \in 1..(Len(v) - k) /\ i - (k - 1) + k = i + 1
      BY <2>2, <1>1
    <3>3. b[i - (k - 1)] = v[i + 1]
      BY <3>2, <1>3 DEF b
    <3> QED BY <2>2, <3>1, <3>3
  <2> QED BY <2>1, <2>2
<1>6. f \in [1..Len(w) -> 1..Len(v)]
  BY <1>1, <1>4
<1>7. \A i, j \in 1..Len(w) : i < j => f[i] < f[j]
  BY <1>1, <1>4
<1>8. \A i \in 1..Len(w) : w[i] = v[f[i]]
  BY <1>1, <1>4, <1>5
<1> HIDE DEF f, w
<1>9. \E g \in [1..Len(w) -> 1..Len(v)] :
        /\ \A i, j \in 1..Len(w) : i < j => g[i] < g[j]
        /\ \A i \in 1..Len(w) : w[i] = v[g[i]]
  BY <1>6, <1>7, <1>8
<1>10. w \in Seq(Entry) /\ Len(w) <= Len(v)
  BY <1>1, <1>4
<1>11. Part(w, v)
  BY <1>9, <1>10, Zenon DEF Part
<1> QED BY <1>11 DEF w
-------------------------------------------------------------------------------
(* Sequence numbers.                                                         *)

\* One call further, an exchange is one call older, and its number is the same
\* number of calls back.
LEMMA Numbers ==
    ASSUME NEW s \in 0..(SeqNumbers - 1)
    PROVE  /\ Prev(s) \in 0..(SeqNumbers - 1)
           /\ NextSeq(s) \in 0..(SeqNumbers - 1)
           /\ Prev(NextSeq(s)) = s
           /\ Back(Prev(s), 0) = Prev(s)
           /\ \A a \in Nat : a < MaxLag => Back(s, a + 1) = Back(Prev(s), a)
  BY HostRpcAssumption DEF Prev, Back, NextSeq

\* Only the exchanges of the latest call have its number: the others are at
\* least one and at most MaxLag calls back, too few to come round.
LEMMA OwnNumber ==
    ASSUME NEW s \in 0..(SeqNumbers - 1), NEW a \in 0..MaxLag, Back(Prev(s), a) = Prev(s)
    PROVE  a = 0
  BY HostRpcAssumption DEF Prev, Back

LEMMA NewExchange ==
    ASSUME NEW s \in 0..(SeqNumbers - 1), NEW w, WireOK(w, s), Len(w) < MaxWire,
           NEW e \in Entry, e.age = 0, e.done = FALSE, e.seq = Prev(s)
    PROVE  WireOK(Append(w, e), s)
<1> DEFINE v == Append(w, e)
<1>1. /\ v \in Seq(Entry) /\ Len(v) = Len(w) + 1 /\ Len(w) \in Nat
      /\ w \in Seq(Entry) /\ DOMAIN w = 1..Len(w) /\ DOMAIN v = 1..(Len(w) + 1)
      /\ v[Len(w) + 1] = e /\ \A i \in 1..Len(w) : v[i] = w[i]
  BY DEF WireOK
<1> HIDE DEF v
<1>2. \A i \in DOMAIN v : v[i].seq = Back(Prev(s), v[i].age)
  <2> SUFFICES ASSUME NEW i \in 1..(Len(w) + 1)
               PROVE  v[i].seq = Back(Prev(s), v[i].age)
    BY <1>1
  <2>1. CASE i = Len(w) + 1
    BY <2>1, <1>1, Numbers
  <2>2. CASE i # Len(w) + 1
    <3>1. i \in DOMAIN w /\ v[i] = w[i]
      BY <2>2, <1>1
    <3> QED BY <3>1 DEF WireOK
  <2> QED BY <2>1, <2>2
<1>3. InOrder(v)
  <2> SUFFICES ASSUME NEW i \in 1..(Len(w) + 1), NEW j \in 1..(Len(w) + 1), i < j
               PROVE  v[i].age >= v[j].age /\ (v[j].done => v[i].done)
    BY <1>1 DEF InOrder
  <2>1. i \in DOMAIN w /\ v[i] = w[i] /\ w[i] \in Entry
    BY <1>1
  <2>2. CASE j = Len(w) + 1
    BY <2>1, <2>2, <1>1, HostRpcAssumption DEF Entry
  <2>3. CASE j # Len(w) + 1
    <3>1. j \in DOMAIN w /\ v[j] = w[j]
      BY <2>3, <1>1
    <3> QED BY <2>1, <3>1 DEF WireOK, InOrder
  <2> QED BY <2>2, <2>3
<1>4. Len(v) <= MaxWire
  BY <1>1, HostRpcAssumption
<1> QED BY <1>1, <1>2, <1>3, <1>4 DEF WireOK, v

-------------------------------------------------------------------------------
(* Every step preserves the invariant.                                       *)

LEMMA InitInv == Init => Inv
<1> SUFFICES ASSUME Init PROVE Inv
  OBVIOUS
<1>1. WireOK(wire, seq)
  BY HostRpcAssumption DEF Init, WireOK, InOrder
<1>2. call \in CallType /\ ~Calling
  BY HostRpcAssumption DEF Init, NoCall, CallType, Calling
<1>3. CallOK
  BY <1>2 DEF CallOK, Calling
<1>4. board \in [on : BOOLEAN, pulsing : BOOLEAN]
  <2>1. TRUE \in BOOLEAN /\ FALSE \in BOOLEAN
    OBVIOUS
  <2>2. \E a, b \in BOOLEAN : board = [on |-> a, pulsing |-> b]
    BY <2>1, Zenon DEF Init, Off
  <2> QED BY <2>2
<1>5. AnswerIsOwn
  <2>1. result.kind = "none"
    BY DEF Init, NoResult
  <2> QED BY <2>1 DEF AnswerIsOwn
<1>6. seq \in 0..(SeqNumbers - 1) /\ serial \in {"none", "open", "dead"}
  BY HostRpcAssumption DEF Init
<1> QED BY <1>1, <1>3, <1>4, <1>5, <1>6 DEF Inv

\* A call that ends leaves no call; an answer it accepted is its own.
LEMMA EndOfCall ==
    ASSUME NEW kind, NEW answer, NEW age, End(kind, answer, age),
           kind \in {"ok", "device"} => age = 0, UNCHANGED seq
    PROVE  CallOK' /\ AnswerIsOwn'
  BY HostRpcAssumption DEF End, CallOK, CallType, Calling, NoCall, AnswerIsOwn

LEMMA RequestInv ==
    ASSUME Inv, NEW c \in Commands, Request(c)
    PROVE  Inv'
<1>1. wire \in Seq(Entry) /\ Len(wire) \in Nat /\ DOMAIN wire = 1..Len(wire)
      /\ Len(wire) <= MaxWire
  BY DEF Inv, WireOK
<1>2. wire' = [i \in 1..Len(wire) |-> [wire[i] EXCEPT !.age = @ + 1]]
  BY <1>1 DEF Request, Aged
<1>3. \A i \in 1..Len(wire) : /\ wire[i] \in Entry /\ wire[i].age \in 0..(MaxLag - 1)
                              /\ wire'[i] \in Entry /\ wire'[i].age = wire[i].age + 1
                              /\ wire'[i].seq = wire[i].seq /\ wire'[i].done = wire[i].done
  <2> SUFFICES ASSUME NEW i \in 1..Len(wire)
               PROVE  /\ wire[i] \in Entry /\ wire[i].age \in 0..(MaxLag - 1)
                      /\ wire'[i] \in Entry /\ wire'[i].age = wire[i].age + 1
                      /\ wire'[i].seq = wire[i].seq /\ wire'[i].done = wire[i].done
    OBVIOUS
  <2>1. wire[i] \in Entry /\ wire[i].age < MaxLag
    BY <1>1 DEF Request
  <2>2. wire'[i] = [wire[i] EXCEPT !.age = @ + 1]
    BY <1>2
  <2>3. wire[i].age \in 0..(MaxLag - 1) /\ wire[i].age + 1 \in 0..MaxLag
    BY <2>1, HostRpcAssumption DEF Entry
  <2>4. wire'[i] \in Entry
    BY <2>1, <2>2, <2>3 DEF Entry
  <2>5. /\ wire'[i].age = wire[i].age + 1
        /\ wire'[i].seq = wire[i].seq /\ wire'[i].done = wire[i].done
    BY <2>1, <2>2 DEF Entry
  <2> QED BY <2>1, <2>3, <2>4, <2>5
<1>4. wire' \in Seq(Entry) /\ Len(wire') = Len(wire) /\ DOMAIN wire' = 1..Len(wire)
  <2>1. DOMAIN wire' = 1..Len(wire) /\ \A i \in 1..Len(wire) : wire'[i] \in Entry
    BY <1>2, <1>3
  <2>2. wire' = [i \in 1..Len(wire) |-> wire'[i]]
    BY <1>2
  <2>3. wire' \in [1..Len(wire) -> Entry]
    BY <2>1, <2>2
  <2>4. wire' \in Seq(Entry)
    BY <1>1, <2>3, SeqDef
  <2>5. Len(wire') = Len(wire)
    BY <1>1, <2>1, <2>4, LenProperties
  <2> QED BY <2>1, <2>4, <2>5
<1>5. seq \in 0..(SeqNumbers - 1) /\ seq' = NextSeq(seq)
  BY DEF Inv, Request
<1>6. \A i \in DOMAIN wire' : wire'[i].seq = Back(Prev(seq'), wire'[i].age)
  <2> SUFFICES ASSUME NEW i \in 1..Len(wire)
               PROVE  wire'[i].seq = Back(Prev(seq'), wire'[i].age)
    BY <1>4
  <2>1. wire[i].seq = Back(Prev(seq), wire[i].age)
    BY <1>1 DEF Inv, WireOK
  <2>2. Back(seq, wire[i].age + 1) = Back(Prev(seq), wire[i].age)
    <3>1. wire[i].age \in Nat /\ wire[i].age < MaxLag
      BY <1>3, HostRpcAssumption
    <3> QED BY <3>1, <1>5, Numbers
  <2> QED BY <1>3, <1>5, <2>1, <2>2, Numbers
<1>7. InOrder(wire')
  <2> SUFFICES ASSUME NEW i \in 1..Len(wire), NEW j \in 1..Len(wire), i < j
               PROVE  wire'[i].age >= wire'[j].age /\ (wire'[j].done => wire'[i].done)
    BY <1>4 DEF InOrder
  <2>1. wire[i].age >= wire[j].age /\ (wire[j].done => wire[i].done)
    BY <1>1 DEF Inv, WireOK, InOrder
  <2> QED BY <1>3, <2>1
<1>8. WireOK(wire', seq')
  BY <1>1, <1>4, <1>6, <1>7 DEF WireOK
<1>9. CallOK'
  <2>1. call' = [phase |-> "try", cmd |-> c, seq |-> seq, left |-> Retries + 1]
    BY DEF Request
  <2>2. call'.seq = Prev(seq')
    BY <2>1, <1>5, Numbers
  <2> QED BY <2>1, <2>2, <1>5, HostRpcAssumption DEF CallOK, CallType, Calling
<1> QED BY <1>5, <1>8, <1>9, Numbers DEF Inv, Request, AnswerIsOwn, NoResult

LEMMA SendInv ==
    ASSUME Inv, Send
    PROVE  Inv'
<1> DEFINE e == [cmd |-> call.cmd, seq |-> call.seq, age |-> 0,
                 done |-> FALSE, answer |-> "none"]
<1>1. PICK k \in Arrived : wire' = Append(SubSeq(wire, k + 1, Len(wire)), e)
  BY DEF Send
<1> DEFINE w == SubSeq(wire, k + 1, Len(wire))
<1>2. wire \in Seq(Entry) /\ k \in 0..Len(wire) /\ WireOK(wire, seq) /\ Len(wire) < MaxWire
      /\ seq \in 0..(SeqNumbers - 1)
  BY DEF Inv, WireOK, Arrived, Send
<1>3. call \in CallType /\ call.phase = "try" /\ call.cmd \in Commands /\ call.seq = Prev(seq)
      /\ call.left > 0
  BY DEF Inv, CallOK, Send, Calling
<1>4. WireOK(w, seq)
  BY <1>2, SuffixIsPart, PartOfWire
<1>5. Len(w) < MaxWire
  BY <1>2, SuffixIsPart, HostRpcAssumption DEF Part
<1>6. e \in Entry
  BY <1>3, HostRpcAssumption DEF Entry, CallType
<1>7. e.age = 0 /\ e.done = FALSE /\ e.seq = Prev(seq)
  BY <1>3
<1> HIDE DEF e, w
<1>8. WireOK(Append(w, e), seq)
  BY <1>2, <1>4, <1>5, <1>6, <1>7, NewExchange
<1>9. WireOK(wire', seq')
  BY <1>1, <1>8 DEF Send, w
<1>10. call' = [call EXCEPT !.phase = "wait", !.left = @ - 1]
  BY DEF Send
<1>11. CallOK'
  <2>1. call.left - 1 \in 0..(Retries + 1)
    BY <1>3, HostRpcAssumption DEF CallType
  <2>2. /\ call' \in CallType /\ call'.phase = "wait"
        /\ call'.cmd = call.cmd /\ call'.seq = call.seq
    BY <1>3, <1>10, <2>1 DEF CallType
  <2> QED BY <1>3, <2>2 DEF Send, CallOK
<1> QED BY <1>9, <1>11 DEF Inv, Send, AnswerIsOwn

\* A call that ends without an answer keeps the invariant if the wire does.
LEMMA FailedCall ==
    ASSUME Inv, NEW kind \in {"transport", "protocol", "timeout"}, NEW answer, NEW age,
           End(kind, answer, age), UNCHANGED <<seq, board>>,
           serial' \in {"none", "open", "dead"}, WireOK(wire', seq)
    PROVE  Inv'
<1>1. CallOK' /\ AnswerIsOwn'
  BY EndOfCall
<1> QED BY <1>1 DEF Inv

\* What is read from the port leaves the wire.
LEMMA ReadWire ==
    ASSUME Inv, wire # <<>>, wire' = Tail(wire)
    PROVE  WireOK(wire', seq) /\ Head(wire) \in Entry
           /\ Head(wire).seq = Back(Prev(seq), Head(wire).age)
<1>1. wire \in Seq(Entry) /\ WireOK(wire, seq)
  BY DEF Inv, WireOK
<1>2. 1 \in DOMAIN wire /\ Head(wire) = wire[1]
  BY <1>1
<1>3. WireOK(wire', seq)
  BY <1>1, TailIsPart, PartOfWire
<1> QED BY <1>1, <1>2, <1>3 DEF WireOK

\* The heart of the proof: an answer whose number is that of the call has age
\* zero, because older exchanges carry older numbers.
LEMMA ReceiveInv ==
    ASSUME Inv, Receive
    PROVE  Inv'
<1> DEFINE e == Head(wire)
<1> DEFINE kind == IF e.answer = "undecodable" \/ ~Matches(e) THEN "protocol"
                   ELSE IF e.answer = "busy" THEN "device" ELSE "ok"
<1>1. End(kind, e.answer, e.age) /\ UNCHANGED <<seq, serial, board>>
  BY DEF Receive
<1>2. WireOK(wire', seq) /\ e \in Entry /\ e.seq = Back(Prev(seq), e.age)
  BY ReadWire DEF Receive
<1>3. seq \in 0..(SeqNumbers - 1) /\ call.seq = Prev(seq)
  BY DEF Inv, CallOK, Calling, Receive
<1>4. kind \in {"ok", "device"} => Matches(e)
  <2>1. ~Matches(e) => kind = "protocol"
    OBVIOUS
  <2> HIDE DEF kind
  <2> QED BY <2>1
<1> HIDE DEF kind
<1>5. ASSUME kind \in {"ok", "device"} PROVE e.age = 0
  <2>1. e.seq = call.seq
    BY <1>4, <1>5 DEF Matches
  <2>2. e.age \in 0..MaxLag
    BY <1>2 DEF Entry
  <2> HIDE DEF e
  <2> QED BY <1>2, <1>3, <2>1, <2>2, OwnNumber
<1>6. CallOK' /\ AnswerIsOwn'
  BY <1>1, <1>5, EndOfCall
<1> QED BY <1>1, <1>2, <1>6 DEF Inv

LEMMA TransportFailsInv ==
    ASSUME Inv, TransportFails
    PROVE  Inv'
<1>1. End("transport", "none", 0) /\ UNCHANGED <<seq, board>> /\ serial' = "none"
      /\ wire' = wire
  BY DEF TransportFails
<1>2. WireOK(wire', seq)
  BY <1>1 DEF Inv
<1> QED BY <1>1, <1>2, FailedCall

LEMMA BadFrameInv ==
    ASSUME Inv, BadFrame
    PROVE  Inv'
<1>1. End("transport", "none", 0) /\ UNCHANGED <<seq, board>> /\ serial' = "none"
  BY DEF BadFrame
<1>2. WireOK(wire', seq)
  BY ReadWire DEF BadFrame
<1> QED BY <1>1, <1>2, FailedCall

LEMMA TimeoutInv ==
    ASSUME Inv, Timeout
    PROVE  Inv'
<1>1. UNCHANGED <<seq, serial, wire, board>> /\ call \in CallType /\ call.phase = "wait"
  BY DEF Timeout, Inv, CallOK
<1>2. CASE call.left > 0
  <2>1. call' = [call EXCEPT !.phase = "try"] /\ UNCHANGED result
    BY <1>2 DEF Timeout
  <2>2. /\ call' \in CallType /\ call'.phase = "try" /\ call'.cmd = call.cmd
        /\ call'.seq = call.seq /\ call'.left = call.left
    BY <1>1, <2>1 DEF CallType
  <2>3. CallOK'
    BY <1>1, <1>2, <2>2 DEF Inv, CallOK, Calling
  <2> QED BY <1>1, <2>1, <2>3 DEF Inv, AnswerIsOwn
<1>3. CASE ~(call.left > 0)
  <2>1. End("timeout", "none", 0)
    BY <1>3 DEF Timeout
  <2>2. WireOK(wire', seq) /\ serial' \in {"none", "open", "dead"}
    BY <1>1 DEF Inv
  <2> QED BY <1>1, <2>1, <2>2, FailedCall
<1> QED BY <1>2, <1>3

\* Executing a request turns it into its answer, of the same age and number;
\* everything before it had been executed already.
LEMMA ExecuteInv ==
    ASSUME Inv, Execute
    PROVE  Inv'
<1>1. PICK k \in DOMAIN wire :
        /\ ~wire[k].done /\ \A j \in 1..(k - 1) : wire[j].done
        /\ \E o \in Outcomes(wire[k].cmd, board) :
            /\ board' = o[1]
            /\ wire' = [wire EXCEPT ![k].done = TRUE, ![k].answer = o[2]]
  BY DEF Execute
<1>2. PICK o \in Outcomes(wire[k].cmd, board) :
            /\ board' = o[1]
            /\ wire' = [wire EXCEPT ![k].done = TRUE, ![k].answer = o[2]]
  BY <1>1
<1>3. wire \in Seq(Entry) /\ Len(wire) \in Nat /\ DOMAIN wire = 1..Len(wire)
      /\ wire[k] \in Entry /\ Len(wire) <= MaxWire
      /\ board \in [on : BOOLEAN, pulsing : BOOLEAN]
  BY <1>1 DEF Inv, WireOK
<1>4. /\ o[1] \in [on : BOOLEAN, pulsing : BOOLEAN]
      /\ o[2] \in {"none", "on", "off", "busy", "undecodable"}
  <2>1. wire[k].cmd \in {"status", "set_on", "pulse", "off_all"}
    BY <1>3 DEF Entry, Commands
  <2>2. \E n \in [on : BOOLEAN, pulsing : BOOLEAN] :
            o \in {<<board, "busy">>, <<n, Reading(n)>>, <<n, "undecodable">>}
    BY <1>3, <2>1 DEF Outcomes, Off
  <2> QED BY <1>3, <2>2 DEF Reading
<1> DEFINE x == [wire[k] EXCEPT !.done = TRUE, !.answer = o[2]]
<1>5. x \in Entry /\ x.done = TRUE /\ x.age = wire[k].age /\ x.seq = wire[k].seq
  BY <1>3, <1>4 DEF Entry
<1>6. wire' = [wire EXCEPT ![k] = x]
  BY <1>2, <1>3
<1> HIDE DEF x
<1>7. wire' \in Seq(Entry) /\ Len(wire') = Len(wire) /\ DOMAIN wire' = 1..Len(wire)
      /\ \A i \in 1..Len(wire) : wire'[i] = IF i = k THEN x ELSE wire[i]
  BY <1>3, <1>5, <1>6
<1>8. \A i \in DOMAIN wire' : wire'[i].seq = Back(Prev(seq), wire'[i].age)
  BY <1>3, <1>5, <1>7 DEF Inv, WireOK
<1>9. InOrder(wire')
  <2> SUFFICES ASSUME NEW i \in 1..Len(wire), NEW j \in 1..Len(wire), i < j
               PROVE  wire'[i].age >= wire'[j].age /\ (wire'[j].done => wire'[i].done)
    BY <1>7 DEF InOrder
  <2>1. wire[i].age >= wire[j].age /\ (wire[j].done => wire[i].done)
    BY <1>3 DEF Inv, WireOK, InOrder
  <2>2. wire'[i].age = wire[i].age /\ wire'[j].age = wire[j].age
    BY <1>5, <1>7
  <2>3. CASE j = k
    <3>1. i \in 1..(k - 1)
      BY <2>3, <1>3
    <3> QED BY <1>1, <1>7, <2>1, <2>2, <2>3, <3>1
  <2>4. CASE j # k
    BY <1>5, <1>7, <2>1, <2>2, <2>4
  <2> QED BY <2>3, <2>4
<1>10. WireOK(wire', seq)
  BY <1>3, <1>7, <1>8, <1>9 DEF WireOK
<1> QED BY <1>2, <1>4, <1>10 DEF Inv, Execute, CallOK, Calling, AnswerIsOwn

\* The steps of the environment, and closing the port.
LEMMA EnvironmentInv ==
    ASSUME Inv, Close \/ PulseEnds \/ Lose \/ Detach \/ Attach \/ UNCHANGED vars
    PROVE  Inv'
<1>1. WireOK(wire, seq) /\ wire \in Seq(Entry)
  BY DEF Inv, WireOK
<1>2. UNCHANGED <<seq, call, result>>
  BY DEF Close, PulseEnds, Lose, Detach, Attach, vars
<1>3. WireOK(wire', seq)
  <2>1. CASE Lose
    BY <1>1, <2>1, LossIsPart, PartOfWire DEF Lose
  <2>2. CASE Detach
    <3>1. wire' = <<>>
      BY <2>2 DEF Detach
    <3> QED BY <3>1, HostRpcAssumption DEF WireOK, InOrder
  <2>3. CASE UNCHANGED wire
    BY <1>1, <2>3
  <2> QED BY <2>1, <2>2, <2>3 DEF Close, PulseEnds, Attach, vars
<1>4. serial' \in {"none", "open", "dead"}
  BY DEF Inv, Close, PulseEnds, Lose, Detach, Attach, vars
<1>5. board' \in [on : BOOLEAN, pulsing : BOOLEAN]
  <2>1. board' = board \/ board' = Off
    BY DEF Close, PulseEnds, Lose, Detach, Attach, vars
  <2>2. Off \in [on : BOOLEAN, pulsing : BOOLEAN]
    <3>1. FALSE \in BOOLEAN
      OBVIOUS
    <3> QED BY <3>1, Zenon DEF Off
  <2> QED BY <2>1, <2>2 DEF Inv
<1> QED BY <1>2, <1>3, <1>4, <1>5 DEF Inv, CallOK, Calling, AnswerIsOwn

LEMMA NextInv == Inv /\ [Next]_vars => Inv'
<1> SUFFICES ASSUME Inv, [Next]_vars PROVE Inv'
  OBVIOUS
<1>1. CASE \E c \in Commands : Request(c)
  BY <1>1, RequestInv
<1>2. CASE Send \/ TransportFails \/ BadFrame \/ Receive \/ Timeout \/ Execute
  BY <1>2, SendInv, TransportFailsInv, BadFrameInv, ReceiveInv, TimeoutInv, ExecuteInv
<1>3. CASE Close \/ PulseEnds \/ Lose \/ Detach \/ Attach \/ UNCHANGED vars
  BY <1>3, EnvironmentInv
<1> QED BY <1>1, <1>2, <1>3 DEF Next

LEMMA Invariant == Spec => []Inv
  BY InitInv, NextInv, PTL DEF Spec

-------------------------------------------------------------------------------
\* For every number of sequence numbers, retries and packets on the wire, the
\* variables of the exchange have their types, the sequence number stays in
\* range, and the wire is in order (client.py _request and _next_seq).
THEOREM RpcTypes == Spec => []HostRpcTypeOK
<1>1. Inv => HostRpcTypeOK
  <2>1. Inv => call.phase \in {"idle", "try", "wait"} /\ call.left \in 0..(Retries + 1)
    BY DEF Inv, CallOK, CallType
  <2>2. Inv => wire \in Seq(Entry) /\ Len(wire) <= MaxWire /\ InOrder(wire)
    BY DEF Inv, WireOK
  <2>3. Inv => seq \in 0..(SeqNumbers - 1) /\ serial \in {"none", "open", "dead"}
    BY DEF Inv
  <2> QED BY <2>1, <2>2, <2>3, Zenon DEF InOrder, HostRpcTypeOK
<1> QED BY <1>1, Invariant, PTL

\* For every number of sequence numbers, retries and packets on the wire: an
\* answer that _decode_response accepts answers a packet of this very call, as
\* long as fewer calls fit into a packet's delay than there are sequence numbers.
THEOREM AnswersAreOwn == Spec => []AnswerIsOwn
<1>1. Inv => AnswerIsOwn
  BY DEF Inv
<1> QED BY <1>1, Invariant, PTL
===============================================================================
