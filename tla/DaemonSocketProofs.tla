-------------------------- MODULE DaemonSocketProofs --------------------------
(* Proofs about DaemonSocket: as long as daemons run one after the other on  *)
(* a path of their own, the sockets they leave behind never make a start     *)
(* fail, the daemon that serves is the one at the path, and an ended smoke   *)
(* run leaves no switch-on without its off-all behind it, for every number   *)
(* of daemons and of relayctl processes.                                     *)
EXTENDS DaemonSocket, TLAPS

-------------------------------------------------------------------------------
(* The inductive invariant: at most one daemon runs, and each step of its    *)
(* start has found, or made, the path as the next step needs it.             *)

Phases == {"off", "prepare", "probe", "clean", "bind", "listen", "serve", "shutdown", "unlink"}
Process == [pc : Phases, connected : BOOLEAN, failed : BOOLEAN]

\* r is the record of daemon d when p is at the path.
PathFits(r, d, p) ==
    /\ r.pc \in {"probe", "clean"} => p # "none"
    /\ r.pc = "bind" => p = "none"
    /\ r.pc \in {"listen", "serve"} => p = d
    /\ ~r.failed

Inv ==
    /\ daemon \in [Daemons -> Process]
    /\ path \in {"none"} \cup Daemons
    /\ \A d, e \in Daemons : daemon[d].pc # "off" /\ daemon[e].pc # "off" => d = e
    /\ \A d \in Daemons : PathFits(daemon[d], d, path)

Alone(d) == \A e \in Daemons : daemon[e].pc # "off" => e = d

\* A step of the only daemon that runs: it suffices that its own new record
\* fits the new path.
LEMMA StepOfOne ==
    ASSUME Inv, NEW d \in Daemons, Alone(d), NEW r \in Process, NEW p \in {"none"} \cup Daemons,
           daemon' = [daemon EXCEPT ![d] = r], path' = p, PathFits(r, d, p)
    PROVE  Inv'
<1>1. daemon' \in [Daemons -> Process]
  BY DEF Inv
<1>2. \A e \in Daemons : daemon'[e] = IF e = d THEN r ELSE daemon[e]
  BY DEF Inv
<1>3. \A e \in Daemons : e # d => daemon'[e].pc = "off" /\ ~daemon'[e].failed
  BY <1>2 DEF Inv, Alone, PathFits
<1>4. \A e \in Daemons : PathFits(daemon'[e], e, path')
  <2> SUFFICES ASSUME NEW e \in Daemons PROVE PathFits(daemon'[e], e, path')
    OBVIOUS
  <2>1. CASE e = d
    BY <1>2, <2>1
  <2>2. CASE e # d
    BY <1>3, <2>2 DEF PathFits
  <2> QED BY <2>1, <2>2
<1> QED BY <1>1, <1>3, <1>4 DEF Inv

\* A step that only moves daemon d on.
LEMMA Moves ==
    ASSUME Inv, NEW d \in Daemons, Alone(d), NEW pc \in Phases, NEW p \in {"none"} \cup Daemons,
           Goto(d, pc), path' = p,
           pc \in {"probe", "clean"} => p # "none",
           pc = "bind" => p = "none",
           pc \in {"listen", "serve"} => p = d
    PROVE  Inv'
<1> DEFINE r == [daemon[d] EXCEPT !.pc = pc]
<1>1. daemon[d] \in Process /\ ~daemon[d].failed
  BY DEF Inv, PathFits
<1>2. daemon' = [daemon EXCEPT ![d] = r]
  BY DEF Goto
<1>3. r \in Process /\ r.pc = pc /\ r.failed = daemon[d].failed
  BY <1>1 DEF Process
<1> HIDE DEF r
<1>4. PathFits(r, d, p)
  BY <1>1, <1>3 DEF PathFits
<1> QED BY <1>2, <1>3, <1>4, StepOfOne

LEMMA Running ==
    ASSUME Inv, NEW d \in Daemons, daemon[d].pc # "off"
    PROVE  Alone(d)
  BY DEF Inv, Alone

\* The daemon is gone: so is its claim.
LEMMA Gone ==
    ASSUME Inv, NEW d \in Daemons, daemon[d].pc # "off", NEW p \in {"none"} \cup Daemons,
           daemon' = [daemon EXCEPT ![d] = Stopped], path' = p
    PROVE  Inv'
<1>1. Stopped \in Process /\ PathFits(Stopped, d, p)
  BY DEF Stopped, Process, Phases, PathFits
<1> QED BY <1>1, Running, StepOfOne

-------------------------------------------------------------------------------
(* Every step preserves the invariant.                                       *)

LEMMA InitInv == Occupied = {} /\ Init => Inv
<1> SUFFICES ASSUME Occupied = {}, Init PROVE Inv
  OBVIOUS
<1>1. Stopped \in Process /\ Stopped.pc = "off" /\ ~Stopped.failed
  BY DEF Stopped, Process, Phases
<1>2. daemon = [d \in Daemons |-> Stopped] /\ path \in {"none"} \cup Daemons
  BY DEF Init
<1> QED BY <1>1, <1>2 DEF Inv, PathFits

LEMMA StartInv ==
    ASSUME ~Overlap, Inv, NEW d \in Daemons, start(d)
    PROVE  Inv'
<1>1. PICK c \in BOOLEAN, pc \in {"prepare", "shutdown"} :
        daemon' = [daemon EXCEPT ![d] = [pc |-> pc, connected |-> c /\ pc = "prepare",
                                         failed |-> FALSE]]
  BY DEF start
<1> DEFINE r == [pc |-> pc, connected |-> c /\ pc = "prepare", failed |-> FALSE]
<1>2. r \in Process /\ r.pc = pc /\ r.failed = FALSE
  BY DEF Process, Phases
<1>3. daemon' = [daemon EXCEPT ![d] = r] /\ path' = path /\ path \in {"none"} \cup Daemons
  BY <1>1 DEF start, Inv
<1>4. Alone(d)
  BY DEF start, Alone
<1> HIDE DEF r
<1>5. PathFits(r, d, path)
  BY <1>2 DEF PathFits
<1> QED BY <1>2, <1>3, <1>4, <1>5, StepOfOne

\* The heart of the proof: what a start finds at the path is never a live
\* listener, because only a daemon can be, and no other daemon runs.
LEMMA StartingInv ==
    ASSUME Inv, NEW d \in Daemons, Starting(d)
    PROVE  Inv'
<1>1. path \in {"none"} \cup Daemons /\ PathFits(daemon[d], d, path)
  BY DEF Inv
<1>2. Alone(d)
  BY Running DEF Starting, prepare, probe, clean, bind, listen
<1>3. d # "none" /\ "none" \notin Daemons /\ "file" \notin Daemons /\ "listener" \notin Daemons
  BY DaemonSocketAssumption
<1>4. CASE prepare(d)
  <2>1. UNCHANGED path /\ path # "file"
    BY <1>1, <1>3, <1>4 DEF prepare
  <2>2. CASE path = "none"
    <3>1. Goto(d, "bind")
      BY <1>4, <2>2 DEF prepare
    <3> QED BY <1>1, <1>2, <2>1, <2>2, <3>1, Moves DEF Phases
  <2>3. CASE path # "none"
    <3>1. Goto(d, "probe")
      BY <1>4, <2>1, <2>3 DEF prepare
    <3> QED BY <1>1, <1>2, <2>1, <2>3, <3>1, Moves DEF Phases
  <2> QED BY <2>2, <2>3
<1>5. CASE probe(d)
  <2>1. ~Listening(path)
    <3> SUFFICES ASSUME Listening(path) PROVE FALSE
      OBVIOUS
    <3>1. path \in Daemons /\ daemon[path].pc = "serve"
      BY <1>1, <1>3 DEF Listening
    <3>2. path = d
      BY <1>2, <3>1 DEF Alone
    <3> QED BY <1>5, <3>1, <3>2 DEF probe
  <2>2. Goto(d, "clean") /\ UNCHANGED path /\ path # "none"
    BY <1>1, <1>5, <2>1 DEF probe, PathFits
  <2> QED BY <1>1, <1>2, <2>2, Moves DEF Phases
<1>6. CASE clean(d)
  <2>1. Goto(d, "bind") /\ path' = "none"
    BY <1>1, <1>6 DEF clean, PathFits
  <2> QED BY <1>2, <2>1, Moves DEF Phases
<1>7. CASE bind(d)
  <2>1. Goto(d, "listen") /\ path' = d
    BY <1>1, <1>7 DEF bind, PathFits
  <2> QED BY <1>2, <2>1, Moves DEF Phases
<1>8. CASE listen(d)
  <2>1. Goto(d, "serve") /\ path' = d
    BY <1>1, <1>3, <1>8 DEF listen, PathFits
  <2> QED BY <1>2, <2>1, Moves DEF Phases
<1> QED BY <1>4, <1>5, <1>6, <1>7, <1>8 DEF Starting

LEMMA ServingInv ==
    ASSUME Inv, NEW d \in Daemons, link(d) \/ handle_signal(d) \/ Stopping(d) \/ crash(d)
    PROVE  Inv'
<1>1. path \in {"none"} \cup Daemons /\ PathFits(daemon[d], d, path) /\ daemon[d] \in Process
  BY DEF Inv
<1>2. daemon[d].pc # "off"
  BY DEF Stopping, link, handle_signal, shutdown, unlink_path, crash
<1>3. CASE link(d)
  <2> DEFINE r == [daemon[d] EXCEPT !.connected = ~@]
  <2>1. daemon' = [daemon EXCEPT ![d] = r] /\ UNCHANGED path
    BY <1>3 DEF link
  <2>2. r \in Process /\ r.pc = daemon[d].pc /\ r.failed = daemon[d].failed
    BY <1>1 DEF Process
  <2> HIDE DEF r
  <2>3. PathFits(r, d, path)
    BY <1>1, <2>2 DEF PathFits
  <2> QED BY <1>1, <1>2, <2>1, <2>2, <2>3, Running, StepOfOne
<1>4. CASE handle_signal(d)
  <2>1. Goto(d, "shutdown") /\ UNCHANGED path
    BY <1>4 DEF handle_signal
  <2> QED BY <1>1, <1>2, <2>1, Running, Moves DEF Phases
<1>5. CASE shutdown(d)
  <2>1. Goto(d, "unlink") /\ UNCHANGED path
    BY <1>5 DEF shutdown
  <2> QED BY <1>1, <1>2, <2>1, Running, Moves DEF Phases
<1>6. CASE unlink_path(d)
  <2>1. daemon' = [daemon EXCEPT ![d] = Stopped] /\ path' = "none"
    BY <1>6 DEF unlink_path
  <2> QED BY <1>2, <2>1, Gone
<1>7. CASE crash(d)
  <2>1. daemon' = [daemon EXCEPT ![d] = Stopped] /\ UNCHANGED path
    BY <1>7 DEF crash
  <2> QED BY <1>1, <1>2, <2>1, Gone
<1> QED BY <1>3, <1>4, <1>5, <1>6, <1>7 DEF Stopping

LEMMA NextInv == ~Overlap /\ Inv /\ [Next]_vars => Inv'
<1> SUFFICES ASSUME ~Overlap, Inv, [Next]_vars PROVE Inv'
  OBVIOUS
<1>1. CASE \E d \in Daemons : start(d) \/ Starting(d) \/ link(d) \/ handle_signal(d)
                               \/ Stopping(d) \/ crash(d)
  BY <1>1, StartInv, StartingInv, ServingInv
<1>2. CASE UNCHANGED <<path, daemon>>
  BY <1>2 DEF Inv
<1>3. ASSUME NEW d \in Daemons, NEW ok \in BOOLEAN, handle_request(d, ok)
      PROVE  UNCHANGED <<path, daemon>>
  BY <1>3 DEF handle_request
<1>4. ASSUME NEW c \in Clients,
             \/ \E s \in Scripts : connect(c, s)
             \/ send(c) \/ read(c) \/ timeout(c) \/ read_fails(c)
      PROVE  UNCHANGED <<path, daemon>>
  BY <1>4 DEF connect, send, read, timeout, read_fails, daemons
<1>5. CASE UNCHANGED vars
  BY <1>2, <1>5 DEF vars, daemons
<1> QED BY <1>1, <1>2, <1>3, <1>4, <1>5 DEF Next, Starting, Stopping

LEMMA Invariant == ~Overlap /\ Occupied = {} /\ Spec => []Inv
<1> SUFFICES ASSUME ~Overlap, Occupied = {} PROVE Spec => []Inv
  OBVIOUS
<1>1. Init => Inv
  BY InitInv
<1>2. Inv /\ [Next]_vars => Inv'
  BY NextInv
<1> QED BY <1>1, <1>2, PTL DEF Spec

-------------------------------------------------------------------------------
\* For every number of daemons that run one after the other and however they
\* end: the socket left at the path never makes a start fail
\* (daemon.py _prepare_socket_path).
THEOREM StaleIsHarmless == ~Overlap /\ Occupied = {} /\ Spec => []StaleNeverBlocks
<1>1. Inv => StaleNeverBlocks
  BY DEF Inv, PathFits, StaleNeverBlocks
<1> QED BY <1>1, Invariant, PTL

\* For every number of daemons that run one after the other: the one that
\* serves is found at the path (daemon.py _bind_socket, shutdown).
THEOREM ServersAreReachable == ~Overlap /\ Occupied = {} /\ Spec => []ServerIsReachable
<1>1. Inv => ServerIsReachable
  BY DEF Inv, PathFits, ServerIsReachable
<1> QED BY <1>1, Invariant, PTL


-------------------------------------------------------------------------------
(* The requests and the connections.  Covered(q, c): in the queues q every   *)
(* request of c that switches a relay on has an off-all of c behind it.      *)

Up == {"serve", "shutdown"}

Entry == [client : Clients, id : Nat, cmd : {"on", "off"}, open : BOOLEAN]
Call == [pc : {"idle", "send", "read"}, conn : Daemons \cup {"none", "closed"},
         script : {<<>>, <<"on">>, Smoke}, todo : {<<>>, <<"on">>, <<"off">>, Smoke},
         id : Nat, broken : BOOLEAN, raised : BOOLEAN]

Queues == [Daemons -> Seq(Entry)]

\* What a relayctl process that runs still has to do.
CallFits(m) ==
    m.pc # "idle" =>
        /\ m.conn # "none"
        /\ \/ m.script = Smoke /\ m.todo \in {Smoke, <<"off">>}
           \/ m.script = <<"on">> /\ m.todo = <<"on">>
        /\ m.raised => m.todo = <<"off">>

Covered(q, c) ==
    \A d \in Daemons : \A i \in DOMAIN q[d] :
        q[d][i].client = c /\ q[d][i].cmd = "on" =>
            \E j \in DOMAIN q[d] : j > i /\ q[d][j].client = c /\ q[d][j].cmd = "off"

\* A smoke run whose off-all is sent, or whose daemon is gone.
Settled(m) ==
    /\ m.script = Smoke
    /\ m.pc = "idle" \/ (m.pc = "read" /\ m.todo = <<"off">>) \/ m.conn = "closed"

Traffic ==
    /\ queue \in Queues
    /\ client \in [Clients -> Call]
    /\ \A d \in Daemons :
        Len(queue[d]) <= MaxQueue /\ (queue[d] # <<>> => daemon[d].pc \in Up)
    /\ \A c \in Clients :
        /\ client[c].conn \in Daemons => daemon[client[c].conn].pc \in Up
        /\ CallFits(client[c])
        /\ Settled(client[c]) => Covered(queue, c)


(* What the steps do to the queues.                                          *)

\* close() changes nothing but who still reads the answers.
LEMMA AbandonedFacts ==
    ASSUME NEW q \in Queues, NEW c \in Clients
    PROVE  LET r == Abandoned(q, c) IN
           /\ r \in Queues
           /\ \A d \in Daemons : /\ DOMAIN r[d] = DOMAIN q[d] /\ Len(r[d]) = Len(q[d])
                                 /\ r[d] # <<>> => q[d] # <<>>
           /\ \A b \in Clients : Covered(q, b) => Covered(r, b)
<1> DEFINE r == Abandoned(q, c)
           row(d) == [i \in DOMAIN q[d] |-> [q[d][i] EXCEPT !.open = @ /\ q[d][i].client # c]]
<1>1. ASSUME NEW d \in Daemons
      PROVE  /\ row(d) \in Seq(Entry) /\ DOMAIN row(d) = DOMAIN q[d]
             /\ Len(row(d)) = Len(q[d])
             /\ \A i \in DOMAIN q[d] : row(d)[i].client = q[d][i].client
                                       /\ row(d)[i].cmd = q[d][i].cmd
  <2>1. /\ q[d] \in Seq(Entry) /\ Len(q[d]) \in Nat /\ DOMAIN q[d] = 1 .. Len(q[d])
        /\ \A i \in DOMAIN q[d] : q[d][i] \in Entry
    BY DEF Queues
  <2>2. \A i \in DOMAIN q[d] :
           /\ [q[d][i] EXCEPT !.open = @ /\ q[d][i].client # c] \in Entry
           /\ [q[d][i] EXCEPT !.open = @ /\ q[d][i].client # c].client = q[d][i].client
           /\ [q[d][i] EXCEPT !.open = @ /\ q[d][i].client # c].cmd = q[d][i].cmd
    BY <2>1 DEF Entry
  <2> QED BY <2>1, <2>2
<1>2. \A d \in Daemons : r[d] = row(d)
  BY DEF Abandoned
<1>3. r \in Queues
  BY <1>1, <1>2 DEF Queues, Abandoned
<1> HIDE DEF r, row
<1>4. \A d \in Daemons : /\ DOMAIN r[d] = DOMAIN q[d] /\ Len(r[d]) = Len(q[d])
                         /\ \A i \in DOMAIN q[d] : /\ r[d][i].client = q[d][i].client
                                                   /\ r[d][i].cmd = q[d][i].cmd
  BY <1>1, <1>2
<1>5. ASSUME NEW d \in Daemons, r[d] # <<>> PROVE q[d] # <<>>
  <2>1. r[d] \in Seq(Entry) /\ q[d] \in Seq(Entry) /\ Len(r[d]) = Len(q[d])
    BY <1>3, <1>4 DEF Queues
  <2> QED BY <1>5, <2>1
<1>6. ASSUME NEW b \in Clients, Covered(q, b) PROVE Covered(r, b)
  BY <1>4, <1>6 DEF Covered
<1> QED BY <1>3, <1>4, <1>5, <1>6 DEF r

\* The oldest request of d is served.
LEMMA ServedFacts ==
    ASSUME NEW q \in Queues, NEW d \in Daemons, q[d] # <<>>, NEW r,
           r = [q EXCEPT ![d] = Tail(@)]
    PROVE  /\ r \in Queues
           /\ \A e \in Daemons : Len(r[e]) <= Len(q[e]) /\ (r[e] # <<>> => q[e] # <<>>)
           /\ \A b \in Clients : Covered(q, b) => Covered(r, b)
<1>1. /\ q[d] \in Seq(Entry) /\ Tail(q[d]) \in Seq(Entry) /\ Len(q[d]) \in Nat \ {0}
      /\ Len(Tail(q[d])) = Len(q[d]) - 1
      /\ DOMAIN q[d] = 1 .. Len(q[d]) /\ DOMAIN Tail(q[d]) = 1 .. (Len(q[d]) - 1)
      /\ \A i \in 1 .. (Len(q[d]) - 1) : Tail(q[d])[i] = q[d][i + 1]
  BY DEF Queues
<1>2. \A e \in Daemons : r[e] = IF e = d THEN Tail(q[d]) ELSE q[e]
  BY DEF Queues
<1>3. r \in Queues
  BY <1>1 DEF Queues
<1>4. \A e \in Daemons : Len(r[e]) <= Len(q[e]) /\ (r[e] # <<>> => q[e] # <<>>)
  BY <1>1, <1>2 DEF Queues
<1>5. ASSUME NEW b \in Clients, Covered(q, b) PROVE Covered(r, b)
  <2> SUFFICES ASSUME NEW e \in Daemons, NEW i \in DOMAIN r[e], r[e][i].client = b,
                      r[e][i].cmd = "on"
               PROVE  \E j \in DOMAIN r[e] : /\ j > i /\ r[e][j].client = b
                                             /\ r[e][j].cmd = "off"
    BY DEF Covered
  <2>1. CASE e # d
    BY <1>2, <1>5, <2>1 DEF Covered
  <2>2. CASE e = d
    <3>1. /\ i \in 1 .. (Len(q[d]) - 1) /\ i + 1 \in DOMAIN q[d]
          /\ q[d][i + 1].client = b /\ q[d][i + 1].cmd = "on"
      <4>1. r[e] = Tail(q[d])
        BY <1>2, <2>2
      <4>2. i \in 1 .. (Len(q[d]) - 1)
        BY <1>1, <4>1
      <4>3. r[e][i] = q[d][i + 1]
        BY <1>1, <4>1, <4>2
      <4> QED BY <1>1, <4>2, <4>3
    <3>2. PICK j \in DOMAIN q[d] : j > i + 1 /\ q[d][j].client = b /\ q[d][j].cmd = "off"
      BY <1>5, <3>1 DEF Covered
    <3>3. /\ j - 1 \in 1 .. (Len(q[d]) - 1) /\ j - 1 > i /\ (j - 1) + 1 = j
      BY <1>1, <3>1, <3>2
    <3>4. Tail(q[d])[j - 1] = q[d][j]
      BY <1>1, <3>3
    <3> QED BY <1>1, <1>2, <2>2, <3>2, <3>3, <3>4
  <2> QED BY <2>1, <2>2
<1> QED BY <1>3, <1>4, <1>5

\* The connections of d are closed.
LEMMA DroppedFacts ==
    ASSUME NEW q \in Queues, NEW d \in Daemons, NEW r, r = [q EXCEPT ![d] = <<>>]
    PROVE  /\ r \in Queues /\ r[d] = <<>>
           /\ \A e \in Daemons : Len(r[e]) <= Len(q[e]) /\ (r[e] # <<>> => q[e] # <<>>)
           /\ \A b \in Clients : Covered(q, b) => Covered(r, b)
<1>1. <<>> \in Seq(Entry) /\ Len(<<>>) = 0 /\ DOMAIN <<>> = {}
  OBVIOUS
<1>2. \A e \in Daemons : r[e] = IF e = d THEN <<>> ELSE q[e]
  BY DEF Queues
<1>3. r \in Queues
  BY <1>1 DEF Queues
<1>4. \A e \in Daemons : Len(r[e]) <= Len(q[e]) /\ (r[e] # <<>> => q[e] # <<>>)
  BY <1>1, <1>2 DEF Queues
<1>5. ASSUME NEW b \in Clients, Covered(q, b) PROVE Covered(r, b)
  BY <1>1, <1>2, <1>5 DEF Covered
<1> QED BY <1>2, <1>3, <1>4, <1>5


Put(q, d, x) == [q EXCEPT ![d] = Append(@, x)]

\* A request x is accepted by daemon d.  If it is an off-all, and no other
\* daemon holds requests, it covers every earlier request of its process.
LEMMA AcceptedFacts ==
    ASSUME NEW q \in Queues, NEW d \in Daemons, NEW x \in Entry
    PROVE  LET r == Put(q, d, x) IN
           /\ r \in Queues
           /\ \A e \in Daemons : e # d => r[e] = q[e]
           /\ Len(r[d]) = Len(q[d]) + 1
           /\ \A b \in Clients : Covered(q, b) /\ (x.client # b \/ x.cmd = "off") => Covered(r, b)
           /\ (\A e \in Daemons : e # d => q[e] = <<>>) /\ x.cmd = "off" => Covered(r, x.client)
<1> DEFINE r == Put(q, d, x)
<1>1. /\ q[d] \in Seq(Entry) /\ Append(q[d], x) \in Seq(Entry) /\ Len(q[d]) \in Nat
      /\ Len(Append(q[d], x)) = Len(q[d]) + 1
      /\ DOMAIN q[d] = 1 .. Len(q[d]) /\ DOMAIN Append(q[d], x) = 1 .. (Len(q[d]) + 1)
      /\ \A i \in 1 .. Len(q[d]) : Append(q[d], x)[i] = q[d][i]
      /\ Append(q[d], x)[Len(q[d]) + 1] = x
  BY DEF Queues
<1>2. \A e \in Daemons : r[e] = IF e = d THEN Append(q[d], x) ELSE q[e]
  BY DEF Queues, Put
<1>3. r \in Queues
  BY <1>1 DEF Queues, Put
<1> HIDE DEF r
<1> DEFINE n == Len(q[d]) + 1
<1>4. /\ n \in Nat /\ DOMAIN r[d] = 1 .. n /\ r[d][n] = x
      /\ \A i \in 1 .. n : i # n => i \in DOMAIN q[d] /\ r[d][i] = q[d][i]
      /\ \A i \in DOMAIN q[d] : i \in 1 .. n /\ i # n
  <2>0. r[d] = Append(q[d], x)
    BY <1>2
  <2>1. /\ r[d] = Append(q[d], x) /\ n \in Nat
        /\ DOMAIN Append(q[d], x) = 1 .. n /\ Append(q[d], x)[n] = x
    BY <1>1, <2>0
  <2>2. \A i \in 1 .. n : i # n => i \in 1 .. Len(q[d])
    BY <1>1
  <2>3. \A i \in 1 .. Len(q[d]) : i \in 1 .. n /\ i # n
    BY <1>1
  <2> HIDE DEF n
  <2> QED BY <1>1, <2>1, <2>2, <2>3
<1>5. \A i \in 1 .. n : i # n => n > i
  BY <1>1
<1> HIDE DEF n
<1>6. ASSUME NEW b \in Clients, Covered(q, b), x.client # b \/ x.cmd = "off" PROVE Covered(r, b)
  <2> SUFFICES ASSUME NEW e \in Daemons, NEW i \in DOMAIN r[e], r[e][i].client = b,
                      r[e][i].cmd = "on"
               PROVE  \E j \in DOMAIN r[e] : /\ j > i /\ r[e][j].client = b
                                             /\ r[e][j].cmd = "off"
    BY DEF Covered
  <2>1. CASE e # d
    BY <1>2, <1>6, <2>1 DEF Covered
  <2>2. CASE e = d
    <3>1. i \in 1 .. n /\ i # n
      BY <1>4, <1>6, <2>2
    <3>2. i \in DOMAIN q[d] /\ q[d][i].client = b /\ q[d][i].cmd = "on"
      BY <1>4, <2>2, <3>1
    <3>3. PICK j \in DOMAIN q[d] : j > i /\ q[d][j].client = b /\ q[d][j].cmd = "off"
      BY <1>6, <3>2 DEF Covered
    <3>4. j \in DOMAIN r[e] /\ r[e][j] = q[d][j]
      BY <1>4, <2>2, <3>3
    <3> QED BY <3>3, <3>4
  <2> QED BY <2>1, <2>2
<1>7. ASSUME \A e \in Daemons : e # d => q[e] = <<>>, x.cmd = "off" PROVE Covered(r, x.client)
  <2> SUFFICES ASSUME NEW e \in Daemons, NEW i \in DOMAIN r[e], r[e][i].client = x.client,
                      r[e][i].cmd = "on"
               PROVE  \E j \in DOMAIN r[e] : /\ j > i /\ r[e][j].client = x.client
                                             /\ r[e][j].cmd = "off"
    BY DEF Covered
  <2>1. e = d
    <3> SUFFICES ASSUME e # d PROVE FALSE
      OBVIOUS
    <3>1. r[e] = <<>>
      BY <1>2, <1>7
    <3> QED BY <3>1
  <2>2. i \in 1 .. n /\ i # n
    BY <1>4, <1>7, <2>1
  <2>3. n \in DOMAIN r[e] /\ n > i /\ r[e][n] = x
    BY <1>4, <1>5, <2>1, <2>2
  <2> QED BY <1>7, <2>3
<1>8. Len(r[d]) = Len(q[d]) + 1
  BY <1>1, <1>2
<1> QED BY <1>2, <1>3, <1>6, <1>7, <1>8 DEF r

\* Where a relayctl process stands after a request: it is at its end only if
\* what it did last was the off-all of a smoke run, or a single command.
LEMMA AfterFacts ==
    ASSUME NEW m \in Call, m.pc # "idle", CallFits(m), NEW ok \in BOOLEAN
    PROVE  LET n == After(m, ok) IN
           /\ n \in Call /\ CallFits(n) /\ n.script = m.script
           /\ \/ n.pc = "idle" /\ n.conn = "none"
              \/ n.pc = "send" /\ n.conn = m.conn
           /\ n.pc = "idle" /\ m.script = Smoke => m.todo = <<"off">>
<1> DEFINE n == After(m, ok)
           rest == IF ok THEN Tail(m.todo)
                   ELSE IF m.script = Smoke /\ ~m.raised THEN <<"off">> ELSE <<>>
<1>1. /\ Tail(<<"on">>) = <<>> /\ Tail(<<"off">>) = <<>> /\ Tail(Smoke) = <<"off">>
      /\ <<"off">> # <<>> /\ Smoke # <<"off">> /\ Smoke # <<"on">> /\ <<"on">> # <<"off">>
  BY DEF Smoke
<1>2. m.script \in {<<"on">>, Smoke}
  BY DEF CallFits
<1>3. CASE rest = <<>>
  <2>1. n = [NoClient EXCEPT !.script = m.script]
    BY <1>3 DEF After
  <2>2. n \in Call /\ n.pc = "idle" /\ n.conn = "none" /\ n.script = m.script
    <3>1. /\ NoClient \in Call /\ m.script \in {<<>>, <<"on">>, Smoke}
          /\ NoClient.pc = "idle" /\ NoClient.conn = "none"
      BY DEF NoClient, Call
    <3> HIDE DEF n
    <3> QED BY <2>1, <3>1 DEF Call
  <2>3. m.script = Smoke => m.todo = <<"off">>
    BY <1>1, <1>3 DEF CallFits
  <2> QED BY <2>2, <2>3 DEF CallFits
<1>4. CASE rest # <<>>
  <2>1. n = [m EXCEPT !.pc = "send", !.todo = rest, !.id = @ + 1, !.raised = @ \/ ~ok]
    BY <1>4 DEF After
  <2>2. rest = <<"off">> /\ m.script = Smoke /\ m.conn # "none"
    BY <1>1, <1>4 DEF CallFits
  <2> HIDE DEF rest
  <2>3. /\ n \in Call /\ n.pc = "send" /\ n.conn = m.conn /\ n.script = m.script
        /\ n.todo = <<"off">>
    <3>1. <<"off">> \in {<<>>, <<"on">>, <<"off">>, Smoke} /\ m.id + 1 \in Nat
      BY DEF Call
    <3>2. n = [m EXCEPT !.pc = "send", !.todo = <<"off">>, !.id = m.id + 1,
                        !.raised = m.raised \/ ~ok]
      BY <2>1, <2>2
    <3> HIDE DEF n
    <3> QED BY <3>1, <3>2 DEF Call
  <2> QED BY <2>2, <2>3 DEF CallFits
<1> QED BY <1>3, <1>4


-------------------------------------------------------------------------------
(* Every step preserves it.                                                  *)

\* A step of a daemon that leaves its requests and connections alone.
LEMMA QuietTraffic ==
    ASSUME Traffic, UNCHANGED <<queue, client>>,
           \A d \in Daemons : daemon[d].pc \in Up => daemon'[d].pc \in Up
    PROVE  Traffic'
  BY DEF Traffic

\* A daemon that stops, or is killed: no request is left with any daemon.
LEMMA HangupTraffic ==
    ASSUME Inv, Traffic, NEW d \in Daemons, daemon[d].pc # "off", NEW r,
           daemon' = [daemon EXCEPT ![d] = r], Hangup(d)
    PROVE  Traffic'
<1>1. \A e \in Daemons : queue'[e] = <<>>
  <2>1. \A e \in Daemons : e # d => queue[e] = <<>>
    BY Running DEF Traffic, Alone, Up
  <2> QED BY <2>1 DEF Hangup, Traffic, Queues
<1>2. queue' \in Queues /\ \A e \in Daemons : Len(queue'[e]) <= Len(queue[e])
  BY DroppedFacts DEF Hangup, Traffic
<1>3. \A c \in Clients : Covered(queue', c)
  BY <1>1 DEF Covered
<1>4. ASSUME NEW e \in Daemons
      PROVE  Len(queue'[e]) <= MaxQueue /\ (queue'[e] # <<>> => daemon'[e].pc \in Up)
  <2>1. Len(queue'[e]) = 0 /\ MaxQueue \in Nat
    BY <1>1, DaemonSocketAssumption
  <2> QED BY <1>1, <2>1
<1>5. ASSUME NEW c \in Clients
      PROVE  /\ client'[c] \in Call /\ CallFits(client'[c])
             /\ client'[c].conn \in Daemons => daemon'[client'[c].conn].pc \in Up
  <2>0. client[c] \in Call /\ CallFits(client[c]) /\ "closed" \notin Daemons
    BY DaemonSocketAssumption DEF Traffic
  <2>1. CASE client[c].conn = d
    <3>1. client'[c] = [client[c] EXCEPT !.conn = "closed"]
      BY <2>1 DEF Hangup
    <3>2. /\ client'[c] \in Call /\ client'[c].conn = "closed"
          /\ client'[c].pc = client[c].pc /\ client'[c].script = client[c].script
          /\ client'[c].todo = client[c].todo /\ client'[c].raised = client[c].raised
      BY <2>0, <3>1 DEF Call
    <3> QED BY <2>0, <3>2 DEF CallFits
  <2>2. CASE client[c].conn # d
    <3>1. client'[c] = client[c]
      BY <2>2 DEF Hangup
    <3>2. \A e \in Daemons : e # d => daemon'[e] = daemon[e]
      BY DEF Inv
    <3> QED BY <2>0, <2>2, <3>1, <3>2 DEF Traffic
  <2> QED BY <2>1, <2>2
<1>6. client' \in [Clients -> Call]
  BY <1>5 DEF Hangup
<1> QED BY <1>2, <1>3, <1>4, <1>5, <1>6 DEF Traffic

\* The worker answers a request.
LEMMA ServeTraffic ==
    ASSUME Traffic, NEW d \in Daemons, NEW ok \in BOOLEAN, handle_request(d, ok)
    PROVE  Traffic'
<1>1. /\ UNCHANGED <<daemon, client>> /\ queue[d] # <<>> /\ queue \in Queues
      /\ queue' = [queue EXCEPT ![d] = Tail(@)]
  BY DEF handle_request, Traffic
<1>2. /\ queue' \in Queues
      /\ \A e \in Daemons : /\ Len(queue'[e]) <= Len(queue[e])
                            /\ queue'[e] # <<>> => queue[e] # <<>>
      /\ \A b \in Clients : Covered(queue, b) => Covered(queue', b)
  <2> DEFINE r == [queue EXCEPT ![d] = Tail(@)]
  <2>1. queue' = r
    BY <1>1
  <2>2. /\ r \in Queues
        /\ \A e \in Daemons : Len(r[e]) <= Len(queue[e]) /\ (r[e] # <<>> => queue[e] # <<>>)
        /\ \A b \in Clients : Covered(queue, b) => Covered(r, b)
    BY <1>1, ServedFacts
  <2> HIDE DEF r
  <2> QED BY <2>1, <2>2
<1>3. \A e \in Daemons : Len(queue'[e]) <= MaxQueue
  <2> SUFFICES ASSUME NEW e \in Daemons PROVE Len(queue'[e]) <= MaxQueue
    OBVIOUS
  <2>1. Len(queue'[e]) \in Nat /\ Len(queue[e]) \in Nat /\ MaxQueue \in Nat
    BY <1>1, <1>2, DaemonSocketAssumption DEF Queues
  <2> QED BY <1>2, <2>1 DEF Traffic
<1> QED BY <1>1, <1>2, <1>3 DEF Traffic

\* A relayctl process connects.
LEMMA ConnectTraffic ==
    ASSUME Inv, Traffic, NEW c \in Clients, NEW s \in Scripts, connect(c, s)
    PROVE  Traffic'
<1> DEFINE m == [NoClient EXCEPT !.pc = "send", !.conn = path, !.script = s, !.todo = s]
<1>1. /\ UNCHANGED <<queue, daemon>> /\ client' = [client EXCEPT ![c] = m]
      /\ path \in Daemons /\ daemon[path].pc = "serve"
  BY DaemonSocketAssumption DEF connect, daemons, Listening
<1>2. /\ m \in Call /\ m.pc = "send" /\ m.conn = path /\ m.script = s /\ m.todo = s
      /\ m.raised = FALSE
  BY <1>1 DEF NoClient, Call, Scripts
<1>3. path # "none" /\ path # "closed" /\ Smoke # <<"on">>
  BY <1>1, DaemonSocketAssumption DEF Smoke
<1> HIDE DEF m
<1>4. CallFits(m) /\ ~Settled(m) /\ daemon'[m.conn].pc \in Up
  BY <1>1, <1>2, <1>3 DEF CallFits, Settled, Scripts, Up
<1>5. \A b \in Clients : client'[b] = IF b = c THEN m ELSE client[b]
  BY <1>1 DEF Traffic
<1>6. client' \in [Clients -> Call]
  BY <1>1, <1>2 DEF Traffic
<1>7. ASSUME NEW b \in Clients
      PROVE  /\ client'[b].conn \in Daemons => daemon'[client'[b].conn].pc \in Up
             /\ CallFits(client'[b]) /\ (Settled(client'[b]) => Covered(queue', b))
  <2>1. CASE b = c
    BY <1>4, <1>5, <2>1
  <2>2. CASE b # c
    BY <1>1, <1>5, <2>2 DEF Traffic
  <2> QED BY <2>1, <2>2
<1> QED BY <1>1, <1>6, <1>7 DEF Traffic


\* A request of c ends, with c where it was in the script: if that ends a
\* smoke run, its off-all had been sent, or its daemon was gone.
LEMMA EndsTraffic ==
    ASSUME Inv, Traffic, NEW c \in Clients, NEW m \in Call, NEW ok \in BOOLEAN, NEW responses,
           Ends(c, m, ok, responses), UNCHANGED daemon, client[c].pc # "idle",
           m.pc = client[c].pc, m.conn = client[c].conn, m.script = client[c].script,
           m.todo = client[c].todo, m.raised = client[c].raised,
           m.script = Smoke /\ m.todo = <<"off">> => Settled(client[c])
    PROVE  Traffic'
<1> DEFINE n == After(m, ok)
<1>0. /\ client \in [Clients -> Call] /\ queue \in Queues /\ CallFits(client[c])
      /\ Settled(client[c]) => Covered(queue, c)
  BY DEF Traffic
<1>1. CallFits(m)
  BY <1>0 DEF CallFits
<1>2. /\ n \in Call /\ CallFits(n) /\ n.script = m.script
      /\ \/ n.pc = "idle" /\ n.conn = "none"
         \/ n.pc = "send" /\ n.conn = m.conn
      /\ n.pc = "idle" /\ m.script = Smoke => m.todo = <<"off">>
  BY <1>1, AfterFacts
<1>3. /\ client' = [client EXCEPT ![c] = n]
      /\ queue' = IF n.pc = "idle" THEN Abandoned(queue, c) ELSE queue
  BY DEF Ends
<1> HIDE DEF n
<1>4. /\ queue' \in Queues
      /\ \A d \in Daemons : /\ Len(queue'[d]) = Len(queue[d])
                            /\ queue'[d] # <<>> => queue[d] # <<>>
      /\ \A b \in Clients : Covered(queue, b) => Covered(queue', b)
  <2>1. CASE n.pc = "idle"
    <3>1. queue' = Abandoned(queue, c)
      BY <1>3, <2>1
    <3> QED BY <1>0, <3>1, AbandonedFacts
  <2>2. CASE n.pc # "idle"
    BY <1>0, <1>3, <2>2
  <2> QED BY <2>1, <2>2
<1>5. \A b \in Clients : client'[b] = IF b = c THEN n ELSE client[b]
  BY <1>0, <1>3
<1>6. client' \in [Clients -> Call]
  BY <1>0, <1>2, <1>3
<1>7. Settled(n) => Covered(queue', c)
  <2> SUFFICES ASSUME Settled(n) PROVE Settled(client[c])
    BY <1>0, <1>4
  <2>1. CASE n.pc = "idle"
    BY <1>2, <2>1 DEF Settled
  <2>2. CASE n.pc = "send" /\ n.conn = m.conn
    BY <1>2, <2>2 DEF Settled
  <2> QED BY <1>2, <2>1, <2>2
<1>8. n.conn \in Daemons => daemon'[n.conn].pc \in Up
  <2>1. "none" \notin Daemons
    BY DaemonSocketAssumption
  <2> QED BY <1>2, <2>1 DEF Traffic
<1>9. ASSUME NEW b \in Clients
      PROVE  /\ client'[b].conn \in Daemons => daemon'[client'[b].conn].pc \in Up
             /\ CallFits(client'[b]) /\ (Settled(client'[b]) => Covered(queue', b))
  <2>1. CASE b = c
    BY <1>2, <1>5, <1>7, <1>8, <2>1
  <2>2. CASE b # c
    BY <1>4, <1>5, <2>2 DEF Traffic
  <2> QED BY <2>1, <2>2
<1>10. \A d \in Daemons :
         Len(queue'[d]) <= MaxQueue /\ (queue'[d] # <<>> => daemon'[d].pc \in Up)
  BY <1>4 DEF Traffic
<1> QED BY <1>4, <1>6, <1>9, <1>10 DEF Traffic

\* A request is sent to the daemon behind the connection.
LEMMA AcceptTraffic ==
    ASSUME Inv, Traffic, NEW c \in Clients, client[c].pc = "send", client[c].conn # "closed",
           Accepted(c, client[c].conn), UNCHANGED daemon
    PROVE  Traffic'
<1> DEFINE d == client[c].conn
           x == [client |-> c, id |-> client[c].id, cmd |-> Head(client[c].todo), open |-> TRUE]
           m == [client[c] EXCEPT !.pc = "read"]
<1>0. /\ client \in [Clients -> Call] /\ client[c] \in Call /\ queue \in Queues
      /\ CallFits(client[c])
  BY DEF Traffic
<1>1. d \in Daemons /\ daemon[d].pc \in Up /\ d # "none" /\ d # "closed"
  BY <1>0 DEF Traffic, CallFits, Call
<1>2. client[c].todo \in {Smoke, <<"on">>, <<"off">>}
  BY <1>0 DEF CallFits
<1>3. /\ Head(Smoke) = "on" /\ Head(<<"on">>) = "on" /\ Head(<<"off">>) = "off"
      /\ Smoke # <<"off">> /\ Smoke # <<"on">> /\ <<"on">> # <<"off">>
  BY DEF Smoke
<1>4. x \in Entry /\ x.client = c /\ (client[c].todo = <<"off">> => x.cmd = "off")
  <2>1. Head(client[c].todo) \in {"on", "off"} /\ client[c].id \in Nat
    BY <1>0, <1>2, <1>3 DEF Call
  <2> QED BY <1>3, <2>1 DEF Entry
<1>5. /\ queue' = [queue EXCEPT ![d] = Append(@, x)] /\ client' = [client EXCEPT ![c] = m]
      /\ Len(queue[d]) < MaxQueue
  BY DEF Accepted
<1>6. /\ m \in Call /\ m.pc = "read" /\ m.conn = d /\ m.script = client[c].script
      /\ m.todo = client[c].todo /\ m.raised = client[c].raised
  BY <1>0 DEF Call
<1> HIDE DEF d, x, m
<1>7. /\ queue' \in Queues
      /\ \A e \in Daemons : e # d => queue'[e] = queue[e]
      /\ Len(queue'[d]) = Len(queue[d]) + 1
      /\ \A b \in Clients : Covered(queue, b) /\ (x.client # b \/ x.cmd = "off")
                               => Covered(queue', b)
      /\ (\A e \in Daemons : e # d => queue[e] = <<>>) /\ x.cmd = "off"
            => Covered(queue', x.client)
  <2> DEFINE r == Put(queue, d, x)
  <2>1. queue' = r
    BY <1>5 DEF Put
  <2>2. queue \in Queues /\ d \in Daemons /\ x \in Entry
    BY <1>0, <1>1, <1>4
  <2>3. /\ r \in Queues
        /\ \A e \in Daemons : e # d => r[e] = queue[e]
        /\ Len(r[d]) = Len(queue[d]) + 1
        /\ \A b \in Clients : Covered(queue, b) /\ (x.client # b \/ x.cmd = "off")
                                 => Covered(r, b)
        /\ (\A e \in Daemons : e # d => queue[e] = <<>>) /\ x.cmd = "off"
              => Covered(r, x.client)
    BY <2>2, AcceptedFacts
  <2> HIDE DEF r
  <2> QED BY <2>1, <2>3
<1>8. \A e \in Daemons : e # d => queue[e] = <<>>
  BY <1>1, Running DEF Traffic, Alone, Up
<1>9. /\ \A b \in Clients : client'[b] = IF b = c THEN m ELSE client[b]
      /\ client' \in [Clients -> Call]
  BY <1>0, <1>5, <1>6
<1>10. CallFits(m) /\ (Settled(m) => Covered(queue', c))
  <2>1. CallFits(m)
    BY <1>0, <1>1, <1>6 DEF CallFits
  <2>2. Settled(m) => m.todo = <<"off">>
    BY <1>1, <1>6 DEF Settled
  <2> QED BY <1>4, <1>6, <1>7, <1>8, <2>1, <2>2
<1>11. ASSUME NEW b \in Clients
       PROVE  /\ client'[b].conn \in Daemons => daemon'[client'[b].conn].pc \in Up
              /\ CallFits(client'[b]) /\ (Settled(client'[b]) => Covered(queue', b))
  <2>1. CASE b = c
    BY <1>1, <1>6, <1>9, <1>10, <2>1
  <2>2. CASE b # c
    BY <1>4, <1>7, <1>9, <2>2 DEF Traffic
  <2> QED BY <2>1, <2>2
<1>12. ASSUME NEW e \in Daemons
       PROVE  Len(queue'[e]) <= MaxQueue /\ (queue'[e] # <<>> => daemon'[e].pc \in Up)
  <2>1. CASE e # d
    BY <1>7, <2>1 DEF Traffic
  <2>2. CASE e = d
    <3>1. Len(queue[d]) \in Nat /\ MaxQueue \in Nat
      BY <1>0, <1>1, DaemonSocketAssumption DEF Queues
    <3> QED BY <1>1, <1>5, <1>7, <2>2, <3>1
  <2> QED BY <2>1, <2>2
<1> QED BY <1>7, <1>9, <1>11, <1>12 DEF Traffic


LEMMA ClientTraffic ==
    ASSUME Inv, Traffic, NEW c \in Clients,
           send(c) \/ read(c) \/ timeout(c) \/ read_fails(c)
    PROVE  Traffic'
<1>0. UNCHANGED daemon /\ client[c].pc # "idle" /\ client[c] \in Call
  BY DEF send, read, timeout, read_fails, Traffic
<1>1. CASE send(c)
  <2>1. CASE client[c].conn = "closed"
    <3>1. Ends(c, client[c], FALSE, inbox[c])
      BY <1>1, <2>1 DEF send
    <3>2. client[c].script = Smoke => Settled(client[c])
      BY <2>1 DEF Settled
    <3> QED BY <1>0, <3>1, <3>2, EndsTraffic
  <2>2. CASE client[c].conn # "closed"
    BY <1>0, <1>1, <2>2, AcceptTraffic DEF send
  <2> QED BY <2>1, <2>2
<1> SUFFICES ASSUME read(c) \/ timeout(c) \/ read_fails(c) PROVE Traffic'
  BY <1>1
<1>2. /\ client[c].pc = "read"
      /\ client[c].script = Smoke /\ client[c].todo = <<"off">> => Settled(client[c])
  BY DEF read, timeout, read_fails, Settled
<1>3. CASE read(c)
  <2> DEFINE ok == Head(inbox[c]).ok /\ Head(inbox[c]).id = client[c].id
  <2>1. Ends(c, client[c], ok, Tail(inbox[c])) /\ ok \in BOOLEAN
    BY <1>3 DEF read
  <2> HIDE DEF ok
  <2> QED BY <1>0, <1>2, <2>1, EndsTraffic
<1>4. CASE timeout(c)
  <2> DEFINE m == [client[c] EXCEPT !.broken = TRUE]
  <2>1. Ends(c, m, FALSE, inbox[c])
    BY <1>4 DEF timeout
  <2>2. /\ m \in Call /\ m.pc = client[c].pc /\ m.conn = client[c].conn
        /\ m.script = client[c].script /\ m.todo = client[c].todo
        /\ m.raised = client[c].raised
    BY <1>0 DEF Call
  <2> HIDE DEF m
  <2>3. m.script = Smoke /\ m.todo = <<"off">> => Settled(client[c])
    BY <1>2, <2>2
  <2> QED BY <1>0, <2>1, <2>2, <2>3, EndsTraffic
<1>5. CASE read_fails(c)
  <2>1. Ends(c, client[c], FALSE, <<>>)
    BY <1>5 DEF read_fails
  <2> QED BY <1>0, <1>2, <2>1, EndsTraffic
<1> QED BY <1>3, <1>4, <1>5

LEMMA DaemonTraffic ==
    ASSUME Inv, Traffic, NEW d \in Daemons,
           \/ start(d) \/ Starting(d) \/ link(d) \/ handle_signal(d) \/ Stopping(d) \/ crash(d)
    PROVE  Traffic'
<1>0. daemon \in [Daemons -> Process]
  BY DEF Inv
<1>1. CASE shutdown(d)
  <2>1. daemon' = [daemon EXCEPT ![d] = [daemon[d] EXCEPT !.pc = "unlink"]]
    BY <1>1 DEF shutdown, Goto
  <2> QED BY <1>1, <2>1, HangupTraffic DEF shutdown
<1>2. CASE crash(d)
  BY <1>2, HangupTraffic DEF crash
<1>3. CASE start(d) \/ Starting(d) \/ link(d) \/ handle_signal(d) \/ unlink_path(d)
  <2>1. UNCHANGED <<queue, client>>
    BY <1>3 DEF Starting, start, prepare, probe, clean, bind, listen, link, handle_signal,
                unlink_path, clients
  <2>2. \A e \in Daemons : e # d => daemon'[e] = daemon[e]
    <3>1. \E r : daemon' = [daemon EXCEPT ![d] = r]
      <4>1. ASSUME NEW pc, Goto(d, pc) PROVE \E r : daemon' = [daemon EXCEPT ![d] = r]
        BY <4>1 DEF Goto
      <4>2. ASSUME Fails(d) PROVE \E r : daemon' = [daemon EXCEPT ![d] = r]
        <5>1. daemon' = [daemon EXCEPT ![d] = [daemon[d] EXCEPT !.pc = "shutdown", !.failed = TRUE]]
          BY <4>2 DEF Fails
        <5> QED BY <5>1
      <4>3. CASE start(d) \/ unlink_path(d)
        BY <4>3 DEF start, unlink_path
      <4>4. CASE link(d)
        <5>1. daemon' = [daemon EXCEPT ![d] = [daemon[d] EXCEPT !.connected = ~@]]
          BY <4>4 DEF link
        <5> QED BY <5>1
      <4>5. CASE prepare(d)
        BY <4>1, <4>2, <4>5 DEF prepare
      <4>6. CASE probe(d) \/ clean(d) \/ bind(d) \/ listen(d) \/ handle_signal(d)
        BY <4>1, <4>2, <4>6 DEF probe, clean, bind, listen, handle_signal
      <4> QED BY <1>3, <4>3, <4>4, <4>5, <4>6 DEF Starting
    <3> QED BY <1>0, <3>1
  <2>3. daemon[d].pc \in Up => daemon'[d].pc \in Up
    <3> SUFFICES ASSUME daemon[d].pc \in Up PROVE daemon'[d].pc \in Up
      OBVIOUS
    <3>1. link(d) \/ handle_signal(d)
      BY <1>3 DEF Up, Starting, start, prepare, probe, clean, bind, listen, unlink_path
    <3>2. CASE link(d)
      BY <1>0, <3>2 DEF link, Process
    <3>3. CASE handle_signal(d)
      BY <1>0, <3>3 DEF handle_signal, Goto, Up, Process
    <3> QED BY <3>1, <3>2, <3>3
  <2> QED BY <2>1, <2>2, <2>3, QuietTraffic
<1> QED BY <1>1, <1>2, <1>3 DEF Stopping

LEMMA NextTraffic == Inv /\ Traffic /\ [Next]_vars => Traffic'
<1> SUFFICES ASSUME Inv, Traffic, [Next]_vars PROVE Traffic'
  OBVIOUS
<1>1. CASE \E d \in Daemons : start(d) \/ Starting(d) \/ link(d) \/ handle_signal(d)
                               \/ Stopping(d) \/ crash(d)
  BY <1>1, DaemonTraffic
<1>2. CASE \E d \in Daemons, ok \in BOOLEAN : handle_request(d, ok)
  BY <1>2, ServeTraffic
<1>3. CASE \E c \in Clients, s \in Scripts : connect(c, s)
  BY <1>3, ConnectTraffic
<1>4. CASE \E c \in Clients : send(c) \/ read(c) \/ timeout(c) \/ read_fails(c)
  BY <1>4, ClientTraffic
<1>5. CASE UNCHANGED vars
  BY <1>5, QuietTraffic DEF vars, daemons, clients
<1> QED BY <1>1, <1>2, <1>3, <1>4, <1>5 DEF Next, Starting, Stopping

LEMMA InitTraffic == Init => Traffic
<1> SUFFICES ASSUME Init PROVE Traffic
  OBVIOUS
<1>1. /\ queue = [d \in Daemons |-> <<>>] /\ client = [c \in Clients |-> NoClient]
      /\ <<>> \in Seq(Entry) /\ Len(<<>>) = 0 /\ DOMAIN <<>> = {} /\ MaxQueue \in Nat
      /\ "none" \notin Daemons
  BY DaemonSocketAssumption DEF Init
<1>2. NoClient \in Call /\ NoClient.pc = "idle" /\ NoClient.conn = "none"
  BY DEF NoClient, Call
<1>3. queue \in Queues /\ client \in [Clients -> Call] /\ \A c \in Clients : Covered(queue, c)
  BY <1>1, <1>2 DEF Queues, Covered
<1>4. \A c \in Clients : CallFits(client[c]) /\ client[c].conn \notin Daemons
  BY <1>1, <1>2 DEF CallFits
<1>5. \A d \in Daemons : queue[d] = <<>> /\ Len(queue[d]) <= MaxQueue
  BY <1>1
<1> QED BY <1>3, <1>4, <1>5 DEF Traffic

LEMMA TrafficInvariant == ~Overlap /\ Occupied = {} /\ Spec => []Traffic
<1> SUFFICES ASSUME ~Overlap, Occupied = {} PROVE Spec => []Traffic
  OBVIOUS
<1>1. Spec => []Inv
  BY Invariant
<1> QED BY <1>1, InitTraffic, NextTraffic, PTL DEF Spec

-------------------------------------------------------------------------------
\* For every number of daemons that run one after the other, every number of
\* relayctl processes and every queue length: what holds requests or a
\* connection can be reached at the path, or is going (daemon.py
\* _bind_socket, shutdown, _handle_client).
THEOREM SocketIsOwned == ~Overlap /\ Occupied = {} /\ Spec => []SocketInv
<1>1. Inv /\ Traffic => SocketInv
  <2> SUFFICES ASSUME Inv, Traffic PROVE SocketInv
    OBVIOUS
  <2>1. \A d \in Daemons : daemon[d].pc \in Phases /\ (daemon[d].pc = "serve" => path = d)
    BY DEF Inv, Process, PathFits
  <2>2. \A c \in Clients : client[c].pc \in {"idle", "send", "read"}
    BY DEF Traffic, Call
  <2>3. SocketTypeOK
    BY <2>1, <2>2 DEF SocketTypeOK, Traffic, Up, Inv, Phases
  <2> QED BY <2>1, <2>3 DEF SocketInv, ServerIsReachable
<1> QED BY <1>1, Invariant, TrafficInvariant, PTL

\* For every number of daemons that run one after the other and every number
\* of relayctl processes that share them: a smoke run that has ended, by an
\* error response, a timeout or the loss of its daemon, has left no request
\* behind that switches a relay on without its off-all following (smoke.py
\* run_smoke_sequence, daemon_client.py _request).
THEOREM SmokeEndsOff == ~Overlap /\ Occupied = {} /\ Spec => []SmokeLeavesOff
<1>1. Traffic => SmokeLeavesOff
  BY DEF Traffic, Settled, Covered, SmokeLeavesOff
<1> QED BY <1>1, TrafficInvariant, PTL
=============================================================================
