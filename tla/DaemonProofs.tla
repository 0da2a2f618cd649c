---------------------------- MODULE DaemonProofs ----------------------------
(***************************************************************************)
(* Proofs about Daemon: for every number of requests and uptimes, every     *)
(* selector and combination of faults, the five threads never use, close    *)
(* or leak a serial handle they should not, a reboot recovery ends only     *)
(* with a rebooted board, and the off-all of shutdown() is the last word.   *)
(***************************************************************************)
EXTENDS Daemon, TLAPS

-----------------------------------------------------------------------------
(* The inductive invariant *)

(* The worker holds _command_lock; it has let go of the client; the         *)
(* reconnect thread has nothing to do.                                      *)
InSection == worker.pc \in {"device", "status", "reboot", "recover", "torn", "untimed", "close"}
Leaving   == worker.pc \in {"torn", "untimed", "close"}
Resting   == reconnect.pc \in {"wait", "done"}

(* The parser passes only valid requests on, and the worker has one         *)
(* whenever it handles one.                                                 *)
Valid == {l \in Line : l.command # "invalid"}
Queued == Valid \cup {Sentinel}

RequestsOK ==
    /\ requests \in Seq(Queued)
    /\ worker.pc \notin {"top", "get", "done"} => worker.line \in Valid
    /\ worker.pc \in {"status", "reboot", "recover"} =>
          worker.line.command \in {"reboot", "bootsel"}

(* _command_lock has one holder at most.                                    *)
LockOK ==
    /\ command_lock \in {{}, {"worker"}, {"heartbeat"}}
    /\ InSection <=> command_lock = {"worker"}
    /\ heartbeat.pc = "rpc" <=> command_lock = {"heartbeat"}

(* While the daemon is connected the reconnect thread rests, so that only   *)
(* the holder of _command_lock can close the client.                        *)
ClientOK ==
    /\ daemon.connected <=> daemon.client # NoHandle
    /\ daemon.connected => Resting /\ daemon.started_at = "none"
    /\ reconnect.handle # NoHandle <=> reconnect.pc \in {"opened", "fresh", "adopt"}
    /\ InSection /\ ~Leaving => daemon.connected /\ worker.handle = daemon.client
    /\ heartbeat.pc = "rpc" => daemon.connected /\ heartbeat.handle = daemon.client
    /\ Leaving => worker.handle \notin {NoHandle, daemon.client, reconnect.handle}
    /\ ~StateLockFree => ~daemon.connected /\ daemon.started_at = "none"

(* Until the board has rebooted its uptime is at least the one that was     *)
(* read before the reboot was asked for.                                    *)
RecoveryOK ==
    /\ reconnect.pc \in {"rport", "instance", "rprobe", "fresh"} => daemon.started_at = "settled"
    /\ reconnect.pc = "opened" /\ reconnect.recovering => daemon.started_at = "settled"
    /\ daemon.started_at # "none" => daemon.pre_uptime # -1
    /\ worker.pc = "reboot" /\ worker.handle \in live => worker.uptime <= board.uptime
    /\ ~board.rebooted =>
          /\ worker.pc \in {"recover", "torn", "untimed"} => worker.uptime <= board.uptime
          /\ daemon.started_at # "none" => daemon.pre_uptime <= board.uptime
          /\ reconnect.pc = "fresh" => daemon.pre_uptime <= reconnect.uptime
    /\ RecoveryIsFresh

(* A worker that was joined takes no further request, unless it waits for   *)
(* the lock of a heartbeat; then nobody will connect to the board again.    *)
ShutdownOK ==
    /\ main # "accept" =>
          stop /\ (worker.pc = "done" \/ \E i \in DOMAIN requests : requests[i] = Sentinel)
    /\ main \notin {"accept", "parser", "worker"} =>
          worker.pc # "get" /\ (worker.pc = "ready" => Resting)
    /\ main \in {"unlink", "exited"} =>
          ~InSection /\ (worker.pc = "ready" => ~daemon.connected)

Inv == TypeOK /\ RequestsOK /\ LockOK /\ ClientOK /\ HandlesAreOwned /\ RecoveryOK /\ ShutdownOK

USE DaemonAssumption DEF NoHandle, Handles, Uptimes, InSection, Leaving, Resting, StateLockFree,
                         queues, handles

-----------------------------------------------------------------------------
(* Parts of a step *)

LEMMA DisconnectedType == Disconnected \in DaemonType
<1>1. /\ 0 \in 1..3 \cup {0} /\ -1 \in (0..MaxUptime) \cup {-1}
      /\ "none" \in {"none", "recent", "settled"} /\ "none" \in {"none", "current", "gone"}
      /\ FALSE \in BOOLEAN
  OBVIOUS
<1> QED BY <1>1, Zenon DEF Disconnected, DaemonType

LEMMA Disconnects ==
    ASSUME TypeOK, mark_disconnected
    PROVE  /\ daemon' \in DaemonType
           /\ daemon'.client = NoHandle /\ ~daemon'.connected
           /\ daemon'.started_at = "none" /\ daemon'.pre_uptime = -1
           /\ live' = live \ {daemon.client} /\ dead' = dead \ {daemon.client}
           /\ live' \in SUBSET Handles /\ dead' \in SUBSET Handles
<1>1. daemon' = Disconnected
  BY DEF mark_disconnected
<1>2. daemon' \in DaemonType
  BY <1>1, DisconnectedType
<1>3. live' = live \ {daemon.client} /\ dead' = dead \ {daemon.client}
  BY DEF mark_disconnected, Closed
<1>4. live' \in SUBSET Handles /\ dead' \in SUBSET Handles
  BY <1>3 DEF TypeOK
<1> QED BY <1>1, <1>2, <1>3, <1>4 DEF Disconnected

LEMMA Responds ==
    ASSUME Inv, Respond, worker.pc \notin {"top", "get", "done"}
    PROVE  /\ worker' \in WorkerType /\ worker'.pc = "top" /\ worker'.handle = NoHandle
           /\ answered' \in SUBSET Ids
           /\ command_lock' = (IF InSection THEN {} ELSE command_lock)
<1>1. worker.line \in Line
  BY DEF Inv, RequestsOK, Valid
<1>2. worker.line.id \in Ids /\ answered' = answered \cup {worker.line.id}
  BY <1>1 DEF Respond, Answer, Line
<1>3. answered' \in SUBSET Ids
  BY <1>2 DEF Inv, TypeOK
<1>4. worker' \in WorkerType /\ worker'.pc = "top" /\ worker'.handle = NoHandle
  <2>1. worker' = [worker EXCEPT !.pc = "top", !.line = Sentinel, !.handle = 0, !.uptime = 0]
    BY DEF Respond
  <2>2. Sentinel \in Line \cup {Sentinel} /\ 0 \in 1..3 \cup {0} /\ 0 \in 0..MaxUptime
    OBVIOUS
  <2> DEFINE L == Line \cup {Sentinel}
  <2> HIDE DEF L
  <2> QED BY <2>1, <2>2 DEF Inv, TypeOK, WorkerType, L
<1>5. command_lock' = (IF InSection THEN {} ELSE command_lock)
  BY DEF Respond, Inv, LockOK
<1> QED BY <1>3, <1>4, <1>5

LEMMA Idles ==
    ASSUME Idle
    PROVE  /\ reconnect' \in ReconnectType /\ reconnect'.pc = "wait"
           /\ reconnect'.handle = NoHandle /\ ~reconnect'.recovering
<1>1. FALSE \in BOOLEAN /\ 0 \in 0..MaxUptime /\ 0 \in 1..3 \cup {0}
  OBVIOUS
<1>2. reconnect' = [pc |-> "wait", handle |-> 0, uptime |-> 0, recovering |-> FALSE]
  BY DEF Idle
<1>3. reconnect' \in ReconnectType
  BY <1>1, <1>2, Zenon DEF ReconnectType
<1> QED BY <1>2, <1>3

(* A step of the board that the host cannot tell: its uptime and history    *)
(* stay.                                                                    *)
SameBoard ==
    board' \in BoardType /\ board'.uptime = board.uptime /\ board'.rebooted = board.rebooted

-----------------------------------------------------------------------------
(* Main thread and parser *)

Connections == <<worker, reconnect, heartbeat, command_lock, daemon, live, dead, board>>

LEMMA ConnectionsInv ==
    ASSUME Inv, Process, UNCHANGED Connections
    PROVE  LockOK' /\ ClientOK' /\ HandlesAreOwned' /\ RecoveryOK'
<1>1. LockOK' /\ ClientOK'
  BY DEF Inv, LockOK, ClientOK, Connections
<1>2. HandlesAreOwned'
  BY DEF Inv, HandlesAreOwned, Process, Connections
<1>3. RecoveryOK'
  BY DEF Inv, RecoveryOK, RecoveryIsFresh, Connections
<1> QED BY <1>1, <1>2, <1>3

(* A line that is put into a queue leaves what was there. *)
LEMMA Appended ==
    ASSUME NEW S, NEW q \in Seq(S), NEW x \in S
    PROVE  /\ Append(q, x) \in Seq(S)
           /\ x = Sentinel => \E i \in DOMAIN Append(q, x) : Append(q, x)[i] = Sentinel
           /\ (\E i \in DOMAIN q : q[i] = Sentinel)
                 => \E i \in DOMAIN Append(q, x) : Append(q, x)[i] = Sentinel
<1>1. /\ Append(q, x) \in Seq(S) /\ Len(q) \in Nat
      /\ DOMAIN q = 1..Len(q) /\ DOMAIN Append(q, x) = 1..(Len(q) + 1)
      /\ Append(q, x)[Len(q) + 1] = x /\ \A i \in 1..Len(q) : Append(q, x)[i] = q[i]
  OBVIOUS
<1>2. Len(q) + 1 \in 1..(Len(q) + 1) /\ \A i \in 1..Len(q) : i \in 1..(Len(q) + 1)
  BY <1>1
<1> QED BY <1>1, <1>2

(* What is behind the head of a queue. *)
LEMMA Taken ==
    ASSUME NEW S, NEW q \in Seq(S), q # <<>>
    PROVE  /\ Tail(q) \in Seq(S) /\ Head(q) \in S
           /\ (\E i \in DOMAIN q : q[i] = Sentinel) /\ Head(q) # Sentinel
                 => \E i \in DOMAIN Tail(q) : Tail(q)[i] = Sentinel
<1>1. /\ Tail(q) \in Seq(S) /\ Head(q) \in S
      /\ Head(q) = q[1] /\ Len(q) \in Nat /\ DOMAIN q = 1..Len(q)
      /\ DOMAIN Tail(q) = 1..(Len(q) - 1) /\ \A i \in 1..(Len(q) - 1) : Tail(q)[i] = q[i + 1]
  OBVIOUS
<1>2. ASSUME NEW i \in DOMAIN q, q[i] = Sentinel, Head(q) # Sentinel
      PROVE  \E j \in DOMAIN Tail(q) : Tail(q)[j] = Sentinel
  <2>1. i - 1 \in 1..(Len(q) - 1) /\ i - 1 + 1 = i
    BY <1>1, <1>2
  <2>2. Tail(q)[i - 1] = q[i]
    BY <1>1, <2>1
  <2> QED BY <1>1, <1>2, <2>1, <2>2
<1> QED BY <1>1, <1>2

LEMMA NewLine ==
    ASSUME TypeOK, accepted < MaxRequests, NEW c \in Commands
    PROVE  accepted + 1 \in 0..MaxRequests /\ [id |-> accepted + 1, command |-> c] \in Line
  BY DEF TypeOK, Line, Ids

LEMMA AcceptInv ==
    ASSUME Inv, NEW c \in Commands, accept(c)
    PROVE  Inv'
<1>1. UNCHANGED <<main, stop, requests, answered, parser>> /\ UNCHANGED Connections
      /\ main = "accept"
  BY DEF accept, Connections
<1>2. /\ accepted' = accepted + 1
      /\ pending_lines' = Append(pending_lines, [id |-> accepted + 1, command |-> c])
  BY DEF accept
<1>3. accepted' \in 0..MaxRequests /\ pending_lines' \in Seq(Line \cup {Sentinel})
  BY <1>2, NewLine, Appended DEF accept, Inv, TypeOK
<1>4. TypeOK'
  BY <1>1, <1>3 DEF Inv, TypeOK, Connections
<1>5. ShutdownOK' /\ RequestsOK'
  BY <1>1 DEF Inv, ShutdownOK, RequestsOK, Connections
<1> QED BY <1>1, <1>4, <1>5, ConnectionsInv DEF Inv, Process

LEMMA SignalInv ==
    ASSUME Inv, handle_signal
    PROVE  Inv'
<1>1. UNCHANGED <<main, queues, parser>> /\ UNCHANGED Connections /\ main = "accept" /\ stop' = TRUE
  BY DEF handle_signal, Connections
<1>2. TypeOK'
  BY <1>1 DEF Inv, TypeOK, Connections
<1>3. ShutdownOK' /\ RequestsOK'
  BY <1>1 DEF Inv, ShutdownOK, RequestsOK, Connections
<1> QED BY <1>1, <1>2, <1>3, ConnectionsInv DEF Inv, Process

LEMMA LeaveAcceptInv ==
    ASSUME Inv, leave_accept_loop
    PROVE  Inv'
<1>1. /\ UNCHANGED <<stop, accepted, answered, parser>> /\ UNCHANGED Connections
      /\ main = "accept" /\ stop /\ main' = "parser"
      /\ requests' = Append(requests, Sentinel) /\ pending_lines' = Append(pending_lines, Sentinel)
  BY DEF leave_accept_loop, Connections
<1>2. /\ requests' \in Seq(Line \cup {Sentinel}) /\ pending_lines' \in Seq(Line \cup {Sentinel})
      /\ \E i \in DOMAIN requests' : requests'[i] = Sentinel
  BY <1>1, Appended DEF Inv, TypeOK
<1>3. TypeOK'
  BY <1>1, <1>2 DEF Inv, TypeOK, Connections
<1>4. ShutdownOK' /\ RequestsOK'
  <2>1. requests' \in Seq(Queued)
    BY <1>1, Appended DEF Inv, RequestsOK, Queued
  <2> QED BY <1>1, <1>2, <2>1 DEF Inv, ShutdownOK, RequestsOK, Connections
<1> QED BY <1>1, <1>3, <1>4, ConnectionsInv DEF Inv, Process

(* The join of the worker is over: the worker has ended, is in an exchange, *)
(* or waits for the lock of a heartbeat, and then the board is connected.   *)
LEMMA WorkerJoined ==
    ASSUME Inv, main = "worker", Ended("worker") \/ Blocked("worker")
    PROVE  worker.pc # "get" /\ (worker.pc = "ready" => Resting)
<1>1. CASE Ended("worker") \/ InExchange("worker")
  BY <1>1 DEF Ended, InExchange
<1>2. CASE AtEmptyQueue("worker")
  <2>1. worker.pc = "get" /\ requests = <<>>
    BY <1>2 DEF AtEmptyQueue
  <2>2. \E i \in DOMAIN requests : requests[i] = Sentinel
    BY <2>1 DEF Inv, ShutdownOK
  <2> QED BY <2>1, <2>2
<1>3. CASE AtCommandLock("worker") /\ \E o \in command_lock \ {"worker"} : InExchange(o)
  <2>1. worker.pc = "ready" /\ command_lock = {"heartbeat"}
    BY <1>3 DEF AtCommandLock, Inv, LockOK
  <2> QED BY <2>1 DEF Inv, LockOK, ClientOK
<1> QED BY <1>1, <1>2, <1>3 DEF Blocked

LEMMA JoinInv ==
    ASSUME Inv,
           join("parser", "worker") \/ join("worker", "reconnect")
           \/ join("reconnect", "heartbeat") \/ join("heartbeat", "off")
    PROVE  Inv'
<1>1. /\ UNCHANGED <<stop, queues, parser>> /\ UNCHANGED Connections
      /\ main \in {"parser", "worker", "reconnect", "heartbeat"}
      /\ main' \in {"worker", "reconnect", "heartbeat", "off"}
      /\ main' = "worker" => main = "parser"
      /\ main = "worker" => Ended("worker") \/ Blocked("worker")
  BY DEF join, Connections
<1>2. TypeOK'
  BY <1>1 DEF Inv, TypeOK, Connections
<1>3. main' # "worker" => worker.pc # "get" /\ (worker.pc = "ready" => Resting)
  <2>1. CASE main = "worker"
    BY <1>1, <2>1, WorkerJoined
  <2>2. CASE main \in {"reconnect", "heartbeat"}
    BY <2>2 DEF Inv, ShutdownOK
  <2>3. main = "parser" => main' = "worker"
    BY DEF join
  <2> QED BY <1>1, <2>1, <2>2, <2>3
<1>4. ShutdownOK' /\ RequestsOK'
  BY <1>1, <1>3 DEF Inv, ShutdownOK, RequestsOK, Connections
<1> QED BY <1>1, <1>2, <1>4, ConnectionsInv DEF Inv, Process

(* The client is closed while nobody holds _command_lock: no thread uses it. *)
LEMMA ShutdownOffAllInv ==
    ASSUME Inv, shutdown_off_all
    PROVE  Inv'
<1>1. /\ UNCHANGED <<stop, queues, parser, worker, reconnect, heartbeat, command_lock>>
      /\ main = "off" /\ main' = "unlink" /\ command_lock = {}
      /\ daemon' = [daemon EXCEPT !.client = 0, !.connected = FALSE]
  BY DEF shutdown_off_all
<1>2. /\ daemon' \in DaemonType /\ daemon'.client = 0 /\ ~daemon'.connected
      /\ daemon'.started_at = daemon.started_at /\ daemon'.pre_uptime = daemon.pre_uptime
  BY <1>1 DEF Inv, TypeOK, DaemonType
<1>3. SameBoard
  <2>1. board' = board \/ board' = [board EXCEPT !.on = FALSE]
    BY DEF shutdown_off_all
  <2> QED BY <2>1 DEF Inv, TypeOK, BoardType, SameBoard
<1>4. /\ live' \in SUBSET Handles /\ dead' \in SUBSET Handles
      /\ live' = live \ {daemon.client} /\ dead' = dead \ {daemon.client}
  BY DEF shutdown_off_all, Closed, Inv, TypeOK
<1>5. TypeOK'
  BY <1>1, <1>2, <1>3, <1>4 DEF Inv, TypeOK, SameBoard
<1>6. LockOK' /\ ClientOK'
  BY <1>1, <1>2 DEF Inv, LockOK, ClientOK
<1>7. HandlesAreOwned'
  <2>1. ~InSection
    BY <1>1 DEF Inv, LockOK
  <2>2. live \cup dead = {daemon.client, reconnect.handle, NoHandle} \ {NoHandle}
    BY <1>1, <2>1 DEF Inv, HandlesAreOwned, Process, Nothing
  <2>3. daemon.client # NoHandle => reconnect.handle = NoHandle
    BY DEF Inv, ClientOK
  <2>4. live' \cup dead' = {reconnect.handle} \ {NoHandle}
    BY <1>4, <2>2, <2>3
  <2> QED BY <1>1, <1>2, <2>1, <2>4 DEF HandlesAreOwned, Nothing
<1>8. RecoveryOK'
  BY <1>1, <1>2, <1>3 DEF Inv, RecoveryOK, RecoveryIsFresh, SameBoard, LockOK
<1>9. ShutdownOK' /\ RequestsOK'
  BY <1>1, <1>2 DEF Inv, ShutdownOK, RequestsOK, LockOK
<1> QED BY <1>5, <1>6, <1>7, <1>8, <1>9 DEF Inv

LEMMA ExitInv ==
    ASSUME Inv, exit
    PROVE  Inv'
<1>1. /\ UNCHANGED <<stop, queues, parser, worker, reconnect, heartbeat, command_lock, daemon, board>>
      /\ main = "unlink" /\ main' = "exited" /\ live' = {} /\ dead' = {}
  BY DEF exit
<1>2. TypeOK'
  BY <1>1 DEF Inv, TypeOK
<1>3. LockOK' /\ ClientOK' /\ HandlesAreOwned'
  BY <1>1 DEF Inv, LockOK, ClientOK, HandlesAreOwned, Process
<1>4. RecoveryOK'
  BY <1>1 DEF Inv, RecoveryOK, RecoveryIsFresh
<1>5. ShutdownOK' /\ RequestsOK'
  BY <1>1 DEF Inv, ShutdownOK, RequestsOK
<1> QED BY <1>2, <1>3, <1>4, <1>5 DEF Inv

LEMMA ParserInv ==
    ASSUME Inv, parser_loop
    PROVE  Inv'
<1>1. UNCHANGED <<main, stop, accepted>> /\ UNCHANGED Connections /\ Process
  BY DEF parser_loop, Connections
<1>2. /\ parser' \in {"top", "get", "done"}
      /\ pending_lines' \in Seq(Line \cup {Sentinel}) /\ requests' \in Seq(Line \cup {Sentinel})
      /\ requests' \in Seq(Queued) /\ answered' \in SUBSET Ids
      /\ (\E i \in DOMAIN requests : requests[i] = Sentinel)
            => \E i \in DOMAIN requests' : requests'[i] = Sentinel
  <2>1. CASE parser = "top"
    BY <2>1 DEF parser_loop, Inv, TypeOK, RequestsOK
  <2>2. CASE parser = "get"
    <3> DEFINE line == Head(pending_lines)
    <3>1. pending_lines # <<>> /\ pending_lines' = Tail(pending_lines)
      BY <2>2 DEF parser_loop
    <3>2. pending_lines' \in Seq(Line \cup {Sentinel}) /\ line \in Line \cup {Sentinel}
      BY <3>1, Taken DEF Inv, TypeOK
    <3>3. CASE line = Sentinel
      BY <2>2, <3>2, <3>3 DEF parser_loop, Inv, TypeOK, RequestsOK
    <3>4. CASE line # Sentinel /\ line.command = "invalid"
      <4>1. answered' = answered \cup {line.id} /\ requests' = requests /\ parser' = "top"
        BY <2>2, <3>4 DEF parser_loop, Answer
      <4>2. line.id \in Ids
        BY <3>2, <3>4 DEF Line
      <4> QED BY <3>2, <4>1, <4>2 DEF Inv, TypeOK, RequestsOK
    <3>5. CASE line # Sentinel /\ line.command # "invalid"
      <4>1. requests' = Append(requests, line) /\ answered' = answered /\ parser' = "top"
        BY <2>2, <3>5 DEF parser_loop
      <4>2. line \in Queued
        BY <3>2, <3>5 DEF Queued, Valid
      <4> HIDE DEF line
      <4>3. requests' \in Seq(Queued)
        BY <4>1, <4>2, Appended DEF Inv, RequestsOK
      <4>4. line \in Line \cup {Sentinel} /\ requests \in Seq(Line \cup {Sentinel})
        BY <3>2 DEF Inv, TypeOK
      <4>5. /\ requests' \in Seq(Line \cup {Sentinel})
            /\ (\E i \in DOMAIN requests : requests[i] = Sentinel)
                  => \E i \in DOMAIN requests' : requests'[i] = Sentinel
        BY <4>1, <4>4, Appended, Zenon
      <4>6. answered' \in SUBSET Ids
        BY <4>1 DEF Inv, TypeOK
      <4> QED BY <3>2, <4>1, <4>3, <4>5, <4>6
    <3> QED BY <3>3, <3>4, <3>5
  <2> QED BY <2>1, <2>2 DEF parser_loop
<1>3. TypeOK'
  BY <1>1, <1>2 DEF Inv, TypeOK, Connections
<1>4. ShutdownOK' /\ RequestsOK'
  BY <1>1, <1>2 DEF Inv, ShutdownOK, RequestsOK, Connections
<1> QED BY <1>1, <1>3, <1>4, ConnectionsInv DEF Inv

-----------------------------------------------------------------------------
(* Heartbeat *)

(* The holder of _command_lock closes the client: the reconnect thread      *)
(* rests, so the client is the only open handle.                            *)
LEMMA ClientClosed ==
    ASSUME Inv, Process, daemon.connected, mark_disconnected,
           (InSection /\ ~Leaving) \/ heartbeat.pc = "rpc"
    PROVE  ~Leaving /\ reconnect.handle = NoHandle /\ live' \cup dead' = {}
<1>1. ~Leaving
  BY DEF Inv, LockOK
<1>2. reconnect.handle = NoHandle
  BY DEF Inv, ClientOK
<1>3. live \cup dead = {daemon.client, NoHandle} \ {NoHandle}
  BY <1>1, <1>2 DEF Inv, HandlesAreOwned, Nothing
<1>4. live' = live \ {daemon.client} /\ dead' = dead \ {daemon.client}
  BY Disconnects DEF Inv
<1> QED BY <1>1, <1>2, <1>3, <1>4

LEMMA HeartbeatInv ==
    ASSUME Inv, Heartbeat
    PROVE  Inv'
<1>1. UNCHANGED <<main, stop, queues, parser, worker, reconnect, board>> /\ Process
  BY DEF Heartbeat
<1>2. ASSUME UNCHANGED <<daemon, handles>>, heartbeat' \in HeartbeatType,
             command_lock' \in {{}, {"worker"}, {"heartbeat"}},
             InSection <=> command_lock' = {"worker"},
             heartbeat'.pc = "rpc" <=> command_lock' = {"heartbeat"},
             heartbeat'.pc = "rpc" => daemon.connected /\ heartbeat'.handle = daemon.client
      PROVE  Inv'
  <2>1. TypeOK'
    BY <1>1, <1>2 DEF Inv, TypeOK
  <2>2. LockOK'
    BY <1>1, <1>2 DEF Inv, LockOK
  <2>3. ClientOK' /\ HandlesAreOwned'
    BY <1>1, <1>2 DEF Inv, ClientOK, HandlesAreOwned, Process
  <2>4. RecoveryOK' /\ ShutdownOK' /\ RequestsOK'
    BY <1>1, <1>2 DEF Inv, RecoveryOK, RecoveryIsFresh, ShutdownOK, RequestsOK
  <2> QED BY <2>1, <2>2, <2>3, <2>4 DEF Inv
<1>3. CASE heartbeat.pc = "wait"
  <2>1. /\ UNCHANGED <<command_lock, daemon, handles>>
        /\ heartbeat' = [heartbeat EXCEPT !.pc = "done"] \/ heartbeat' = [heartbeat EXCEPT !.pc = "ready"]
    BY <1>3 DEF Heartbeat
  <2>2. heartbeat' \in HeartbeatType /\ heartbeat'.pc # "rpc"
    BY <2>1 DEF Inv, TypeOK, HeartbeatType
  <2> QED BY <1>2, <1>3, <2>1, <2>2 DEF Inv, LockOK
<1>4. CASE heartbeat.pc = "ready" /\ (daemon.client = NoHandle \/ ~daemon.connected)
  <2>1. UNCHANGED <<command_lock, daemon, handles>> /\ heartbeat' = [heartbeat EXCEPT !.pc = "wait"]
    BY <1>4 DEF Heartbeat
  <2>2. heartbeat' \in HeartbeatType /\ heartbeat'.pc = "wait"
    BY <2>1 DEF Inv, TypeOK, HeartbeatType
  <2> QED BY <1>2, <1>4, <2>1, <2>2 DEF Inv, LockOK
<1>5. CASE heartbeat.pc = "ready" /\ ~(daemon.client = NoHandle \/ ~daemon.connected)
  <2>1. /\ UNCHANGED <<daemon, handles>> /\ command_lock = {} /\ command_lock' = {"heartbeat"}
        /\ heartbeat' = [pc |-> "rpc", handle |-> daemon.client]
    BY <1>5 DEF Heartbeat
  <2>2. daemon.client \in Handles \cup {NoHandle} /\ ~InSection
    BY <2>1 DEF Inv, TypeOK, DaemonType, LockOK
  <2>3. heartbeat' \in HeartbeatType /\ heartbeat'.pc = "rpc" /\ heartbeat'.handle = daemon.client
    BY <2>1, <2>2 DEF HeartbeatType
  <2> QED BY <1>2, <1>5, <2>1, <2>2, <2>3
<1>6. CASE heartbeat.pc = "rpc"
  <2>1. /\ heartbeat' = [pc |-> "wait", handle |-> 0] /\ command_lock' = {}
        /\ UNCHANGED <<daemon, handles>> \/ mark_disconnected
    BY <1>6 DEF Heartbeat
  <2>2. heartbeat' \in HeartbeatType /\ heartbeat'.pc = "wait"
    BY <2>1 DEF HeartbeatType
  <2>3. ~InSection /\ daemon.connected
    BY <1>6 DEF Inv, LockOK, ClientOK
  <2>4. CASE UNCHANGED <<daemon, handles>>
    BY <1>2, <2>1, <2>2, <2>3, <2>4
  <2>5. CASE mark_disconnected
    <3>1. /\ daemon' \in DaemonType /\ daemon'.client = NoHandle /\ ~daemon'.connected
          /\ daemon'.started_at = "none" /\ live' \in SUBSET Handles /\ dead' \in SUBSET Handles
      BY <2>5, Disconnects DEF Inv
    <3>2. reconnect.handle = NoHandle /\ live' \cup dead' = {} /\ Resting
      BY <1>1, <1>6, <2>3, <2>5, ClientClosed DEF Inv, ClientOK
    <3>3. TypeOK' /\ LockOK'
      BY <1>1, <2>1, <2>2, <2>3, <3>1 DEF Inv, TypeOK, LockOK
    <3>4. ClientOK'
      BY <1>1, <2>2, <2>3, <3>1, <3>2 DEF Inv, ClientOK
    <3>5. HandlesAreOwned'
      BY <1>1, <2>3, <3>1, <3>2 DEF HandlesAreOwned, Nothing
    <3>6. RecoveryOK'
      BY <1>1, <2>3, <3>1, <3>2 DEF Inv, RecoveryOK, RecoveryIsFresh
    <3>7. ShutdownOK' /\ RequestsOK'
      BY <1>1, <2>3, <3>1, <3>2 DEF Inv, ShutdownOK, RequestsOK
    <3> QED BY <3>3, <3>4, <3>5, <3>6, <3>7 DEF Inv
  <2> QED BY <2>1, <2>4, <2>5
<1> QED BY <1>3, <1>4, <1>5, <1>6 DEF Heartbeat

-----------------------------------------------------------------------------
(* Worker *)

LEMMA WorkerGetInv ==
    ASSUME Inv, worker_get
    PROVE  Inv'
<1>1. /\ UNCHANGED <<main, stop, pending_lines, accepted, parser, reconnect, heartbeat>> /\ Process
      /\ UNCHANGED <<answered, command_lock, daemon, live, dead, board>>
      /\ worker.pc \in {"top", "get"}
  BY DEF worker_get, WorkerFrame
<1>2. ASSUME worker' \in WorkerType, worker'.pc \in {"get", "ready", "done"},
             worker'.pc = "ready" => worker'.line \in Valid,
             main \notin {"accept", "parser", "worker"} => worker'.pc = "done",
             requests' \in Seq(Line \cup {Sentinel}), requests' \in Seq(Queued),
             (\E i \in DOMAIN requests : requests[i] = Sentinel)
               => worker'.pc = "done" \/ \E i \in DOMAIN requests' : requests'[i] = Sentinel
      PROVE  Inv'
  <2>1. TypeOK'
    BY <1>1, <1>2 DEF Inv, TypeOK
  <2>2. LockOK'
    BY <1>1, <1>2 DEF Inv, LockOK
  <2>3. ClientOK'
    BY <1>1, <1>2 DEF Inv, ClientOK
  <2>4. HandlesAreOwned'
    <3>1. ~Leaving /\ ~Leaving'
      BY <1>1, <1>2
    <3> QED BY <1>1, <3>1 DEF Inv, HandlesAreOwned, Process
  <2>5. RecoveryOK'
    BY <1>1, <1>2 DEF Inv, RecoveryOK, RecoveryIsFresh
  <2>6. ShutdownOK' /\ RequestsOK'
    BY <1>1, <1>2 DEF Inv, ShutdownOK, RequestsOK
  <2> QED BY <2>1, <2>2, <2>3, <2>4, <2>5, <2>6 DEF Inv
<1>3. CASE worker.pc = "top"
  <2>1. /\ requests' = requests
        /\ \/ stop /\ worker' = [worker EXCEPT !.pc = "done"]
           \/ ~stop /\ worker' = [worker EXCEPT !.pc = "get"]
    BY <1>3 DEF worker_get, Inv, TypeOK
  <2>2. worker' \in WorkerType /\ worker'.pc = IF stop THEN "done" ELSE "get"
    BY <2>1 DEF Inv, TypeOK, WorkerType
  <2>3. main # "accept" => stop
    BY DEF Inv, ShutdownOK
  <2> QED BY <1>2, <2>1, <2>2, <2>3 DEF Inv, TypeOK, RequestsOK
<1>4. CASE worker.pc = "get"
  <2> DEFINE line == Head(requests)
  <2>1. /\ requests # <<>> /\ requests' = Tail(requests)
        /\ worker' = [worker EXCEPT !.line = line, !.pc = IF line = Sentinel THEN "done" ELSE "ready"]
    BY <1>4 DEF worker_get
  <2>2. /\ requests' \in Seq(Line \cup {Sentinel}) /\ line \in Line \cup {Sentinel}
        /\ (\E i \in DOMAIN requests : requests[i] = Sentinel) /\ line # Sentinel
              => \E i \in DOMAIN requests' : requests'[i] = Sentinel
    BY <2>1, Taken DEF Inv, TypeOK
  <2>5. requests' \in Seq(Queued) /\ line \in Queued
    BY <2>1, Taken DEF Inv, RequestsOK
  <2> HIDE DEF line
  <2>3. /\ worker' \in WorkerType /\ worker'.line = line
        /\ worker'.pc = IF line = Sentinel THEN "done" ELSE "ready"
    BY <2>1, <2>2 DEF Inv, TypeOK, WorkerType
  <2>4. main \in {"accept", "parser", "worker"}
    BY <1>4 DEF Inv, ShutdownOK
  <2> QED BY <1>2, <2>2, <2>5, <2>3, <2>4 DEF Queued
<1> QED BY <1>1, <1>3, <1>4

(* The request ends and the connection stays. *)
LEMMA EndsConnected ==
    ASSUME Inv, WorkerFrame, Respond, UNCHANGED <<requests, daemon, handles>>, SameBoard,
           worker.pc \in {"ready", "device", "status", "reboot"}
    PROVE  Inv'
<1>1. /\ UNCHANGED <<main, stop, pending_lines, accepted, parser, reconnect, heartbeat>> /\ Process
      /\ UNCHANGED <<requests, daemon, live, dead>>
  BY DEF WorkerFrame
<1>2. /\ worker' \in WorkerType /\ worker'.pc = "top" /\ answered' \in SUBSET Ids
      /\ command_lock' = (IF InSection THEN {} ELSE command_lock)
  BY Responds
<1>3. TypeOK'
  BY <1>1, <1>2 DEF Inv, TypeOK, SameBoard
<1>4. LockOK'
  BY <1>1, <1>2 DEF Inv, LockOK
<1>5. ClientOK'
  BY <1>1, <1>2 DEF Inv, ClientOK
<1>6. HandlesAreOwned'
  <2>1. ~Leaving /\ ~Leaving'
    BY <1>2
  <2> QED BY <1>1, <2>1 DEF Inv, HandlesAreOwned, Process
<1>7. RecoveryOK'
  BY <1>1, <1>2 DEF Inv, RecoveryOK, RecoveryIsFresh, SameBoard
<1>8. ShutdownOK' /\ RequestsOK'
  BY <1>1, <1>2 DEF Inv, ShutdownOK, RequestsOK
<1> QED BY <1>3, <1>4, <1>5, <1>6, <1>7, <1>8 DEF Inv

(* The request ends and the client is closed. *)
LEMMA EndsDisconnected ==
    ASSUME Inv, WorkerFrame, Respond, UNCHANGED requests, mark_disconnected, SameBoard,
           worker.pc \in {"device", "status", "reboot"}
    PROVE  Inv'
<1>1. /\ UNCHANGED <<main, stop, pending_lines, accepted, parser, reconnect, heartbeat>> /\ Process
      /\ UNCHANGED requests
  BY DEF WorkerFrame
<1>2. /\ worker' \in WorkerType /\ worker'.pc = "top" /\ answered' \in SUBSET Ids
      /\ command_lock' = {}
  BY Responds
<1>3. /\ daemon' \in DaemonType /\ daemon'.client = NoHandle /\ ~daemon'.connected
      /\ daemon'.started_at = "none" /\ live' \in SUBSET Handles /\ dead' \in SUBSET Handles
  BY Disconnects DEF Inv
<1>4. daemon.connected /\ heartbeat.pc # "rpc" /\ Resting
  BY DEF Inv, ClientOK, LockOK
<1>5. reconnect.handle = NoHandle /\ live' \cup dead' = {}
  BY <1>1, <1>4, ClientClosed
<1>6. TypeOK'
  BY <1>1, <1>2, <1>3 DEF Inv, TypeOK, SameBoard
<1>7. LockOK'
  BY <1>1, <1>2, <1>4 DEF Inv, LockOK
<1>8. ClientOK'
  BY <1>1, <1>2, <1>3, <1>4, <1>5 DEF Inv, ClientOK
<1>9. HandlesAreOwned'
  BY <1>1, <1>2, <1>3, <1>5 DEF HandlesAreOwned, Nothing
<1>10. RecoveryOK'
  BY <1>1, <1>2, <1>3, <1>4 DEF Inv, RecoveryOK, RecoveryIsFresh, SameBoard
<1>11. ShutdownOK' /\ RequestsOK'
  BY <1>1, <1>2, <1>3 DEF Inv, ShutdownOK, RequestsOK
<1> QED BY <1>6, <1>7, <1>8, <1>9, <1>10, <1>11 DEF Inv

(* The worker goes on in its section with the client it has. *)
LEMMA GoesOn ==
    ASSUME Inv, WorkerFrame, UNCHANGED <<requests, answered, daemon, handles>>,
           daemon.connected, command_lock' = {"worker"}, heartbeat.pc # "rpc",
           main \notin {"unlink", "exited"},
           worker.pc \in {"ready", "device", "status", "reboot"},
           worker' \in WorkerType, worker'.pc \in {"device", "status", "reboot", "recover"},
           worker'.handle = daemon.client, worker'.line = worker.line,
           worker'.pc # "device" => worker.line.command \in {"reboot", "bootsel"},
           board' \in BoardType, board'.uptime = board.uptime,
           board'.rebooted = board.rebooted \/ worker'.pc = "recover",
           worker'.pc = "reboot" => worker'.uptime = board.uptime,
           worker'.pc = "recover" => worker'.uptime <= board.uptime
    PROVE  Inv'
<1>1. /\ UNCHANGED <<main, stop, pending_lines, accepted, parser, reconnect, heartbeat>> /\ Process
      /\ UNCHANGED <<requests, answered, daemon, live, dead>>
  BY DEF WorkerFrame
<1>2. TypeOK'
  BY <1>1 DEF Inv, TypeOK
<1>3. LockOK'
  BY <1>1 DEF Inv, LockOK
<1>4. ClientOK'
  BY <1>1 DEF Inv, ClientOK
<1>5. HandlesAreOwned'
  <2>1. ~Leaving /\ ~Leaving'
    OBVIOUS
  <2> QED BY <1>1, <2>1 DEF Inv, HandlesAreOwned, Process
<1>6. RecoveryOK'
  <2>1. Resting /\ daemon.started_at = "none"
    BY DEF Inv, ClientOK
  <2>2. board.uptime \in Nat
    BY DEF Inv, TypeOK, BoardType
  <2> QED BY <1>1, <2>1, <2>2 DEF RecoveryOK, RecoveryIsFresh
<1>7. ShutdownOK' /\ RequestsOK'
  BY <1>1 DEF Inv, ShutdownOK, RequestsOK
<1> QED BY <1>2, <1>3, <1>4, <1>5, <1>6, <1>7 DEF Inv

LEMMA HandleRequestInv ==
    ASSUME Inv, handle_request
    PROVE  Inv'
<1>1. WorkerFrame /\ worker.pc = "ready" /\ UNCHANGED <<requests, daemon, handles, board>>
  BY DEF handle_request
<1>2. SameBoard
  BY <1>1 DEF SameBoard, Inv, TypeOK
<1>3. CASE Respond
  BY <1>1, <1>2, <1>3, EndsConnected
<1>4. CASE ~Respond
  <2>1. /\ command_lock = {} /\ command_lock' = {"worker"} /\ daemon.connected /\ UNCHANGED answered
        /\ worker' = [worker EXCEPT !.handle = daemon.client,
                          !.pc = IF worker.line.command = "device" THEN "device" ELSE "status"]
    BY <1>4 DEF handle_request
  <2>2. /\ worker' \in WorkerType /\ worker'.pc \in {"device", "status"}
        /\ worker'.handle = daemon.client /\ worker'.line = worker.line
    BY <2>1 DEF Inv, TypeOK, WorkerType, DaemonType
  <2>3. heartbeat.pc # "rpc" /\ main \notin {"unlink", "exited"}
    BY <1>1, <2>1 DEF Inv, LockOK, ShutdownOK
  <2>4. worker.line.command # "device" => worker.line.command \in {"reboot", "bootsel"}
    <3>1. worker.line \in Valid /\ worker.line.command # "daemon-status"
      BY <1>1, <1>4 DEF Inv, RequestsOK, handle_request
    <3> QED BY <3>1 DEF Valid, Line, Commands
  <2>5. worker'.pc # "device" => worker.line.command # "device"
    BY <2>1 DEF Inv, TypeOK, WorkerType
  <2> QED BY <1>1, <1>2, <2>1, <2>2, <2>3, <2>4, <2>5, GoesOn DEF SameBoard
<1> QED BY <1>3, <1>4

(* A request that fails, whatever the board has made of it. *)
LEMMA FailsInv ==
    ASSUME Inv, WorkerFrame, UNCHANGED requests, worker.pc \in {"device", "status", "reboot"},
           NEW b \in BoardType, b.uptime = board.uptime, b.rebooted = board.rebooted,
           TransportError(b) \/ OtherError
    PROVE  Inv'
<1>1. CASE TransportError(b)
  <2>1. mark_disconnected /\ Respond /\ (board' = board \/ board' = b)
    BY <1>1 DEF TransportError
  <2>2. SameBoard
    BY <2>1 DEF SameBoard, Inv, TypeOK
  <2> QED BY <2>1, <2>2, EndsDisconnected
<1>2. CASE OtherError
  <2>1. Respond /\ UNCHANGED <<daemon, handles, board>>
    BY <1>2 DEF OtherError
  <2>2. SameBoard
    BY <2>1 DEF SameBoard, Inv, TypeOK
  <2> QED BY <2>1, <2>2, EndsConnected
<1> QED BY <1>1, <1>2

LEMMA DispatchInv ==
    ASSUME Inv, dispatch_device_command
    PROVE  Inv'
<1> DEFINE b == [board EXCEPT !.on = TRUE]
<1>1. WorkerFrame /\ worker.pc = "device" /\ UNCHANGED requests
  BY DEF dispatch_device_command
<1>2. b \in BoardType /\ b.uptime = board.uptime /\ b.rebooted = board.rebooted
  BY DEF Inv, TypeOK, BoardType
<1>3. CASE board' = b /\ Respond /\ UNCHANGED <<daemon, handles>>
  BY <1>1, <1>2, <1>3, EndsConnected DEF SameBoard
<1>4. CASE TransportError(b) \/ OtherError
  <2> HIDE DEF b
  <2> QED BY <1>1, <1>2, <1>4, FailsInv
<1> QED BY <1>3, <1>4 DEF dispatch_device_command

(* What the holder of _command_lock knows of the connection. *)
LEMMA HolderFacts ==
    ASSUME Inv, worker.pc \in {"status", "reboot", "recover"}
    PROVE  /\ daemon.connected /\ worker.handle = daemon.client /\ command_lock = {"worker"}
           /\ heartbeat.pc # "rpc" /\ main \notin {"unlink", "exited"}
           /\ daemon.started_at = "none" /\ Resting /\ reconnect.handle = NoHandle
           /\ worker.line.command \in {"reboot", "bootsel"}
  BY DEF Inv, LockOK, ClientOK, ShutdownOK, RequestsOK

LEMMA StatusInv ==
    ASSUME Inv, pre_reboot_status
    PROVE  Inv'
<1>1. WorkerFrame /\ worker.pc = "status" /\ UNCHANGED requests
  BY DEF pre_reboot_status
<1>2. CASE worker' = [worker EXCEPT !.pc = "reboot", !.uptime = board.uptime]
           /\ UNCHANGED <<answered, command_lock, daemon, handles, board>>
  <2>1. board.uptime \in Uptimes /\ board \in BoardType
    BY DEF Inv, TypeOK, BoardType
  <2>2. /\ worker' \in WorkerType /\ worker'.pc = "reboot" /\ worker'.uptime = board.uptime
        /\ worker'.handle = worker.handle /\ worker'.line = worker.line
    BY <1>2, <2>1 DEF Inv, TypeOK, WorkerType
  <2> QED BY <1>1, <1>2, <2>1, <2>2, HolderFacts, GoesOn
<1>3. CASE TransportError(board) \/ OtherError
  BY <1>1, <1>3, FailsInv DEF Inv, TypeOK
<1> QED BY <1>2, <1>3 DEF pre_reboot_status

LEMMA RequestRebootInv ==
    ASSUME Inv, request_reboot
    PROVE  Inv'
<1> DEFINE b == [board EXCEPT !.promised = worker.line.command]
<1>1. WorkerFrame /\ worker.pc = "reboot" /\ UNCHANGED requests
  BY DEF request_reboot
<1>2. CASE worker.line.command \in {"reboot", "bootsel"}
  <2>1. b \in BoardType /\ b.uptime = board.uptime /\ b.rebooted = board.rebooted
    BY <1>2 DEF Inv, TypeOK, BoardType
  <2>2. CASE board' = b /\ mark_disconnected /\ Respond
    BY <1>1, <2>1, <2>2, EndsDisconnected DEF SameBoard
  <2>3. CASE /\ Answered(worker.handle) /\ board' = [b EXCEPT !.rebooted = FALSE]
             /\ worker' = [worker EXCEPT !.pc = "recover"]
             /\ UNCHANGED <<answered, command_lock, daemon, handles>>
    <3>1. board' \in BoardType /\ board'.uptime = board.uptime
      <4> HIDE DEF b
      <4> QED BY <2>1, <2>3 DEF BoardType
    <3>2. /\ worker' \in WorkerType /\ worker'.pc = "recover" /\ worker'.uptime = worker.uptime
          /\ worker'.handle = worker.handle /\ worker'.line = worker.line
      BY <2>3 DEF Inv, TypeOK, WorkerType
    <3>3. worker.uptime <= board.uptime
      BY <1>1, <2>3 DEF Inv, RecoveryOK, Answered
    <3> QED BY <1>1, <2>3, <3>1, <3>2, <3>3, HolderFacts, GoesOn
  <2>4. CASE TransportError(b) \/ OtherError
    <3> HIDE DEF b
    <3> QED BY <1>1, <2>1, <2>4, FailsInv
  <2> QED BY <2>2, <2>3, <2>4 DEF request_reboot
<1> QED BY <1>1, <1>2, HolderFacts

(* _enter_reboot_recovery(): the worker takes the client away, then notes   *)
(* what it knows, then closes the handle.                                   *)
LEMMA RecoverInv ==
    ASSUME Inv, enter_reboot_recovery, worker.pc # "close"
    PROVE  Inv'
<1>1. /\ UNCHANGED <<main, stop, pending_lines, accepted, parser, reconnect, heartbeat>> /\ Process
      /\ UNCHANGED <<requests, answered, command_lock, live, dead, board>>
      /\ worker.pc \in {"recover", "torn", "untimed"}
  BY DEF enter_reboot_recovery, WorkerFrame
<1>2. /\ worker \in WorkerType /\ daemon \in DaemonType /\ command_lock = {"worker"}
      /\ heartbeat.pc # "rpc" /\ main \notin {"unlink", "exited"} /\ worker.line \in Valid
      /\ daemon.started_at = "none" /\ worker.uptime \in Uptimes
  BY <1>1 DEF Inv, TypeOK, LockOK, ClientOK, ShutdownOK, RequestsOK, WorkerType
<1>3. ASSUME worker' \in WorkerType, worker'.pc \in {"torn", "untimed", "close"},
             worker'.handle = worker.handle, worker'.line = worker.line, worker'.uptime = worker.uptime,
             worker.handle \notin {NoHandle, daemon'.client, reconnect.handle},
             daemon' \in DaemonType, daemon'.client = NoHandle, ~daemon'.connected,
             live \cup dead = {worker.handle, reconnect.handle} \ {NoHandle},
             \/ daemon'.started_at = "none"
                /\ reconnect.pc \notin {"rport", "instance", "rprobe", "fresh"}
             \/ worker'.pc = "close" /\ daemon'.started_at = "recent"
                /\ daemon'.pre_uptime = worker.uptime
                /\ reconnect.pc \notin {"rport", "instance", "rprobe", "fresh"}
      PROVE  Inv'
  <2>1. TypeOK' /\ RequestsOK'
    BY <1>1, <1>2, <1>3 DEF Inv, TypeOK, RequestsOK
  <2>2. LockOK'
    BY <1>1, <1>2, <1>3 DEF Inv, LockOK
  <2>3. ClientOK'
    BY <1>1, <1>2, <1>3 DEF Inv, ClientOK
  <2>4. HandlesAreOwned'
    BY <1>1, <1>3 DEF HandlesAreOwned, Nothing
  <2>5. RecoveryOK'
    BY <1>1, <1>2, <1>3 DEF Inv, RecoveryOK, RecoveryIsFresh
  <2>6. ShutdownOK'
    BY <1>1, <1>2, <1>3 DEF Inv, ShutdownOK
  <2> QED BY <2>1, <2>2, <2>3, <2>4, <2>5, <2>6 DEF Inv
<1>4. CASE worker.pc = "recover"
  <2>1. /\ worker' = [worker EXCEPT !.pc = "torn"]
        /\ daemon' = [daemon EXCEPT !.client = 0, !.connected = FALSE, !.instance = InstanceId]
    BY <1>4 DEF enter_reboot_recovery
  <2>2. InstanceId \in {"none", "current", "gone"}
    BY DEF InstanceId
  <2>3. /\ worker' \in WorkerType /\ worker'.pc = "torn" /\ worker'.handle = worker.handle
        /\ worker'.line = worker.line /\ worker'.uptime = worker.uptime
    BY <1>2, <2>1 DEF WorkerType
  <2>4. /\ daemon' \in DaemonType /\ daemon'.client = NoHandle /\ ~daemon'.connected
        /\ daemon'.started_at = "none"
    BY <1>2, <2>1, <2>2 DEF DaemonType
  <2>5. /\ worker.handle = daemon.client /\ daemon.client # NoHandle
        /\ reconnect.handle = NoHandle /\ Resting
    BY <1>4, HolderFacts DEF Inv, ClientOK
  <2>6. live \cup dead = {worker.handle, reconnect.handle} \ {NoHandle}
    BY <1>1, <1>4, <2>5 DEF Inv, HandlesAreOwned, Nothing
  <2> QED BY <1>3, <2>3, <2>4, <2>5, <2>6
<1>5. CASE worker.pc \in {"torn", "untimed"}
  <2>1. /\ daemon.client = NoHandle /\ ~daemon.connected
        /\ worker.handle \notin {NoHandle, reconnect.handle}
        /\ reconnect.pc \notin {"rport", "instance", "rprobe", "fresh"}
    BY <1>2, <1>5 DEF Inv, ClientOK, RecoveryOK
  <2>2. live \cup dead = {worker.handle, reconnect.handle} \ {NoHandle}
    BY <1>1, <1>5, <2>1 DEF Inv, HandlesAreOwned, Nothing
  <2>3. CASE worker.pc = "torn"
    <3>1. /\ worker' = [worker EXCEPT !.pc = "untimed"]
          /\ daemon' = [daemon EXCEPT !.reboot_recovery = TRUE]
      BY <2>3 DEF enter_reboot_recovery
    <3>2. /\ worker' \in WorkerType /\ worker'.pc = "untimed" /\ worker'.handle = worker.handle
          /\ worker'.line = worker.line /\ worker'.uptime = worker.uptime
      BY <1>2, <3>1 DEF WorkerType
    <3>3. /\ daemon' \in DaemonType /\ daemon'.client = daemon.client
          /\ daemon'.connected = daemon.connected /\ daemon'.started_at = "none"
      BY <1>2, <3>1 DEF DaemonType
    <3> QED BY <1>3, <2>1, <2>2, <3>2, <3>3
  <2>4. CASE worker.pc = "untimed"
    <3>1. /\ worker' = [worker EXCEPT !.pc = "close"]
          /\ daemon' = [daemon EXCEPT !.started_at = "recent", !.pre_uptime = worker.uptime,
                                      !.missing_seen = FALSE]
      BY <2>4 DEF enter_reboot_recovery
    <3>2. /\ worker' \in WorkerType /\ worker'.pc = "close" /\ worker'.handle = worker.handle
          /\ worker'.line = worker.line /\ worker'.uptime = worker.uptime
      BY <1>2, <3>1 DEF WorkerType
    <3>3. /\ daemon' \in DaemonType /\ daemon'.client = daemon.client
          /\ daemon'.connected = daemon.connected /\ daemon'.started_at = "recent"
          /\ daemon'.pre_uptime = worker.uptime
      BY <1>2, <3>1 DEF DaemonType
    <3> QED BY <1>3, <2>1, <2>2, <3>2, <3>3
  <2> QED BY <1>5, <2>3, <2>4
<1> QED BY <1>1, <1>4, <1>5

LEMMA CloseInv ==
    ASSUME Inv, enter_reboot_recovery, worker.pc = "close"
    PROVE  Inv'
<1>1. /\ UNCHANGED <<main, stop, pending_lines, accepted, parser, reconnect, heartbeat>> /\ Process
      /\ UNCHANGED <<requests, daemon, board>> /\ Respond
      /\ live' = live \ {worker.handle} /\ dead' = dead \ {worker.handle}
  BY DEF enter_reboot_recovery, WorkerFrame, Closed
<1>2. /\ worker' \in WorkerType /\ worker'.pc = "top" /\ answered' \in SUBSET Ids
      /\ command_lock' = {}
  BY <1>1, Responds
<1>3. /\ heartbeat.pc # "rpc"
      /\ worker.handle \notin {NoHandle, daemon.client, reconnect.handle}
  BY DEF Inv, LockOK, ClientOK
<1>4. live \cup dead = {daemon.client, reconnect.handle, worker.handle} \ {NoHandle}
  BY <1>1 DEF Inv, HandlesAreOwned, Nothing
<1>5. live' \cup dead' = {daemon.client, reconnect.handle} \ {NoHandle}
  BY <1>1, <1>3, <1>4
<1>6. TypeOK' /\ RequestsOK'
  BY <1>1, <1>2 DEF Inv, TypeOK, RequestsOK
<1>7. LockOK'
  BY <1>1, <1>2, <1>3 DEF Inv, LockOK
<1>8. ClientOK'
  BY <1>1, <1>2 DEF Inv, ClientOK
<1>9. HandlesAreOwned'
  BY <1>1, <1>2, <1>5 DEF HandlesAreOwned, Nothing
<1>10. RecoveryOK' /\ ShutdownOK'
  BY <1>1, <1>2 DEF Inv, RecoveryOK, RecoveryIsFresh, ShutdownOK
<1> QED BY <1>6, <1>7, <1>8, <1>9, <1>10 DEF Inv

-----------------------------------------------------------------------------
(* Reconnect *)

(* What the reconnect thread knows while it is at work. *)
LEMMA AtWork ==
    ASSUME Inv, ~Resting
    PROVE  /\ ~daemon.connected /\ daemon.client = NoHandle
           /\ InSection => Leaving
           /\ heartbeat.pc # "rpc"
  BY DEF Inv, ClientOK

(* A step of the reconnect thread that opens and closes nothing. *)
LEMMA ReconnectMoves ==
    ASSUME Inv, ReconnectFrame, UNCHANGED handles, reconnect.handle = NoHandle,
           stop' \in BOOLEAN, stop => stop',
           reconnect' \in ReconnectType, reconnect'.handle = NoHandle,
           reconnect'.pc \notin {"opened", "fresh", "adopt"},
           daemon' \in DaemonType, daemon'.client = daemon.client,
           daemon'.connected = daemon.connected,
           \/ daemon'.started_at = "none"
           \/ daemon'.started_at = daemon.started_at /\ daemon'.pre_uptime = daemon.pre_uptime,
           Resting' \/ (~daemon.connected /\ (Resting => ~stop)),
           reconnect'.pc \in {"rport", "instance", "rprobe"} => daemon'.started_at = "settled"
    PROVE  Inv'
<1>1. /\ UNCHANGED <<main, queues, parser, worker, heartbeat, command_lock, board, live, dead>>
      /\ Process
  BY DEF ReconnectFrame
<1>2. TypeOK' /\ RequestsOK'
  BY <1>1 DEF Inv, TypeOK, RequestsOK
<1>3. LockOK'
  BY <1>1 DEF Inv, LockOK
<1>4. ClientOK'
  BY <1>1 DEF Inv, ClientOK
<1>5. HandlesAreOwned'
  BY <1>1 DEF Inv, HandlesAreOwned, Process
<1>6. RecoveryOK'
  BY <1>1 DEF Inv, RecoveryOK, RecoveryIsFresh
<1>7. ShutdownOK'
  BY <1>1 DEF Inv, ShutdownOK
<1> QED BY <1>2, <1>3, <1>4, <1>5, <1>6, <1>7 DEF Inv

(* It goes back to its wait, with or without _mark_disconnected(). *)
LEMMA ReconnectWaits ==
    ASSUME Inv, ReconnectFrame, ~Resting, reconnect.handle = NoHandle, Idle,
           UNCHANGED <<daemon, handles>> \/ mark_disconnected,
           stop' \in {stop, TRUE}
    PROVE  Inv'
<1>1. daemon.client = NoHandle /\ ~daemon.connected
  BY AtWork
<1>2. UNCHANGED handles
  <2>1. CASE mark_disconnected
    <3>1. live' = live \ {0} /\ dead' = dead \ {0} /\ live \subseteq 1..3 /\ dead \subseteq 1..3
      BY <1>1, <2>1, Disconnects DEF Inv, TypeOK
    <3> QED BY <3>1
  <2> QED BY <2>1
<1>3. /\ daemon' \in DaemonType /\ daemon'.client = daemon.client /\ daemon'.connected = daemon.connected
      /\ \/ daemon'.started_at = "none"
         \/ daemon'.started_at = daemon.started_at /\ daemon'.pre_uptime = daemon.pre_uptime
  <2>1. CASE mark_disconnected
    <3>1. daemon' = Disconnected
      BY <2>1 DEF mark_disconnected
    <3>2. daemon'.connected = FALSE /\ daemon.connected = FALSE
      BY <1>1, <3>1 DEF Disconnected, Inv, TypeOK, DaemonType
    <3> QED BY <1>1, <2>1, <3>2, Disconnects DEF Inv
  <2>2. CASE UNCHANGED <<daemon, handles>>
    BY <2>2 DEF Inv, TypeOK
  <2> QED BY <2>1, <2>2
<1>4. stop' \in BOOLEAN /\ (stop => stop')
  BY DEF Inv, TypeOK
<1> QED BY <1>2, <1>3, <1>4, Idles, ReconnectMoves

LEMMA GotoFacts ==
    ASSUME TypeOK, NEW pc \in {"done", "awake", "port", "after", "incomplete", "rport", "instance",
                               "probe", "rprobe", "adopt"}, Goto(pc)
    PROVE  /\ reconnect' \in ReconnectType /\ reconnect'.pc = pc
           /\ reconnect'.handle = reconnect.handle /\ reconnect'.uptime = reconnect.uptime
           /\ reconnect'.recovering = reconnect.recovering
  BY DEF TypeOK, ReconnectType, Goto

LEMMA ReconnectGoes ==
    ASSUME Inv, ReconnectFrame, UNCHANGED <<stop, daemon, handles>>,
           reconnect.pc \notin {"opened", "fresh", "adopt"},
           NEW pc \in {"done", "awake", "port", "after", "incomplete", "rport", "instance",
                       "probe", "rprobe"}, Goto(pc),
           pc = "done" \/ (~daemon.connected /\ (Resting => ~stop)),
           pc \in {"rport", "instance", "rprobe"} => daemon.started_at = "settled"
    PROVE  Inv'
<1>1. reconnect.handle = NoHandle /\ daemon \in DaemonType /\ stop \in BOOLEAN
  BY DEF Inv, ClientOK, TypeOK
<1>2. /\ reconnect' \in ReconnectType /\ reconnect'.pc = pc
      /\ reconnect'.handle = reconnect.handle
  BY GotoFacts DEF Inv
<1> QED BY <1>1, <1>2, ReconnectMoves


LEMMA ReconnectLoopInv ==
    ASSUME Inv, reconnect_loop
    PROVE  Inv'
<1>1. ReconnectFrame /\ UNCHANGED <<stop, daemon, handles>>
  BY DEF reconnect_loop
<1>2. CASE reconnect.pc = "wait" /\ Goto("done")
  BY <1>1, <1>2, ReconnectGoes
<1>3. CASE reconnect.pc = "wait" /\ ~stop /\ ~daemon.connected /\ Goto("awake")
  BY <1>1, <1>3, ReconnectGoes
<1>4. CASE reconnect.pc = "awake" /\ (Goto("after") \/ Goto("port"))
  <2>1. ~daemon.connected
    BY <1>4, AtWork
  <2> QED BY <1>1, <1>4, <2>1, ReconnectGoes
<1> QED BY <1>2, <1>3, <1>4 DEF reconnect_loop

LEMMA SelectorFailsInv ==
    ASSUME Inv, ReconnectFrame, ~Resting, reconnect.handle = NoHandle, fail_reconnect
    PROVE  Inv'
  BY ReconnectWaits DEF fail_reconnect

LEMMA ReconnectOnceInv ==
    ASSUME Inv, reconnect_once
    PROVE  Inv'
<1>1. ReconnectFrame /\ reconnect.pc = "port"
  BY DEF reconnect_once
<1>2. reconnect.handle = NoHandle /\ ~daemon.connected /\ ~Resting
  BY <1>1, AtWork DEF Inv, ClientOK
<1>3. CASE mark_disconnected /\ Idle /\ UNCHANGED stop
  BY <1>1, <1>2, <1>3, ReconnectWaits
<1>4. CASE Goto("probe") /\ UNCHANGED <<stop, daemon, handles>>
  BY <1>1, <1>2, <1>4, ReconnectGoes
<1>5. CASE SelectorFails
  BY <1>1, <1>2, <1>5, SelectorFailsInv DEF SelectorFails
<1> QED BY <1>3, <1>4, <1>5 DEF reconnect_once

LEMMA AfterRebootInv ==
    ASSUME Inv, reconnect_after_reboot_once
    PROVE  Inv'
<1>1. ReconnectFrame /\ reconnect.pc \in {"after", "incomplete", "rport", "instance"}
  BY DEF reconnect_after_reboot_once
<1>2. /\ reconnect.handle = NoHandle /\ ~daemon.connected /\ ~Resting
      /\ reconnect.pc \in {"rport", "instance"} => daemon.started_at = "settled"
  BY <1>1, AtWork DEF Inv, ClientOK, RecoveryOK
<1>3. CASE reconnect.pc = "after"
  <2>1. /\ UNCHANGED <<stop, daemon, handles>>
        /\ \/ Goto("incomplete") \/ Idle
           \/ daemon.started_at = "settled" /\ Goto("rport")
    BY <1>3 DEF reconnect_after_reboot_once
  <2>2. CASE Idle
    BY <1>1, <1>2, <2>1, <2>2, ReconnectWaits
  <2>3. CASE Goto("incomplete")
    BY <1>1, <1>2, <1>3, <2>1, <2>3, ReconnectGoes
  <2>4. CASE daemon.started_at = "settled" /\ Goto("rport")
    BY <1>1, <1>2, <1>3, <2>1, <2>4, ReconnectGoes
  <2> QED BY <2>1, <2>2, <2>3, <2>4
<1>4. CASE reconnect.pc = "incomplete"
  <2>1. mark_disconnected /\ Idle /\ UNCHANGED stop
    BY <1>4 DEF reconnect_after_reboot_once
  <2> QED BY <1>1, <1>2, <2>1, ReconnectWaits
<1>5. CASE reconnect.pc = "rport"
  <2>1. \/ Idle /\ UNCHANGED <<stop, daemon, handles>>
        \/ Goto("instance") /\ UNCHANGED <<stop, daemon, handles>>
        \/ SelectorFails
    BY <1>5 DEF reconnect_after_reboot_once
  <2>2. CASE Idle /\ UNCHANGED <<stop, daemon, handles>>
    BY <1>1, <1>2, <2>2, ReconnectWaits
  <2>3. CASE Goto("instance") /\ UNCHANGED <<stop, daemon, handles>>
    BY <1>1, <1>2, <1>5, <2>3, ReconnectGoes
  <2>4. CASE SelectorFails
    BY <1>1, <1>2, <2>4, SelectorFailsInv DEF SelectorFails
  <2> QED BY <2>1, <2>2, <2>3, <2>4
<1>6. CASE reconnect.pc = "instance"
  <2>1. /\ UNCHANGED <<stop, handles>>
        /\ daemon' = [daemon EXCEPT !.missing_seen = @ \/ InstanceId = "none"]
        /\ Idle \/ Goto("rprobe")
    BY <1>6 DEF reconnect_after_reboot_once
  <2>2. /\ daemon' \in DaemonType /\ daemon'.client = daemon.client
        /\ daemon'.connected = daemon.connected /\ daemon'.started_at = daemon.started_at
        /\ daemon'.pre_uptime = daemon.pre_uptime
    BY <2>1 DEF Inv, TypeOK, DaemonType
  <2>3. /\ reconnect' \in ReconnectType /\ reconnect'.handle = NoHandle
        /\ reconnect'.pc \in {"wait", "rprobe"}
    BY <1>2, <2>1, Idles, GotoFacts DEF Inv
  <2>4. stop' \in BOOLEAN /\ (stop => stop')
    BY <2>1 DEF Inv, TypeOK
  <2> QED BY <1>1, <1>2, <1>6, <2>1, <2>2, <2>3, <2>4, ReconnectMoves
<1> QED BY <1>1, <1>3, <1>4, <1>5, <1>6

(* At most one handle is open while the reconnect thread has none: a third  *)
(* number is always free.                                                   *)
LEMMA FreeHandle ==
    ASSUME Inv, Process, ~Resting, reconnect.handle = NoHandle
    PROVE  NewHandle \in Handles /\ NewHandle \notin live \cup dead
<1>1. \E w : live \cup dead = {w} \ {NoHandle}
  <2>1. daemon.client = NoHandle
    BY AtWork
  <2> QED BY <2>1 DEF Inv, HandlesAreOwned, Nothing
<1>2. PICK w : live \cup dead = {w} \ {NoHandle}
  BY <1>1
<1>3. 1 \in Handles /\ 2 \in Handles
  OBVIOUS
<1>4. 1 \notin live \cup dead \/ 2 \notin live \cup dead
  BY <1>2
<1>5. \E h \in Handles : h \notin live \cup dead
  BY <1>3, <1>4, Zenon
<1> HIDE DEF Handles
<1> QED BY <1>5, Zenon DEF NewHandle

(* A probe opens a new handle, which the reconnect thread owns. *)
LEMMA ReconnectProbeInv ==
    ASSUME Inv, reconnect_probe
    PROVE  Inv'
<1>1. /\ UNCHANGED <<main, queues, parser, worker, heartbeat, command_lock, board, stop>> /\ Process
      /\ ReconnectFrame /\ reconnect.pc \in {"probe", "rprobe"} /\ ~Resting
  BY DEF reconnect_probe, ReconnectFrame
<1>2. reconnect.handle = NoHandle
  BY <1>1 DEF Inv, ClientOK
<1>3. CASE /\ live' = live \cup {NewHandle}
           /\ reconnect' = [pc |-> "opened", handle |-> NewHandle, uptime |-> 0,
                            recovering |-> reconnect.pc = "rprobe"]
           /\ UNCHANGED <<daemon, dead>>
  <2> DEFINE h == NewHandle
  <2>1. h \in Handles /\ h \notin live \cup dead
    BY <1>1, <1>2, FreeHandle
  <2>3. /\ reconnect'.pc = "opened"
        /\ reconnect'.handle = h /\ reconnect'.uptime = 0
        /\ reconnect'.recovering <=> reconnect.pc = "rprobe"
        /\ live' = live \cup {h}
    BY <1>3
  <2>4. reconnect' \in ReconnectType
    <3>1. (reconnect.pc = "rprobe") \in BOOLEAN /\ h \in 1..3 \cup {0} /\ 0 \in Uptimes
      BY <2>1
    <3> HIDE DEF h, Uptimes
    <3> QED BY <1>3, <3>1 DEF ReconnectType, h
  <2>5. daemon.client = NoHandle /\ ~daemon.connected /\ (InSection => Leaving) /\ heartbeat.pc # "rpc"
    BY <1>1, AtWork
  <2> HIDE DEF h
  <2>6. TypeOK' /\ RequestsOK'
    BY <1>1, <1>3, <2>1, <2>3, <2>4 DEF Inv, TypeOK, RequestsOK
  <2>7. LockOK'
    BY <1>1 DEF Inv, LockOK
  <2>8. Leaving => worker.handle # h
    BY <1>1, <2>1 DEF Inv, ClientOK, HandlesAreOwned, Nothing
  <2>9. ClientOK'
    BY <1>1, <1>3, <2>1, <2>3, <2>5, <2>8 DEF Inv, ClientOK
  <2>10. HandlesAreOwned'
    BY <1>1, <1>2, <1>3, <2>1, <2>3 DEF Inv, HandlesAreOwned, Nothing
  <2>11. RecoveryOK'
    <3>1. worker.pc # "reboot"
      BY <2>5
    <3>2. reconnect.pc = "rprobe" => daemon.started_at = "settled"
      BY DEF Inv, RecoveryOK
    <3> QED BY <1>1, <1>3, <2>3, <3>1, <3>2 DEF Inv, RecoveryOK, RecoveryIsFresh
  <2>12. ShutdownOK'
    BY <1>1, <1>3, <2>3 DEF Inv, ShutdownOK
  <2> QED BY <2>6, <2>7, <2>9, <2>10, <2>11, <2>12 DEF Inv
<1>4. CASE Idle /\ (mark_disconnected \/ UNCHANGED <<daemon, handles>>)
  BY <1>1, <1>2, <1>4, ReconnectWaits
<1> QED BY <1>3, <1>4 DEF reconnect_probe

(* A probe that gives up closes its handle, which is not the worker's. *)
LEMMA ProbeCloses ==
    ASSUME Inv, ReconnectFrame, reconnect.pc \in {"opened", "fresh"}, Closed(reconnect.handle),
           reconnect' \in ReconnectType, reconnect'.handle = NoHandle,
           reconnect'.pc \in {"wait", "failed"},
           stop' \in BOOLEAN, stop => stop', UNCHANGED daemon
    PROVE  Inv'
<1>1. /\ UNCHANGED <<main, queues, parser, worker, heartbeat, command_lock, board>> /\ Process
      /\ live' = live \ {reconnect.handle} /\ dead' = dead \ {reconnect.handle}
      /\ ~Resting
  BY DEF ReconnectFrame, Closed
<1>2. /\ ~daemon.connected /\ daemon.client = NoHandle /\ (InSection => Leaving)
      /\ heartbeat.pc # "rpc"
  BY <1>1, AtWork
<1>3. TypeOK' /\ RequestsOK'
  BY <1>1 DEF Inv, TypeOK, RequestsOK
<1>4. LockOK'
  BY <1>1 DEF Inv, LockOK
<1>5. ClientOK'
  BY <1>1, <1>2 DEF Inv, ClientOK
<1>6. HandlesAreOwned'
  <2> DEFINE w == IF worker.pc \in {"torn", "untimed", "close"} THEN worker.handle ELSE NoHandle
  <2>1. live \cup dead = {reconnect.handle, w} \ {NoHandle}
    BY <1>1, <1>2 DEF Inv, HandlesAreOwned, Nothing
  <2>2. w # reconnect.handle
    BY DEF Inv, ClientOK
  <2> HIDE DEF w
  <2>3. live' \cup dead' = {w} \ {NoHandle}
    BY <1>1, <2>1, <2>2
  <2> QED BY <1>1, <1>2, <2>3 DEF HandlesAreOwned, Nothing, w
<1>7. RecoveryOK'
  <2>1. worker.pc # "reboot"
    BY <1>2
  <2> QED BY <1>1, <2>1 DEF Inv, RecoveryOK, RecoveryIsFresh
<1>8. ShutdownOK'
  BY <1>1 DEF Inv, ShutdownOK
<1> QED BY <1>3, <1>4, <1>5, <1>6, <1>7, <1>8 DEF Inv

(* The uptime a probe reads in reboot recovery is one since the request.    *)
LEMMA ProbeReadyInv ==
    ASSUME Inv, probe_ready
    PROVE  Inv'
<1>1. /\ ReconnectFrame /\ reconnect.pc \in {"opened", "failed"} /\ ~Resting
      /\ reconnect \in ReconnectType /\ stop \in BOOLEAN
  BY DEF probe_ready, Inv, TypeOK
<1>2. CASE /\ reconnect.pc = "opened"
           /\ reconnect' = [reconnect EXCEPT !.pc = IF reconnect.recovering THEN "fresh" ELSE "adopt",
                                             !.uptime = board.uptime]
           /\ UNCHANGED <<stop, daemon, handles>>
  <2>1. /\ UNCHANGED <<main, queues, parser, worker, heartbeat, command_lock, board, stop, daemon, live, dead>>
        /\ Process
    BY <1>1, <1>2 DEF ReconnectFrame
  <2>2. board.uptime \in Uptimes
    BY DEF Inv, TypeOK, BoardType
  <2>3. /\ reconnect' \in ReconnectType
        /\ reconnect'.pc = IF reconnect.recovering THEN "fresh" ELSE "adopt"
        /\ reconnect'.handle = reconnect.handle /\ reconnect'.uptime = board.uptime
        /\ reconnect'.recovering = reconnect.recovering
    <3> HIDE DEF Uptimes, Handles
    <3> QED BY <1>1, <1>2, <2>2 DEF ReconnectType
  <2>4. TypeOK' /\ RequestsOK'
    BY <2>1, <2>3 DEF Inv, TypeOK, RequestsOK
  <2>5. LockOK'
    BY <2>1 DEF Inv, LockOK
  <2>6. ClientOK'
    BY <1>1, <1>2, <2>1, <2>3 DEF Inv, ClientOK
  <2>7. HandlesAreOwned'
    BY <2>1, <2>3 DEF Inv, HandlesAreOwned, Process
  <2>8. RecoveryOK'
    <3>1. reconnect.recovering => daemon.started_at = "settled"
      BY <1>2 DEF Inv, RecoveryOK
    <3> QED BY <1>2, <2>1, <2>3, <3>1 DEF Inv, RecoveryOK, RecoveryIsFresh
  <2>9. ShutdownOK'
    BY <1>1, <2>1, <2>3 DEF Inv, ShutdownOK
  <2> QED BY <2>4, <2>5, <2>6, <2>7, <2>8, <2>9 DEF Inv
<1>3. CASE /\ reconnect.pc = "opened" /\ Closed(reconnect.handle) /\ UNCHANGED daemon
           /\ UNCHANGED stop \/ stop' = TRUE
           /\ Idle \/ reconnect' = [reconnect EXCEPT !.pc = "failed", !.handle = NoHandle]
  <2>1. reconnect' \in ReconnectType /\ reconnect'.pc \in {"wait", "failed"} /\ reconnect'.handle = NoHandle
    <3>1. CASE Idle
      BY <3>1, Idles
    <3>2. CASE reconnect' = [reconnect EXCEPT !.pc = "failed", !.handle = NoHandle]
      BY <1>1, <3>2 DEF ReconnectType
    <3> QED BY <1>3, <3>1, <3>2
  <2>2. stop' \in BOOLEAN /\ (stop => stop')
    <3>1. CASE stop' = stop
      BY <1>1, <3>1
    <3>2. CASE stop' = TRUE
      BY <3>2
    <3> QED BY <1>3, <3>1, <3>2
  <2> QED BY <1>1, <1>3, <2>1, <2>2, ProbeCloses
<1>4. CASE reconnect.pc = "failed" /\ mark_disconnected /\ Idle /\ UNCHANGED stop
  <2>1. reconnect.handle = NoHandle
    BY <1>4 DEF Inv, ClientOK
  <2> QED BY <1>1, <1>4, <2>1, ReconnectWaits
<1>5. \/ /\ reconnect.pc = "opened"
         /\ reconnect' = [reconnect EXCEPT !.pc = IF reconnect.recovering THEN "fresh" ELSE "adopt",
                                           !.uptime = board.uptime]
         /\ UNCHANGED <<stop, daemon, handles>>
      \/ /\ reconnect.pc = "opened" /\ Closed(reconnect.handle) /\ UNCHANGED daemon
         /\ UNCHANGED stop \/ stop' = TRUE
         /\ Idle \/ reconnect' = [reconnect EXCEPT !.pc = "failed", !.handle = NoHandle]
      \/ reconnect.pc = "failed" /\ mark_disconnected /\ Idle /\ UNCHANGED stop
  BY Zenon DEF probe_ready
<1> QED BY <1>2, <1>3, <1>4, <1>5

(* The check reads an uptime that only a rebooted board can have; the probe *)
(* that fails it is closed, and it is not the worker's handle.              *)
LEMMA CheckFreshInv ==
    ASSUME Inv, check_fresh
    PROVE  Inv'
<1>1. /\ UNCHANGED <<main, queues, parser, worker, heartbeat, command_lock, board>> /\ Process
      /\ UNCHANGED <<stop, daemon>> /\ reconnect.pc = "fresh"
  BY DEF check_fresh, ReconnectFrame
<1>2. /\ daemon.client = NoHandle /\ ~daemon.connected /\ (InSection => Leaving)
      /\ heartbeat.pc # "rpc" /\ reconnect.handle # NoHandle
  BY <1>1, AtWork DEF Inv, ClientOK
<1>3. CASE is_reboot_reconnect_fresh(daemon.pre_uptime, reconnect.uptime)
  <2>1. Goto("adopt") /\ UNCHANGED <<live, dead>>
    BY <1>3 DEF check_fresh
  <2>2. /\ reconnect' \in ReconnectType /\ reconnect'.pc = "adopt"
        /\ reconnect'.handle = reconnect.handle
    BY <2>1, GotoFacts DEF Inv
  <2>3. board.rebooted
    <3>1. daemon.pre_uptime # -1 /\ (~board.rebooted => daemon.pre_uptime <= reconnect.uptime)
      BY <1>1 DEF Inv, RecoveryOK
    <3>2. daemon.pre_uptime \in Int /\ reconnect.uptime \in Int
      BY DEF Inv, TypeOK, DaemonType, ReconnectType
    <3> QED BY <1>3, <3>1, <3>2 DEF is_reboot_reconnect_fresh
  <2>4. TypeOK' /\ RequestsOK'
    BY <1>1, <2>1, <2>2 DEF Inv, TypeOK, RequestsOK
  <2>5. LockOK' /\ ClientOK'
    BY <1>1, <1>2, <2>1, <2>2 DEF Inv, LockOK, ClientOK
  <2>6. HandlesAreOwned'
    BY <1>1, <2>1, <2>2 DEF Inv, HandlesAreOwned
  <2>7. RecoveryOK' /\ ShutdownOK'
    BY <1>1, <2>1, <2>2, <2>3 DEF Inv, RecoveryOK, RecoveryIsFresh, ShutdownOK
  <2> QED BY <2>4, <2>5, <2>6, <2>7 DEF Inv
<1>4. CASE ~is_reboot_reconnect_fresh(daemon.pre_uptime, reconnect.uptime)
  <2>1. ReconnectFrame /\ Idle /\ Closed(reconnect.handle)
    BY <1>4 DEF check_fresh
  <2>2. stop' \in BOOLEAN /\ (stop => stop')
    BY <1>1 DEF Inv, TypeOK
  <2> QED BY <1>1, <2>1, <2>2, Idles, ProbeCloses
<1> QED BY <1>3, <1>4

(* The probed handle becomes the client; there was none before. *)
LEMMA AdoptInv ==
    ASSUME Inv, adopt_probe
    PROVE  Inv'
<1>1. /\ UNCHANGED <<main, queues, parser, worker, heartbeat, command_lock, board>> /\ Process
      /\ UNCHANGED stop /\ reconnect.pc = "adopt" /\ StateLockFree /\ Idle
      /\ daemon' = [Disconnected EXCEPT !.client = reconnect.handle, !.connected = TRUE]
      /\ live' = live \ {daemon.client} /\ dead' = dead \ {daemon.client}
  BY DEF adopt_probe, ReconnectFrame, Closed
<1>2. /\ daemon.client = NoHandle /\ ~daemon.connected /\ (InSection => Leaving)
      /\ heartbeat.pc # "rpc" /\ reconnect.handle # NoHandle
  BY <1>1, AtWork DEF Inv, ClientOK
<1>3. /\ reconnect' \in ReconnectType /\ reconnect'.pc = "wait" /\ reconnect'.handle = NoHandle
      /\ ~reconnect'.recovering
  BY <1>1, Idles
<1>4. reconnect.handle \in Handles \cup {NoHandle}
  BY DEF Inv, TypeOK, ReconnectType
<1>5. /\ daemon' \in DaemonType /\ daemon'.client = reconnect.handle /\ daemon'.connected
      /\ daemon'.started_at = "none"
  <2>1. Disconnected.started_at = "none"
    BY DEF Disconnected
  <2> QED BY <1>1, <1>4, <2>1, DisconnectedType DEF DaemonType
<1>6. UNCHANGED <<live, dead>>
  <2>1. live' = live \ {0} /\ dead' = dead \ {0} /\ live \subseteq 1..3 /\ dead \subseteq 1..3
    BY <1>1, <1>2 DEF Inv, TypeOK
  <2> QED BY <2>1
<1>7. TypeOK' /\ RequestsOK'
  BY <1>1, <1>3, <1>5, <1>6 DEF Inv, TypeOK, RequestsOK
<1>8. LockOK' /\ ClientOK'
  BY <1>1, <1>2, <1>3, <1>5 DEF Inv, LockOK, ClientOK
<1>9. HandlesAreOwned'
  BY <1>1, <1>2, <1>3, <1>5, <1>6 DEF Inv, HandlesAreOwned, Nothing
<1>10. RecoveryOK'
  BY <1>1, <1>2, <1>3, <1>5, <1>6 DEF Inv, RecoveryOK, RecoveryIsFresh
<1>11. ShutdownOK'
  BY <1>1, <1>2, <1>3, <1>5 DEF Inv, ShutdownOK
<1> QED BY <1>7, <1>8, <1>9, <1>10, <1>11 DEF Inv

-----------------------------------------------------------------------------
(* The board *)

(* The board goes away: open handles die, and stay where they are. *)
LEMMA DetachedInv ==
    ASSUME Inv, BoardFrame, Detached, board' \in BoardType,
           board'.rebooted \/ (board'.uptime = board.uptime /\ board'.rebooted = board.rebooted)
    PROVE  Inv'
<1>1. /\ UNCHANGED <<main, stop, queues, parser, worker, reconnect, heartbeat, command_lock>>
      /\ Process
      /\ live' = {} /\ dead' = dead \cup live
      /\ daemon' = [daemon EXCEPT !.instance = IF @ = "current" THEN "gone" ELSE @]
  BY DEF BoardFrame, Detached
<1>2. /\ daemon' \in DaemonType /\ daemon'.client = daemon.client
      /\ daemon'.connected = daemon.connected /\ daemon'.started_at = daemon.started_at
      /\ daemon'.pre_uptime = daemon.pre_uptime
  BY <1>1 DEF Inv, TypeOK, DaemonType
<1>3. TypeOK' /\ RequestsOK'
  BY <1>1, <1>2 DEF Inv, TypeOK, RequestsOK
<1>4. LockOK' /\ ClientOK'
  BY <1>1, <1>2 DEF Inv, LockOK, ClientOK
<1>5. HandlesAreOwned'
  BY <1>1, <1>2 DEF Inv, HandlesAreOwned
<1>6. RecoveryOK'
  BY <1>1, <1>2 DEF Inv, RecoveryOK, RecoveryIsFresh
<1>7. ShutdownOK'
  BY <1>1, <1>2 DEF Inv, ShutdownOK
<1> QED BY <1>3, <1>4, <1>5, <1>6, <1>7 DEF Inv

(* Time passes for the board or for the recovery. *)
LEMMA PassesInv ==
    ASSUME Inv, BoardFrame, UNCHANGED handles, board' \in BoardType,
           board'.rebooted = board.rebooted, board.uptime <= board'.uptime,
           daemon' \in DaemonType, daemon'.client = daemon.client,
           daemon'.connected = daemon.connected, daemon'.pre_uptime = daemon.pre_uptime,
           \/ daemon'.started_at = daemon.started_at
           \/ daemon.started_at = "recent" /\ daemon'.started_at = "settled"
    PROVE  Inv'
<1>1. /\ UNCHANGED <<main, stop, queues, parser, worker, reconnect, heartbeat, command_lock>>
      /\ UNCHANGED <<live, dead>> /\ Process
  BY DEF BoardFrame
<1>2. TypeOK' /\ RequestsOK'
  BY <1>1 DEF Inv, TypeOK, RequestsOK
<1>3. LockOK' /\ ClientOK'
  BY <1>1 DEF Inv, LockOK, ClientOK
<1>4. HandlesAreOwned'
  BY <1>1 DEF Inv, HandlesAreOwned
<1>5. RecoveryOK'
  <2>1. /\ board.uptime \in Int /\ board'.uptime \in Int /\ worker.uptime \in Int
        /\ daemon.pre_uptime \in Int
    BY DEF Inv, TypeOK, BoardType, WorkerType, DaemonType
  <2> QED BY <1>1, <2>1 DEF Inv, RecoveryOK, RecoveryIsFresh
<1>6. ShutdownOK'
  BY <1>1 DEF Inv, ShutdownOK
<1> QED BY <1>2, <1>3, <1>4, <1>5, <1>6 DEF Inv

LEMMA BoardInv ==
    ASSUME Inv, Board
    PROVE  Inv'
<1>1. board \in BoardType /\ daemon \in DaemonType /\ BoardFrame /\ board.uptime <= board.uptime
  BY DEF Board, Inv, TypeOK, BoardType, Detach, Attach, BoardResets, EntersBootsel, RebootFails, Time
<1>2. CASE Detach
  <2>1. board' = [board EXCEPT !.attached = FALSE] /\ Detached
    BY <1>2 DEF Detach
  <2>2. board' \in BoardType /\ board'.uptime = board.uptime /\ board'.rebooted = board.rebooted
    BY <1>1, <2>1 DEF BoardType
  <2> QED BY <1>1, <2>1, <2>2, DetachedInv
<1>3. CASE Attach
  <2>1. board' = [board EXCEPT !.attached = TRUE] /\ UNCHANGED <<daemon, handles>>
    BY <1>3 DEF Attach
  <2>2. board' \in BoardType /\ board'.uptime = board.uptime /\ board'.rebooted = board.rebooted
    BY <1>1, <2>1 DEF BoardType
  <2> QED BY <1>1, <2>1, <2>2, PassesInv
<1>4. CASE BoardResets
  <2>1. /\ Detached
        /\ board' = [attached |-> FALSE, app |-> TRUE, uptime |-> 0, on |-> FALSE,
                     promised |-> "none", rebooted |-> TRUE]
    BY <1>4 DEF BoardResets
  <2>2. board' \in BoardType /\ board'.rebooted
    <3>1. TRUE \in BOOLEAN /\ FALSE \in BOOLEAN /\ 0 \in 0..MaxUptime
          /\ "none" \in {"none", "reboot", "bootsel"}
      OBVIOUS
    <3> QED BY <2>1, <3>1, Zenon DEF BoardType
  <2> QED BY <1>1, <2>1, <2>2, DetachedInv
<1>5. CASE EntersBootsel
  <2>1. /\ Detached
        /\ board' = [board EXCEPT !.attached = FALSE, !.app = FALSE, !.on = FALSE, !.promised = "none"]
    BY <1>5 DEF EntersBootsel
  <2>2. board' \in BoardType /\ board'.uptime = board.uptime /\ board'.rebooted = board.rebooted
    BY <1>1, <2>1 DEF BoardType
  <2> QED BY <1>1, <2>1, <2>2, DetachedInv
<1>6. CASE RebootFails
  <2>1. board' = [board EXCEPT !.promised = "none"] /\ UNCHANGED <<daemon, handles>>
    BY <1>6 DEF RebootFails
  <2>2. board' \in BoardType /\ board'.uptime = board.uptime /\ board'.rebooted = board.rebooted
    BY <1>1, <2>1 DEF BoardType
  <2> QED BY <1>1, <2>1, <2>2, PassesInv
<1>7. CASE Time
  <2>1. CASE board.uptime < MaxUptime /\ board' = [board EXCEPT !.uptime = @ + 1] /\ UNCHANGED daemon
    <3>1. board.uptime + 1 \in Uptimes /\ board.uptime <= board.uptime + 1
      BY <1>1, <2>1 DEF BoardType
    <3>2. /\ board' \in BoardType /\ board'.uptime = board.uptime + 1
          /\ board'.rebooted = board.rebooted
      BY <1>1, <2>1, <3>1 DEF BoardType
    <3> QED BY <1>1, <1>7, <2>1, <3>1, <3>2, PassesInv DEF Time
  <2>2. CASE /\ daemon.started_at = "recent" /\ UNCHANGED board
             /\ daemon' = [daemon EXCEPT !.started_at = "settled"]
    <3>1. /\ daemon' \in DaemonType /\ daemon'.client = daemon.client
          /\ daemon'.connected = daemon.connected /\ daemon'.pre_uptime = daemon.pre_uptime
          /\ daemon'.started_at = "settled"
      BY <1>1, <2>2 DEF DaemonType
    <3> QED BY <1>1, <1>7, <2>2, <3>1, PassesInv DEF Time
  <2> QED BY <1>7, <2>1, <2>2 DEF Time
<1> QED BY <1>2, <1>3, <1>4, <1>5, <1>6, <1>7 DEF Board


-----------------------------------------------------------------------------
(* The theorems *)

LEMMA InitInv ==
    ASSUME Init
    PROVE  Inv
<1>1. /\ main = "accept" /\ stop = FALSE /\ pending_lines = <<>> /\ requests = <<>>
      /\ accepted = 0 /\ answered = {} /\ parser = "top" /\ command_lock = {} /\ dead = {}
      /\ worker = [pc |-> "top", line |-> Sentinel, handle |-> 0, uptime |-> 0]
      /\ reconnect = [pc |-> "wait", handle |-> 0, uptime |-> 0, recovering |-> FALSE]
      /\ heartbeat = [pc |-> "wait", handle |-> 0]
  BY DEF Init
<1>2. /\ 0 \in 1..3 \cup {0} /\ 0 \in 0..MaxUptime /\ Sentinel \in Line \cup {Sentinel}
      /\ FALSE \in BOOLEAN /\ 1 \in 1..3 \cup {0} /\ 0 \in 0..MaxRequests
  OBVIOUS
<1>3. worker \in WorkerType /\ reconnect \in ReconnectType /\ heartbeat \in HeartbeatType
  BY <1>1, <1>2, Zenon DEF WorkerType, ReconnectType, HeartbeatType
<1>4. board \in BoardType /\ board.rebooted
  BY DEF Init, BoardType
<1>5. /\ daemon \in DaemonType /\ daemon.started_at = "none"
      /\ \/ daemon.client = 1 /\ daemon.connected /\ live = {1}
         \/ daemon.client = 0 /\ ~daemon.connected /\ live = {}
  <2>1. CASE daemon = [Disconnected EXCEPT !.client = 1, !.connected = TRUE] /\ live = {1}
    <3>1. Disconnected.started_at = "none"
      BY DEF Disconnected
    <3> QED BY <1>2, <2>1, <3>1, DisconnectedType DEF DaemonType
  <2>2. CASE daemon = Disconnected /\ live = {}
    BY <2>2, DisconnectedType DEF Disconnected
  <2> QED BY <2>1, <2>2 DEF Init
<1>6. TypeOK /\ RequestsOK
  <2>1. live \in SUBSET Handles /\ dead \in SUBSET Handles
    BY <1>1, <1>5
  <2>2. /\ <<>> \in Seq(Line \cup {Sentinel}) /\ <<>> \in Seq(Queued)
        /\ {} \in SUBSET Ids /\ {} \in SUBSET {"main", "worker", "heartbeat"}
    OBVIOUS
  <2>3. worker.pc = "top"
    BY <1>1
  <2>4. TypeOK
    BY <1>1, <1>2, <1>3, <1>4, <1>5, <2>1, <2>2, Zenon DEF TypeOK
  <2> QED BY <1>1, <2>2, <2>3, <2>4 DEF RequestsOK
<1>7. LockOK /\ ClientOK
  BY <1>1, <1>5 DEF LockOK, ClientOK
<1>8. HandlesAreOwned
  BY <1>1, <1>5 DEF HandlesAreOwned, Nothing
<1>9. RecoveryOK /\ ShutdownOK
  BY <1>1, <1>4, <1>5 DEF RecoveryOK, RecoveryIsFresh, ShutdownOK
<1> QED BY <1>6, <1>7, <1>8, <1>9 DEF Inv

LEMMA NextInv ==
    ASSUME Inv, [Next]_vars
    PROVE  Inv'
<1>1. CASE Main
  <2>1. CASE \E c \in Commands : accept(c)
    BY <2>1, AcceptInv
  <2>2. CASE \/ join("parser", "worker") \/ join("worker", "reconnect")
             \/ join("reconnect", "heartbeat") \/ join("heartbeat", "off")
    BY <2>2, JoinInv
  <2> QED BY <1>1, <2>1, <2>2, SignalInv, LeaveAcceptInv, ShutdownOffAllInv, ExitInv DEF Main
<1>2. CASE Worker
  <2>1. CASE enter_reboot_recovery
    BY <2>1, RecoverInv, CloseInv
  <2> QED BY <1>2, <2>1, WorkerGetInv, HandleRequestInv, DispatchInv, StatusInv, RequestRebootInv
          DEF Worker
<1>3. CASE Reconnect
  BY <1>3, ReconnectLoopInv, ReconnectOnceInv, AfterRebootInv, ReconnectProbeInv, ProbeReadyInv,
     CheckFreshInv, AdoptInv DEF Reconnect
<1>4. CASE UNCHANGED vars
  <2>1. TypeOK' /\ RequestsOK'
    BY <1>4 DEF vars, Inv, TypeOK, RequestsOK
  <2>2. LockOK' /\ ClientOK' /\ HandlesAreOwned'
    BY <1>4 DEF vars, Inv, LockOK, ClientOK, HandlesAreOwned, Process
  <2>3. RecoveryOK' /\ ShutdownOK'
    BY <1>4 DEF vars, Inv, RecoveryOK, RecoveryIsFresh, ShutdownOK
  <2> QED BY <2>1, <2>2, <2>3 DEF Inv
<1> QED BY <1>1, <1>2, <1>3, <1>4, ParserInv, HeartbeatInv, BoardInv DEF Next

(* The inductive invariant holds in every reachable state. *)
THEOREM Invariant == Spec => []Inv
<1>1. Init => Inv
  BY InitInv
<1>2. Inv /\ [Next]_vars => Inv'
  BY NextInv
<1> QED BY <1>1, <1>2, PTL DEF Spec

(* Whatever the threads and the board do, a command or heartbeat talks to   *)
(* the daemon's current client, which is open, and no serial handle leaks:  *)
(* neither _reconnect_loop(), which takes no _command_lock, nor             *)
(* _enter_reboot_recovery() or shutdown() closes one in use.                *)
THEOREM ConnectionsAreSafe == Spec => []ConnectionInv
<1>1. Inv => ConnectionInv
  <2>1. ASSUME Inv, Process, daemon.client # NoHandle
        PROVE  daemon.client \in live \cup dead
    BY <2>1 DEF Inv, HandlesAreOwned, Nothing
  <2>2. ASSUME Inv, Process
        PROVE  /\ worker.pc \in {"device", "status", "reboot", "recover"} => worker.handle = daemon.client
               /\ heartbeat.pc = "rpc" => heartbeat.handle = daemon.client
    BY <2>2 DEF Inv, ClientOK
  <2> QED BY <2>1, <2>2 DEF Inv, ConnectionInv, ClientIsStable
<1> QED BY <1>1, Invariant, PTL

(* The readiness check of a reboot recovery, which has only two uptimes to  *)
(* compare, passes no board that has not rebooted.                          *)
THEOREM RecoveriesAreFresh == Spec => []RecoveryIsFresh
<1>1. Inv => RecoveryIsFresh
  BY DEF Inv, RecoveryOK
<1> QED BY <1>1, Invariant, PTL

(* After the off-all of shutdown() no relay is switched on, though threads  *)
(* whose join timed out still run: none of them has the lock or the client. *)
THEOREM OffAllIsTheLastWord == Spec => OffAllIsLast
<1> DEFINE Last == ~board.on /\ main = "unlink" => ~board'.on
<1>1. ASSUME Inv, [Next]_vars, ~board.on, main = "unlink"
      PROVE  ~board'.on
  <2>1. ~InSection /\ board \in BoardType
    BY <1>1 DEF Inv, ShutdownOK, TypeOK
  <2>2. CASE Main
    <3>1. UNCHANGED board
      BY <1>1, <2>2 DEF Main, accept, handle_signal, leave_accept_loop, join, shutdown_off_all, exit
    <3> QED BY <1>1, <3>1
  <2>3. CASE parser_loop
    BY <1>1, <2>3 DEF parser_loop
  <2>4. CASE Worker
    <3>1. UNCHANGED board
      BY <2>1, <2>4 DEF Worker, worker_get, handle_request, dispatch_device_command,
            pre_reboot_status, request_reboot, enter_reboot_recovery
    <3> QED BY <1>1, <3>1
  <2>5. CASE Heartbeat
    BY <1>1, <2>5 DEF Heartbeat
  <2>6. CASE Reconnect
    <3>1. UNCHANGED board
      BY <2>6 DEF Reconnect, reconnect_loop, reconnect_once, reconnect_after_reboot_once,
            reconnect_probe, probe_ready, check_fresh, adopt_probe, ReconnectFrame
    <3> QED BY <1>1, <3>1
  <2>7. CASE Board
    <3>1. CASE BoardResets
      BY <3>1 DEF BoardResets
    <3>2. CASE Detach \/ Attach \/ EntersBootsel \/ RebootFails \/ Time
      BY <1>1, <2>1, <3>2 DEF Detach, Attach, EntersBootsel, RebootFails, Time, BoardType
    <3> QED BY <2>7, <3>1, <3>2 DEF Board
  <2>8. CASE UNCHANGED vars
    BY <1>1, <2>8 DEF vars
  <2> QED BY <1>1, <2>2, <2>3, <2>4, <2>5, <2>6, <2>7, <2>8 DEF Next
<1>2. Inv /\ [Next]_vars => [Last]_vars
  BY <1>1
<1> QED BY <1>2, Invariant, PTL DEF Spec, OffAllIsLast
=============================================================================
