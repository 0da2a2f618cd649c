------------------------------- MODULE Daemon -------------------------------
(***************************************************************************)
(* host/rp2350_relay_6ch/daemon.py: the daemon that owns one relay         *)
(* controller and serves it on a Unix socket.                              *)
(*                                                                         *)
(* Threads: main (accept loop, then shutdown), parser, worker, reconnect   *)
(* and heartbeat.  Worker, heartbeat and shutdown use the device under     *)
(* _command_lock; the reconnect thread does not take it, and reads         *)
(* connected, _reboot_recovery and its fields without _state_lock, so the  *)
(* writes of _enter_reboot_recovery() are separate steps here.             *)
(*                                                                         *)
(* A serial client is a handle: a number that is live while its USB device *)
(* is attached and dead afterwards.  The board is what the host can tell   *)
(* of it: attached or not, uptime, and whether the reboot that was         *)
(* accepted last has happened.  last_error, reconnect_attempts and the     *)
(* contents of device answers are left out.                                *)
(***************************************************************************)
EXTENDS Integers, Sequences

CONSTANTS
    MaxRequests,      \* bound: request lines accepted in a behaviour
    MaxUptime,        \* bound: uptime saturates here
    SelectorType,     \* "port" or "serial"
    InstanceReadable, \* the USB instance id can be read (Linux, /sys)
    WaitDevice,       \* --wait-device: may start disconnected
    LinkMayFail,      \* an exchange with an attached board may time out
    ConfigMayBreak,   \* the serial number may be ambiguous, the device of another kind
    RebootMayFail     \* the firmware may fail a reboot it accepted

ASSUME DaemonAssumption ==
    /\ {MaxRequests, MaxUptime} \subseteq Nat \ {0}
    /\ SelectorType \in {"port", "serial"}
    /\ {InstanceReadable, WaitDevice, LinkMayFail, ConfigMayBreak, RebootMayFail}
          \subseteq BOOLEAN

Ids      == 1..MaxRequests
Commands == {"invalid", "daemon-status", "device", "reboot", "bootsel"}
Line     == [id : Ids, command : Commands]
Sentinel == [id |-> 0, command |-> "stop"]

Handles  == 1..3      \* bound: serial handles open at once; 0 is None
NoHandle == 0
Uptimes  == 0..MaxUptime

VARIABLES
    main,           \* the main thread: accept loop, the thread it joins, off-all, exit
    stop,           \* the _stop event
    pending_lines,  \* main to parser
    requests,       \* parser to worker
    accepted,       \* request lines accepted so far
    answered,       \* the ids of the lines that got a response
    parser,         \* "top", "get" or "done"
    worker,
    reconnect,
    heartbeat,
    command_lock,   \* the thread that holds _command_lock, as a set
    daemon,         \* the connection state of RelayDaemon
    live, dead,     \* open handles, with the device still behind them or not
    board

queues  == <<pending_lines, requests, accepted, answered>>
handles == <<live, dead>>
vars    == <<main, stop, pending_lines, requests, accepted, answered, parser, worker,
             reconnect, heartbeat, command_lock, daemon, live, dead, board>>

DaemonType ==
    [client : Handles \cup {NoHandle}, connected : BOOLEAN, reboot_recovery : BOOLEAN,
     started_at : {"none", "recent", "settled"}, pre_uptime : Uptimes \cup {-1},
     instance : {"none", "current", "gone"}, missing_seen : BOOLEAN]

WorkerType ==
    [pc : {"top", "get", "ready", "device", "status", "reboot", "recover", "torn",
           "untimed", "close", "done"},
     line : Line \cup {Sentinel}, handle : Handles \cup {NoHandle}, uptime : Uptimes]

ReconnectType ==
    [pc : {"wait", "awake", "port", "after", "incomplete", "rport", "instance", "probe",
           "rprobe", "opened", "failed", "fresh", "adopt", "done"},
     handle : Handles \cup {NoHandle}, uptime : Uptimes, recovering : BOOLEAN]

HeartbeatType == [pc : {"wait", "ready", "rpc", "done"}, handle : Handles \cup {NoHandle}]

BoardType ==
    [attached : BOOLEAN, app : BOOLEAN, uptime : Uptimes, on : BOOLEAN,
     promised : {"none", "reboot", "bootsel"}, rebooted : BOOLEAN]

TypeOK ==
    /\ main \in {"accept", "parser", "worker", "reconnect", "heartbeat", "off", "unlink", "exited"}
    /\ stop \in BOOLEAN
    /\ pending_lines \in Seq(Line \cup {Sentinel})
    /\ requests \in Seq(Line \cup {Sentinel})
    /\ accepted \in 0..MaxRequests
    /\ answered \in SUBSET Ids
    /\ parser \in {"top", "get", "done"}
    /\ worker \in WorkerType /\ reconnect \in ReconnectType /\ heartbeat \in HeartbeatType
    /\ command_lock \in SUBSET {"main", "worker", "heartbeat"}
    /\ daemon \in DaemonType
    /\ live \in SUBSET Handles /\ dead \in SUBSET Handles
    /\ board \in BoardType

-----------------------------------------------------------------------------
(* The connection state *)

Disconnected ==
    [client |-> NoHandle, connected |-> FALSE, reboot_recovery |-> FALSE,
     started_at |-> "none", pre_uptime |-> -1, instance |-> "none", missing_seen |-> FALSE]

Closed(h) == live' = live \ {h} /\ dead' = dead \ {h}

(* _state_lock is held across steps only by _enter_reboot_recovery(). *)
StateLockFree == worker.pc \notin {"torn", "untimed"}

mark_disconnected ==
    /\ StateLockFree
    /\ Closed(daemon.client)
    /\ daemon' = Disconnected

(* An exchange on handle h: it may be answered, and it may fail. *)
Answered(h) == h \in live
MayFail(h)  == h \notin live \/ LinkMayFail

Answer(line) == answered' = answered \cup {line.id}

Process == main # "exited"

-----------------------------------------------------------------------------
(* Main thread: _accept_loop() and shutdown() *)

accept(command) ==
    /\ main = "accept" /\ accepted < MaxRequests
    /\ accepted' = accepted + 1
    /\ pending_lines' = Append(pending_lines, [id |-> accepted', command |-> command])
    /\ UNCHANGED <<main, stop, requests, answered, parser, worker, reconnect, heartbeat,
                   command_lock, daemon, handles, board>>

handle_signal ==
    /\ main = "accept" /\ ~stop /\ stop' = TRUE
    /\ UNCHANGED <<main, queues, parser, worker, reconnect, heartbeat, command_lock,
                   daemon, handles, board>>

leave_accept_loop ==
    /\ main = "accept" /\ stop
    /\ main' = "parser"
    /\ requests' = Append(requests, Sentinel)
    /\ pending_lines' = Append(pending_lines, Sentinel)
    /\ UNCHANGED <<stop, accepted, answered, parser, worker, reconnect, heartbeat,
                   command_lock, daemon, handles, board>>

(* A thread is in an exchange with the device or opens its port, waits for  *)
(* an exchange to end, or for a line.                                       *)
InExchange(t) ==
    CASE t = "parser"    -> FALSE
      [] t = "worker"    -> worker.pc \in {"device", "status", "reboot"}
      [] t = "heartbeat" -> heartbeat.pc = "rpc"
      [] t = "reconnect" -> reconnect.pc \in {"probe", "rprobe", "opened"}
AtCommandLock(t) ==
    (t = "worker" /\ worker.pc = "ready") \/ (t = "heartbeat" /\ heartbeat.pc = "ready")
AtEmptyQueue(t) ==
    \/ t = "parser" /\ parser = "get" /\ pending_lines = <<>>
    \/ t = "worker" /\ worker.pc = "get" /\ requests = <<>>
Blocked(t) ==
    \/ InExchange(t) \/ AtEmptyQueue(t)
    \/ AtCommandLock(t) /\ \E o \in command_lock \ {t} : InExchange(o)
Ended(t) ==
    CASE t = "parser"    -> parser = "done"
      [] t = "worker"    -> worker.pc = "done"
      [] t = "heartbeat" -> heartbeat.pc = "done"
      [] t = "reconnect" -> reconnect.pc = "done"

(* thread.join(timeout): the timeout is longer than anything a thread does *)
(* but an exchange with its retries, or a wait without end.                *)
join(t, next) ==
    /\ main = t
    /\ Ended(t) \/ Blocked(t)
    /\ main' = next
    /\ UNCHANGED <<stop, queues, parser, worker, reconnect, heartbeat, command_lock,
                   daemon, handles, board>>

(* Slip: the client is kept for the other threads to use. *)
shutdown_off_all_KeepsClient ==
    /\ main = "off" /\ command_lock = {}
    /\ daemon.client \in live
    /\ board' = [board EXCEPT !.on = FALSE]
    /\ main' = "unlink"
    /\ UNCHANGED <<stop, queues, parser, worker, reconnect, heartbeat, command_lock, daemon, handles>>

(* The last off-all, under _command_lock but not _state_lock; a failure is *)
(* logged only.                                                            *)
shutdown_off_all ==
    /\ main = "off" /\ command_lock = {}
    /\ IF daemon.client = NoHandle
       THEN UNCHANGED <<handles, board>>
       ELSE /\ Closed(daemon.client)
            /\ \/ Answered(daemon.client) /\ board' = [board EXCEPT !.on = FALSE]
               \/ MayFail(daemon.client) /\ UNCHANGED board
    /\ daemon' = [daemon EXCEPT !.client = NoHandle, !.connected = FALSE]
    /\ main' = "unlink"
    /\ UNCHANGED <<stop, queues, parser, worker, reconnect, heartbeat, command_lock>>

exit ==
    /\ main = "unlink" /\ main' = "exited"
    /\ live' = {} /\ dead' = {}
    /\ UNCHANGED <<stop, queues, parser, worker, reconnect, heartbeat, command_lock,
                   daemon, board>>

Main ==
    \/ \E c \in Commands : accept(c)
    \/ handle_signal \/ leave_accept_loop
    \/ join("parser", "worker") \/ join("worker", "reconnect")
    \/ join("reconnect", "heartbeat") \/ join("heartbeat", "off")
    \/ shutdown_off_all \/ exit

-----------------------------------------------------------------------------
(* _parser_loop() *)

parser_loop ==
    /\ Process
    /\ \/ /\ parser = "top"
          /\ parser' = (IF stop THEN "done" ELSE "get")
          /\ UNCHANGED queues
       \/ /\ parser = "get" /\ pending_lines # <<>>
          /\ pending_lines' = Tail(pending_lines)
          /\ LET line == Head(pending_lines) IN
             IF line = Sentinel
             THEN parser' = "done" /\ UNCHANGED <<requests, answered>>
             ELSE /\ parser' = "top"
                  /\ IF line.command = "invalid"
                     THEN Answer(line) /\ UNCHANGED requests
                     ELSE requests' = Append(requests, line) /\ UNCHANGED answered
          /\ UNCHANGED accepted
    /\ UNCHANGED <<main, stop, worker, reconnect, heartbeat, command_lock, daemon, handles, board>>

-----------------------------------------------------------------------------
(* _worker_loop() and _handle_request() *)

WorkerFrame == Process /\ UNCHANGED <<main, stop, pending_lines, accepted, parser, reconnect, heartbeat>>

(* The request is answered and _command_lock, if held, is released. *)
Respond ==
    /\ Answer(worker.line)
    /\ worker' = [worker EXCEPT !.pc = "top", !.line = Sentinel, !.handle = NoHandle, !.uptime = 0]
    /\ command_lock' = command_lock \ {"worker"}

worker_get ==
    /\ WorkerFrame
    /\ \/ /\ worker.pc = "top"
          /\ worker' = [worker EXCEPT !.pc = IF stop THEN "done" ELSE "get"]
          /\ UNCHANGED requests
       \/ /\ worker.pc = "get" /\ requests # <<>>
          /\ requests' = Tail(requests)
          /\ worker' = [worker EXCEPT !.line = Head(requests),
                            !.pc = IF Head(requests) = Sentinel THEN "done" ELSE "ready"]
    /\ UNCHANGED <<answered, command_lock, daemon, handles, board>>

(* Slip: a request for a disconnected board is dropped. *)
handle_request_Dropped ==
    /\ WorkerFrame
    /\ worker.pc = "ready" /\ command_lock = {}
    /\ worker' = [worker EXCEPT !.pc = IF daemon.connected THEN "device" ELSE "top",
                                !.handle = daemon.client]
    /\ UNCHANGED <<requests, answered, command_lock, daemon, handles, board>>

handle_request ==
    /\ WorkerFrame
    /\ worker.pc = "ready"
    /\ \/ /\ worker.line.command = "daemon-status"
          /\ Respond
       \/ /\ worker.line.command # "daemon-status" /\ command_lock = {}
          /\ daemon.client = NoHandle \/ ~daemon.connected
          /\ Respond
       \/ /\ worker.line.command # "daemon-status" /\ command_lock = {}
          /\ daemon.client # NoHandle /\ daemon.connected
          /\ command_lock' = {"worker"}
          /\ worker' = [worker EXCEPT !.handle = daemon.client,
                            !.pc = IF worker.line.command = "device" THEN "device" ELSE "status"]
          /\ UNCHANGED answered
    /\ UNCHANGED <<requests, daemon, handles, board>>

(* The exchange ends with a RelayTransportError.  The board may have done   *)
(* what it was asked, b, all the same.                                      *)
TransportError(b) ==
    /\ MayFail(worker.handle)
    /\ mark_disconnected
    /\ Respond
    /\ board' \in {board} \cup (IF Answered(worker.handle) THEN {b} ELSE {})

(* The device or its answer is in error: RelayDeviceError or                *)
(* RelayProtocolError, which leave the connection alone.                    *)
OtherError ==
    /\ Answered(worker.handle)
    /\ Respond
    /\ UNCHANGED <<daemon, handles, board>>

dispatch_device_command ==
    /\ WorkerFrame /\ worker.pc = "device"
    /\ LET done == [board EXCEPT !.on = TRUE] IN
       \/ /\ Answered(worker.handle)
          /\ board' = done
          /\ Respond
          /\ UNCHANGED <<daemon, handles>>
       \/ TransportError(done)
       \/ OtherError
    /\ UNCHANGED requests

(* The status request that precedes a reboot or bootsel request. *)
pre_reboot_status ==
    /\ WorkerFrame /\ worker.pc = "status"
    /\ \/ /\ Answered(worker.handle)
          /\ worker' = [worker EXCEPT !.pc = "reboot", !.uptime = board.uptime]
          /\ UNCHANGED <<answered, command_lock, daemon, handles, board>>
       \/ TransportError(board)
       \/ OtherError
    /\ UNCHANGED requests

request_reboot ==
    /\ WorkerFrame /\ worker.pc = "reboot"
    /\ LET done == [board EXCEPT !.promised = worker.line.command] IN
       \/ /\ Answered(worker.handle) /\ worker.line.command = "bootsel"
          /\ board' = done
          /\ mark_disconnected
          /\ Respond
       \/ /\ Answered(worker.handle) /\ worker.line.command = "reboot"
          /\ board' = [done EXCEPT !.rebooted = FALSE]
          /\ worker' = [worker EXCEPT !.pc = "recover"]
          /\ UNCHANGED <<answered, command_lock, daemon, handles>>
       \/ TransportError(done)
       \/ OtherError
    /\ UNCHANGED requests

(* The USB instance id of the configured port, as the board has it now. *)
InstanceId == IF InstanceReadable /\ board.attached THEN "current" ELSE "none"

(* The assignments of _enter_reboot_recovery(), as the reconnect thread can *)
(* see them: connected, _reboot_recovery, the other fields, then the close. *)
enter_reboot_recovery ==
    /\ WorkerFrame
    /\ \/ /\ worker.pc = "recover"
          /\ worker' = [worker EXCEPT !.pc = "torn"]
          /\ daemon' = [daemon EXCEPT !.client = NoHandle, !.connected = FALSE, !.instance = InstanceId]
          /\ UNCHANGED <<answered, command_lock, handles>>
       \/ /\ worker.pc = "torn"
          /\ worker' = [worker EXCEPT !.pc = "untimed"]
          /\ daemon' = [daemon EXCEPT !.reboot_recovery = TRUE]
          /\ UNCHANGED <<answered, command_lock, handles>>
       \/ /\ worker.pc = "untimed"
          /\ worker' = [worker EXCEPT !.pc = "close"]
          /\ daemon' = [daemon EXCEPT !.started_at = "recent", !.pre_uptime = worker.uptime,
                                      !.missing_seen = FALSE]
          /\ UNCHANGED <<answered, command_lock, handles>>
       \/ /\ worker.pc = "close"
          /\ Closed(worker.handle)
          /\ Respond
          /\ UNCHANGED daemon
    /\ UNCHANGED <<requests, board>>

Worker ==
    \/ worker_get \/ handle_request \/ dispatch_device_command
    \/ pre_reboot_status \/ request_reboot \/ enter_reboot_recovery

-----------------------------------------------------------------------------
(* _heartbeat_loop() and _heartbeat_once() *)

(* Slip: the lock is not released after a failure. *)
Heartbeat_KeepsLock ==
    /\ Process
    /\ \/ /\ heartbeat.pc = "wait"
          /\ heartbeat' = [heartbeat EXCEPT !.pc = IF stop THEN "done" ELSE "ready"]
          /\ UNCHANGED <<command_lock, daemon, handles>>
       \/ /\ heartbeat.pc = "ready" /\ command_lock = {} /\ daemon.connected
          /\ heartbeat' = [pc |-> "rpc", handle |-> daemon.client]
          /\ command_lock' = {"heartbeat"}
          /\ UNCHANGED <<daemon, handles>>
       \/ /\ heartbeat.pc = "rpc" /\ MayFail(heartbeat.handle)
          /\ heartbeat' = [pc |-> "wait", handle |-> NoHandle]
          /\ mark_disconnected
          /\ UNCHANGED command_lock
    /\ UNCHANGED <<main, stop, queues, parser, worker, reconnect, board>>

Heartbeat ==
    /\ Process
    /\ \/ /\ heartbeat.pc = "wait"
          /\ heartbeat' = [heartbeat EXCEPT !.pc = IF stop THEN "done" ELSE "ready"]
          /\ UNCHANGED <<command_lock, daemon, handles>>
       \/ /\ heartbeat.pc = "ready" /\ command_lock = {}
          /\ IF daemon.client = NoHandle \/ ~daemon.connected
             THEN /\ heartbeat' = [heartbeat EXCEPT !.pc = "wait"]
                  /\ UNCHANGED command_lock
             ELSE /\ heartbeat' = [pc |-> "rpc", handle |-> daemon.client]
                  /\ command_lock' = {"heartbeat"}
          /\ UNCHANGED <<daemon, handles>>
       \/ /\ heartbeat.pc = "rpc"
          /\ heartbeat' = [pc |-> "wait", handle |-> NoHandle]
          /\ command_lock' = {}
          /\ \/ Answered(heartbeat.handle) /\ UNCHANGED <<daemon, handles>>
             \/ MayFail(heartbeat.handle) /\ mark_disconnected
    /\ UNCHANGED <<main, stop, queues, parser, worker, reconnect, board>>

-----------------------------------------------------------------------------
(* _reconnect_loop() *)

ReconnectFrame ==
    Process /\ UNCHANGED <<main, queues, parser, worker, heartbeat, command_lock, board>>

Goto(pc) == reconnect' = [reconnect EXCEPT !.pc = pc]
Idle     == reconnect' = [pc |-> "wait", handle |-> NoHandle, uptime |-> 0, recovering |-> FALSE]

(* The loop reads connected, then _reboot_recovery, without a lock. *)
reconnect_loop ==
    /\ ReconnectFrame
    /\ \/ reconnect.pc = "wait" /\ stop /\ Goto("done")
       \/ reconnect.pc = "wait" /\ ~stop /\ ~daemon.connected /\ Goto("awake")
       \/ /\ reconnect.pc = "awake"
          /\ Goto(IF daemon.reboot_recovery THEN "after" ELSE "port")
    /\ UNCHANGED <<stop, daemon, handles>>

(* _reconnect_candidate_port(): the selector does not find the device. *)
DeviceMissing == SelectorType = "serial" /\ ~board.attached

fail_reconnect == stop' = TRUE /\ Idle /\ UNCHANGED <<daemon, handles>>

SelectorFails == ConfigMayBreak /\ SelectorType = "serial" /\ fail_reconnect

reconnect_once ==
    /\ ReconnectFrame
    /\ reconnect.pc = "port"
    /\ \/ DeviceMissing /\ mark_disconnected /\ Idle /\ UNCHANGED stop
       \/ ~DeviceMissing /\ Goto("probe") /\ UNCHANGED <<stop, daemon, handles>>
       \/ SelectorFails

(* The checks of _reconnect_after_reboot_once() before it opens the port. *)
reconnect_after_reboot_once ==
    /\ ReconnectFrame
    /\ \/ /\ reconnect.pc = "after"
          /\ \/ daemon.started_at = "none" /\ Goto("incomplete")
             \/ daemon.started_at = "recent" /\ Idle
             \/ daemon.started_at = "settled" /\ Goto("rport")
          /\ UNCHANGED <<stop, daemon, handles>>
       \/ /\ reconnect.pc = "incomplete"
          /\ mark_disconnected /\ Idle
          /\ UNCHANGED stop
       \/ /\ reconnect.pc = "rport"
          /\ \/ DeviceMissing /\ Idle /\ UNCHANGED <<stop, daemon, handles>>
             \/ ~DeviceMissing /\ Goto("instance") /\ UNCHANGED <<stop, daemon, handles>>
             \/ SelectorFails
       \/ /\ reconnect.pc = "instance"
          /\ daemon' = [daemon EXCEPT !.missing_seen = @ \/ InstanceId = "none"]
          /\ IF daemon.instance # "none" /\ InstanceId = daemon.instance /\ ~daemon'.missing_seen
             THEN Idle ELSE Goto("rprobe")
          /\ UNCHANGED <<stop, handles>>

NewHandle == CHOOSE h \in Handles : h \notin live \cup dead

(* _reconnect_probe() opens the port; when it cannot, a failure in reboot   *)
(* recovery keeps the recovery going.                                       *)
reconnect_probe ==
    /\ ReconnectFrame
    /\ reconnect.pc \in {"probe", "rprobe"}
    /\ \/ /\ board.attached
          /\ live' = live \cup {NewHandle}
          /\ reconnect' = [pc |-> "opened", handle |-> NewHandle, uptime |-> 0,
                           recovering |-> reconnect.pc = "rprobe"]
          /\ UNCHANGED <<daemon, dead>>
       \/ /\ ~board.attached \/ LinkMayFail
          /\ Idle
          /\ IF reconnect.pc = "probe" THEN mark_disconnected ELSE UNCHANGED <<daemon, handles>>
    /\ UNCHANGED stop

(* Slip: the client of a probe that fails is not closed. *)
probe_ready_LeavesOpen ==
    /\ ReconnectFrame
    /\ reconnect.pc = "opened"
    /\ \/ /\ Answered(reconnect.handle)
          /\ reconnect' = [reconnect EXCEPT !.pc = IF reconnect.recovering THEN "fresh" ELSE "adopt",
                                            !.uptime = board.uptime]
       \/ MayFail(reconnect.handle) /\ Idle
    /\ UNCHANGED <<stop, daemon, handles>>

(* _probe_ready() asks for identity and status on the new handle.  When one *)
(* fails it closes the handle, and the failure is recorded after that; an   *)
(* identity that does not fit ends the daemon.                              *)
probe_ready ==
    /\ ReconnectFrame
    /\ \/ /\ reconnect.pc = "opened" /\ Answered(reconnect.handle)
          /\ reconnect' = [reconnect EXCEPT !.pc = IF reconnect.recovering THEN "fresh" ELSE "adopt",
                                            !.uptime = board.uptime]
          /\ UNCHANGED <<stop, daemon, handles>>
       \/ /\ reconnect.pc = "opened" /\ MayFail(reconnect.handle)
          /\ Closed(reconnect.handle)
          /\ IF reconnect.recovering THEN Idle
             ELSE reconnect' = [reconnect EXCEPT !.pc = "failed", !.handle = NoHandle]
          /\ UNCHANGED <<stop, daemon>>
       \/ /\ reconnect.pc = "opened" /\ ConfigMayBreak /\ Answered(reconnect.handle)
          /\ Closed(reconnect.handle)
          /\ stop' = TRUE /\ Idle
          /\ UNCHANGED daemon
       \/ /\ reconnect.pc = "failed"
          /\ mark_disconnected /\ Idle
          /\ UNCHANGED stop

(* Slip: an unchanged uptime passes. *)
is_reboot_reconnect_fresh_OrEqual(pre, post) == pre = -1 \/ post <= pre

is_reboot_reconnect_fresh(pre, post) == pre = -1 \/ post < pre

check_fresh ==
    /\ ReconnectFrame
    /\ reconnect.pc = "fresh"
    /\ IF is_reboot_reconnect_fresh(daemon.pre_uptime, reconnect.uptime)
       THEN Goto("adopt") /\ UNCHANGED handles
       ELSE Idle /\ Closed(reconnect.handle)
    /\ UNCHANGED <<stop, daemon>>

(* Slip: connected is not set. *)
adopt_probe_NotConnected ==
    /\ ReconnectFrame
    /\ reconnect.pc = "adopt" /\ StateLockFree
    /\ daemon' = [Disconnected EXCEPT !.client = reconnect.handle]
    /\ Closed(daemon.client)
    /\ Idle
    /\ UNCHANGED stop

adopt_probe ==
    /\ ReconnectFrame
    /\ reconnect.pc = "adopt" /\ StateLockFree
    /\ daemon' = [Disconnected EXCEPT !.client = reconnect.handle, !.connected = TRUE]
    /\ Closed(daemon.client)
    /\ Idle
    /\ UNCHANGED stop

Reconnect ==
    \/ reconnect_loop \/ reconnect_once \/ reconnect_after_reboot_once
    \/ reconnect_probe \/ probe_ready \/ check_fresh \/ adopt_probe

-----------------------------------------------------------------------------
(* The board, its USB connection and time *)

BoardFrame == Process /\ UNCHANGED <<main, stop, queues, parser, worker, reconnect, heartbeat, command_lock>>

Detached ==
    /\ live' = {} /\ dead' = dead \cup live
    /\ daemon' = [daemon EXCEPT !.instance = IF @ = "current" THEN "gone" ELSE @]

Detach ==
    /\ BoardFrame /\ board.attached
    /\ board' = [board EXCEPT !.attached = FALSE]
    /\ Detached

Attach ==
    /\ BoardFrame /\ ~board.attached /\ board.app
    /\ board' = [board EXCEPT !.attached = TRUE]
    /\ UNCHANGED <<daemon, handles>>

(* The promised reboot, or a reset the host did not ask for. *)
BoardResets ==
    /\ BoardFrame
    /\ board' = [attached |-> FALSE, app |-> TRUE, uptime |-> 0, on |-> FALSE,
                 promised |-> "none", rebooted |-> TRUE]
    /\ Detached

EntersBootsel ==
    /\ BoardFrame /\ board.promised = "bootsel"
    /\ board' = [board EXCEPT !.attached = FALSE, !.app = FALSE, !.on = FALSE, !.promised = "none"]
    /\ Detached

RebootFails ==
    /\ BoardFrame /\ RebootMayFail /\ board.promised # "none"
    /\ board' = [board EXCEPT !.promised = "none"]
    /\ UNCHANGED <<daemon, handles>>

Time ==
    /\ BoardFrame
    /\ \/ /\ board.uptime < MaxUptime
          /\ board' = [board EXCEPT !.uptime = @ + 1]
          /\ UNCHANGED daemon
       \/ /\ daemon.started_at = "recent"
          /\ daemon' = [daemon EXCEPT !.started_at = "settled"]
          /\ UNCHANGED board
    /\ UNCHANGED handles

Board == Detach \/ Attach \/ BoardResets \/ EntersBootsel \/ RebootFails \/ Time

-----------------------------------------------------------------------------

(* _initial_connect() is over: the device was found ready or, with          *)
(* --wait-device, the daemon starts disconnected.                           *)
Init ==
    /\ main = "accept" /\ stop = FALSE
    /\ pending_lines = <<>> /\ requests = <<>> /\ accepted = 0 /\ answered = {}
    /\ parser = "top"
    /\ worker = [pc |-> "top", line |-> Sentinel, handle |-> NoHandle, uptime |-> 0]
    /\ reconnect = [pc |-> "wait", handle |-> NoHandle, uptime |-> 0, recovering |-> FALSE]
    /\ heartbeat = [pc |-> "wait", handle |-> NoHandle]
    /\ command_lock = {} /\ dead = {}
    /\ board \in [attached : BOOLEAN, app : {TRUE}, uptime : Uptimes, on : {FALSE},
                  promised : {"none"}, rebooted : {TRUE}]
    /\ \/ /\ board.attached
          /\ daemon = [Disconnected EXCEPT !.client = 1, !.connected = TRUE]
          /\ live = {1}
       \/ WaitDevice /\ daemon = Disconnected /\ live = {}

Next == Main \/ parser_loop \/ Worker \/ Heartbeat \/ Reconnect \/ Board

Spec == Init /\ [][Next]_vars

(* Exchanges end (every one has a timeout), queues are served, the waits of *)
(* the loops end and a promised reboot takes place.  _command_lock is free  *)
(* during the heartbeat interval, so the worker gets it sooner or later.    *)
(* Nobody has to call, to unplug or to plug the board.                      *)
Fairness ==
    /\ WF_vars(parser_loop) /\ WF_vars(Worker) /\ SF_vars(handle_request)
    /\ WF_vars(Heartbeat) /\ WF_vars(Reconnect)
    /\ WF_vars(leave_accept_loop) /\ SF_vars(shutdown_off_all) /\ WF_vars(exit)
    /\ \A t \in {"parser", "worker", "reconnect", "heartbeat"} :
          WF_vars(\E next \in {"worker", "reconnect", "heartbeat", "off"} : join(t, next) /\ Main)
    /\ WF_vars(Time)
    /\ WF_vars(board.promised = "reboot" /\ BoardResets)

FairSpec == Spec /\ Fairness

-----------------------------------------------------------------------------
(* Properties *)

Nothing == {NoHandle}

(* A thread that talks to the board uses the daemon's current client, and   *)
(* that client is open: the reconnect thread, which takes no _command_lock, *)
(* never replaces or closes it under a command or heartbeat.                *)
ClientIsStable == Process =>
    /\ worker.pc \in {"device", "status", "reboot", "recover"} => worker.handle = daemon.client
    /\ heartbeat.pc = "rpc" => heartbeat.handle = daemon.client
    /\ daemon.client # NoHandle => daemon.client \in live \cup dead

(* Serial handles do not leak: an open one is the current client, the one   *)
(* being probed, or the one _enter_reboot_recovery() is about to close.     *)
HandlesAreOwned ==
    Process => live \cup dead =
        {daemon.client, reconnect.handle,
         IF worker.pc \in {"torn", "untimed", "close"} THEN worker.handle ELSE NoHandle} \ Nothing

(* Both, with the types. *)
ConnectionInv == TypeOK /\ ClientIsStable /\ HandlesAreOwned

(* shutdown()'s off-all is the last word: no request that was still queued  *)
(* or in progress switches a relay on after it, even when a join timed out. *)
OffAllIsLast ==
    [][~board.on /\ main = "unlink" => ~board'.on]_vars

(* The readiness check of a reboot recovery passes only a board that has    *)
(* rebooted since the reboot was accepted.                                  *)
RecoveryIsFresh ==
    reconnect.pc = "adopt" /\ reconnect.recovering => board.rebooted

(* Every accepted request line is answered, unless the daemon stops.        *)
LinesAreAnswered ==
    \A i \in Ids : accepted >= i ~> stop \/ i \in answered

(* A daemon told to stop does exit: no thread it joins and no lock it takes *)
(* holds it up for ever.                                                    *)
ShutdownEnds == stop ~> main = "exited"

(* Once the board stays attached, a daemon that is not in reboot recovery   *)
(* is connected again and again.                                            *)
ReconnectsToBoard ==
    <>[](board.attached /\ ~stop /\ ~daemon.reboot_recovery) => []<>daemon.connected

(* docs/host-daemon-mode.md: "Reconnect after serial transport failure,     *)
(* firmware reboot, USB reset, or device renumbering".                      *)
ReconnectsAfterReboot ==
    <>[](board.attached /\ ~stop) => []<>daemon.connected

=============================================================================
