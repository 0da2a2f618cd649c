------------------------------- MODULE Session -------------------------------
(* The interactive session (session.py): the main thread, which reads one    *)
(* command at a time, and the HeartbeatPoller thread, which share one        *)
(* RelayClient under _lock, and the board behind a USB port that may vanish  *)
(* and come back under another name.                                         *)
(*                                                                           *)
(* An exchange of the main thread is one step with the outcomes RpcService   *)
(* promises: a request that returned was executed and is a fence; one that   *)
(* raised may have been executed, or may be executed later (board.late).     *)
(* The poller's exchange is one step per attempt, because stop() joins it    *)
(* for a bounded time only.                                                  *)
EXTENDS Naturals, Sequences

CONSTANTS
    Ports,              \* names the host may give the board's port
    Attempts,           \* RelayClient.retries + 1
    JoinOutlasts,       \* attempts that fit into the join of HeartbeatPoller.stop
    ReconnectAttempts,  \* REBOOT_RECONNECT_ATTEMPTS (6 in the code)
    Pulses,             \* RELAY_COUNT, the pulses of the smoke sequence
    MaxUptime           \* uptimes saturate here

ASSUME SessionAssumption ==
    /\ Ports # {} /\ Ports \cap {"none", "serial", "plain"} = {}
    /\ Attempts \in Nat \ {0} /\ JoinOutlasts \in Nat
    /\ ReconnectAttempts \in Nat /\ Pulses \in Nat /\ MaxUptime \in Nat

VARIABLES
    main,        \* the main thread
    connected,   \* RelaySession.connected (and client is not None)
    port,        \* the port of the client or of the probe in progress
    handle,      \* that client's _serial: none, open, or dead
    usb_serial,  \* the serial number of the connected board is known
    saved,       \* preferred_port or preferred_serial
    heartbeat,   \* the poller thread
    stray,       \* a serial handle reopened by a poller of a closed client
    lock,        \* holder of RelaySession._lock
    board        \* the board

conn == <<connected, port, handle, usb_serial>>
vars == <<main, conn, saved, heartbeat, stray, lock, board>>

Probe == <<"read", "status">>

\* What each operator command asks of the board, in order, under _lock.  The
\* relay commands that only read, those that switch on and those that switch
\* off behave alike; smoke is run_smoke_sequence.
Script == [ read       |-> <<"read">>,
            on         |-> <<"on">>,
            off        |-> <<"off">>,
            smoke      |-> <<"read", "read", "status">>
                             \o [i \in 1..Pulses |-> "on"] \o <<"off">>,
            reboot     |-> <<"status", "reboot">>,
            bootsel    |-> <<"bootsel">>,
            disconnect |-> <<"status">>,
            exit       |-> <<"status">> ]

Unseen == [uptime |-> 0, on |-> FALSE]
Idle == [pc |-> "prompt", cmd |-> "none", force |-> FALSE, eof |-> FALSE,
         todo |-> <<>>, err |-> "ok", left |-> 0, pre |-> 0, seen |-> Unseen]
NoPoller == [pc |-> "none", stop |-> FALSE, try |-> 0, old |-> FALSE]

-------------------------------------------------------------------------------
(* The board and one exchange with it. *)

\* The board after it has executed c.  Requests are executed in order, so
\* nothing that was late before c is late afterwards.  A board that accepted
\* reboot or bootsel detaches later, as any board may.  `restarted' is history:
\* the board has restarted since the connected session last read its status.
Executed(b, c) ==
    [b EXCEPT !.on = IF c \in {"on", "off"} THEN c = "on" ELSE @,
              !.restarted = @ /\ ~(c = "status" /\ connected),
              !.late = FALSE]

\* Outcome e of request c through handle h of port p.
Usable(h, p) == board.attached /\ (h = "open" \/ (h = "none" /\ p = board.port))

Outcome(c, e, h, p) ==
    IF Usable(h, p)
    THEN \/ board' = Executed(board, c)
         \/ e # "ok" /\ board' = [board EXCEPT !.late = @ \/ c = "on"]
    ELSE e = "transport" /\ UNCHANGED board

\* "other" stands for protocol and device errors.
Results == {"ok", "timeout", "transport", "other"}

HandleAfter(e) == IF e = "transport" THEN "none" ELSE "open"

-------------------------------------------------------------------------------
(* The main thread: run, handle_line. *)

\* There is no client any more.
NoClient == connected' = FALSE /\ port' = "none" /\ handle' = "none" /\ usb_serial' = FALSE

\* The process ends: its poller is a daemon thread and its handles are closed.
Exit ==
    /\ main' = [Idle EXCEPT !.pc = "exited"]
    /\ NoClient
    /\ stray' = "none"
    /\ heartbeat' = NoPoller
    /\ lock' = "free"

Prompt == main' = Idle

\* A command is read while connected.  A forced close asks the board nothing.
\* At the end of the input run() calls _handle_exit(force=False).  Lines that
\* do not parse, or name no command, change nothing.
handle_line(c, force, eof) ==
    /\ main.pc = "prompt" /\ connected
    /\ force => c \in {"disconnect", "exit"} /\ ~eof
    /\ eof => c = "exit"
    /\ main' = [Idle EXCEPT !.cmd = c, !.force = force, !.eof = eof,
                            !.todo = IF force THEN <<>> ELSE Script[c],
                            !.pc = IF force THEN "stop" ELSE "lock"]
    /\ UNCHANGED <<conn, saved, heartbeat, stray, lock, board>>

exit_disconnected ==
    /\ main.pc = "prompt" /\ ~connected
    /\ Exit
    /\ UNCHANGED <<saved, board>>

\* _open and _probe_connection: ask a new client of port p for its identity
\* and status.
Open(m, p) ==
    /\ main' = [m EXCEPT !.pc = "lock", !.todo = Probe]
    /\ port' = p
    /\ handle' = "none"
    /\ UNCHANGED connected

\* _select_interactive_device: list the devices and ask for a choice.
Select(m) ==
    IF board.attached
    THEN /\ main' = [m EXCEPT !.pc = "select"]
         /\ port' = board.port /\ handle' = "none" /\ usb_serial' = FALSE
         /\ UNCHANGED connected
    ELSE Prompt /\ NoClient

Connecting(c) == [Idle EXCEPT !.cmd = c]

\* _connect_from_options with a port or a serial number.
connect_to(c, sel) ==
    /\ main.pc = c /\ ~connected
    /\ saved' = sel
    /\ \/ sel \in Ports /\ Open(Connecting(c), sel) /\ usb_serial' \in BOOLEAN
       \/ sel = "serial" /\ board.attached
          /\ Open(Connecting(c), board.port) /\ usb_serial' = TRUE
       \/ sel = "serial" /\ ~board.attached /\ Prompt /\ UNCHANGED conn
    /\ UNCHANGED <<heartbeat, stray, lock, board>>

\* _connect_from_options without a selector: the saved one, else the list.
connect_plain(c) ==
    /\ main.pc = c /\ ~connected
    /\ \/ c = "prompt" /\ saved \in Ports
          /\ Open([Connecting(c) EXCEPT !.cmd = "saved port"], saved)
          /\ usb_serial' \in BOOLEAN
       \/ c = "prompt" /\ saved = "serial" /\ board.attached
          /\ Open(Connecting(c), board.port) /\ usb_serial' = TRUE
       \/ c = "prompt" /\ saved = "serial" /\ ~board.attached /\ Select(Connecting(c))
       \/ (c = "start" \/ saved = "none") /\ Select(Connecting(c))
    /\ UNCHANGED <<saved, heartbeat, stray, lock, board>>

\* The operator picks a device of the list, or cancels; canceling the first
\* selection of a session ends it.
select ==
    /\ main.pc = "select"
    /\ \/ Open(main, port) /\ usb_serial' \in BOOLEAN
          /\ UNCHANGED <<heartbeat, stray, lock>>
       \/ main.cmd = "start" /\ Exit
       \/ main.cmd # "start" /\ Prompt /\ NoClient /\ UNCHANGED <<heartbeat, stray, lock>>
    /\ UNCHANGED <<saved, board>>

take_lock ==
    /\ main.pc = "lock" /\ lock = "free"
    /\ lock' = "main"
    /\ main' = [main EXCEPT !.pc = "rpc"]
    /\ UNCHANGED <<conn, saved, heartbeat, stray, board>>

\* What the main thread keeps of a successful request: the relays for the
\* close guard, the uptimes before and after a reboot.
Noted(m, c) ==
    CASE c = "status" /\ m.cmd \in {"disconnect", "exit"} -> [m EXCEPT !.seen.on = board.on]
      [] c = "status" /\ m.cmd = "reboot" -> [m EXCEPT !.seen.uptime = board.uptime]
      [] c = "reboot" -> [m EXCEPT !.pre = m.seen.uptime]
      [] OTHER -> m

\* One request of the script.  An exception ends the script; run_smoke_sequence
\* then sends off_all once more, and its exception replaces the first one.
Raised(m, e) ==
    IF m.cmd = "smoke" /\ m.err = "ok"
    THEN [m EXCEPT !.todo = <<"off">>, !.err = e]
    ELSE [m EXCEPT !.todo = <<>>, !.err = e]

request(e) ==
    LET c == Head(main.todo) IN
    /\ main.pc = "rpc" /\ main.todo # <<>>
    /\ Outcome(c, e, handle, port)
    /\ handle' = HandleAfter(e)
    /\ main' = IF e = "ok" THEN Noted([main EXCEPT !.todo = Tail(@)], c)
                           ELSE Raised(main, e)
    /\ UNCHANGED <<connected, port, usb_serial, saved, heartbeat, stray, lock>>

\* The block of _lock is left.
release_lock ==
    /\ main.pc = "rpc" /\ main.todo = <<>>
    /\ lock' = "free"
    /\ main' = [main EXCEPT !.pc = "done"]
    /\ UNCHANGED <<conn, saved, heartbeat, stray, board>>

\* _handle_relay_command, and what handle_line does with its exceptions.
relay_command_done ==
    /\ main.pc = "done" /\ main.cmd \in {"read", "on", "off", "smoke"}
    /\ \/ main.err = "interrupt" /\ Exit
       \/ main.err = "transport" /\ main' = [main EXCEPT !.pc = "stop"]
          /\ UNCHANGED <<conn, heartbeat, stray, lock>>
       \/ main.err \in {"ok", "timeout", "other"} /\ Prompt
          /\ UNCHANGED <<conn, heartbeat, stray, lock>>
    /\ UNCHANGED <<saved, board>>

\* _close_allowed without force: the relays are known to be off.
\* Slip: unknown counts as off.
close_allowed_OffUnlessKnown(m) == ~m.seen.on
close_allowed(m) == m.err = "ok" /\ ~m.seen.on

\* _handle_disconnect and _handle_exit; at the end of the input run() leaves
\* its loop although the close was refused.
close_checked ==
    /\ main.pc = "done" /\ main.cmd \in {"disconnect", "exit"}
    /\ \/ close_allowed(main) /\ main' = [main EXCEPT !.pc = "stop"]
          /\ UNCHANGED <<conn, heartbeat, stray, lock>>
       \/ ~close_allowed(main) /\ main.eof /\ Exit
       \/ ~close_allowed(main) /\ ~main.eof /\ Prompt
          /\ UNCHANGED <<conn, heartbeat, stray, lock>>
    /\ UNCHANGED <<saved, board>>

\* _handle_reboot and _handle_bootsel after the request: close, or raise.
maintenance_accepted ==
    /\ main.pc = "done" /\ main.cmd \in {"reboot", "bootsel"} /\ connected
    /\ main' = CASE main.err = "ok" -> [main EXCEPT !.pc = "stop"]
                 [] main.err = "transport" -> [main EXCEPT !.pc = "stop", !.cmd = "none"]
                 [] OTHER -> Idle
    /\ UNCHANGED <<conn, saved, heartbeat, stray, lock, board>>

\* _stop_heartbeat: set the event and join the thread ...
stop_heartbeat ==
    /\ main.pc = "stop"
    /\ heartbeat' = [heartbeat EXCEPT !.stop = TRUE]
    /\ main' = [main EXCEPT !.pc = "join"]
    /\ UNCHANGED <<conn, saved, stray, lock, board>>

\* ... for interval_s + 1 seconds, which outlasts JoinOutlasts attempts only.
\* Slip: the thread is not joined.
Joined_AtOnce == TRUE
Joined == heartbeat.pc = "none" \/ (heartbeat.pc = "rpc" /\ heartbeat.try > JoinOutlasts)

AfterClose(m) ==
    IF m.cmd = "reboot" /\ usb_serial
    THEN [m EXCEPT !.pc = "reconnect", !.left = ReconnectAttempts]
    ELSE Idle

\* The rest of _close_current and _enter_disconnected.
close_client ==
    /\ main.pc = "join" /\ Joined
    /\ IF main.cmd = "exit"
       THEN Exit
       ELSE /\ main' = AfterClose(main)
            /\ NoClient
            /\ heartbeat' = [heartbeat EXCEPT !.old = heartbeat.pc = "rpc"]
            /\ UNCHANGED <<stray, lock>>
    /\ UNCHANGED <<saved, board>>

\* One round of the reconnect loop of _handle_reboot.
\* Slip: a round without the board is not counted.
reboot_reconnect_Forever ==
    /\ main.pc = "reconnect"
    /\ main' = IF main.left = 0 THEN Idle ELSE main
    /\ UNCHANGED <<conn, saved, heartbeat, stray, lock, board>>

reboot_reconnect ==
    /\ main.pc = "reconnect"
    /\ \/ main.left = 0 /\ Prompt /\ UNCHANGED conn
       \/ main.left > 0 /\ ~board.attached
          /\ main' = [main EXCEPT !.left = @ - 1] /\ UNCHANGED conn
       \/ main.left > 0 /\ board.attached
          /\ Open([main EXCEPT !.left = @ - 1, !.err = "ok"], board.port)
          /\ usb_serial' = TRUE
    /\ UNCHANGED <<saved, heartbeat, stray, lock, board>>

\* Slip: an equal uptime counts as a restart.
is_reboot_reconnect_fresh_OrEqual(m) == m.seen.uptime <= m.pre
is_reboot_reconnect_fresh(m) == m.seen.uptime < m.pre

\* Slip: the poller that was stopped for the reboot is not started again.
start_heartbeat_Skipped ==
    IF main.cmd = "reboot" THEN UNCHANGED heartbeat ELSE heartbeat' = [NoPoller EXCEPT !.pc = "wait"]
start_heartbeat == heartbeat' = [NoPoller EXCEPT !.pc = "wait"]

\* _adopt_connection, with the poller it starts; or the probe is closed.
probe_done ==
    LET usable == main.err = "ok" /\ (main.cmd = "reboot" => is_reboot_reconnect_fresh(main)) IN
    /\ main.pc = "done" /\ ~connected
    /\ \/ /\ usable
          /\ connected' = TRUE
          /\ start_heartbeat
          /\ Prompt
          /\ UNCHANGED <<port, handle, usb_serial>>
       \/ /\ ~usable
          /\ \/ main.cmd = "reboot" /\ main' = [main EXCEPT !.pc = "reconnect"] /\ NoClient
             \/ main.cmd = "saved port" /\ Select(Connecting("prompt"))
             \/ main.cmd \in {"start", "prompt"} /\ Prompt /\ NoClient
          /\ UNCHANGED heartbeat
    /\ UNCHANGED <<saved, stray, lock, board>>

\* Control-C outside the prompt is not caught: the process ends, after the
\* finally block of run_smoke_sequence.
interrupt ==
    /\ main.pc \notin {"prompt", "exited"}
    /\ IF main.pc = "rpc" /\ main.cmd = "smoke" /\ main.err = "ok"
       THEN main' = Raised(main, "interrupt") /\ UNCHANGED <<conn, heartbeat, stray, lock>>
       ELSE Exit
    /\ UNCHANGED <<saved, board>>

-------------------------------------------------------------------------------
(* HeartbeatPoller._run *)

\* stop.wait(interval_s) ends.
\* Slip: no heartbeat is tried while the port is closed.
poll_OnlyOpen ==
    /\ heartbeat.pc = "wait" /\ (heartbeat.stop \/ handle = "open")
    /\ heartbeat' = IF heartbeat.stop THEN NoPoller ELSE [heartbeat EXCEPT !.pc = "lock"]
    /\ UNCHANGED <<main, conn, saved, stray, lock, board>>

poll ==
    /\ heartbeat.pc = "wait"
    /\ heartbeat' = IF heartbeat.stop THEN NoPoller ELSE [heartbeat EXCEPT !.pc = "lock"]
    /\ UNCHANGED <<main, conn, saved, stray, lock, board>>

poll_lock ==
    /\ heartbeat.pc = "lock" /\ lock = "free"
    /\ lock' = "heartbeat"
    /\ heartbeat' = [heartbeat EXCEPT !.pc = "rpc", !.try = 1]
    /\ UNCHANGED <<main, conn, saved, stray, board>>

\* One attempt of client.heartbeat().  The client may have been closed during
\* it (old): the attempt fails, and a further one opens the port again.
PollEnds == IF heartbeat.stop THEN NoPoller ELSE [NoPoller EXCEPT !.pc = "wait"]

heartbeat_rpc(e) ==
    LET again == e = "timeout" /\ heartbeat.try < Attempts IN
    /\ heartbeat.pc = "rpc"
    /\ IF heartbeat.old
       THEN /\ e \in {"timeout", "transport"}
            /\ stray' = IF again /\ board.attached THEN "open" ELSE stray
            /\ UNCHANGED <<handle, board>>
       ELSE /\ Outcome("read", e, handle, port)
            /\ handle' = HandleAfter(e)
            /\ UNCHANGED stray
    /\ heartbeat' = IF again THEN [heartbeat EXCEPT !.try = @ + 1] ELSE PollEnds
    /\ lock' = IF again THEN lock ELSE "free"
    /\ UNCHANGED <<main, connected, port, usb_serial, saved>>

-------------------------------------------------------------------------------
(* The environment. *)

\* An abandoned request is executed after all.
ExecuteLate ==
    /\ board.attached /\ board.late
    /\ \E more \in BOOLEAN : board' = [board EXCEPT !.on = TRUE, !.late = more]
    /\ UNCHANGED <<main, conn, saved, heartbeat, stray, lock>>

\* A pulse or the firmware's lease ends.
RelaysOff ==
    /\ board.on
    /\ board' = [board EXCEPT !.on = FALSE]
    /\ UNCHANGED <<main, conn, saved, heartbeat, stray, lock>>

\* The port vanishes; the board has restarted or, with power of its own, not.
Detach ==
    /\ board.attached
    /\ board' \in {[board EXCEPT !.attached = FALSE],
                   [attached |-> FALSE, port |-> board.port, on |-> FALSE, late |-> FALSE,
                    uptime |-> 0, restarted |-> TRUE]}
    /\ handle' = IF handle = "open" THEN "dead" ELSE handle
    /\ UNCHANGED <<main, connected, port, usb_serial, saved, heartbeat, stray, lock>>

Attach ==
    /\ ~board.attached
    /\ \E p \in Ports : board' = [board EXCEPT !.attached = TRUE, !.port = p]
    /\ UNCHANGED <<main, conn, saved, heartbeat, stray, lock>>

Tick ==
    /\ board.uptime < MaxUptime
    /\ board' = [board EXCEPT !.uptime = @ + 1]
    /\ UNCHANGED <<main, conn, saved, heartbeat, stray, lock>>

-------------------------------------------------------------------------------
Init ==
    /\ main = [Idle EXCEPT !.pc = "start"]
    /\ connected = FALSE /\ port = "none" /\ handle = "none" /\ usb_serial = FALSE
    /\ saved = "none"
    /\ heartbeat = NoPoller /\ stray = "none" /\ lock = "free"
    /\ board \in [attached : BOOLEAN, port : Ports, on : BOOLEAN, late : {FALSE},
                  uptime : 0..MaxUptime, restarted : {FALSE}]

Next ==
    \/ \E c \in DOMAIN Script, force, eof \in BOOLEAN : handle_line(c, force, eof)
    \/ exit_disconnected
    \/ \E c \in {"start", "prompt"}, sel \in Ports \cup {"serial"} : connect_to(c, sel)
    \/ \E c \in {"start", "prompt"} : connect_plain(c)
    \/ select
    \/ take_lock
    \/ \E e \in Results : request(e)
    \/ release_lock
    \/ relay_command_done
    \/ close_checked
    \/ maintenance_accepted
    \/ stop_heartbeat
    \/ close_client
    \/ reboot_reconnect
    \/ probe_done
    \/ interrupt
    \/ poll
    \/ poll_lock
    \/ \E e \in Results : heartbeat_rpc(e)
    \/ ExecuteLate
    \/ RelaysOff
    \/ Detach
    \/ Attach
    \/ Tick

\* Steps of the main thread that wait for nobody.
MainStep ==
    \/ \E e \in Results : request(e)
    \/ release_lock \/ relay_command_done \/ close_checked \/ maintenance_accepted
    \/ stop_heartbeat \/ close_client \/ reboot_reconnect \/ probe_done

\* Both threads run; a lock that is free again and again is obtained, because
\* each thread lets go of it for seconds (the operator, the poll interval).
Fairness ==
    /\ WF_vars(MainStep) /\ SF_vars(take_lock)
    /\ WF_vars(poll) /\ SF_vars(poll_lock) /\ WF_vars(\E e \in Results : heartbeat_rpc(e))

Spec == Init /\ [][Next]_vars /\ Fairness

-------------------------------------------------------------------------------
(* Properties *)

\* Types, and: a thread is in an exchange only while it holds _lock.
SessionTypeOK ==
    /\ main.pc \in {"start", "prompt", "select", "lock", "rpc", "done", "stop", "join",
                    "reconnect", "exited"}
    /\ heartbeat.pc \in {"none", "wait", "lock", "rpc"} /\ heartbeat.try \in 0..Attempts
    /\ handle \in {"none", "open", "dead"} /\ port \in Ports \cup {"none"}
    /\ saved \in Ports \cup {"none", "serial"}
    /\ (lock = "main") = (main.pc = "rpc")
    /\ (lock = "heartbeat") = (heartbeat.pc = "rpc")

\* session.py:672 _close_allowed: when disconnect or exit closes without force,
\* the relays are off at that moment, long after status was read, and no
\* request of the session that switches one on can still reach the board.
GuardedCloseIsSafe ==
    [][(main.pc = "join" /\ main.cmd \in {"disconnect", "exit"} /\ ~main.force /\ ~connected')
        => ~board.on /\ ~board.late]_vars

\* docs/host-session-mode.md:193 "Holds no open RelayClient": at the prompt of
\* a disconnected session no serial handle is open, not even one that the
\* poller of the closed client opened again.
DisconnectedIsSilent == main.pc = "prompt" /\ ~connected => handle = "none" /\ stray = "none"

\* Connected and at the prompt, the session has a poller for its client that
\* nobody has told to stop.
ConnectedIsPolled ==
    main.pc = "prompt" /\ connected =>
        heartbeat.pc # "none" /\ ~heartbeat.stop /\ ~heartbeat.old

\* Both: the threads exclude each other, and neither is missing.
SessionInv == SessionTypeOK /\ ConnectedIsPolled

\* _handle_reboot reconnects only to a board that has restarted since the
\* status it read before the reboot request, whatever is unplugged meanwhile.
ReconnectIsFresh ==
    [][main.cmd = "reboot" /\ main.pc = "done" /\ ~connected /\ connected'
        => board.restarted]_vars

\* Every command ends: the prompt comes back, the operator is asked for a
\* device, or the process exits.
Waiting == main.pc \in {"start", "prompt", "select", "exited"}
CommandEnds == ~Waiting ~> Waiting

\* While the session stays connected the lease is renewed again and again,
\* whatever commands fail and however often a heartbeat does.
KeepsPolling == <>[]connected => []<>(heartbeat.pc = "rpc")
===============================================================================
