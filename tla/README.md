# Formal model of rp2350-relay-6ch

TLA+ specifications of the six-channel relay controller: the Zephyr firmware in
`firmware/src` and the host software in `host/rp2350_relay_6ch` (client library,
daemon, `relayctl`, interactive session, command-line tools).  TLC checks small
instances; TLAPS proves the safety properties of the firmware, the client library, the
daemon, its socket and the session for every instance, and that the client library
implements its abstract service.  `PROJECT.json` maps each definition to its source lines and lists
the runs, hazards, findings and theorems.

## 1. Inventory

| Part | State it keeps | Operations | Interacts through |
|---|---|---|---|
| relay control (`relay.c`) | state and pulse masks, GPIO outputs, lease flag, reboot flags, one pulse work per channel, three communication-loss works | set, set_all, off_all, pulse, renew (heartbeat); handlers for pulse end, lease end, reboot warning, reboot | `relay_lock`, system workqueue, health model |
| health model (`health.c`) | readiness facts, reason bits, published masks, derived state and primary reason | one setter per fact, snapshot | its own mutex |
| management protocol (`relay_mgmt.c`) | two delayed works, counters | one handler per command; reboot and bootsel work handlers | relay API, health model, workqueue |
| shell (`relay_shell.c`) | none | same relay API from another thread | relay API |
| watchdog (`watchdog_supervisor.c`) | enabled, healthy, counters | start, feed handler | health snapshot, workqueue, hardware |
| boot (`main.c`, `reboot.c`) | none | init order, failed-init reset, USB detach and settle sleep | all of the above |
| indicators (`indicator.c`) | RGB, buzzer and OLED state, render work | publish, record command, render, shut down | workqueue, health snapshot |
| host daemon (`daemon.py`) | client, connected, reboot-recovery fields, two queues, stop event | five threads: accept/shutdown, parser, worker, reconnect, heartbeat | `_command_lock`, `_state_lock`, queues, serial port |
| RPC client and transport (`client.py`, `transport.py`, `smp.py`) | next sequence number, serial handle | one request at a time, retries on timeout, close | serial port |
| interactive session (`session.py`) | client, connected flag, saved selector, heartbeat thread | connect, relay commands, smoke, reboot, bootsel, guarded disconnect and exit | `_lock`, RPC client |
| daemon socket, daemon client, relayctl (`daemon.py`, `daemon_client.py`, `relayctl.py`) | the socket path, accepted requests, one connection per call | claim, serve and give up the path; connect, request, smoke | Unix socket |
| command line, configuration, discovery (`cli.py`, `config.py`, `discovery.py`, `exceptions.py`) | none beyond a call | parse, check, translate errors; resolve an instance; select a device | all of the above |
| smoke-test tool (`tools/usb_rpc_smoke.py`) | none beyond a call | its own CBOR and SMP codec | serial port |

What is hard here:

* **Firmware threads.**  The workqueue thread is cooperative and runs one handler
  at a time; the SMP and shell threads are preemptible.  Masks are copied under
  `relay_lock` and published after the unlock.  Delayable work can at the same
  time be delayed, queued and running, and `k_work_schedule`,
  `k_work_reschedule` and `k_work_cancel_delayable` treat those states differently.
* **Failure half way.**  A GPIO write can fail at any channel; scheduling can
  fail; the all-off before a promised reboot can fail.
* **Timeouts.**  The communication-loss lease, the autonomous reboot with its
  warning, the watchdog, the daemon's exchanges and joins.
* **Resets.**  Any of four causes, at any point of any thread.
* **The serial link.**  Answers may be late, lost or cut; a request given up may
  still be executed; sequence numbers wrap; the port vanishes and comes back
  under another name.
* **The socket path.**  It outlives a killed daemon, and every daemon that ends
  removes it.
* **Layers.**  Four layers check the same arguments, three translate the same
  errors, three sources of configuration name the same device.
* **Daemon threads.**  The reconnect thread takes no `_command_lock` and reads
  shared fields without `_state_lock`.

Correctness, per part: a pulse always ends, once; no relay is on without a lease
that will run out; a silent host's relays go off; a reported reboot comes and a
coming reboot is reported; the watchdog is starved by fatal faults and by
nothing else; the daemon never closes a client in use, answers every line, exits
when told and reconnects; an answer belongs to the call that returns it and a
confirmed off is off; a guarded close leaves the relays off; a daemon that serves
is reachable; both tools report the first cause of a failure; daemon and
`relayctl` agree on the instance they mean.

## 2. Modules

| Module | Models |
|---|---|
| `KWork` | Zephyr delayable work on one queue, as the firmware uses it (external) |
| `Health` | `health.c` as functions of the model record (each setter holds one lock) |
| `Relay` | all of `relay.c`, with the calling threads and the workqueue |
| `Firmware` | `Relay` with `main.c`, host reboot and bootsel, and the watchdog |
| `RelayProofs` | proved facts about `KWork` and `Health`; the inductive invariant of `Relay` and its theorems |
| `FirmwareProofs` | the inductive invariant of `Firmware`, on top of the relay module's |
| `Daemon` | the daemon's threads against a board that may detach or reset |
| `DaemonProofs` | the inductive invariant of `Daemon` and its theorems |
| `RpcService` | what the client library promises its caller (abstract) |
| `HostRpc` | one client's requests over a lossy, delaying link; implements `RpcService` |
| `HostRpcProofs` | the inductive invariant of `HostRpc` and its theorems |
| `RpcServiceProofs` | `HostRpc` implements `RpcService`; a confirmed off is off |
| `Session` | the interactive session's two threads, on exchanges as `RpcService` allows them |
| `SessionProofs` | the inductive invariant of `Session` and its theorems |
| `DaemonSocket` | daemon processes on one socket path, and `relayctl` processes |
| `DaemonSocketProofs` | the inductive invariant of `DaemonSocket` and its theorems |
| `HostConfig` | instance configuration, device and socket selection |
| `HostTools` | a command from the words typed to the exit status, and a tool started with settings (`HostConfig`) |
| `HostToolsProofs` | the inductive invariant of `HostTools` and its theorems; the heads of CBOR items |
| `CborHeader` | the numbers of the smoke-test tool's codec: big-endian fields, heads of CBOR items |
| `SmpCodec` | the rest of that codec: CBOR values, SMP packets and serial frames |
| `MCRelay`, `MCFirmware`, `MCDaemon` | instances for TLC; the specifications not named here are run as they are |
| `MCHostTools` | the questions TLC asks of `HostTools`, and those of the decoder of `SmpCodec` |

### Relay

Masks are sets of channels, `0..N-1`.  A relay API call by thread `t` is `Lock(t)`,
one critical-section action (`relay_set`, `relay_set_all`, `relay_pulse`,
`relay_pulse_refused`, `relay_comm_loss_renew`), and `publish(t)` for the masks
copied in the section.  `relay_off_all` is `relay_set_all` with the empty mask.
Argument checks that return before the lock are left out: the inputs are the ones
that pass them.

A handler runs as one action once its work item has been dispatched and no
caller holds the lock.  This is what the scheduling gives: the workqueue thread
has the highest priority and is not preempted, and `k_mutex_unlock` hands the
lock to the highest-priority waiter, so a started handler waits for at most one
caller's section (`Lock` is disabled while it waits) and then runs to its end,
publication included.  Two more facts about time appear as guards: the reboot
timer ends after the warning has been handled (the warning is ten seconds
earlier), and the watchdog hardware does not expire while a feed is ahead (its
timeout is five feed intervals).  Otherwise a running timer may end at any moment.

A failed GPIO write leaves the failing pin and the later ones unchanged; the
earlier ones have their new level.  `ScheduleMayFail` turns on the error paths of
`k_work_schedule`, which the code handles.

`CONSTANTS` are the build options: number of channels, policy, reboot on timeout,
reboot delay within the warning window, and which failures can happen.

### Firmware

Adds boot outcomes (all well; no watchdog device; watchdog setup failed;
`relay_init` failed), the reboot and bootsel works, whose handlers switch all off
and then sleep (`settling`) while callers still run, and the watchdog handler,
which takes its health snapshot one step before it acts on it.  An accepted request
is two steps of the SMP thread: `MaintenanceRequest` schedules the work item,
`MaintenancePromise` reports the reboot pending (`promising` in between).  The
workqueue may run between them, also the item that was just scheduled: its delay of
a second is no guarantee for a preempted thread, and the item of an earlier request
keeps its own, older timer.

### Daemon

A serial client is a handle, live or dead.  `_enter_reboot_recovery` is several
steps, since the reconnect thread reads the fields it writes without the lock;
every other change of the connection state is one step.  A probe opens its handle
(`reconnect_probe`), asks on it (`probe_ready`), and when an exchange fails closes
it before the failure is recorded, so that the board may leave or the worker run
between any two of these.  The board is attached or
not, has an uptime that saturates at `MaxUptime`, and a ghost `rebooted` that is
false from an accepted reboot until a reset.  A join may give up only on a thread
that is in an exchange or waits for one to end, or for a line: everything else a
thread does is far shorter than the join's timeout.  Exchanges may time out after
the board has acted.  `last_error`, the attempt counter and the contents of
answers are left out; kinds of error matter only by their effect on the
connection (transport errors drop it, others do not).

Two things are left out.  `shutdown` reads and clears `client` in one step: while
there is a client the reconnect thread rests (`ClientOK`) and nothing can come
between; when there is none, a probe adopted between the read and the assignment
would be overwritten without a close, a few instructions before the process ends and
the kernel closes it.  And the freshness check passes a status without `uptime_ms`
(`daemon.py:844`, `session.py:446`): the firmware's status always has it
(`relay_mgmt.c` encodes it unconditionally), so `Daemon` and `Session` have no such
answer; `RecoveryIsFresh` and the session's `ReconnectIsFresh` hold for this firmware
only.

### HostRpc and RpcService

`wire` is the sequence of exchanges between host and board, oldest first: a
request until the board has executed it, its answer afterwards.  `age` is history:
how many calls ago it was sent.  `reset_input_buffer()` discards some prefix of
the answers (those that have arrived).  A call is `Request`, one `Send` per
attempt, and its end: `Receive`, `Timeout`, `TransportFails`, or `BadFrame`.  The
board is one relay, which is enough to tell the commands apart.

`RpcService` is the specification a caller relies on: a call that returns was
executed while it was in progress, and nothing older is executed after it; a call
that raises promises nothing.  `ServiceKept` checks the refinement.  `MaxLag`
bounds how many calls a packet may outlive; the assumption `MaxLag < SeqNumbers`
(256 in the code) is what correlation by sequence number needs, and the proof
uses exactly that.

### Session

An exchange of the main thread is one step whose outcomes are those of
`RpcService` (a raised "on" may be executed later: `board.late`).  The poller's
exchange is one step per attempt because `HeartbeatPoller.stop` joins it for 3.5 s
only; `JoinOutlasts = 1` is the number of 2-second attempts that fit.  `stray` is
a serial handle that a poller of a closed client has opened again.  `restarted` is
history.  Relay commands are merged by their effect: reading, switching on,
switching off.

### DaemonSocket

Every system call on the path is a step: look, probe, unlink, bind, listen, and
the unlink at the end.  A daemon is its queue of accepted requests; its threads
are `Daemon`'s.  A `relayctl` process runs one command or the smoke sequence; a
read timeout breaks its buffered reader for good, while requests can still be
sent.  `Overlap` lets a daemon be started while another one runs.  A connect to a
serving listener that fails all the same, with a timeout or a full backlog, is left
out: `_prepare_socket_path` then unlinks a live socket (`daemon.py:903`), which takes
two daemons at once, and the passing run starts them one after the other.

### HostConfig, HostTools, CborHeader, SmpCodec

Mostly pure functions: each initial state is a question.  `CommandJobs` and
`ResolveJobs` are the questions of `HostTools` (a command and the fate of the request; a
file, an environment, a command line and the plugged devices), `MCHostTools` adds those
of the decoder (the lines a port delivers) and the bounds.  A command passes the layers
one action at a time, so that the exception on its way back meets every translation.  A
configuration value is set, empty or unset; the numeric settings are one, which coerces
or does not.  Codec inputs are bytes: the payload values sit at the limits of the CBOR
length forms, answers come in one or two frames, after shell text or an earlier
answer in part or whole (of the same command or of another one), with a line lost, any
byte damaged, or the payload cut.

## 3. Runs

| Run | Instance | Shows |
|---|---|---|
| `relay_energized` | 2 channels, 2 threads, energized-only, GPIO failures | `RelayInv`: pulses keep their timers, relays their lease, masks, outputs and the reported owner loss agree |
| `relay_live` | 1 channel, 1 thread, always-on-owner with reboot, all failures | reboot flags and works agree; pulses end, reboots are resolved, silence switches off |
| `firmware_safety` | 1 channel, 1 thread, all failures, failed boots | the relay guarantees survive host maintenance and restarts; promised reboots; no spurious watchdog reset |
| `firmware_live` | 1 channel, 1 thread, energized-only, GPIO failures | faults end in a reset; a silent board is off even when GPIO writes fail |
| `daemon_safety` | 2 lines, selection by serial, link failures | client stable and no leaked handle (`ConnectionInv`), fresh recovery, off-all last |
| `daemon_live` | 1 line, selection by port, perfect link while attached | lines answered, shutdown ends, reconnects |
| `host_rpc` | 4 sequence numbers, 1 retry, 3 packets on the wire, lag 3 | answers are the call's own, a confirmed off is off, calls end, `RpcService` is implemented |
| `session` | 2 port names, 2 attempts, 2 reconnect rounds, 1 pulse | threads exclude each other and polling goes on (`SessionInv`, `KeepsPolling`), disconnected is silent, guarded close is safe, reconnect is fresh, commands end |
| `daemon_socket` | 2 daemons one after the other, 2 `relayctl` processes, queue of 2 | stale sockets do not block, a server is reachable (`SocketInv`), smoke leaves no switch-on behind, calls end |
| `host_tools` | about 106,000 questions | exit status tells the cause, a spoilt frame apart; layers agree; the named device and the same socket are used; the decoder returns an answer that was sent or raises |
| `daemon_reboot_stuck` | violation | reboot recovery can wait for ever |
| `daemon_socket_refused` | violation | a refused start removes the socket of the running daemon |

Bounds.  Two channels are enough for a channel to be switched while another
pulses; two callers for publications to cross; one channel suffices where only
whole-board events matter.  Two lines let one wait while the other is served.
`MaxUptime = 1` tells "lower" from "not lower".  Three handles are one more than
can be open at once.  Four sequence numbers wrap within the behaviours, and a lag
of three is the most they admit; three packets are a retried request and an older
one.  Two ports let a board come back under another name, two `relayctl`
processes interleave in one queue, and a queue of two holds a command and the
cleanup behind it.  Callers are symmetric in `MCRelay`, where no action names a
particular one.  `daemon_*` runs of `MCDaemon` turn the deadlock check off because
the daemon may exit, `host_tools` because a tool ends; no other run does.

Fairness.  A thread inside a call, a queued work item and a running delay make
progress; the queue is first in, first out, so a queued item is dispatched
eventually (strong fairness of `Dispatch`).  The lease timer has no fairness: a
host may renew it for ever.  `SilentHostTurnsOff` and `SilentBoardIsOff`
therefore assume, as premises, that calls have ceased and that the timer may run
out.  No caller is ever obliged to call.  In the daemon every exchange ends by its
timeout; the worker and the shutdown obtain `_command_lock` because it is free
during the 2.5 s between heartbeats.  The board is under no obligation to stay
attached: the reconnect properties assume it does.  In `HostRpc` the calling
thread runs and each read ends by its timeout.  In `Session` both threads run, and
each obtains `_lock` when it is free again and again (strong fairness: the other
thread lets go of it for the time the operator types, or for the poll interval).
In `DaemonSocket` processes run and a serving daemon answers; `send` is strongly
fair because the queue drains again and again.  Users, signals, crashes and the
board are under no obligation.

Every property of a passing run has a mutant: an operator marked "Slip" just
before the definition it stands in for, with a plausible coding error that makes
TLC find the property violated.

## 4. Findings and observations

Two runs show the code at odds with a document:

1. The daemon's freshness test (`daemon.py:846`) rejects a rebooted board whose
   uptime has passed the one before the reboot, and its uptime only grows
   (`daemon_reboot_stuck`).
2. `shutdown` (`daemon.py:326`) unlinks the socket path even when this process
   never bound it: a second daemon, refused because the first one answers, removes
   the first one's socket (`daemon_socket_refused`).  A regular file found at the
   path is removed the same way (`Occupied = {"file"}`).

Four formulas state what a document says of the firmware and are not true of the
code.  They are not part of a run; TLC refutes each within seconds on the instance
given (energized-only, no reboot on timeout, no scheduling failure):

* `StatusMatchesRelays` (`Relay`, `N = 2`, two callers): `relay_set` and its
  siblings publish after the unlock (`relay.c:531`), so two publications can be
  applied in the wrong order and `status` keeps reporting the older masks until
  the next mutation.
* `RenewedLeaseHolds` (`Relay`, `N = 2`, one caller): `comm_loss_expired`
  (`relay.c:293`) does not notice that the lease was renewed while its work was
  queued; the relays go off with a fresh lease running.
* `OffBeforeBootsel` (`Firmware`, `N = 1`, SMP and shell): `bootsel_work_handler`
  sleeps after the all-off (`relay_mgmt.c:683`) with callers still running, so
  BOOTSEL can be entered with a relay on.
* `PendingRebootIsReported` (`Firmware`, `N = 1`, GPIO failures):
  `health_record_reboot_failed` (`health.c:241`) clears the pending reasons of all
  reboots; with two requests accepted, the second is still coming but no longer
  reported.

Observed while modelling, without a run of their own:

* A repeated reboot or bootsel request can report a reboot that no work item will
  bring: `k_work_schedule` leaves the delayed item of the first request alone, which
  may run, fail in its all-off and withdraw the promise before the SMP thread calls
  `health_set_host_reboot_pending` (`relay_mgmt.c:736`, `785`).  The failure has
  latched a fatal fault by then, so that an enabled watchdog resets the board
  (`PromiseIsBacked`, `HostRebootResolves`); without a watchdog the board reports
  `recovery_pending` until something else resets it.

* `DisconnectedIsSilent` needs at most one retry: with `Attempts = 3`
  (`--retries 2`) the join of the poller ends before its last attempt, which may
  open the port of the closed client again.
* A frame with a bad delimiter or checksum raises `RelayProtocolError` inside
  `exchange`, which reports it as a transport error and closes the port
  (`transport.py:56`): the tools exit with 3 for it, where `docs/cli.md:376` has 5
  for a malformed response and `docs/host-library.md:282` has `RelayProtocolError`
  for a malformed packet.  `ExitTellsCause` names this exception (`SpoiltFrame`).
* `call` of `usb_rpc_smoke.py` uses the sequence number 1 for every request
  (`usb_rpc_smoke.py:239`).  A whole answer that arrives after
  `reset_input_buffer` is returned as the answer to a later request of the same
  command, and makes a request of another command fail; `DecodesOrRaises` states
  both cases.
* `connect` with a saved serial number whose device is present but does not open
  ends there; only a missing device leads to the list
  (`docs/host-session-mode.md:202`).
* The end of the session's input exits even when the close guard refuses.
* The smoke sequence of the session holds `_lock` throughout, so no heartbeat is
  sent while it runs.
* `RP2350_RELAY_INSTANCE` is defined and never used: daemon and `relayctl` take an
  instance from the command line only (`docs/host-daemon-mode.md:298`).
* An instance without a selector can be started with one on the command line, but
  `relayctl --instance` then refuses the instance (the premise of `SameSocket`).
* A new `RelayClient` begins at sequence number 0 again.
* `usb_rpc_smoke.py` expects other protocol and command-model versions than
  `constants.py` names.

## 5. Proofs

Every safety invariant and action property of the runs is proved for every value of
the constants, with the exception of `DecodesOrRaises`.  Each proof has one
inductive invariant, one lemma per action, and the theorems as its consequences; TLC
checked each inductive invariant on the instance of its run first.

### Relay (`RelayProofs`)

`RelaySafety == Spec => []RelayInv` for every number of channels, set of callers,
policy, delay variant and combination of failures, from `RelayAssumption` alone.
`RelayTypes`, `PulsesAreTimed`, `RelaysAreSupervised`, `OutputsAreTracked`,
`OwnerLossIsSafe` and `RebootIsTracked` follow.  The safety properties are not
inductive by themselves; `RelayInv` adds:

* `HandlerIsServedNext`: once a caller has canceled a handler that waits for the
  lock, no other caller gets the lock before that handler.  Without it a canceled
  pulse could be restarted while `k_work_schedule` ignores the item, and the new
  pulse would never end.
* `PulseRunsOnce`, `IndicationRunsOnce`: these items have one run ahead at most.
* `AnnouncementPrecedesReboot`: a scheduled reboot is already reported, or its
  report is ahead of it.

The first lemmas state what each workqueue operation and health setter does to an
item, respectively to the reasons; the others show per action that each conjunct
it can disturb is preserved, and that the action spares the work items and reasons of
the other files (`Kept`).

### Firmware (`FirmwareProofs`)

`RelayInv` splits into `Core`, `LeaseIsHeld` and `Announced`, because the whole
firmware keeps less than `relay.c` alone: a boot whose `relay_init` failed has no lease
(but also no command that could switch a relay on), and the failure of a host reboot
clears `comm_reboot_pending` of an autonomous one too (`PendingRebootIsReported` in
section 4), so that the announcement is not kept.  `FwSafe` is `Core`, the lease in
application mode, `PromiseIsBacked`, `OnlyFaultsStarve`, and:

* `AcceptedIsBacked`: between the halves of an accepted request a maintenance work
  is ahead, or one has failed and latched its fault; the promise made in the second
  half rests on it.
* `SeenIsLatched`: a fatal reason in the snapshot the feed handler holds is still in
  force when it acts on it; no setter withdraws one.
* `NeverCanceled`: no file cancels the work items of another, so that a running
  maintenance or feed handler is never flagged as canceling and its rescheduling is
  never ignored.

A step of relay.c is taken over from `RelayProofs`; for a step of another file
`OtherFileStep` shows that `Core` does not notice it.  Theorems: `FirmwareKeepsRelays`
(`FwInv`), `PromisesAreBacked`, `StarvedByFaultsOnly`.

### Daemon (`DaemonProofs`)

`ConnectionsAreSafe` (`ConnectionInv`), `RecoveriesAreFresh` (`RecoveryIsFresh`) and
`OffAllIsTheLastWord` (`OffAllIsLast`).  The inductive invariant has a part for each
argument:

* `LockOK`: one thread at most has `_command_lock`, and which phases of which thread
  have it.
* `ClientOK`: the reconnect thread, which takes no lock, holds a handle of its own only
  while the daemon has no client, so that a client is closed by the holder of the lock.
* `RecoveryOK`: while a reboot is awaited and the board has not restarted, its uptime is
  not below the one recorded before the request; hence a lower one proves the restart.
* `ShutdownOK`: after the off-all of `shutdown` the worker is in no exchange, and one
  whose join timed out because a heartbeat had the lock finds the daemon disconnected
  and nobody left to connect it.

### Client library (`HostRpcProofs`, `RpcServiceProofs`)

`AnswersAreOwn == Spec => []AnswerIsOwn` and `RpcTypes` for every number of sequence
numbers, retries and packets on the wire, from `HostRpcAssumption` (naturals, and
`MaxLag < SeqNumbers`).  `AnswerIsOwn` speaks of the end of a call only; the inductive
invariant adds where a number comes from: an exchange of age `a` carries the number `a`
calls before the latest (`seq = Back(Prev(seq), age)`), and the call in progress carries
the latest.  A new call makes every exchange one call older and shifts the latest number
by one, so the equation stays (`Numbers`); losing, discarding and reading packets only
thins the wire out (`PartOfWire`); and fewer than `SeqNumbers` calls back no number
comes round (`OwnNumber`), so an answer that matches has age zero.

`ClientKeepsService == Spec => ServiceKept` is the refinement, proved step by step: the
initial states map to initial states, every step to a step of `RpcService` or a stutter.
It rests on `Served`: the wire is ordered by age and executed in order, so when the
answer of the call in progress is read, whatever is still unexecuted belongs to that
call (`Returned`).  That is the fence `RpcService` promises, and `OffIsConfirmed`
(`ConfirmedOff`) follows: a reading "off" is the last word.

### Session (`SessionProofs`)

For every set of ports, number of attempts, pulses and reconnect rounds:

* `ThreadsExclude` (`SessionInv`): the phases of the two threads determine who has
  `_lock`, and which poller is the current one.
* `CloseLeavesOff` (`GuardedCloseIsSafe`): from a status that showed the relays off to
  the close, the main thread sends nothing, the poller only renews, and a call that
  returned left nothing behind.
* `RebootsAreReal` (`ReconnectIsFresh`): the uptime argument of the daemon, over the
  session's reconnect rounds.
* `SilentWhenDisconnected` (`DisconnectedIsSilent`), under
  `Attempts <= JoinOutlasts + 1`: a poller whose join timed out is in its last attempt,
  and does not open the port again.  The code's defaults (one retry) satisfy it;
  `--retries 2` does not, and TLC then refutes the property (section 4).

### Socket (`DaemonSocketProofs`)

For every number of daemons and `relayctl` processes and every queue length, when
daemons run one after the other and nothing else is ever at the path (`~Overlap`,
`Occupied = {}`).  The code needs both conditions: section 4 shows what happens when two
daemons overlap.  `StaleIsHarmless` (`StaleNeverBlocks`) and `ServersAreReachable` rest
on `Inv`: at most one daemon runs, so that what a start finds at the path is never a
live listener, and the path is what the daemon's phase relies on (`PathFits`).
`SocketIsOwned` (`SocketInv`) and `SmokeEndsOff` (`SmokeLeavesOff`) rest on `Traffic`:
only a daemon that serves or is stopping holds requests or connections, and in its queue
every switch-on of a smoke run has the run's off-all behind it (`Covered`) from the
moment the off-all is sent, or the connection is lost, which empties the queue.  The
arithmetic of it is in the lemmas on the queue: serving takes from the front, sending
adds at the end, closing keeps the order.

### Tools (`HostToolsProofs`)

For every command with every integer the user may type, every fate of the request, and
every file, environment, command line and finite set of plugged devices
(`HostToolsAssumption` only says that the questions asked are of these kinds):

* `ExitTellsCauseHolds` (`ExitTellsCause`) rests on `KeptClass`: the class of the
  exception on its way back is always the one that left the transport, which is that of
  the cause unless a frame was spoilt (`Told`).  `FirstClauseIs` says which clause of a
  chain of tests decides; with it `SameClassBehindTheSocket` shows that the daemon's
  error kinds lose no class, although a timeout is also a transport error, and
  `StatusIsDocumented` that the except clauses give each class its status.
* `LayersAgreeHolds` (`LayersAgree`) rests on `Parsed`, `Accepted` and the lemma
  `DaemonAcceptsMore`: what the client's method lets through, `_validate_args` lets
  through.
* `OpensNamedDeviceHolds` (`OpensNamedDevice`) and `SameSocketHolds` (`SameSocket`) rest on
  `ApplyLayerFacts`, which says what a layer does to each key: its selector replaces both
  selectors below, and of two selectors in one layer the serial number wins.
  `MergedSelectors` applies it twice; `SerialFacts` shows that a chosen board is the only
  one with the serial number.

`HeadRoundTrip` is about the codec's numbers: a head that `encode_type_len` writes, for
every major type and every number below 2^32, is read back by `read_len`, which stops
behind it whatever follows, and its initial byte never announces an indefinite length.

### Only model-checked

Liveness under fairness and the absence of deadlock; `DecodesOrRaises`, because values,
checksums and frames are recursive over data (`SmpCodec`), which is beyond the prover
(the heads they are built from are proved); and overlapping daemons.

## 6. Not modelled, and plan

Not modelled: the indicators (RGB, buzzer, OLED: output without influence on the
relays), packet and CBOR encoding inside the `smp` and `cbor2` packages, sysfs and
USB I/O, output formatting, completion and help texts, `systemd.py` (copies two
files and prints a diagnosis), build, release and picture scripts.

Plan, in order:

1. `Session` on `HostRpc` itself instead of on its abstract service.
2. The transition counter of the health model and the two-step mask encoding of
   `get` and `status`.
