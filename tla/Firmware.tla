------------------------------ MODULE Firmware ------------------------------
(***************************************************************************)
(* The firmware as a whole: relay.c under main.c, the host's reboot and    *)
(* bootsel requests (relay_mgmt.c, reboot.c) and the watchdog supervisor   *)
(* (watchdog_supervisor.c), sharing one system workqueue and one health    *)
(* model.                                                                  *)
(*                                                                         *)
(* The reboot and bootsel handlers switch all relays off, detach USB and   *)
(* then sleep on the workqueue thread: no other handler runs meanwhile,    *)
(* but preemptible callers do.                                             *)
(***************************************************************************)
EXTENDS Relay

CONSTANTS
    SmpThread,        \* the thread that serves the management protocol
    RelayInitMayFail, \* relay_init() may find a GPIO not ready
    WatchdogMayFail   \* the watchdog may be absent, or its setup or a feed fail

ASSUME FirmwareAssumption ==
    /\ SmpThread \in Callers
    /\ {RelayInitMayFail, WatchdogMayFail} \subseteq BOOLEAN

VARIABLES
    mode,      \* "app", "init_failed" (main sleeps, then resets) or "bootsel"
    settling,  \* the reboot or bootsel handler sleeps after its all-off
    promising, \* SmpThread has scheduled a reboot, and is yet to report it pending
    watchdog   \* the supervisor's model

fw     == <<mode, settling, promising, watchdog>>
fwvars == <<vars, mode, settling, promising, watchdog>>

(* enabled: hardware_setup() succeeded and the hardware counts down;        *)
(* seen: the reasons in the snapshot the running feed handler has taken.    *)
WatchdogType ==
    [enabled : BOOLEAN, healthy : BOOLEAN, seen : SUBSET (SUBSET Reasons)]

FwTypeOK ==
    /\ TypeOK
    /\ mode \in {"app", "init_failed", "bootsel"}
    /\ {settling, promising} \subseteq BOOLEAN
    /\ watchdog \in WatchdogType

MaintenanceWork == {reboot_work, bootsel_work}

-----------------------------------------------------------------------------
(* main() *)

WatchdogOff == [enabled |-> FALSE, healthy |-> FALSE, seen |-> {}]
WatchdogOn  == [enabled |-> TRUE, healthy |-> TRUE, seen |-> {}]

(* What main() can leave behind: everything works and the first feed is     *)
(* scheduled; there is no watchdog device; its setup fails and is recorded; *)
(* or relay_init() fails before it arms anything.                           *)
BootOutcomes ==
    LET booted == [mode |-> "app", armed |-> Policy = "always-on-owner", kwork |-> BootWork,
                   health |-> BootHealth, watchdog |-> WatchdogOff]
    IN  {[booted EXCEPT !.kwork = k_work_schedule(@, watchdog_work), !.watchdog = WatchdogOn]}
        \cup (IF WatchdogMayFail
              THEN {booted, [booted EXCEPT !.health = health_record_watchdog_supervisor_failed(@)]}
              ELSE {})
        \cup (IF RelayInitMayFail
              THEN {[booted EXCEPT !.mode = "init_failed", !.armed = FALSE, !.kwork = KWorkIdle,
                        !.health = health_record_relay_gpio_init_failed(health_init)]}
              ELSE {})

Restart ==
    \E b \in BootOutcomes :
        /\ Reset(b.armed, b.kwork, b.health)
        /\ mode' = b.mode /\ settling' = FALSE /\ promising' = FALSE /\ watchdog' = b.watchdog

FwInit ==
    \E b \in BootOutcomes :
        /\ pins = {} /\ relay_state_mask = {} /\ relay_pulse_mask = {}
        /\ comm_loss_armed = b.armed
        /\ comm_loss_reboot_scheduled = FALSE /\ comm_loss_ind_scheduled = FALSE
        /\ relay_lock = {} /\ to_publish = [t \in Callers |-> {}]
        /\ kwork = b.kwork /\ health = b.health
        /\ mode = b.mode /\ settling = FALSE /\ promising = FALSE /\ watchdog = b.watchdog

(* handle_relay_init_failure(): one second later the board resets. *)
handle_relay_init_failure == mode = "init_failed" /\ Restart

-----------------------------------------------------------------------------
(* Host maintenance *)

(* SmpThread is free to serve a request. *)
SmpIsFree == SmpThread \notin relay_lock /\ to_publish[SmpThread] = {} /\ ~promising

(* Slip: the reboot is promised whether or not it could be scheduled. *)
MaintenanceRequest_Unchecked(w) ==
    /\ mode # "bootsel" /\ SmpIsFree
    /\ promising' = TRUE
    /\ kwork' \in {k_work_schedule(kwork, w)} \cup (IF ScheduleMayFail THEN {kwork} ELSE {})
    /\ UNCHANGED <<masks, flags, relay_lock, to_publish, health, mode, settling, watchdog>>

(* Slip: the request is accepted and its work item never scheduled. *)
MaintenanceRequest_NotScheduled(w) ==
    /\ mode # "bootsel" /\ SmpIsFree
    /\ promising' = TRUE
    /\ UNCHANGED <<vars, mode, settling, watchdog>>

(* reboot_handler() and bootsel_handler(): accepted, or not scheduled.      *)
MaintenanceRequest(w) ==
    /\ mode # "bootsel" /\ SmpIsFree
    /\ \/ /\ kwork' = k_work_schedule(kwork, w)
          /\ promising' = TRUE
          /\ UNCHANGED health
       \/ /\ ScheduleMayFail
          /\ health' = health_record_reboot_failed(health)
          /\ UNCHANGED <<kwork, promising>>
    /\ UNCHANGED <<masks, flags, relay_lock, to_publish, mode, settling, watchdog>>

(* The second half of an accepted request.  The workqueue may run before    *)
(* it: k_work_schedule() leaves an item that is already delayed alone, so   *)
(* that the item of an earlier request may be due.                          *)
MaintenancePromise ==
    /\ promising /\ promising' = FALSE
    /\ health' = health_set_host_reboot_pending(health, TRUE)
    /\ UNCHANGED <<masks, flags, relay_lock, to_publish, kwork, mode, settling, watchdog>>

reboot_handler  == MaintenanceRequest(reboot_work)
bootsel_handler == MaintenanceRequest(bootsel_work)

(* Slip: the outputs are switched off directly, the pulse timers run on. *)
MaintenanceAllOff_KeepsTimers(w) ==
    /\ HandlerRuns(w) /\ ~settling
    /\ pins' = {} /\ relay_state_mask' = {} /\ relay_pulse_mask' = {}
    /\ LeaseRenewed(kwork, {}, {})
    /\ health' = health_set_relay_state(OwnerBack, {}, {})
    /\ settling' = TRUE
    /\ UNCHANGED <<mode, promising, watchdog>>

(* The first part of both work handlers: relay_off_all(), which publishes   *)
(* on the workqueue thread, and the USB detach; or its failure.             *)
MaintenanceAllOff(w) ==
    /\ HandlerRuns(w) /\ ~settling
    /\ relay_pulse_mask' = {}
    /\ LET quiet == k_work_cancel_delayable(kwork, Ch) IN
       \/ /\ pins' = {} /\ relay_state_mask' = {}
          /\ LeaseRenewed(quiet, {}, {})
          /\ health' = health_set_relay_state(OwnerBack, {}, {})
          /\ settling' = TRUE
       \/ /\ GpioMayFail
          /\ \E i \in Ch : pins' = Written({}, i)
          /\ kwork' = HandlerDone(quiet)
          /\ health' = health_record_reboot_failed(health_record_relay_io_error(health))
          /\ UNCHANGED <<relay_state_mask, flags, settling>>
    /\ UNCHANGED <<mode, promising, watchdog>>

(* The sleep is over: sys_reboot(), which does not return. *)
reboot_work_handler == kwork.running = reboot_work /\ settling /\ Restart

(* reset_usb_boot(): the ROM bootloader takes over, all outputs inactive. *)
bootsel_work_handler ==
    /\ kwork.running = bootsel_work /\ settling
    /\ Reset(FALSE, KWorkIdle, health_init)
    /\ mode' = "bootsel" /\ settling' = FALSE /\ promising' = FALSE /\ watchdog' = WatchdogOff

(* The board leaves the bootloader by a power cycle or an update. *)
LeaveBootsel == mode = "bootsel" /\ Restart

-----------------------------------------------------------------------------
(* The watchdog supervisor *)

FatalReasons == {RelayGpioInitFailed, RelayIoFailed, WatchdogSupervisorFailed}

(* watchdog_work_handler() takes its snapshot before it takes its lock, for *)
(* which it may have to wait.                                               *)
WatchdogSnapshot ==
    /\ kwork.running = watchdog_work /\ watchdog.seen = {}
    /\ watchdog' = [watchdog EXCEPT !.seen = {health.snapshot_reasons}]
    /\ UNCHANGED <<vars, mode, settling, promising>>

(* Slips: every reason stops the feed; no reason does. *)
watchdog_work_handler_AnyReason ==
    /\ kwork.running = watchdog_work
    /\ \E reasons \in watchdog.seen :
          kwork' = HandlerDone(IF reasons = {} THEN k_work_schedule(kwork, watchdog_work) ELSE kwork)
    /\ watchdog' = [watchdog EXCEPT !.seen = {}]
    /\ UNCHANGED <<masks, flags, relay_lock, to_publish, mode, settling, promising, health>>
watchdog_work_handler_AlwaysFeeds ==
    /\ kwork.running = watchdog_work /\ watchdog.seen # {}
    /\ kwork' = HandlerDone(k_work_schedule(kwork, watchdog_work))
    /\ watchdog' = [watchdog EXCEPT !.seen = {}]
    /\ UNCHANGED <<masks, flags, relay_lock, to_publish, mode, settling, promising, health>>

watchdog_work_handler ==
    /\ kwork.running = watchdog_work
    /\ \E reasons \in watchdog.seen :
       LET allowed == reasons \cap FatalReasons = {} IN
       \/ /\ allowed
          /\ kwork' = HandlerDone(k_work_schedule(kwork, watchdog_work))
          /\ watchdog' = [watchdog EXCEPT !.seen = {}]
          /\ UNCHANGED health
       \/ /\ allowed /\ WatchdogMayFail
          /\ kwork' = HandlerDone(kwork)
          /\ watchdog' = [watchdog EXCEPT !.seen = {}, !.healthy = FALSE]
          /\ health' = health_record_watchdog_supervisor_failed(health)
       \/ /\ ~allowed
          /\ kwork' = HandlerDone(kwork)
          /\ watchdog' = [watchdog EXCEPT !.seen = {}, !.healthy = FALSE]
          /\ UNCHANGED health
    /\ UNCHANGED <<masks, flags, relay_lock, to_publish, mode, settling, promising>>

(* The feed is ahead: the hardware, whose timeout is five feed intervals,   *)
(* does not expire.                                                         *)
FeedAhead == Pending(kwork, watchdog_work) \/ kwork.running = watchdog_work

WatchdogBites == watchdog.enabled /\ ~FeedAhead /\ Restart

-----------------------------------------------------------------------------

(* A reboot or bootsel handler that waits for relay_lock is served first,   *)
(* like every other handler.                                                *)
FwLock(t) ==
    /\ ~(kwork.running \in MaintenanceWork /\ ~settling)
    /\ mode # "bootsel"
    /\ t = SmpThread => ~promising
    /\ Lock(t)

RelayHandler ==
    \/ \E c \in Ch : pulse_expired(c)
    \/ comm_loss_expired
    \/ comm_loss_reboot_pending_indication_expired

FwHandler ==
    \/ RelayHandler /\ UNCHANGED fw
    \/ kwork.running = comm_loss_reboot_work /\ Restart
    \/ \E w \in MaintenanceWork : MaintenanceAllOff(w)
    \/ reboot_work_handler
    \/ bootsel_work_handler
    \/ WatchdogSnapshot
    \/ watchdog_work_handler

FwNext ==
    \/ \E t \in Callers : (FwLock(t) \/ Call(t) \/ publish(t)) /\ UNCHANGED fw
    \/ \E w \in WorkItems : (TimerExpires(w) \/ Dispatch(w)) /\ UNCHANGED fw
    \/ FwHandler
    \/ reboot_handler \/ bootsel_handler \/ MaintenancePromise
    \/ handle_relay_init_failure \/ LeaveBootsel \/ WatchdogBites

FwSpec == FwInit /\ [][FwNext]_fwvars

(* The work items the build ever schedules. *)
UsedWork == IF RebootOnTimeout THEN WorkItems
            ELSE WorkItems \ {comm_loss_ind_work, comm_loss_reboot_work}

(* As in Relay; in addition the hardware watchdog expires when it is not    *)
(* fed, and a failed boot is retried.                                       *)
FwFairness ==
    /\ \A t \in Callers : WF_fwvars(Call(t) /\ UNCHANGED fw) /\ WF_fwvars(publish(t) /\ UNCHANGED fw)
    /\ \A w \in UsedWork : SF_fwvars(Dispatch(w) /\ UNCHANGED fw)
    /\ \A w \in UsedWork \ {comm_loss_work} : WF_fwvars(TimerExpires(w) /\ UNCHANGED fw)
    /\ WF_fwvars(FwHandler) /\ WF_fwvars(MaintenancePromise)
    /\ WF_fwvars(handle_relay_init_failure)
    /\ WF_fwvars(WatchdogBites)

FwFairSpec == FwSpec /\ FwFairness

-----------------------------------------------------------------------------
(* Properties *)

(* A reboot or bootsel handler is ahead or at work. *)
RebootAhead == \E w \in MaintenanceWork : Pending(kwork, w) \/ kwork.running = w

(* A reboot or bootsel handler has failed in its all-off: a fatal fault.    *)
RebootFaulted == {RelayIoFailed, RebootFailed} \subseteq health.reasons

(* host_reboot_pending is reported only while a reboot or bootsel handler   *)
(* is ahead or at work, or after one has failed in its all-off.  The second *)
(* case is needed: the item of an earlier request may run, fail and         *)
(* withdraw that promise between the two halves of a repeated request,      *)
(* which then promises a reboot that nothing will bring but the watchdog.   *)
PromiseIsBacked == HostRebootPending \in health.reasons => RebootAhead \/ RebootFaulted

(* LeaseIsHeld once relay_init() has succeeded: host requests, their        *)
(* handlers' own all-off and restarts do not lose the lease either.         *)
AppLeaseIsHeld == mode = "app" => LeaseIsHeld

(* Host maintenance, the watchdog, failed boots and restarts leave the      *)
(* guarantees of relay.c intact: pulses are timed, relays have a lease, the *)
(* autonomous reboot's flags and works agree.                               *)
FwInv == FwTypeOK /\ PulseIsTimed /\ AppLeaseIsHeld /\ RebootBookkeeping

(* The watchdog resets the board for a fatal fault only: an enabled         *)
(* watchdog that no feed is coming for has a fatal reason latched.          *)
OnlyFaultsStarve ==
    watchdog.enabled /\ ~FeedAhead => health.reasons \cap FatalReasons # {}

(* A fatal fault under an enabled watchdog does not last: the feed stops    *)
(* and the board resets (only a reset ends enabled).                        *)
FaultIsReset ==
    LET faulty == watchdog.enabled /\ health.reasons \cap FatalReasons # {}
    IN  faulty ~> ~faulty

(* A reboot promised to the host happens, or its failure is reported.       *)
HostRebootResolves ==
    HostRebootPending \in health.reasons ~> HostRebootPending \notin health.reasons

(* The board's promise: once the host falls silent and the lease may run    *)
(* out, all outputs are off for good, even when GPIO writes fail, because   *)
(* the watchdog resets a board with a GPIO failure.                         *)
SilentBoardIsOff ==
    <>[](relay_lock = {}) /\ WF_fwvars(TimerExpires(comm_loss_work) /\ UNCHANGED fw)
        => <>[](pins = {})

(* docs/protocol/relay-management.md: "Before entering BOOTSEL, firmware    *)
(* cancels pulses, turns all relays off, detaches USB".  Not true of the    *)
(* code: README, section 4.                                                 *)
OffBeforeBootsel == [][mode' = "bootsel" /\ mode # "bootsel" => pins = {}]_fwvars

(* docs/health-model.md: "If autonomous communication-loss reboot or        *)
(* host-requested reboot is pending, state is `recovery_pending`."  Not     *)
(* true of the code: README, section 4.                                     *)
PendingRebootIsReported ==
    ~promising /\ (\E w \in MaintenanceWork : Pending(kwork, w)) => health.state = "recovery_pending"

=============================================================================
