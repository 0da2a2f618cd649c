--------------------------- MODULE FirmwareProofs ---------------------------
(***************************************************************************)
(* Proofs about Firmware: the guarantees of relay.c survive the host's     *)
(* reboot and bootsel requests, the watchdog, failed boots and restarts;   *)
(* a promised host reboot is on its way or has failed, and only a fatal    *)
(* fault starves the watchdog.  For every number of channels, every set of *)
(* calling threads and every policy.                                       *)
(***************************************************************************)
EXTENDS Firmware, RelayProofs

-----------------------------------------------------------------------------
(* The inductive invariant.                                                 *)

(* Nobody cancels the work of relay_mgmt.c and of the watchdog, so that the *)
(* feed handler can schedule itself.                                        *)
NeverCanceled == kwork.running \in OtherWork => ~kwork.canceling

(* The fatal reasons in the snapshot that the feed handler has taken are    *)
(* still in force when it decides: they are latched.                        *)
SeenIsLatched == \A rs \in watchdog.seen : rs \cap FatalReasons \subseteq health.reasons

(* A request that is accepted and not yet reported is backed already.       *)
AcceptedIsBacked == promising => RebootAhead \/ RebootFaulted

FwSafe ==
    /\ Core /\ AppLeaseIsHeld
    /\ mode \in {"app", "init_failed", "bootsel"} /\ {settling, promising} \subseteq BOOLEAN
    /\ watchdog \in WatchdogType /\ PromiseIsBacked /\ AcceptedIsBacked /\ OnlyFaultsStarve
    /\ NeverCanceled /\ Sound(health) /\ SeenIsLatched

LEMMA FwWork ==
    /\ MaintenanceWork \subseteq OtherWork /\ watchdog_work \in OtherWork
    /\ watchdog_work \notin MaintenanceWork
  BY RelayAssumption DEF MaintenanceWork, OtherWork, reboot_work, bootsel_work, watchdog_work

LEMMA FwReasons ==
    /\ FatalReasons \cap {CommOwnerTimeout, CommRebootPending, HostRebootPending, RpcNotReady} = {}
    /\ HostRebootPending \notin {CommOwnerTimeout, CommRebootPending, RelayIoFailed, RebootFailed,
                                 WatchdogSupervisorFailed, RelayGpioInitFailed}
    /\ {RelayIoFailed, RebootFailed} \cap
          {CommOwnerTimeout, CommRebootPending, HostRebootPending} = {}
    /\ {RelayIoFailed, WatchdogSupervisorFailed, RelayGpioInitFailed} \subseteq FatalReasons
  BY DEF FatalReasons, CommOwnerTimeout, CommRebootPending, HostRebootPending, RpcNotReady,
         RelayIoFailed, RebootFailed, WatchdogSupervisorFailed, RelayGpioInitFailed

(* A step that cancels no maintenance work, clears no latched reason and    *)
(* promises nothing leaves what was promised backed.                        *)
LEMMA StillBacked ==
    ASSUME PromiseIsBacked, AcceptedIsBacked, RebootAhead => RebootAhead',
           RebootFaulted => RebootFaulted', promising' = promising,
           HostRebootPending \in health'.reasons => HostRebootPending \in health.reasons
    PROVE  PromiseIsBacked' /\ AcceptedIsBacked'
  BY DEF PromiseIsBacked, AcceptedIsBacked

-----------------------------------------------------------------------------
(* The steps of relay.c *)

(* A step of relay.c that is not a reset keeps the whole.                   *)
LEMMA RelayMoves ==
    ASSUME FwSafe, Kept, UNCHANGED fw
    PROVE  FwSafe'
  <1>1. /\ Core' /\ (LeaseIsHeld => LeaseIsHeld') /\ Spares(kwork, kwork')
        /\ SparesReasons(health, health') /\ UNCHANGED <<mode, settling, promising, watchdog>>
    BY DEF Kept, fw
  <1>2. AppLeaseIsHeld' /\ NeverCanceled' /\ Sound(health')
    BY <1>1 DEF FwSafe, AppLeaseIsHeld, NeverCanceled, Spares, SparesReasons
  <1>3. health.reasons \cap FatalReasons \subseteq health'.reasons
    BY <1>1, FwReasons DEF SparesReasons
  <1>4. SeenIsLatched'
    BY <1>1, <1>3 DEF FwSafe, SeenIsLatched
  <1>5. PromiseIsBacked' /\ AcceptedIsBacked'
    <2>1. RebootAhead => RebootAhead'
      BY <1>1, FwWork DEF RebootAhead, Spares
    <2>2. /\ RebootFaulted => RebootFaulted'
          /\ HostRebootPending \in health'.reasons => HostRebootPending \in health.reasons
      BY <1>1, FwReasons DEF SparesReasons, RebootFaulted
    <2> QED BY <1>1, <2>1, <2>2, StillBacked DEF FwSafe
  <1>6. OnlyFaultsStarve'
    <2>1. FeedAhead => FeedAhead'
      BY <1>1, FwWork DEF FeedAhead, Spares
    <2> QED BY <1>1, <1>3, <2>1 DEF FwSafe, OnlyFaultsStarve
  <1> QED BY <1>1, <1>2, <1>4, <1>5, <1>6 DEF FwSafe

-----------------------------------------------------------------------------
(* Boot and reset *)

(* What a boot leaves, and what entering the bootloader leaves.             *)
Booted(b) ==
    /\ b.kwork \in KWorkType(WorkItems) /\ b.kwork.queued = {}
    /\ b.kwork.timers \subseteq {comm_loss_work, watchdog_work}
    /\ b.kwork.running = NoWork /\ b.kwork.canceling = FALSE
    /\ b.health \in HealthType(Ch) /\ Sound(b.health)
    /\ b.health.reasons \subseteq {WatchdogSupervisorFailed, RelayGpioInitFailed}
    /\ b.armed \in BOOLEAN /\ (b.armed => Policy = "always-on-owner")
    /\ b.mode \in {"app", "init_failed", "bootsel"}
    /\ b.mode = "app" /\ Policy = "always-on-owner" => b.armed /\ comm_loss_work \in b.kwork.timers
    /\ b.watchdog \in WatchdogType /\ b.watchdog.seen = {}
    /\ b.watchdog.enabled => watchdog_work \in b.kwork.timers

LEMMA IdleWork ==
    /\ KWorkIdle \in KWorkType(WorkItems) /\ KWorkIdle.timers = {} /\ KWorkIdle.queued = {}
    /\ KWorkIdle.running = NoWork /\ KWorkIdle.canceling = FALSE
  BY DEF KWorkIdle, KWorkType

LEMMA WatchdogStates ==
    /\ WatchdogOff \in WatchdogType /\ WatchdogOff.seen = {} /\ ~WatchdogOff.enabled
    /\ WatchdogOn \in WatchdogType /\ WatchdogOn.seen = {}
  BY DEF WatchdogOff, WatchdogOn, WatchdogType

LEMMA BootSoundness == Sound(BootHealth)
  <1> DEFINE h1 == health_set_relay_state(health_init, {}, {})
             h2 == health_set_relay_gpio_ready(h1, TRUE)
  <1>1. h1 \in HealthType(Ch)
    BY InitHealthFacts, SetRelayStateFacts
  <1>2. BootHealth = health_set_rpc_ready(h2, TRUE)
    BY DEF BootHealth
  <1>3. h2 \in HealthType(Ch)
    <2> HIDE DEF h1
    <2> QED BY <1>1, ReadySetterFacts
  <1> HIDE DEF h1, h2
  <1> QED BY <1>2, <1>3, ReadySetterFacts

LEMMA BootsAreBooted ==
    ASSUME NEW b \in BootOutcomes
    PROVE  Booted(b)
  <1> DEFINE armed == Policy = "always-on-owner"
  <1>0. armed \in BOOLEAN /\ armed = (Policy = "always-on-owner")
    OBVIOUS
  <1> HIDE DEF armed
  <1>1. CASE b = [mode |-> "app", armed |-> armed,
                  kwork |-> k_work_schedule(BootWork, watchdog_work),
                  health |-> BootHealth, watchdog |-> WatchdogOn]
    <2> DEFINE k == k_work_schedule(BootWork, watchdog_work)
    <2>1. /\ watchdog_work \in WorkItems /\ watchdog_work # comm_loss_work /\ watchdog_work # NoWork
      BY FwWork, WorkNumbers
    <2>2. /\ k \in KWorkType(WorkItems) /\ k.timers = BootWork.timers \cup {watchdog_work}
          /\ k.queued = {} /\ k.running = NoWork /\ k.canceling = FALSE
      <3>1. /\ BootWork \in KWorkType(WorkItems) /\ BootWork.queued = {} /\ BootWork.running = NoWork
            /\ BootWork.canceling = FALSE /\ BootWork.timers \subseteq {comm_loss_work}
        BY BootFacts
      <3>2. /\ k \in KWorkType(WorkItems) /\ k.queued = BootWork.queued
            /\ k.running = BootWork.running /\ k.canceling = BootWork.canceling
            /\ k.timers = IF Pending(BootWork, watchdog_work)
                             \/ (BootWork.running = watchdog_work /\ BootWork.canceling)
                          THEN BootWork.timers ELSE BootWork.timers \cup {watchdog_work}
        BY <2>1, <3>1, ScheduleFacts
      <3> HIDE DEF k
      <3> QED BY <2>1, <3>1, <3>2 DEF Pending
    <2> HIDE DEF k
    <2>3. b.kwork = k /\ b.health = BootHealth /\ b.watchdog = WatchdogOn /\ b.mode = "app" /\ b.armed = armed
      BY <1>1 DEF k
    <2> QED BY <1>0, <2>2, <2>3, BootFacts, BootSoundness, WatchdogStates DEF Booted
  <1>2. CASE b = [mode |-> "app", armed |-> armed, kwork |-> BootWork,
                  health |-> BootHealth, watchdog |-> WatchdogOff]
    <2>1. b.kwork = BootWork /\ b.health = BootHealth /\ b.watchdog = WatchdogOff /\ b.mode = "app"
          /\ b.armed = armed
      BY <1>2
    <2> QED BY <1>0, <2>1, BootFacts, BootSoundness, WatchdogStates DEF Booted
  <1>3. CASE b = [mode |-> "app", armed |-> armed, kwork |-> BootWork,
                  health |-> health_record_watchdog_supervisor_failed(BootHealth),
                  watchdog |-> WatchdogOff]
    <2>1. /\ b.kwork = BootWork /\ b.health = health_record_watchdog_supervisor_failed(BootHealth)
          /\ b.watchdog = WatchdogOff /\ b.mode = "app" /\ b.armed = armed
      BY <1>3
    <2>2. b.health \in HealthType(Ch) /\ Sound(b.health) /\ b.health.reasons = {WatchdogSupervisorFailed}
      <3>1. BootHealth \in HealthType(Ch) /\ BootHealth.reasons = {}
        BY BootFacts
      <3>2. b.health \in HealthType(Ch) /\ Sound(b.health)
            /\ b.health.reasons = BootHealth.reasons \cup {WatchdogSupervisorFailed}
        <4>1. /\ health_record_watchdog_supervisor_failed(BootHealth) \in HealthType(Ch)
              /\ Sound(health_record_watchdog_supervisor_failed(BootHealth))
              /\ health_record_watchdog_supervisor_failed(BootHealth).reasons = BootHealth.reasons \cup {WatchdogSupervisorFailed}
          BY <3>1, OtherSetterFacts
        <4> QED BY <2>1, <4>1
      <3> QED BY <3>1, <3>2
    <2> QED BY <1>0, <2>1, <2>2, BootFacts, WatchdogStates DEF Booted
  <1>4. CASE b = [mode |-> "init_failed", armed |-> FALSE, kwork |-> KWorkIdle,
                  health |-> health_record_relay_gpio_init_failed(health_init),
                  watchdog |-> WatchdogOff]
    <2>1. /\ b.kwork = KWorkIdle /\ b.health = health_record_relay_gpio_init_failed(health_init)
          /\ b.watchdog = WatchdogOff /\ b.mode = "init_failed" /\ b.armed = FALSE
      BY <1>4
    <2>2. b.health \in HealthType(Ch) /\ Sound(b.health) /\ b.health.reasons = {RelayGpioInitFailed}
      <3>1. health_init \in HealthType(Ch) /\ health_init.reasons = {}
        BY InitHealthFacts
      <3>2. b.health \in HealthType(Ch) /\ Sound(b.health)
            /\ b.health.reasons = health_init.reasons \cup {RelayGpioInitFailed}
        <4>1. /\ health_record_relay_gpio_init_failed(health_init) \in HealthType(Ch)
              /\ Sound(health_record_relay_gpio_init_failed(health_init))
              /\ health_record_relay_gpio_init_failed(health_init).reasons = health_init.reasons \cup {RelayGpioInitFailed}
          BY <3>1, OtherSetterFacts
        <4> QED BY <2>1, <4>1
      <3> QED BY <3>1, <3>2
    <2> QED BY <2>1, <2>2, IdleWork, WatchdogStates DEF Booted
  <1> QED BY <1>1, <1>2, <1>3, <1>4 DEF BootOutcomes, armed


(* Entering the bootloader, in the same form.                               *)
BootselEntry == [mode |-> "bootsel", armed |-> FALSE, kwork |-> KWorkIdle, health |-> health_init,
                 watchdog |-> WatchdogOff]

LEMMA BootselIsBooted == Booted(BootselEntry)
  <1>1. /\ BootselEntry.kwork = KWorkIdle /\ BootselEntry.health = health_init
        /\ BootselEntry.watchdog = WatchdogOff /\ BootselEntry.mode = "bootsel"
        /\ BootselEntry.armed = FALSE
    BY DEF BootselEntry
  <1>2. health_init \in HealthType(Ch) /\ health_init.reasons = {} /\ Sound(health_init)
    BY InitHealthFacts
  <1> QED BY <1>1, <1>2, IdleWork, WatchdogStates DEF Booted

(* A state in which everything starts over satisfies the invariant.         *)
Fresh ==
    \E b \in BootOutcomes \cup {BootselEntry} :
        /\ pins = {} /\ relay_state_mask = {} /\ relay_pulse_mask = {} /\ comm_loss_armed = b.armed
        /\ comm_loss_reboot_scheduled = FALSE /\ comm_loss_ind_scheduled = FALSE
        /\ relay_lock = {} /\ to_publish = [t \in Callers |-> {}]
        /\ kwork = b.kwork /\ health = b.health
        /\ mode = b.mode /\ settling = FALSE /\ promising = FALSE /\ watchdog = b.watchdog

LEMMA FreshIsSafe == Fresh => FwSafe
  <1> SUFFICES ASSUME Fresh PROVE FwSafe
    OBVIOUS
  <1>0. PICK b \in BootOutcomes \cup {BootselEntry} :
        /\ pins = {} /\ relay_state_mask = {} /\ relay_pulse_mask = {} /\ comm_loss_armed = b.armed
        /\ comm_loss_reboot_scheduled = FALSE /\ comm_loss_ind_scheduled = FALSE
        /\ relay_lock = {} /\ to_publish = [t \in Callers |-> {}]
        /\ kwork = b.kwork /\ health = b.health
        /\ mode = b.mode /\ settling = FALSE /\ promising = FALSE /\ watchdog = b.watchdog
    BY DEF Fresh
  <1>1. /\ kwork \in KWorkType(WorkItems) /\ kwork.queued = {}
        /\ kwork.timers \subseteq {comm_loss_work, watchdog_work}
        /\ kwork.running = NoWork /\ kwork.canceling = FALSE
        /\ health \in HealthType(Ch) /\ Sound(health)
        /\ health.reasons \subseteq {WatchdogSupervisorFailed, RelayGpioInitFailed}
        /\ comm_loss_armed \in BOOLEAN /\ (comm_loss_armed => Policy = "always-on-owner")
        /\ mode \in {"app", "init_failed", "bootsel"}
        /\ mode = "app" /\ Policy = "always-on-owner"
              => comm_loss_armed /\ comm_loss_work \in kwork.timers
        /\ watchdog \in WatchdogType /\ watchdog.seen = {}
        /\ watchdog.enabled => watchdog_work \in kwork.timers
    <2>1. Booted(b)
      BY <1>0, BootsAreBooted, BootselIsBooted
    <2> QED BY <1>0, <2>1 DEF Booted
  <1>2. TypeOK
    BY <1>0, <1>1 DEF TypeOK, Masks
  <1>3. \A w \in Ch \cup {comm_loss_ind_work, comm_loss_reboot_work} : ~Pending(kwork, w)
    BY <1>0, <1>1, WorkNumbers, FwWork DEF Pending
  <1>4. PulseIsTimed /\ LeaseOnlyWhileEnergized /\ OutputsFollowMask /\ OwnerLossMeansOff
    BY <1>0, <1>1, <1>3 DEF PulseIsTimed, LeaseOnlyWhileEnergized, OutputsFollowMask, OwnerLossMeansOff
  <1>5. RebootBookkeeping /\ HandlerIsServedNext /\ PulseRunsOnce /\ IndicationRunsOnce
    BY <1>0, <1>1, <1>3, WorkNumbers DEF RebootBookkeeping, HandlerIsServedNext, HandlerWaits,
       PulseRunsOnce, IndicationRunsOnce, Pending
  <1>6. ReportIsTrue /\ PromiseIsBacked /\ AcceptedIsBacked
    BY <1>0, <1>1 DEF ReportIsTrue, PromiseIsBacked, AcceptedIsBacked, CommRebootPending, HostRebootPending,
       WatchdogSupervisorFailed, RelayGpioInitFailed
  <1>7. AppLeaseIsHeld
    BY <1>0, <1>1 DEF AppLeaseIsHeld, LeaseIsHeld, comm_loss_should_arm, comm_loss_timeout_enabled, Pending
  <1>8. OnlyFaultsStarve /\ NeverCanceled /\ SeenIsLatched
    BY <1>0, <1>1 DEF OnlyFaultsStarve, FeedAhead, Pending, NeverCanceled, SeenIsLatched
  <1> QED BY <1>0, <1>1, <1>2, <1>4, <1>5, <1>6, <1>7, <1>8 DEF FwSafe, Core

LEMMA FreshNextIsSafe == Fresh' => FwSafe'
  BY FreshIsSafe, PTL

LEMMA FwInitSafe == FwInit => FwSafe
  <1>1. FwInit => Fresh
    BY DEF FwInit, Fresh
  <1> QED BY <1>1, FreshIsSafe

(* A restart, and the entry into the bootloader.                            *)
LEMMA RestartSafe == Restart => FwSafe'
  <1>1. Restart => Fresh'
    BY DEF Restart, Reset, Fresh
  <1> QED BY <1>1, FreshNextIsSafe

LEMMA BootselSafe == bootsel_work_handler => FwSafe'
  <1>1. bootsel_work_handler => Fresh'
    <2> SUFFICES ASSUME bootsel_work_handler PROVE Fresh'
      OBVIOUS
    <2>1. /\ BootselEntry.kwork = KWorkIdle /\ BootselEntry.health = health_init
          /\ BootselEntry.watchdog = WatchdogOff /\ BootselEntry.mode = "bootsel"
          /\ BootselEntry.armed = FALSE
      BY DEF BootselEntry
    <2> HIDE DEF BootselEntry
    <2> QED BY <2>1 DEF bootsel_work_handler, Reset, Fresh
  <1> QED BY <1>1, FreshNextIsSafe


-----------------------------------------------------------------------------
(* Host maintenance and the watchdog *)

(* A step of another file's thread or handler leaves the relays, the flags  *)
(* and the work of relay.c alone; it adds reasons of its own, or ends the   *)
(* pending reboots.                                                         *)
LEMMA OtherFileStep ==
    ASSUME Core, UNCHANGED <<masks, flags, relay_lock, to_publish>>,
           kwork' \in KWorkType(WorkItems),
           \A w \in WorkItems \ OtherWork : /\ w \in kwork'.timers <=> w \in kwork.timers
                                            /\ w \in kwork'.queued <=> w \in kwork.queued,
           \/ kwork'.running = kwork.running /\ kwork'.canceling = kwork.canceling
           \/ kwork.running \in OtherWork /\ kwork'.running = NoWork /\ kwork'.canceling = FALSE,
           health' \in HealthType(Ch),
           health.reasons \ PendingReasons \subseteq health'.reasons,
           health'.reasons \subseteq
              health.reasons \cup {HostRebootPending, RebootFailed, WatchdogSupervisorFailed}
    PROVE  Core' /\ (LeaseIsHeld => LeaseIsHeld')
  <1>1. /\ UNCHANGED <<pins, relay_state_mask, relay_pulse_mask, comm_loss_armed,
                       comm_loss_reboot_scheduled, comm_loss_ind_scheduled, relay_lock, to_publish>>
    BY DEF masks, flags
  <1>2. TypeOK'
    BY <1>1 DEF Core, TypeOK
  <1>3. /\ RelayIoFailed \in health'.reasons <=> RelayIoFailed \in health.reasons
        /\ CommOwnerTimeout \in health'.reasons <=> CommOwnerTimeout \in health.reasons
        /\ CommRebootPending \in health'.reasons => CommRebootPending \in health.reasons
        /\ RebootFailed \in health.reasons => RebootFailed \in health'.reasons
    BY DEF PendingReasons, RelayIoFailed, CommOwnerTimeout, CommRebootPending, RebootFailed,
       HostRebootPending, WatchdogSupervisorFailed
  <1>4. Ch \subseteq WorkItems \ OtherWork
    BY WorkNumbers
  <1>5. \A w \in WorkItems \ OtherWork : /\ w \in kwork'.timers <=> w \in kwork.timers
                                         /\ w \in kwork'.queued <=> w \in kwork.queued
                                         /\ kwork'.running = w <=> kwork.running = w
    BY WorkNumbers
  <1>6. \A c \in Ch : kwork.running = c => kwork'.canceling = kwork.canceling
    BY WorkNumbers
  <1>7. PulseIsTimed' /\ PulseRunsOnce'
    <2>1. PulsesTimed(kwork, relay_pulse_mask) /\ relay_pulse_mask \subseteq Ch
          /\ relay_pulse_mask' \subseteq relay_state_mask'
      BY <1>1, PulsesNow DEF Core, TypeOK, PulseIsTimed
    <2>2. PulsesTimed(kwork', relay_pulse_mask')
      BY <1>1, <1>4, <1>5, <1>6, <2>1 DEF PulsesTimed
    <2> QED BY <2>1, <2>2, PulsesNext
  <1>8. LeaseOnlyWhileEnergized' /\ OutputsFollowMask' /\ OwnerLossMeansOff' /\ ReportIsTrue'
    BY <1>1, <1>3 DEF Core, LeaseOnlyWhileEnergized, OutputsFollowMask, OwnerLossMeansOff,
       ReportIsTrue, IoFailed
  <1>9. {comm_loss_work, comm_loss_ind_work, comm_loss_reboot_work} \subseteq WorkItems \ OtherWork
    BY WorkNumbers
  <1>10. RebootBookkeeping' /\ IndicationRunsOnce'
    BY <1>1, <1>5, <1>9 DEF Core, RebootBookkeeping, IndicationRunsOnce, Pending
  <1>11. HandlerIsServedNext'
    BY <1>1, WorkNumbers DEF Core, HandlerIsServedNext, HandlerWaits
  <1>12. LeaseIsHeld => LeaseIsHeld'
    BY <1>1, <1>3, <1>5, <1>9 DEF LeaseIsHeld, IoFailed, Pending
  <1> QED BY <1>2, <1>7, <1>8, <1>10, <1>11, <1>12 DEF Core

(* reboot_handler() and bootsel_handler().                                  *)
LEMMA RequestSafe ==
    ASSUME FwSafe, NEW w \in MaintenanceWork, MaintenanceRequest(w)
    PROVE  FwSafe'
  <1>0. /\ Core /\ kwork \in KWorkType(WorkItems) /\ health \in HealthType(Ch)
        /\ w \in WorkItems /\ w \in OtherWork /\ Sound(health) /\ promising \in BOOLEAN
    BY FwWork, WorkNumbers DEF FwSafe, Core, TypeOK
  <1>1. UNCHANGED <<masks, flags, relay_lock, to_publish, mode, settling, watchdog>>
    BY DEF MaintenanceRequest
  <1>2. /\ kwork' \in KWorkType(WorkItems) /\ kwork'.queued = kwork.queued
        /\ kwork.timers \subseteq kwork'.timers /\ kwork'.timers \subseteq kwork.timers \cup {w}
        /\ kwork'.running = kwork.running /\ kwork'.canceling = kwork.canceling
        /\ health' \in HealthType(Ch) /\ Sound(health') /\ promising' \in BOOLEAN
        /\ \/ /\ health'.reasons = health.reasons
              /\ Pending(kwork', w) \/ kwork'.running = w
           \/ /\ health'.reasons = (health.reasons \cup {RebootFailed}) \ PendingReasons
              /\ promising' = promising
    <2>1. CASE kwork' = k_work_schedule(kwork, w) /\ promising' = TRUE /\ UNCHANGED health
      <3>1. /\ kwork' \in KWorkType(WorkItems) /\ kwork'.queued = kwork.queued
            /\ kwork'.timers = IF Pending(kwork, w) \/ (kwork.running = w /\ kwork.canceling)
                               THEN kwork.timers ELSE kwork.timers \cup {w}
            /\ kwork'.running = kwork.running /\ kwork'.canceling = kwork.canceling
        BY <1>0, <2>1, ScheduleFacts
      <3>2. health' \in HealthType(Ch) /\ Sound(health') /\ health'.reasons = health.reasons
        BY <1>0, <2>1
      <3> QED BY <2>1, <3>1, <3>2 DEF Pending
    <2>2. CASE health' = health_record_reboot_failed(health) /\ UNCHANGED <<kwork, promising>>
      <3>1. /\ health' \in HealthType(Ch) /\ Sound(health')
            /\ health'.reasons = (health.reasons \cup {RebootFailed}) \ PendingReasons
        BY <1>0, <2>2, RebootFailedFacts
      <3> QED BY <1>0, <2>2, <3>1
    <2> QED BY <2>1, <2>2 DEF MaintenanceRequest
  <1>3. Core' /\ (LeaseIsHeld => LeaseIsHeld')
    <2>1. \A v \in WorkItems \ OtherWork : /\ v \in kwork'.timers <=> v \in kwork.timers
                                           /\ v \in kwork'.queued <=> v \in kwork.queued
      BY <1>0, <1>2
    <2>2. /\ health.reasons \ PendingReasons \subseteq health'.reasons
          /\ health'.reasons \subseteq
                health.reasons \cup {HostRebootPending, RebootFailed, WatchdogSupervisorFailed}
      BY <1>2
    <2> QED BY <1>0, <1>1, <1>2, <2>1, <2>2, OtherFileStep
  <1>4. health.reasons \cap FatalReasons \subseteq health'.reasons
    BY <1>2, FwReasons DEF PendingReasons
  <1>5. PromiseIsBacked' /\ AcceptedIsBacked'
    <2>1. CASE Pending(kwork', w) \/ kwork'.running = w
      BY <2>1 DEF PromiseIsBacked, AcceptedIsBacked, RebootAhead
    <2>2. CASE /\ health'.reasons = (health.reasons \cup {RebootFailed}) \ PendingReasons
               /\ promising' = promising
      <3>1. RebootAhead => RebootAhead'
        BY <1>2 DEF RebootAhead, Pending
      <3>2. /\ RebootFaulted => RebootFaulted'
            /\ HostRebootPending \in health'.reasons => HostRebootPending \in health.reasons
        BY <2>2, FwReasons DEF RebootFaulted, PendingReasons
      <3> QED BY <2>2, <3>1, <3>2, StillBacked DEF FwSafe
    <2> QED BY <1>2, <2>1, <2>2
  <1>6. OnlyFaultsStarve' /\ SeenIsLatched'
    <2>1. FeedAhead => FeedAhead'
      BY <1>2 DEF FeedAhead, Pending
    <2> QED BY <1>1, <1>4, <2>1 DEF FwSafe, OnlyFaultsStarve, SeenIsLatched
  <1>7. AppLeaseIsHeld' /\ NeverCanceled'
    BY <1>1, <1>2, <1>3 DEF FwSafe, AppLeaseIsHeld, NeverCanceled
  <1> QED BY <1>1, <1>2, <1>3, <1>5, <1>6, <1>7 DEF FwSafe

(* The second half of an accepted request.                                  *)
LEMMA PromiseSafe ==
    ASSUME FwSafe, MaintenancePromise
    PROVE  FwSafe'
  <1>0. Core /\ kwork \in KWorkType(WorkItems) /\ health \in HealthType(Ch)
    BY DEF FwSafe, Core, TypeOK
  <1>1. /\ UNCHANGED <<masks, flags, relay_lock, to_publish, kwork, mode, settling, watchdog>>
        /\ promising = TRUE /\ promising' = FALSE
    BY DEF MaintenancePromise, FwSafe
  <1>2. /\ health' \in HealthType(Ch) /\ Sound(health')
        /\ health'.reasons = health.reasons \cup {HostRebootPending}
    BY <1>0, OtherSetterFacts DEF MaintenancePromise
  <1>3. Core' /\ (LeaseIsHeld => LeaseIsHeld')
    BY <1>0, <1>1, <1>2, OtherFileStep
  <1>4. PromiseIsBacked' /\ AcceptedIsBacked'
    <2>1. RebootAhead \/ RebootFaulted
      BY <1>1 DEF FwSafe, AcceptedIsBacked
    <2>2. RebootAhead' \/ RebootFaulted'
      BY <1>1, <1>2, <2>1 DEF RebootAhead, RebootFaulted
    <2> QED BY <1>1, <2>2 DEF PromiseIsBacked, AcceptedIsBacked
  <1>5. OnlyFaultsStarve' /\ SeenIsLatched'
    BY <1>1, <1>2 DEF FwSafe, OnlyFaultsStarve, SeenIsLatched, FeedAhead
  <1>6. AppLeaseIsHeld' /\ NeverCanceled'
    BY <1>1, <1>3 DEF FwSafe, AppLeaseIsHeld, NeverCanceled
  <1> QED BY <1>1, <1>2, <1>3, <1>4, <1>5, <1>6 DEF FwSafe

(* The snapshot that the feed handler takes.                                *)
LEMMA SnapshotSafe ==
    ASSUME FwSafe, WatchdogSnapshot
    PROVE  FwSafe'
  <1>1. /\ watchdog' = [watchdog EXCEPT !.seen = {health.snapshot_reasons}]
        /\ UNCHANGED <<vars, mode, settling, promising>>
    BY DEF WatchdogSnapshot
  <1>2. UNCHANGED <<pins, relay_state_mask, relay_pulse_mask, comm_loss_armed,
                    comm_loss_reboot_scheduled, comm_loss_ind_scheduled, relay_lock, to_publish,
                    kwork, health>>
    BY <1>1 DEF vars
  <1>3. kwork' \in KWorkType(WorkItems) /\ health' \in HealthType(Ch) /\ Core
    BY <1>2 DEF FwSafe, Core, TypeOK
  <1>4. Core' /\ (LeaseIsHeld => LeaseIsHeld')
    <2>1. UNCHANGED <<masks, flags, relay_lock, to_publish>>
      BY <1>2 DEF masks, flags
    <2> QED BY <1>2, <1>3, <2>1, OtherFileStep
  <1>5. /\ watchdog' \in WatchdogType /\ watchdog'.enabled = watchdog.enabled
        /\ watchdog'.seen = {health.snapshot_reasons}
    <2>1. {health.snapshot_reasons} \in SUBSET (SUBSET Reasons)
      BY <1>2, <1>3 DEF HealthType
    <2> QED BY <1>1, <2>1 DEF FwSafe, WatchdogType
  <1>6. SeenIsLatched'
    BY <1>2, <1>5, FwReasons DEF FwSafe, Sound, SeenIsLatched
  <1>7. AppLeaseIsHeld' /\ PromiseIsBacked' /\ AcceptedIsBacked' /\ OnlyFaultsStarve'
        /\ NeverCanceled' /\ Sound(health')
    BY <1>1, <1>2, <1>4, <1>5 DEF FwSafe, AppLeaseIsHeld, PromiseIsBacked, AcceptedIsBacked,
       RebootAhead, RebootFaulted, OnlyFaultsStarve, FeedAhead, NeverCanceled, Pending
  <1> QED BY <1>1, <1>4, <1>5, <1>6, <1>7 DEF FwSafe


(* watchdog_work_handler() after its snapshot: it schedules the next feed,  *)
(* or a fatal reason is in force when it does not.                          *)
LEMMA FeedSafe ==
    ASSUME FwSafe, watchdog_work_handler
    PROVE  FwSafe'
  <1>0. /\ Core /\ kwork \in KWorkType(WorkItems) /\ health \in HealthType(Ch)
        /\ watchdog_work \in WorkItems /\ watchdog_work \in OtherWork
        /\ kwork.running = watchdog_work /\ ~kwork.canceling /\ watchdog \in WatchdogType
    BY FwWork, WorkNumbers DEF FwSafe, Core, TypeOK, NeverCanceled, watchdog_work_handler
  <1>1. UNCHANGED <<masks, flags, relay_lock, to_publish, mode, settling, promising>>
    BY DEF watchdog_work_handler
  <1>2. /\ kwork' \in KWorkType(WorkItems) /\ kwork'.queued = kwork.queued
        /\ kwork'.running = NoWork /\ kwork'.canceling = FALSE
        /\ kwork.timers \subseteq kwork'.timers /\ kwork'.timers \subseteq kwork.timers \cup {watchdog_work}
        /\ health' \in HealthType(Ch) /\ Sound(health')
        /\ health.reasons \subseteq health'.reasons
        /\ health'.reasons \subseteq health.reasons \cup {WatchdogSupervisorFailed}
        /\ watchdog' \in WatchdogType /\ watchdog'.seen = {}
        /\ Pending(kwork', watchdog_work) \/ health'.reasons \cap FatalReasons # {}
    <2>1. PICK rs \in watchdog.seen :
             LET allowed == rs \cap FatalReasons = {} IN
             \/ /\ allowed
                /\ kwork' = HandlerDone(k_work_schedule(kwork, watchdog_work))
                /\ watchdog' = [watchdog EXCEPT !.seen = {}]
                /\ UNCHANGED health
             \/ /\ allowed /\ WatchdogMayFail
                /\ kwork' = HandlerDone(kwork)
                /\ watchdog' = [watchdog EXCEPT !.seen = {}, !.healthy = FALSE]
                /\ health' = health_record_watchdog_supervisor_failed(health)
             \/ /\ ~allowed
                /\ kwork' = HandlerDone(kwork)
                /\ watchdog' = [watchdog EXCEPT !.seen = {}, !.healthy = FALSE]
                /\ UNCHANGED health
      BY DEF watchdog_work_handler
    <2>2. /\ [watchdog EXCEPT !.seen = {}] \in WatchdogType
          /\ [watchdog EXCEPT !.seen = {}].seen = {}
          /\ [watchdog EXCEPT !.seen = {}, !.healthy = FALSE] \in WatchdogType
          /\ [watchdog EXCEPT !.seen = {}, !.healthy = FALSE].seen = {}
      BY <1>0 DEF WatchdogType
    <2>3. CASE /\ kwork' = HandlerDone(k_work_schedule(kwork, watchdog_work))
               /\ watchdog' = [watchdog EXCEPT !.seen = {}]
               /\ UNCHANGED health
      <3> DEFINE k == k_work_schedule(kwork, watchdog_work)
      <3>1. /\ k \in KWorkType(WorkItems) /\ k.queued = kwork.queued
            /\ k.timers = IF Pending(kwork, watchdog_work)
                             \/ (kwork.running = watchdog_work /\ kwork.canceling)
                          THEN kwork.timers ELSE kwork.timers \cup {watchdog_work}
        <4>1. kwork \in KWorkType(WorkItems) /\ watchdog_work \in WorkItems
          BY <1>0
        <4> QED BY <4>1 DEF k_work_schedule, Pending, KWorkType
      <3>2. kwork' = HandlerDone(k)
        BY <2>3
      <3> HIDE DEF k
      <3>3. /\ kwork' \in KWorkType(WorkItems) /\ kwork'.timers = k.timers /\ kwork'.queued = k.queued
            /\ kwork'.running = NoWork /\ kwork'.canceling = FALSE
        BY <3>1, <3>2, DoneFacts
      <3>4. Pending(kwork', watchdog_work)
        BY <1>0, <3>1, <3>3 DEF Pending
      <3> QED BY <1>0, <2>2, <2>3, <3>1, <3>3, <3>4 DEF FwSafe
    <2>4. CASE kwork' = HandlerDone(kwork)
      <3>1. /\ kwork' \in KWorkType(WorkItems) /\ kwork'.timers = kwork.timers
            /\ kwork'.queued = kwork.queued /\ kwork'.running = NoWork /\ kwork'.canceling = FALSE
        BY <1>0, <2>4, DoneFacts
      <3>2. CASE /\ watchdog' = [watchdog EXCEPT !.seen = {}, !.healthy = FALSE]
                 /\ health' = health_record_watchdog_supervisor_failed(health)
        <4>1. /\ health' \in HealthType(Ch) /\ Sound(health')
              /\ health'.reasons = health.reasons \cup {WatchdogSupervisorFailed}
          BY <1>0, <3>2, OtherSetterFacts
        <4> QED BY <2>2, <3>1, <3>2, <4>1, FwReasons
      <3>3. CASE /\ rs \cap FatalReasons # {}
                 /\ watchdog' = [watchdog EXCEPT !.seen = {}, !.healthy = FALSE]
                 /\ UNCHANGED health
        <4>1. health'.reasons \cap FatalReasons # {}
          BY <3>3 DEF FwSafe, SeenIsLatched
        <4> QED BY <1>0, <2>2, <3>1, <3>3, <4>1 DEF FwSafe
      <3> QED BY <2>1, <2>3, <3>2, <3>3
    <2> QED BY <2>1, <2>3, <2>4
  <1>3. Core' /\ (LeaseIsHeld => LeaseIsHeld')
    <2>1. \A v \in WorkItems \ OtherWork : /\ v \in kwork'.timers <=> v \in kwork.timers
                                           /\ v \in kwork'.queued <=> v \in kwork.queued
      BY <1>0, <1>2
    <2> QED BY <1>0, <1>1, <1>2, <2>1, OtherFileStep
  <1>4. PromiseIsBacked' /\ AcceptedIsBacked'
    <2>1. RebootAhead => RebootAhead'
      BY <1>0, <1>2, FwWork DEF RebootAhead, Pending
    <2>2. /\ RebootFaulted => RebootFaulted'
          /\ HostRebootPending \in health'.reasons => HostRebootPending \in health.reasons
      BY <1>2, FwReasons DEF RebootFaulted
    <2> QED BY <1>1, <2>1, <2>2, StillBacked DEF FwSafe
  <1>5. OnlyFaultsStarve' /\ SeenIsLatched' /\ NeverCanceled'
    BY <1>2 DEF OnlyFaultsStarve, FeedAhead, SeenIsLatched, NeverCanceled
  <1>6. AppLeaseIsHeld'
    BY <1>1, <1>3 DEF FwSafe, AppLeaseIsHeld
  <1> QED BY <1>1, <1>2, <1>3, <1>4, <1>5, <1>6 DEF FwSafe

(* The first part of the reboot and bootsel handlers.                       *)
LEMMA AllOffSafe ==
    ASSUME FwSafe, NEW w \in MaintenanceWork, MaintenanceAllOff(w)
    PROVE  FwSafe'
  <1> DEFINE quiet == k_work_cancel_delayable(kwork, Ch)
  <1>0. /\ Core /\ TypeOK /\ kwork \in KWorkType(WorkItems) /\ health \in HealthType(Ch)
        /\ w \in WorkItems /\ w \in OtherWork /\ w \notin Ch /\ w \notin LockingWork /\ w # NoWork
        /\ w # comm_loss_reboot_work /\ w # watchdog_work
    BY FwWork, WorkNumbers DEF FwSafe, Core, TypeOK
  <1>1. /\ kwork.running = w /\ relay_lock = {} /\ relay_pulse_mask' = {}
        /\ UNCHANGED <<relay_lock, to_publish, mode, promising, watchdog>> /\ ~kwork.canceling
    BY <1>0 DEF MaintenanceAllOff, HandlerRuns, FwSafe, NeverCanceled
  <1>2. /\ quiet \in KWorkType(WorkItems) /\ quiet.running = w /\ ~quiet.canceling
        /\ quiet.timers = kwork.timers \ Ch /\ quiet.queued = kwork.queued \ Ch
    <2>1. kwork \in KWorkType(WorkItems)
      BY <1>0
    <2>2. /\ quiet \in KWorkType(WorkItems) /\ quiet.running = kwork.running
          /\ quiet.canceling = (kwork.canceling \/ kwork.running \in Ch)
          /\ quiet.timers = kwork.timers \ Ch /\ quiet.queued = kwork.queued \ Ch
      BY <2>1, CancelFacts
    <2> HIDE DEF quiet
    <2> QED BY <1>0, <1>1, <2>2
  <1>3. CASE /\ pins' = {} /\ relay_state_mask' = {} /\ LeaseRenewed(quiet, {}, {})
             /\ health' = health_set_relay_state(OwnerBack, {}, {}) /\ settling' = TRUE
    <2> HIDE DEF quiet
    <2> DEFINE arm == comm_loss_should_arm({}, {})
    <2>1. /\ kwork' \in KWorkType(WorkItems) /\ kwork'.running = w
          /\ kwork'.timers = IF arm
                THEN (quiet.timers \ {comm_loss_ind_work, comm_loss_reboot_work}) \cup {comm_loss_work}
                ELSE quiet.timers \ {comm_loss_ind_work, comm_loss_reboot_work, comm_loss_work}
          /\ kwork'.queued = IF arm
                THEN quiet.queued \ {comm_loss_ind_work, comm_loss_reboot_work}
                ELSE quiet.queued \ {comm_loss_ind_work, comm_loss_reboot_work, comm_loss_work}
          /\ comm_loss_armed' = arm /\ comm_loss_armed' \in BOOLEAN
          /\ comm_loss_reboot_scheduled' = FALSE /\ comm_loss_ind_scheduled' = FALSE
      BY <1>2, <1>3, LeaseFacts
    <2>2. ~kwork'.canceling
      <3>1. kwork'.canceling = (quiet.canceling \/ quiet.running \in {comm_loss_ind_work, comm_loss_reboot_work}
                                 \/ (~arm /\ quiet.running = comm_loss_work))
        BY <1>2, <1>3, LeaseFacts
      <3> QED BY <1>0, <1>2, <3>1, WorkNumbers
    <2>3. /\ health' \in HealthType(Ch) /\ Sound(health')
          /\ health'.reasons = health.reasons \
                (IF comm_loss_reboot_scheduled THEN {CommOwnerTimeout, CommRebootPending}
                                               ELSE {CommOwnerTimeout})
      BY <1>0, <1>3, OwnerBackFacts, SetRelayStateFacts
    <2>4. TypeOK'
      BY <1>0, <1>1, <1>3, <2>1, <2>3 DEF TypeOK
    <2>5. \A c \in Ch : c \notin kwork'.timers /\ c \notin kwork'.queued /\ kwork'.running # c
      BY <1>0, <1>2, <2>1, WorkNumbers
    <2>6. PulseIsTimed' /\ PulseRunsOnce'
      BY <1>1, <1>3, <2>5 DEF PulseIsTimed, PulseRunsOnce, Pending
    <2>7. LeaseOnlyWhileEnergized' /\ OutputsFollowMask' /\ OwnerLossMeansOff' /\ LeaseIsHeld'
      BY <1>1, <1>3, <2>1 DEF LeaseOnlyWhileEnergized, OutputsFollowMask, OwnerLossMeansOff,
         LeaseIsHeld, comm_loss_should_arm, Pending
    <2>8. RebootBookkeeping' /\ IndicationRunsOnce' /\ HandlerIsServedNext'
      BY <1>0, <2>1, WorkNumbers DEF RebootBookkeeping, IndicationRunsOnce, HandlerIsServedNext,
         HandlerWaits, Pending
    <2>9. ReportIsTrue'
      BY <2>3 DEF FwSafe, Core, ReportIsTrue
    <2>10. PromiseIsBacked' /\ AcceptedIsBacked' /\ NeverCanceled'
      BY <2>1, <2>2 DEF PromiseIsBacked, AcceptedIsBacked, RebootAhead, NeverCanceled
    <2>11. health.reasons \cap FatalReasons \subseteq health'.reasons
      BY <2>3, FwReasons
    <2>12. OnlyFaultsStarve' /\ SeenIsLatched'
      <3>1. FeedAhead => FeedAhead'
        BY <1>0, <1>1, <1>2, <2>1, FwWork, WorkNumbers DEF FeedAhead, Pending
      <3> QED BY <1>1, <2>11, <3>1 DEF FwSafe, OnlyFaultsStarve, SeenIsLatched
    <2> QED BY <1>1, <1>3, <2>3, <2>4, <2>6, <2>7, <2>8, <2>9, <2>10, <2>12
            DEF FwSafe, Core, AppLeaseIsHeld
  <1>4. CASE /\ \E i \in Ch : pins' = Written({}, i)
             /\ kwork' = HandlerDone(quiet)
             /\ health' = health_record_reboot_failed(health_record_relay_io_error(health))
             /\ UNCHANGED <<relay_state_mask, flags, settling>>
    <2> HIDE DEF quiet
    <2>1. /\ kwork' \in KWorkType(WorkItems) /\ kwork'.running = NoWork /\ kwork'.canceling = FALSE
          /\ kwork'.timers = kwork.timers \ Ch /\ kwork'.queued = kwork.queued \ Ch
      BY <1>2, <1>4, DoneFacts
    <2>2. /\ health' \in HealthType(Ch) /\ Sound(health')
          /\ health'.reasons = (health.reasons \cup {RelayIoFailed, RebootFailed}) \ PendingReasons
      <3> DEFINE h == health_record_relay_io_error(health)
      <3>1. h \in HealthType(Ch) /\ h.reasons = health.reasons \cup {RelayIoFailed}
        BY <1>0, NamedSetterFacts
      <3>2. health' = health_record_reboot_failed(h)
        BY <1>4
      <3> HIDE DEF h
      <3>3. /\ health' \in HealthType(Ch) /\ Sound(health')
            /\ health'.reasons = (h.reasons \cup {RebootFailed}) \ PendingReasons
        BY <3>1, <3>2, RebootFailedFacts
      <3> QED BY <3>1, <3>3
    <2>3. pins' \in SUBSET Ch
      BY <1>4 DEF Written
    <2>4. TypeOK'
      BY <1>0, <1>1, <1>4, <2>1, <2>2, <2>3 DEF TypeOK, flags
    <2>5. /\ RelayIoFailed \in health'.reasons
          /\ health'.reasons \cap {CommRebootPending, HostRebootPending} = {}
          /\ health.reasons \cap FatalReasons \subseteq health'.reasons
      BY <2>2, FwReasons DEF PendingReasons, RelayIoFailed, CommRebootPending, HostRebootPending
    <2>6. PulseIsTimed' /\ PulseRunsOnce'
      BY <1>1, <2>1 DEF PulseIsTimed, PulseRunsOnce, Pending
    <2>7. LeaseIsHeld' /\ OutputsFollowMask' /\ OwnerLossMeansOff' /\ ReportIsTrue'
      BY <2>5 DEF LeaseIsHeld, OutputsFollowMask, OwnerLossMeansOff, ReportIsTrue, IoFailed
    <2>8. LeaseOnlyWhileEnergized'
      BY <1>4 DEF FwSafe, Core, LeaseOnlyWhileEnergized, flags
    <2>9. \A v \in {comm_loss_ind_work, comm_loss_reboot_work} :
             /\ v \in kwork'.timers <=> v \in kwork.timers
             /\ v \in kwork'.queued <=> v \in kwork.queued
             /\ kwork'.running # v /\ kwork.running # v
      BY <1>0, <1>1, <2>1, WorkNumbers
    <2>10. RebootBookkeeping' /\ IndicationRunsOnce'
      BY <1>4, <2>9 DEF FwSafe, Core, RebootBookkeeping, IndicationRunsOnce, Pending, flags
    <2>11. HandlerIsServedNext' /\ NeverCanceled'
      BY <2>1, WorkNumbers DEF HandlerIsServedNext, HandlerWaits, NeverCanceled
    <2>12. PromiseIsBacked' /\ AcceptedIsBacked'
      <3>1. RebootFaulted'
        BY <2>2, FwReasons DEF RebootFaulted, PendingReasons
      <3> QED BY <3>1 DEF PromiseIsBacked, AcceptedIsBacked
    <2>13. OnlyFaultsStarve' /\ SeenIsLatched'
      BY <1>1, <2>5, FwReasons DEF FwSafe, OnlyFaultsStarve, SeenIsLatched
    <2> QED BY <1>1, <1>4, <2>2, <2>4, <2>6, <2>7, <2>8, <2>10, <2>11, <2>12, <2>13
            DEF FwSafe, Core, AppLeaseIsHeld
  <1> QED BY <1>3, <1>4 DEF MaintenanceAllOff

-----------------------------------------------------------------------------

(* No step of the firmware breaks the invariant.                            *)
LEMMA FwNextSafe == FwSafe /\ [FwNext]_fwvars => FwSafe'
  <1> SUFFICES ASSUME FwSafe, [FwNext]_fwvars PROVE FwSafe'
    OBVIOUS
  <1>0. Core
    BY DEF FwSafe
  <1>1. CASE UNCHANGED fwvars
    <2>1. UNCHANGED <<vars, mode, settling, promising, watchdog>>
      BY <1>1 DEF fwvars
    <2>2. Kept
      <3>1. UNCHANGED <<pins, relay_state_mask, relay_pulse_mask, comm_loss_armed,
                        comm_loss_reboot_scheduled, comm_loss_ind_scheduled, relay_lock,
                        to_publish, kwork, health>>
        BY <2>1 DEF vars
      <3>2. TypeOK'
        BY <1>0, <3>1 DEF Core, TypeOK
      <3>3. Core'
        BY <1>0, <3>1, <3>2 DEF Core, HandlerWaits, PulseIsTimed, LeaseOnlyWhileEnergized,
           OutputsFollowMask, OwnerLossMeansOff, RebootBookkeeping, ReportIsTrue,
           HandlerIsServedNext, IndicationRunsOnce, PulseRunsOnce, IoFailed, Pending
      <3>4. (LeaseIsHeld => LeaseIsHeld') /\ (Announced => Announced')
        BY <3>1 DEF LeaseIsHeld, Announced, RebootIsAnnounced, AnnouncementPrecedesReboot,
           IoFailed, Pending
      <3>5. Spares(kwork, kwork') /\ SparesReasons(health, health')
        BY <3>1 DEF Spares, SparesReasons
      <3> QED BY <3>3, <3>4, <3>5 DEF Kept
    <2> QED BY <2>1, <2>2, RelayMoves DEF fw
  <1>2. ASSUME NEW t \in Callers, (FwLock(t) \/ Call(t) \/ publish(t)) /\ UNCHANGED fw
        PROVE  FwSafe'
    <2>1. Kept
      BY <1>0, <1>2, LockStep, CallerStep DEF FwLock
    <2> QED BY <1>2, <2>1, RelayMoves
  <1>3. ASSUME NEW w \in WorkItems, (TimerExpires(w) \/ Dispatch(w)) /\ UNCHANGED fw
        PROVE  FwSafe'
    <2>1. Kept
      BY <1>0, <1>3, TimerStep, DispatchStep
    <2> QED BY <1>3, <2>1, RelayMoves
  <1>4. CASE RelayHandler /\ UNCHANGED fw
    <2>1. Kept
      BY <1>0, <1>4, PulseExpiredStep, CommLossExpiredStep, IndicationStep DEF RelayHandler
    <2> QED BY <1>4, <2>1, RelayMoves
  <1>5. ASSUME NEW w \in MaintenanceWork, MaintenanceAllOff(w) PROVE FwSafe'
    BY <1>5, AllOffSafe
  <1>6. CASE Restart
    BY <1>6, RestartSafe
  <1>7. CASE bootsel_work_handler
    BY <1>7, BootselSafe
  <1>8. CASE WatchdogSnapshot \/ watchdog_work_handler
    BY <1>8, SnapshotSafe, FeedSafe
  <1>9. CASE reboot_handler \/ bootsel_handler \/ MaintenancePromise
    BY <1>9, RequestSafe, PromiseSafe DEF reboot_handler, bootsel_handler, MaintenanceWork
  <1>10. CASE FwHandler
    BY <1>4, <1>5, <1>6, <1>7, <1>8, <1>10 DEF FwHandler, reboot_work_handler
  <1>11. CASE handle_relay_init_failure \/ LeaveBootsel \/ WatchdogBites
    BY <1>6, <1>11 DEF handle_relay_init_failure, LeaveBootsel, WatchdogBites
  <1> QED BY <1>1, <1>2, <1>3, <1>9, <1>10, <1>11 DEF FwNext

(* The inductive invariant of the firmware holds of every reachable state.  *)
THEOREM FirmwareSafety == FwSpec => []FwSafe
  BY FwInitSafe, FwNextSafe, PTL DEF FwSpec

(* The guarantees of relay.c hold in the whole firmware: pulses are timed,  *)
(* relays have a lease, the autonomous reboot's flags and works agree,      *)
(* whatever the host requests, the watchdog and failed boots add.           *)
THEOREM FirmwareKeepsRelays == FwSpec => []FwInv
  <1>1. FwSafe => FwInv
    BY DEF FwSafe, Core, FwInv, FwTypeOK
  <1> QED BY <1>1, FirmwareSafety, PTL

(* relay_mgmt.c reports host_reboot_pending only while a reboot or bootsel  *)
(* handler is ahead or at work, or after one failed in its all-off and      *)
(* latched the fault that the watchdog resets the board for.                *)
THEOREM PromisesAreBacked == FwSpec => []PromiseIsBacked
  <1>1. FwSafe => PromiseIsBacked
    BY DEF FwSafe
  <1> QED BY <1>1, FirmwareSafety, PTL

(* watchdog_supervisor.c: an enabled watchdog that no feed is coming for    *)
(* has a fatal reason latched.                                              *)
THEOREM StarvedByFaultsOnly == FwSpec => []OnlyFaultsStarve
  <1>1. FwSafe => OnlyFaultsStarve
    BY DEF FwSafe
  <1> QED BY <1>1, FirmwareSafety, PTL
=============================================================================
