------------------------------- MODULE Relay -------------------------------
(***************************************************************************)
(* firmware/src/relay.c: relay outputs, pulses, the communication-loss     *)
(* lease and the autonomous reboot that may follow it.                     *)
(*                                                                         *)
(* Threads.  API calls run on preemptible threads (Callers: the SMP thread *)
(* of the management protocol and the shell).  A call takes relay_lock,    *)
(* runs its critical section, unlocks, and only then publishes the masks   *)
(* it copied to the health model: three steps.  Timer handlers run on the  *)
(* cooperative system workqueue, whose priority is above every caller's: a *)
(* handler that has started waits at most for the section of the caller    *)
(* that holds the lock (mutex hand-off goes to the highest priority        *)
(* waiter), then runs to its end, publication included.                    *)
(*                                                                         *)
(* Masks are sets of channels.  Time is abstract: a running timer may end  *)
(* at any moment.                                                          *)
(***************************************************************************)
EXTENDS Integers, FiniteSets, KWork, Health

CONSTANTS
    N,                \* RP2350_RELAY_6CH_CHANNEL_COUNT
    Callers,          \* the threads that call the relay API
    Policy,           \* the communication-loss policy of the build
    RebootOnTimeout,  \* ..._ALWAYS_ON_OWNER_REBOOT_ON_TIMEOUT
    ShortRebootDelay, \* the reboot delay is within the final warning window
    GpioMayFail,      \* gpio_pin_set_dt() may return an error
    ScheduleMayFail   \* k_work_schedule() may return an error

Policies == {"energized-only", "no-comm-timeout", "always-on-owner"}

ASSUME RelayAssumption ==
    /\ N \in Nat \ {0}
    /\ Policy \in Policies
    /\ RebootOnTimeout \in BOOLEAN
    /\ RebootOnTimeout => Policy = "always-on-owner"
    /\ {ShortRebootDelay, GpioMayFail, ScheduleMayFail} \subseteq BOOLEAN

Ch == 0..(N - 1)

(* Work items: pulse work i is i; then the singletons of relay.c and, for  *)
(* the modules built on this one, those of relay_mgmt.c and the watchdog.  *)
comm_loss_work        == N
comm_loss_ind_work    == N + 1
comm_loss_reboot_work == N + 2
reboot_work           == N + 3
bootsel_work          == N + 4
watchdog_work         == N + 5
WorkItems             == 0..(N + 5)
LockingWork           == 0..(N + 1)   \* handlers that take relay_lock

VARIABLES
    pins,                  \* channels whose GPIO output is active
    relay_state_mask,
    relay_pulse_mask,
    comm_loss_armed,
    comm_loss_reboot_scheduled,
    comm_loss_ind_scheduled,
    relay_lock,            \* the caller that owns the mutex, as a set
    to_publish,            \* per caller: masks copied in its section, not yet published
    kwork,                 \* the system workqueue
    health                 \* the health model

masks == <<pins, relay_state_mask, relay_pulse_mask>>
flags == <<comm_loss_armed, comm_loss_reboot_scheduled, comm_loss_ind_scheduled>>
vars  == <<pins, relay_state_mask, relay_pulse_mask, comm_loss_armed,
           comm_loss_reboot_scheduled, comm_loss_ind_scheduled, relay_lock,
           to_publish, kwork, health>>

Masks == [state : SUBSET Ch, pulse : SUBSET Ch]

TypeOK ==
    /\ pins \in SUBSET Ch
    /\ relay_state_mask \in SUBSET Ch
    /\ relay_pulse_mask \in SUBSET Ch
    /\ {comm_loss_armed, comm_loss_reboot_scheduled, comm_loss_ind_scheduled} \subseteq BOOLEAN
    /\ relay_lock \in SUBSET Callers
    /\ to_publish \in [Callers -> SUBSET Masks]
    /\ kwork \in KWorkType(WorkItems)
    /\ health \in HealthType(Ch)

-----------------------------------------------------------------------------
(* Helpers of relay.c that are called with relay_lock held *)

comm_loss_timeout_enabled == Policy # "no-comm-timeout"

(* Slip: only pulses arm the lease. *)
comm_loss_should_arm_PulsesOnly(sm, pm) == comm_loss_timeout_enabled /\ pm # {}

comm_loss_should_arm(sm, pm) ==
    /\ comm_loss_timeout_enabled
    /\ Policy = "always-on-owner" \/ sm # {} \/ pm # {}

(* comm_loss_schedule_locked(): arm and restart the lease timer, or disarm. *)
comm_loss_schedule(k, sm, pm) ==
    IF comm_loss_should_arm(sm, pm)
    THEN k_work_reschedule(k, comm_loss_work)
    ELSE k_work_cancel_delayable(k, {comm_loss_work})

(* Slip: idle means no pulse. *)
DisarmsIfIdle_NoPulse(sm, pm) == Policy = "energized-only" /\ pm = {}

(* comm_loss_disarm_if_idle_locked() *)
DisarmsIfIdle(sm, pm) == Policy = "energized-only" /\ sm = {} /\ pm = {}

(* Slip: only the warning is canceled. *)
comm_loss_cancel_reboot_WarningOnly(k) == k_work_cancel_delayable(k, {comm_loss_ind_work})

(* comm_loss_cancel_reboot_locked(), its effect on the workqueue. *)
comm_loss_cancel_reboot(k) ==
    k_work_cancel_delayable(k, {comm_loss_ind_work, comm_loss_reboot_work})

(* Slip: the timeout stays reported. *)
OwnerBack_StillTimedOut ==
    IF comm_loss_reboot_scheduled THEN health_set_comm_reboot_pending(health, FALSE) ELSE health

(* What every successful control command and heartbeat ends its section    *)
(* with: the pending reboot is canceled, the owner is back, and the lease  *)
(* is renewed for the new masks.  k is the workqueue before it.            *)
OwnerBack ==
    LET back == health_set_comm_owner_timed_out(health, FALSE)
    IN  IF comm_loss_reboot_scheduled
        THEN health_set_comm_reboot_pending(back, FALSE) ELSE back

LeaseRenewed(k, sm, pm) ==
    /\ comm_loss_reboot_scheduled' = FALSE
    /\ comm_loss_ind_scheduled' = FALSE
    /\ comm_loss_armed' = comm_loss_should_arm(sm, pm)
    /\ kwork' = comm_loss_schedule(comm_loss_cancel_reboot(k), sm, pm)

OwnershipRestored(k, sm, pm) == LeaseRenewed(k, sm, pm) /\ health' = OwnerBack

(* The GPIO outputs after the first i channels of mask were written. *)
Written(mask, i) == {c \in Ch : IF c < i THEN c \in mask ELSE c \in pins}

(* Slip: the error is returned and not recorded. *)
GpioFailed_Unrecorded(mask, i, k) ==
    /\ GpioMayFail
    /\ pins' = Written(mask, i)
    /\ kwork' = k
    /\ UNCHANGED <<relay_state_mask, flags, health>>

(* set_channel_locked() and apply_state_locked(), when the GPIO write fails *)
(* at channel i: the channels before it keep their new level, the mask and  *)
(* the lease are left alone, and the error is latched.                      *)
GpioFailed(mask, i, k) ==
    /\ GpioMayFail
    /\ pins' = Written(mask, i)
    /\ kwork' = k
    /\ health' = health_record_relay_io_error(health)
    /\ UNCHANGED <<relay_state_mask, flags>>

ChannelSet(m, c, on) == IF on THEN m \cup {c} ELSE m \ {c}

-----------------------------------------------------------------------------
(* The API, called by thread t *)

(* A started handler that takes the lock is served before any caller. *)
HandlerWaits == kwork.running \in LockingWork

Lock(t) ==
    /\ relay_lock = {} /\ to_publish[t] = {} /\ ~HandlerWaits
    /\ relay_lock' = {t}
    /\ UNCHANGED <<masks, flags, to_publish, kwork, health>>

Unlock(t) == t \in relay_lock /\ relay_lock' = {}

CopyMasks(t, sm, pm) ==
    to_publish' = [to_publish EXCEPT ![t] = {[state |-> sm, pulse |-> pm]}]

(* Slip: the pulse timer is canceled, the pulse bit stays. *)
relay_set_KeepsPulse(t, c, on) ==
    /\ Unlock(t)
    /\ pins' = ChannelSet(pins, c, on)
    /\ relay_state_mask' = ChannelSet(relay_state_mask, c, on)
    /\ OwnershipRestored(k_work_cancel_delayable(kwork, {c}), relay_state_mask', relay_pulse_mask)
    /\ CopyMasks(t, relay_state_mask', relay_pulse_mask)
    /\ UNCHANGED relay_pulse_mask

relay_set(t, c, on) ==
    /\ Unlock(t)
    /\ relay_pulse_mask' = relay_pulse_mask \ {c}
    /\ \/ /\ pins' = ChannelSet(pins, c, on)
          /\ relay_state_mask' = ChannelSet(relay_state_mask, c, on)
          /\ OwnershipRestored(k_work_cancel_delayable(kwork, {c}),
                               relay_state_mask', relay_pulse_mask')
          /\ CopyMasks(t, relay_state_mask', relay_pulse_mask')
       \/ /\ GpioFailed({}, 0, k_work_cancel_delayable(kwork, {c}))
          /\ UNCHANGED to_publish

(* Slip: the pulse bits are cleared, the pulse timers run on. *)
relay_set_all_KeepsTimers(t, mask) ==
    /\ Unlock(t)
    /\ pins' = mask /\ relay_state_mask' = mask /\ relay_pulse_mask' = {}
    /\ OwnershipRestored(kwork, mask, {})
    /\ CopyMasks(t, mask, {})

(* Also relay_off_all(), with mask = {}. *)
relay_set_all(t, mask) ==
    /\ Unlock(t)
    /\ relay_pulse_mask' = {}
    /\ \/ /\ pins' = mask
          /\ relay_state_mask' = mask
          /\ OwnershipRestored(k_work_cancel_delayable(kwork, Ch), mask, {})
          /\ CopyMasks(t, mask, {})
       \/ /\ \E i \in Ch : GpioFailed(mask, i, k_work_cancel_delayable(kwork, Ch))
          /\ UNCHANGED to_publish

(* Slip: the pulse timer is not started. *)
relay_pulse_Untimed(t, c) ==
    /\ Unlock(t)
    /\ c \notin relay_pulse_mask
    /\ pins' = pins \cup {c}
    /\ relay_state_mask' = relay_state_mask \cup {c}
    /\ relay_pulse_mask' = relay_pulse_mask \cup {c}
    /\ OwnershipRestored(kwork, relay_state_mask', relay_pulse_mask')
    /\ CopyMasks(t, relay_state_mask', relay_pulse_mask')

relay_pulse(t, c) ==
    /\ Unlock(t)
    /\ c \notin relay_pulse_mask
    /\ \/ /\ pins' = pins \cup {c}
          /\ relay_state_mask' = relay_state_mask \cup {c}
          /\ relay_pulse_mask' = relay_pulse_mask \cup {c}
          /\ OwnershipRestored(k_work_schedule(kwork, c),
                               relay_state_mask', relay_pulse_mask')
          /\ CopyMasks(t, relay_state_mask', relay_pulse_mask')
       \/ /\ GpioFailed({}, 0, kwork)
          /\ UNCHANGED <<relay_pulse_mask, to_publish>>

(* The pulse is refused (-EBUSY), or its timer could not be started and the *)
(* channel is switched off again; that second write may fail too.           *)
relay_pulse_refused(t, c) ==
    /\ Unlock(t)
    /\ \/ /\ c \in relay_pulse_mask
          /\ UNCHANGED <<pins, relay_state_mask, health>>
       \/ /\ c \notin relay_pulse_mask /\ ScheduleMayFail
          /\ pins' = pins \ {c}
          /\ relay_state_mask' = relay_state_mask \ {c}
          /\ UNCHANGED health
       \/ /\ c \notin relay_pulse_mask /\ ScheduleMayFail /\ GpioMayFail
          /\ pins' = pins \cup {c}
          /\ relay_state_mask' = relay_state_mask \cup {c}
          /\ health' = health_record_relay_io_error(health)
    /\ UNCHANGED <<relay_pulse_mask, flags, to_publish, kwork>>

(* The heartbeat. It publishes no masks. *)
relay_comm_loss_renew(t) ==
    /\ Unlock(t)
    /\ OwnershipRestored(kwork, relay_state_mask, relay_pulse_mask)
    /\ UNCHANGED <<masks, to_publish>>

(* publish_indicator_state() after the unlock, with the copied masks. *)
publish(t) ==
    /\ to_publish[t] # {}
    /\ \E m \in to_publish[t] :
          health' = health_set_relay_state(health, m.state, m.pulse)
    /\ to_publish' = [to_publish EXCEPT ![t] = {}]
    /\ UNCHANGED <<masks, flags, relay_lock, kwork>>

-----------------------------------------------------------------------------
(* The workqueue *)

(* The reboot deadline is ten seconds after the indication's: the warning   *)
(* has been given when it passes.                                           *)
TimerExpires(w) ==
    /\ w \in kwork.timers
    /\ w = comm_loss_reboot_work => ~Pending(kwork, comm_loss_ind_work)
    /\ kwork' = TimerFired(kwork, w)
    /\ UNCHANGED <<masks, flags, relay_lock, to_publish, health>>

Dispatch(w) ==
    /\ kwork.running = NoWork
    /\ w \in kwork.queued
    /\ kwork' = Dispatched(kwork, w)
    /\ UNCHANGED <<masks, flags, relay_lock, to_publish, health>>

(* The handler of w has started and gets the lock. *)
HandlerRuns(w) ==
    /\ kwork.running = w /\ relay_lock = {}
    /\ UNCHANGED <<relay_lock, to_publish>>

pulse_expired(c) ==
    /\ HandlerRuns(c)
    /\ \/ /\ c \notin relay_pulse_mask
          /\ kwork' = HandlerDone(kwork)
          /\ UNCHANGED <<masks, flags, health>>
       \/ /\ c \in relay_pulse_mask
          /\ relay_pulse_mask' = relay_pulse_mask \ {c}
          /\ pins' = pins \ {c}
          /\ relay_state_mask' = relay_state_mask \ {c}
          /\ health' = health_set_relay_state(health, relay_state_mask', relay_pulse_mask')
          /\ LET idle == DisarmsIfIdle(relay_state_mask', relay_pulse_mask') IN
             /\ comm_loss_armed' = (comm_loss_armed /\ ~idle)
             /\ kwork' = HandlerDone(IF idle THEN k_work_cancel_delayable(kwork, {comm_loss_work})
                                             ELSE kwork)
          /\ UNCHANGED <<comm_loss_reboot_scheduled, comm_loss_ind_scheduled>>
       \/ /\ c \in relay_pulse_mask
          /\ relay_pulse_mask' = relay_pulse_mask \ {c}
          /\ GpioFailed({}, 0, HandlerDone(kwork))

(* Slip: the reboot is promised and not scheduled. *)
AfterOwnerTimeout_NotScheduled(h, k) ==
    /\ comm_loss_armed' = FALSE /\ kwork' = HandlerDone(k) /\ health' = h
    /\ comm_loss_reboot_scheduled' = TRUE /\ comm_loss_ind_scheduled' = TRUE

(* The owner is lost and the outputs are off: what the policy does next.    *)
(* h is the health model with the timeout and the new masks published, k    *)
(* the workqueue with all pulses canceled.                                  *)
AfterOwnerTimeout(h, k) ==
    IF ~RebootOnTimeout
    THEN /\ comm_loss_armed' = (Policy = "always-on-owner")
         /\ kwork' = HandlerDone(IF comm_loss_armed' THEN comm_loss_schedule(k, {}, {}) ELSE k)
         /\ health' = h
         /\ UNCHANGED <<comm_loss_reboot_scheduled, comm_loss_ind_scheduled>>
    ELSE /\ comm_loss_armed' = FALSE
         /\ \/ /\ comm_loss_reboot_scheduled' = TRUE
               /\ comm_loss_ind_scheduled' = TRUE
               /\ LET scheduled == k_work_schedule(k, comm_loss_reboot_work) IN
                  IF ShortRebootDelay
                  THEN /\ health' = health_set_comm_reboot_pending(h, TRUE)
                       /\ kwork' = HandlerDone(scheduled)
                  ELSE /\ health' = h
                       /\ kwork' = HandlerDone(k_work_schedule(scheduled, comm_loss_ind_work))
            \/ /\ ScheduleMayFail
               /\ comm_loss_reboot_scheduled' = FALSE
               /\ comm_loss_ind_scheduled' = FALSE
               /\ health' = health_record_reboot_failed(h)
               /\ kwork' = HandlerDone(k_work_cancel_delayable(k, {comm_loss_ind_work}))

comm_loss_expired ==
    /\ HandlerRuns(comm_loss_work)
    /\ LET quiet == k_work_cancel_delayable(kwork, Ch) IN
       \/ /\ ~comm_loss_armed
          /\ kwork' = HandlerDone(kwork)
          /\ UNCHANGED <<masks, flags, health>>
       \/ /\ comm_loss_armed
          /\ pins' = {} /\ relay_state_mask' = {} /\ relay_pulse_mask' = {}
          /\ AfterOwnerTimeout(health_set_relay_state(
                 health_set_comm_owner_timed_out(health, TRUE), {}, {}), quiet)
       \/ /\ comm_loss_armed
          /\ relay_pulse_mask' = {}
          /\ \E i \in Ch : GpioFailed({}, i, HandlerDone(quiet))

comm_loss_reboot_pending_indication_expired ==
    /\ HandlerRuns(comm_loss_ind_work)
    /\ IF comm_loss_ind_scheduled /\ comm_loss_reboot_scheduled
       THEN /\ comm_loss_ind_scheduled' = FALSE
            /\ health' = health_set_comm_reboot_pending(health, TRUE)
       ELSE UNCHANGED <<comm_loss_ind_scheduled, health>>
    /\ kwork' = HandlerDone(kwork)
    /\ UNCHANGED <<masks, comm_loss_armed, comm_loss_reboot_scheduled>>

-----------------------------------------------------------------------------
(* Boot and reset *)

(* The health model once main() has published GPIO and RPC readiness. *)
BootHealth == health_set_rpc_ready(health_set_relay_gpio_ready(
                  health_set_relay_state(health_init, {}, {}), TRUE), TRUE)

(* relay_init(): outputs inactive; the always-on lease starts at boot. *)
BootWork == IF Policy = "always-on-owner" THEN comm_loss_schedule(KWorkIdle, {}, {})
            ELSE KWorkIdle

Init ==
    /\ pins = {} /\ relay_state_mask = {} /\ relay_pulse_mask = {}
    /\ comm_loss_armed = (Policy = "always-on-owner")
    /\ comm_loss_reboot_scheduled = FALSE
    /\ comm_loss_ind_scheduled = FALSE
    /\ relay_lock = {}
    /\ to_publish = [t \in Callers |-> {}]
    /\ kwork = BootWork
    /\ health = BootHealth

(* A cold reset, at any point of any thread: everything starts over, with  *)
(* the lease, the workqueue and the health model the boot leaves.          *)
Reset(armed, k, h) ==
    /\ pins' = {} /\ relay_state_mask' = {} /\ relay_pulse_mask' = {}
    /\ comm_loss_armed' = armed
    /\ comm_loss_reboot_scheduled' = FALSE
    /\ comm_loss_ind_scheduled' = FALSE
    /\ relay_lock' = {}
    /\ to_publish' = [t \in Callers |-> {}]
    /\ kwork' = k
    /\ health' = h

(* comm_loss_reboot_expired(): detach USB, sleep, reset.  The handler takes *)
(* no lock and looks at no flag; callers may run during its sleep.          *)
comm_loss_reboot_expired ==
    /\ kwork.running = comm_loss_reboot_work
    /\ Reset(Policy = "always-on-owner", BootWork, BootHealth)

-----------------------------------------------------------------------------

Call(t) ==
    \/ \E c \in Ch, on \in BOOLEAN : relay_set(t, c, on)
    \/ \E mask \in SUBSET Ch : relay_set_all(t, mask)
    \/ \E c \in Ch : relay_pulse(t, c)
    \/ \E c \in Ch : relay_pulse_refused(t, c)
    \/ relay_comm_loss_renew(t)

Handler ==
    \/ \E c \in Ch : pulse_expired(c)
    \/ comm_loss_expired
    \/ comm_loss_reboot_pending_indication_expired
    \/ comm_loss_reboot_expired

Next ==
    \/ \E t \in Callers : Lock(t) \/ Call(t) \/ publish(t)
    \/ \E w \in WorkItems : TimerExpires(w) \/ Dispatch(w)
    \/ Handler

Spec == Init /\ [][Next]_vars

(* Threads that hold the lock or have something to publish get to run, a    *)
(* delay ends, and the queue is first in, first out, so that a queued item  *)
(* is dispatched again and again until its turn.  The lease timer is not    *)
(* here: a host that keeps renewing it may put its end off for ever.  No    *)
(* caller has to call.                                                      *)
Fairness ==
    /\ \A t \in Callers : WF_vars(Call(t)) /\ WF_vars(publish(t))
    /\ \A w \in WorkItems : SF_vars(Dispatch(w))
    /\ \A w \in WorkItems \ {comm_loss_work} : WF_vars(TimerExpires(w))
    /\ WF_vars(Handler)

FairSpec == Spec /\ Fairness

-----------------------------------------------------------------------------
(* Properties *)

IoFailed == RelayIoFailed \in health.reasons

(* A channel in relay_pulse_mask is on, and the run of pulse_expired() that *)
(* ends it is ahead: its timer runs, it is queued, or it has started and    *)
(* was not canceled.  No other channel has a pulse timer left over, which   *)
(* would cut the channel's next pulse short.  Pulses are canceled and       *)
(* restarted by callers while their handlers wait for the lock.             *)
PulseIsTimed ==
    /\ relay_pulse_mask \subseteq relay_state_mask
    /\ \A c \in relay_pulse_mask :
          Pending(kwork, c) \/ (kwork.running = c /\ ~kwork.canceling)
    /\ \A c \in Ch : Pending(kwork, c) => c \in relay_pulse_mask

(* Whenever the policy wants a lease (energized-only: a relay is on;        *)
(* always-on-owner: always), comm_loss_armed is set and comm_loss_expired() *)
(* is ahead; or the relays are off and the owner's loss has already led to  *)
(* a scheduled reboot or a recorded reboot failure.  Only a GPIO failure,   *)
(* which the health model latches, can leave a relay on without a lease.    *)
LeaseIsHeld ==
    comm_loss_should_arm(relay_state_mask, relay_pulse_mask) /\ ~IoFailed =>
        \/ /\ comm_loss_armed
           /\ Pending(kwork, comm_loss_work) \/ kwork.running = comm_loss_work
        \/ /\ relay_state_mask = {}
           /\ comm_loss_reboot_scheduled \/ RebootFailed \in health.reasons

(* The energized-only lease is released when the last relay goes off,       *)
(* whichever of set, set_all, a pulse's end or the timeout switched it off. *)
LeaseOnlyWhileEnergized ==
    Policy = "energized-only" /\ comm_loss_armed /\ ~ScheduleMayFail =>
        relay_state_mask # {}

(* The commanded mask is what the outputs show, unless a GPIO write failed  *)
(* half way and the failure is latched.                                     *)
OutputsFollowMask == pins = relay_state_mask \/ IoFailed

(* comm_owner_timeout is reported only while every relay is commanded off   *)
(* (or a GPIO failure is latched): each command that can switch one on      *)
(* takes ownership back in the same critical section.                       *)
OwnerLossMeansOff ==
    CommOwnerTimeout \in health.reasons => relay_state_mask = {} \/ IoFailed

(* The reboot flags and the reboot work agree, although the work is         *)
(* scheduled after the flags are set and canceled from other threads: no    *)
(* reboot is coming that the flag does not show, the flag never promises    *)
(* one that is not coming, and no lease is armed while one is coming.       *)
RebootBookkeeping ==
    /\ ~(comm_loss_armed /\ comm_loss_reboot_scheduled)
    /\ Pending(kwork, comm_loss_reboot_work) => comm_loss_reboot_scheduled
    /\ comm_loss_reboot_scheduled =>
          Pending(kwork, comm_loss_reboot_work) \/ kwork.running = comm_loss_reboot_work
    /\ Pending(kwork, comm_loss_ind_work) =>
          comm_loss_reboot_scheduled /\ comm_loss_ind_scheduled

(* comm_reboot_pending is reported only while the autonomous reboot is      *)
(* scheduled, and an autonomous reboot that nobody canceled is reported     *)
(* before its handler starts.                                               *)
RebootIsAnnounced ==
    /\ CommRebootPending \in health.reasons => comm_loss_reboot_scheduled
    /\ kwork.running = comm_loss_reboot_work /\ comm_loss_reboot_scheduled =>
          CommRebootPending \in health.reasons

(* The strengthening that makes the safety properties above inductive:      *)
(* - after a caller canceled the handler that waits for relay_lock, no      *)
(*   other caller gets the lock before that handler, so the canceled pulse  *)
(*   is not restarted while k_work_schedule() would ignore it;              *)
(* - a pulse work and the indication work have one run ahead at most;       *)
(* - a scheduled reboot is announced, or its announcement is still ahead    *)
(*   of it.                                                                 *)
HandlerIsServedNext ==
    /\ kwork.running = NoWork => ~kwork.canceling
    /\ HandlerWaits /\ kwork.canceling =>
          relay_lock = {} /\ kwork.running \notin relay_pulse_mask
    /\ kwork.running \in Ch \ relay_pulse_mask => relay_lock = {}
PulseRunsOnce ==
    \A c \in Ch : /\ ~(c \in kwork.timers /\ c \in kwork.queued)
                  /\ kwork.running = c => ~Pending(kwork, c)
IndicationRunsOnce ==
    /\ ~(comm_loss_ind_work \in kwork.timers /\ comm_loss_ind_work \in kwork.queued)
    /\ kwork.running = comm_loss_ind_work => ~Pending(kwork, comm_loss_ind_work)
AnnouncementPrecedesReboot ==
    comm_loss_reboot_scheduled =>
        \/ CommRebootPending \in health.reasons
        \/ /\ Pending(kwork, comm_loss_ind_work)
           /\ comm_loss_reboot_work \notin kwork.queued
           /\ kwork.running # comm_loss_reboot_work
        \/ kwork.running = comm_loss_ind_work /\ comm_loss_ind_scheduled

(* All of it: what every step of every thread preserves. *)
RelayInv ==
    /\ TypeOK
    /\ PulseIsTimed /\ LeaseIsHeld /\ LeaseOnlyWhileEnergized
    /\ OutputsFollowMask /\ OwnerLossMeansOff
    /\ RebootBookkeeping /\ RebootIsAnnounced
    /\ HandlerIsServedNext /\ PulseRunsOnce /\ IndicationRunsOnce
    /\ AnnouncementPrecedesReboot

(* The owner times out only when the latest lease has run out: when         *)
(* comm_loss_expired() switches the relays off no lease timer is running.   *)
(* docs/protocol/relay-management.md: "heartbeat renews the firmware        *)
(* communication-loss lease".  Not true of the code: README, section 4.     *)
RenewedLeaseHolds ==
    [][CommOwnerTimeout \notin health.reasons /\ CommOwnerTimeout \in health'.reasons
          => comm_loss_work \notin kwork.timers]_vars

(* When no call is in progress and no handler runs, the masks the status    *)
(* command reads from the health model are the relay masks.                 *)
(* docs/health-model.md: "The next processed `status` command must observe  *)
(* the updated health snapshot."  Not true of the code: README, section 4.  *)
StatusMatchesRelays ==
    relay_lock = {} /\ kwork.running = NoWork /\ (\A t \in Callers : to_publish[t] = {})
        => /\ health.relay_state_mask = relay_state_mask
           /\ health.pulse_mask = relay_pulse_mask

(* Every pulse ends: the bit in relay_pulse_mask that pulse_expired() or a  *)
(* later command clears does not stay set.                                  *)
PulseEnds == \A c \in Ch : (c \in relay_pulse_mask) ~> (c \notin relay_pulse_mask)

(* An autonomous reboot that was scheduled takes place or is canceled.      *)
RebootIsResolved ==
    comm_loss_reboot_scheduled ~> ~comm_loss_reboot_scheduled

(* A host that falls silent: once no caller takes the lock any more, and    *)
(* the lease timer is allowed to run out, all relays go off and stay off,   *)
(* or the GPIO failure that prevents it is latched.                         *)
SilentHostTurnsOff ==
    <>[](relay_lock = {}) /\ WF_vars(TimerExpires(comm_loss_work))
        => <>[](relay_state_mask = {} \/ IoFailed)

=============================================================================
