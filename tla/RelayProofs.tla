---------------------------- MODULE RelayProofs ----------------------------
(***************************************************************************)
(* Proofs about Relay: the safety invariants hold for every number of      *)
(* channels, every set of calling threads, every policy, and whether or    *)
(* not GPIO writes and work scheduling can fail.                           *)
(***************************************************************************)
EXTENDS Relay, TLAPS

-----------------------------------------------------------------------------
(* Lemmas about the workqueue operations *)

(* k_work_cancel_delayable() keeps the queue well formed and changes only   *)
(* the items it is given.                                                   *)
LEMMA CancelFacts ==
    ASSUME NEW S, NEW k \in KWorkType(S), NEW W
    PROVE  LET r == k_work_cancel_delayable(k, W) IN
           /\ r \in KWorkType(S)
           /\ r.timers = k.timers \ W
           /\ r.queued = k.queued \ W
           /\ r.running = k.running
           /\ r.canceling = (k.canceling \/ k.running \in W)
  BY DEF k_work_cancel_delayable, KWorkType

(* k_work_reschedule() starts the item's timer and nothing else.            *)
LEMMA RescheduleFacts ==
    ASSUME NEW S, NEW k \in KWorkType(S), NEW w \in S
    PROVE  LET r == k_work_reschedule(k, w) IN
           /\ r \in KWorkType(S)
           /\ r.timers = k.timers \cup {w}
           /\ r.queued = k.queued
           /\ r.running = k.running
           /\ r.canceling = k.canceling
  BY DEF k_work_reschedule, KWorkType

(* k_work_schedule() starts the timer of an item that has no run ahead,     *)
(* unless the item is running and canceled.                                 *)
LEMMA ScheduleFacts ==
    ASSUME NEW S, NEW k \in KWorkType(S), NEW w \in S
    PROVE  LET r == k_work_schedule(k, w) IN
           /\ r \in KWorkType(S)
           /\ r.timers = IF Pending(k, w) \/ (k.running = w /\ k.canceling)
                         THEN k.timers ELSE k.timers \cup {w}
           /\ r.queued = k.queued
           /\ r.running = k.running
           /\ r.canceling = k.canceling
  BY DEF k_work_schedule, Pending, KWorkType

(* k_work_schedule() of an item that is neither pending nor running.        *)
LEMMA ScheduleStarts ==
    ASSUME NEW S, NEW k \in KWorkType(S), NEW w \in S,
           w \notin k.timers \cup k.queued, k.running # w
    PROVE  LET r == k_work_schedule(k, w) IN
           /\ r \in KWorkType(S)
           /\ r.timers = k.timers \cup {w}
           /\ r.queued = k.queued
           /\ r.running = k.running
  BY DEF k_work_schedule, KWorkType

(* A timer that ends submits its item, unless the item is being canceled.   *)
LEMMA FiredFacts ==
    ASSUME NEW S, NEW k \in KWorkType(S), NEW w \in S
    PROVE  LET r == TimerFired(k, w) IN
           /\ r \in KWorkType(S)
           /\ r.timers = k.timers \ {w}
           /\ r.queued = IF k.running = w /\ k.canceling THEN k.queued
                         ELSE k.queued \cup {w}
           /\ r.running = k.running
           /\ r.canceling = k.canceling
  BY DEF TimerFired, KWorkType

(* Dispatching moves an item from the queue to the workqueue thread.        *)
LEMMA DispatchFacts ==
    ASSUME NEW S, NEW k \in KWorkType(S), NEW w \in S
    PROVE  LET r == Dispatched(k, w) IN
           /\ r \in KWorkType(S)
           /\ r.timers = k.timers
           /\ r.queued = k.queued \ {w}
           /\ r.running = w
           /\ r.canceling = k.canceling
  BY DEF Dispatched, KWorkType

(* A handler that returns leaves the thread idle and the timers alone.      *)
LEMMA DoneFacts ==
    ASSUME NEW S, NEW k \in KWorkType(S)
    PROVE  LET r == HandlerDone(k) IN
           /\ r \in KWorkType(S)
           /\ r.timers = k.timers
           /\ r.queued = k.queued
           /\ r.running = NoWork
           /\ r.canceling = FALSE
  BY DEF HandlerDone, KWorkType

-----------------------------------------------------------------------------
(* Lemmas about the health model *)

(* primary_reason() names a reason or "none".                               *)
LEMMA PrimaryReasonType ==
    ASSUME NEW rs \in SUBSET Reasons PROVE primary_reason(rs) \in Reasons \cup {"none"}
  <1> DEFINE active == {i \in 1..9 : ReasonPriority[i] \in rs}
             first == CHOOSE i \in 1..9 : /\ ReasonPriority[i] \in rs
                                         /\ \A j \in 1..(i - 1) : ReasonPriority[j] \notin rs
  <1>0. /\ ReasonPriority[1] = CommRebootPending
        /\ ReasonPriority[2] = HostRebootPending
        /\ ReasonPriority[3] = RebootFailed
        /\ ReasonPriority[4] = RelayGpioInitFailed
        /\ ReasonPriority[5] = RelayIoFailed
        /\ ReasonPriority[6] = WatchdogSupervisorFailed
        /\ ReasonPriority[7] = CommOwnerTimeout
        /\ ReasonPriority[8] = RpcNotReady
        /\ ReasonPriority[9] = IndicatorDegraded
    BY DEF ReasonPriority
  <1>1. CASE rs = {}
    BY <1>1 DEF primary_reason
  <1>2. CASE rs # {}
    <2>0. active # {} /\ active \subseteq 1..9
      <3>1. PICK r \in rs : r \in Reasons
        BY <1>2
      <3>2. r \in {ReasonPriority[1], ReasonPriority[2], ReasonPriority[3], ReasonPriority[4],
                   ReasonPriority[5], ReasonPriority[6], ReasonPriority[7], ReasonPriority[8],
                   ReasonPriority[9]}
        BY <1>0, <3>1 DEF Reasons, StoredReasons, PendingReasons, FaultReasons, AttentionReasons
      <3>3. PICK i \in 1..9 : r = ReasonPriority[i]
        BY <3>2
      <3> QED BY <3>3
    <2>1. \E i \in active : \A j \in active : i <= j
      <3> HIDE DEF active
      <3>1. active \subseteq 1..9 BY <2>0
      <3>2. CASE 1 \in active  BY <3>1, <3>2
      <3>3. CASE 1 \notin active /\ 2 \in active  BY <3>1, <3>3
      <3>4. CASE 1 \notin active /\ 2 \notin active /\ 3 \in active  BY <3>1, <3>4
      <3>5. CASE active \cap (1..3) = {} /\ 4 \in active  BY <3>1, <3>5
      <3>6. CASE active \cap (1..4) = {} /\ 5 \in active  BY <3>1, <3>6
      <3>7. CASE active \cap (1..5) = {} /\ 6 \in active  BY <3>1, <3>7
      <3>8. CASE active \cap (1..6) = {} /\ 7 \in active  BY <3>1, <3>8
      <3>9. CASE active \cap (1..7) = {} /\ 8 \in active  BY <3>1, <3>9
      <3>10. CASE active \cap (1..8) = {}
        <4>1. \A i \in active : i = 9  BY <3>1, <3>10
        <4>2. 9 \in active  BY <2>0, <4>1
        <4> QED BY <4>1, <4>2
      <3> QED BY <3>1, <3>2, <3>3, <3>4, <3>5, <3>6, <3>7, <3>8, <3>9, <3>10
    <2>2. \E i \in 1..9 : /\ ReasonPriority[i] \in rs
                          /\ \A j \in 1..(i - 1) : ReasonPriority[j] \notin rs
      <3>1. PICK i \in active : \A j \in active : i <= j
        BY <2>1
      <3>2. i \in 1..9 /\ ReasonPriority[i] \in rs
        BY <3>1
      <3>3. ASSUME NEW j \in 1..(i - 1) PROVE ReasonPriority[j] \notin rs
        <4>1. j \in 1..9 /\ ~(i <= j)
          BY <3>2
        <4>2. j \notin active
          BY <3>1, <4>1
        <4> QED BY <4>1, <4>2
      <3> QED BY <3>2, <3>3
    <2>3. first \in 1..9
      BY <2>2
    <2>4. primary_reason(rs) = ReasonPriority[first]
      BY <1>2 DEF primary_reason
    <2>5. \A i \in 1..9 : ReasonPriority[i] \in Reasons
      <3> SUFFICES ASSUME NEW i \in 1..9 PROVE ReasonPriority[i] \in Reasons
        OBVIOUS
      <3> USE DEF Reasons, StoredReasons, PendingReasons, FaultReasons, AttentionReasons
      <3>2. i = 1 \/ i = 2 \/ i = 3 \/ i = 4 \/ i = 5 \/ i = 6 \/ i = 7 \/ i = 8 \/ i = 9
        OBVIOUS
      <3> QED BY <1>0, <3>2
    <2> HIDE DEF first
    <2> QED BY <2>3, <2>4, <2>5
  <1> QED BY <1>1, <1>2

(* The derived snapshot shows no reason but the stored ones and rpc_ready's. *)
Sound(h) == h.snapshot_reasons \subseteq h.reasons \cup {RpcNotReady}

(* Every setter ends with recompute(): it keeps the model well formed,      *)
(* brings the snapshot up to date and leaves the facts and the masks as the *)
(* setter left them.                                                        *)
LEMMA RecomputeFacts ==
    ASSUME NEW C, NEW h \in HealthType(C)
    PROVE  LET r == recompute(h) IN
           /\ r \in HealthType(C)
           /\ r.reasons = h.reasons
           /\ r.relay_state_mask = h.relay_state_mask
           /\ r.pulse_mask = h.pulse_mask
           /\ r.rpc_ready = h.rpc_ready
           /\ r.relay_gpio_ready = h.relay_gpio_ready
           /\ Sound(r)
  <1> DEFINE rs == h.reasons \cup (IF h.rpc_ready THEN {} ELSE {RpcNotReady})
             seen == [h EXCEPT !.ready_seen = @ \/ (h.relay_gpio_ready /\ h.rpc_ready)]
             p == primary_reason(rs)
             d == derive_state(seen, rs)
  <1>1. rs \in SUBSET Reasons /\ rs \subseteq h.reasons \cup {RpcNotReady}
    BY DEF HealthType, Reasons
  <1>2. p \in Reasons \cup {"none"}
    BY <1>1, PrimaryReasonType
  <1>3. d \in HealthStates
    BY DEF derive_state, HealthStates
  <1>4. seen \in HealthType(C) /\ seen.reasons = h.reasons
        /\ seen.relay_state_mask = h.relay_state_mask /\ seen.pulse_mask = h.pulse_mask
        /\ seen.rpc_ready = h.rpc_ready /\ seen.relay_gpio_ready = h.relay_gpio_ready
    BY DEF HealthType
  <1>5. recompute(h) = [seen EXCEPT !.snapshot_reasons = rs, !.primary_reason = p, !.state = d]
    BY DEF recompute
  <1> HIDE DEF rs, seen, p, d
  <1> QED BY <1>1, <1>2, <1>3, <1>4, <1>5 DEF HealthType, Sound

(* Setting or clearing a reason changes that reason and no other.           *)
LEMMA SetReasonFacts ==
    ASSUME NEW C, NEW h \in HealthType(C), NEW r \in StoredReasons, NEW b \in BOOLEAN
    PROVE  /\ SetReason(h, r, b) \in HealthType(C)
           /\ SetReason(h, r, b).reasons = IF b THEN h.reasons \cup {r} ELSE h.reasons \ {r}
           /\ Sound(SetReason(h, r, b))
  <1> DEFINE rs == IF b THEN h.reasons \cup {r} ELSE h.reasons \ {r}
             g == [h EXCEPT !.reasons = rs]
  <1>1. rs \in SUBSET StoredReasons
    BY DEF HealthType
  <1>2. g \in HealthType(C) /\ g.reasons = rs
    BY <1>1 DEF HealthType
  <1>3. SetReason(h, r, b) = recompute(g)
    BY DEF SetReason
  <1> HIDE DEF rs, g
  <1>4. SetReason(h, r, b).reasons = rs /\ SetReason(h, r, b) \in HealthType(C)
        /\ Sound(SetReason(h, r, b))
    BY <1>2, <1>3, RecomputeFacts
  <1> QED BY <1>4 DEF rs

(* Publishing masks leaves the reasons alone.                               *)
LEMMA SetRelayStateFacts ==
    ASSUME NEW C, NEW h \in HealthType(C), NEW sm \in SUBSET C, NEW pm \in SUBSET C
    PROVE  /\ health_set_relay_state(h, sm, pm) \in HealthType(C)
           /\ health_set_relay_state(h, sm, pm).reasons = h.reasons
           /\ Sound(health_set_relay_state(h, sm, pm))
  <1> DEFINE g == [h EXCEPT !.relay_state_mask = sm, !.pulse_mask = pm]
  <1>1. g \in HealthType(C) /\ g.reasons = h.reasons
    BY DEF HealthType
  <1>2. health_set_relay_state(h, sm, pm) = recompute(g)
    BY DEF health_set_relay_state
  <1> HIDE DEF g
  <1> QED BY <1>1, <1>2, RecomputeFacts

(* A failed reboot is latched and no reboot stays pending.                  *)
LEMMA RebootFailedFacts ==
    ASSUME NEW C, NEW h \in HealthType(C)
    PROVE  /\ health_record_reboot_failed(h) \in HealthType(C)
           /\ health_record_reboot_failed(h).reasons
                 = (h.reasons \cup {RebootFailed}) \ PendingReasons
           /\ Sound(health_record_reboot_failed(h))
  <1> DEFINE rs == (h.reasons \cup {RebootFailed}) \ PendingReasons
             g == [h EXCEPT !.reasons = rs]
  <1>1. rs \in SUBSET StoredReasons
    BY DEF HealthType, StoredReasons, FaultReasons
  <1>2. g \in HealthType(C) /\ g.reasons = rs
    BY <1>1 DEF HealthType
  <1>3. health_record_reboot_failed(h) = recompute(g)
    BY DEF health_record_reboot_failed
  <1> HIDE DEF g, rs
  <1>4. health_record_reboot_failed(h).reasons = rs /\ health_record_reboot_failed(h) \in HealthType(C)
        /\ Sound(health_record_reboot_failed(h))
    BY <1>2, <1>3, RecomputeFacts
  <1> QED BY <1>4 DEF rs

(* The setters relay.c calls, by name.                                      *)
LEMMA NamedSetterFacts ==
    ASSUME NEW C, NEW h \in HealthType(C), NEW b \in BOOLEAN
    PROVE  /\ health_set_comm_owner_timed_out(h, b) \in HealthType(C)
           /\ health_set_comm_owner_timed_out(h, b).reasons =
                 IF b THEN h.reasons \cup {CommOwnerTimeout} ELSE h.reasons \ {CommOwnerTimeout}
           /\ Sound(health_set_comm_owner_timed_out(h, b))
           /\ health_set_comm_reboot_pending(h, b) \in HealthType(C)
           /\ health_set_comm_reboot_pending(h, b).reasons =
                 IF b THEN h.reasons \cup {CommRebootPending} ELSE h.reasons \ {CommRebootPending}
           /\ Sound(health_set_comm_reboot_pending(h, b))
           /\ health_record_relay_io_error(h) \in HealthType(C)
           /\ health_record_relay_io_error(h).reasons = h.reasons \cup {RelayIoFailed}
           /\ Sound(health_record_relay_io_error(h))
  <1>1. \A r \in StoredReasons, v \in BOOLEAN :
           /\ SetReason(h, r, v) \in HealthType(C)
           /\ SetReason(h, r, v).reasons = IF v THEN h.reasons \cup {r} ELSE h.reasons \ {r}
           /\ Sound(SetReason(h, r, v))
    BY SetReasonFacts
  <1>2. CommOwnerTimeout \in StoredReasons
    BY DEF StoredReasons, AttentionReasons
  <1>3. CommRebootPending \in StoredReasons
    BY DEF StoredReasons, PendingReasons
  <1>4. RelayIoFailed \in StoredReasons
    BY DEF StoredReasons, FaultReasons
  <1> QED BY <1>1, <1>2, <1>3, <1>4 DEF health_set_comm_owner_timed_out,
             health_set_comm_reboot_pending, health_record_relay_io_error

(* The setters of main.c, relay_mgmt.c and the watchdog supervisor.         *)
LEMMA OtherSetterFacts ==
    ASSUME NEW C, NEW h \in HealthType(C)
    PROVE  /\ health_set_host_reboot_pending(h, TRUE) \in HealthType(C)
           /\ health_set_host_reboot_pending(h, TRUE).reasons = h.reasons \cup {HostRebootPending}
           /\ Sound(health_set_host_reboot_pending(h, TRUE))
           /\ health_record_watchdog_supervisor_failed(h) \in HealthType(C)
           /\ health_record_watchdog_supervisor_failed(h).reasons
                 = h.reasons \cup {WatchdogSupervisorFailed}
           /\ Sound(health_record_watchdog_supervisor_failed(h))
           /\ health_record_relay_gpio_init_failed(h) \in HealthType(C)
           /\ health_record_relay_gpio_init_failed(h).reasons = h.reasons \cup {RelayGpioInitFailed}
           /\ Sound(health_record_relay_gpio_init_failed(h))
  <1>1. \A r \in StoredReasons, v \in BOOLEAN :
           /\ SetReason(h, r, v) \in HealthType(C)
           /\ SetReason(h, r, v).reasons = IF v THEN h.reasons \cup {r} ELSE h.reasons \ {r}
           /\ Sound(SetReason(h, r, v))
    BY SetReasonFacts
  <1>2. {HostRebootPending, WatchdogSupervisorFailed, RelayGpioInitFailed} \subseteq StoredReasons
    BY DEF StoredReasons, PendingReasons, FaultReasons
  <1> QED BY <1>1, <1>2 DEF health_set_host_reboot_pending,
             health_record_watchdog_supervisor_failed, health_record_relay_gpio_init_failed

(* The health model main() leaves after a clean boot has no reason active.  *)
LEMMA InitHealthFacts ==
    ASSUME NEW C
    PROVE  health_init \in HealthType(C) /\ health_init.reasons = {} /\ Sound(health_init)
  <1> DEFINE g == [relay_gpio_ready |-> FALSE, rpc_ready |-> FALSE, ready_seen |-> FALSE,
               reasons |-> {}, relay_state_mask |-> {}, pulse_mask |-> {},
               snapshot_reasons |-> {}, primary_reason |-> "none", state |-> "booting"]
  <1>1. g \in HealthType(C) /\ g.reasons = {}
    BY DEF HealthType, HealthStates
  <1>2. health_init = recompute(g)
    BY DEF health_init
  <1> HIDE DEF g
  <1> QED BY <1>1, <1>2, RecomputeFacts

(* Readiness facts leave the reasons alone.                                 *)
LEMMA ReadySetterFacts ==
    ASSUME NEW C, NEW h \in HealthType(C), NEW b \in BOOLEAN
    PROVE  /\ health_set_relay_gpio_ready(h, b) \in HealthType(C)
           /\ health_set_relay_gpio_ready(h, b).reasons = h.reasons
           /\ health_set_rpc_ready(h, b) \in HealthType(C)
           /\ health_set_rpc_ready(h, b).reasons = h.reasons
           /\ Sound(health_set_relay_gpio_ready(h, b)) /\ Sound(health_set_rpc_ready(h, b))
  <1> DEFINE g1 == [h EXCEPT !.relay_gpio_ready = b]
             g2 == [h EXCEPT !.rpc_ready = b]
  <1>1. g1 \in HealthType(C) /\ g1.reasons = h.reasons /\ g2 \in HealthType(C) /\ g2.reasons = h.reasons
    BY DEF HealthType
  <1>2. health_set_relay_gpio_ready(h, b) = recompute(g1) /\ health_set_rpc_ready(h, b) = recompute(g2)
    BY DEF health_set_relay_gpio_ready, health_set_rpc_ready
  <1> HIDE DEF g1, g2
  <1> QED BY <1>1, <1>2, RecomputeFacts

-----------------------------------------------------------------------------
(* RelayInv in three parts.  Core is preserved whatever else the firmware   *)
(* does; the lease is lost only by a boot that fails, and the announcement  *)
(* of an autonomous reboot by a failed host reboot, which clears it.        *)
ReportIsTrue == CommRebootPending \in health.reasons => comm_loss_reboot_scheduled

Core ==
    /\ TypeOK /\ PulseIsTimed /\ LeaseOnlyWhileEnergized
    /\ OutputsFollowMask /\ OwnerLossMeansOff /\ RebootBookkeeping /\ ReportIsTrue
    /\ HandlerIsServedNext /\ PulseRunsOnce /\ IndicationRunsOnce

Announced == RebootIsAnnounced /\ AnnouncementPrecedesReboot

(* What relay.c leaves of other files' work and reasons: it neither loses   *)
(* nor cancels the work of relay_mgmt.c and of the watchdog, clears no      *)
(* latched reason and promises no host reboot.                              *)
OtherWork == {reboot_work, bootsel_work, watchdog_work}

Spares(k, l) ==
    /\ \A w \in OtherWork : Pending(k, w) \/ k.running = w => Pending(l, w) \/ l.running = w
    /\ (k.running \in OtherWork => ~k.canceling) => (l.running \in OtherWork => ~l.canceling)

SparesReasons(h, g) ==
    /\ h.reasons \ {CommOwnerTimeout, CommRebootPending, HostRebootPending} \subseteq g.reasons
    /\ g.reasons \subseteq
          h.reasons \cup {CommOwnerTimeout, CommRebootPending, RelayIoFailed, RebootFailed}
    /\ Sound(h) => Sound(g)

(* What every step of relay.c but its reset does. *)
Kept ==
    /\ Core' /\ (LeaseIsHeld => LeaseIsHeld') /\ (Announced => Announced')
    /\ Spares(kwork, kwork') /\ SparesReasons(health, health')

(* The numbers given to the work items are all different.                   *)
LEMMA WorkNumbers ==
    /\ Ch \subseteq WorkItems /\ LockingWork \subseteq WorkItems
    /\ Ch \subseteq LockingWork
    /\ comm_loss_work \in LockingWork /\ comm_loss_ind_work \in LockingWork
    /\ {comm_loss_work, comm_loss_ind_work, comm_loss_reboot_work} \subseteq WorkItems
    /\ comm_loss_work \notin Ch /\ comm_loss_ind_work \notin Ch /\ comm_loss_reboot_work \notin Ch
    /\ comm_loss_reboot_work \notin LockingWork
    /\ comm_loss_work # comm_loss_ind_work /\ comm_loss_work # comm_loss_reboot_work
    /\ comm_loss_ind_work # comm_loss_reboot_work
    /\ NoWork \notin WorkItems /\ NoWork \notin LockingWork /\ NoWork \notin Ch
    /\ OtherWork \subseteq WorkItems /\ OtherWork \cap LockingWork = {}
    /\ NoWork \notin OtherWork /\ comm_loss_reboot_work \notin OtherWork
    /\ OtherWork \cap Ch = {} /\ comm_loss_work \notin OtherWork /\ comm_loss_ind_work \notin OtherWork
  BY RelayAssumption DEF OtherWork, reboot_work, bootsel_work, watchdog_work, Ch, WorkItems, LockingWork, comm_loss_work, comm_loss_ind_work,
     comm_loss_reboot_work, NoWork

(* What the workqueue k must look like for the pulses pm: the part of the   *)
(* invariant about pulse work, as a property of the two.                    *)
PulsesTimed(k, pm) ==
    /\ \A c \in pm : c \in k.timers \cup k.queued \/ (k.running = c /\ ~k.canceling)
    /\ \A c \in Ch : c \in k.timers \cup k.queued => c \in pm
    /\ \A c \in Ch : ~(c \in k.timers /\ c \in k.queued)
    /\ \A c \in Ch : k.running = c => c \notin k.timers \cup k.queued

(* The invariant says that of the current workqueue and pulse mask.         *)
LEMMA PulsesNow ==
    ASSUME Core PROVE PulsesTimed(kwork, relay_pulse_mask)
  <1>1. PulseIsTimed /\ PulseRunsOnce
    BY DEF Core
  <1> QED BY <1>1 DEF PulseIsTimed, PulseRunsOnce, Pending, PulsesTimed

(* And it is all the invariant says of pulse work.                          *)
LEMMA PulsesNext ==
    ASSUME PulsesTimed(kwork', relay_pulse_mask'), relay_pulse_mask' \subseteq relay_state_mask'
    PROVE  PulseIsTimed' /\ PulseRunsOnce'
  <1>1. PulseIsTimed'
    BY DEF PulseIsTimed, Pending, PulsesTimed
  <1>2. \A c \in Ch : /\ ~(c \in kwork'.timers /\ c \in kwork'.queued)
                      /\ kwork'.running = c => c \notin kwork'.timers \cup kwork'.queued
    BY DEF PulsesTimed
  <1>3. PulseRunsOnce'
    BY <1>2 DEF PulseRunsOnce, Pending
  <1> QED BY <1>1, <1>3

(* What the end of a successful section does to the workqueue k.             *)
LEMMA LeaseFacts ==
    ASSUME NEW k \in KWorkType(WorkItems), NEW sm, NEW pm, LeaseRenewed(k, sm, pm)
    PROVE  /\ kwork' \in KWorkType(WorkItems)
           /\ kwork'.running = k.running
           /\ kwork'.canceling = (k.canceling \/ k.running \in {comm_loss_ind_work, comm_loss_reboot_work}
                  \/ (~comm_loss_should_arm(sm, pm) /\ k.running = comm_loss_work))
           /\ kwork'.timers = IF comm_loss_should_arm(sm, pm)
                 THEN (k.timers \ {comm_loss_ind_work, comm_loss_reboot_work}) \cup {comm_loss_work}
                 ELSE k.timers \ {comm_loss_ind_work, comm_loss_reboot_work, comm_loss_work}
           /\ kwork'.queued = IF comm_loss_should_arm(sm, pm)
                 THEN k.queued \ {comm_loss_ind_work, comm_loss_reboot_work}
                 ELSE k.queued \ {comm_loss_ind_work, comm_loss_reboot_work, comm_loss_work}
           /\ comm_loss_armed' = comm_loss_should_arm(sm, pm)
           /\ comm_loss_reboot_scheduled' = FALSE
           /\ comm_loss_ind_scheduled' = FALSE
           /\ comm_loss_armed' \in BOOLEAN
  <1> DEFINE k1 == comm_loss_cancel_reboot(k)
  <1>1. /\ k1 \in KWorkType(WorkItems)
        /\ k1.running = k.running
        /\ k1.canceling = (k.canceling \/ k.running \in {comm_loss_ind_work, comm_loss_reboot_work})
        /\ k1.timers = k.timers \ {comm_loss_ind_work, comm_loss_reboot_work}
        /\ k1.queued = k.queued \ {comm_loss_ind_work, comm_loss_reboot_work}
    BY CancelFacts DEF comm_loss_cancel_reboot
  <1>2. kwork' = IF comm_loss_should_arm(sm, pm) THEN k_work_reschedule(k1, comm_loss_work)
                 ELSE k_work_cancel_delayable(k1, {comm_loss_work})
    BY DEF LeaseRenewed, comm_loss_schedule
  <1>3. /\ comm_loss_armed' = comm_loss_should_arm(sm, pm)
        /\ comm_loss_reboot_scheduled' = FALSE
        /\ comm_loss_ind_scheduled' = FALSE
    BY DEF LeaseRenewed
  <1>4. comm_loss_should_arm(sm, pm) \in BOOLEAN
    BY DEF comm_loss_should_arm
  <1> HIDE DEF k1
  <1>5. CASE comm_loss_should_arm(sm, pm)
    <2>1. kwork' = k_work_reschedule(k1, comm_loss_work)
      BY <1>2, <1>5
    <2>2. /\ kwork' \in KWorkType(WorkItems)
          /\ kwork'.timers = k1.timers \cup {comm_loss_work}
          /\ kwork'.queued = k1.queued
          /\ kwork'.running = k1.running
          /\ kwork'.canceling = k1.canceling
      BY <1>1, <2>1, RescheduleFacts, WorkNumbers
    <2> QED BY <1>1, <1>3, <1>4, <1>5, <2>2
  <1>6. CASE ~comm_loss_should_arm(sm, pm)
    <2>1. kwork' = k_work_cancel_delayable(k1, {comm_loss_work})
      BY <1>2, <1>6
    <2>2. /\ kwork' \in KWorkType(WorkItems)
          /\ kwork'.timers = k1.timers \ {comm_loss_work}
          /\ kwork'.queued = k1.queued \ {comm_loss_work}
          /\ kwork'.running = k1.running
          /\ kwork'.canceling = (k1.canceling \/ k1.running \in {comm_loss_work})
      BY <1>1, <2>1, CancelFacts
    <2> QED BY <1>1, <1>3, <1>4, <1>6, <2>2
  <1> QED BY <1>5, <1>6

(* And to the reasons.                                                      *)
LEMMA OwnerBackFacts ==
    ASSUME TypeOK
    PROVE  /\ OwnerBack \in HealthType(Ch)
           /\ OwnerBack.reasons = health.reasons \
                 (IF comm_loss_reboot_scheduled THEN {CommOwnerTimeout, CommRebootPending}
                                                ELSE {CommOwnerTimeout})
           /\ Sound(OwnerBack)
  <1> DEFINE back == health_set_comm_owner_timed_out(health, FALSE)
  <1>1. /\ back \in HealthType(Ch)
        /\ back.reasons = health.reasons \ {CommOwnerTimeout} /\ Sound(back)
    BY NamedSetterFacts DEF TypeOK
  <1>2. OwnerBack = IF comm_loss_reboot_scheduled
                    THEN health_set_comm_reboot_pending(back, FALSE) ELSE back
    BY DEF OwnerBack
  <1> HIDE DEF back
  <1>3. CASE comm_loss_reboot_scheduled
    BY <1>1, <1>2, <1>3, NamedSetterFacts
  <1>4. CASE ~comm_loss_reboot_scheduled
    BY <1>1, <1>2, <1>4
  <1> QED BY <1>3, <1>4

(* A failed GPIO write latches relay_io_failed and leaves the commanded     *)
(* mask and the flags alone.                                                *)
LEMMA GpioFailedFacts ==
    ASSUME TypeOK, NEW mask, NEW i, NEW k, GpioFailed(mask, i, k)
    PROVE  /\ pins' \in SUBSET Ch
           /\ kwork' = k
           /\ health' \in HealthType(Ch)
           /\ health'.reasons = health.reasons \cup {RelayIoFailed} /\ Sound(health')
           /\ UNCHANGED <<relay_state_mask, flags>>
  BY NamedSetterFacts DEF GpioFailed, TypeOK, Written

-----------------------------------------------------------------------------
(* The steps of the calling threads *)

(* Taking the lock: no handler waits, so none is being canceled.            *)
LEMMA LockStep ==
    ASSUME Core, NEW t \in Callers, Lock(t)
    PROVE  Kept
  <1>1. TypeOK'
    BY DEF Core, TypeOK, Lock, masks, flags
  <1>2. Core'
    BY <1>1, WorkNumbers DEF Core, Lock, masks, flags, HandlerWaits, PulseIsTimed,
       LeaseOnlyWhileEnergized, OutputsFollowMask, OwnerLossMeansOff, RebootBookkeeping,
       ReportIsTrue, HandlerIsServedNext, IndicationRunsOnce, PulseRunsOnce, IoFailed, Pending
  <1>3. (LeaseIsHeld => LeaseIsHeld') /\ (Announced => Announced')
    BY DEF Lock, masks, flags, LeaseIsHeld, Announced, RebootIsAnnounced,
       AnnouncementPrecedesReboot, IoFailed, Pending
  <1>4. Spares(kwork, kwork') /\ SparesReasons(health, health')
    BY DEF Lock, Spares, SparesReasons
  <1> QED BY <1>2, <1>3, <1>4 DEF Kept

(* A successful section whose new pulse mask is timed by the workqueue k it *)
(* hands to OwnershipRestored: the invariant holds after it.                *)
LEMMA SectionStep ==
    ASSUME Core, NEW t \in Callers, Unlock(t),
           NEW k \in KWorkType(WorkItems),
           relay_state_mask' \in SUBSET Ch, relay_pulse_mask' \in SUBSET Ch,
           relay_pulse_mask' \subseteq relay_state_mask',
           pins' = relay_state_mask' \/ IoFailed, pins' \in SUBSET Ch,
           to_publish' \in [Callers -> SUBSET Masks],
           OwnershipRestored(k, relay_state_mask', relay_pulse_mask'),
           k.running = kwork.running, Spares(kwork, k),
           PulsesTimed(k, relay_pulse_mask'),
           k.running = NoWork => ~k.canceling,
           k.canceling /\ k.running \in LockingWork => k.running \notin relay_pulse_mask'
    PROVE  Kept
  <1> DEFINE arm == comm_loss_should_arm(relay_state_mask', relay_pulse_mask')
  <1>0. TypeOK
    BY DEF Core
  <1>1. /\ kwork' \in KWorkType(WorkItems)
        /\ kwork'.running = k.running
        /\ kwork'.canceling = (k.canceling \/ k.running \in {comm_loss_ind_work, comm_loss_reboot_work}
               \/ (~arm /\ k.running = comm_loss_work))
        /\ kwork'.timers = IF arm
              THEN (k.timers \ {comm_loss_ind_work, comm_loss_reboot_work}) \cup {comm_loss_work}
              ELSE k.timers \ {comm_loss_ind_work, comm_loss_reboot_work, comm_loss_work}
        /\ kwork'.queued = IF arm
              THEN k.queued \ {comm_loss_ind_work, comm_loss_reboot_work}
              ELSE k.queued \ {comm_loss_ind_work, comm_loss_reboot_work, comm_loss_work}
        /\ health' \in HealthType(Ch)
        /\ health'.reasons = health.reasons \
              (IF comm_loss_reboot_scheduled THEN {CommOwnerTimeout, CommRebootPending}
                                             ELSE {CommOwnerTimeout})
        /\ Sound(health')
        /\ comm_loss_armed' = arm
        /\ comm_loss_reboot_scheduled' = FALSE
        /\ comm_loss_ind_scheduled' = FALSE
        /\ comm_loss_armed' \in BOOLEAN
    BY <1>0, LeaseFacts, OwnerBackFacts DEF OwnershipRestored
  <1>2. relay_lock' = {}
    BY DEF Unlock
  <1>3. RelayIoFailed # CommOwnerTimeout /\ RelayIoFailed # CommRebootPending
    BY DEF RelayIoFailed, CommOwnerTimeout, CommRebootPending
  <1>4. TypeOK'
    BY <1>0, <1>1, <1>2 DEF TypeOK
  <1>5. IoFailed' = IoFailed
    BY <1>1, <1>3 DEF IoFailed
  <1>6. PulseIsTimed' /\ PulseRunsOnce'
    <2>1. \A c \in Ch : c \notin {comm_loss_work, comm_loss_ind_work, comm_loss_reboot_work}
      BY WorkNumbers
    <2>2. \A c \in Ch : /\ c \in kwork'.timers <=> c \in k.timers
                        /\ c \in kwork'.queued <=> c \in k.queued
                        /\ k.running = c /\ ~k.canceling => ~kwork'.canceling
      BY <1>1, <2>1
    <2>3. PulsesTimed(kwork', relay_pulse_mask')
      BY <1>1, <2>2 DEF PulsesTimed
    <2> QED BY <2>3, PulsesNext
  <1>7. LeaseIsHeld'
    BY <1>1 DEF LeaseIsHeld, comm_loss_should_arm, Pending
  <1>8. LeaseOnlyWhileEnergized'
    BY <1>1 DEF LeaseOnlyWhileEnergized, comm_loss_should_arm
  <1>9. OutputsFollowMask' /\ OwnerLossMeansOff'
    BY <1>1, <1>5 DEF OutputsFollowMask, OwnerLossMeansOff
  <1>10. RebootBookkeeping' /\ IndicationRunsOnce' /\ Announced'
    <2>1. ReportIsTrue
      BY DEF Core
    <2> QED BY <1>1, <2>1, WorkNumbers DEF RebootBookkeeping, IndicationRunsOnce, Announced,
               RebootIsAnnounced, AnnouncementPrecedesReboot, ReportIsTrue, Pending
  <1>11. ReportIsTrue'
    BY <1>10 DEF Announced, RebootIsAnnounced, ReportIsTrue
  <1>12. HandlerIsServedNext'
    BY <1>1, <1>2, WorkNumbers DEF HandlerIsServedNext, HandlerWaits
  <1>13. Spares(kwork, kwork')
    <2>1. Spares(k, kwork')
      BY <1>1, WorkNumbers DEF Spares, Pending
    <2> QED BY <2>1 DEF Spares
  <1>14. SparesReasons(health, health')
    BY <1>1 DEF SparesReasons
  <1> QED
    BY <1>4, <1>6, <1>7, <1>8, <1>9, <1>10, <1>11, <1>12, <1>13, <1>14 DEF Core, Kept

(* A section or handler whose GPIO write fails: k differs from the          *)
(* workqueue before it in the pulse works and in the handler that returned. *)
LEMMA GpioFailedStep ==
    ASSUME Core, NEW mask, NEW i, NEW k \in KWorkType(WorkItems), GpioFailed(mask, i, k),
           Spares(kwork, k),
           relay_pulse_mask' \subseteq relay_pulse_mask,
           relay_lock' = {}, to_publish' = to_publish,
           \A w \in WorkItems \ Ch : /\ w \in k.timers <=> w \in kwork.timers
                                     /\ w \in k.queued <=> w \in kwork.queued,
           \/ k.running = kwork.running
           \/ k.running = NoWork /\ kwork.running \in Ch \cup {comm_loss_work},
           PulsesTimed(k, relay_pulse_mask'),
           k.running = NoWork => ~k.canceling,
           k.canceling /\ k.running \in LockingWork => k.running \notin relay_pulse_mask'
    PROVE  Kept
  <1>0. TypeOK
    BY DEF Core
  <1>1. /\ pins' \in SUBSET Ch
        /\ kwork' = k
        /\ health' \in HealthType(Ch)
        /\ health'.reasons = health.reasons \cup {RelayIoFailed} /\ Sound(health')
        /\ UNCHANGED <<relay_state_mask, flags>>
    BY <1>0, GpioFailedFacts
  <1>2. TypeOK'
    BY <1>0, <1>1 DEF TypeOK, flags
  <1>3. IoFailed'
    BY <1>1 DEF IoFailed
  <1>4. PulseIsTimed' /\ PulseRunsOnce'
    BY <1>1, PulsesNext DEF PulseIsTimed, Core
  <1>5. LeaseIsHeld' /\ OutputsFollowMask' /\ OwnerLossMeansOff'
    BY <1>3 DEF LeaseIsHeld, OutputsFollowMask, OwnerLossMeansOff
  <1>6. LeaseOnlyWhileEnergized'
    BY <1>1 DEF LeaseOnlyWhileEnergized, Core, flags
  <1>7. RelayIoFailed # CommRebootPending
    BY DEF RelayIoFailed, CommRebootPending
  <1>8. \A w \in {comm_loss_ind_work, comm_loss_reboot_work} :
            /\ w \in k.timers <=> w \in kwork.timers
            /\ w \in k.queued <=> w \in kwork.queued
            /\ k.running = w <=> kwork.running = w
    BY WorkNumbers
  <1>9. RebootBookkeeping' /\ IndicationRunsOnce' /\ ReportIsTrue'
    BY <1>1, <1>7, <1>8 DEF RebootBookkeeping, IndicationRunsOnce, ReportIsTrue, Core, Pending, flags
  <1>10. Announced => Announced'
    BY <1>1, <1>7, <1>8 DEF Announced, RebootIsAnnounced, AnnouncementPrecedesReboot, Pending, flags
  <1>11. HandlerIsServedNext'
    BY <1>1, WorkNumbers DEF HandlerIsServedNext, HandlerWaits
  <1>12. Spares(kwork, kwork') /\ SparesReasons(health, health')
    BY <1>1 DEF SparesReasons
  <1> QED
    BY <1>2, <1>4, <1>5, <1>6, <1>9, <1>10, <1>11, <1>12 DEF Core, Kept

(* Canceling pulse work spares the work of other files.                     *)
LEMMA CancelSpares ==
    ASSUME Core, NEW W \in SUBSET Ch
    PROVE  Spares(kwork, k_work_cancel_delayable(kwork, W))
  <1> DEFINE k == k_work_cancel_delayable(kwork, W)
  <1>1. /\ k.timers = kwork.timers \ W /\ k.queued = kwork.queued \ W /\ k.running = kwork.running
        /\ k.canceling = (kwork.canceling \/ kwork.running \in W)
    BY CancelFacts DEF Core, TypeOK
  <1> HIDE DEF k
  <1>2. Spares(kwork, k)
    BY <1>1, WorkNumbers DEF Spares, Pending
  <1> QED BY <1>2 DEF k

(* So does a handler of relay.c that returns.                               *)
LEMMA DoneSpares ==
    ASSUME Core, NEW k \in KWorkType(WorkItems), k.running \in LockingWork
    PROVE  Spares(k, HandlerDone(k))
  <1> DEFINE l == HandlerDone(k)
  <1>1. l.timers = k.timers /\ l.queued = k.queued /\ l.running = NoWork
    BY DoneFacts
  <1> HIDE DEF l
  <1>2. Spares(k, l)
    BY <1>1, WorkNumbers DEF Spares, Pending
  <1> QED BY <1>2 DEF l

(* The masks a section copies for publication have their type.              *)
LEMMA CopyMasksType ==
    ASSUME TypeOK, NEW t \in Callers, NEW sm \in SUBSET Ch, NEW pm \in SUBSET Ch,
           CopyMasks(t, sm, pm)
    PROVE  to_publish' \in [Callers -> SUBSET Masks]
  BY DEF CopyMasks, TypeOK, Masks

(* relay_set() cancels the channel's pulse; it succeeds, or its GPIO write   *)
(* fails.                                                                   *)
LEMMA SetStep ==
    ASSUME Core, NEW t \in Callers, NEW c \in Ch, NEW on \in BOOLEAN, relay_set(t, c, on)
    PROVE  Kept
  <1> DEFINE k == k_work_cancel_delayable(kwork, {c})
  <1>0. TypeOK
    BY DEF Core
  <1>1. /\ k \in KWorkType(WorkItems)
        /\ k.timers = kwork.timers \ {c}
        /\ k.queued = kwork.queued \ {c}
        /\ k.running = kwork.running
        /\ k.canceling = (kwork.canceling \/ kwork.running \in {c})
    BY <1>0, CancelFacts DEF TypeOK
  <1>2. Unlock(t) /\ relay_pulse_mask' = relay_pulse_mask \ {c} /\ relay_lock' = {}
    BY DEF relay_set, Unlock
  <1>3. /\ relay_pulse_mask' \subseteq relay_pulse_mask
        /\ k.running = NoWork => ~k.canceling
        /\ k.canceling /\ k.running \in LockingWork => k.running \notin relay_pulse_mask'
    BY <1>1, <1>2, WorkNumbers DEF Core, HandlerIsServedNext, HandlerWaits
  <1>7. Spares(kwork, k)
    BY CancelSpares
  <1>6. PulsesTimed(k, relay_pulse_mask')
    <2> HIDE DEF k
    <2> QED BY <1>1, <1>2, PulsesNow DEF PulsesTimed
  <1>4. CASE /\ pins' = ChannelSet(pins, c, on)
             /\ relay_state_mask' = ChannelSet(relay_state_mask, c, on)
             /\ OwnershipRestored(k, relay_state_mask', relay_pulse_mask')
             /\ CopyMasks(t, relay_state_mask', relay_pulse_mask')
    <2>1. /\ pins' \in SUBSET Ch /\ relay_state_mask' \in SUBSET Ch
          /\ relay_pulse_mask' \in SUBSET Ch
          /\ relay_pulse_mask' \subseteq relay_state_mask'
          /\ pins' = relay_state_mask' \/ IoFailed
      BY <1>0, <1>2, <1>4 DEF TypeOK, ChannelSet, Core, PulseIsTimed, OutputsFollowMask
    <2>2. to_publish' \in [Callers -> SUBSET Masks]
      BY <1>0, <1>4, <2>1, CopyMasksType
    <2> HIDE DEF k
    <2> QED BY <1>1, <1>2, <1>3, <1>4, <1>6, <1>7, <2>1, <2>2, SectionStep
  <1>5. CASE GpioFailed({}, 0, k) /\ UNCHANGED to_publish
    <2>1. \A w \in WorkItems \ Ch : /\ w \in k.timers <=> w \in kwork.timers
                                    /\ w \in k.queued <=> w \in kwork.queued
      BY <1>1
    <2> HIDE DEF k
    <2> QED BY <1>1, <1>2, <1>3, <1>5, <1>6, <1>7, <2>1, GpioFailedStep
  <1> QED BY <1>4, <1>5 DEF relay_set

(* relay_set_all() cancels every pulse; it succeeds, or a GPIO write fails   *)
(* part of the way.                                                         *)
LEMMA SetAllStep ==
    ASSUME Core, NEW t \in Callers, NEW mask \in SUBSET Ch, relay_set_all(t, mask)
    PROVE  Kept
  <1> DEFINE k == k_work_cancel_delayable(kwork, Ch)
  <1>0. TypeOK
    BY DEF Core
  <1>1. /\ k \in KWorkType(WorkItems)
        /\ k.timers = kwork.timers \ Ch
        /\ k.queued = kwork.queued \ Ch
        /\ k.running = kwork.running
        /\ k.canceling = (kwork.canceling \/ kwork.running \in Ch)
    BY <1>0, CancelFacts DEF TypeOK
  <1>3. k.running = NoWork => ~k.canceling
    BY <1>1, WorkNumbers DEF Core, HandlerIsServedNext
  <1>2. Unlock(t) /\ relay_pulse_mask' = {} /\ relay_lock' = {}
    BY DEF relay_set_all, Unlock
  <1>7. Spares(kwork, k)
    BY CancelSpares
  <1>6. PulsesTimed(k, relay_pulse_mask')
    <2> HIDE DEF k
    <2> QED BY <1>1, <1>2 DEF PulsesTimed
  <1>4. CASE /\ pins' = mask
             /\ relay_state_mask' = mask
             /\ OwnershipRestored(k, mask, {})
             /\ CopyMasks(t, mask, {})
    <2>1. to_publish' \in [Callers -> SUBSET Masks]
      BY <1>0, <1>4, CopyMasksType
    <2>2. OwnershipRestored(k, relay_state_mask', relay_pulse_mask')
      BY <1>2, <1>4
    <2> HIDE DEF k
    <2> QED BY <1>1, <1>2, <1>3, <1>4, <1>6, <1>7, <2>1, <2>2, SectionStep
  <1>5. CASE (\E i \in Ch : GpioFailed(mask, i, k)) /\ UNCHANGED to_publish
    <2>1. \A w \in WorkItems \ Ch : /\ w \in k.timers <=> w \in kwork.timers
                                    /\ w \in k.queued <=> w \in kwork.queued
      BY <1>1
    <2> HIDE DEF k
    <2>2. PICK i \in Ch : GpioFailed(mask, i, k)
      BY <1>5
    <2>3. relay_pulse_mask' \subseteq relay_pulse_mask /\ to_publish' = to_publish
      BY <1>2, <1>5
    <2> QED BY <1>1, <1>2, <1>3, <1>6, <1>7, <2>1, <2>2, <2>3, GpioFailedStep
  <1> QED BY <1>4, <1>5 DEF relay_set_all

(* relay_pulse() starts the timer of a channel that has no pulse; no handler *)
(* of that channel is being canceled, so the timer really starts.           *)
LEMMA PulseStep ==
    ASSUME Core, NEW t \in Callers, NEW c \in Ch, relay_pulse(t, c)
    PROVE  Kept
  <1> DEFINE k == k_work_schedule(kwork, c)
  <1>0. TypeOK
    BY DEF Core
  <1>1. /\ k \in KWorkType(WorkItems)
        /\ k.timers = IF Pending(kwork, c) \/ (kwork.running = c /\ kwork.canceling)
                      THEN kwork.timers ELSE kwork.timers \cup {c}
        /\ k.queued = kwork.queued
        /\ k.running = kwork.running
        /\ k.canceling = kwork.canceling
    <2>1. kwork \in KWorkType(WorkItems) /\ c \in WorkItems
      BY <1>0, WorkNumbers DEF TypeOK
    <2> QED BY <2>1, ScheduleFacts
  <1>2. Unlock(t) /\ relay_lock' = {} /\ relay_lock # {} /\ c \notin relay_pulse_mask
    BY DEF relay_pulse, Unlock
  <1>3. /\ ~(kwork.running \in LockingWork /\ kwork.canceling)
        /\ kwork.running = NoWork => ~kwork.canceling
    BY <1>2 DEF Core, HandlerIsServedNext, HandlerWaits
  <1>4. CASE /\ pins' = pins \cup {c}
             /\ relay_state_mask' = relay_state_mask \cup {c}
             /\ relay_pulse_mask' = relay_pulse_mask \cup {c}
             /\ OwnershipRestored(k, relay_state_mask', relay_pulse_mask')
             /\ CopyMasks(t, relay_state_mask', relay_pulse_mask')
    <2>1. /\ pins' \in SUBSET Ch /\ relay_state_mask' \in SUBSET Ch
          /\ relay_pulse_mask' \in SUBSET Ch
          /\ relay_pulse_mask' \subseteq relay_state_mask'
          /\ pins' = relay_state_mask' \/ IoFailed
      BY <1>0, <1>4 DEF TypeOK, Core, PulseIsTimed, OutputsFollowMask
    <2>2. to_publish' \in [Callers -> SUBSET Masks]
      BY <1>0, <1>4, <2>1, CopyMasksType
    <2>3. k.canceling /\ k.running \in LockingWork => k.running \notin relay_pulse_mask'
      BY <1>1, <1>3
    <2>4. kwork.running # c /\ c \notin kwork.timers \cup kwork.queued
      BY <1>2, PulsesNow DEF PulsesTimed, Core, HandlerIsServedNext
    <2> HIDE DEF k
    <2>5. PulsesTimed(k, relay_pulse_mask')
      <3>1. k.timers = kwork.timers \cup {c}
        BY <1>1, <2>4 DEF Pending
      <3> QED BY <1>1, <1>4, <2>4, <3>1, PulsesNow DEF PulsesTimed
    <2>6. Spares(kwork, k)
      <3>1. kwork.timers \subseteq k.timers
        BY <1>1
      <3> QED BY <1>1, <3>1 DEF Spares, Pending
    <2> QED BY <1>1, <1>2, <1>3, <1>4, <2>1, <2>2, <2>3, <2>5, <2>6, SectionStep
  <1>5. CASE GpioFailed({}, 0, kwork) /\ UNCHANGED <<relay_pulse_mask, to_publish>>
    <2>1. kwork \in KWorkType(WorkItems)
      BY <1>0 DEF TypeOK
    <2>2. PulsesTimed(kwork, relay_pulse_mask')
      BY <1>5, PulsesNow
    <2>3. GpioFailed({}, 0, kwork) /\ relay_pulse_mask' = relay_pulse_mask /\ to_publish' = to_publish
      BY <1>5
    <2>4. Spares(kwork, kwork)
      BY DEF Spares
    <2> QED BY <1>2, <1>3, <2>1, <2>2, <2>3, <2>4, GpioFailedStep
  <1> QED BY <1>4, <1>5 DEF relay_pulse

(* relay_pulse() on a busy channel, or one whose timer does not start.       *)
LEMMA PulseRefusedStep ==
    ASSUME Core, NEW t \in Callers, NEW c \in Ch, relay_pulse_refused(t, c)
    PROVE  Kept
  <1>0. TypeOK
    BY DEF Core
  <1>1. /\ relay_lock' = {} /\ relay_lock # {}
        /\ UNCHANGED <<relay_pulse_mask, flags, to_publish, kwork>>
    BY DEF relay_pulse_refused, Unlock
  <1>2. /\ health' \in HealthType(Ch) /\ (Sound(health) => Sound(health'))
        /\ health'.reasons = health.reasons \/ health'.reasons = health.reasons \cup {RelayIoFailed}
        /\ RelayIoFailed \notin health'.reasons =>
              \/ UNCHANGED <<pins, relay_state_mask>>
              \/ /\ c \notin relay_pulse_mask /\ pins' = pins \ {c}
                 /\ relay_state_mask' = relay_state_mask \ {c}
        /\ \/ UNCHANGED <<pins, relay_state_mask>>
           \/ /\ c \notin relay_pulse_mask /\ ScheduleMayFail
              /\ \/ pins' = pins \ {c} /\ relay_state_mask' = relay_state_mask \ {c}
                 \/ pins' = pins \cup {c} /\ relay_state_mask' = relay_state_mask \cup {c}
    <2>1. CASE UNCHANGED <<pins, relay_state_mask, health>>
      BY <1>0, <2>1 DEF TypeOK
    <2>2. CASE /\ c \notin relay_pulse_mask /\ ScheduleMayFail
               /\ pins' = pins \ {c} /\ relay_state_mask' = relay_state_mask \ {c}
               /\ UNCHANGED health
      BY <1>0, <2>2 DEF TypeOK
    <2>3. CASE /\ c \notin relay_pulse_mask /\ ScheduleMayFail
               /\ pins' = pins \cup {c} /\ relay_state_mask' = relay_state_mask \cup {c}
               /\ health' = health_record_relay_io_error(health)
      <3>1. /\ health' \in HealthType(Ch)
            /\ health'.reasons = health.reasons \cup {RelayIoFailed} /\ Sound(health')
        BY <1>0, <2>3, NamedSetterFacts DEF TypeOK
      <3> QED BY <2>3, <3>1
    <2> QED BY <2>1, <2>2, <2>3 DEF relay_pulse_refused
  <1>3. TypeOK'
    BY <1>0, <1>1, <1>2 DEF TypeOK, flags
  <1>4. PulseIsTimed'
    BY <1>1, <1>2 DEF Core, PulseIsTimed, Pending
  <1>5. OutputsFollowMask' /\ OwnerLossMeansOff'
    BY <1>1, <1>2 DEF Core, OutputsFollowMask, OwnerLossMeansOff,
       IoFailed, RelayIoFailed, CommOwnerTimeout
  <1>9. LeaseIsHeld => LeaseIsHeld'
    <2>1. CASE IoFailed'
      BY <2>1 DEF LeaseIsHeld
    <2>2. CASE ~IoFailed'
      <3>1. /\ relay_state_mask' \subseteq relay_state_mask /\ relay_pulse_mask' = relay_pulse_mask
            /\ ~IoFailed /\ health.reasons \subseteq health'.reasons
        BY <1>1, <1>2, <2>2 DEF IoFailed
      <3>2. comm_loss_should_arm(relay_state_mask', relay_pulse_mask') =>
               comm_loss_should_arm(relay_state_mask, relay_pulse_mask)
        BY <3>1 DEF comm_loss_should_arm
      <3> QED BY <1>1, <3>1, <3>2 DEF LeaseIsHeld, Pending, flags
    <2> QED BY <2>1, <2>2
  <1>6. LeaseOnlyWhileEnergized'
    BY <1>1, <1>2 DEF Core, LeaseOnlyWhileEnergized, flags
  <1>7. RebootBookkeeping' /\ IndicationRunsOnce' /\ PulseRunsOnce' /\ HandlerIsServedNext'
    BY <1>1 DEF Core, RebootBookkeeping, IndicationRunsOnce, PulseRunsOnce, HandlerIsServedNext,
       HandlerWaits, Pending, flags
  <1>8. ReportIsTrue' /\ (Announced => Announced')
    BY <1>1, <1>2 DEF Core, ReportIsTrue, Announced, RebootIsAnnounced, AnnouncementPrecedesReboot,
       Pending, flags, RelayIoFailed, CommRebootPending
  <1>10. Spares(kwork, kwork') /\ SparesReasons(health, health')
    BY <1>1, <1>2 DEF Spares, SparesReasons
  <1> QED BY <1>3, <1>4, <1>5, <1>6, <1>7, <1>8, <1>9, <1>10 DEF Core, Kept

(* relay_comm_loss_renew() changes the lease and the reboot, not the masks.  *)
LEMMA RenewStep ==
    ASSUME Core, NEW t \in Callers, relay_comm_loss_renew(t)
    PROVE  Kept
  <1>1. /\ Unlock(t) /\ OwnershipRestored(kwork, relay_state_mask', relay_pulse_mask')
        /\ UNCHANGED <<pins, relay_state_mask, relay_pulse_mask, to_publish>>
    BY DEF relay_comm_loss_renew, masks
  <1>2. /\ kwork \in KWorkType(WorkItems)
        /\ pins' \in SUBSET Ch /\ relay_state_mask' \in SUBSET Ch /\ relay_pulse_mask' \in SUBSET Ch
        /\ to_publish' \in [Callers -> SUBSET Masks]
    BY <1>1 DEF Core, TypeOK
  <1>3. /\ relay_pulse_mask' \subseteq relay_state_mask'
        /\ pins' = relay_state_mask' \/ IoFailed
        /\ kwork.running = NoWork => ~kwork.canceling
        /\ kwork.canceling /\ kwork.running \in LockingWork => kwork.running \notin relay_pulse_mask'
    BY <1>1 DEF Core, PulseIsTimed, OutputsFollowMask, HandlerIsServedNext, HandlerWaits
  <1>4. PulsesTimed(kwork, relay_pulse_mask')
    BY <1>1, PulsesNow
  <1>5. Spares(kwork, kwork)
    BY DEF Spares
  <1> QED BY <1>1, <1>2, <1>3, <1>4, <1>5, SectionStep

(* The publication after the unlock touches the health masks only.           *)
LEMMA PublishStep ==
    ASSUME Core, NEW t \in Callers, publish(t)
    PROVE  Kept
  <1>0. TypeOK
    BY DEF Core
  <1>1. UNCHANGED <<pins, relay_state_mask, relay_pulse_mask, comm_loss_armed,
                    comm_loss_reboot_scheduled, comm_loss_ind_scheduled, relay_lock, kwork>>
    BY DEF publish, masks, flags
  <1>2. PICK m \in to_publish[t] : health' = health_set_relay_state(health, m.state, m.pulse)
    BY DEF publish
  <1>3. m \in Masks
    BY <1>0, <1>2 DEF TypeOK
  <1>4. health' \in HealthType(Ch) /\ health'.reasons = health.reasons /\ Sound(health')
    BY <1>0, <1>2, <1>3, SetRelayStateFacts DEF TypeOK, Masks
  <1>5. to_publish' \in [Callers -> SUBSET Masks]
    BY <1>0 DEF publish, TypeOK
  <1>6. TypeOK'
    BY <1>0, <1>1, <1>4, <1>5 DEF TypeOK
  <1>7. Core'
    BY <1>1, <1>4, <1>6 DEF Core, HandlerWaits, PulseIsTimed, LeaseOnlyWhileEnergized,
       OutputsFollowMask, OwnerLossMeansOff, RebootBookkeeping, ReportIsTrue,
       HandlerIsServedNext, IndicationRunsOnce, PulseRunsOnce, IoFailed, Pending
  <1>8. (LeaseIsHeld => LeaseIsHeld') /\ (Announced => Announced')
    BY <1>1, <1>4 DEF LeaseIsHeld, Announced, RebootIsAnnounced, AnnouncementPrecedesReboot,
       IoFailed, Pending
  <1>9. Spares(kwork, kwork') /\ SparesReasons(health, health')
    BY <1>1, <1>4 DEF Spares, SparesReasons
  <1> QED BY <1>7, <1>8, <1>9 DEF Kept

-----------------------------------------------------------------------------
(* The steps of the workqueue *)

(* A delay ends.  No canceled handler waits for a channel in the pulse mask, *)
(* so the pulse whose delay ended is queued.                                *)
LEMMA TimerStep ==
    ASSUME Core, NEW w \in WorkItems, TimerExpires(w)
    PROVE  Kept
  <1>0. TypeOK
    BY DEF Core
  <1>1. UNCHANGED <<pins, relay_state_mask, relay_pulse_mask, comm_loss_armed,
                    comm_loss_reboot_scheduled, comm_loss_ind_scheduled, relay_lock, to_publish, health>>
    BY DEF TimerExpires, masks, flags
  <1>2. /\ kwork' \in KWorkType(WorkItems)
        /\ kwork'.timers = kwork.timers \ {w}
        /\ kwork'.queued = IF kwork.running = w /\ kwork.canceling THEN kwork.queued
                           ELSE kwork.queued \cup {w}
        /\ kwork'.running = kwork.running
        /\ kwork'.canceling = kwork.canceling
    <2>1. kwork \in KWorkType(WorkItems) /\ kwork' = TimerFired(kwork, w)
      BY <1>0 DEF TimerExpires, TypeOK
    <2> QED BY <2>1, FiredFacts
  <1>3. w \in kwork.timers /\ (w = comm_loss_reboot_work => ~Pending(kwork, comm_loss_ind_work))
    BY DEF TimerExpires
  <1>4. TypeOK'
    BY <1>0, <1>1, <1>2 DEF TypeOK
  <1>5. PulseIsTimed'
    <2>1. /\ PulsesTimed(kwork, relay_pulse_mask) /\ relay_pulse_mask \subseteq Ch
          /\ relay_pulse_mask' \subseteq relay_state_mask'
      BY <1>0, <1>1, PulsesNow DEF Core, PulseIsTimed, TypeOK
    <2>2. PulsesTimed(kwork', relay_pulse_mask')
      BY <1>1, <1>2, <1>3, <2>1 DEF PulsesTimed
    <2> QED BY <2>1, <2>2, PulsesNext
  <1>6. LeaseIsHeld => LeaseIsHeld'
    BY <1>1, <1>2 DEF LeaseIsHeld, IoFailed, Pending
  <1>7. LeaseOnlyWhileEnergized' /\ OutputsFollowMask' /\ OwnerLossMeansOff'
    BY <1>1 DEF Core, LeaseOnlyWhileEnergized, OutputsFollowMask, OwnerLossMeansOff, IoFailed
  <1>8. RebootBookkeeping'
    BY <1>1, <1>2, <1>3 DEF Core, RebootBookkeeping, Pending
  <1>9. ReportIsTrue' /\ HandlerIsServedNext'
    BY <1>1, <1>2 DEF Core, ReportIsTrue, HandlerIsServedNext, HandlerWaits
  <1>10. IndicationRunsOnce' /\ PulseRunsOnce'
    BY <1>1, <1>2, <1>3 DEF Core, IndicationRunsOnce, PulseRunsOnce, Pending
  <1>11. Announced => Announced'
    BY <1>1, <1>2, <1>3, WorkNumbers DEF Core, Announced, RebootIsAnnounced, AnnouncementPrecedesReboot, IndicationRunsOnce, PulseRunsOnce, Pending
  <1>12. Spares(kwork, kwork') /\ SparesReasons(health, health')
    BY <1>1, <1>2 DEF Spares, SparesReasons, Pending
  <1> QED BY <1>4, <1>5, <1>6, <1>7, <1>8, <1>9, <1>10, <1>11, <1>12 DEF Core, Kept

(* The workqueue thread starts a handler; it was not canceled.               *)
LEMMA DispatchStep ==
    ASSUME Core, NEW w \in WorkItems, Dispatch(w)
    PROVE  Kept
  <1>0. TypeOK
    BY DEF Core
  <1>1. UNCHANGED <<pins, relay_state_mask, relay_pulse_mask, comm_loss_armed,
                    comm_loss_reboot_scheduled, comm_loss_ind_scheduled, relay_lock, to_publish, health>>
    BY DEF Dispatch, masks, flags
  <1>2. /\ kwork' \in KWorkType(WorkItems)
        /\ kwork'.timers = kwork.timers
        /\ kwork'.queued = kwork.queued \ {w}
        /\ kwork'.running = w
        /\ kwork'.canceling = kwork.canceling
    BY <1>0, DispatchFacts DEF Dispatch, TypeOK
  <1>3. w \in kwork.queued /\ kwork.running = NoWork
    BY DEF Dispatch
  <1>4. TypeOK'
    BY <1>0, <1>1, <1>2 DEF TypeOK
  <1>5. PulseIsTimed'
    BY <1>0, <1>1, <1>2, <1>3, WorkNumbers DEF Core, PulseIsTimed, HandlerIsServedNext,
       Pending, TypeOK
  <1>6. LeaseIsHeld => LeaseIsHeld'
    BY <1>1, <1>2, <1>3, WorkNumbers DEF LeaseIsHeld, IoFailed, Pending
  <1>7. LeaseOnlyWhileEnergized' /\ OutputsFollowMask' /\ OwnerLossMeansOff'
    BY <1>1 DEF Core, LeaseOnlyWhileEnergized, OutputsFollowMask, OwnerLossMeansOff, IoFailed
  <1>8. RebootBookkeeping' /\ IndicationRunsOnce' /\ PulseRunsOnce'
    BY <1>1, <1>2, <1>3, WorkNumbers DEF Core, RebootBookkeeping, IndicationRunsOnce, PulseRunsOnce, Pending
  <1>9. ReportIsTrue'
    BY <1>1 DEF Core, ReportIsTrue
  <1>10. Announced => Announced'
    BY <1>1, <1>2, <1>3, WorkNumbers DEF Core, Announced, RebootIsAnnounced,
       AnnouncementPrecedesReboot, RebootBookkeeping, Pending
  <1>11. HandlerIsServedNext'
    <2>1. w \in Ch => w \in relay_pulse_mask
      BY <1>3, PulsesNow DEF PulsesTimed
    <2> QED BY <1>1, <1>2, <1>3, <2>1, WorkNumbers DEF Core, HandlerIsServedNext, HandlerWaits
  <1>12. Spares(kwork, kwork') /\ SparesReasons(health, health')
    <2>1. kwork.running = NoWork => ~kwork.canceling
      BY DEF Core, HandlerIsServedNext
    <2> QED BY <1>1, <1>2, <1>3, <2>1, WorkNumbers DEF Spares, SparesReasons, Pending
  <1> QED BY <1>4, <1>5, <1>6, <1>7, <1>8, <1>9, <1>10, <1>11, <1>12 DEF Core, Kept

(* A handler that finds nothing to do returns: it was not the run that ends *)
(* a pulse, an armed lease or a pending announcement.                       *)
LEMMA HandlerReturns ==
    ASSUME Core, kwork' = HandlerDone(kwork),
           UNCHANGED <<masks, flags, health, relay_lock, to_publish>>,
           kwork.running \in LockingWork, kwork.running \notin relay_pulse_mask,
           kwork.running = comm_loss_work => ~comm_loss_armed,
           kwork.running = comm_loss_ind_work =>
              ~(comm_loss_ind_scheduled /\ comm_loss_reboot_scheduled)
    PROVE  Kept
  <1>0. TypeOK /\ kwork \in KWorkType(WorkItems)
    BY DEF Core, TypeOK
  <1>1. /\ kwork' \in KWorkType(WorkItems)
        /\ kwork'.timers = kwork.timers /\ kwork'.queued = kwork.queued
        /\ kwork'.running = NoWork /\ kwork'.canceling = FALSE
    BY <1>0, DoneFacts
  <1>2. TypeOK'
    BY <1>0, <1>1 DEF TypeOK, masks, flags
  <1>3. PulseIsTimed' /\ (LeaseIsHeld => LeaseIsHeld')
    BY <1>1, WorkNumbers DEF Core, PulseIsTimed, LeaseIsHeld,
       Pending, IoFailed, masks, flags
  <1>4. LeaseOnlyWhileEnergized' /\ OutputsFollowMask' /\ OwnerLossMeansOff'
    BY DEF Core, LeaseOnlyWhileEnergized, OutputsFollowMask, OwnerLossMeansOff,
       IoFailed, masks, flags
  <1>5. RebootBookkeeping' /\ ReportIsTrue' /\ IndicationRunsOnce' /\ PulseRunsOnce'
    BY <1>1, WorkNumbers DEF Core, RebootBookkeeping, ReportIsTrue, IndicationRunsOnce,
       PulseRunsOnce, Pending, flags
  <1>7. Announced => Announced'
    BY <1>1, WorkNumbers DEF Core, Announced, RebootIsAnnounced, AnnouncementPrecedesReboot,
       Pending, flags
  <1>8. Spares(kwork, kwork') /\ SparesReasons(health, health')
    BY <1>0, DoneSpares DEF SparesReasons
  <1>6. HandlerIsServedNext'
    BY <1>1, WorkNumbers DEF HandlerIsServedNext, HandlerWaits
  <1> QED BY <1>2, <1>3, <1>4, <1>5, <1>6, <1>7, <1>8 DEF Core, Kept

(* A pulse ends.  When the last relay goes off, the energized-only lease    *)
(* is released with it.                                                     *)
LEMMA PulseExpiredStep ==
    ASSUME Core, NEW c \in Ch, pulse_expired(c)
    PROVE  Kept
  <1>0. TypeOK /\ kwork \in KWorkType(WorkItems)
    BY DEF Core, TypeOK
  <1>1. kwork.running = c /\ relay_lock = {} /\ UNCHANGED <<relay_lock, to_publish>>
    BY DEF pulse_expired, HandlerRuns
  <1>2. CASE /\ c \notin relay_pulse_mask
             /\ kwork' = HandlerDone(kwork)
             /\ UNCHANGED <<masks, flags, health>>
    <2>1. /\ kwork.running \in LockingWork /\ kwork.running \notin relay_pulse_mask
          /\ kwork.running # comm_loss_work /\ kwork.running # comm_loss_ind_work
      BY <1>1, <1>2, WorkNumbers
    <2> QED BY <1>1, <1>2, <2>1, HandlerReturns
  <1>3. CASE /\ c \in relay_pulse_mask
             /\ relay_pulse_mask' = relay_pulse_mask \ {c}
             /\ GpioFailed({}, 0, HandlerDone(kwork))
    <2> DEFINE k == HandlerDone(kwork)
    <2>1. /\ k \in KWorkType(WorkItems)
          /\ k.timers = kwork.timers /\ k.queued = kwork.queued
          /\ k.running = NoWork /\ k.canceling = FALSE
      BY <1>0, DoneFacts
    <2>2. /\ relay_pulse_mask' \subseteq relay_pulse_mask
          /\ relay_lock' = {} /\ to_publish' = to_publish
      BY <1>1, <1>3
    <2>4. GpioFailed({}, 0, k)
      BY <1>3
    <2> HIDE DEF k
    <2>3. PulsesTimed(k, relay_pulse_mask')
      <3>1. \A d \in Ch : k.running # d
        BY <2>1, WorkNumbers
      <3> QED BY <1>1, <1>3, <2>1, <3>1, PulsesNow DEF PulsesTimed
    <2>5. Spares(kwork, k)
      BY <1>0, <1>1, DoneSpares, WorkNumbers DEF k
    <2> QED BY <1>1, <2>1, <2>2, <2>3, <2>4, <2>5, GpioFailedStep
  <1>4. CASE /\ c \in relay_pulse_mask
             /\ relay_pulse_mask' = relay_pulse_mask \ {c}
             /\ pins' = pins \ {c}
             /\ relay_state_mask' = relay_state_mask \ {c}
             /\ health' = health_set_relay_state(health, relay_state_mask', relay_pulse_mask')
             /\ LET idle == DisarmsIfIdle(relay_state_mask', relay_pulse_mask') IN
                /\ comm_loss_armed' = (comm_loss_armed /\ ~idle)
                /\ kwork' = HandlerDone(IF idle THEN k_work_cancel_delayable(kwork, {comm_loss_work})
                                                ELSE kwork)
             /\ UNCHANGED <<comm_loss_reboot_scheduled, comm_loss_ind_scheduled>>
    <2> DEFINE idle == DisarmsIfIdle(relay_state_mask', relay_pulse_mask')
               k == IF idle THEN k_work_cancel_delayable(kwork, {comm_loss_work}) ELSE kwork
    <2>1. /\ k \in KWorkType(WorkItems)
          /\ k.timers = IF idle THEN kwork.timers \ {comm_loss_work} ELSE kwork.timers
          /\ k.queued = IF idle THEN kwork.queued \ {comm_loss_work} ELSE kwork.queued
      <3> DEFINE k1 == k_work_cancel_delayable(kwork, {comm_loss_work})
      <3>1. /\ k1 \in KWorkType(WorkItems)
            /\ k1.timers = kwork.timers \ {comm_loss_work}
            /\ k1.queued = kwork.queued \ {comm_loss_work}
        BY <1>0, CancelFacts
      <3>2. k = IF idle THEN k1 ELSE kwork
        OBVIOUS
      <3> HIDE DEF k, k1, idle
      <3> QED BY <1>0, <3>1, <3>2
    <2>2. kwork' = HandlerDone(k) /\ comm_loss_armed' = (comm_loss_armed /\ ~idle)
      BY <1>4
    <2>3. idle <=> Policy = "energized-only" /\ relay_state_mask' = {} /\ relay_pulse_mask' = {}
      BY DEF DisarmsIfIdle
    <2> HIDE DEF k, idle
    <2>4. /\ kwork' \in KWorkType(WorkItems)
          /\ kwork'.timers = k.timers /\ kwork'.queued = k.queued
          /\ kwork'.running = NoWork /\ kwork'.canceling = FALSE
      BY <2>1, <2>2, DoneFacts
    <2>5. /\ relay_state_mask' \in SUBSET Ch /\ relay_pulse_mask' \in SUBSET Ch
          /\ pins' \in SUBSET Ch /\ relay_pulse_mask' \subseteq relay_state_mask'
      BY <1>0, <1>4 DEF TypeOK, Core, PulseIsTimed
    <2>6. health' \in HealthType(Ch) /\ health'.reasons = health.reasons /\ Sound(health')
      BY <1>0, <1>4, <2>5, SetRelayStateFacts DEF TypeOK
    <2>7. TypeOK'
      BY <1>0, <1>1, <1>4, <2>2, <2>4, <2>5, <2>6 DEF TypeOK
    <2>8. PulseIsTimed'
      <3>1. \A d \in Ch : d # comm_loss_work /\ kwork'.running # d
        BY <2>4, WorkNumbers
      <3>2. \A d \in Ch : /\ d \in kwork'.timers <=> d \in kwork.timers
                          /\ d \in kwork'.queued <=> d \in kwork.queued
        BY <2>1, <2>4, <3>1
      <3>3. PulsesTimed(kwork, relay_pulse_mask) /\ relay_pulse_mask \subseteq Ch
        BY <1>0, PulsesNow DEF TypeOK
      <3>4. PulsesTimed(kwork', relay_pulse_mask')
        BY <1>1, <1>4, <3>1, <3>2, <3>3 DEF PulsesTimed
      <3> QED BY <2>5, <3>4, PulsesNext
    <2>9. LeaseIsHeld => LeaseIsHeld'
      <3>1. CASE idle
        BY <2>3, <3>1 DEF LeaseIsHeld, comm_loss_should_arm
      <3>2. CASE ~idle
        <4>1. /\ comm_loss_should_arm(relay_state_mask', relay_pulse_mask') =>
                    comm_loss_should_arm(relay_state_mask, relay_pulse_mask)
              /\ relay_state_mask # {} /\ IoFailed' = IoFailed
          BY <1>4, <2>6 DEF comm_loss_should_arm, Core, PulseIsTimed, IoFailed
        <4>2. kwork'.timers = kwork.timers /\ kwork'.queued = kwork.queued
              /\ kwork.running # comm_loss_work /\ comm_loss_armed' = (comm_loss_armed /\ TRUE)
          BY <1>1, <2>1, <2>2, <2>4, <3>2, WorkNumbers
        <4> QED BY <4>1, <4>2 DEF LeaseIsHeld, Pending
      <3> QED BY <3>1, <3>2
    <2>10. LeaseOnlyWhileEnergized'
      BY <2>2, <2>3, <2>5 DEF LeaseOnlyWhileEnergized
    <2>11. OutputsFollowMask' /\ OwnerLossMeansOff'
      BY <1>4, <2>6 DEF Core, OutputsFollowMask, OwnerLossMeansOff, IoFailed
    <2>12. RebootBookkeeping' /\ ReportIsTrue' /\ IndicationRunsOnce' /\ PulseRunsOnce'
      BY <1>1, <1>4, <2>1, <2>2, <2>4, <2>6, WorkNumbers DEF Core, RebootBookkeeping, ReportIsTrue,
         IndicationRunsOnce, PulseRunsOnce, Pending
    <2>14. Announced => Announced'
      BY <1>1, <1>4, <2>1, <2>2, <2>4, <2>6, WorkNumbers DEF Core, Announced, RebootIsAnnounced,
         AnnouncementPrecedesReboot, Pending
    <2>15. Spares(kwork, kwork') /\ SparesReasons(health, health')
      BY <1>1, <2>1, <2>4, <2>6, WorkNumbers DEF Spares, SparesReasons, Pending
    <2>13. HandlerIsServedNext'
      BY <2>4, WorkNumbers DEF HandlerIsServedNext, HandlerWaits
    <2> QED BY <2>7, <2>8, <2>9, <2>10, <2>11, <2>12, <2>13, <2>14, <2>15 DEF Core, Kept
  <1> QED BY <1>2, <1>3, <1>4 DEF pulse_expired

(* The owner is lost.  With all relays off only the lease, the reboot and   *)
(* its announcement remain; a reboot that is scheduled here is new, since   *)
(* the lease that ran out was armed.                                        *)
LEMMA CommLossExpiredStep ==
    ASSUME Core, comm_loss_expired
    PROVE  Kept
  <1> DEFINE quiet == k_work_cancel_delayable(kwork, Ch)
             h1 == health_set_comm_owner_timed_out(health, TRUE)
             h == health_set_relay_state(h1, {}, {})
  <1>0. TypeOK /\ kwork \in KWorkType(WorkItems)
    BY DEF Core, TypeOK
  <1>1. /\ kwork.running = comm_loss_work /\ relay_lock = {}
        /\ UNCHANGED <<relay_lock, to_publish>>
    BY DEF comm_loss_expired, HandlerRuns
  <1>2. /\ quiet \in KWorkType(WorkItems)
        /\ quiet.timers = kwork.timers \ Ch
        /\ quiet.queued = kwork.queued \ Ch
        /\ quiet.running = comm_loss_work
    BY <1>0, <1>1, CancelFacts
  <1>8. Spares(kwork, quiet)
    BY CancelSpares
  <1>3. h1 \in HealthType(Ch) /\ h1.reasons = health.reasons \cup {CommOwnerTimeout}
    BY <1>0, NamedSetterFacts DEF TypeOK
  <1>4. h \in HealthType(Ch) /\ h.reasons = health.reasons \cup {CommOwnerTimeout} /\ Sound(h)
    <2> HIDE DEF h1
    <2> QED BY <1>3, SetRelayStateFacts
  <1>5. CASE /\ ~comm_loss_armed
             /\ kwork' = HandlerDone(kwork)
             /\ UNCHANGED <<masks, flags, health>>
    <2>1. /\ kwork.running \in LockingWork /\ kwork.running \notin relay_pulse_mask
          /\ kwork.running # comm_loss_ind_work
      BY <1>0, <1>1, WorkNumbers DEF TypeOK
    <2> QED BY <1>1, <1>5, <2>1, HandlerReturns
  <1>6. CASE /\ comm_loss_armed
             /\ relay_pulse_mask' = {}
             /\ \E i \in Ch : GpioFailed({}, i, HandlerDone(quiet))
    <2> DEFINE k == HandlerDone(quiet)
    <2>1. PICK i \in Ch : GpioFailed({}, i, k)
      BY <1>6
    <2> HIDE DEF quiet
    <2>2. /\ k \in KWorkType(WorkItems)
          /\ k.timers = quiet.timers /\ k.queued = quiet.queued
          /\ k.running = NoWork /\ k.canceling = FALSE
      BY <1>2, DoneFacts
    <2> HIDE DEF k
    <2>3. \A w \in WorkItems \ Ch : /\ w \in k.timers <=> w \in kwork.timers
                                    /\ w \in k.queued <=> w \in kwork.queued
      BY <1>2, <2>2
    <2>4. PulsesTimed(k, relay_pulse_mask')
      <3>1. \A d \in Ch : k.running # d /\ d \notin k.timers /\ d \notin k.queued
        BY <1>2, <2>2, WorkNumbers
      <3> QED BY <1>6, <3>1 DEF PulsesTimed
    <2>5. Spares(kwork, k)
      <3>1. Spares(quiet, k)
        BY <1>2, DoneSpares, WorkNumbers DEF k
      <3> QED BY <1>8, <3>1 DEF Spares
    <2> QED BY <1>1, <1>6, <2>1, <2>2, <2>3, <2>4, <2>5, GpioFailedStep
  <1>7. CASE /\ comm_loss_armed
             /\ pins' = {} /\ relay_state_mask' = {} /\ relay_pulse_mask' = {}
             /\ AfterOwnerTimeout(h, quiet)
    <2> HIDE DEF quiet, h
    <2>1. ~comm_loss_reboot_scheduled /\ ~Pending(kwork, comm_loss_reboot_work)
          /\ ~Pending(kwork, comm_loss_ind_work) /\ CommRebootPending \notin health.reasons
      BY <1>7 DEF Core, RebootBookkeeping, ReportIsTrue
    <2>2. /\ comm_loss_reboot_work \notin quiet.timers \cup quiet.queued
          /\ comm_loss_ind_work \notin quiet.timers \cup quiet.queued
      BY <1>2, <2>1 DEF Pending
    <2>3. CommOwnerTimeout # CommRebootPending
      BY DEF CommOwnerTimeout, CommRebootPending
    <2>12. \A c \in Ch : /\ c \notin quiet.timers /\ c \notin quiet.queued
                         /\ c \notin {comm_loss_work, comm_loss_ind_work, comm_loss_reboot_work}
      BY <1>2, WorkNumbers
    <2>4. /\ kwork' \in KWorkType(WorkItems) /\ kwork'.running = NoWork /\ kwork'.canceling = FALSE
          /\ health' \in HealthType(Ch)
          /\ comm_loss_armed' \in BOOLEAN
          /\ comm_loss_reboot_scheduled' \in BOOLEAN /\ comm_loss_ind_scheduled' \in BOOLEAN
          /\ comm_loss_armed' => Policy = "always-on-owner"
          /\ ~(comm_loss_armed' /\ comm_loss_reboot_scheduled')
          /\ comm_loss_reboot_work \notin kwork'.queued
          /\ comm_loss_ind_work \notin kwork'.queued
          /\ comm_loss_reboot_work \in kwork'.timers <=> comm_loss_reboot_scheduled'
          /\ comm_loss_ind_work \in kwork'.timers => comm_loss_reboot_scheduled' /\ comm_loss_ind_scheduled'
          /\ CommRebootPending \in health'.reasons => comm_loss_reboot_scheduled'
          /\ comm_loss_reboot_scheduled' =>
                CommRebootPending \in health'.reasons \/ comm_loss_ind_work \in kwork'.timers
          /\ Policy = "always-on-owner" =>
                \/ comm_loss_armed' /\ comm_loss_work \in kwork'.timers
                \/ comm_loss_reboot_scheduled' \/ RebootFailed \in health'.reasons
          /\ \A c \in Ch : c \notin kwork'.timers /\ c \notin kwork'.queued
          /\ \A w \in OtherWork : /\ w \in quiet.timers => w \in kwork'.timers
                                  /\ w \in quiet.queued => w \in kwork'.queued
          /\ SparesReasons(health, health')
      <3>1. CASE ~RebootOnTimeout
        <4> DEFINE k == IF comm_loss_armed' THEN comm_loss_schedule(quiet, {}, {}) ELSE quiet
        <4>1. /\ comm_loss_armed' = (Policy = "always-on-owner")
              /\ kwork' = HandlerDone(k) /\ health' = h
              /\ UNCHANGED <<comm_loss_reboot_scheduled, comm_loss_ind_scheduled>>
          BY <1>7, <3>1 DEF AfterOwnerTimeout
        <4>2. /\ k \in KWorkType(WorkItems)
              /\ k.queued = quiet.queued /\ quiet.timers \subseteq k.timers
              /\ k.timers \subseteq quiet.timers \cup {comm_loss_work}
              /\ comm_loss_armed' => comm_loss_work \in k.timers
          <5>1. CASE ~comm_loss_armed'
            BY <1>2, <5>1
          <5>2. CASE comm_loss_armed'
            <6>1. k = comm_loss_schedule(quiet, {}, {})
              BY <5>2
            <6> HIDE DEF k
            <6>2. comm_loss_should_arm({}, {})
              BY <4>1, <5>2 DEF comm_loss_should_arm, comm_loss_timeout_enabled
            <6>3. k = k_work_reschedule(quiet, comm_loss_work)
              BY <6>1, <6>2 DEF comm_loss_schedule
            <6>4. /\ k \in KWorkType(WorkItems)
                  /\ k.queued = quiet.queued
                  /\ k.timers = quiet.timers \cup {comm_loss_work}
              BY <1>2, <6>3, RescheduleFacts, WorkNumbers
            <6> QED BY <6>4
          <5> QED BY <5>1, <5>2
        <4> HIDE DEF k
        <4>3. /\ kwork' \in KWorkType(WorkItems) /\ kwork'.running = NoWork /\ kwork'.canceling = FALSE
              /\ kwork'.timers = k.timers /\ kwork'.queued = k.queued
          BY <4>1, <4>2, DoneFacts
        <4>4. comm_loss_ind_scheduled \in BOOLEAN
          BY <1>0 DEF TypeOK
        <4>5. /\ comm_loss_reboot_work \notin kwork'.timers \cup kwork'.queued
              /\ comm_loss_ind_work \notin kwork'.timers \cup kwork'.queued
          BY <2>2, <4>2, <4>3, WorkNumbers
        <4>6. health' \in HealthType(Ch) /\ CommRebootPending \notin health'.reasons
          BY <1>4, <2>1, <2>3, <4>1
        <4>7. comm_loss_reboot_scheduled' = FALSE /\ comm_loss_ind_scheduled' \in BOOLEAN
          BY <1>0, <2>1, <4>1, <4>4 DEF TypeOK
        <4>8. /\ comm_loss_armed' \in BOOLEAN /\ (comm_loss_armed' => Policy = "always-on-owner")
              /\ Policy = "always-on-owner" => comm_loss_armed' /\ comm_loss_work \in kwork'.timers
          BY <4>1, <4>2, <4>3
        <4>9. \A c \in Ch : c \notin kwork'.timers /\ c \notin kwork'.queued
          BY <2>12, <4>2, <4>3
        <4>10. SparesReasons(health, health')
          BY <1>4, <4>1 DEF SparesReasons
        <4> QED BY <4>2, <4>3, <4>5, <4>6, <4>7, <4>8, <4>9, <4>10
      <3> DEFINE scheduled == k_work_schedule(quiet, comm_loss_reboot_work)
      <3>2. /\ scheduled \in KWorkType(WorkItems)
            /\ scheduled.timers = quiet.timers \cup {comm_loss_reboot_work}
            /\ scheduled.queued = quiet.queued
            /\ scheduled.running = comm_loss_work
        <4>1. comm_loss_reboot_work \in WorkItems /\ comm_loss_reboot_work # comm_loss_work
          BY WorkNumbers
        <4>2. comm_loss_reboot_work \notin quiet.timers \cup quiet.queued
          BY <2>2
        <4> QED BY <1>2, <4>1, <4>2, ScheduleStarts
      <3> HIDE DEF scheduled
      <3>3. CASE /\ RebootOnTimeout /\ comm_loss_armed' = FALSE
                 /\ comm_loss_reboot_scheduled' = TRUE /\ comm_loss_ind_scheduled' = TRUE
                 /\ ShortRebootDelay
                 /\ health' = health_set_comm_reboot_pending(h, TRUE)
                 /\ kwork' = HandlerDone(scheduled)
        <4>1. /\ kwork' \in KWorkType(WorkItems) /\ kwork'.running = NoWork /\ kwork'.canceling = FALSE
              /\ kwork'.timers = scheduled.timers /\ kwork'.queued = scheduled.queued
          BY <3>2, <3>3, DoneFacts
        <4>2. health' \in HealthType(Ch) /\ health'.reasons = h.reasons \cup {CommRebootPending}
              /\ Sound(health')
          BY <1>4, <3>3, NamedSetterFacts
        <4>3. SparesReasons(health, health')
          BY <1>4, <4>2 DEF SparesReasons
        <4> QED BY <2>2, <2>12, <3>2, <3>3, <4>1, <4>2, <4>3, WorkNumbers
      <3>4. CASE /\ RebootOnTimeout /\ comm_loss_armed' = FALSE
                 /\ comm_loss_reboot_scheduled' = TRUE /\ comm_loss_ind_scheduled' = TRUE
                 /\ ~ShortRebootDelay
                 /\ health' = h
                 /\ kwork' = HandlerDone(k_work_schedule(scheduled, comm_loss_ind_work))
        <4> DEFINE k == k_work_schedule(scheduled, comm_loss_ind_work)
        <4>1. comm_loss_ind_work \in WorkItems /\ comm_loss_ind_work # comm_loss_work
              /\ comm_loss_ind_work # comm_loss_reboot_work
          BY WorkNumbers
        <4>2. comm_loss_ind_work \notin scheduled.timers \cup scheduled.queued
          BY <2>2, <3>2, <4>1
        <4>3. /\ k \in KWorkType(WorkItems)
              /\ k.timers = scheduled.timers \cup {comm_loss_ind_work}
              /\ k.queued = scheduled.queued
          BY <3>2, <4>1, <4>2, ScheduleStarts
        <4> HIDE DEF k
        <4>4. /\ kwork' \in KWorkType(WorkItems) /\ kwork'.running = NoWork /\ kwork'.canceling = FALSE
              /\ kwork'.timers = k.timers /\ kwork'.queued = k.queued
          <5>1. kwork' = HandlerDone(k)
            BY <3>4 DEF k
          <5> QED BY <4>3, <5>1, DoneFacts
        <4>5. SparesReasons(health, health')
          BY <1>4, <3>4 DEF SparesReasons
        <4> QED BY <1>4, <2>1, <2>2, <2>3, <2>12, <3>2, <3>4, <4>1, <4>3, <4>4, <4>5
      <3>5. CASE /\ RebootOnTimeout /\ comm_loss_armed' = FALSE
                 /\ comm_loss_reboot_scheduled' = FALSE /\ comm_loss_ind_scheduled' = FALSE
                 /\ health' = health_record_reboot_failed(h)
                 /\ kwork' = HandlerDone(k_work_cancel_delayable(quiet, {comm_loss_ind_work}))
        <4> DEFINE k == k_work_cancel_delayable(quiet, {comm_loss_ind_work})
        <4>1. /\ k \in KWorkType(WorkItems)
              /\ k.timers = quiet.timers \ {comm_loss_ind_work}
              /\ k.queued = quiet.queued \ {comm_loss_ind_work}
          BY <1>2, CancelFacts
        <4> HIDE DEF k
        <4>2. /\ kwork' \in KWorkType(WorkItems) /\ kwork'.running = NoWork /\ kwork'.canceling = FALSE
              /\ kwork'.timers = k.timers /\ kwork'.queued = k.queued
          <5>1. kwork' = HandlerDone(k)
            BY <3>5 DEF k
          <5> QED BY <4>1, <5>1, DoneFacts
        <4>3. /\ health' \in HealthType(Ch) /\ CommRebootPending \notin health'.reasons
              /\ RebootFailed \in health'.reasons
          BY <1>4, <3>5, RebootFailedFacts DEF PendingReasons, CommRebootPending, HostRebootPending,
             RebootFailed
        <4>4. SparesReasons(health, health')
          <5>1. health'.reasons = (h.reasons \cup {RebootFailed}) \ PendingReasons /\ Sound(health')
            BY <1>4, <3>5, RebootFailedFacts
          <5> QED BY <1>4, <5>1 DEF SparesReasons, PendingReasons
        <4> QED BY <2>2, <2>12, <3>5, <4>1, <4>2, <4>3, <4>4, WorkNumbers
      <3>6. CASE RebootOnTimeout
        BY <1>7, <3>3, <3>4, <3>5, <3>6 DEF AfterOwnerTimeout, scheduled
      <3> QED BY <3>1, <3>6
    <2>5. TypeOK'
      BY <1>0, <1>1, <1>7, <2>4 DEF TypeOK
    <2>6. OutputsFollowMask' /\ OwnerLossMeansOff'
      BY <1>7 DEF OutputsFollowMask, OwnerLossMeansOff
    <2>13. PulseIsTimed' /\ PulseRunsOnce'
      <3>1. PulsesTimed(kwork', relay_pulse_mask')
        BY <1>7, <2>4 DEF PulsesTimed
      <3> QED BY <1>7, <3>1, PulsesNext
    <2>11. LeaseIsHeld'
      BY <1>7, <2>4 DEF LeaseIsHeld, comm_loss_should_arm, Pending
    <2>7. LeaseOnlyWhileEnergized'
      BY <2>4 DEF LeaseOnlyWhileEnergized
    <2>8. RebootBookkeeping' /\ ReportIsTrue' /\ IndicationRunsOnce'
      BY <2>4, WorkNumbers DEF RebootBookkeeping, ReportIsTrue, IndicationRunsOnce, Pending
    <2>9. Announced'
      BY <2>4, WorkNumbers DEF Announced, RebootIsAnnounced, AnnouncementPrecedesReboot, Pending
    <2>14. Spares(kwork, kwork')
      <3>1. Spares(quiet, kwork')
        BY <1>2, <2>4, WorkNumbers DEF Spares, Pending
      <3> QED BY <1>8, <3>1 DEF Spares
    <2>10. HandlerIsServedNext'
      BY <2>4, WorkNumbers DEF HandlerIsServedNext, HandlerWaits
    <2> QED BY <2>4, <2>5, <2>6, <2>7, <2>8, <2>9, <2>10, <2>11, <2>13, <2>14 DEF Core, Kept
  <1> QED BY <1>5, <1>6, <1>7 DEF comm_loss_expired

(* The final warning is given, or the reboot it was about is gone.          *)
LEMMA IndicationStep ==
    ASSUME Core, comm_loss_reboot_pending_indication_expired
    PROVE  Kept
  <1>0. TypeOK /\ kwork \in KWorkType(WorkItems)
    BY DEF Core, TypeOK
  <1>1. /\ kwork.running = comm_loss_ind_work /\ relay_lock = {}
        /\ kwork' = HandlerDone(kwork)
        /\ UNCHANGED <<masks, comm_loss_armed, comm_loss_reboot_scheduled, relay_lock, to_publish>>
    BY DEF comm_loss_reboot_pending_indication_expired, HandlerRuns
  <1>2. CASE ~(comm_loss_ind_scheduled /\ comm_loss_reboot_scheduled)
    <2>1. UNCHANGED <<masks, flags, health, relay_lock, to_publish>>
      BY <1>1, <1>2 DEF comm_loss_reboot_pending_indication_expired, flags
    <2>2. /\ kwork.running \in LockingWork /\ kwork.running \notin relay_pulse_mask
          /\ kwork.running # comm_loss_work
      BY <1>0, <1>1, WorkNumbers DEF TypeOK
    <2> QED BY <1>1, <1>2, <2>1, <2>2, HandlerReturns
  <1>3. CASE comm_loss_ind_scheduled /\ comm_loss_reboot_scheduled
    <2>1. comm_loss_ind_scheduled' = FALSE /\ health' = health_set_comm_reboot_pending(health, TRUE)
      BY <1>3 DEF comm_loss_reboot_pending_indication_expired
    <2>2. /\ health' \in HealthType(Ch)
          /\ health'.reasons = health.reasons \cup {CommRebootPending} /\ Sound(health')
      BY <1>0, <2>1, NamedSetterFacts DEF TypeOK
    <2>3. /\ kwork' \in KWorkType(WorkItems)
          /\ kwork'.timers = kwork.timers /\ kwork'.queued = kwork.queued
          /\ kwork'.running = NoWork /\ kwork'.canceling = FALSE
      BY <1>0, <1>1, DoneFacts
    <2>4. TypeOK'
      BY <1>0, <1>1, <2>1, <2>2, <2>3 DEF TypeOK, masks
    <2>5. CommRebootPending # RelayIoFailed /\ CommRebootPending # CommOwnerTimeout
      BY DEF CommRebootPending, RelayIoFailed, CommOwnerTimeout
    <2>6. PulseIsTimed' /\ (LeaseIsHeld => LeaseIsHeld')
      BY <1>0, <1>1, <2>2, <2>3, <2>5, WorkNumbers DEF Core, PulseIsTimed, LeaseIsHeld,
         Pending, IoFailed, masks, TypeOK
    <2>7. LeaseOnlyWhileEnergized' /\ OutputsFollowMask' /\ OwnerLossMeansOff'
      BY <1>1, <2>2, <2>5 DEF Core, LeaseOnlyWhileEnergized, OutputsFollowMask, OwnerLossMeansOff,
         IoFailed, masks
    <2>8. RebootBookkeeping' /\ ReportIsTrue' /\ IndicationRunsOnce' /\ PulseRunsOnce' /\ Announced'
      BY <1>1, <1>3, <2>1, <2>2, <2>3, WorkNumbers DEF Core, RebootBookkeeping, ReportIsTrue,
         IndicationRunsOnce, PulseRunsOnce, Announced, RebootIsAnnounced,
         AnnouncementPrecedesReboot, Pending
    <2>10. Spares(kwork, kwork') /\ SparesReasons(health, health')
      BY <1>1, <2>2, <2>3, WorkNumbers DEF Spares, SparesReasons, Pending
    <2>9. HandlerIsServedNext'
      BY <2>3, WorkNumbers DEF HandlerIsServedNext, HandlerWaits
    <2> QED BY <2>4, <2>6, <2>7, <2>8, <2>9, <2>10 DEF Core, Kept
  <1> QED BY <1>2, <1>3

-----------------------------------------------------------------------------
(* Boot *)

(* The workqueue and the health model a boot leaves.                        *)
LEMMA BootFacts ==
    /\ BootWork \in KWorkType(WorkItems)
    /\ BootWork.timers \subseteq {comm_loss_work} /\ BootWork.queued = {}
    /\ Policy = "always-on-owner" => comm_loss_work \in BootWork.timers
    /\ BootWork.running = NoWork /\ BootWork.canceling = FALSE
    /\ BootHealth \in HealthType(Ch) /\ BootHealth.reasons = {}
  <1>1. /\ KWorkIdle \in KWorkType(WorkItems)
        /\ KWorkIdle.timers = {} /\ KWorkIdle.queued = {}
        /\ KWorkIdle.running = NoWork /\ KWorkIdle.canceling = FALSE
    BY DEF KWorkIdle, KWorkType
  <1>2. \/ BootWork = KWorkIdle /\ Policy # "always-on-owner"
        \/ BootWork = k_work_reschedule(KWorkIdle, comm_loss_work)
    BY DEF BootWork, comm_loss_schedule, comm_loss_should_arm, comm_loss_timeout_enabled
  <1>5. /\ BootWork \in KWorkType(WorkItems)
        /\ BootWork.timers \subseteq {comm_loss_work} /\ BootWork.queued = {}
        /\ Policy = "always-on-owner" => comm_loss_work \in BootWork.timers
        /\ BootWork.running = NoWork /\ BootWork.canceling = FALSE
    <2>1. CASE BootWork = KWorkIdle /\ Policy # "always-on-owner"
      BY <1>1, <2>1
    <2>2. CASE BootWork = k_work_reschedule(KWorkIdle, comm_loss_work)
      <3>1. comm_loss_work \in WorkItems
        BY WorkNumbers
      <3>2. /\ BootWork \in KWorkType(WorkItems)
            /\ BootWork.timers = KWorkIdle.timers \cup {comm_loss_work}
            /\ BootWork.queued = KWorkIdle.queued
            /\ BootWork.running = KWorkIdle.running
            /\ BootWork.canceling = KWorkIdle.canceling
        BY <1>1, <2>2, <3>1, RescheduleFacts
      <3> QED BY <1>1, <3>2
    <2> QED BY <1>2, <2>1, <2>2
  <1> DEFINE h1 == health_set_relay_state(health_init, {}, {})
             h2 == health_set_relay_gpio_ready(h1, TRUE)
  <1>6. h1 \in HealthType(Ch) /\ h1.reasons = {}
    BY InitHealthFacts, SetRelayStateFacts
  <1>7. BootHealth = health_set_rpc_ready(h2, TRUE)
    BY DEF BootHealth
  <1>8. h2 \in HealthType(Ch) /\ h2.reasons = {}
    <2> HIDE DEF h1
    <2> QED BY <1>6, ReadySetterFacts
  <1> HIDE DEF h1, h2
  <1>9. BootHealth \in HealthType(Ch) /\ BootHealth.reasons = {}
    BY <1>7, <1>8, ReadySetterFacts
  <1> QED BY <1>5, <1>9

(* A boot establishes the invariant.                                        *)
LEMMA InitInv == Init => RelayInv
  <1> SUFFICES ASSUME Init PROVE RelayInv
    OBVIOUS
  <1>1. TypeOK
    BY BootFacts DEF Init, TypeOK, Masks
  <1>2. PulseIsTimed /\ LeaseIsHeld /\ LeaseOnlyWhileEnergized
        /\ OutputsFollowMask /\ OwnerLossMeansOff
    BY BootFacts, WorkNumbers DEF Init, PulseIsTimed, LeaseIsHeld, comm_loss_should_arm,
       Pending, LeaseOnlyWhileEnergized, OutputsFollowMask, OwnerLossMeansOff
  <1>3. RebootBookkeeping /\ RebootIsAnnounced /\ HandlerIsServedNext /\ IndicationRunsOnce
        /\ PulseRunsOnce /\ AnnouncementPrecedesReboot
    BY BootFacts, WorkNumbers DEF Init, RebootBookkeeping, RebootIsAnnounced, HandlerIsServedNext,
       HandlerWaits, IndicationRunsOnce, PulseRunsOnce, AnnouncementPrecedesReboot, Pending
  <1> QED BY <1>1, <1>2, <1>3 DEF RelayInv

(* The autonomous reboot starts over from a boot.                           *)
LEMMA RebootStep ==
    ASSUME comm_loss_reboot_expired
    PROVE  RelayInv'
  <1>0. Reset(Policy = "always-on-owner", BootWork, BootHealth)
    BY DEF comm_loss_reboot_expired
  <1>1. TypeOK'
    BY <1>0, BootFacts DEF Reset, TypeOK, Masks
  <1>2. PulseIsTimed' /\ LeaseIsHeld' /\ LeaseOnlyWhileEnergized'
        /\ OutputsFollowMask' /\ OwnerLossMeansOff'
    BY <1>0, BootFacts, WorkNumbers DEF Reset, PulseIsTimed, LeaseIsHeld, comm_loss_should_arm,
       Pending, LeaseOnlyWhileEnergized, OutputsFollowMask, OwnerLossMeansOff
  <1>3. RebootBookkeeping' /\ RebootIsAnnounced' /\ HandlerIsServedNext' /\ IndicationRunsOnce' /\ PulseRunsOnce'
        /\ AnnouncementPrecedesReboot'
    BY <1>0, BootFacts, WorkNumbers DEF Reset, RebootBookkeeping, RebootIsAnnounced,
       HandlerIsServedNext, HandlerWaits, IndicationRunsOnce, PulseRunsOnce, AnnouncementPrecedesReboot, Pending
  <1> QED BY <1>1, <1>2, <1>3 DEF RelayInv

-----------------------------------------------------------------------------

(* The parts are the whole.                                                 *)
LEMMA RelayParts ==
    ASSUME RelayInv PROVE Core /\ LeaseIsHeld /\ Announced
  BY DEF RelayInv, Core, Announced, RebootIsAnnounced, ReportIsTrue

LEMMA RelayPartsNext ==
    ASSUME Core', LeaseIsHeld', Announced' PROVE RelayInv'
  BY DEF RelayInv, Core, Announced

(* A section of the API, or the publication that follows it.                *)
LEMMA CallerStep ==
    ASSUME Core, NEW t \in Callers, Call(t) \/ publish(t)
    PROVE  Kept
  BY SetStep, SetAllStep, PulseStep, PulseRefusedStep, RenewStep, PublishStep DEF Call

(* No step of any thread, timer or handler breaks the invariant.            *)
LEMMA NextInv == RelayInv /\ [Next]_vars => RelayInv'
  <1> SUFFICES ASSUME RelayInv, [Next]_vars PROVE RelayInv'
    OBVIOUS
  <1>1. CASE UNCHANGED vars
    <2>1. TypeOK'
      BY <1>1 DEF RelayInv, TypeOK, vars
    <2> QED
      BY <1>1, <2>1 DEF RelayInv, vars, HandlerWaits, PulseIsTimed, LeaseIsHeld,
         LeaseOnlyWhileEnergized, OutputsFollowMask, OwnerLossMeansOff, RebootBookkeeping,
         RebootIsAnnounced, HandlerIsServedNext, IndicationRunsOnce, PulseRunsOnce,
         AnnouncementPrecedesReboot, IoFailed, Pending
  <1>2. Core /\ LeaseIsHeld /\ Announced
    BY RelayParts
  <1>3. Kept => RelayInv'
    BY <1>2, RelayPartsNext DEF Kept
  <1>4. ASSUME NEW t \in Callers, Lock(t) \/ Call(t) \/ publish(t) PROVE RelayInv'
    BY <1>2, <1>3, <1>4, CallerStep, LockStep
  <1>5. ASSUME NEW w \in WorkItems, TimerExpires(w) \/ Dispatch(w) PROVE RelayInv'
    BY <1>2, <1>3, <1>5, TimerStep, DispatchStep
  <1>6. ASSUME Handler PROVE RelayInv'
    BY <1>2, <1>3, <1>6, PulseExpiredStep, CommLossExpiredStep, IndicationStep, RebootStep
       DEF Handler
  <1> QED BY <1>1, <1>4, <1>5, <1>6 DEF Next

(* The invariant of relay.c: for every number of channels, every set of     *)
(* calling threads and every policy, whether or not GPIO writes fail.       *)
THEOREM RelaySafety == Spec => []RelayInv
  BY InitInv, NextInv, PTL DEF Spec

(* Every variable of the relay core keeps its type.                         *)
THEOREM RelayTypes == Spec => []TypeOK
  <1>1. RelayInv => TypeOK
    BY DEF RelayInv
  <1> QED BY <1>1, RelaySafety, PTL

(* No pulse is ever left on without the handler run that ends it.           *)
THEOREM PulsesAreTimed == Spec => []PulseIsTimed
  <1>1. RelayInv => PulseIsTimed
    BY DEF RelayInv
  <1> QED BY <1>1, RelaySafety, PTL

(* No relay stays commanded on outside the communication-loss lease.        *)
THEOREM RelaysAreSupervised == Spec => []LeaseIsHeld
  <1>1. RelayInv => LeaseIsHeld
    BY DEF RelayInv
  <1> QED BY <1>1, RelaySafety, PTL

(* The outputs show the commanded mask, whatever interleaves with a GPIO     *)
(* write, unless a failed write is latched.                                 *)
THEOREM OutputsAreTracked == Spec => []OutputsFollowMask
  <1>1. RelayInv => OutputsFollowMask
    BY DEF RelayInv
  <1> QED BY <1>1, RelaySafety, PTL

(* A reported loss of the owner means that every relay is commanded off.    *)
THEOREM OwnerLossIsSafe == Spec => []OwnerLossMeansOff
  <1>1. RelayInv => OwnerLossMeansOff
    BY DEF RelayInv
  <1> QED BY <1>1, RelaySafety, PTL

(* Flags, timers and reports of the autonomous reboot agree.                *)
THEOREM RebootIsTracked == Spec => [](RebootBookkeeping /\ RebootIsAnnounced)
  <1>1. RelayInv => RebootBookkeeping /\ RebootIsAnnounced
    BY DEF RelayInv
  <1> QED BY <1>1, RelaySafety, PTL

=============================================================================
