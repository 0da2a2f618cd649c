------------------------------- MODULE Health -------------------------------
(***************************************************************************)
(* firmware/src/health.c: the passive health model.  Publishers set facts, *)
(* every setter recomputes the derived snapshot under the health lock, so  *)
(* a setter is one atomic function of the model record.  Masks are sets of *)
(* channels.  The transition counter is kept by HealthModel.               *)
(***************************************************************************)
EXTENDS Integers

(* enum health_reason *)
RelayGpioInitFailed      == "relay_gpio_init_failed"
RelayIoFailed            == "relay_io_failed"
RpcNotReady              == "rpc_not_ready"
CommOwnerTimeout         == "comm_owner_timeout"
CommRebootPending        == "comm_reboot_pending"
IndicatorDegraded        == "indicator_degraded"
HostRebootPending        == "host_reboot_pending"
RebootFailed             == "reboot_failed"
WatchdogSupervisorFailed == "watchdog_supervisor_failed"

PendingReasons == {CommRebootPending, HostRebootPending}
FaultReasons   == {RelayGpioInitFailed, RelayIoFailed, RebootFailed,
                   WatchdogSupervisorFailed}
AttentionReasons == {CommOwnerTimeout, IndicatorDegraded}

(* The reasons the model stores; RpcNotReady is derived from rpc_ready. *)
StoredReasons == PendingReasons \cup FaultReasons \cup AttentionReasons
Reasons       == StoredReasons \cup {RpcNotReady}
HealthStates  == {"booting", "normal", "relay_active", "degraded", "fault",
                  "recovery_pending"}

HealthType(Ch) ==
    [relay_gpio_ready : BOOLEAN, rpc_ready : BOOLEAN, ready_seen : BOOLEAN,
     reasons : SUBSET StoredReasons,
     relay_state_mask : SUBSET Ch, pulse_mask : SUBSET Ch,
     snapshot_reasons : SUBSET Reasons,
     primary_reason : Reasons \cup {"none"}, state : HealthStates]

-----------------------------------------------------------------------------

(* The order in which primary_reason() looks for an active reason. *)
ReasonPriority ==
    <<CommRebootPending, HostRebootPending, RebootFailed, RelayGpioInitFailed,
      RelayIoFailed, WatchdogSupervisorFailed, CommOwnerTimeout, RpcNotReady,
      IndicatorDegraded>>

primary_reason(rs) ==
    IF rs = {} THEN "none"
    ELSE ReasonPriority[CHOOSE i \in 1..9 : /\ ReasonPriority[i] \in rs
                                           /\ \A j \in 1..(i - 1) : ReasonPriority[j] \notin rs]

(* h is the model with its facts and masks set; rs the reasons in force. *)
derive_state(h, rs) ==
    IF rs \cap PendingReasons # {} THEN "recovery_pending"
    ELSE IF rs \cap FaultReasons # {} THEN "fault"
    ELSE IF rs \cap AttentionReasons # {} THEN "degraded"
    ELSE IF RpcNotReady \in rs /\ h.ready_seen THEN "degraded"
    ELSE IF ~h.relay_gpio_ready \/ ~h.rpc_ready THEN "booting"
    ELSE IF h.relay_state_mask \cup h.pulse_mask # {} THEN "relay_active"
    ELSE "normal"

(* recompute_locked(): what every setter ends with. *)
recompute(h) ==
    LET rs == h.reasons \cup (IF h.rpc_ready THEN {} ELSE {RpcNotReady})
        seen == [h EXCEPT !.ready_seen = @ \/ (h.relay_gpio_ready /\ h.rpc_ready)]
    IN  [seen EXCEPT !.snapshot_reasons = rs,
                     !.primary_reason = primary_reason(rs),
                     !.state = derive_state(seen, rs)]

-----------------------------------------------------------------------------
(* The setters, as functions of the model. *)

health_init ==
    recompute([relay_gpio_ready |-> FALSE, rpc_ready |-> FALSE, ready_seen |-> FALSE,
               reasons |-> {}, relay_state_mask |-> {}, pulse_mask |-> {},
               snapshot_reasons |-> {}, primary_reason |-> "none",
               state |-> "booting"])

health_set_relay_gpio_ready(h, b) == recompute([h EXCEPT !.relay_gpio_ready = b])

health_set_rpc_ready(h, b) == recompute([h EXCEPT !.rpc_ready = b])

health_set_relay_state(h, sm, pm) ==
    recompute([h EXCEPT !.relay_state_mask = sm, !.pulse_mask = pm])

(* Sets or clears one live reason. *)
SetReason(h, r, b) ==
    recompute([h EXCEPT !.reasons = IF b THEN @ \cup {r} ELSE @ \ {r}])

health_set_comm_owner_timed_out(h, b) == SetReason(h, CommOwnerTimeout, b)

health_set_comm_reboot_pending(h, b) == SetReason(h, CommRebootPending, b)

health_set_host_reboot_pending(h, b) == SetReason(h, HostRebootPending, b)

health_set_indicator_degraded(h, b) == SetReason(h, IndicatorDegraded, b)

(* The latched reasons: nothing clears them before a reset. *)
health_record_relay_gpio_init_failed(h) == SetReason(h, RelayGpioInitFailed, TRUE)

health_record_relay_io_error(h) == SetReason(h, RelayIoFailed, TRUE)

health_record_watchdog_supervisor_failed(h) ==
    SetReason(h, WatchdogSupervisorFailed, TRUE)

(* A failed reboot is latched and ends both kinds of pending reboot. *)
health_record_reboot_failed(h) ==
    recompute([h EXCEPT !.reasons = (@ \cup {RebootFailed}) \ PendingReasons])

=============================================================================
