------------------------------- MODULE KWork -------------------------------
(***************************************************************************)
(* The Zephyr system workqueue as the firmware uses it (external code).    *)
(*                                                                         *)
(* One cooperative thread runs the handlers of all delayable work items,   *)
(* one at a time.  A work item may at once have a running timer, wait in   *)
(* the queue and be the item whose handler runs.  A workqueue is a record: *)
(*   timers    the items whose delay is running (K_WORK_DELAYED)           *)
(*   queued    the items submitted and not yet started (K_WORK_QUEUED)     *)
(*   running   the item whose handler has started, or NoWork               *)
(*   canceling the running item was canceled (K_WORK_CANCELING)            *)
(* Work items are numbered from 0, so that a relay channel's pulse work is *)
(* the channel's own number.                                               *)
(***************************************************************************)
EXTENDS Integers

NoWork == -1

KWorkType(Items) ==
    [timers : SUBSET Items, queued : SUBSET Items,
     running : Items \cup {NoWork}, canceling : BOOLEAN]

KWorkIdle == [timers |-> {}, queued |-> {}, running |-> NoWork, canceling |-> FALSE]

(* k_work_schedule: starts the delay of an idle or running item; an item   *)
(* that is already delayed, queued or being canceled is left as it is.     *)
k_work_schedule(k, w) ==
    IF w \in k.timers \cup k.queued \/ (k.running = w /\ k.canceling)
    THEN k
    ELSE [k EXCEPT !.timers = @ \cup {w}]

(* k_work_reschedule: (re)starts the delay whatever the item's state.  It  *)
(* does not withdraw an item that is already queued or running.            *)
k_work_reschedule(k, w) == [k EXCEPT !.timers = @ \cup {w}]

(* k_work_cancel_delayable, on every item of W: stops the delay and takes  *)
(* the item out of the queue; a handler that has started runs to its end,  *)
(* flagged as canceling.                                                   *)
k_work_cancel_delayable(k, W) ==
    [k EXCEPT !.timers = @ \ W, !.queued = @ \ W,
              !.canceling = @ \/ k.running \in W]

(* The delay of item w ends: the item is submitted, unless it is being     *)
(* canceled (the submission is refused).                                   *)
TimerFired(k, w) ==
    [k EXCEPT !.timers = @ \ {w},
              !.queued = IF k.running = w /\ k.canceling THEN @ ELSE @ \cup {w}]

(* The workqueue thread takes item w from the queue and calls its handler. *)
Dispatched(k, w) == [k EXCEPT !.queued = @ \ {w}, !.running = w]

(* The running handler returns. *)
HandlerDone(k) == [k EXCEPT !.running = NoWork, !.canceling = FALSE]

(* The item still has a run of its handler ahead of it. *)
Pending(k, w) == w \in k.timers \cup k.queued

=============================================================================
