------------------------------ MODULE RpcService ------------------------------
(* What RelayClient promises its caller: the abstract specification that     *)
(* HostRpc implements.                                                       *)
(*                                                                           *)
(* One call at a time.  A call that returns was executed by the board while  *)
(* the call was in progress, and it is a fence: no command of an earlier     *)
(* call is executed after it.  A call that raises promises nothing: its      *)
(* command may have been executed, may be executed later, or never.          *)

CONSTANTS
    Commands,         \* what can be asked of the board
    Outcomes(_, _),   \* Outcomes(c, b): the pairs <<new state, answer>> of
                      \* command c in board state b
    Alone(_)          \* Alone(b): the states the board may reach by itself

VARIABLES
    current,   \* the command of the call in progress, or "none"
    answers,   \* the answers its executions have produced
    ended,     \* how the last call ended: "none" yet, "raised", or its answer
    late,      \* commands of ended calls the board may still execute
    board      \* the state of the board

vars == <<current, answers, ended, late, board>>

Init ==
    /\ current = "none"
    /\ answers = {}
    /\ ended = "none"
    /\ late = {}

Call ==
    /\ current = "none"
    /\ current' \in Commands
    /\ answers' = {}
    /\ ended' = "none"
    /\ UNCHANGED <<late, board>>

\* The board executes the command in progress; a retry may execute it again.
Execute ==
    /\ current \in Commands
    /\ \E o \in Outcomes(current, board) :
        /\ board' = o[1]
        /\ answers' = answers \cup {o[2]}
    /\ UNCHANGED <<current, ended, late>>

\* The board executes a command its caller has given up on.
ExecuteLate ==
    /\ \E c \in late : \E o \in Outcomes(c, board) : board' = o[1]
    /\ late' \in SUBSET late
    /\ UNCHANGED <<current, answers, ended>>

\* A call ends with an answer of its own.
Return ==
    /\ ended' \in answers
    /\ current' = "none"
    /\ answers' = {}
    /\ late' \in SUBSET {current}
    /\ UNCHANGED board

\* A call ends with an exception.
Raise ==
    /\ current \in Commands
    /\ ended' = "raised"
    /\ current' = "none"
    /\ answers' = {}
    /\ late' \in SUBSET (late \cup {current})
    /\ UNCHANGED board

\* Requests and answers may be lost, and the board may change by itself.
Fault ==
    /\ board' \in Alone(board)
    /\ answers' \in SUBSET answers
    /\ late' \in SUBSET late
    /\ UNCHANGED <<current, ended>>

Next == Call \/ Execute \/ ExecuteLate \/ Return \/ Raise \/ Fault

Spec == Init /\ [][Next]_vars
===============================================================================
