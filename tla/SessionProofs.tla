---------------------------- MODULE SessionProofs ----------------------------
(* Proofs about Session: for every set of ports, number of attempts, pulses  *)
(* and reconnect rounds, the two threads exclude each other and the poller   *)
(* is there when it should be, a guarded close leaves the relays off, and a  *)
(* reboot ends with a board that has restarted.                              *)
EXTENDS Session, SequenceTheorems, TLAPS

-------------------------------------------------------------------------------
(* The inductive invariant.                                                  *)

Lines    == {"read", "on", "off", "smoke", "reboot", "bootsel", "disconnect", "exit"}
Dialogs  == {"start", "prompt", "saved port"}
Requests == {"read", "status", "on", "off", "reboot", "bootsel"}
Uptimes  == 0..MaxUptime
Pcs      == {"start", "prompt", "select", "lock", "rpc", "done", "stop", "join", "reconnect", "exited"}

MainType ==
    [pc : Pcs, cmd : Lines \cup Dialogs \cup {"none"}, force : BOOLEAN, eof : BOOLEAN,
     todo : Seq(Requests), err : Results \cup {"interrupt"}, left : 0..ReconnectAttempts,
     pre : Uptimes, seen : [uptime : Uptimes, on : BOOLEAN]]

BoardType ==
    [attached : BOOLEAN, port : Ports, on : BOOLEAN, late : BOOLEAN, uptime : Uptimes,
     restarted : BOOLEAN]

PollerType ==
    [pc : {"none", "wait", "lock", "rpc"}, stop : BOOLEAN, try : 0..Attempts, old : BOOLEAN]

ConnTypes ==
    /\ connected \in BOOLEAN /\ usb_serial \in BOOLEAN
    /\ port \in Ports \cup {"none"} /\ handle \in {"none", "open", "dead"}
    /\ saved \in Ports \cup {"none", "serial"}

LockOK ==
    /\ lock \in {"free", "main", "heartbeat"}
    /\ lock = "main" <=> main.pc = "rpc"
    /\ lock = "heartbeat" <=> heartbeat.pc = "rpc"

\* Which commands run with a client and which look for one.
Busy == main.pc \in {"lock", "rpc", "done"}

PhaseOK ==
    /\ connected => main.pc \in {"prompt", "lock", "rpc", "done", "stop", "join"}
    /\ main.pc \in {"stop", "join"} => connected
    /\ Busy /\ connected => main.cmd \in Lines
    /\ Busy /\ ~connected => main.cmd \in Dialogs \cup {"reboot"}
    /\ main.pc = "select" => main.cmd \in Dialogs /\ main.err = "ok" /\ port \in Ports
    /\ main.pc = "reconnect" => main.cmd = "reboot"
    /\ ~connected /\ ~Busy => handle = "none"

\* The requests that are left.
TodoOK ==
    /\ main.pc = "done" => main.todo = <<>>
    /\ Busy /\ main.cmd # "smoke" /\ main.todo # <<>> => main.err = "ok"
    /\ Busy /\ main.cmd \in {"disconnect", "exit"} => main.todo \in {<<"status">>, <<>>}
    /\ Busy /\ main.cmd = "reboot" =>
          main.todo \in IF connected THEN {<<"status", "reboot">>, <<"reboot">>, <<>>}
                                     ELSE {<<"read", "status">>, <<"status">>, <<>>}
    /\ main.pc = "lock" => main.todo # <<>>
    /\ main.pc = "lock" /\ main.cmd = "reboot" /\ connected => main.todo = <<"status", "reboot">>

\* A connected session has a poller until it stops it; the poller of a closed
\* client is in its last attempts.
PollerOK ==
    /\ connected =>
          /\ ~heartbeat.old
          /\ main.pc # "join" => heartbeat.pc # "none" /\ ~heartbeat.stop
          /\ main.pc = "join" => heartbeat.pc = "none" \/ heartbeat.stop
    /\ ~connected => \/ heartbeat.pc = "none"
                     \/ /\ heartbeat.pc = "rpc" /\ heartbeat.stop /\ heartbeat.old
                        /\ heartbeat.try > JoinOutlasts
    /\ ~connected /\ main.pc \in {"rpc", "done"} => heartbeat.pc = "none"

\* From the status that showed the relays off until the client is closed.
Cleared ==
    /\ main.cmd \in {"disconnect", "exit"} /\ ~main.force
    /\ \/ main.pc \in {"rpc", "done"} /\ main.todo = <<>> /\ main.err = "ok" /\ ~main.seen.on
       \/ main.pc \in {"stop", "join"}

CloseOK == Cleared => ~board.on /\ ~board.late

\* The uptime before the reboot was read from the board that has not restarted
\* since; so was the one after it.
Answered == main.pc \in {"rpc", "done"} /\ main.todo = <<>> /\ main.err = "ok"

RebootOK ==
    main.cmd = "reboot" /\ ~board.restarted =>
        /\ connected /\ main.pc = "rpc" /\ main.todo = <<"reboot">> => main.seen.uptime <= board.uptime
        /\ ~connected \/ Answered \/ main.pc \in {"stop", "join"} => main.pre <= board.uptime
        /\ ~connected /\ Answered => main.pre <= main.seen.uptime

Inv ==
    /\ main \in MainType /\ board \in BoardType /\ heartbeat \in PollerType /\ ConnTypes
    /\ LockOK /\ PhaseOK /\ TodoOK /\ PollerOK /\ CloseOK /\ RebootOK

USE SessionAssumption DEF Busy, Answered, Cleared, conn

-------------------------------------------------------------------------------
(* Records.                                                                  *)

LEMMA IdleFacts ==
    /\ Idle \in MainType
    /\ Idle.pc = "prompt" /\ Idle.cmd = "none" /\ Idle.todo = <<>> /\ Idle.err = "ok"
    /\ Idle.force = FALSE
<1>1. /\ 0 \in 0..ReconnectAttempts /\ 0 \in Uptimes /\ <<>> \in Seq(Requests)
      /\ FALSE \in BOOLEAN /\ "ok" \in Results \cup {"interrupt"} /\ "prompt" \in Pcs
      /\ "none" \in Lines \cup Dialogs \cup {"none"}
  BY DEF Uptimes, Pcs, Results
<1>2. Unseen \in [uptime : Uptimes, on : BOOLEAN]
  BY <1>1 DEF Unseen
<1> QED BY <1>1, <1>2, Zenon DEF Idle, MainType

LEMMA NoPollerFacts ==
    /\ NoPoller \in PollerType /\ [NoPoller EXCEPT !.pc = "wait"] \in PollerType
    /\ NoPoller.pc = "none" /\ [NoPoller EXCEPT !.pc = "wait"].pc = "wait"
    /\ ~[NoPoller EXCEPT !.pc = "wait"].stop /\ ~[NoPoller EXCEPT !.pc = "wait"].old
<1>1. 0 \in 0..Attempts
  OBVIOUS
<1> QED BY <1>1 DEF NoPoller, PollerType

\* A record of the main thread in another place.
LEMMA MovedTo ==
    ASSUME NEW m \in MainType, NEW pc \in Pcs
    PROVE  LET n == [m EXCEPT !.pc = pc] IN
           /\ n \in MainType /\ n.pc = pc /\ n.cmd = m.cmd /\ n.force = m.force /\ n.todo = m.todo
           /\ n.err = m.err /\ n.left = m.left /\ n.pre = m.pre /\ n.seen = m.seen
  BY DEF MainType

LEMMA ConnectingFacts ==
    ASSUME NEW c \in Dialogs
    PROVE  /\ Connecting(c) \in MainType /\ Connecting(c).cmd = c /\ Connecting(c).err = "ok"
           /\ [Connecting(c) EXCEPT !.cmd = "saved port"] \in MainType
           /\ [Connecting(c) EXCEPT !.cmd = "saved port"].cmd = "saved port"
           /\ [Connecting(c) EXCEPT !.cmd = "saved port"].err = "ok"
<1>1. "saved port" \in Dialogs
  BY DEF Dialogs
<1> QED BY <1>1, IdleFacts DEF MainType, Connecting

-------------------------------------------------------------------------------
(* The ways a command ends.                                                  *)

LEMMA ExitInv ==
    ASSUME Inv, Exit, UNCHANGED <<saved, board>>
    PROVE  Inv'
<1>1. /\ main' = [Idle EXCEPT !.pc = "exited"] /\ heartbeat' = NoPoller /\ lock' = "free"
      /\ connected' = FALSE /\ port' = "none" /\ handle' = "none" /\ usb_serial' = FALSE
  BY DEF Exit, NoClient
<1>2. main' \in MainType /\ main'.pc = "exited" /\ main'.cmd = "none"
  <2>1. "exited" \in Pcs
    BY DEF Pcs
  <2> QED BY <1>1, <2>1, IdleFacts, MovedTo
<1>3. /\ board' \in BoardType /\ heartbeat' \in PollerType /\ heartbeat'.pc = "none" /\ ConnTypes'
  BY <1>1, NoPollerFacts DEF Inv, ConnTypes
<1>4. LockOK' /\ PhaseOK' /\ TodoOK'
  BY <1>1, <1>2, <1>3 DEF LockOK, PhaseOK, TodoOK
<1>5. PollerOK' /\ CloseOK' /\ RebootOK'
  BY <1>1, <1>2, <1>3 DEF PollerOK, CloseOK, RebootOK
<1> QED BY <1>2, <1>3, <1>4, <1>5 DEF Inv

\* The prompt comes back, with the client there was or without one.
LEMMA PromptInv ==
    ASSUME Inv, Prompt, UNCHANGED <<saved, heartbeat, lock, board>>,
           main.pc \notin {"rpc", "join"},
           \/ UNCHANGED conn /\ (connected \/ ~Busy)
           \/ ~connected /\ NoClient
    PROVE  Inv'
<1>1. main' \in MainType /\ main'.pc = "prompt" /\ main'.cmd = "none"
  BY IdleFacts DEF Prompt
<1>2. /\ connected' = connected /\ ConnTypes' /\ (~connected' => handle' = "none")
  BY DEF Inv, ConnTypes, NoClient, PhaseOK
<1>3. board' \in BoardType /\ heartbeat' \in PollerType
  BY DEF Inv
<1>4. LockOK' /\ PhaseOK' /\ TodoOK'
  BY <1>1, <1>2 DEF Inv, LockOK, PhaseOK, TodoOK
<1>5. PollerOK' /\ CloseOK' /\ RebootOK'
  BY <1>1, <1>2 DEF Inv, PollerOK, CloseOK, RebootOK, PhaseOK
<1> QED BY <1>1, <1>2, <1>3, <1>4, <1>5 DEF Inv

\* A new client is asked for its identity and status.
LEMMA OpenInv ==
    ASSUME Inv, ~connected, main.pc \in {"start", "prompt", "select", "reconnect"},
           NEW m \in MainType, NEW p \in Ports, Open(m, p), usb_serial' \in BOOLEAN,
           m.cmd \in Dialogs \cup {"reboot"}, m.err = "ok",
           m.cmd = "reboot" => main.cmd = "reboot" /\ m.pre = main.pre,
           saved' \in Ports \cup {"none", "serial"}, UNCHANGED <<heartbeat, lock, board>>
    PROVE  Inv'
<1>1. /\ main' = [m EXCEPT !.pc = "lock", !.todo = Probe] /\ port' = p /\ handle' = "none"
      /\ connected' = connected
  BY DEF Open
<1>2. /\ main' \in MainType /\ main'.pc = "lock" /\ main'.cmd = m.cmd /\ main'.err = "ok"
      /\ main'.todo = <<"read", "status">> /\ main'.pre = m.pre
  <2>1. Probe \in Seq(Requests) /\ "lock" \in Pcs
    BY DEF Probe, Requests, Pcs
  <2> QED BY <1>1, <2>1 DEF MainType, Probe
<1>3. ConnTypes'
  BY <1>1 DEF Inv, ConnTypes
<1>4. LockOK' /\ PhaseOK'
  BY <1>1, <1>2 DEF Inv, LockOK, PhaseOK
<1>5. TodoOK'
  <2>1. <<"read", "status">> # <<>>
    OBVIOUS
  <2>2. main'.cmd \notin {"disconnect", "exit"}
    BY <1>2 DEF Dialogs
  <2>3. main'.todo \in IF connected' THEN {<<"status", "reboot">>, <<"reboot">>, <<>>}
                                      ELSE {<<"read", "status">>, <<"status">>, <<>>}
    BY <1>1, <1>2
  <2>4. ~connected'
    BY <1>1
  <2> QED BY <1>2, <2>1, <2>2, <2>3, <2>4 DEF TodoOK
<1>6. PollerOK' /\ CloseOK'
  BY <1>1, <1>2 DEF Inv, PollerOK, CloseOK, Dialogs
<1>7. RebootOK'
  BY <1>1, <1>2 DEF Inv, RebootOK
<1> QED BY <1>2, <1>3, <1>4, <1>5, <1>6, <1>7 DEF Inv

LEMMA SelectInv ==
    ASSUME Inv, ~connected, main.pc # "rpc", NEW c \in Dialogs, Select(Connecting(c)),
           UNCHANGED <<saved, heartbeat, lock, board>>
    PROVE  Inv'
<1>1. CASE board.attached
  <2>1. /\ main' = [Connecting(c) EXCEPT !.pc = "select"] /\ port' = board.port
        /\ handle' = "none" /\ usb_serial' = FALSE /\ connected' = connected
    BY <1>1 DEF Select
  <2>2. main' \in MainType /\ main'.pc = "select" /\ main'.cmd = c /\ main'.err = "ok"
    <3> DEFINE m == Connecting(c)
    <3>1. "select" \in Pcs
      BY DEF Pcs
    <3>2. m \in MainType /\ m.cmd = c /\ m.err = "ok"
      BY ConnectingFacts
    <3> HIDE DEF m
    <3>3. main' = [m EXCEPT !.pc = "select"]
      BY <2>1 DEF m
    <3> QED BY <3>1, <3>2, <3>3, MovedTo
  <2>3. ConnTypes'
    BY <2>1 DEF Inv, ConnTypes, BoardType
  <2>4. LockOK' /\ PhaseOK' /\ TodoOK'
    BY <2>1, <2>2 DEF Inv, LockOK, PhaseOK, TodoOK, Dialogs, BoardType
  <2>5. PollerOK' /\ CloseOK' /\ RebootOK'
    BY <2>1, <2>2 DEF Inv, PollerOK, CloseOK, RebootOK, Dialogs
  <2> QED BY <2>2, <2>3, <2>4, <2>5 DEF Inv
<1>2. CASE ~board.attached
  BY <1>2, PromptInv DEF Select, Inv, PhaseOK
<1> QED BY <1>1, <1>2

-------------------------------------------------------------------------------
(* Commands.                                                                 *)

LEMMA ScriptTypes ==
    ASSUME NEW c \in Lines
    PROVE  /\ Script[c] \in Seq(Requests) /\ Script[c] # <<>>
           /\ c \in {"disconnect", "exit"} => Script[c] = <<"status">>
           /\ c = "reboot" => Script[c] = <<"status", "reboot">>
<1> DEFINE ons == [i \in 1..Pulses |-> "on"]
<1>1. ons \in Seq(Requests) /\ Len(ons) \in Nat
  <2>1. ons \in [1..Pulses -> Requests]
    BY DEF Requests
  <2> HIDE DEF ons
  <2>2. ons \in Seq(Requests)
    BY <2>1, SeqDef
  <2> QED BY <2>2
<1>2. <<"read", "read", "status">> \in Seq(Requests) /\ <<"off">> \in Seq(Requests)
  BY DEF Requests
<1>3. Script["smoke"] = (<<"read", "read", "status">> \o ons) \o <<"off">>
  BY DEF Script
<1> HIDE DEF ons
<1>4. Script["smoke"] \in Seq(Requests) /\ Len(Script["smoke"]) > 0
  <2>1. <<"read", "read", "status">> \o ons \in Seq(Requests)
    BY <1>1, <1>2
  <2>2. Len((<<"read", "read", "status">> \o ons) \o <<"off">>)
          = Len(<<"read", "read", "status">> \o ons) + 1
    BY <1>2, <2>1
  <2> QED BY <1>2, <1>3, <2>1, <2>2
<1>5. Script["smoke"] # <<>>
  BY <1>4
<1>6. CASE c = "smoke"
  BY <1>4, <1>5, <1>6
<1>7. CASE c # "smoke"
  <2>1. /\ Script["read"] = <<"read">> /\ Script["on"] = <<"on">> /\ Script["off"] = <<"off">>
        /\ Script["reboot"] = <<"status", "reboot">> /\ Script["bootsel"] = <<"bootsel">>
        /\ Script["disconnect"] = <<"status">> /\ Script["exit"] = <<"status">>
    BY DEF Script
  <2>2. /\ \A r \in Requests : <<r>> \in Seq(Requests) /\ <<r>> # <<>>
        /\ <<"status", "reboot">> \in Seq(Requests) /\ <<"status", "reboot">> # <<>>
    BY DEF Requests
  <2>3. {"read", "on", "off", "bootsel", "status"} \subseteq Requests
    BY DEF Requests
  <2>4. c \in {"read", "on", "off", "reboot", "bootsel", "disconnect", "exit"}
    BY <1>7 DEF Lines
  <2> HIDE DEF Script
  <2> QED BY <2>1, <2>2, <2>3, <2>4
<1> QED BY <1>6, <1>7

LEMMA HandleLineInv ==
    ASSUME Inv, NEW c \in DOMAIN Script, NEW force \in BOOLEAN, NEW eof \in BOOLEAN,
           handle_line(c, force, eof)
    PROVE  Inv'
<1>1. c \in Lines
  BY DEF Script, Lines
<1> DEFINE todo == IF force THEN <<>> ELSE Script[c]
<1> DEFINE pc == IF force THEN "stop" ELSE "lock"
<1>2. /\ main.pc = "prompt" /\ connected /\ (force => c \in {"disconnect", "exit"})
      /\ main' = [Idle EXCEPT !.cmd = c, !.force = force, !.eof = eof, !.todo = todo, !.pc = pc]
      /\ UNCHANGED <<connected, port, handle, usb_serial, saved, heartbeat, lock, board>>
  BY DEF handle_line
<1>3. todo \in Seq(Requests) /\ pc \in Pcs
  BY <1>1, ScriptTypes DEF Pcs
<1>4. todo = IF force THEN <<>> ELSE Script[c]
  OBVIOUS
<1>5. pc = IF force THEN "stop" ELSE "lock"
  OBVIOUS
<1> HIDE DEF todo, pc
<1>6. /\ main' \in MainType /\ main'.pc = pc /\ main'.cmd = c /\ main'.force = force
      /\ main'.todo = todo /\ main'.err = "ok"
  BY <1>1, <1>2, <1>3, IdleFacts DEF MainType
<1>7. ConnTypes' /\ LockOK' /\ PhaseOK'
  BY <1>1, <1>2, <1>5, <1>6 DEF Inv, ConnTypes, LockOK, PhaseOK
<1>8. TodoOK'
  <2>1. CASE force
    BY <1>2, <1>5, <1>6, <2>1 DEF TodoOK
  <2>2. CASE ~force
    <3>1. /\ main'.pc = "lock" /\ main'.todo = Script[c] /\ main'.todo # <<>>
          /\ c \in {"disconnect", "exit"} => main'.todo = <<"status">>
          /\ c = "reboot" => main'.todo = <<"status", "reboot">>
      BY <1>1, <1>4, <1>5, <1>6, <2>2, ScriptTypes
    <3> QED BY <1>2, <1>6, <3>1 DEF TodoOK
  <2> QED BY <2>1, <2>2
<1>9. PollerOK'
  BY <1>2, <1>5, <1>6 DEF Inv, PollerOK
<1>10. CloseOK' /\ RebootOK'
  BY <1>2, <1>5, <1>6 DEF CloseOK, RebootOK
<1> QED BY <1>2, <1>6, <1>7, <1>8, <1>9, <1>10 DEF Inv


LEMMA ConnectToInv ==
    ASSUME Inv, NEW c \in {"start", "prompt"}, NEW sel \in Ports \cup {"serial"}, connect_to(c, sel)
    PROVE  Inv'
<1>1. /\ main.pc = c /\ ~connected /\ saved' = sel /\ UNCHANGED <<heartbeat, lock, board>>
      /\ board.port \in Ports /\ c \in Dialogs
  BY DEF connect_to, Inv, BoardType, Dialogs
<1> DEFINE m == Connecting(c)
<1>2. m \in MainType /\ m.cmd = c /\ m.err = "ok"
  BY <1>1, ConnectingFacts
<1>3. c # "reboot"
  OBVIOUS
<1> HIDE DEF m
<1>4. CASE sel \in Ports /\ Open(m, sel) /\ usb_serial' \in BOOLEAN
  BY <1>1, <1>2, <1>3, <1>4, OpenInv
<1>5. CASE Open(m, board.port) /\ usb_serial' = TRUE
  BY <1>1, <1>2, <1>3, <1>5, OpenInv
<1>6. CASE Prompt /\ UNCHANGED conn
  <2>1. main' \in MainType /\ main'.pc = "prompt" /\ main'.cmd = "none"
    BY <1>6, IdleFacts DEF Prompt
  <2>2. ConnTypes' /\ handle = "none"
    BY <1>1, <1>6 DEF Inv, ConnTypes, PhaseOK
  <2>3. LockOK' /\ PhaseOK' /\ TodoOK'
    BY <1>1, <1>6, <2>1, <2>2 DEF Inv, LockOK, PhaseOK, TodoOK
  <2>4. PollerOK' /\ CloseOK' /\ RebootOK'
    BY <1>1, <1>6, <2>1 DEF Inv, PollerOK, CloseOK, RebootOK
  <2> QED BY <1>1, <2>1, <2>2, <2>3, <2>4 DEF Inv
<1> QED BY <1>4, <1>5, <1>6 DEF connect_to, m

LEMMA ConnectPlainInv ==
    ASSUME Inv, NEW c \in {"start", "prompt"}, connect_plain(c)
    PROVE  Inv'
<1>1. /\ main.pc = c /\ ~connected /\ UNCHANGED <<saved, heartbeat, lock, board>>
      /\ board.port \in Ports /\ c \in Dialogs /\ saved \in Ports \cup {"none", "serial"}
  BY DEF connect_plain, Inv, BoardType, Dialogs, ConnTypes
<1> DEFINE m == Connecting(c)
<1> DEFINE n == [m EXCEPT !.cmd = "saved port"]
<1>2. /\ m \in MainType /\ m.cmd = c /\ m.err = "ok"
      /\ n \in MainType /\ n.cmd = "saved port" /\ n.err = "ok"
  BY <1>1, ConnectingFacts
<1>3. c # "reboot" /\ "saved port" \in Dialogs
  BY DEF Dialogs
<1>4. CASE saved \in Ports /\ Open(n, saved) /\ usb_serial' \in BOOLEAN
  <2> HIDE DEF n
  <2> QED BY <1>1, <1>2, <1>3, <1>4, OpenInv
<1>5. CASE Open(m, board.port) /\ usb_serial' = TRUE
  <2> HIDE DEF m
  <2> QED BY <1>1, <1>2, <1>3, <1>5, OpenInv
<1>6. CASE Select(Connecting(c))
  BY <1>1, <1>6, SelectInv
<1> QED BY <1>4, <1>5, <1>6 DEF connect_plain

LEMMA SelectionInv ==
    ASSUME Inv, select
    PROVE  Inv'
<1>1. main.pc = "select" /\ UNCHANGED <<saved, board>> /\ ~connected /\ main.cmd \in Dialogs
  BY DEF select, Inv, PhaseOK
<1>2. CASE Open(main, port) /\ usb_serial' \in BOOLEAN /\ UNCHANGED <<heartbeat, lock>>
  <2>1. port \in Ports /\ main.err = "ok" /\ main \in MainType /\ main.cmd # "reboot"
    BY <1>1 DEF Inv, PhaseOK, Dialogs
  <2>2. saved' \in Ports \cup {"none", "serial"}
    BY <1>1 DEF Inv, ConnTypes
  <2> QED BY <1>1, <1>2, <2>1, <2>2, OpenInv
<1>3. CASE Prompt /\ NoClient /\ UNCHANGED <<heartbeat, lock>>
  BY <1>1, <1>3, PromptInv
<1> QED BY <1>1, <1>2, <1>3, ExitInv DEF select


-------------------------------------------------------------------------------
(* Exchanges.                                                                *)

\* What a request may do to the board.
LEMMA OutcomeFacts ==
    ASSUME Inv, NEW c \in Requests, NEW e \in Results, NEW h, NEW p, Outcome(c, e, h, p)
    PROVE  /\ board' \in BoardType /\ board'.uptime = board.uptime
           /\ board'.restarted => board.restarted
           /\ ~(c = "status" /\ connected) => board'.restarted = board.restarted
           /\ c # "on" => (board'.on => board.on) /\ (board'.late => board.late)
           /\ e = "ok" => ~board'.late /\ (c = "status" => board'.on = board.on)
<1>1. board \in BoardType /\ connected \in BOOLEAN
  BY DEF Inv, ConnTypes
<1> DEFINE on == IF c \in {"on", "off"} THEN c = "on" ELSE board.on
<1> DEFINE old == board.restarted /\ ~(c = "status" /\ connected)
<1>2. on \in BOOLEAN /\ old \in BOOLEAN
  BY <1>1 DEF BoardType
<1>3. CASE board' = Executed(board, c)
  <2>1. board' = [board EXCEPT !.on = on, !.restarted = old, !.late = FALSE]
    BY <1>1, <1>3 DEF Executed
  <2>2. /\ board' \in BoardType /\ board'.uptime = board.uptime /\ board'.on = on
        /\ board'.restarted = old /\ board'.late = FALSE
    <3> HIDE DEF on, old
    <3> QED BY <1>1, <1>2, <2>1 DEF BoardType
  <2>3. (c # "on" => (on => board.on)) /\ (c = "status" => on = board.on)
    OBVIOUS
  <2>4. /\ old => board.restarted
        /\ ~(c = "status" /\ connected) => old = board.restarted
    BY <1>1 DEF BoardType
  <2> HIDE DEF on, old
  <2> QED BY <2>2, <2>3, <2>4
<1>4. CASE e # "ok" /\ board' = [board EXCEPT !.late = @ \/ c = "on"]
  BY <1>1, <1>4 DEF BoardType
<1>5. CASE e = "transport" /\ UNCHANGED board
  BY <1>1, <1>5
<1> QED BY <1>3, <1>4, <1>5 DEF Outcome

LEMMA NotedFacts ==
    ASSUME NEW m \in MainType, NEW c \in Requests, board \in BoardType
    PROVE  /\ Noted(m, c) \in MainType /\ Noted(m, c).pc = m.pc /\ Noted(m, c).cmd = m.cmd
           /\ Noted(m, c).force = m.force /\ Noted(m, c).todo = m.todo /\ Noted(m, c).err = m.err
           /\ c = "status" /\ m.cmd \in {"disconnect", "exit"} => Noted(m, c).seen.on = board.on
           /\ c = "status" /\ m.cmd = "reboot" => Noted(m, c).seen.uptime = board.uptime
           /\ Noted(m, c).pre = IF c = "reboot" THEN m.seen.uptime ELSE m.pre
<1>1. board.on \in BOOLEAN /\ board.uptime \in Uptimes /\ m.seen.uptime \in Uptimes
  BY DEF BoardType, MainType
<1>2. CASE c = "status" /\ m.cmd \in {"disconnect", "exit"}
  <2>1. Noted(m, c) = [m EXCEPT !.seen.on = board.on]
    BY <1>2 DEF Noted
  <2> QED BY <1>1, <1>2, <2>1 DEF MainType
<1>3. CASE c = "status" /\ m.cmd = "reboot"
  <2>1. Noted(m, c) = [m EXCEPT !.seen.uptime = board.uptime]
    BY <1>3 DEF Noted
  <2> QED BY <1>1, <1>3, <2>1 DEF MainType
<1>4. CASE c = "reboot"
  <2>1. Noted(m, c) = [m EXCEPT !.pre = m.seen.uptime]
    BY <1>4 DEF Noted
  <2> QED BY <1>1, <1>4, <2>1 DEF MainType
<1>5. CASE c # "reboot" /\ ~(c = "status" /\ m.cmd \in {"disconnect", "exit", "reboot"})
  <2>1. Noted(m, c) = m
    BY <1>5 DEF Noted
  <2> QED BY <1>5, <2>1
<1> QED BY <1>2, <1>3, <1>4, <1>5

LEMMA RaisedFacts ==
    ASSUME NEW m \in MainType, NEW e \in Results \cup {"interrupt"}
    PROVE  /\ Raised(m, e) \in MainType /\ Raised(m, e).pc = m.pc /\ Raised(m, e).cmd = m.cmd
           /\ Raised(m, e).err = e /\ Raised(m, e).pre = m.pre
           /\ m.cmd # "smoke" => Raised(m, e).todo = <<>>
<1>1. <<"off">> \in Seq(Requests) /\ <<>> \in Seq(Requests)
  BY DEF Requests
<1>2. \/ Raised(m, e) = [m EXCEPT !.todo = <<"off">>, !.err = e] /\ m.cmd = "smoke"
      \/ Raised(m, e) = [m EXCEPT !.todo = <<>>, !.err = e]
  BY DEF Raised
<1> QED BY <1>1, <1>2 DEF MainType

LEMMA TakeLockInv ==
    ASSUME Inv, take_lock
    PROVE  Inv'
<1>1. /\ main.pc = "lock" /\ lock = "free" /\ lock' = "main" /\ main' = [main EXCEPT !.pc = "rpc"]
      /\ UNCHANGED <<connected, port, handle, usb_serial, saved, heartbeat, board>>
  BY DEF take_lock
<1>2. /\ main' \in MainType /\ main'.pc = "rpc" /\ main'.cmd = main.cmd /\ main'.force = main.force
      /\ main'.todo = main.todo /\ main'.err = main.err /\ main'.pre = main.pre
      /\ main'.seen = main.seen
  <2>1. "rpc" \in Pcs /\ main \in MainType
    BY DEF Pcs, Inv
  <2> QED BY <1>1, <2>1, MovedTo
<1>3. main.todo # <<>>
  BY <1>1 DEF Inv, TodoOK
<1>4. ConnTypes' /\ LockOK' /\ PhaseOK'
  BY <1>1, <1>2 DEF Inv, ConnTypes, LockOK, PhaseOK
<1>5. TodoOK'
  BY <1>1, <1>2 DEF Inv, TodoOK
<1>6. PollerOK' /\ CloseOK'
  BY <1>1, <1>2, <1>3 DEF Inv, PollerOK, CloseOK, LockOK
<1>7. RebootOK'
  <2>1. main.cmd = "reboot" /\ connected => main.todo # <<"reboot">>
    <3>1. main.pc = "lock" /\ main.cmd = "reboot" /\ connected => main.todo = <<"status", "reboot">>
      BY DEF Inv, TodoOK
    <3> QED BY <1>1, <3>1
  <2> QED BY <1>1, <1>2, <1>3, <2>1 DEF Inv, RebootOK
<1> QED BY <1>1, <1>2, <1>4, <1>5, <1>6, <1>7 DEF Inv


\* One request of the script.
LEMMA RequestInv ==
    ASSUME Inv, NEW e \in Results, request(e)
    PROVE  Inv'
<1> DEFINE c == Head(main.todo)
<1> DEFINE m == [main EXCEPT !.todo = Tail(main.todo)]
<1>1. /\ main.pc = "rpc" /\ main.todo # <<>> /\ Outcome(c, e, handle, port)
      /\ handle' = HandleAfter(e)
      /\ UNCHANGED <<connected, port, usb_serial, saved, heartbeat, lock>>
      /\ main' = IF e = "ok" THEN Noted(m, c) ELSE Raised(main, e)
  BY DEF request
<1>2. main \in MainType /\ main.todo \in Seq(Requests) /\ c \in Requests /\ Tail(main.todo) \in Seq(Requests)
  BY <1>1 DEF Inv, MainType
<1>3. /\ m \in MainType /\ m.pc = "rpc" /\ m.cmd = main.cmd /\ m.force = main.force
      /\ m.todo = Tail(main.todo) /\ m.err = main.err /\ m.pre = main.pre /\ m.seen = main.seen
  BY <1>1, <1>2 DEF MainType
<1>4. /\ main.todo = <<"status">> => c = "status" /\ Tail(main.todo) = <<>>
      /\ main.todo = <<"reboot">> => c = "reboot" /\ Tail(main.todo) = <<>>
      /\ main.todo = <<"status", "reboot">> => c = "status" /\ Tail(main.todo) = <<"reboot">>
      /\ main.todo = <<"read", "status">> => c = "read" /\ Tail(main.todo) = <<"status">>
  <2>1. /\ Head(<<"status">>) = "status" /\ Tail(<<"status">>) = <<>>
        /\ Head(<<"reboot">>) = "reboot" /\ Tail(<<"reboot">>) = <<>>
        /\ Head(<<"status", "reboot">>) = "status" /\ Tail(<<"status", "reboot">>) = <<"reboot">>
        /\ Head(<<"read", "status">>) = "read" /\ Tail(<<"read", "status">>) = <<"status">>
    OBVIOUS
  <2> QED BY <2>1, Zenon
<1> HIDE DEF m, c
<1>5. /\ board' \in BoardType /\ board'.uptime = board.uptime
      /\ board'.restarted => board.restarted
      /\ ~(c = "status" /\ connected) => board'.restarted = board.restarted
      /\ e = "ok" => ~board'.late /\ (c = "status" => board'.on = board.on)
  BY <1>1, <1>2, OutcomeFacts
<1>6. ConnTypes'
  BY <1>1 DEF Inv, ConnTypes, HandleAfter
<1>7. main.cmd # "smoke" => main.err = "ok"
  BY <1>1 DEF Inv, TodoOK
<1>8. CASE e = "ok"
  <2>1. /\ main' \in MainType /\ main'.pc = "rpc" /\ main'.cmd = main.cmd /\ main'.force = main.force
        /\ main'.todo = Tail(main.todo) /\ main'.err = main.err
        /\ c = "status" /\ main.cmd \in {"disconnect", "exit"} => main'.seen.on = board.on
        /\ c = "status" /\ main.cmd = "reboot" => main'.seen.uptime = board.uptime
        /\ main'.pre = IF c = "reboot" THEN main.seen.uptime ELSE main.pre
    <3>1. board \in BoardType
      BY DEF Inv
    <3>2. main' = Noted(m, c)
      BY <1>1, <1>8
    <3>3. /\ main' \in MainType /\ main'.pc = m.pc /\ main'.cmd = m.cmd
          /\ main'.force = m.force /\ main'.todo = m.todo /\ main'.err = m.err
          /\ c = "status" /\ m.cmd \in {"disconnect", "exit"} => main'.seen.on = board.on
          /\ c = "status" /\ m.cmd = "reboot" => main'.seen.uptime = board.uptime
          /\ main'.pre = IF c = "reboot" THEN m.seen.uptime ELSE m.pre
      BY <1>2, <1>3, <3>1, <3>2, NotedFacts, Zenon
    <3> QED BY <1>3, <3>3, Zenon
  <2>2. LockOK' /\ PhaseOK'
    BY <1>1, <2>1 DEF Inv, LockOK, PhaseOK
  <2>3. main.cmd \in {"disconnect", "exit"} => main.todo = <<"status">>
    BY <1>1 DEF Inv, TodoOK
  <2>4. main.cmd = "reboot" => main.todo \in IF connected THEN {<<"status", "reboot">>, <<"reboot">>}
                                                          ELSE {<<"read", "status">>, <<"status">>}
    BY <1>1 DEF Inv, TodoOK
  <2>5. TodoOK'
    <3>1. main.cmd \in {"disconnect", "exit"} => main'.todo = <<>>
      BY <1>4, <2>1, <2>3
    <3>2. main.cmd = "reboot" => main'.todo \in IF connected THEN {<<"reboot">>, <<>>} ELSE {<<"status">>, <<>>}
      BY <1>4, <2>1, <2>4
    <3> QED BY <1>1, <1>7, <2>1, <3>1, <3>2 DEF TodoOK
  <2>6. PollerOK'
    BY <1>1, <2>1 DEF Inv, PollerOK
  <2>7. CloseOK'
    BY <1>4, <1>5, <1>8, <2>1, <2>3 DEF CloseOK
  <2>8. RebootOK'
    <3> SUFFICES ASSUME main.cmd = "reboot", ~board'.restarted
                 PROVE  RebootOK'
      BY <2>1 DEF RebootOK
    <3>1. board.uptime <= board.uptime /\ <<"reboot">> # <<>> /\ <<"status">> # <<>>
          /\ <<"status">> # <<"reboot">>
      BY DEF Inv, BoardType, Uptimes
    <3>2. CASE connected /\ main.todo = <<"status", "reboot">>
      BY <1>1, <1>4, <1>5, <2>1, <3>1, <3>2 DEF RebootOK
    <3>3. CASE connected /\ main.todo = <<"reboot">>
      <4>1. main.seen.uptime <= board.uptime /\ main'.pre = main.seen.uptime /\ main'.todo = <<>>
        BY <1>1, <1>4, <1>5, <2>1, <3>3 DEF Inv, RebootOK
      <4> QED BY <1>1, <1>5, <2>1, <3>1, <3>3, <4>1 DEF RebootOK
    <3>4. CASE ~connected
      <4>1. main.pre <= board.uptime /\ c # "reboot"
        BY <1>4, <1>5, <2>4, <3>4 DEF Inv, RebootOK
      <4>2. main.todo = <<"read", "status">> \/ (c = "status" /\ main.todo = <<"status">>)
        BY <1>4, <2>4, <3>4
      <4>3. main.todo = <<"read", "status">> => main'.todo # <<>>
        BY <1>4, <2>1, <3>1
      <4>4. main'.todo = <<>> => main'.seen.uptime = board.uptime
        BY <2>1, <4>2, <4>3
      <4> QED BY <1>1, <1>5, <2>1, <3>4, <4>1, <4>4 DEF RebootOK
    <3> QED BY <2>4, <3>2, <3>3, <3>4
  <2> QED BY <1>1, <1>5, <1>6, <2>1, <2>2, <2>5, <2>6, <2>7, <2>8 DEF Inv
<1>9. CASE e # "ok"
  <2>1. /\ main' \in MainType /\ main'.pc = "rpc" /\ main'.cmd = main.cmd /\ main'.err = e
        /\ main'.pre = main.pre /\ (main.cmd # "smoke" => main'.todo = <<>>)
    <3>1. main' = Raised(main, e)
      BY <1>1, <1>9
    <3> QED BY <1>1, <1>2, <3>1, RaisedFacts
  <2>2. LockOK' /\ PhaseOK'
    BY <1>1, <2>1 DEF Inv, LockOK, PhaseOK
  <2>3. TodoOK'
    BY <1>1, <2>1 DEF TodoOK
  <2>4. PollerOK'
    BY <1>1, <2>1 DEF Inv, PollerOK
  <2>5. CloseOK'
    BY <1>9, <2>1 DEF CloseOK
  <2>6. RebootOK'
    <3>1. <<"reboot">> # <<>>
      OBVIOUS
    <3>2. ~(c = "status" /\ connected) => board'.restarted = board.restarted
      BY <1>5
    <3> QED BY <1>1, <1>5, <1>9, <2>1, <3>1, <3>2 DEF Inv, RebootOK
  <2> QED BY <1>1, <1>5, <1>6, <2>1, <2>2, <2>3, <2>4, <2>5, <2>6 DEF Inv
<1> QED BY <1>8, <1>9

LEMMA ReleaseLockInv ==
    ASSUME Inv, release_lock
    PROVE  Inv'
<1>1. /\ main.pc = "rpc" /\ main.todo = <<>> /\ lock' = "free" /\ main' = [main EXCEPT !.pc = "done"]
      /\ UNCHANGED <<connected, port, handle, usb_serial, saved, heartbeat, board>>
  BY DEF release_lock
<1>2. /\ main' \in MainType /\ main'.pc = "done" /\ main'.cmd = main.cmd /\ main'.force = main.force
      /\ main'.todo = main.todo /\ main'.err = main.err /\ main'.pre = main.pre
      /\ main'.seen = main.seen
  <2>1. "done" \in Pcs /\ main \in MainType
    BY DEF Pcs, Inv
  <2> QED BY <1>1, <2>1, MovedTo
<1>3. ConnTypes' /\ LockOK' /\ PhaseOK'
  BY <1>1, <1>2 DEF Inv, ConnTypes, LockOK, PhaseOK
<1>4. TodoOK' /\ PollerOK'
  BY <1>1, <1>2 DEF Inv, TodoOK, PollerOK
<1>5. CloseOK' /\ RebootOK'
  BY <1>1, <1>2 DEF Inv, CloseOK, RebootOK
<1> QED BY <1>1, <1>2, <1>3, <1>4, <1>5 DEF Inv


-------------------------------------------------------------------------------
(* The ends of commands.                                                     *)

\* The client will be closed.
LEMMA StopsInv ==
    ASSUME Inv, connected, main.pc = "done", main' \in MainType, main'.pc = "stop",
           main'.force = main.force, main'.pre = main.pre,
           \/ main'.cmd = "none"
           \/ /\ main'.cmd = main.cmd
              /\ main.cmd \in {"disconnect", "exit"} => main.err = "ok" /\ ~main.seen.on
              /\ main.cmd = "reboot" => main.err = "ok",
           UNCHANGED <<conn, saved, heartbeat, lock, board>>
    PROVE  Inv'
<1>1. main.todo = <<>>
  BY DEF Inv, TodoOK
<1>2. ConnTypes' /\ LockOK' /\ PhaseOK'
  BY DEF Inv, ConnTypes, LockOK, PhaseOK
<1>3. TodoOK' /\ PollerOK'
  BY DEF Inv, TodoOK, PollerOK
<1>4. CloseOK' /\ RebootOK'
  BY <1>1 DEF Inv, CloseOK, RebootOK
<1> QED BY <1>2, <1>3, <1>4 DEF Inv

LEMMA StopFacts ==
    ASSUME Inv
    PROVE  /\ [main EXCEPT !.pc = "stop"] \in MainType /\ [main EXCEPT !.pc = "stop"].pc = "stop"
           /\ [main EXCEPT !.pc = "stop"].cmd = main.cmd
           /\ [main EXCEPT !.pc = "stop"].force = main.force
           /\ [main EXCEPT !.pc = "stop"].pre = main.pre
<1>1. "stop" \in Pcs /\ main \in MainType
  BY DEF Pcs, Inv
<1> QED BY <1>1, MovedTo

LEMMA RelayCommandInv ==
    ASSUME Inv, relay_command_done
    PROVE  Inv'
<1>1. main.pc = "done" /\ main.cmd \in {"read", "on", "off", "smoke"} /\ UNCHANGED <<saved, board>>
  BY DEF relay_command_done
<1>2. connected
  BY <1>1 DEF Inv, PhaseOK, Dialogs
<1>3. CASE main' = [main EXCEPT !.pc = "stop"] /\ UNCHANGED <<conn, heartbeat, lock>>
  BY <1>1, <1>2, <1>3, StopFacts, StopsInv
<1>4. CASE Prompt /\ UNCHANGED <<conn, heartbeat, lock>>
  BY <1>1, <1>2, <1>4, PromptInv
<1> QED BY <1>1, <1>3, <1>4, ExitInv DEF relay_command_done

LEMMA CloseCheckedInv ==
    ASSUME Inv, close_checked
    PROVE  Inv'
<1>1. main.pc = "done" /\ main.cmd \in {"disconnect", "exit"} /\ UNCHANGED <<saved, board>>
  BY DEF close_checked
<1>2. connected
  BY <1>1 DEF Inv, PhaseOK, Dialogs
<1>3. CASE close_allowed(main) /\ main' = [main EXCEPT !.pc = "stop"] /\ UNCHANGED <<conn, heartbeat, lock>>
  BY <1>1, <1>2, <1>3, StopFacts, StopsInv DEF close_allowed
<1>4. CASE Prompt /\ UNCHANGED <<conn, heartbeat, lock>>
  BY <1>1, <1>2, <1>4, PromptInv
<1> QED BY <1>1, <1>3, <1>4, ExitInv DEF close_checked

LEMMA MaintenanceInv ==
    ASSUME Inv, maintenance_accepted
    PROVE  Inv'
<1>1. /\ main.pc = "done" /\ main.cmd \in {"reboot", "bootsel"} /\ connected
      /\ UNCHANGED <<conn, saved, heartbeat, lock, board>>
  BY DEF maintenance_accepted
<1>2. CASE main.err = "ok"
  <2>1. main' = [main EXCEPT !.pc = "stop"]
    BY <1>2 DEF maintenance_accepted
  <2> QED BY <1>1, <1>2, <2>1, StopFacts, StopsInv
<1>3. CASE main.err = "transport"
  <2>1. main' = [main EXCEPT !.pc = "stop", !.cmd = "none"]
    BY <1>3 DEF maintenance_accepted
  <2>2. /\ main' \in MainType /\ main'.pc = "stop" /\ main'.cmd = "none"
        /\ main'.force = main.force /\ main'.pre = main.pre
    BY <2>1 DEF Inv, MainType, Pcs
  <2> QED BY <1>1, <2>2, StopsInv
<1>4. CASE main.err \notin {"ok", "transport"}
  <2>1. Prompt
    BY <1>4 DEF maintenance_accepted, Prompt
  <2> QED BY <1>1, <2>1, PromptInv
<1> QED BY <1>2, <1>3, <1>4

LEMMA StopHeartbeatInv ==
    ASSUME Inv, stop_heartbeat
    PROVE  Inv'
<1>1. /\ main.pc = "stop" /\ main' = [main EXCEPT !.pc = "join"]
      /\ heartbeat' = [heartbeat EXCEPT !.stop = TRUE]
      /\ UNCHANGED <<connected, port, handle, usb_serial, saved, lock, board>>
  BY DEF stop_heartbeat
<1>2. /\ main' \in MainType /\ main'.pc = "join" /\ main'.cmd = main.cmd /\ main'.force = main.force
      /\ main'.pre = main.pre
  <2>1. "join" \in Pcs /\ main \in MainType
    BY DEF Pcs, Inv
  <2> QED BY <1>1, <2>1, MovedTo
<1>3. /\ heartbeat' \in PollerType /\ heartbeat'.pc = heartbeat.pc /\ heartbeat'.stop
      /\ heartbeat'.old = heartbeat.old
  BY <1>1 DEF Inv, PollerType
<1>4. ConnTypes' /\ LockOK' /\ PhaseOK'
  BY <1>1, <1>2, <1>3 DEF Inv, ConnTypes, LockOK, PhaseOK
<1>5. TodoOK' /\ PollerOK'
  BY <1>1, <1>2, <1>3 DEF Inv, TodoOK, PollerOK, PhaseOK
<1>6. CloseOK' /\ RebootOK'
  BY <1>1, <1>2 DEF Inv, CloseOK, RebootOK, PhaseOK
<1> QED BY <1>1, <1>2, <1>3, <1>4, <1>5, <1>6 DEF Inv

\* The client is closed; the poller, if the join gave up on it, is old.
LEMMA CloseClientInv ==
    ASSUME Inv, close_client
    PROVE  Inv'
<1>1. main.pc = "join" /\ Joined /\ connected /\ UNCHANGED <<saved, board>>
  BY DEF close_client, Inv, PhaseOK
<1>2. CASE main.cmd = "exit"
  BY <1>1, <1>2, ExitInv DEF close_client
<1>3. CASE main.cmd # "exit"
  <2>1. /\ main' = AfterClose(main) /\ NoClient /\ UNCHANGED lock
        /\ heartbeat' = [heartbeat EXCEPT !.old = heartbeat.pc = "rpc"]
    BY <1>3 DEF close_client
  <2>2. /\ main' \in MainType /\ main'.pc \in {"reconnect", "prompt"}
        /\ main'.pc = "reconnect" => main'.cmd = "reboot"
        /\ main'.cmd = "reboot" => main.cmd = "reboot" /\ main'.pre = main.pre
    <3>1. CASE main' = Idle
      BY <3>1, IdleFacts
    <3>2. CASE main.cmd = "reboot" /\ main' = [main EXCEPT !.pc = "reconnect", !.left = ReconnectAttempts]
      <4>1. ReconnectAttempts \in 0..ReconnectAttempts /\ "reconnect" \in Pcs /\ main \in MainType
        BY DEF Pcs, Inv
      <4> QED BY <3>2, <4>1 DEF MainType
    <3> QED BY <2>1, <3>1, <3>2 DEF AfterClose
  <2>3. /\ heartbeat' \in PollerType /\ heartbeat'.pc = heartbeat.pc
        /\ heartbeat'.stop = heartbeat.stop /\ heartbeat'.try = heartbeat.try
        /\ heartbeat.pc = "rpc" => heartbeat'.old
    <3>1. (heartbeat.pc = "rpc") \in BOOLEAN /\ heartbeat \in PollerType
      BY DEF Inv
    <3> QED BY <2>1, <3>1 DEF PollerType
  <2>4. ~connected' /\ ConnTypes' /\ handle' = "none"
    BY <1>1, <2>1 DEF NoClient, Inv, ConnTypes
  <2>5. LockOK' /\ PhaseOK' /\ TodoOK'
    BY <1>1, <2>1, <2>2, <2>3, <2>4 DEF Inv, LockOK, PhaseOK, TodoOK
  <2>6. PollerOK'
    BY <1>1, <2>2, <2>3, <2>4 DEF Inv, PollerOK, Joined
  <2>7. CloseOK' /\ RebootOK'
    BY <1>1, <2>2, <2>4 DEF Inv, CloseOK, RebootOK
  <2> QED BY <1>1, <2>2, <2>3, <2>4, <2>5, <2>6, <2>7 DEF Inv
<1> QED BY <1>2, <1>3


LEMMA RebootReconnectInv ==
    ASSUME Inv, reboot_reconnect
    PROVE  Inv'
<1>1. /\ main.pc = "reconnect" /\ UNCHANGED <<saved, heartbeat, lock, board>>
      /\ ~connected /\ main.cmd = "reboot" /\ main \in MainType
  BY DEF reboot_reconnect, Inv, PhaseOK
<1>2. CASE Prompt /\ UNCHANGED conn
  BY <1>1, <1>2, PromptInv
<1>3. CASE main.left > 0 /\ main' = [main EXCEPT !.left = @ - 1] /\ UNCHANGED conn
  <2>1. main.left - 1 \in 0..ReconnectAttempts
    BY <1>1, <1>3 DEF MainType
  <2>2. /\ main' \in MainType /\ main'.pc = "reconnect" /\ main'.cmd = "reboot"
        /\ main'.pre = main.pre
    BY <1>1, <1>3, <2>1 DEF MainType
  <2>3. ConnTypes' /\ LockOK' /\ PhaseOK' /\ TodoOK'
    BY <1>1, <1>3, <2>2 DEF Inv, ConnTypes, LockOK, PhaseOK, TodoOK
  <2>4. PollerOK' /\ CloseOK' /\ RebootOK'
    BY <1>1, <1>3, <2>2 DEF Inv, PollerOK, CloseOK, RebootOK
  <2> QED BY <1>1, <2>2, <2>3, <2>4 DEF Inv
<1>4. CASE /\ main.left > 0 /\ usb_serial' = TRUE
           /\ Open([main EXCEPT !.left = @ - 1, !.err = "ok"], board.port)
  <2> DEFINE m == [main EXCEPT !.left = @ - 1, !.err = "ok"]
  <2>1. main.left - 1 \in 0..ReconnectAttempts /\ "ok" \in Results
    BY <1>1, <1>4 DEF MainType, Results
  <2>2. m \in MainType /\ m.cmd = "reboot" /\ m.err = "ok" /\ m.pre = main.pre
    BY <1>1, <2>1 DEF MainType
  <2>3. board.port \in Ports /\ saved \in Ports \cup {"none", "serial"}
    BY DEF Inv, BoardType, ConnTypes
  <2> HIDE DEF m
  <2>4. Open(m, board.port)
    BY <1>4 DEF m
  <2> QED BY <1>1, <1>4, <2>2, <2>3, <2>4, OpenInv
<1> QED BY <1>2, <1>3, <1>4 DEF reboot_reconnect

\* The probe becomes the client and gets a poller, or is closed.
LEMMA ProbeDoneInv ==
    ASSUME Inv, probe_done
    PROVE  Inv'
<1>1. main.pc = "done" /\ ~connected /\ UNCHANGED <<saved, lock, board>>
  BY DEF probe_done
<1>2. /\ heartbeat.pc = "none" /\ main.cmd \in Dialogs \cup {"reboot"} /\ lock = "free"
  BY <1>1 DEF Inv, PollerOK, PhaseOK, LockOK
<1>3. CASE connected' = TRUE /\ start_heartbeat /\ Prompt /\ UNCHANGED <<port, handle, usb_serial>>
  <2>1. main' \in MainType /\ main'.pc = "prompt" /\ main'.cmd = "none"
    BY <1>3, IdleFacts DEF Prompt
  <2>2. heartbeat' \in PollerType /\ heartbeat'.pc = "wait" /\ ~heartbeat'.stop /\ ~heartbeat'.old
    BY <1>3, NoPollerFacts DEF start_heartbeat
  <2>3. ConnTypes' /\ LockOK' /\ PhaseOK' /\ TodoOK'
    BY <1>1, <1>2, <1>3, <2>1, <2>2 DEF Inv, ConnTypes, LockOK, PhaseOK, TodoOK
  <2>4. PollerOK' /\ CloseOK' /\ RebootOK'
    BY <1>3, <2>1, <2>2 DEF PollerOK, CloseOK, RebootOK
  <2> QED BY <1>1, <2>1, <2>2, <2>3, <2>4 DEF Inv
<1>4. CASE /\ main.cmd = "reboot" /\ main' = [main EXCEPT !.pc = "reconnect"] /\ NoClient
           /\ UNCHANGED heartbeat
  <2>1. main' \in MainType /\ main'.pc = "reconnect" /\ main'.cmd = "reboot" /\ main'.pre = main.pre
    <3>1. "reconnect" \in Pcs /\ main \in MainType
      BY DEF Pcs, Inv
    <3> QED BY <1>4, <3>1, MovedTo
  <2>2. ~connected' /\ handle' = "none" /\ ConnTypes'
    BY <1>1, <1>4 DEF NoClient, Inv, ConnTypes
  <2>3. LockOK' /\ PhaseOK' /\ TodoOK'
    BY <1>1, <1>2, <1>4, <2>1, <2>2 DEF LockOK, PhaseOK, TodoOK
  <2>4. PollerOK' /\ CloseOK' /\ RebootOK'
    BY <1>1, <1>2, <1>4, <2>1, <2>2 DEF Inv, PollerOK, CloseOK, RebootOK
  <2> QED BY <1>1, <1>4, <2>1, <2>2, <2>3, <2>4 DEF Inv
<1>5. CASE Select(Connecting("prompt")) /\ UNCHANGED heartbeat
  <2>1. "prompt" \in Dialogs
    BY DEF Dialogs
  <2> QED BY <1>1, <1>5, <2>1, SelectInv
<1>6. CASE Prompt /\ NoClient /\ UNCHANGED heartbeat
  BY <1>1, <1>6, PromptInv
<1> QED BY <1>3, <1>4, <1>5, <1>6 DEF probe_done

LEMMA InterruptInv ==
    ASSUME Inv, interrupt
    PROVE  Inv'
<1>1. CASE /\ main.pc = "rpc" /\ main.cmd = "smoke" /\ main' = Raised(main, "interrupt")
           /\ UNCHANGED <<conn, heartbeat, stray, lock>>
  <2>1. main' \in MainType /\ main'.pc = "rpc" /\ main'.cmd = "smoke"
    <3>1. main \in MainType /\ "interrupt" \in Results \cup {"interrupt"}
      BY DEF Inv
    <3> QED BY <1>1, <3>1, RaisedFacts
  <2>2. UNCHANGED <<saved, board>>
    BY DEF interrupt
  <2>3. ConnTypes' /\ LockOK' /\ PhaseOK' /\ TodoOK'
    BY <1>1, <2>1, <2>2 DEF Inv, ConnTypes, LockOK, PhaseOK, TodoOK
  <2>4. PollerOK' /\ CloseOK' /\ RebootOK'
    BY <1>1, <2>1, <2>2 DEF Inv, PollerOK, CloseOK, RebootOK
  <2> QED BY <1>1, <2>1, <2>2, <2>3, <2>4 DEF Inv
<1> QED BY <1>1, ExitInv DEF interrupt

-------------------------------------------------------------------------------
(* The poller and the environment.                                           *)

\* Steps of the poller: it starts an attempt, tries again, or is done with it.
LEMMA PollerInv ==
    ASSUME Inv, UNCHANGED <<main, connected, port, usb_serial, saved>>,
           heartbeat' \in PollerType, lock' \in {"free", "main", "heartbeat"},
           heartbeat.pc # "none",
           lock' = "main" <=> lock = "main", lock' = "heartbeat" <=> heartbeat'.pc = "rpc",
           heartbeat'.pc = "none" => heartbeat.stop,
           heartbeat'.pc # "none" => heartbeat'.stop = heartbeat.stop,
           heartbeat'.old => heartbeat.old,
           heartbeat.old => \/ heartbeat'.pc = "none"
                            \/ heartbeat'.pc = "rpc" /\ heartbeat'.old /\ heartbeat'.try >= heartbeat.try,
           handle' \in {"none", "open", "dead"}, heartbeat.old => UNCHANGED handle,
           board' \in BoardType, board'.uptime = board.uptime, board'.restarted = board.restarted,
           board'.on => board.on, board'.late => board.late
    PROVE  Inv'
<1>1. ConnTypes' /\ LockOK'
  BY DEF Inv, ConnTypes, LockOK
<1>2. PhaseOK' /\ TodoOK'
  BY DEF Inv, PhaseOK, TodoOK, PollerOK
<1>3. PollerOK'
  <2>1. heartbeat.try \in Nat /\ heartbeat'.try \in Nat
    BY DEF Inv, PollerType
  <2> QED BY <2>1 DEF Inv, PollerOK
<1>4. CloseOK'
  BY DEF Inv, CloseOK
<1>5. RebootOK'
  BY DEF Inv, RebootOK
<1> QED BY <1>1, <1>2, <1>3, <1>4, <1>5 DEF Inv

LEMMA PollInv ==
    ASSUME Inv, poll \/ poll_lock
    PROVE  Inv'
<1>1. /\ UNCHANGED <<main, connected, port, handle, usb_serial, saved, board>>
      /\ heartbeat.pc \in {"wait", "lock"}
  BY DEF poll, poll_lock
<1>2. heartbeat \in PollerType /\ board \in BoardType /\ handle \in {"none", "open", "dead"}
      /\ LockOK /\ ~heartbeat.old
  BY <1>1 DEF Inv, ConnTypes, PollerOK
<1>3. CASE poll
  <2>1. UNCHANGED lock
    BY <1>3 DEF poll
  <2>2. CASE heartbeat.stop
    <3>1. heartbeat' = NoPoller
      BY <1>3, <2>2 DEF poll
    <3> QED BY <1>1, <1>2, <1>3, <2>1, <2>2, <3>1, NoPollerFacts, PollerInv DEF LockOK, NoPoller, poll
  <2>3. CASE ~heartbeat.stop
    <3>1. heartbeat' = [heartbeat EXCEPT !.pc = "lock"]
      BY <1>3, <2>3 DEF poll
    <3>2. /\ heartbeat' \in PollerType /\ heartbeat'.pc = "lock" /\ heartbeat'.stop = heartbeat.stop
          /\ heartbeat'.old = heartbeat.old
      BY <1>2, <3>1 DEF PollerType
    <3> QED BY <1>1, <1>2, <1>3, <2>1, <3>2, PollerInv DEF LockOK, poll
  <2> QED BY <2>2, <2>3
<1>4. CASE poll_lock
  <2>1. /\ lock = "free" /\ lock' = "heartbeat"
        /\ heartbeat' = [heartbeat EXCEPT !.pc = "rpc", !.try = 1]
    BY <1>4 DEF poll_lock
  <2>2. 1 \in 0..Attempts
    OBVIOUS
  <2>3. /\ heartbeat' \in PollerType /\ heartbeat'.pc = "rpc" /\ heartbeat'.stop = heartbeat.stop
        /\ heartbeat'.old = heartbeat.old
    BY <1>2, <2>1, <2>2 DEF PollerType
  <2> QED BY <1>1, <1>2, <2>1, <2>3, PollerInv
<1> QED BY <1>3, <1>4

LEMMA HeartbeatRpcInv ==
    ASSUME Inv, NEW e \in Results, heartbeat_rpc(e)
    PROVE  Inv'
<1> DEFINE again == e = "timeout" /\ heartbeat.try < Attempts
<1>1. /\ heartbeat.pc = "rpc" /\ UNCHANGED <<main, connected, port, usb_serial, saved>>
      /\ heartbeat' = IF again THEN [heartbeat EXCEPT !.try = @ + 1] ELSE PollEnds
      /\ lock' = IF again THEN lock ELSE "free"
  BY DEF heartbeat_rpc
<1>2. heartbeat \in PollerType /\ LockOK /\ lock = "heartbeat" /\ (heartbeat.old => heartbeat.stop)
  BY <1>1 DEF Inv, LockOK, PollerOK
<1>3. /\ handle' \in {"none", "open", "dead"} /\ (heartbeat.old => UNCHANGED handle)
      /\ board' \in BoardType /\ board'.uptime = board.uptime /\ board'.restarted = board.restarted
      /\ (board'.on => board.on) /\ (board'.late => board.late)
  <2>1. CASE heartbeat.old
    <3>1. UNCHANGED <<handle, board>>
      BY <2>1 DEF heartbeat_rpc
    <3> QED BY <3>1 DEF Inv, ConnTypes
  <2>2. CASE ~heartbeat.old
    <3>1. Outcome("read", e, handle, port) /\ handle' = HandleAfter(e)
      BY <2>2 DEF heartbeat_rpc
    <3>2. "read" \in Requests
      BY DEF Requests
    <3>3. /\ board' \in BoardType /\ board'.uptime = board.uptime
          /\ board'.restarted = board.restarted
          /\ (board'.on => board.on) /\ (board'.late => board.late)
      BY <3>1, <3>2, OutcomeFacts
    <3> QED BY <2>2, <3>1, <3>3 DEF HandleAfter
  <2> QED BY <2>1, <2>2
<1>4. CASE again
  <2>1. heartbeat' = [heartbeat EXCEPT !.try = @ + 1] /\ lock' = lock
    BY <1>1, <1>4
  <2>2. heartbeat.try + 1 \in 0..Attempts /\ heartbeat.try + 1 >= heartbeat.try
    BY <1>2, <1>4 DEF PollerType
  <2>3. /\ heartbeat' \in PollerType /\ heartbeat'.pc = "rpc" /\ heartbeat'.stop = heartbeat.stop
        /\ heartbeat'.old = heartbeat.old /\ heartbeat'.try >= heartbeat.try
    BY <1>1, <1>2, <2>1, <2>2 DEF PollerType
  <2> QED BY <1>1, <1>2, <1>3, <2>1, <2>3, PollerInv
<1>5. CASE ~again
  <2>1. heartbeat' = (IF heartbeat.stop THEN NoPoller ELSE [NoPoller EXCEPT !.pc = "wait"]) /\ lock' = "free"
    BY <1>1, <1>5 DEF PollEnds
  <2>2. /\ heartbeat' \in PollerType /\ ~heartbeat'.old
        /\ heartbeat.stop => heartbeat'.pc = "none"
        /\ ~heartbeat.stop => heartbeat'.pc = "wait" /\ heartbeat'.stop = FALSE
    BY <2>1, NoPollerFacts DEF NoPoller
  <2>3. heartbeat.stop \in BOOLEAN
    BY <1>2 DEF PollerType
  <2> QED BY <1>1, <1>2, <1>3, <2>1, <2>2, <2>3, PollerInv
<1> QED BY <1>4, <1>5


-------------------------------------------------------------------------------
(* The board.                                                                *)

\* What no move of the board does: it switches nothing on that nobody asked
\* for, and its uptime only falls when it restarts.
LEMMA BoardInv ==
    ASSUME Inv, UNCHANGED <<main, connected, port, usb_serial, saved, heartbeat, lock>>,
           board' \in BoardType, board'.on => board.on \/ board.late, board'.late => board.late,
           ~board'.restarted => ~board.restarted /\ board.uptime <= board'.uptime,
           handle' \in {"none", "open", "dead"}, handle = "none" => handle' = "none"
    PROVE  Inv'
<1>1. ConnTypes' /\ LockOK' /\ PhaseOK' /\ TodoOK' /\ PollerOK'
  BY DEF Inv, ConnTypes, LockOK, PhaseOK, TodoOK, PollerOK
<1>2. CloseOK'
  BY DEF Inv, CloseOK
<1>3. RebootOK'
  <2>1. /\ board.uptime \in Nat /\ board'.uptime \in Nat /\ main.pre \in Nat
        /\ main.seen.uptime \in Nat
    BY DEF Inv, BoardType, MainType, Uptimes
  <2> QED BY <2>1 DEF Inv, RebootOK
<1> QED BY <1>1, <1>2, <1>3 DEF Inv

LEMMA EnvironmentInv ==
    ASSUME Inv, ExecuteLate \/ RelaysOff \/ Detach \/ Attach \/ Tick
    PROVE  Inv'
<1>1. board \in BoardType /\ handle \in {"none", "open", "dead"}
  BY DEF Inv, ConnTypes
<1>2. board.uptime \in Nat /\ board.uptime <= board.uptime
  BY <1>1 DEF BoardType, Uptimes
<1>3. CASE ExecuteLate
  BY <1>1, <1>2, <1>3, BoardInv DEF ExecuteLate, BoardType
<1>4. CASE RelaysOff
  BY <1>1, <1>2, <1>4, BoardInv DEF RelaysOff, BoardType
<1>5. CASE Detach
  <2>1. handle' \in {"none", "open", "dead"} /\ (handle = "none" => handle' = "none")
    BY <1>1, <1>5 DEF Detach
  <2>2. CASE board' = [board EXCEPT !.attached = FALSE]
    <3>1. /\ board' \in BoardType /\ board'.on = board.on /\ board'.late = board.late
          /\ board'.restarted = board.restarted /\ board'.uptime = board.uptime
      BY <1>1, <2>2 DEF BoardType
    <3> QED BY <1>2, <1>5, <2>1, <3>1, BoardInv DEF Detach
  <2>3. CASE board' = [attached |-> FALSE, port |-> board.port, on |-> FALSE, late |-> FALSE,
                       uptime |-> 0, restarted |-> TRUE]
    <3>1. 0 \in Uptimes /\ board.port \in Ports
      BY <1>1 DEF BoardType, Uptimes
    <3>2. board' \in BoardType /\ ~board'.on /\ ~board'.late /\ board'.restarted
      BY <2>3, <3>1 DEF BoardType
    <3> QED BY <1>5, <2>1, <3>2, BoardInv DEF Detach
  <2> QED BY <1>5, <2>2, <2>3 DEF Detach
<1>6. CASE Attach
  <2>1. PICK p \in Ports : board' = [board EXCEPT !.attached = TRUE, !.port = p]
    BY <1>6 DEF Attach
  <2>2. /\ board' \in BoardType /\ board'.on = board.on /\ board'.late = board.late
        /\ board'.restarted = board.restarted /\ board'.uptime = board.uptime
    BY <1>1, <2>1 DEF BoardType
  <2> QED BY <1>1, <1>2, <1>6, <2>2, BoardInv DEF Attach
<1>7. CASE Tick
  <2>1. board.uptime + 1 \in Uptimes /\ board.uptime <= board.uptime + 1
    BY <1>2, <1>7 DEF Tick, Uptimes
  <2>2. /\ board' \in BoardType /\ board'.on = board.on /\ board'.late = board.late
        /\ board'.restarted = board.restarted /\ board'.uptime = board.uptime + 1
    BY <1>1, <1>7, <2>1 DEF Tick, BoardType
  <2> QED BY <1>1, <1>7, <2>1, <2>2, BoardInv DEF Tick
<1> QED BY <1>3, <1>4, <1>5, <1>6, <1>7

-------------------------------------------------------------------------------
(* The invariant holds.                                                      *)

LEMMA InitInv == Init => Inv
<1> SUFFICES ASSUME Init PROVE Inv
  OBVIOUS
<1>1. main = [Idle EXCEPT !.pc = "start"] /\ "start" \in Pcs
  BY DEF Init, Pcs
<1>2. /\ main \in MainType /\ main.pc = "start" /\ main.cmd = "none" /\ main.todo = <<>>
  BY <1>1, IdleFacts, MovedTo
<1>3. /\ heartbeat \in PollerType /\ heartbeat.pc = "none" /\ lock = "free"
  BY NoPollerFacts DEF Init
<1>4. ConnTypes /\ connected = FALSE /\ handle = "none"
  BY DEF Init, ConnTypes
<1>5. board \in BoardType
  <2>1. board \in [attached : BOOLEAN, port : Ports, on : BOOLEAN, late : {FALSE},
                   uptime : 0..MaxUptime, restarted : {FALSE}]
    BY DEF Init
  <2> QED BY <2>1 DEF BoardType, Uptimes
<1>6. LockOK /\ PhaseOK /\ TodoOK /\ PollerOK /\ CloseOK /\ RebootOK
  BY <1>2, <1>3, <1>4 DEF LockOK, PhaseOK, TodoOK, PollerOK, CloseOK, RebootOK
<1> QED BY <1>2, <1>3, <1>4, <1>5, <1>6 DEF Inv

LEMMA NextInv == Inv /\ [Next]_vars => Inv'
<1> SUFFICES ASSUME Inv, [Next]_vars PROVE Inv'
  OBVIOUS
<1>1. CASE UNCHANGED vars
  <2>1. UNCHANGED <<main, connected, port, handle, usb_serial, saved, heartbeat, lock, board>>
    BY <1>1 DEF vars
  <2>2. board.uptime <= board.uptime
    BY DEF Inv, BoardType, Uptimes
  <2> QED BY <2>1, <2>2, BoardInv DEF Inv, ConnTypes
<1>2. CASE Next
  <2>1. ASSUME NEW c \in DOMAIN Script, NEW force \in BOOLEAN, NEW eof \in BOOLEAN,
               handle_line(c, force, eof)
        PROVE  Inv'
    BY <2>1, HandleLineInv
  <2>2. CASE exit_disconnected
    BY <2>2, ExitInv DEF exit_disconnected
  <2>3. ASSUME NEW c \in {"start", "prompt"}, NEW sel \in Ports \cup {"serial"}, connect_to(c, sel)
        PROVE  Inv'
    BY <2>3, ConnectToInv
  <2>4. ASSUME NEW c \in {"start", "prompt"}, connect_plain(c) PROVE Inv'
    BY <2>4, ConnectPlainInv
  <2>5. ASSUME NEW e \in Results, request(e) PROVE Inv'
    BY <2>5, RequestInv
  <2>6. ASSUME NEW e \in Results, heartbeat_rpc(e) PROVE Inv'
    BY <2>6, HeartbeatRpcInv
  <2>7. CASE select \/ take_lock \/ release_lock
    BY <2>7, SelectionInv, TakeLockInv, ReleaseLockInv
  <2>8. CASE relay_command_done \/ close_checked \/ maintenance_accepted
    BY <2>8, RelayCommandInv, CloseCheckedInv, MaintenanceInv
  <2>9. CASE stop_heartbeat \/ close_client \/ reboot_reconnect \/ probe_done \/ interrupt
    BY <2>9, StopHeartbeatInv, CloseClientInv, RebootReconnectInv, ProbeDoneInv, InterruptInv
  <2>10. CASE poll \/ poll_lock
    BY <2>10, PollInv
  <2>11. CASE ExecuteLate \/ RelaysOff \/ Detach \/ Attach \/ Tick
    BY <2>11, EnvironmentInv
  <2> QED BY <1>2, <2>1, <2>2, <2>3, <2>4, <2>5, <2>6, <2>7, <2>8, <2>9, <2>10, <2>11 DEF Next
<1> QED BY <1>1, <1>2

\* The inductive invariant of the session holds of every reachable state.
THEOREM Invariant == Spec => []Inv
<1> QED BY InitInv, NextInv, PTL DEF Spec


-------------------------------------------------------------------------------
(* What follows from it.                                                     *)

\* _lock (session.py): for every set of ports and every number of attempts, a
\* thread is in an exchange only while it holds the lock, and a session that
\* is connected and at the prompt has a poller that nobody has told to stop.
THEOREM ThreadsExclude == Spec => []SessionInv
<1>1. Inv => SessionInv
  BY DEF Inv, SessionInv, SessionTypeOK, ConnectedIsPolled, MainType, PollerType, ConnTypes,
         LockOK, PollerOK, Pcs
<1> QED BY Invariant, <1>1, PTL

\* _close_allowed (session.py): between the status that showed the relays off
\* and the close, which waits for the poller, nothing can switch one on.
THEOREM CloseLeavesOff == Spec => GuardedCloseIsSafe
<1>1. Inv => ((main.pc = "join" /\ main.cmd \in {"disconnect", "exit"} /\ ~main.force /\ ~connected')
                 => ~board.on /\ ~board.late)
  BY DEF Inv, CloseOK
<1> QED BY Invariant, <1>1, PTL DEF GuardedCloseIsSafe

\* Only _adopt_connection makes a session connected.
LEMMA OnlyProbeConnects ==
    ASSUME Next, ~connected, connected'
    PROVE  probe_done
<1>1. \/ UNCHANGED connected \/ connected' = FALSE \/ probe_done
  BY DEF Next, handle_line, exit_disconnected, connect_to, connect_plain, select, take_lock,
         request, release_lock, relay_command_done, close_checked, maintenance_accepted,
         stop_heartbeat, close_client, reboot_reconnect, interrupt, poll, poll_lock,
         heartbeat_rpc, ExecuteLate, RelaysOff, Detach, Attach, Tick, Exit, NoClient, Open,
         Select
<1> QED BY <1>1

\* _handle_reboot (session.py): the board it reconnects to has restarted since
\* the status that was read before the reboot request, for every number of
\* reconnect rounds and whatever was unplugged meanwhile.
THEOREM RebootsAreReal == Spec => ReconnectIsFresh
<1> DEFINE Fresh == main.cmd = "reboot" /\ main.pc = "done" /\ ~connected /\ connected'
                      => board.restarted
<1>1. Inv /\ [Next]_vars => [Fresh]_vars
  <2> SUFFICES ASSUME Inv, Next, main.cmd = "reboot", main.pc = "done", ~connected, connected'
               PROVE  board.restarted
    BY DEF Fresh
  <2>1. main.err = "ok" /\ main.seen.uptime < main.pre
    BY OnlyProbeConnects DEF probe_done, is_reboot_reconnect_fresh, Select, NoClient
  <2>2. Answered
    BY <2>1 DEF Inv, TodoOK
  <2>3. main.seen.uptime \in Nat /\ main.pre \in Nat
    BY DEF Inv, MainType, Uptimes
  <2> QED BY <2>1, <2>2, <2>3 DEF Inv, RebootOK
<1> QED BY Invariant, <1>1, PTL DEF Spec, ReconnectIsFresh, Fresh

\* A poller that outlives its client has used up its attempts, when the join
\* outlasts all of them but the last.
Quiet == stray = "none"

LEMMA QuietStep ==
    ASSUME Inv, Quiet, [Next]_vars, Attempts <= JoinOutlasts + 1
    PROVE  Quiet'
<1>1. CASE UNCHANGED vars
  BY <1>1 DEF vars, Quiet
<1>2. ASSUME NEW e \in Results, heartbeat_rpc(e) PROVE Quiet'
  <2>1. CASE heartbeat.old
    <3>1. heartbeat.try \in Nat /\ heartbeat.try > JoinOutlasts
      BY <1>2, <2>1 DEF heartbeat_rpc, Inv, PollerOK, PollerType, ConnTypes
    <3>2. ~(heartbeat.try < Attempts)
      BY <3>1
    <3> QED BY <1>2, <2>1, <3>2 DEF heartbeat_rpc, Quiet
  <2>2. CASE ~heartbeat.old
    BY <1>2, <2>2 DEF heartbeat_rpc, Quiet
  <2> QED BY <2>1, <2>2
<1>3. CASE Next /\ ~\E e \in Results : heartbeat_rpc(e)
  <2>1. stray' = stray \/ stray' = "none"
    BY <1>3 DEF Next, handle_line, exit_disconnected, connect_to, connect_plain, select,
         take_lock, request, release_lock, relay_command_done, close_checked,
         maintenance_accepted, stop_heartbeat, close_client, reboot_reconnect, probe_done,
         interrupt, poll, poll_lock, ExecuteLate, RelaysOff, Detach, Attach, Tick, Exit
  <2> QED BY <2>1 DEF Quiet
<1> QED BY <1>1, <1>2, <1>3

\* docs/host-session-mode.md "Holds no open RelayClient": when the join of
\* HeartbeatPoller.stop outlasts all attempts of an exchange but the last, a
\* disconnected session at its prompt holds no serial handle, not even one that
\* the poller of the closed client opened again.
THEOREM SilentWhenDisconnected ==
    ASSUME Attempts <= JoinOutlasts + 1
    PROVE  Spec => []DisconnectedIsSilent
<1>1. Init => Quiet
  BY DEF Init, Quiet
<1>2. Inv /\ Quiet /\ [Next]_vars => Quiet'
  BY QuietStep
<1>3. Inv /\ Quiet => DisconnectedIsSilent
  BY DEF Inv, PhaseOK, Quiet, DisconnectedIsSilent
<1> QED BY Invariant, <1>1, <1>2, <1>3, PTL DEF Spec
=============================================================================
