------------------------------ MODULE HostTools ------------------------------
(* The command-line tools from the words of the user to the exit status:     *)
(* rp2350-relay (cli.py) drives the board itself, rp2350-relayctl            *)
(* (relayctl.py, daemon_client.py) asks the daemon (daemon.py), which drives *)
(* the board with the same RelayClient (client.py).  Each layer checks the   *)
(* arguments again, and every error is turned into an exception, on the      *)
(* daemon's socket into a kind of error, and at last into an exit status.    *)
(*                                                                           *)
(* The choice of device and socket that precedes it is HostConfig's.         *)
(*                                                                           *)
(* Each initial state is a question: a command and the fate of its request,  *)
(* or the settings and the plugged devices a tool is started with.           *)
EXTENDS Integers, Sequences, HostConfig

CONSTANTS
    CommandJobs,    \* commands that are typed
    ResolveJobs     \* settings that tools are started with

VARIABLES
    job,      \* the question, constant
    step,     \* how far it is
    args,     \* the arguments as the current layer has them
    raised,   \* the exception on its way back to the user
    cause,    \* the first exception, and where it was raised
    acted,    \* what the board was told to do
    out       \* the outcome: an exit status, a choice, a payload

vars == <<job, step, args, raised, cause, acted, out>>

-------------------------------------------------------------------------------
(* A command.  `a' and `b' are its arguments, as numbers: on and off are 1   *)
(* and 0, and Word is a word that is no number, or neither on nor off.       *)

RELAY_COUNT == 6
PULSE_MIN_MS == 10
PULSE_MAX_MS == 60000
Word == -100

Typed == [cmd : {"set", "pulse", "set-all", "status", "off-all"}, a : Int, b : Int]

\* The board answers, refuses, is silent, gone, answers in a spoilt frame or with
\* nonsense in a good one; or its firmware has another version; relayctl may
\* also find no daemon.
Fates == {"ok", "device", "timeout", "transport", "frame", "protocol", "version", "no daemon"}

CommandJob == {j \in [ask : {"command"}, tool : {"cli", "relayctl"}, typed : Typed, fate : Fates] :
                    j.fate = "no daemon" => j.tool = "relayctl"}

\* argparse admits --port or --serial.
Layers == [Keys -> STRING]
Device == [device : STRING, board : BOOLEAN, product : STRING, serial : STRING]
ResolveJob == {j \in [ask : {"resolve"}, instance : BOOLEAN, found : BOOLEAN, ports : SUBSET Device,
                      file : Layers, env : Layers, args : Layers] :
                    /\ IsFiniteSet(j.ports)
                    /\ j.args["port"] = "unset" \/ j.args["serial"] = "unset"
                    /\ j.found \/ j.file = Unset}

ASSUME HostToolsAssumption == CommandJobs \subseteq CommandJob /\ ResolveJobs \subseteq ResolveJob

NoCause == [is |-> "none", at |-> "none"]
Nothing == [cmd |-> "none", a |-> 0, b |-> 0]

Raise(e) ==
    /\ raised' = e /\ step' = "raised"
    /\ cause' = IF cause = NoCause THEN [is |-> e, at |-> step] ELSE cause

Goto(s) == step' = s /\ UNCHANGED <<raised, cause>>

\* argparse: _parse_channel, _parse_on_off, _parse_state and int; the same
\* functions serve relayctl.  Channels become zero-based.
parse(c) ==
    [ok |-> CASE c.cmd = "set" -> c.a \in 1..RELAY_COUNT /\ c.b \in {0, 1}
              [] c.cmd = "pulse" -> c.a \in 1..RELAY_COUNT /\ c.b # Word
              [] c.cmd = "set-all" -> c.a \in 0..(2^RELAY_COUNT - 1)
              [] OTHER -> TRUE,
     args |-> IF c.cmd \in {"set", "pulse"} THEN [c EXCEPT !.a = @ - 1] ELSE c]

\* What the methods of RelayClient and of RelayDaemonClient accept
client_accepts(c) ==
    CASE c.cmd = "set" -> c.a \in 0..(RELAY_COUNT - 1) /\ c.b \in {0, 1}
      [] c.cmd = "pulse" -> c.a \in 0..(RELAY_COUNT - 1) /\ c.b \in PULSE_MIN_MS..PULSE_MAX_MS
      [] c.cmd = "set-all" -> c.a \in 0..(2^RELAY_COUNT - 1)
      [] OTHER -> TRUE

\* What the daemon's _validate_args accepts
\* Slip: the longest pulse is refused.
_validate_args_Exclusive(c) == client_accepts(c) /\ (c.cmd = "pulse" => c.b < PULSE_MAX_MS)

_validate_args(c) ==
    CASE c.cmd = "set" -> c.a \in 0..(RELAY_COUNT - 1) /\ c.b \in {0, 1}
      [] c.cmd = "pulse" -> c.a \in 0..(RELAY_COUNT - 1) /\ c.b \in PULSE_MIN_MS..PULSE_MAX_MS
      [] c.cmd = "set-all" -> c.a \in 0..(2^RELAY_COUNT - 1)
      [] OTHER -> TRUE

-------------------------------------------------------------------------------
(* Errors.  RelayTimeoutError is a RelayTransportError: the order of the     *)
(* except clauses and isinstance tests matters.                              *)

IsA(e, class) == e = class \/ (e = "Timeout" /\ class = "Transport")

\* The value of the first clause <<class, value>> that catches e
FirstClause(e, clauses) ==
    LET hits == {i \in DOMAIN clauses : IsA(e, clauses[i][1])}
    IN  clauses[CHOOSE i \in hits : \A j \in hits : i <= j][2]

\* Slip: the wider class is tested first.
error_response_for_exception_Wide(e) ==
    FirstClause(e, <<<<"Validation", "validation">>, <<"Transport", "transport">>,
                     <<"Timeout", "timeout">>, <<"Protocol", "protocol">>,
                     <<"Device", "device">>>>)

error_response_for_exception(e) ==
    FirstClause(e, <<<<"Validation", "validation">>, <<"Timeout", "timeout">>,
                     <<"Transport", "transport">>, <<"Protocol", "protocol">>,
                     <<"Device", "device">>>>)

\* RelayDaemonClient._raise_error
_raise_error(kind) ==
    CASE kind = "validation" -> "Validation"
      [] kind \in {"transport", "daemon"} -> "Transport"
      [] kind = "timeout" -> "Timeout"
      [] kind = "device" -> "Device"
      [] OTHER -> "Protocol"

\* The except clauses of run() in cli.py and relayctl.py
exit_status(e) ==
    IF e = "none" THEN 0
    ELSE FirstClause(e, <<<<"Validation", 2>>, <<"Timeout", 4>>, <<"Transport", 3>>,
                          <<"Protocol", 5>>, <<"Device", 6>>>>)

-------------------------------------------------------------------------------
(* The path of a command. *)

ParseArguments ==
    /\ step = "typed"
    /\ LET p == parse(job.typed)
       IN  /\ args' = p.args
           /\ IF p.ok THEN Goto("connect") ELSE Raise("Validation")
    /\ UNCHANGED <<job, acted, out>>

\* What is raised first when the request fails: by pyserial, by the decoder of
\* the frames, by RelayClient for what is in them.
First == [device |-> "Device", timeout |-> "Timeout", transport |-> "Serial",
          frame |-> "Protocol", protocol |-> "Protocol", version |-> "Protocol"]

\* SerialSmpTransport.exchange: a timeout passes; every other exception inside
\* it, the frame decoder's too, becomes a transport error.
exchange(e) == IF IsA(e, "Timeout") THEN e ELSE "Transport"

\* What RelayClient._request raises
Failure(f) == IF f \in {"timeout", "transport", "frame"} THEN exchange(First[f]) ELSE First[f]

Fail(f) ==
    /\ raised' = Failure(f) /\ step' = "raised"
    /\ cause' = [is |-> First[f], at |-> step]

\* cli.py _ready_client: the identity is read and its versions checked.  The
\* board's fate may set in now or at the command itself.
ReadyClient ==
    /\ step = "connect" /\ job.tool = "cli"
    /\ \/ job.fate # "version" /\ Goto("check")
       \/ /\ job.fate \in {"timeout", "transport", "frame", "protocol", "version"}
          /\ Fail(job.fate)
    /\ UNCHANGED <<job, args, acted, out>>

\* RelayDaemonClient.connect
ConnectDaemon ==
    /\ step = "connect" /\ job.tool = "relayctl"
    /\ IF job.fate = "no daemon" THEN Raise("Transport") ELSE Goto("check")
    /\ UNCHANGED <<job, args, acted, out>>

\* The method of RelayClient or RelayDaemonClient checks its arguments.
CheckArguments ==
    /\ step = "check"
    /\ IF client_accepts(args)
       THEN Goto(IF job.tool = "cli" THEN "board" ELSE "daemon")
       ELSE Raise("Validation")
    /\ UNCHANGED <<job, args, acted, out>>

\* Daemon: parse_request_line, then _handle_request, whose RelayClient checks
\* the arguments once more.  A board with another version is not connected.
\* relayctl may give up before the daemon's own request has timed out.
DaemonRequest ==
    /\ step = "daemon"
    /\ \/ /\ CASE ~_validate_args(args) -> Raise("Validation")
               [] _validate_args(args) /\ job.fate = "version" -> Raise("Transport")
               [] OTHER -> IF client_accepts(args) THEN Goto("board") ELSE Raise("Validation")
          /\ UNCHANGED acted
       \/ /\ job.fate = "timeout" /\ _validate_args(args)
          /\ step' = "responded" /\ raised' = "Timeout"
          /\ cause' = [is |-> "Timeout", at |-> "relayctl"]
          /\ acted' \in {Nothing, args}
    /\ UNCHANGED <<job, args, out>>

\* The request to the board.  A command whose answer is lost or spoilt may have
\* been executed.
Board ==
    /\ step = "board"
    /\ IF job.fate = "ok" THEN Goto("returned") ELSE Fail(job.fate)
    /\ acted' \in CASE job.fate = "ok" -> {args}
                    [] job.fate = "device" -> {Nothing}
                    [] OTHER -> {Nothing, args}
    /\ UNCHANGED <<job, args, out>>

InDaemon == job.tool = "relayctl" /\ cause.at \in {"daemon", "board"}

\* What the daemon's worker raised crosses the socket as an error object.
Respond ==
    /\ step = "raised" /\ InDaemon
    /\ raised' = _raise_error(error_response_for_exception(raised))
    /\ step' = "responded"
    /\ UNCHANGED <<job, args, cause, acted, out>>

Exit ==
    /\ \/ step \in {"returned", "responded"}
       \/ step = "raised" /\ ~InDaemon
    /\ out' = exit_status(raised)
    /\ step' = "exit"
    /\ UNCHANGED <<job, args, raised, cause, acted>>

-------------------------------------------------------------------------------
(* A daemon, a relayctl and a session started for the instance. *)

Resolution(j) ==
    LET config == config_from_args(j.instance, j.found, j.file, j.env, j.args)
    IN  [config |-> config, port |-> _selected_port(config, j.ports),
         ctl |-> ctl_socket(j.found, j.file, j.env),
         session |-> _apply_session_overrides(j.env, j.args)]

Resolve ==
    /\ step = "resolve"
    /\ out' = Resolution(job)
    /\ step' = "exit"
    /\ UNCHANGED <<job, args, raised, cause, acted>>

-------------------------------------------------------------------------------
Start(j, s) ==
    /\ job = j /\ step = s
    /\ args = Nothing /\ raised = "none" /\ cause = NoCause /\ acted = Nothing
    /\ out = "none"

Init ==
    \/ \E j \in CommandJobs : Start(j, "typed")
    \/ \E j \in ResolveJobs : Start(j, "resolve")

Next ==
    \/ ParseArguments
    \/ ReadyClient
    \/ ConnectDaemon
    \/ CheckArguments
    \/ DaemonRequest
    \/ Board
    \/ Respond
    \/ Exit
    \/ Resolve

Spec == Init /\ [][Next]_vars

-------------------------------------------------------------------------------
Asked(what) == step = "exit" /\ job.ask = what

Documented == [none |-> 0, Validation |-> 2, Transport |-> 3, Serial |-> 3, Timeout |-> 4,
               Protocol |-> 5, Device |-> 6]

\* The frame decoder's complaint is the one whose class does not survive.
SpoiltFrame == job.fate = "frame" /\ cause.is = "Protocol"

\* The exit status tells the user what went wrong first, the same for both
\* tools (docs/cli.md, "Exit Codes"), through all the exceptions, error kinds
\* and except clauses between (transport.py exchange, daemon.py
\* error_response_for_exception, daemon_client.py _raise_error, run() of cli.py
\* and relayctl.py), with one exception: an answer in a spoilt frame, malformed
\* to the document and to the decoder, always exits as a transport failure.
ExitTellsCause ==
    Asked("command") =>
        out = IF SpoiltFrame THEN Documented["Transport"] ELSE Documented[cause.is]

\* The layers agree on what is an argument: a command refused for its arguments
\* is refused by the tool itself, before anything reached the daemon or a relay
\* (the daemon's _validate_args and the RelayClient behind it refuse nothing
\* that a tool lets through), and what is executed is what was typed, channel
\* n of the user being channel n - 1 of the board.
LayersAgree ==
    /\ cause.is = "Validation" => cause.at \in {"typed", "check"} /\ acted = Nothing
    /\ acted # Nothing =>
        LET t == job.typed
        IN  acted = IF t.cmd \in {"set", "pulse"} THEN [t EXCEPT !.a = @ - 1] ELSE t

\* The daemon opens the device its user meant: of command line, environment and
\* file the first that names a device decides, whatever the others name, and a
\* USB serial number is only followed to the one relay board that has it
\* (config.py resolve_instance_config, discovery.py select_device_by_serial).
Names(layer) == {k \in {"port", "serial"} : layer[k] # "unset"}
Deciding == IF Names(job.args) # {} \/ ~job.instance THEN job.args
            ELSE IF Names(job.env) # {} THEN job.env
            ELSE job.file
OpensNamedDevice ==
    Asked("resolve") =>
        /\ out.config.ok => /\ out.config.type \in Names(Deciding)
                            /\ out.config.value = Deciding[out.config.type]
        /\ out.port # "none" =>
            \/ out.config.type = "port" /\ out.port = out.config.value
            \/ /\ \E p \in job.ports : p.device = out.port /\ p.board
               /\ \A p \in list_relay_devices(job.ports) :
                    p.serial = out.config.value => p.device = out.port
        /\ /\ \E k \in {"port", "serial"} : Names(Deciding) = {k} /\ Given(Deciding[k])
           /\ job.instance /\ job.found /\ Given(job.file["socket"])
           /\ \A l \in {job.file, job.env, job.args} :
                 l["socket"] # "" /\ l["rest"] \notin {"", "bad"}
           => out.config.ok
        /\ Names(job.env) # {"port", "serial"} => Names(out.session) # {"port", "serial"}

\* relayctl --instance talks to the socket that the daemon of the instance
\* listens on, unless that daemon was given another one, and it can whenever
\* the daemon needed no command-line settings to start.
SameSocket ==
    Asked("resolve") /\ job.instance /\ out.config.ok =>
        /\ out.ctl.ok /\ job.args["socket"] = "unset" => out.ctl.socket = out.config.socket
        /\ job.args = Unset => out.ctl.ok
===============================================================================
