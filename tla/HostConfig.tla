----------------------------- MODULE HostConfig -----------------------------
(* How the host tools decide which device and which socket to use: the named *)
(* instances of config.py (TOML file, then environment, then command line),  *)
(* the daemon's and relayctl's use of them, the session's options, and USB   *)
(* discovery.                                                                *)
(*                                                                           *)
(* A layer maps the keys "port", "serial", "socket" and "rest" to a value,   *)
(* to "" (an empty string) or to "unset".  "rest" stands for the numeric and *)
(* Boolean settings, of which it only matters whether they coerce ("bad"     *)
(* does not).                                                                *)
EXTENDS FiniteSets

\* The keys of _ENV_FIELDS
Keys == {"port", "serial", "socket", "rest"}
Unset == [k \in Keys |-> "unset"]

\* RelayValidationError, and a resolved configuration
Refused == [ok |-> FALSE, type |-> "", value |-> "", socket |-> ""]
Resolved(type, value, socket) ==
    [ok |-> TRUE, type |-> type, value |-> value, socket |-> socket]

\* values[key] = value, after _clear_other_selector
\* Slip: the other selector stays.
Assign_KeepsOther(values, key, value) == [values EXCEPT ![key] = value]
Assign(values, key, value) ==
    LET other == CASE key = "port" -> {"serial"} [] key = "serial" -> {"port"} [] OTHER -> {}
    IN  [k \in Keys |-> IF k = key THEN value ELSE IF k \in other THEN "unset" ELSE values[k]]

\* _apply_env, and the loop over the overrides: one layer on top of the values,
\* its keys in the order of _ENV_FIELDS
ApplyLayer(values, layer) ==
    LET Apply(v, key) == IF layer[key] = "unset" THEN v ELSE Assign(v, key, layer[key])
    IN  Apply(Apply(Apply(Apply(values, "port"), "serial"), "socket"), "rest")

Given(value) == value \notin {"unset", ""}

_coerce_instance(values) ==
    IF \/ Given(values["port"]) = Given(values["serial"])
       \/ ~Given(values["socket"])
       \/ values["rest"] \in {"", "bad"}
    THEN Refused
    ELSE LET type == IF Given(values["port"]) THEN "port" ELSE "serial"
         IN  Resolved(type, values[type], values["socket"])

\* The instance's table in the file (Refused when the file or the instance is
\* missing or has unknown keys: `found' is FALSE), the environment, the overrides
resolve_instance_config(found, file, env, overrides) ==
    IF ~found THEN Refused
    ELSE _coerce_instance(ApplyLayer(ApplyLayer(file, env), overrides))

\* The daemon's config_from_args.  Without --instance only the command line counts.
config_from_args(instance, found, file, env, args) ==
    IF instance THEN resolve_instance_config(found, file, env, args)
    ELSE _coerce_instance(args)

\* The socket relayctl's _client connects to: --socket, or that of --instance
\* (argparse admits one of the two).
\* Slip: relayctl takes the socket of the file.
ctl_socket_OfFile(found, file, env) ==
    IF found /\ Given(file["socket"]) THEN [ok |-> TRUE, socket |-> file["socket"]]
    ELSE [ok |-> FALSE, socket |-> ""]

ctl_socket(found, file, env) ==
    LET c == resolve_instance_config(found, file, env, Unset)
    IN  [ok |-> c.ok, socket |-> c.socket]

\* _apply_session_overrides: options of the session subcommand on top of the
\* global ones
_apply_session_overrides(args, sub) == ApplyLayer(args, sub)

-------------------------------------------------------------------------------
(* Discovery.  A port is [device, board, product, serial]: `board' when its  *)
(* VID and PID are the relay board's, `product' "relay", "other" or "unset". *)

list_relay_devices(ports) ==
    {p \in ports : /\ p.board
                   /\ \/ p.product = "relay"
                      \/ p.product = "unset" /\ Given(p.serial)}

select_device_by_serial(ports, serial) ==
    LET matches == {p \in list_relay_devices(ports) : p.serial = serial}
    IN  IF Cardinality(matches) = 1 THEN (CHOOSE p \in matches : TRUE).device ELSE "none"

\* RelayDaemon._selected_port
_selected_port(config, ports) ==
    CASE ~config.ok -> "none"
      [] config.ok /\ config.type = "port" -> config.value
      [] OTHER -> select_device_by_serial(ports, config.value)
===============================================================================
