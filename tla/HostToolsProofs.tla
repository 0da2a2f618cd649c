--------------------------- MODULE HostToolsProofs ---------------------------
(***************************************************************************)
(* Proofs about HostTools: its safety invariants hold for every command    *)
(* with every number the user may type, and for every file, environment,   *)
(* command line and set of plugged devices.                                *)
(***************************************************************************)
EXTENDS HostTools, CborHeader, FiniteSetTheorems, SequenceTheorems, TLAPS

Exceptions == {"Validation", "Timeout", "Transport", "Protocol", "Device"}
Meant == parse(job.typed).args

-----------------------------------------------------------------------------
(* The inductive invariant, for a command ... *)

(* On its way to the board a command has met no error and done nothing.     *)
Underway ==
    step \in {"typed", "connect", "check", "daemon", "board"} =>
        raised = "none" /\ cause = NoCause /\ acted = Nothing

(* Behind argparse the arguments are what was typed, well formed.           *)
Parsed ==
    step \in {"connect", "check", "daemon", "board"} => parse(job.typed).ok /\ args = Meant

Accepted == step \in {"daemon", "board"} => client_accepts(args)

(* Who is asked, and the fates that remain possible.                        *)
Reached ==
    /\ step = "check" => /\ job.tool = "cli" => job.fate # "version"
                         /\ job.tool = "relayctl" => job.fate # "no daemon"
    /\ step = "daemon" => job.tool = "relayctl" /\ job.fate # "no daemon"
    /\ step = "board" => job.fate \in {"ok", "device", "timeout", "transport", "frame", "protocol"}

(* What the first exception is to the caller of the transport.              *)
Told(f, e) == IF e = "Serial" \/ (f = "frame" /\ e = "Protocol") THEN "Transport" ELSE e

(* From there an exception keeps its class all the way back.                *)
KeptClass ==
    /\ step = "returned" => raised = "none" /\ cause = NoCause
    /\ step \in {"raised", "responded"} =>
        /\ raised = Told(job.fate, cause.is) /\ raised \in Exceptions
        /\ cause.is \in Exceptions \cup {"Serial"}
    /\ step = "exit" => /\ out = Documented[Told(job.fate, cause.is)]
                        /\ cause.is \in Exceptions \cup {"Serial", "none"}

RefusedEarly ==
    cause.is = "Validation" => cause.at \in {"typed", "check"} /\ acted = Nothing

CommandInv ==
    /\ job \in CommandJob
    /\ step \in {"typed", "connect", "check", "daemon", "board",
                 "returned", "raised", "responded", "exit"}
    /\ Underway /\ Parsed /\ Accepted /\ Reached /\ KeptClass /\ RefusedEarly
    /\ acted \in {Nothing, Meant}

(* ... and for settings *)
ResolveInv ==
    /\ job \in ResolveJob
    /\ step \in {"resolve", "exit"}
    /\ cause = NoCause /\ acted = Nothing
    /\ step = "exit" => out = Resolution(job)

Inv == CommandInv \/ ResolveInv


-----------------------------------------------------------------------------
(* The except clauses *)

(* The first clause that catches an exception decides, when no earlier one  *)
(* does.                                                                    *)
LEMMA FirstClauseIs ==
    ASSUME NEW e, NEW clauses, NEW n \in Nat, DOMAIN clauses = 1..n,
           NEW k \in 1..n, IsA(e, clauses[k][1]),
           \A i \in 1..(k - 1) : ~IsA(e, clauses[i][1])
    PROVE  FirstClause(e, clauses) = clauses[k][2]
  <1> DEFINE hits == {i \in DOMAIN clauses : IsA(e, clauses[i][1])}
             first == CHOOSE i \in hits : \A j \in hits : i <= j
  <1>1. k \in hits /\ \A j \in hits : k <= j
    OBVIOUS
  <1>2. first \in hits /\ \A j \in hits : first <= j
    BY <1>1
  <1>3. first = k
    BY <1>1, <1>2
  <1> QED BY <1>3 DEF FirstClause

(* An exception of the daemon's worker is the same exception behind the     *)
(* socket: the kinds of error lose no class (daemon.py                      *)
(* error_response_for_exception, daemon_client.py _raise_error).            *)
LEMMA SameClassBehindTheSocket ==
    \A e \in Exceptions : _raise_error(error_response_for_exception(e)) = e
  <1> DEFINE cs == <<<<"Validation", "validation">>, <<"Timeout", "timeout">>,
                     <<"Transport", "transport">>, <<"Protocol", "protocol">>,
                     <<"Device", "device">>>>
  <1>1. DOMAIN cs = 1..5
    OBVIOUS
  <1>2. /\ cs[1] = <<"Validation", "validation">> /\ cs[2] = <<"Timeout", "timeout">>
        /\ cs[3] = <<"Transport", "transport">> /\ cs[4] = <<"Protocol", "protocol">>
        /\ cs[5] = <<"Device", "device">>
    OBVIOUS
  <1>3. \A e : error_response_for_exception(e) = FirstClause(e, cs)
    BY DEF error_response_for_exception
  <1> HIDE DEF cs
  <1>4. ASSUME NEW e, NEW k \in 1..5, IsA(e, cs[k][1]), \A i \in 1..(k - 1) : ~IsA(e, cs[i][1])
        PROVE  error_response_for_exception(e) = cs[k][2]
    BY <1>1, <1>3, <1>4, FirstClauseIs
  <1>5. error_response_for_exception("Validation") = "validation"
    BY <1>2, <1>4 DEF IsA
  <1>6. error_response_for_exception("Timeout") = "timeout"
    BY <1>2, <1>4 DEF IsA
  <1>7. error_response_for_exception("Transport") = "transport"
    BY <1>2, <1>4 DEF IsA
  <1>8. error_response_for_exception("Protocol") = "protocol"
    BY <1>2, <1>4 DEF IsA
  <1>9. error_response_for_exception("Device") = "device"
    BY <1>2, <1>4 DEF IsA
  <1> QED BY <1>5, <1>6, <1>7, <1>8, <1>9 DEF Exceptions, _raise_error

(* The except clauses of run() give every exception its documented status.  *)
LEMMA StatusIsDocumented ==
    \A e \in Exceptions \cup {"none"} : exit_status(e) = Documented[e]
  <1> DEFINE cs == <<<<"Validation", 2>>, <<"Timeout", 4>>, <<"Transport", 3>>,
                     <<"Protocol", 5>>, <<"Device", 6>>>>
  <1>1. DOMAIN cs = 1..5
    OBVIOUS
  <1>2. /\ cs[1] = <<"Validation", 2>> /\ cs[2] = <<"Timeout", 4>> /\ cs[3] = <<"Transport", 3>>
        /\ cs[4] = <<"Protocol", 5>> /\ cs[5] = <<"Device", 6>>
    OBVIOUS
  <1>3. \A e \in Exceptions : exit_status(e) = FirstClause(e, cs)
    BY DEF exit_status, Exceptions
  <1> HIDE DEF cs
  <1>4. ASSUME NEW e \in Exceptions, NEW k \in 1..5, IsA(e, cs[k][1]),
               \A i \in 1..(k - 1) : ~IsA(e, cs[i][1])
        PROVE  exit_status(e) = cs[k][2]
    BY <1>1, <1>3, <1>4, FirstClauseIs
  <1>5. exit_status("Validation") = 2
    BY <1>2, <1>4 DEF IsA, Exceptions
  <1>6. exit_status("Timeout") = 4
    BY <1>2, <1>4 DEF IsA, Exceptions
  <1>7. exit_status("Transport") = 3
    BY <1>2, <1>4 DEF IsA, Exceptions
  <1>8. exit_status("Protocol") = 5
    BY <1>2, <1>4 DEF IsA, Exceptions
  <1>9. exit_status("Device") = 6
    BY <1>2, <1>4 DEF IsA, Exceptions
  <1>10. exit_status("none") = 0
    BY DEF exit_status
  <1> QED BY <1>5, <1>6, <1>7, <1>8, <1>9, <1>10 DEF Exceptions, Documented

-----------------------------------------------------------------------------
(* The layers of checks *)

(* What a tool lets through the daemon lets through: the client's method    *)
(* accepts no argument that _validate_args refuses.                         *)
LEMMA DaemonAcceptsMore ==
    ASSUME NEW c, client_accepts(c)
    PROVE  _validate_args(c)
  BY DEF client_accepts, _validate_args

(* What the board's fate raises is never a refusal of the arguments.        *)
LEMMA FailureFacts ==
    \A f \in {"device", "timeout", "transport", "frame", "protocol", "version"} :
        /\ Failure(f) = Told(f, First[f]) /\ Failure(f) \in Exceptions
        /\ First[f] \in (Exceptions \cup {"Serial"}) \ {"Validation"}
  BY DEF Failure, First, exchange, IsA, Told, Exceptions

-----------------------------------------------------------------------------
(* The inductive invariant *)

(* A step that raises an exception of the given class keeps the command's   *)
(* part, when a refusal of the arguments comes from argparse or the client. *)
LEMMA RaiseKeeps ==
    ASSUME job \in CommandJob, job' = job, cause = NoCause,
           NEW e \in Exceptions, Raise(e),
           e # "Protocol",
           e = "Validation" => step \in {"typed", "check"} /\ acted' = Nothing,
           acted' \in {Nothing, Meant}
    PROVE  CommandInv'
  <1>1. /\ step' = "raised" /\ raised' = e /\ cause' = [is |-> e, at |-> step]
        /\ Told(job.fate, e) = e
    BY DEF Raise, Told, Exceptions
  <1>2. Meant' = Meant
    BY DEF Meant, parse
  <1> QED BY <1>1, <1>2 DEF CommandInv, Underway, Parsed, Accepted, Reached, KeptClass, RefusedEarly

(* The board's fate raises what the transport lets through of it.           *)
LEMMA FailKeeps ==
    ASSUME job \in CommandJob, job' = job, Fail(job.fate),
           job.fate \in {"device", "timeout", "transport", "frame", "protocol", "version"},
           acted' \in {Nothing, Meant}
    PROVE  CommandInv'
  <1>1. /\ step' = "raised" /\ raised' = Failure(job.fate)
        /\ cause' = [is |-> First[job.fate], at |-> step]
    BY DEF Fail
  <1>2. /\ raised' = Told(job.fate, cause'.is) /\ raised' \in Exceptions
        /\ cause'.is \in Exceptions \cup {"Serial"} /\ cause'.is # "Validation"
    BY <1>1, FailureFacts
  <1>3. Meant' = Meant
    BY DEF Meant, parse
  <1> QED BY <1>1, <1>2, <1>3 DEF CommandInv, Underway, Parsed, Accepted, Reached, KeptClass,
                                  RefusedEarly

(* argparse: the arguments are parsed, or refused before anything else.     *)
LEMMA ParseKeeps ==
    ASSUME CommandInv, ParseArguments
    PROVE  CommandInv'
  <1>1. /\ job \in CommandJob /\ job' = job /\ acted' = acted /\ step = "typed" /\ cause = NoCause
        /\ raised = "none" /\ acted = Nothing
    BY DEF CommandInv, Underway, ParseArguments
  <1>2. Meant' = Meant
    BY <1>1 DEF Meant
  <1>3. CASE ~parse(job.typed).ok
    <2>1. Raise("Validation")
      BY <1>3 DEF ParseArguments
    <2> QED BY <1>1, <2>1, RaiseKeeps DEF Exceptions
  <1>4. CASE parse(job.typed).ok
    <2>1. step' = "connect" /\ raised' = raised /\ cause' = cause /\ args' = Meant
      BY <1>4 DEF ParseArguments, Goto, Meant
    <2>2. RefusedEarly'
      BY <1>1, <2>1 DEF RefusedEarly, NoCause
    <2> QED BY <1>1, <1>2, <1>4, <2>1, <2>2
            DEF CommandInv, Underway, Parsed, Accepted, Reached, KeptClass
  <1> QED BY <1>3, <1>4

(* The tool that drives the board itself: ready, or the board failed it.    *)
LEMMA ReadyKeeps ==
    ASSUME CommandInv, ReadyClient
    PROVE  CommandInv'
  <1>1. /\ job \in CommandJob /\ job' = job /\ args' = args /\ acted' = acted
        /\ step = "connect" /\ cause = NoCause /\ raised = "none" /\ acted = Nothing
        /\ parse(job.typed).ok /\ args = Meant /\ job.tool = "cli"
    BY DEF CommandInv, Underway, Parsed, ReadyClient
  <1>2. Meant' = Meant
    BY <1>1 DEF Meant
  <1>3. CASE job.fate # "version" /\ Goto("check")
    <2>1. step' = "check" /\ raised' = raised /\ cause' = cause
      BY <1>3 DEF Goto
    <2>2. RefusedEarly'
      BY <1>1, <2>1 DEF RefusedEarly, NoCause
    <2> QED BY <1>1, <1>2, <1>3, <2>1, <2>2
            DEF CommandInv, Underway, Parsed, Accepted, Reached, KeptClass
  <1>4. CASE /\ job.fate \in {"timeout", "transport", "frame", "protocol", "version"}
             /\ Fail(job.fate)
    BY <1>1, <1>4, FailKeeps
  <1> QED BY <1>3, <1>4 DEF ReadyClient

(* relayctl: a daemon is connected, or there is none.                       *)
LEMMA ConnectKeeps ==
    ASSUME CommandInv, ConnectDaemon
    PROVE  CommandInv'
  <1>1. /\ job \in CommandJob /\ job' = job /\ args' = args /\ acted' = acted
        /\ step = "connect" /\ cause = NoCause /\ raised = "none" /\ acted = Nothing
        /\ parse(job.typed).ok /\ args = Meant /\ job.tool = "relayctl"
    BY DEF CommandInv, Underway, Parsed, ConnectDaemon
  <1>2. Meant' = Meant
    BY <1>1 DEF Meant
  <1>3. CASE job.fate = "no daemon"
    <2>1. Raise("Transport")
      BY <1>3 DEF ConnectDaemon
    <2> QED BY <1>1, <2>1, RaiseKeeps DEF Exceptions
  <1>4. CASE job.fate # "no daemon"
    <2>1. step' = "check" /\ raised' = raised /\ cause' = cause
      BY <1>4 DEF ConnectDaemon, Goto
    <2>2. RefusedEarly'
      BY <1>1, <2>1 DEF RefusedEarly, NoCause
    <2> QED BY <1>1, <1>2, <1>4, <2>1, <2>2
            DEF CommandInv, Underway, Parsed, Accepted, Reached, KeptClass
  <1> QED BY <1>3, <1>4

(* The client's method sends on what it accepts.                            *)
LEMMA CheckKeeps ==
    ASSUME CommandInv, CheckArguments
    PROVE  CommandInv'
  <1>1. /\ job \in CommandJob /\ job' = job /\ args' = args /\ acted' = acted
        /\ step = "check" /\ cause = NoCause /\ raised = "none" /\ acted = Nothing
        /\ parse(job.typed).ok /\ args = Meant
        /\ job.tool = "cli" => job.fate # "version"
        /\ job.tool = "relayctl" => job.fate # "no daemon"
    BY DEF CommandInv, Underway, Parsed, Reached, CheckArguments
  <1>2. Meant' = Meant
    BY <1>1 DEF Meant
  <1>3. CASE ~client_accepts(args)
    <2>1. Raise("Validation")
      BY <1>3 DEF CheckArguments
    <2> QED BY <1>1, <2>1, RaiseKeeps DEF Exceptions
  <1>4. CASE client_accepts(args)
    <2>1. /\ step' = (IF job.tool = "cli" THEN "board" ELSE "daemon")
          /\ raised' = raised /\ cause' = cause
      BY <1>4 DEF CheckArguments, Goto
    <2>2. RefusedEarly'
      BY <1>1, <2>1 DEF RefusedEarly, NoCause
    <2>3. client_accepts(args)'
      BY <1>1, <1>4 DEF client_accepts
    <2>4. job.tool \in {"cli", "relayctl"} /\ job.fate \in Fates
          /\ (job.fate = "no daemon" => job.tool = "relayctl")
      BY <1>1 DEF CommandJob
    <2>5. Reached'
      BY <1>1, <2>1, <2>4 DEF Reached, Fates
    <2> QED BY <1>1, <1>2, <2>1, <2>2, <2>3, <2>5
            DEF CommandInv, Underway, Parsed, Accepted, KeptClass
  <1> QED BY <1>3, <1>4

(* The daemon refuses nothing; it hands the request to the board, finds it  *)
(* disconnected, or relayctl has given up.                                  *)
LEMMA DaemonKeeps ==
    ASSUME CommandInv, DaemonRequest
    PROVE  CommandInv'
  <1>1. /\ job \in CommandJob /\ job' = job /\ args' = args
        /\ step = "daemon" /\ cause = NoCause /\ raised = "none" /\ acted = Nothing
        /\ parse(job.typed).ok /\ args = Meant /\ client_accepts(args)
        /\ job.tool = "relayctl" /\ job.fate # "no daemon"
    BY DEF CommandInv, Underway, Parsed, Accepted, Reached, DaemonRequest
  <1>2. Meant' = Meant
    BY <1>1 DEF Meant
  <1>3. _validate_args(args)
    BY <1>1, DaemonAcceptsMore
  <1>4. CASE job.fate = "version" /\ acted' = acted /\ Raise("Transport")
    BY <1>1, <1>4, RaiseKeeps DEF Exceptions
  <1>5. CASE job.fate # "version" /\ acted' = acted /\ Goto("board")
    <2>1. step' = "board" /\ raised' = raised /\ cause' = cause
      BY <1>5 DEF Goto
    <2>2. RefusedEarly'
      BY <1>1, <1>5, <2>1 DEF RefusedEarly, NoCause
    <2>3. client_accepts(args)'
      BY <1>1 DEF client_accepts
    <2>4. job.fate \in Fates
      BY <1>1 DEF CommandJob
    <2>5. Reached'
      BY <1>1, <1>5, <2>1, <2>4 DEF Reached, Fates
    <2> QED BY <1>1, <1>2, <1>5, <2>1, <2>2, <2>3, <2>5
            DEF CommandInv, Underway, Parsed, Accepted, KeptClass
  <1>6. CASE /\ step' = "responded" /\ raised' = "Timeout"
             /\ cause' = [is |-> "Timeout", at |-> "relayctl"]
             /\ acted' \in {Nothing, args}
    BY <1>1, <1>2, <1>6 DEF CommandInv, Underway, Parsed, Accepted, Reached, KeptClass,
                            RefusedEarly, Exceptions, Told
  <1> QED BY <1>1, <1>3, <1>4, <1>5, <1>6 DEF DaemonRequest

(* The board executes what was typed, or the request fails with its class.  *)
LEMMA BoardKeeps ==
    ASSUME CommandInv, Board
    PROVE  CommandInv'
  <1>1. /\ job \in CommandJob /\ job' = job /\ args' = args
        /\ step = "board" /\ cause = NoCause /\ raised = "none" /\ args = Meant
        /\ job.fate \in {"ok", "device", "timeout", "transport", "frame", "protocol"}
    BY DEF CommandInv, Underway, Parsed, Reached, Board
  <1>2. Meant' = Meant
    BY <1>1 DEF Meant
  <1>3. acted' \in {Nothing, Meant}
    BY <1>1 DEF Board
  <1>4. CASE job.fate = "ok"
    <2>1. step' = "returned" /\ raised' = raised /\ cause' = cause
      BY <1>4 DEF Board, Goto
    <2>2. RefusedEarly'
      BY <1>1, <2>1 DEF RefusedEarly, NoCause
    <2> QED BY <1>1, <1>2, <1>3, <2>1, <2>2
            DEF CommandInv, Underway, Parsed, Accepted, Reached, KeptClass
  <1>5. CASE job.fate # "ok"
    <2>1. Fail(job.fate)
      BY <1>5 DEF Board
    <2> QED BY <1>1, <1>3, <1>5, <2>1, FailKeeps
  <1> QED BY <1>4, <1>5

(* The exception crosses the socket with its class.                         *)
LEMMA RespondKeeps ==
    ASSUME CommandInv, Respond
    PROVE  CommandInv'
  <1>1. /\ job' = job /\ acted' = acted /\ cause' = cause /\ step' = "responded"
        /\ raised = Told(job.fate, cause.is) /\ raised \in Exceptions
        /\ cause.is \in Exceptions \cup {"Serial"}
    BY DEF CommandInv, KeptClass, Respond
  <1>2. raised' = raised
    BY <1>1, SameClassBehindTheSocket DEF Respond
  <1>3. Meant' = Meant
    BY <1>1 DEF Meant
  <1> QED BY <1>1, <1>2, <1>3 DEF CommandInv, Underway, Parsed, Accepted, Reached, KeptClass,
                                  RefusedEarly

(* The status is that of the exception that left the transport.             *)
LEMMA ExitKeeps ==
    ASSUME CommandInv, Exit
    PROVE  CommandInv'
  <1>1. /\ job' = job /\ acted' = acted /\ cause' = cause /\ step' = "exit"
        /\ out' = exit_status(raised)
    BY DEF Exit
  <1>2. /\ cause.is \in Exceptions \cup {"Serial", "none"}
        /\ raised \in Exceptions \cup {"none"} /\ raised = Told(job.fate, cause.is)
    BY DEF CommandInv, KeptClass, Exit, NoCause, Told
  <1>3. out' = Documented[Told(job.fate, cause.is)]
    BY <1>1, <1>2, StatusIsDocumented
  <1>4. Meant' = Meant
    BY <1>1 DEF Meant
  <1>5. KeptClass'
    BY <1>1, <1>2, <1>3 DEF KeptClass
  <1> QED BY <1>1, <1>4, <1>5 DEF CommandInv, Underway, Parsed, Accepted, Reached, RefusedEarly

(* A question that was just asked satisfies its part.                       *)
LEMMA InitInv == Init => Inv
  <1>1. ASSUME NEW j \in CommandJobs, Start(j, "typed") PROVE CommandInv
    <2>1. /\ job \in CommandJob /\ step = "typed" /\ raised = "none" /\ cause = NoCause
          /\ acted = Nothing
      BY <1>1, HostToolsAssumption DEF Start
    <2> QED BY <2>1 DEF CommandInv, Underway, Parsed, Accepted, Reached, KeptClass,
                        RefusedEarly, NoCause
  <1>2. ASSUME NEW j \in ResolveJobs, Start(j, "resolve") PROVE ResolveInv
    BY <1>2, HostToolsAssumption DEF Start, ResolveInv
  <1> QED BY <1>1, <1>2 DEF Init, Inv

(* Every step keeps the invariant, one lemma per action.                    *)
LEMMA NextInv == Inv /\ [Next]_vars => Inv'
  <1>1. ASSUME CommandInv, Next PROVE CommandInv'
    <2>1. step # "resolve"
      BY <1>1 DEF CommandInv
    <2> QED BY <1>1, <2>1, ParseKeeps, ReadyKeeps, ConnectKeeps, CheckKeeps, DaemonKeeps,
               BoardKeeps, RespondKeeps, ExitKeeps DEF Next, Resolve
  <1>2. ASSUME ResolveInv, Next PROVE ResolveInv'
    <2>1. Resolve
      BY <1>2 DEF ResolveInv, Next, ParseArguments, ReadyClient, ConnectDaemon, CheckArguments,
                  DaemonRequest, Board, Respond, Exit
    <2> QED BY <1>2, <2>1 DEF ResolveInv, Resolve
  <1>3. ASSUME Inv, UNCHANGED vars PROVE Inv'
    <2>1. /\ job' = job /\ step' = step /\ args' = args /\ raised' = raised /\ cause' = cause
          /\ acted' = acted /\ out' = out
      BY <1>3 DEF vars
    <2> QED BY <1>3, <2>1 DEF Inv, CommandInv, ResolveInv, Underway, Parsed, Accepted, Reached,
                              KeptClass, RefusedEarly, Meant, client_accepts
  <1> QED BY <1>1, <1>2, <1>3 DEF Inv

(* The inductive invariant of HostTools.                                    *)
THEOREM Inductive == Spec => []Inv
  BY InitInv, NextInv, PTL DEF Spec

(* ExitTellsCause: both tools exit with the documented status of the first  *)
(* error, or with 0, for every command, argument and fate of the request;   *)
(* but for a spoilt frame with that of a transport failure.                 *)
THEOREM ExitTellsCauseHolds == Spec => []ExitTellsCause
  <1>1. ResolveInv => job.ask = "resolve"
    BY DEF ResolveInv, ResolveJob
  <1>2. CommandInv => ExitTellsCause
    <2> SUFFICES ASSUME CommandInv, step = "exit"
                 PROVE  out = IF SpoiltFrame THEN Documented["Transport"] ELSE Documented[cause.is]
      BY DEF ExitTellsCause, Asked
    <2>1. out = Documented[Told(job.fate, cause.is)]
      BY DEF CommandInv, KeptClass
    <2>2. Documented["Serial"] = Documented["Transport"]
      BY DEF Documented
    <2> QED BY <2>1, <2>2 DEF Told, SpoiltFrame
  <1>3. Inv => ExitTellsCause
    BY <1>1, <1>2 DEF Inv, ExitTellsCause, Asked
  <1> QED BY <1>3, Inductive, PTL

(* LayersAgree: for every number the user may type, an argument is refused  *)
(* by the tool before anything is asked of the daemon or the board, or by   *)
(* no layer, and what the board executes is what was typed.                 *)
THEOREM LayersAgreeHolds == Spec => []LayersAgree
  <1>1. CommandInv => LayersAgree
    BY DEF CommandInv, RefusedEarly, LayersAgree, Meant, parse
  <1>2. ResolveInv => LayersAgree
    BY DEF ResolveInv, LayersAgree, NoCause
  <1> QED BY <1>1, <1>2, Inductive, PTL DEF Inv

-----------------------------------------------------------------------------
(* Settings *)

(* Key k of a layer after key was set to x *)
Rivals(k, key) == (k = "port" /\ key = "serial") \/ (k = "serial" /\ key = "port")
SetTo(u, key, x, k) == IF k = key THEN x ELSE IF Rivals(k, key) THEN "unset" ELSE u[k]

(* Setting one selector clears the other, and nothing else changes.         *)
LEMMA AssignFacts ==
    ASSUME NEW u, NEW key \in Keys, NEW x
    PROVE  \A k \in Keys : Assign(u, key, x)[k] = SetTo(u, key, x, k)
  <1> DEFINE other == CASE key = "port" -> {"serial"} [] key = "serial" -> {"port"} [] OTHER -> {}
  <1>1. \A k \in Keys : (k # key /\ k \in other) <=> (k # key /\ Rivals(k, key))
    BY DEF Keys, Rivals
  <1>2. Assign(u, key, x) =
            [k \in Keys |-> IF k = key THEN x ELSE IF k \in other THEN "unset" ELSE u[k]]
    BY DEF Assign
  <1> HIDE DEF other
  <1> QED BY <1>1, <1>2 DEF SetTo

(* A layer of settings on top of others: a selector of the layer replaces   *)
(* both selectors below it, and its serial number wins over its port.       *)
LEMMA ApplyLayerFacts ==
    ASSUME NEW v, NEW l
    PROVE  LET r == ApplyLayer(v, l) IN
           /\ r["port"] = IF l["serial"] # "unset" THEN "unset"
                          ELSE IF l["port"] # "unset" THEN l["port"] ELSE v["port"]
           /\ r["serial"] = IF l["serial"] # "unset" THEN l["serial"]
                            ELSE IF l["port"] # "unset" THEN "unset" ELSE v["serial"]
           /\ r["socket"] = IF l["socket"] # "unset" THEN l["socket"] ELSE v["socket"]
           /\ r["rest"] = IF l["rest"] # "unset" THEN l["rest"] ELSE v["rest"]
  <1> DEFINE Apply(u, key) == IF l[key] = "unset" THEN u ELSE Assign(u, key, l[key])
             v1 == Apply(v, "port")
             v2 == Apply(v1, "serial")
             v3 == Apply(v2, "socket")
             v4 == Apply(v3, "rest")
  <1>1. ApplyLayer(v, l) = v4
    BY DEF ApplyLayer
  <1>2. ASSUME NEW u, NEW key \in Keys
        PROVE  \A k \in Keys : Apply(u, key)[k] =
                   IF l[key] = "unset" THEN u[k] ELSE SetTo(u, key, l[key], k)
    <2>1. CASE l[key] = "unset"
      <3>1. Apply(u, key) = u
        BY <2>1
      <3> QED BY <2>1, <3>1
    <2>2. CASE l[key] # "unset"
      <3>1. Apply(u, key) = Assign(u, key, l[key])
        BY <2>2
      <3>2. \A k \in Keys : Assign(u, key, l[key])[k] = SetTo(u, key, l[key], k)
        BY <1>2, AssignFacts
      <3> HIDE DEF Apply
      <3> QED BY <2>2, <3>1, <3>2
    <2> QED BY <2>1, <2>2
  <1> HIDE DEF Apply
  <1>3. /\ v1["port"] = IF l["port"] # "unset" THEN l["port"] ELSE v["port"]
        /\ v1["serial"] = IF l["port"] # "unset" THEN "unset" ELSE v["serial"]
        /\ v1["socket"] = v["socket"] /\ v1["rest"] = v["rest"]
    BY <1>2 DEF Keys, SetTo, Rivals
  <1>4. /\ v2["port"] = IF l["serial"] # "unset" THEN "unset" ELSE v1["port"]
        /\ v2["serial"] = IF l["serial"] # "unset" THEN l["serial"] ELSE v1["serial"]
        /\ v2["socket"] = v1["socket"] /\ v2["rest"] = v1["rest"]
    BY <1>2 DEF Keys, SetTo, Rivals
  <1>5. /\ v3["port"] = v2["port"] /\ v3["serial"] = v2["serial"] /\ v3["rest"] = v2["rest"]
        /\ v3["socket"] = IF l["socket"] # "unset" THEN l["socket"] ELSE v2["socket"]
    BY <1>2 DEF Keys, SetTo, Rivals
  <1>6. /\ v4["port"] = v3["port"] /\ v4["serial"] = v3["serial"] /\ v4["socket"] = v3["socket"]
        /\ v4["rest"] = IF l["rest"] # "unset" THEN l["rest"] ELSE v3["rest"]
    BY <1>2 DEF Keys, SetTo, Rivals
  <1> HIDE DEF v1, v2, v3, v4
  <1> QED BY <1>1, <1>3, <1>4, <1>5, <1>6

(* What a configuration that resolves consists of.                          *)
LEMMA CoerceFacts ==
    ASSUME NEW v
    PROVE  LET c == _coerce_instance(v) IN
           /\ c.ok <=> /\ Given(v["port"]) # Given(v["serial"])
                       /\ Given(v["socket"]) /\ v["rest"] \notin {"", "bad"}
           /\ c.ok => /\ c.type \in {"port", "serial"} /\ Given(v[c.type])
                      /\ c.value = v[c.type] /\ c.socket = v["socket"]
  BY DEF _coerce_instance, Refused, Resolved, Given

(* A serial number is followed to the one relay board that has it.          *)
LEMMA SerialFacts ==
    ASSUME NEW ports, IsFiniteSet(ports), NEW serial,
           select_device_by_serial(ports, serial) # "none"
    PROVE  /\ \E p \in ports : p.device = select_device_by_serial(ports, serial) /\ p.board
           /\ \A p \in list_relay_devices(ports) :
                p.serial = serial => p.device = select_device_by_serial(ports, serial)
  <1> DEFINE matches == {p \in list_relay_devices(ports) : p.serial = serial}
  <1>1. matches \in SUBSET ports /\ \A p \in matches : p.board
    BY DEF list_relay_devices
  <1>2. IsFiniteSet(matches)
    BY <1>1, FS_Subset
  <1>3. Cardinality(matches) = 1
    BY DEF select_device_by_serial
  <1>4. PICK x : matches = {x}
    BY <1>2, <1>3, FS_Singleton
  <1>5. select_device_by_serial(ports, serial) = x.device
    BY <1>3, <1>4 DEF select_device_by_serial
  <1>6. \A p \in list_relay_devices(ports) : p.serial = serial => p = x
    BY <1>4
  <1> HIDE DEF matches
  <1> QED BY <1>1, <1>4, <1>5, <1>6

(* The values an instance resolves to.                                      *)
Merged(j) == ApplyLayer(ApplyLayer(j.file, j.env), j.args)

(* What the daemon resolves: the command line alone, or the merged layers.  *)
LEMMA ConfigFacts ==
    ASSUME NEW j
    PROVE  LET c == Resolution(j).config
               v == IF j.instance THEN Merged(j) ELSE j.args
           IN  /\ c.ok => /\ j.instance => j.found
                          /\ c.type \in {"port", "serial"} /\ Given(v[c.type])
                          /\ c.value = v[c.type] /\ c.socket = v["socket"]
               /\ c.ok <=> /\ j.instance => j.found
                           /\ Given(v["port"]) # Given(v["serial"])
                           /\ Given(v["socket"]) /\ v["rest"] \notin {"", "bad"}
  <1> DEFINE v == IF j.instance THEN Merged(j) ELSE j.args
             c == Resolution(j).config
  <1>1. c = IF j.instance /\ ~j.found THEN Refused ELSE _coerce_instance(v)
    BY DEF Resolution, config_from_args, resolve_instance_config, Merged
  <1>2. /\ _coerce_instance(v).ok <=> /\ Given(v["port"]) # Given(v["serial"])
                                      /\ Given(v["socket"]) /\ v["rest"] \notin {"", "bad"}
        /\ _coerce_instance(v).ok =>
              /\ _coerce_instance(v).type \in {"port", "serial"}
              /\ Given(v[_coerce_instance(v).type])
              /\ _coerce_instance(v).value = v[_coerce_instance(v).type]
              /\ _coerce_instance(v).socket = v["socket"]
    BY CoerceFacts
  <1> HIDE DEF c, v
  <1>3. CASE j.instance /\ ~j.found
    <2>1. ~c.ok
      BY <1>1, <1>3 DEF Refused
    <2> QED BY <1>3, <2>1 DEF c, v
  <1>4. CASE ~(j.instance /\ ~j.found)
    <2>1. c = _coerce_instance(v)
      BY <1>1, <1>4
    <2>2. c.ok => /\ c.type \in {"port", "serial"} /\ Given(v[c.type])
                  /\ c.value = v[c.type] /\ c.socket = v["socket"]
      BY <1>2, <2>1
    <2>3. c.ok <=> /\ Given(v["port"]) # Given(v["serial"])
                   /\ Given(v["socket"]) /\ v["rest"] \notin {"", "bad"}
      BY <1>2, <2>1
    <2> QED BY <1>4, <2>2, <2>3 DEF c, v
  <1> QED BY <1>3, <1>4

(* The layer that decides which device the question j means.                *)
DecidingOf(j) == IF Names(j.args) # {} \/ ~j.instance THEN j.args
                 ELSE IF Names(j.env) # {} THEN j.env
                 ELSE j.file

(* The merged selectors are those of the deciding layer, of which a serial  *)
(* number hides a port when the layer sits on top of another.               *)
LEMMA MergedSelectors ==
    ASSUME NEW j, j.instance
    PROVE  LET v == Merged(j)
               d == DecidingOf(j)
           IN  \/ v["port"] = d["port"] /\ v["serial"] = d["serial"]
               \/ /\ d["serial"] # "unset"
                  /\ v["port"] = "unset" /\ v["serial"] = d["serial"]
               \/ /\ d["serial"] = "unset" /\ d["port"] # "unset"
                  /\ v["port"] = d["port"] /\ v["serial"] = "unset"
  <1> DEFINE w == ApplyLayer(j.file, j.env)
             v == ApplyLayer(w, j.args)
  <1>1. /\ w["port"] = IF j.env["serial"] # "unset" THEN "unset"
                       ELSE IF j.env["port"] # "unset" THEN j.env["port"] ELSE j.file["port"]
        /\ w["serial"] = IF j.env["serial"] # "unset" THEN j.env["serial"]
                         ELSE IF j.env["port"] # "unset" THEN "unset" ELSE j.file["serial"]
    BY ApplyLayerFacts
  <1> HIDE DEF w
  <1>2. /\ v["port"] = IF j.args["serial"] # "unset" THEN "unset"
                       ELSE IF j.args["port"] # "unset" THEN j.args["port"] ELSE w["port"]
        /\ v["serial"] = IF j.args["serial"] # "unset" THEN j.args["serial"]
                         ELSE IF j.args["port"] # "unset" THEN "unset" ELSE w["serial"]
    BY ApplyLayerFacts
  <1> HIDE DEF v
  <1>3. Merged(j) = v
    BY DEF Merged, v, w
  <1>4. \A l : Names(l) # {} <=> (l["port"] # "unset" \/ l["serial"] # "unset")
    BY DEF Names
  <1>5. CASE Names(j.args) # {}
    <2>1. DecidingOf(j) = j.args /\ (j.args["port"] # "unset" \/ j.args["serial"] # "unset")
      BY <1>4, <1>5 DEF DecidingOf
    <2> QED BY <1>2, <1>3, <2>1
  <1>6. CASE Names(j.args) = {} /\ Names(j.env) # {}
    <2>1. /\ DecidingOf(j) = j.env /\ (j.env["port"] # "unset" \/ j.env["serial"] # "unset")
          /\ j.args["port"] = "unset" /\ j.args["serial"] = "unset"
      BY <1>4, <1>6 DEF DecidingOf
    <2> QED BY <1>1, <1>2, <1>3, <2>1
  <1>7. CASE Names(j.args) = {} /\ Names(j.env) = {}
    <2>1. /\ DecidingOf(j) = j.file /\ j.env["port"] = "unset" /\ j.env["serial"] = "unset"
          /\ j.args["port"] = "unset" /\ j.args["serial"] = "unset"
      BY <1>4, <1>7 DEF DecidingOf
    <2> QED BY <1>1, <1>2, <1>3, <2>1
  <1> QED BY <1>5, <1>6, <1>7

(* The socket and the other settings, merged.                               *)
LEMMA MergedSettings ==
    ASSUME NEW j, NEW k \in {"socket", "rest"}
    PROVE  Merged(j)[k] = IF j.args[k] # "unset" THEN j.args[k]
                          ELSE IF j.env[k] # "unset" THEN j.env[k] ELSE j.file[k]
  <1> DEFINE w == ApplyLayer(j.file, j.env)
             v == ApplyLayer(w, j.args)
  <1>1. /\ w["socket"] = IF j.env["socket"] # "unset" THEN j.env["socket"] ELSE j.file["socket"]
        /\ w["rest"] = IF j.env["rest"] # "unset" THEN j.env["rest"] ELSE j.file["rest"]
    BY ApplyLayerFacts
  <1> HIDE DEF w
  <1>2. /\ v["socket"] = IF j.args["socket"] # "unset" THEN j.args["socket"] ELSE w["socket"]
        /\ v["rest"] = IF j.args["rest"] # "unset" THEN j.args["rest"] ELSE w["rest"]
    BY ApplyLayerFacts
  <1> HIDE DEF v
  <1>3. Merged(j) = v
    BY DEF Merged, v, w
  <1> QED BY <1>1, <1>2, <1>3

(* The device a resolution chooses is of the deciding layer.                *)
LEMMA ChosenIsNamed ==
    ASSUME NEW j, Resolution(j).config.ok
    PROVE  LET c == Resolution(j).config
           IN  c.type \in Names(DecidingOf(j)) /\ c.value = DecidingOf(j)[c.type]
  <1> DEFINE c == Resolution(j).config
             v == IF j.instance THEN Merged(j) ELSE j.args
             d == DecidingOf(j)
  <1>1. c.type \in {"port", "serial"} /\ Given(v[c.type]) /\ c.value = v[c.type]
    BY ConfigFacts
  <1>2. v[c.type] # "unset"
    BY <1>1 DEF Given
  <1>3. v[c.type] = d[c.type]
    <2>1. CASE j.instance
      <3>1. v = Merged(j)
        BY <2>1
      <3>2. \/ v["port"] = d["port"] /\ v["serial"] = d["serial"]
            \/ d["serial"] # "unset" /\ v["port"] = "unset" /\ v["serial"] = d["serial"]
            \/ v["port"] = d["port"] /\ v["serial"] = "unset"
        BY <2>1, <3>1, MergedSelectors
      <3> HIDE DEF c, v, d
      <3> QED BY <1>1, <1>2, <3>2
    <2>2. CASE ~j.instance
      BY <2>2 DEF DecidingOf
    <2> QED BY <2>1, <2>2
  <1> HIDE DEF c, v, d
  <1>4. c.type \in Names(d) /\ c.value = d[c.type]
    BY <1>1, <1>2, <1>3 DEF Names
  <1> QED BY <1>4 DEF c, d

(* The port a resolution opens is the one given, or that of the one board.  *)
LEMMA OpenedIsTheOne ==
    ASSUME NEW j, IsFiniteSet(j.ports), Resolution(j).port # "none"
    PROVE  LET r == Resolution(j)
           IN  \/ r.config.type = "port" /\ r.port = r.config.value
               \/ /\ \E p \in j.ports : p.device = r.port /\ p.board
                  /\ \A p \in list_relay_devices(j.ports) :
                        p.serial = r.config.value => p.device = r.port
  <1> DEFINE c == Resolution(j).config
             port == Resolution(j).port
  <1>1. port = _selected_port(c, j.ports)
    BY DEF Resolution
  <1> HIDE DEF c, port
  <1>2. c.ok
    BY <1>1 DEF _selected_port, port
  <1>3. CASE c.type = "port"
    <2>1. port = c.value
      BY <1>1, <1>2, <1>3 DEF _selected_port
    <2> QED BY <1>3, <2>1 DEF c, port
  <1>4. CASE c.type # "port"
    <2>1. port = select_device_by_serial(j.ports, c.value)
      BY <1>1, <1>2, <1>4 DEF _selected_port
    <2>2. /\ \E p \in j.ports : p.device = port /\ p.board
          /\ \A p \in list_relay_devices(j.ports) : p.serial = c.value => p.device = port
      BY <2>1, SerialFacts DEF port
    <2> QED BY <2>2 DEF c, port
  <1> QED BY <1>3, <1>4

(* An instance with one selector in the deciding layer, a socket and no     *)
(* setting that does not coerce resolves.                                   *)
LEMMA NamedResolves ==
    ASSUME NEW j, NEW k \in {"port", "serial"},
           Names(DecidingOf(j)) = {k}, Given(DecidingOf(j)[k]),
           j.instance, j.found, Given(j.file["socket"]),
           \A l \in {j.file, j.env, j.args} : l["socket"] # "" /\ l["rest"] \notin {"", "bad"}
    PROVE  Resolution(j).config.ok
  <1> DEFINE v == Merged(j)
             d == DecidingOf(j)
  <1>1. \A x \in {"port", "serial"} : x # k => d[x] = "unset"
    BY DEF Names
  <1>2. Given(v["port"]) # Given(v["serial"])
    <2>1. \/ v["port"] = d["port"] /\ v["serial"] = d["serial"]
          \/ d["serial"] # "unset" /\ v["port"] = "unset" /\ v["serial"] = d["serial"]
          \/ /\ d["serial"] = "unset" /\ d["port"] # "unset"
             /\ v["port"] = d["port"] /\ v["serial"] = "unset"
      BY MergedSelectors
    <2> HIDE DEF v, d
    <2>2. Given(d[k]) /\ d[k] # "unset"
      BY DEF Given, d
    <2> QED BY <1>1, <2>1, <2>2 DEF Given
  <1>3. Given(v["socket"])
    <2>1. v["socket"] = IF j.args["socket"] # "unset" THEN j.args["socket"]
                        ELSE IF j.env["socket"] # "unset" THEN j.env["socket"] ELSE j.file["socket"]
      BY MergedSettings
    <2> HIDE DEF v
    <2> QED BY <2>1 DEF Given
  <1>4. v["rest"] \notin {"", "bad"}
    <2>1. v["rest"] = IF j.args["rest"] # "unset" THEN j.args["rest"]
                      ELSE IF j.env["rest"] # "unset" THEN j.env["rest"] ELSE j.file["rest"]
      BY MergedSettings
    <2> HIDE DEF v
    <2> QED BY <2>1
  <1> QED BY <1>2, <1>3, <1>4, ConfigFacts

(* The options of a session name one device, unless its environment named   *)
(* two.                                                                     *)
LEMMA SessionNamesOne ==
    ASSUME NEW j, Names(j.env) # {"port", "serial"}
    PROVE  Names(Resolution(j).session) # {"port", "serial"}
  <1> DEFINE r == ApplyLayer(j.env, j.args)
  <1>1. /\ r["port"] = IF j.args["serial"] # "unset" THEN "unset"
                       ELSE IF j.args["port"] # "unset" THEN j.args["port"] ELSE j.env["port"]
        /\ r["serial"] = IF j.args["serial"] # "unset" THEN j.args["serial"]
                         ELSE IF j.args["port"] # "unset" THEN "unset" ELSE j.env["serial"]
    BY ApplyLayerFacts
  <1>2. Resolution(j).session = r
    BY DEF Resolution, _apply_session_overrides
  <1> HIDE DEF r
  <1>3. \A l : Names(l) = {"port", "serial"} <=> (l["port"] # "unset" /\ l["serial"] # "unset")
    BY DEF Names
  <1> QED BY <1>1, <1>2, <1>3

(* OpensNamedDevice: whatever the file, the environment, the command line   *)
(* and the plugged devices are, the daemon opens the device that the        *)
(* topmost of them to name one names, a serial number is followed only to   *)
(* the one board that has it, and a well-formed choice is not refused.      *)
THEOREM OpensNamedDeviceHolds == Spec => []OpensNamedDevice
  <1>1. CommandInv => OpensNamedDevice
    <2>1. CommandInv => job.ask = "command"
      BY DEF CommandInv, CommandJob
    <2> QED BY <2>1 DEF OpensNamedDevice, Asked
  <1>2. ASSUME ResolveInv, step = "exit" PROVE OpensNamedDevice
    <2>1. out = Resolution(job) /\ IsFiniteSet(job.ports)
      BY <1>2 DEF ResolveInv, ResolveJob
    <2>2. Deciding = DecidingOf(job)
      BY DEF Deciding, DecidingOf
    <2>3. out.config.ok => /\ out.config.type \in Names(Deciding)
                           /\ out.config.value = Deciding[out.config.type]
      BY <2>1, <2>2, ChosenIsNamed
    <2>4. out.port # "none" =>
            \/ out.config.type = "port" /\ out.port = out.config.value
            \/ /\ \E p \in job.ports : p.device = out.port /\ p.board
               /\ \A p \in list_relay_devices(job.ports) :
                    p.serial = out.config.value => p.device = out.port
      BY <2>1, OpenedIsTheOne
    <2>5. /\ \E k \in {"port", "serial"} : Names(Deciding) = {k} /\ Given(Deciding[k])
          /\ job.instance /\ job.found /\ Given(job.file["socket"])
          /\ \A l \in {job.file, job.env, job.args} :
                l["socket"] # "" /\ l["rest"] \notin {"", "bad"}
          => out.config.ok
      BY <2>1, <2>2, NamedResolves
    <2>6. Names(job.env) # {"port", "serial"} => Names(out.session) # {"port", "serial"}
      BY <2>1, SessionNamesOne
    <2> QED BY <2>3, <2>4, <2>5, <2>6 DEF OpensNamedDevice
  <1>3. step # "exit" => OpensNamedDevice
    BY DEF OpensNamedDevice, Asked
  <1>4. Inv => OpensNamedDevice
    BY <1>1, <1>2, <1>3 DEF Inv
  <1> QED BY <1>4, Inductive, PTL

(* SameSocket: relayctl and the daemon of an instance meet on one socket,   *)
(* for every file and environment they share.                               *)
THEOREM SameSocketHolds == Spec => []SameSocket
  <1>1. CommandInv => SameSocket
    <2>1. CommandInv => job.ask = "command"
      BY DEF CommandInv, CommandJob
    <2> QED BY <2>1 DEF SameSocket, Asked
  <1>2. ASSUME ResolveInv, step = "exit" PROVE SameSocket
    <2> DEFINE w == ApplyLayer(job.file, job.env)
               u == ApplyLayer(w, Unset)
    <2>1. out = Resolution(job)
      BY <1>2 DEF ResolveInv
    <2> SUFFICES ASSUME job.instance, out.config.ok
                 PROVE  /\ out.ctl.ok /\ job.args["socket"] = "unset" =>
                              out.ctl.socket = out.config.socket
                        /\ job.args = Unset => out.ctl.ok
      BY DEF SameSocket
    <2>2. job.found /\ out.config.socket = Merged(job)["socket"]
      BY <2>1, ConfigFacts
    <2>3. /\ out.ctl.ok = _coerce_instance(u).ok
          /\ out.ctl.socket = _coerce_instance(u).socket
      BY <2>1, <2>2 DEF Resolution, ctl_socket, resolve_instance_config
    <2>4. out.config = _coerce_instance(Merged(job))
      BY <2>1, <2>2 DEF Resolution, config_from_args, resolve_instance_config, Merged
    <2>5. ASSUME out.ctl.ok, job.args["socket"] = "unset"
          PROVE  out.ctl.socket = out.config.socket
      <3>1. _coerce_instance(u).socket = u["socket"]
        BY <2>3, <2>5, CoerceFacts
      <3>2. u["socket"] = w["socket"]
        <4>1. Unset["socket"] = "unset"
          BY DEF Unset, Keys
        <4> HIDE DEF w
        <4> QED BY <4>1, ApplyLayerFacts
      <3>3. Merged(job)["socket"] = w["socket"]
        <4>1. Merged(job) = ApplyLayer(w, job.args)
          BY DEF Merged
        <4> HIDE DEF w
        <4> QED BY <2>5, <4>1, ApplyLayerFacts
      <3> QED BY <2>2, <2>3, <3>1, <3>2, <3>3
    <2>6. ASSUME job.args = Unset PROVE out.ctl.ok
      <3>1. Merged(job) = u
        BY <2>6 DEF Merged
      <3> QED BY <2>3, <2>4, <3>1
    <2> QED BY <2>5, <2>6
  <1>3. step # "exit" => SameSocket
    BY DEF SameSocket, Asked
  <1>4. Inv => SameSocket
    BY <1>1, <1>2, <1>3 DEF Inv
  <1> QED BY <1>4, Inductive, PTL

-----------------------------------------------------------------------------
(* The heads of CBOR items *)

Byte == 0..255

(* Quotient and remainder make up the number.                               *)
Split(n, q, r, d) == n < d * d /\ q = n \div d /\ r = n % d
Joined(n, q, r, d) == q \in Nat /\ q < d /\ r \in Nat /\ r < d /\ d * q + r = n

(* A number below 256^2 is a high and a low byte.                           *)
LEMMA SplitByte ==
    ASSUME NEW n \in Nat, NEW q, NEW r, Split(n, q, r, 256)
    PROVE  Joined(n, q, r, 256)
  <1>1. q \in Nat /\ q < 256
    BY SMT DEF Split
  <1>2. r \in Nat /\ r < 256
    BY SMT DEF Split
  <1>3. r = n - 256 * q
    BY SMT DEF Split
  <1>4. 256 * q + r = n
    BY <1>1, <1>2, <1>3, SMT
  <1> QED BY <1>1, <1>2, <1>4 DEF Joined

(* A number below 2^32 is a high and a low half.                            *)
LEMMA SplitHalf ==
    ASSUME NEW n \in Nat, NEW q, NEW r, Split(n, q, r, 65536)
    PROVE  Joined(n, q, r, 65536)
  <1>1. q \in Nat /\ q < 65536
    BY SMT DEF Split
  <1>2. r \in Nat /\ r < 65536
    BY SMT DEF Split
  <1>3. r = n - 65536 * q
    BY SMT DEF Split
  <1>4. 65536 * q + r = n
    BY <1>1, <1>2, <1>3, SMT
  <1> QED BY <1>1, <1>2, <1>4, SMT DEF Joined

(* A big-endian field holds its number.                                     *)
LEMMA FieldOfOne ==
    ASSUME NEW n \in Nat, n < 256
    PROVE  Bytes(n, 1) \in Seq(Byte) /\ Len(Bytes(n, 1)) = 1 /\ Number(Bytes(n, 1)) = n
  <1> DEFINE s == <<n>>
  <1>1. Bytes(n, 1) = s
    BY DEF Bytes
  <1>2. s \in Seq(Byte) /\ Len(s) = 1 /\ s[1] = n
    BY DEF Byte
  <1> HIDE DEF s
  <1>3. Number(s) = n
    BY <1>2, SMT DEF Number
  <1> QED BY <1>1, <1>2, <1>3

(* The same for two bytes ...                                               *)
LEMMA FieldOfTwo ==
    ASSUME NEW n \in Nat, n < 65536
    PROVE  Bytes(n, 2) \in Seq(Byte) /\ Len(Bytes(n, 2)) = 2 /\ Number(Bytes(n, 2)) = n
  <1> DEFINE h == n \div 256
             l == n % 256
             s == <<h, l>>
  <1>1. Bytes(n, 2) = s
    BY SMT DEF Bytes
  <1>2. Split(n, h, l, 256)
    BY SMT DEF Split
  <1> HIDE DEF h, l
  <1>3. Joined(n, h, l, 256)
    BY <1>2, SplitByte, SMT
  <1>4. h \in 0..255 /\ l \in 0..255 /\ 256 * h + l = n
    BY <1>3, SMT DEF Joined
  <1>5. s \in Seq(Byte) /\ Len(s) = 2 /\ s[1] = h /\ s[2] = l
    BY <1>4, SMT DEF Byte
  <1> HIDE DEF s
  <1>6. Number(s) = n
    BY <1>4, <1>5, SMT DEF Number, Number2
  <1> QED BY <1>1, <1>5, <1>6, SMT

(* ... and for four.                                                        *)
LEMMA FieldOfFour ==
    ASSUME NEW n \in Nat, n < 65536 * 65536
    PROVE  Bytes(n, 4) \in Seq(Byte) /\ Len(Bytes(n, 4)) = 4 /\ Number(Bytes(n, 4)) = n
  <1> DEFINE h == n \div 65536
             l == n % 65536
             b1 == h \div 256
             b2 == h % 256
             b3 == l \div 256
             b4 == l % 256
             s == <<b1, b2, b3, b4>>
  <1>1. Bytes(n, 4) = s
    BY SMT DEF Bytes
  <1>2. Split(n, h, l, 65536)
    BY SMT DEF Split
  <1> HIDE DEF h, l
  <1>3. Joined(n, h, l, 65536)
    BY <1>2, SplitHalf, SMT
  <1>4. h \in Nat /\ h < 256 * 256 /\ l \in Nat /\ l < 256 * 256 /\ 65536 * h + l = n
    BY <1>3, SMT DEF Joined
  <1>5. Split(h, b1, b2, 256) /\ Split(l, b3, b4, 256)
    BY <1>4, SMT DEF Split
  <1> HIDE DEF b1, b2, b3, b4
  <1>6. Joined(h, b1, b2, 256) /\ Joined(l, b3, b4, 256)
    BY <1>4, <1>5, SplitByte, SMT
  <1>7. b1 \in 0..255 /\ b2 \in 0..255 /\ 256 * b1 + b2 = h
    BY <1>6, SMT DEF Joined
  <1>8. b3 \in 0..255 /\ b4 \in 0..255 /\ 256 * b3 + b4 = l
    BY <1>6, SMT DEF Joined
  <1>9. s \in Seq(Byte) /\ Len(s) = 4 /\ s[1] = b1 /\ s[2] = b2 /\ s[3] = b3 /\ s[4] = b4
    BY <1>7, <1>8, SMT DEF Byte
  <1> HIDE DEF s
  <1>10. Number2(s, 1) = h /\ Number2(s, 3) = l
    BY <1>7, <1>8, <1>9, SMT DEF Number2
  <1>11. Number(s) = 65536 * Number2(s, 1) + Number2(s, 3)
    BY <1>9, SMT DEF Number, Number4
  <1>12. Number(s) = 65536 * h + l
    BY <1>10, <1>11, SMT
  <1> QED BY <1>1, <1>4, <1>9, <1>12, SMT

(* What read() finds behind the initial byte.                               *)
LEMMA ReadBehindInitial ==
    ASSUME NEW S, NEW first \in S, NEW field \in Seq(S), NEW rest \in Seq(S)
    PROVE  LET data == (<<first>> \o field) \o rest
           IN  /\ read(data, 0, 1) = Got(<<first>>, 1)
               /\ read(data, 1, Len(field)) = Got(field, 1 + Len(field))
  <1> DEFINE data == (<<first>> \o field) \o rest
             k == Len(field)
  <1>1. data \in Seq(S) /\ k \in Nat /\ Len(data) = 1 + k + Len(rest) /\ Len(rest) \in Nat
    OBVIOUS
  <1>2. data[1] = first /\ \A i \in 1..k : data[1 + i] = field[i]
    OBVIOUS
  <1> HIDE DEF data
  <1>3. SubSeq(data, 1, 1) = <<first>>
    <2> DEFINE s == SubSeq(data, 1, 1)
    <2>1. s \in Seq(S) /\ Len(s) = 1 /\ s[1] = data[1]
      <3>1. \A i \in 1..1 : data[i] \in S
        BY <1>1
      <3> QED BY <3>1, SubSeqProperties
    <2> HIDE DEF s
    <2>2. <<first>> \in Seq(S) /\ Len(<<first>>) = 1 /\ <<first>>[1] = first
      OBVIOUS
    <2>3. s = <<first>>
      BY <1>2, <2>1, <2>2, SeqEqual
    <2> QED BY <2>3 DEF s
  <1>4. SubSeq(data, 2, 1 + k) = field
    <2> DEFINE s == SubSeq(data, 2, 1 + k)
    <2>1. s \in Seq(S) /\ Len(s) = k /\ \A i \in 1..k : s[i] = data[1 + i]
      BY <1>1, SubSeqProperties
    <2> HIDE DEF s
    <2> QED BY <1>2, <2>1, SeqEqual DEF s
  <1>5. read(data, 0, 1) = Got(<<first>>, 1)
    <2>1. ~(0 + 1 > Len(data)) /\ 0 + 1 = 1
      BY <1>1
    <2> QED BY <1>3, <2>1 DEF read
  <1>6. read(data, 1, k) = Got(field, 1 + k)
    <2>1. ~(1 + k > Len(data)) /\ 1 + 1 = 2
      BY <1>1
    <2> QED BY <1>4, <2>1 DEF read
  <1> QED BY <1>5, <1>6 DEF data

(* A head is of bytes, the upper three bits of its first are the major type *)
(* and the others do not announce an indefinite length, and the reader gets *)
(* the number from it and stops behind it, whatever follows.                *)
HeadIsRead(major, n, head, rest) ==
    LET data == head \o rest
    IN  /\ head \in Seq(Byte)
        /\ read(data, 0, 1) = Got(<<head[1]>>, 1)
        /\ head[1] \div 32 = major /\ head[1] % 32 # 31
        /\ read_len(data, 1, head[1] % 32) = Got(n, Len(head))

(* The initial byte of a head. *)
Initial(major, a) == 32 * major + a

(* The initial byte of a head holds major type and additional information.  *)
LEMMA InitialFacts ==
    ASSUME NEW major \in 0..7, NEW a \in Nat, a < 31
    PROVE  /\ Initial(major, a) \in Byte
           /\ Initial(major, a) \div 32 = major
           /\ Initial(major, a) % 32 = a
  <1>1. Initial(major, a) \in Byte
    BY SMT DEF Initial, Byte
  <1>2. Initial(major, a) \div 32 = major
    BY SMT DEF Initial
  <1>3. Initial(major, a) % 32 = a
    BY SMT DEF Initial
  <1> QED BY <1>1, <1>2, <1>3

(* The additional information a announces a field of k bytes.               *)
Announces(a, k) == (a = 24 /\ k = 1) \/ (a = 25 /\ k = 2) \/ (a = 26 /\ k = 4)

(* read_len() reads the field the additional information announces.         *)
LEMMA AnnouncedFacts ==
    ASSUME NEW a, NEW k, Announces(a, k), NEW data
    PROVE  a \in Nat /\ a < 31 /\ read_len(data, 1, a) = read_field(data, 1, k)
  <1>1. CASE a = 24 /\ k = 1
    BY <1>1, SMT DEF read_len
  <1>2. CASE a = 25 /\ k = 2
    BY <1>2, SMT DEF read_len
  <1>3. CASE a = 26 /\ k = 4
    BY <1>3, SMT DEF read_len
  <1> QED BY <1>1, <1>2, <1>3 DEF Announces

(* The head with a field behind its initial byte.                           *)
LEMMA HeadWithField ==
    ASSUME NEW major \in 0..7, NEW a, NEW field \in Seq(Byte), NEW rest \in Seq(Byte),
           Announces(a, Len(field)),
           NEW head, head = <<Initial(major, a)>> \o field, NEW n, n = Number(field)
    PROVE  HeadIsRead(major, n, head, rest)
  <1> DEFINE first == Initial(major, a)
             data == head \o rest
             raw == read(data, 1, Len(field))
  <1>1. a \in Nat /\ a < 31 /\ read_len(data, 1, a) = read_field(data, 1, Len(field))
    BY AnnouncedFacts
  <1>2. first \in Byte /\ first \div 32 = major /\ first % 32 = a
    BY <1>1, InitialFacts
  <1>3. head = <<first>> \o field
    OBVIOUS
  <1> HIDE DEF first
  <1>4. head[1] = first /\ Len(head) = 1 + Len(field) /\ head \in Seq(Byte)
    BY <1>2, <1>3
  <1>5. read(data, 0, 1) = Got(<<first>>, 1) /\ raw = Got(field, 1 + Len(field))
    BY <1>2, <1>3, ReadBehindInitial
  <1>6. raw.ok /\ raw.val = field /\ raw.next = 1 + Len(field)
    BY <1>5 DEF Got
  <1> HIDE DEF data
  <1>7. read_field(data, 1, Len(field)) = IF raw.ok THEN Got(Number(raw.val), raw.next) ELSE Bad
    BY DEF read_field
  <1> HIDE DEF raw
  <1>8. read_len(data, 1, head[1] % 32) = Got(n, Len(head))
    BY <1>1, <1>2, <1>4, <1>6, <1>7
  <1>9. head[1] \div 32 = major /\ head[1] % 32 # 31
    BY <1>1, <1>2, <1>4
  <1> QED BY <1>4, <1>5, <1>8, <1>9 DEF HeadIsRead, data

(* The head that is one byte.                                               *)
LEMMA HeadAlone ==
    ASSUME NEW major \in 0..7, NEW n \in Nat, n < 24, NEW rest \in Seq(Byte),
           NEW head, head = <<Initial(major, n)>>
    PROVE  HeadIsRead(major, n, head, rest)
  <1> DEFINE first == Initial(major, n)
             none == <<>>
             data == head \o rest
  <1>1. first \in Byte /\ first \div 32 = major /\ first % 32 = n
    BY InitialFacts
  <1>2. head = <<first>> /\ none \in Seq(Byte)
    OBVIOUS
  <1> HIDE DEF first
  <1>3. head[1] = first /\ Len(head) = 1 /\ head \in Seq(Byte) /\ head = <<first>> \o none
    BY <1>1, <1>2
  <1> HIDE DEF none
  <1>4. read(data, 0, 1) = Got(<<first>>, 1)
    <2>1. read((<<first>> \o none) \o rest, 0, 1) = Got(<<first>>, 1)
      <3> HIDE DEF data
      <3> QED BY <1>1, <1>2, ReadBehindInitial
    <2> HIDE DEF data
    <2>2. data = (<<first>> \o none) \o rest
      BY <1>3 DEF data
    <2> QED BY <2>1, <2>2
  <1> HIDE DEF data
  <1>5. read_len(data, 1, n) = Got(n, 1)
    BY DEF read_len
  <1> QED BY <1>1, <1>3, <1>4, <1>5 DEF HeadIsRead, data

UInt32 == {k \in Nat : k < 65536 * 65536}

(* A major type and a number below 2^32, written as the head of an item     *)
(* (encode_type_len), are read back by CborReader whatever follows, at      *)
(* every length form.                                                       *)
THEOREM HeadRoundTrip ==
    ASSUME NEW major \in 0..7, NEW n \in UInt32, NEW rest \in Seq(Byte)
    PROVE  HeadIsRead(major, n, encode_type_len(major, n), rest)
  <1> DEFINE head == encode_type_len(major, n)
  <1>0. n \in Nat
    BY DEF UInt32
  <1>1. ASSUME NEW a, NEW k, Announces(a, k), head = <<Initial(major, a)>> \o Bytes(n, k),
               Bytes(n, k) \in Seq(Byte), Len(Bytes(n, k)) = k, Number(Bytes(n, k)) = n
        PROVE  HeadIsRead(major, n, head, rest)
    <2> DEFINE field == Bytes(n, k)
    <2>1. /\ field \in Seq(Byte) /\ Announces(a, Len(field)) /\ n = Number(field)
          /\ head = <<Initial(major, a)>> \o field
      BY <1>1
    <2> HIDE DEF field, head
    <2> QED BY <2>1, HeadWithField
  <1>2. CASE n < 24
    <2>1. head = <<Initial(major, n)>>
      BY <1>2, SMT DEF encode_type_len, Initial
    <2> HIDE DEF head
    <2>2. HeadIsRead(major, n, head, rest)
      BY <1>0, <1>2, <2>1, HeadAlone
    <2> QED BY <2>2 DEF head
  <1>3. CASE n >= 24 /\ n <= 255
    <2>1. head = <<Initial(major, 24)>> \o Bytes(n, 1)
      BY <1>0, <1>3, SMT DEF encode_type_len, Initial
    <2>2. n < 256
      BY <1>0, <1>3, SMT
    <2>3. Bytes(n, 1) \in Seq(Byte) /\ Len(Bytes(n, 1)) = 1 /\ Number(Bytes(n, 1)) = n
      BY <1>0, <2>2, FieldOfOne, SMT
    <2>4. Announces(24, 1)
      BY DEF Announces
    <2> HIDE DEF head
    <2> QED BY <1>1, <2>1, <2>3, <2>4 DEF head
  <1>4. CASE n >= 256 /\ n <= 65535
    <2>1. head = <<Initial(major, 25)>> \o Bytes(n, 2)
      BY <1>0, <1>4, SMT DEF encode_type_len, Initial
    <2>2. n < 65536
      BY <1>0, <1>4, SMT
    <2>3. Bytes(n, 2) \in Seq(Byte) /\ Len(Bytes(n, 2)) = 2 /\ Number(Bytes(n, 2)) = n
      BY <1>0, <2>2, FieldOfTwo, SMT
    <2>4. Announces(25, 2)
      BY DEF Announces
    <2> HIDE DEF head
    <2> QED BY <1>1, <2>1, <2>3, <2>4 DEF head
  <1>5. CASE n >= 65536
    <2>1. head = <<Initial(major, 26)>> \o Bytes(n, 4)
      BY <1>0, <1>5, SMT DEF encode_type_len, Initial
    <2>2. n < 65536 * 65536
      BY SMT DEF UInt32
    <2>3. Bytes(n, 4) \in Seq(Byte) /\ Len(Bytes(n, 4)) = 4 /\ Number(Bytes(n, 4)) = n
      BY <1>0, <2>2, FieldOfFour, SMT
    <2>4. Announces(26, 4)
      BY DEF Announces
    <2> HIDE DEF head
    <2> QED BY <1>1, <2>1, <2>3, <2>4 DEF head
  <1>6. n < 24 \/ (n >= 24 /\ n <= 255) \/ (n >= 256 /\ n <= 65535) \/ n >= 65536
    BY <1>0, SMT
  <1> QED BY <1>2, <1>3, <1>4, <1>5, <1>6, SMT
=============================================================================
