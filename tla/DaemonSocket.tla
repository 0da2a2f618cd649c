----------------------------- MODULE DaemonSocket -----------------------------
(* The local service around the daemon: how rp2350-relayd processes claim a  *)
(* Unix socket path, serve it and give it up (daemon.py run, _bind_socket,   *)
(* _prepare_socket_path, shutdown), and how relayctl processes talk to the   *)
(* daemon behind the path (daemon_client.py, relayctl.py, smoke.py).         *)
(*                                                                           *)
(* Every system call on the path is a step of its own.  The threads inside   *)
(* one daemon, and its link to the board, are module Daemon; here a daemon   *)
(* is the queue of accepted requests, served in order.                       *)
EXTENDS Naturals, Sequences, SequencesExt

CONSTANTS
    Daemons,      \* daemon processes that use the path
    Clients,      \* relayctl processes
    Overlap,      \* a daemon is started while another one runs
    Occupied,     \* what else may be found at the path: "file", "listener"
    MaxQueue      \* requests a daemon holds; further ones are sent later

ASSUME DaemonSocketAssumption ==
    /\ Overlap \in BOOLEAN /\ MaxQueue \in Nat
    /\ Occupied \subseteq {"file", "listener"}
    /\ Daemons \cap {"none", "file", "listener", "closed"} = {}

VARIABLES
    path,     \* "none", "file", "listener", or the daemon whose socket it is
    daemon,   \* each daemon's progress
    queue,    \* each daemon's accepted requests
    client,   \* each relayctl process
    inbox,    \* responses on their way to each relayctl process
    on        \* a relay is on

daemons == <<path, daemon, queue>>
clients == <<client, inbox>>
vars == <<daemons, clients, on>>

\* The requests of one relayctl call: a relay command, or run_smoke_sequence.
Smoke == <<"on", "off">>
Scripts == {<<"on">>, Smoke}

Stopped == [pc |-> "off", connected |-> FALSE, failed |-> FALSE]
NoClient == [pc |-> "idle", conn |-> "none", script |-> <<>>, todo |-> <<>>, id |-> 1,
             broken |-> FALSE, raised |-> FALSE]

Goto(d, pc) == daemon' = [daemon EXCEPT ![d].pc = pc]

\* An exception: run() executes shutdown() in its finally block.
Fails(d) == daemon' = [daemon EXCEPT ![d].pc = "shutdown", ![d].failed = TRUE]

Listening(x) == x = "listener" \/ (x \in Daemons /\ daemon[x].pc = "serve")

-------------------------------------------------------------------------------
(* Starting a daemon. *)

\* run, _initial_connect: with or without a board when the daemon waits for
\* its device; an exception otherwise.
start(d) ==
    /\ daemon[d].pc = "off"
    /\ Overlap \/ \A e \in Daemons : daemon[e].pc = "off"
    /\ \E c \in BOOLEAN, pc \in {"prepare", "shutdown"} :
        daemon' = [daemon EXCEPT ![d] = [pc |-> pc, connected |-> c /\ pc = "prepare",
                                         failed |-> FALSE]]
    /\ UNCHANGED <<path, queue, clients, on>>

\* _prepare_socket_path: does the path exist, and is it a socket?
prepare(d) ==
    /\ daemon[d].pc = "prepare"
    /\ CASE path = "none" -> Goto(d, "bind")
         [] path = "file" -> Fails(d)
         [] OTHER -> Goto(d, "probe")
    /\ UNCHANGED <<path, queue, clients, on>>

\* A connection to the socket: refused, or a live listener.  Whether the
\* listener answers as a daemon or not, the start fails.
probe(d) ==
    /\ daemon[d].pc = "probe"
    /\ IF Listening(path) THEN Fails(d) ELSE Goto(d, "clean")
    /\ UNCHANGED <<path, queue, clients, on>>

\* os.unlink of what was found stale; FileNotFoundError when it is gone.
\* Slip: the stale socket is left.
clean_Skipped(d) ==
    /\ daemon[d].pc = "clean"
    /\ Goto(d, "bind")
    /\ UNCHANGED <<path, queue, clients, on>>

clean(d) ==
    /\ daemon[d].pc = "clean"
    /\ IF path = "none" THEN Fails(d) ELSE Goto(d, "bind")
    /\ path' = "none"
    /\ UNCHANGED <<queue, clients, on>>

\* bind fails when the path exists.
bind(d) ==
    /\ daemon[d].pc = "bind"
    /\ IF path = "none" THEN Goto(d, "listen") /\ path' = d
                        ELSE Fails(d) /\ UNCHANGED path
    /\ UNCHANGED <<queue, clients, on>>

\* Slip: the cleanup runs after the bind.
listen_CleansAfterBind(d) ==
    /\ daemon[d].pc = "listen"
    /\ Goto(d, "serve")
    /\ path' = "none"
    /\ UNCHANGED <<queue, clients, on>>

\* chmod of the path, which must still be there, and listen.
listen(d) ==
    /\ daemon[d].pc = "listen"
    /\ IF path = "none" THEN Fails(d) ELSE Goto(d, "serve")
    /\ UNCHANGED <<path, queue, clients, on>>

-------------------------------------------------------------------------------
(* Serving and stopping. *)

\* The worker takes the oldest request and answers it.  A board that is not
\* connected, or an exchange that fails, gives an error response.
Executed(d, ok) ==
    /\ ok => daemon[d].connected
    /\ on' \in {IF ~daemon[d].connected THEN on ELSE Head(queue[d]).cmd = "on"}
                \cup (IF ok THEN {} ELSE {on})

\* The response goes to the connection the request came from, if it is open.
Reply(d, ok) ==
    LET r == Head(queue[d]) IN
    inbox' = IF r.open
             THEN [inbox EXCEPT ![r.client] = Append(@, [id |-> r.id, ok |-> ok])]
             ELSE inbox

handle_request(d, ok) ==
    /\ daemon[d].pc = "serve" /\ queue[d] # <<>>
    /\ Executed(d, ok)
    /\ Reply(d, ok)
    /\ queue' = [queue EXCEPT ![d] = Tail(@)]
    /\ UNCHANGED <<path, daemon, client>>

\* The link to the board is lost or comes back (module Daemon).
link(d) ==
    /\ daemon[d].pc = "serve"
    /\ daemon' = [daemon EXCEPT ![d].connected = ~@]
    /\ UNCHANGED <<path, queue, clients, on>>

\* SIGTERM or SIGINT: the accept loop ends.
handle_signal(d) ==
    /\ daemon[d].pc = "serve"
    /\ Goto(d, "shutdown")
    /\ UNCHANGED <<path, queue, clients, on>>

\* The connections of d are closed: what it had accepted is dropped.
Hangup(d) ==
    /\ queue' = [queue EXCEPT ![d] = <<>>]
    /\ client' = [c \in Clients |-> IF client[c].conn = d
                                    THEN [client[c] EXCEPT !.conn = "closed"] ELSE client[c]]

\* shutdown: close the connections, then a best-effort off-all on the board ...
shutdown(d) ==
    /\ daemon[d].pc = "shutdown"
    /\ Goto(d, "unlink")
    /\ on' \in IF daemon[d].connected THEN {FALSE, on} ELSE {on}
    /\ Hangup(d)
    /\ UNCHANGED <<path, inbox>>

\* ... and remove whatever is at the path, bound by this daemon or not.
unlink_path(d) ==
    /\ daemon[d].pc = "unlink"
    /\ path' = "none"
    /\ daemon' = [daemon EXCEPT ![d] = Stopped]
    /\ UNCHANGED <<queue, clients, on>>

\* The process is killed: its socket stays behind.
crash(d) ==
    /\ daemon[d].pc # "off"
    /\ daemon' = [daemon EXCEPT ![d] = Stopped]
    /\ Hangup(d)
    /\ UNCHANGED <<path, inbox, on>>

-------------------------------------------------------------------------------
(* relayctl *)

\* RelayDaemonClient.connect
connect(c, s) ==
    /\ client[c].pc = "idle"
    /\ path \in Daemons /\ Listening(path)
    /\ client' = [client EXCEPT ![c] = [NoClient EXCEPT !.pc = "send", !.conn = path,
                                                        !.script = s, !.todo = s]]
    /\ inbox' = [inbox EXCEPT ![c] = <<>>]
    /\ UNCHANGED <<daemons, on>>

\* The end of a request: go on with the script, or raise.  An exception ends
\* it, but run_smoke_sequence first asks for off-all once more.
After(m, ok) ==
    LET rest == IF ok THEN Tail(m.todo)
                ELSE IF m.script = Smoke /\ ~m.raised THEN <<"off">> ELSE <<>>
    IN  IF rest = <<>>
        THEN [NoClient EXCEPT !.script = m.script]
        ELSE [m EXCEPT !.pc = "send", !.todo = rest, !.id = @ + 1, !.raised = @ \/ ~ok]

\* close() at the end: nobody reads the answers to what is still queued.
Abandoned(q, c) ==
    [d \in Daemons |-> [i \in DOMAIN q[d] |->
        [q[d][i] EXCEPT !.open = @ /\ q[d][i].client # c]]]

Ends(c, m, ok, responses) ==
    LET n == After(m, ok) IN
    /\ client' = [client EXCEPT ![c] = n]
    /\ inbox' = [inbox EXCEPT ![c] = IF n.pc = "idle" THEN <<>> ELSE responses]
    /\ queue' = IF n.pc = "idle" THEN Abandoned(queue, c) ELSE queue

\* _request: sendall, before the reader is tried.
Accepted(c, d) ==
    /\ Len(queue[d]) < MaxQueue
    /\ queue' = [queue EXCEPT ![d] = Append(@,
           [client |-> c, id |-> client[c].id, cmd |-> Head(client[c].todo), open |-> TRUE])]
    /\ client' = [client EXCEPT ![c].pc = "read"]
    /\ UNCHANGED inbox

\* Slip: a broken reader is noticed before the request is sent.
send_ReaderFirst(c) ==
    /\ client[c].pc = "send"
    /\ IF client[c].conn = "closed" \/ client[c].broken
       THEN Ends(c, client[c], FALSE, inbox[c])
       ELSE Accepted(c, client[c].conn)
    /\ UNCHANGED <<path, daemon, on>>

send(c) ==
    /\ client[c].pc = "send"
    /\ IF client[c].conn = "closed"
       THEN Ends(c, client[c], FALSE, inbox[c])
       ELSE Accepted(c, client[c].conn)
    /\ UNCHANGED <<path, daemon, on>>

\* A response is read; its id must be the request's.
read(c) ==
    /\ client[c].pc = "read" /\ ~client[c].broken
    /\ inbox[c] # <<>>
    /\ LET r == Head(inbox[c])
       IN  Ends(c, client[c], r.ok /\ r.id = client[c].id, Tail(inbox[c]))
    /\ UNCHANGED <<path, daemon, on>>

\* readline times out, and the buffered reader never reads again.
timeout(c) ==
    /\ client[c].pc = "read" /\ ~client[c].broken
    /\ Ends(c, [client[c] EXCEPT !.broken = TRUE], FALSE, inbox[c])
    /\ UNCHANGED <<path, daemon, on>>

\* Slip: a broken reader waits for the end of the connection.
read_fails_Waits(c) ==
    /\ client[c].pc = "read"
    /\ client[c].conn = "closed" /\ inbox[c] = <<>>
    /\ Ends(c, client[c], FALSE, <<>>)
    /\ UNCHANGED <<path, daemon, on>>

\* The reader is broken, or the daemon closed the connection.
read_fails(c) ==
    /\ client[c].pc = "read"
    /\ client[c].broken \/ (client[c].conn = "closed" /\ inbox[c] = <<>>)
    /\ Ends(c, client[c], FALSE, <<>>)
    /\ UNCHANGED <<path, daemon, on>>

-------------------------------------------------------------------------------
Init ==
    /\ path \in {"none"} \cup Daemons \cup Occupied
    /\ daemon = [d \in Daemons |-> Stopped]
    /\ queue = [d \in Daemons |-> <<>>]
    /\ client = [c \in Clients |-> NoClient]
    /\ inbox = [c \in Clients |-> <<>>]
    /\ on = FALSE

Starting(d) == prepare(d) \/ probe(d) \/ clean(d) \/ bind(d) \/ listen(d)
Stopping(d) == shutdown(d) \/ unlink_path(d)

Next ==
    \/ \E d \in Daemons :
        \/ start(d) \/ prepare(d) \/ probe(d) \/ clean(d) \/ bind(d) \/ listen(d)
        \/ \E ok \in BOOLEAN : handle_request(d, ok)
        \/ link(d) \/ handle_signal(d) \/ shutdown(d) \/ unlink_path(d) \/ crash(d)
    \/ \E c \in Clients :
        \/ \E s \in Scripts : connect(c, s)
        \/ send(c) \/ read(c) \/ timeout(c) \/ read_fails(c)

\* Processes run; a daemon that serves answers.
Fairness ==
    /\ \A d \in Daemons :
        /\ WF_vars(Starting(d)) /\ WF_vars(Stopping(d))
        /\ WF_vars(\E ok \in BOOLEAN : handle_request(d, ok))
    /\ \A c \in Clients :
        WF_vars(read(c) \/ timeout(c) \/ read_fails(c)) /\ SF_vars(send(c))

Spec == Init /\ [][Next]_vars /\ Fairness

-------------------------------------------------------------------------------
(* Properties *)

\* Types, and: a daemon holds requests, and a relayctl holds a connection to
\* it, only while it serves or has just been told to stop.
SocketTypeOK ==
    /\ path \in {"none"} \cup Daemons \cup Occupied
    /\ \A d \in Daemons :
        /\ daemon[d].pc \in {"off", "prepare", "probe", "clean", "bind", "listen", "serve",
                             "shutdown", "unlink"}
        /\ Len(queue[d]) <= MaxQueue
        /\ queue[d] # <<>> => daemon[d].pc \in {"serve", "shutdown"}
    /\ \A c \in Clients :
        /\ client[c].pc \in {"idle", "send", "read"}
        /\ client[c].conn \in Daemons => daemon[client[c].conn].pc \in {"serve", "shutdown"}

\* The socket a killed daemon left behind never makes a later start fail
\* (daemon.py _prepare_socket_path, docs/host-daemon-mode.md:61 "If the socket
\* has no listener, unlink it as stale and bind").
StaleNeverBlocks == \A d \in Daemons : ~daemon[d].failed

\* A daemon that serves is found at its path, through crashes, restarts and
\* the stale sockets of its predecessors.
ServerIsReachable == \A d \in Daemons : daemon[d].pc = "serve" => path = d

\* Both: what holds a request or a connection is a daemon that can be reached,
\* or one that is going.
SocketInv == SocketTypeOK /\ ServerIsReachable

\* When relayctl smoke has ended, in whatever way, no request of it that
\* switches a relay on is left with the daemon without an off-all of it behind:
\* the finally block's request is sent although the reader is broken.
SmokeLeavesOff ==
    \A d \in Daemons, c \in Clients :
        client[c].pc = "idle" /\ client[c].script = Smoke =>
            \A i \in DOMAIN queue[d] :
                queue[d][i].client = c /\ queue[d][i].cmd = "on" =>
                    \E j \in DOMAIN queue[d] :
                        j > i /\ queue[d][j].client = c /\ queue[d][j].cmd = "off"

\* Every relayctl call ends, whatever becomes of the daemon.
CallsEnd == \A c \in Clients : client[c].pc # "idle" ~> client[c].pc = "idle"

\* docs/host-daemon-mode.md:59 "If the requested socket path already has a
\* valid live relay daemon, exit nonzero with an already-running error": a
\* start that is refused leaves what it found at the path in place.
RefusedStartIsHarmless ==
    [][\A d \in Daemons :
        daemon[d].failed /\ path' = "none" => ~Listening(path) /\ path # "file"]_vars
===============================================================================
