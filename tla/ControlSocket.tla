---------------------------- MODULE ControlSocket --------------------------
(***************************************************************************)
(* The control socket (socket.rs) of loop processes that are given the same *)
(* --socket path, and its clients: set, hold, ... and status.  What a       *)
(* request does to the controller is in Loop.tla; here it is applied.       *)
(*                                                                         *)
(* The path names nothing, something else, or the socket that a process     *)
(* made, which nobody answers once that process is gone.  A process with    *)
(* --state holds the lock of the state file from before it binds until      *)
(* after it has closed the socket.  A client gives up whenever it likes: it *)
(* waits for two seconds, and a tick can last longer.                       *)
(***************************************************************************)
EXTENDS Integers, FiniteSets, Sequences, Functions

CONSTANTS
    Procs,          \* loop processes
    Clients,        \* client processes, with one request each
    NoFile,         \* the path does not exist
    NotSocket,      \* the path is not a socket
    BacklogCap,     \* connections the kernel keeps for a listener
    Batch,          \* requests served between two chunks of sleep
    Interval,       \* --interval, in chunks of sleep
    IoTimeout,      \* SOCKET_IO_TIMEOUT, in chunks of sleep
    TickCap         \* bound: what a tick lasts, in chunks of sleep

ASSUME SocketAssumption ==
    /\ Procs \cap Clients = {} /\ IsFiniteSet(Procs)
    /\ NoFile \notin Procs /\ NotSocket \notin Procs /\ NoFile # NotSocket
    /\ {BacklogCap, Batch, Interval, IoTimeout} \subseteq Nat \ {0}
    /\ TickCap \in Nat

VARIABLES
    stateful,       \* the processes that share a state file
    path,           \* what --socket names
    phase,          \* of a process, "out" while it does not run
    backlog,        \* the connections of a listener not yet accepted
    peer,           \* the connection being served, while there is one
    served,         \* requests served since the last chunk of sleep
    clock,          \* time of a process since its last deadline, in chunks
    client,         \* what a client knows
    data,           \* what has arrived on its connection: "none", the "whole"
                    \* request, or the "end" without one
    applied,        \* history: how often a request was applied
    overlapped,     \* history: were two processes ever starting at once?
    mistaken        \* history: was a listener ever taken for a stale socket?

procVars == <<phase, backlog, peer, served, clock>>
clientVars == <<client, data, applied>>
vars == <<stateful, path, procVars, clientVars, overlapped, mistaken>>

Starting == {"probe", "unlink", "bind"}
Serving == {"top", "sleep", "serve", "read", "reply", "tick"}
Listening(p) == phase[p] \in Serving \cup {"chmod", "unlinked"}

\* What a connect to the path meets.
Answered == path \in Procs /\ Listening(path)
Refused == path \in Procs /\ ~Listening(path)

\* Every connection: of a client, or of a process that probes.
Peers == Clients \cup Procs

HoldsLock(p) == p \in stateful /\ phase[p] # "out"

----------------------------------------------------------------------------
(* SocketListener::bind. *)

Goes(p, to) ==
    /\ phase' = [phase EXCEPT ![p] = to]
    /\ overlapped' =
         (overlapped
          \/ \E q \in Procs \ {p} : to \in Starting /\ phase[q] \in Starting)

Move(p, to) == Goes(p, to) /\ UNCHANGED mistaken

\* A process that is not running counts nothing.
Idle(p) ==
    /\ peer' = [peer EXCEPT ![p] = p]
    /\ served' = [served EXCEPT ![p] = 0]
    /\ clock' = [clock EXCEPT ![p] = 0]

\* The connections of a listener that closes end with it.
Exit(p) ==
    LET cut == {c \in Clients : c \in Range(backlog[p])
                    \/ (phase[p] \in {"read", "reply"} /\ peer[p] = c)}
    IN  /\ Move(p, "out")
        /\ backlog' = [backlog EXCEPT ![p] = <<>>]
        /\ client' = [c \in Clients |->
                         IF c \in cut /\ client[c] \in {"open", "sent"}
                         THEN "error" ELSE client[c]]
        /\ Idle(p)
        /\ UNCHANGED <<stateful, data, applied>>

\* ControllerSession::new takes the lock of the state file, if there is one.
Open(p) ==
    /\ phase[p] = "out"
    /\ p \in stateful => \A q \in Procs : ~HoldsLock(q)
    /\ Move(p, "probe")
    /\ UNCHANGED <<stateful, path, backlog, peer, served, clock, clientVars>>

\* Mutant: a socket that exists is taken for stale, whoever listens.
ProbeExists(p) ==
    /\ phase[p] = "probe" /\ path # NotSocket
    /\ Move(p, IF path = NoFile THEN "bind" ELSE "unlink")
    /\ UNCHANGED <<stateful, path, backlog, peer, served, clock, clientVars>>

\* probe_existing: to find a listener is to connect to it, and to exit 3.  A
\* connect that fails for whatever reason (EACCES, EMFILE) says "stale".
Probe(p) ==
    /\ phase[p] = "probe"
    /\ \/ /\ path = NoFile \/ Refused
          /\ Move(p, IF path = NoFile THEN "bind" ELSE "unlink")
          /\ UNCHANGED <<stateful, backlog, peer, served, clock, clientVars>>
       \/ /\ path = NotSocket
          /\ Exit(p)
       \/ /\ Answered /\ Len(backlog[path]) < BacklogCap
          /\ backlog' = [backlog EXCEPT ![path] = Append(@, p)]
          /\ Move(p, "out")
          /\ UNCHANGED <<stateful, peer, served, clock, clientVars>>
       \/ /\ Answered
          /\ Goes(p, "unlink") /\ mistaken' = TRUE
          /\ UNCHANGED <<stateful, backlog, peer, served, clock, clientVars>>
    /\ UNCHANGED path

\* remove_file, of whatever the path names by now.
Unlink(p) ==
    /\ phase[p] = "unlink"
    /\ path' = NoFile
    /\ IF path = NoFile THEN Exit(p)
       ELSE /\ Move(p, "bind")
            /\ UNCHANGED <<stateful, backlog, peer, served, clock, clientVars>>

Bind(p) ==
    /\ phase[p] = "bind"
    /\ IF path # NoFile THEN Exit(p) /\ UNCHANGED path
       ELSE /\ path' = p /\ Move(p, "chmod")
            /\ UNCHANGED <<stateful, backlog, peer, served, clock, clientVars>>

\* set_permissions, and the loop begins.
Chmod(p) ==
    /\ phase[p] = "chmod"
    /\ IF path = NoFile THEN Exit(p)
       ELSE /\ Move(p, "sleep")
            /\ UNCHANGED <<stateful, backlog, peer, served, clock, clientVars>>
    /\ UNCHANGED path

----------------------------------------------------------------------------
(* sleep_with_socket and try_service_one. *)

Sleep(p) ==
    /\ phase[p] = "sleep" /\ clock[p] < Interval
    /\ Move(p, "serve")
    /\ clock' = [clock EXCEPT ![p] = @ + 1]
    /\ UNCHANGED <<stateful, path, backlog, peer, served, clientVars>>

\* next_deadline_after_tick: the next deadline is set before the tick.
Wake(p) ==
    /\ clock[p] >= Interval
    /\ Move(p, "tick")
    /\ clock' = [clock EXCEPT ![p] = @ % Interval]
    /\ UNCHANGED <<stateful, path, backlog, peer, served, clientVars>>

Due(p) == phase[p] = "sleep" /\ Wake(p)

Accept(p) ==
    /\ phase[p] = "serve" /\ backlog[p] # <<>> /\ served[p] < Batch
    /\ Move(p, "read")
    /\ peer' = [peer EXCEPT ![p] = Head(backlog[p])]
    /\ backlog' = [backlog EXCEPT ![p] = Tail(@)]
    /\ UNCHANGED <<stateful, path, served, clock, clientVars>>

NoMore(p) ==
    /\ phase[p] = "serve" /\ (backlog[p] = <<>> \/ served[p] = Batch)
    /\ Move(p, "sleep")
    /\ served' = [served EXCEPT ![p] = 0]
    /\ UNCHANGED <<stateful, path, backlog, peer, clock, clientVars>>

\* read_to_end returns: the request is parsed and handled, or refused.
Handle(p) ==
    LET c == peer[p] IN
    /\ phase[p] = "read" /\ data[c] # "none"
    /\ Move(p, "reply")
    /\ applied' = IF data[c] = "whole"
                  THEN [applied EXCEPT ![c] = @ + 1] ELSE applied
    /\ UNCHANGED <<stateful, path, backlog, peer, served, clock, client, data>>

\* Mutant: a connection that timed out counts as served.
StallServed(p) ==
    LET c == peer[p] IN
    /\ phase[p] = "read" /\ data[c] = "none"
    /\ Move(p, "serve")
    /\ clock' = [clock EXCEPT ![p] = @ + IoTimeout]
    /\ served' = [served EXCEPT ![p] = @ + 1]
    /\ peer' = [peer EXCEPT ![p] = p]
    /\ client' = [client EXCEPT ![c] = "error"]
    /\ UNCHANGED <<stateful, path, backlog, data, applied>>

\* Mutant: no read timeout is set.
NoStall(p) == FALSE

\* The read times out: an error, which ends the services of this chunk.
Stall(p) ==
    LET c == peer[p] IN
    /\ phase[p] = "read" /\ data[c] = "none"
    /\ Move(p, "sleep")
    /\ clock' = [clock EXCEPT ![p] = @ + IoTimeout]
    /\ peer' = [peer EXCEPT ![p] = p]
    /\ served' = [served EXCEPT ![p] = 0]
    /\ client' = [client EXCEPT ![c] = "error"]
    /\ UNCHANGED <<stateful, path, backlog, data, applied>>

\* write_response; that the client has gone is ignored.
Reply(p) ==
    LET c == peer[p] IN
    /\ phase[p] = "reply"
    /\ Move(p, "serve")
    /\ served' = [served EXCEPT ![p] = @ + 1]
    /\ client' = IF c \in Clients /\ client[c] = "sent"
                 THEN [client EXCEPT ![c] = "ok"] ELSE client
    /\ peer' = [peer EXCEPT ![p] = p]
    /\ UNCHANGED <<stateful, path, backlog, clock, data, applied>>

\* A tick may last longer than an interval.
Tick(p) ==
    /\ phase[p] = "tick"
    /\ Move(p, "top")
    /\ \E d \in 0 .. TickCap : clock' = [clock EXCEPT ![p] = @ + d]
    /\ UNCHANGED <<stateful, path, backlog, peer, served, clientVars>>

\* sleep_until_next_deadline: if the deadline has passed already, the next tick
\* follows at once, and the socket is not served.
Top(p) ==
    /\ phase[p] = "top"
    /\ \/ Wake(p)
       \/ /\ clock[p] < Interval
          /\ Move(p, "sleep")
          /\ UNCHANGED <<stateful, path, backlog, peer, served, clock,
                         clientVars>>

\* The loop ends: Drop removes what the path names, and then closes.
Drop(p) ==
    /\ phase[p] \in {"top", "sleep", "tick"}
    /\ Move(p, "unlinked")
    /\ path' = NoFile /\ Idle(p)
    /\ UNCHANGED <<stateful, backlog, clientVars>>

Close(p) == phase[p] = "unlinked" /\ Exit(p) /\ UNCHANGED path

Kill(p) == phase[p] # "out" /\ Exit(p) /\ UNCHANGED path

----------------------------------------------------------------------------
(* client_request, and run_status_dispatch. *)

\* A status that is refused goes to the state file, if it has one; where
\* there is no socket at all it fails, as everything else does.
Connect(c) ==
    /\ client[c] = "idle"
    /\ \/ /\ path = NoFile
          /\ client' = [client EXCEPT ![c] = "absent"]
          /\ UNCHANGED backlog
       \/ /\ path = NotSocket \/ Refused
          /\ \E answer \in {"refused", "fallback"} :
                 client' = [client EXCEPT ![c] = answer]
          /\ UNCHANGED backlog
       \/ /\ Answered /\ Len(backlog[path]) < BacklogCap
          /\ backlog' = [backlog EXCEPT ![path] = Append(@, c)]
          /\ client' = [client EXCEPT ![c] = "open"]
       \/ /\ path # NoFile      \* EACCES, EMFILE
          /\ client' = [client EXCEPT ![c] = "error"]
          /\ UNCHANGED backlog
    /\ UNCHANGED <<stateful, path, phase, peer, served, clock, data, applied,
                   overlapped, mistaken>>

Send(c) ==
    /\ client[c] = "open"
    /\ client' = [client EXCEPT ![c] = "sent"]
    /\ data' = [data EXCEPT ![c] = "whole"]
    /\ UNCHANGED <<stateful, path, procVars, applied, overlapped, mistaken>>

\* The client ends before it has sent anything.
Leave(c) ==
    /\ client[c] = "open"
    /\ client' = [client EXCEPT ![c] = "error"]
    /\ data' = [data EXCEPT ![c] = "end"]
    /\ UNCHANGED <<stateful, path, procVars, applied, overlapped, mistaken>>

\* Mutant: a request that got no answer is sent again.
SendAgain(c) ==
    /\ client[c] = "sent"
    /\ client' = [client EXCEPT ![c] = "idle"]
    /\ UNCHANGED <<stateful, path, procVars, data, applied, overlapped,
                   mistaken>>

\* The answer does not come in time; what was sent stays sent.
GiveUp(c) ==
    /\ client[c] = "sent"
    /\ client' = [client EXCEPT ![c] = "error"]
    /\ UNCHANGED <<stateful, path, procVars, data, applied, overlapped,
                   mistaken>>

----------------------------------------------------------------------------

Init ==
    /\ stateful \in {Procs, {}}
    /\ path \in {NoFile, NotSocket}
    /\ phase = [p \in Procs |-> "out"]
    /\ backlog = [p \in Procs |-> <<>>]
    /\ peer = [p \in Procs |-> p]
    /\ served = [p \in Procs |-> 0] /\ clock = [p \in Procs |-> 0]
    /\ client = [c \in Clients |-> "idle"]
    /\ data = [c \in Peers |-> IF c \in Clients THEN "none" ELSE "end"]
    /\ applied = [c \in Clients |-> 0]
    /\ overlapped = FALSE /\ mistaken = FALSE

\* What a loop that runs does without being asked, and what ends its start.
Work(p) ==
    \/ Sleep(p) \/ Due(p) \/ Accept(p) \/ NoMore(p)
    \/ Handle(p) \/ Stall(p) \/ Reply(p) \/ Tick(p) \/ Top(p)
    \/ Close(p) \/ Chmod(p)

Process(p) ==
    \/ Open(p) \/ Probe(p) \/ Unlink(p) \/ Bind(p)
    \/ Work(p) \/ Drop(p) \/ Kill(p)

Client(c) == Connect(c) \/ Send(c) \/ Leave(c) \/ GiveUp(c)

Next == (\E p \in Procs : Process(p)) \/ \E c \in Clients : Client(c)

\* Whatever waits in a loop ends by a timeout; nothing is assumed of clients.
Spec == Init /\ [][Next]_vars /\ \A p \in Procs : WF_vars(Work(p))

----------------------------------------------------------------------------
(* Properties. *)

Phases == Starting \cup Serving \cup {"out", "chmod", "unlinked"}
Outcomes == {"ok", "error", "absent", "refused", "fallback"}

\* Every variable keeps the shape its declaration describes.
SocketTypeOK ==
    /\ stateful \in {Procs, {}}
    /\ path \in Procs \cup {NoFile, NotSocket}
    /\ phase \in [Procs -> Phases]
    /\ backlog \in [Procs -> Seq(Peers)] /\ peer \in [Procs -> Peers]
    /\ served \in [Procs -> Nat] /\ clock \in [Procs -> Nat]
    /\ client \in [Clients -> {"idle", "open", "sent"} \cup Outcomes]
    /\ data \in [Peers -> {"none", "whole", "end"}]
    /\ applied \in [Clients -> Nat]
    /\ overlapped \in BOOLEAN /\ mistaken \in BOOLEAN

\* A loop that runs can be reached at its path, and no other has taken the
\* path or removed it, as long as no two starts overlap and no probe takes a
\* listener for a stale socket; and neither can happen when the processes share
\* a state file.
LoopReachable ==
    stateful = Procs \/ (~overlapped /\ ~mistaken) =>
        \A p \in Procs : phase[p] \in Serving => path = p

\* What a client is told: an answer means that its request was applied once, a
\* refusal that it never was; no request is applied twice, not even one that
\* its client has given up, or one whose loop was killed before it answered.
AnswersTell ==
    \A c \in Clients :
        /\ applied[c] <= 1
        /\ client[c] = "ok" => applied[c] = 1
        /\ client[c] \in {"absent", "refused", "fallback"} => applied[c] = 0

\* Clients that connect and send nothing delay a tick by one read timeout at
\* the most, however many they are.
TickDelayBounded ==
    \A p \in Procs : phase[p] \in {"sleep", "serve", "read", "reply"} =>
                         clock[p] <= Interval + IoTimeout

\* Every connection is taken from the backlog some day, served or reset,
\* whatever the clients before it do, unless there is a loop whose ticks
\* overrun its interval one after the other for ever: that one takes none.
Queued(c) == \E p \in Procs : c \in Range(backlog[p])
ConnectionsTaken ==
    (\A p \in Procs : []<>(phase[p] \notin {"tick", "top"})) =>
        \A c \in Clients : Queued(c) ~> ~Queued(c)
=============================================================================
