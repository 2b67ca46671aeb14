------------------------------ MODULE StdinPv ------------------------------
(***************************************************************************)
(* StdinPvSource (adapters/mod.rs): a thread reads lines from stdin and     *)
(* sends them over a channel that holds one; read_pv waits for a line with  *)
(* a timeout.  stdin is a pipe with a writer that may stop at any time.     *)
(***************************************************************************)
EXTENDS Integers, Sequences

CONSTANTS
    LineKinds,      \* what a line holds: "number", "blank" or "garbage"
    PipeLines,      \* bound: lines the pipe behind stdin holds
    StdinTimeout    \* --pv-stdin-timeout

ASSUME StdinAssumption ==
    /\ LineKinds \subseteq {"number", "blank", "garbage"}
    /\ PipeLines \in Nat \ {0} /\ StdinTimeout \in Nat

VARIABLES
    pipe,           \* lines written to stdin that the thread has not read
    closed,         \* has the writer closed its end?
    holding,        \* the line the thread has read and not sent yet, if any
    reader,         \* is the thread "alive" or "gone"?
    channel,        \* the lines sent and not received
    written,        \* history: number of the last line written
    received        \* history: number of the last line received

stdinVars == <<pipe, closed, holding, reader, channel, written, received>>

\* Numbers of lines count modulo a number beyond what can be pending.
LineMod == PipeLines + 3
After(n) == (n + 1) % LineMod
Lines == [kind : LineKinds \cup {"eof"}, n : 0 .. LineMod - 1]

StdinInit ==
    /\ pipe = <<>> /\ closed = FALSE
    /\ holding = <<>> /\ reader = "alive" /\ channel = <<>>
    /\ written = 0 /\ received = 0

----------------------------------------------------------------------------
(* The writer. *)

WriteLine(kind) ==
    /\ ~closed /\ Len(pipe) < PipeLines
    /\ pipe' = Append(pipe, [kind |-> kind, n |-> After(written)])
    /\ written' = After(written)
    /\ UNCHANGED <<closed, holding, reader, channel, received>>

CloseStdin ==
    /\ ~closed
    /\ closed' = TRUE
    /\ UNCHANGED <<pipe, holding, reader, channel, written, received>>

----------------------------------------------------------------------------
(* The thread. *)

\* read_line: a line, or the empty string at the end of stdin.
ReadLine ==
    /\ reader = "alive" /\ holding = <<>>
    /\ \/ /\ pipe # <<>>
          /\ holding' = <<Head(pipe)>> /\ pipe' = Tail(pipe)
       \/ /\ pipe = <<>> /\ closed
          /\ holding' = <<[kind |-> "eof", n |-> After(written)]>>
          /\ UNCHANGED pipe
    /\ UNCHANGED <<closed, reader, channel, written, received>>

AfterSend ==
    /\ reader' = IF Head(holding).kind = "eof" THEN "gone" ELSE "alive"
    /\ holding' = <<>>
    /\ UNCHANGED <<pipe, closed, written, received>>

\* Mutant: a line that finds the channel full is dropped (try_send).
TrySendLine ==
    /\ holding # <<>>
    /\ channel' = IF channel = <<>> THEN holding ELSE channel
    /\ AfterSend

\* tx.send blocks while the channel is full.
SendLine ==
    /\ holding # <<>> /\ channel = <<>>
    /\ channel' = holding
    /\ AfterSend

----------------------------------------------------------------------------
(* read_pv: one of its four answers, after a wait of `waited`. *)

Take ==
    /\ channel # <<>>
    /\ channel' = <<>> /\ received' = Head(channel).n
    /\ UNCHANGED <<pipe, closed, holding, reader, written>>

ReadPvOk == Take /\ Head(channel).kind = "number"

\* Mutant: a reader that is gone is taken for one that has no line yet.
StdinFailsWithLine(waited) ==
    \/ Take /\ Head(channel).kind # "number"
    \/ waited = StdinTimeout /\ channel = <<>> /\ reader = "alive"
       /\ UNCHANGED stdinVars

\* A blank line counts as the end of stdin, and fails as garbage does; a wait
\* that is over; a thread that has gone.
StdinFails(waited) ==
    \/ Take /\ Head(channel).kind # "number"
    \/ waited = StdinTimeout /\ channel = <<>> /\ UNCHANGED stdinVars
    \/ reader = "gone" /\ channel = <<>> /\ UNCHANGED stdinVars

----------------------------------------------------------------------------

\* Every line that is written is received once and in order, however reads
\* time out and lines arrive late: none is dropped between pipe, thread and
\* channel, and none overtakes another.
Pending == channel \o holding \o pipe
LinesOnce ==
    \A i \in 1 .. Len(Pending) : Pending[i].n = (received + i) % LineMod
=============================================================================
