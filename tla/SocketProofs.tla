---------------------------- MODULE SocketProofs ---------------------------
(***************************************************************************)
(* Proofs about ControlSocket, for any number of processes and clients: a   *)
(* running loop is reachable at its path, and silent clients delay a tick   *)
(* by one read timeout at most.                                             *)
(***************************************************************************)
EXTENDS ControlSocket, SequenceTheorems, TLAPS

Safe == stateful = Procs \/ (~overlapped /\ ~mistaken)

\* Who has bound and not yet left.
Bound(p) == phase[p] \in Serving \cup {"chmod"}

\* What makes LoopReachable inductive: the lock leaves one process running, and
\* so nobody to be mistaken for a stale socket; without overlap there is one
\* start at a time, and one that rightly found nobody listening has nobody
\* listening until it has bound.
ReachInv ==
    /\ stateful = Procs =>
           \A p, q \in Procs : phase[p] # "out" /\ phase[q] # "out" => p = q
    /\ ~overlapped =>
           \A p, q \in Procs :
               phase[p] \in Starting /\ phase[q] \in Starting => p = q
    /\ Safe => \A p \in Procs : Bound(p) => path = p
    /\ Safe => \A p, q \in Procs :
                   phase[p] \in {"unlink", "bind"} => ~Bound(q)

\* A loop that serves still has time before its tick.
ClockInv ==
    \A p \in Procs :
        /\ phase[p] = "sleep" => clock[p] <= Interval + IoTimeout
        /\ phase[p] \in {"serve", "read", "reply"} => clock[p] <= Interval
        /\ phase[p] \notin Serving => clock[p] = 0

SocketInv == SocketTypeOK /\ ReachInv /\ ClockInv

----------------------------------------------------------------------------
(* What the helpers do. *)

\* A process moves alone, and a start beside another is remembered.
LEMMA GoesFacts ==
    ASSUME SocketTypeOK, NEW p \in Procs, NEW to \in Phases, Goes(p, to)
    PROVE  /\ phase' \in [Procs -> Phases] /\ phase'[p] = to
           /\ \A q \in Procs : q # p => phase'[q] = phase[q]
           /\ overlapped' \in BOOLEAN
           /\ overlapped => overlapped'
           /\ ~overlapped' /\ to \in Starting =>
                  \A q \in Procs : q # p => phase[q] \notin Starting
<1>1. phase \in [Procs -> Phases] /\ overlapped \in BOOLEAN
    BY DEF SocketTypeOK
<1>2. phase' = [phase EXCEPT ![p] = to]
    BY DEF Goes
<1>3. /\ phase' \in [Procs -> Phases] /\ phase'[p] = to
      /\ \A q \in Procs : q # p => phase'[q] = phase[q]
    BY <1>1, <1>2
<1>4. overlapped' = (overlapped
          \/ \E q \in Procs \ {p} : to \in Starting /\ phase[q] \in Starting)
    BY DEF Goes
<1>5. overlapped' \in BOOLEAN /\ (overlapped => overlapped')
    BY <1>1, <1>4, Zenon
<1>6. ASSUME ~overlapped', to \in Starting, NEW q \in Procs, q # p
      PROVE  phase[q] \notin Starting
    <2>1. q \in Procs \ {p}
        BY <1>6
    <2> QED  BY <1>4, <1>6, <2>1, Zenon
<1> QED  BY <1>3, <1>5, <1>6

LEMMA MoveFacts ==
    ASSUME SocketTypeOK, NEW p \in Procs, NEW to \in Phases, Move(p, to)
    PROVE  /\ phase' \in [Procs -> Phases] /\ phase'[p] = to
           /\ \A q \in Procs : q # p => phase'[q] = phase[q]
           /\ overlapped' \in BOOLEAN
           /\ overlapped => overlapped'
           /\ ~overlapped' /\ to \in Starting =>
                  \A q \in Procs : q # p => phase[q] \notin Starting
           /\ mistaken' = mistaken
BY GoesFacts DEF Move

\* What the end of a process does to the clients keeps their shape.
LEMMA ExitFacts ==
    ASSUME SocketTypeOK, NEW p \in Procs, Exit(p)
    PROVE  /\ Move(p, "out")
           /\ stateful' = stateful /\ data' = data /\ applied' = applied
           /\ backlog' \in [Procs -> Seq(Peers)] /\ peer' \in [Procs -> Peers]
           /\ served' \in [Procs -> Nat]
           /\ clock' = [clock EXCEPT ![p] = 0]
           /\ client' \in [Clients -> {"idle", "open", "sent"} \cup Outcomes]
<1>1. backlog \in [Procs -> Seq(Peers)] /\ peer \in [Procs -> Peers]
      /\ served \in [Procs -> Nat]
      /\ client \in [Clients -> {"idle", "open", "sent"} \cup Outcomes]
    BY DEF SocketTypeOK
<1>2. Move(p, "out") /\ Idle(p)
      /\ stateful' = stateful /\ data' = data /\ applied' = applied
      /\ backlog' = [backlog EXCEPT ![p] = <<>>]
    BY DEF Exit
<1>3. peer' \in [Procs -> Peers] /\ served' \in [Procs -> Nat]
      /\ clock' = [clock EXCEPT ![p] = 0]
    BY <1>1, <1>2 DEF Idle, Peers
<1>4. backlog' \in [Procs -> Seq(Peers)]
    <2>1. <<>> \in Seq(Peers)
        OBVIOUS
    <2> QED  BY <1>1, <1>2, <2>1
<1>5. client' \in [Clients -> {"idle", "open", "sent"} \cup Outcomes]
    <2> DEFINE cut == {c \in Clients : c \in Range(backlog[p])
                          \/ (phase[p] \in {"read", "reply"} /\ peer[p] = c)}
    <2>1. client' = [c \in Clients |->
                        IF c \in cut /\ client[c] \in {"open", "sent"}
                        THEN "error" ELSE client[c]]
        BY DEF Exit
    <2> HIDE DEF cut
    <2> QED  BY <1>1, <2>1 DEF Outcomes
<1> QED  BY <1>2, <1>3, <1>4, <1>5

----------------------------------------------------------------------------
(* ReachInv: what a step of one process does to it. *)

\* A process that has bound goes on.
LEMMA ReachBound ==
    ASSUME SocketTypeOK, ReachInv, NEW p \in Procs, NEW to \in Serving,
           Bound(p), Move(p, to), path' = path, stateful' = stateful
    PROVE  ReachInv'
<1>1. to \in Phases /\ to # "out" /\ to \notin Starting
    BY DEF Phases, Serving, Starting
<1>2. /\ phase'[p] = to /\ \A q \in Procs : q # p => phase'[q] = phase[q]
      /\ (overlapped => overlapped') /\ mistaken' = mistaken
    BY <1>1, MoveFacts
<1>3. phase[p] # "out" /\ phase[p] \notin Starting
    BY DEF Bound, Serving, Starting
<1>4. Safe' => Safe
    BY <1>2 DEF Safe
<1>5. \A q \in Procs : Bound(q)' <=> Bound(q)
    BY <1>2 DEF Bound
<1>6. stateful' = Procs => \A q, r \in Procs :
          phase'[q] # "out" /\ phase'[r] # "out" => q = r
    BY <1>1, <1>2, <1>3 DEF ReachInv
<1>7. ~overlapped' => \A q, r \in Procs :
          phase'[q] \in Starting /\ phase'[r] \in Starting => q = r
    BY <1>1, <1>2, <1>3 DEF ReachInv
<1>8. Safe' => \A q \in Procs : Bound(q)' => path' = q
    BY <1>4, <1>5 DEF ReachInv
<1>9. Safe' => \A q, r \in Procs :
          phase'[q] \in {"unlink", "bind"} => ~Bound(r)'
    BY <1>1, <1>2, <1>4, <1>5 DEF ReachInv, Starting
<1> QED  BY <1>6, <1>7, <1>8, <1>9 DEF ReachInv

\* A process leaves, and takes with it at most the path that names it.
LEMMA ReachLeave ==
    ASSUME SocketTypeOK, ReachInv, NEW p \in Procs, NEW to \in {"out", "unlinked"},
           Move(p, to), phase[p] # "out", path' = path \/ Bound(p),
           stateful' = stateful
    PROVE  ReachInv'
<1>1. to \in Phases /\ to \notin Starting /\ to \notin Serving \cup {"chmod"}
    BY DEF Phases, Serving, Starting
<1>2. /\ phase'[p] = to /\ \A q \in Procs : q # p => phase'[q] = phase[q]
      /\ (overlapped => overlapped') /\ mistaken' = mistaken
    BY <1>1, MoveFacts
<1>3. Safe' => Safe
    BY <1>2 DEF Safe
<1>4. \A q \in Procs : Bound(q)' => Bound(q) /\ q # p
    BY <1>1, <1>2 DEF Bound
<1>5. stateful' = Procs => \A q, r \in Procs :
          phase'[q] # "out" /\ phase'[r] # "out" => q = r
    BY <1>2 DEF ReachInv
<1>6. ~overlapped' => \A q, r \in Procs :
          phase'[q] \in Starting /\ phase'[r] \in Starting => q = r
    BY <1>1, <1>2 DEF ReachInv
<1>7. Safe' => \A q \in Procs : Bound(q)' => path' = q
    <2> SUFFICES ASSUME Safe', NEW q \in Procs, Bound(q)'  PROVE path' = q
        OBVIOUS
    <2>1. Safe /\ Bound(q) /\ q # p
        BY <1>3, <1>4
    <2>2. path = q /\ (Bound(p) => path = p)
        BY <2>1 DEF ReachInv
    <2> QED  BY <2>1, <2>2
<1>8. Safe' => \A q, r \in Procs :
          phase'[q] \in {"unlink", "bind"} => ~Bound(r)'
    BY <1>1, <1>2, <1>3, <1>4 DEF ReachInv
<1> QED  BY <1>5, <1>6, <1>7, <1>8 DEF ReachInv

\* A process that starts has no other beside it, by the lock or by chance.
LEMMA ReachStart ==
    ASSUME SocketTypeOK, ReachInv, NEW p \in Procs, NEW to \in Starting,
           Move(p, to), phase[p] \in Starting \cup {"out"},
           stateful' = stateful,
           phase[p] = "out" /\ stateful = Procs =>
               \A q \in Procs : phase[q] = "out",
           path' = path \/ phase[p] = "unlink",
           to \in {"unlink", "bind"} =>
               phase[p] = "unlink" \/ \A q \in Procs : path = q => ~Bound(q)
    PROVE  ReachInv'
<1>1. to \in Phases /\ to # "out" /\ to \notin Serving \cup {"chmod"}
    BY DEF Phases, Serving, Starting
<1>2. /\ phase'[p] = to /\ \A q \in Procs : q # p => phase'[q] = phase[q]
      /\ (overlapped => overlapped') /\ mistaken' = mistaken
      /\ ~overlapped' => \A q \in Procs : q # p => phase[q] \notin Starting
    BY <1>1, MoveFacts
<1>3. Safe' => Safe
    BY <1>2 DEF Safe
<1>4. ~Bound(p) /\ \A q \in Procs : Bound(q)' <=> Bound(q)
    BY <1>1, <1>2 DEF Bound, Starting, Serving
<1>5. stateful' = Procs => \A q, r \in Procs :
          phase'[q] # "out" /\ phase'[r] # "out" => q = r
    BY <1>2 DEF ReachInv, Starting
<1>6. ~overlapped' => \A q, r \in Procs :
          phase'[q] \in Starting /\ phase'[r] \in Starting => q = r
    BY <1>2
<1>7. Safe' => \A q \in Procs : Bound(q)' => path' = q
    <2> SUFFICES ASSUME Safe', NEW q \in Procs, Bound(q)  PROVE path' = q
        BY <1>4
    <2>1. path = q /\ phase[p] # "unlink"
        BY <1>3 DEF ReachInv
    <2> QED  BY <2>1
<1>8. Safe' => \A q, r \in Procs :
          phase'[q] \in {"unlink", "bind"} => ~Bound(r)'
    <2> SUFFICES ASSUME Safe', NEW q \in Procs, NEW r \in Procs,
                        phase'[q] \in {"unlink", "bind"}
                 PROVE  ~Bound(r)
        BY <1>4
    <2>1. CASE q # p \/ phase[p] = "unlink"
        BY <1>2, <1>3, <2>1 DEF ReachInv
    <2>2. CASE q = p /\ phase[p] # "unlink"
        <3>1. path = r => ~Bound(r)
            BY <1>2, <2>2
        <3>2. Bound(r) => path = r
            BY <1>3 DEF ReachInv
        <3> QED  BY <3>1, <3>2
    <2> QED  BY <2>1, <2>2
<1> QED  BY <1>5, <1>6, <1>7, <1>8 DEF ReachInv

\* A process that binds is the only one, and the path names it.
LEMMA ReachBind ==
    ASSUME SocketTypeOK, ReachInv, NEW p \in Procs, phase[p] = "bind",
           Move(p, "chmod"), path' = p, stateful' = stateful
    PROVE  ReachInv'
<1>1. "chmod" \in Phases /\ "chmod" \notin Starting
    BY DEF Phases, Starting
<1>2. /\ phase'[p] = "chmod" /\ \A q \in Procs : q # p => phase'[q] = phase[q]
      /\ (overlapped => overlapped') /\ mistaken' = mistaken
    BY <1>1, MoveFacts
<1>3. Safe' => Safe
    BY <1>2 DEF Safe
<1>4. \A q \in Procs : Bound(q)' => q = p \/ Bound(q)
    BY <1>2 DEF Bound
<1>5. stateful' = Procs => \A q, r \in Procs :
          phase'[q] # "out" /\ phase'[r] # "out" => q = r
    BY <1>2 DEF ReachInv
<1>6. ~overlapped' => \A q, r \in Procs :
          phase'[q] \in Starting /\ phase'[r] \in Starting => q = r
    BY <1>1, <1>2 DEF ReachInv
<1>7. Safe' => \A q \in Procs : Bound(q)' => path' = q
    BY <1>3, <1>4 DEF ReachInv
<1>8. Safe' => \A q, r \in Procs :
          phase'[q] \in {"unlink", "bind"} => ~Bound(r)'
    <2> SUFFICES ASSUME Safe', NEW q \in Procs, NEW r \in Procs,
                        phase'[q] \in {"unlink", "bind"}, Bound(r)'
                 PROVE  FALSE
        OBVIOUS
    <2>1. q # p /\ phase[q] \in {"unlink", "bind"}
        BY <1>2
    <2>2. phase[p] \in Starting /\ phase[q] \in Starting
        BY <2>1 DEF Starting
    <2>3. phase[p] # "out" /\ phase[q] # "out"
        BY <2>1
    <2> QED  BY <1>3, <2>1, <2>2, <2>3 DEF ReachInv, Safe
<1> QED  BY <1>5, <1>6, <1>7, <1>8 DEF ReachInv

\* A listener is mistaken for a stale socket only where no lock is shared.
LEMMA ReachMistake ==
    ASSUME SocketTypeOK, ReachInv, NEW p \in Procs, phase[p] = "probe",
           Answered, Goes(p, "unlink"), mistaken' = TRUE, stateful' = stateful
    PROVE  ReachInv'
<1>1. "unlink" \in Phases /\ "unlink" \in Starting
    BY DEF Phases, Starting
<1>2. stateful # Procs
    <2>1. path \in Procs /\ phase[path] # "out" /\ path # p
        BY DEF Answered, Listening, Serving
    <2> QED  BY <2>1 DEF ReachInv
<1>3. ~Safe'
    BY <1>2 DEF Safe
<1>4. /\ phase'[p] = "unlink"
      /\ \A q \in Procs : q # p => phase'[q] = phase[q]
      /\ ~overlapped' => \A q \in Procs : q # p => phase[q] \notin Starting
    BY <1>1, GoesFacts
<1>5. ~overlapped' => \A q, r \in Procs :
          phase'[q] \in Starting /\ phase'[r] \in Starting => q = r
    BY <1>4
<1> QED  BY <1>2, <1>3, <1>5 DEF ReachInv

----------------------------------------------------------------------------
(* Type correctness. *)

\* The variables that hold what is typed besides what Goes sets.
RestTypeOK ==
    /\ stateful \in {Procs, {}}
    /\ path \in Procs \cup {NoFile, NotSocket}
    /\ backlog \in [Procs -> Seq(Peers)] /\ peer \in [Procs -> Peers]
    /\ served \in [Procs -> Nat] /\ clock \in [Procs -> Nat]
    /\ client \in [Clients -> {"idle", "open", "sent"} \cup Outcomes]
    /\ data \in [Peers -> {"none", "whole", "end"}]
    /\ applied \in [Clients -> Nat]

LEMMA GoesTyped ==
    ASSUME SocketTypeOK, NEW p \in Procs, NEW to \in Phases, Goes(p, to),
           RestTypeOK', mistaken' \in BOOLEAN
    PROVE  SocketTypeOK'
<1>1. phase' \in [Procs -> Phases] /\ overlapped' \in BOOLEAN
    BY GoesFacts
<1> QED  BY <1>1 DEF SocketTypeOK, RestTypeOK

LEMMA MoveTyped ==
    ASSUME SocketTypeOK, NEW p \in Procs, NEW to \in Phases, Move(p, to),
           RestTypeOK'
    PROVE  SocketTypeOK'
<1>1. Goes(p, to) /\ mistaken' \in BOOLEAN
    BY DEF Move, SocketTypeOK
<1> QED  BY <1>1, GoesTyped

LEMMA PhasesHold ==
    /\ Starting \subseteq Phases /\ Serving \subseteq Phases
    /\ {"out", "chmod", "unlinked"} \subseteq Phases
    /\ {"probe", "unlink", "bind"} \subseteq Starting
    /\ {"top", "sleep", "serve", "read", "reply", "tick"} \subseteq Serving
BY DEF Phases, Starting, Serving

\* A process that ends.
LEMMA ExitTyped ==
    ASSUME SocketTypeOK, NEW p \in Procs, Exit(p),
           path' \in Procs \cup {NoFile, NotSocket}
    PROVE  SocketTypeOK'
<1>1. clock' \in [Procs -> Nat]
    <2>1. clock' = [clock EXCEPT ![p] = 0]
        BY ExitFacts
    <2> QED  BY <2>1 DEF SocketTypeOK
<1>2. RestTypeOK'
    BY <1>1, ExitFacts DEF SocketTypeOK, RestTypeOK
<1> QED  BY <1>2, ExitFacts, MoveTyped, PhasesHold

\* Every step of a process that starts.
LEMMA StartTyped ==
    ASSUME SocketTypeOK, NEW p \in Procs,
           Open(p) \/ Probe(p) \/ Unlink(p) \/ Bind(p) \/ Chmod(p)
    PROVE  SocketTypeOK'
<1>1. RestTypeOK
    BY DEF SocketTypeOK, RestTypeOK
<1>2. CASE Open(p)
    <2>1. RestTypeOK' /\ Move(p, "probe")
        BY <1>1, <1>2 DEF Open, clientVars, RestTypeOK
    <2> QED  BY <2>1, MoveTyped, PhasesHold
<1>3. CASE Probe(p)
    <2>1. CASE path = NoFile \/ Refused
        <3>1. CASE Exit(p)
            BY <1>1, <1>3, <3>1, ExitTyped DEF Probe, RestTypeOK
        <3>2. CASE ~Exit(p) /\ ~(Answered)
            <4>1. /\ Move(p, IF path = NoFile THEN "bind" ELSE "unlink")
                  /\ RestTypeOK'
                BY <1>1, <1>3, <3>2 DEF Probe, clientVars, RestTypeOK, Answered
            <4> QED  BY <4>1, MoveTyped, PhasesHold
        <3>3. CASE Answered
            BY <2>1, <3>3, SocketAssumption DEF Answered, Refused
        <3> QED  BY <3>1, <3>2, <3>3
    <2>2. CASE path = NotSocket
        <3>1. Exit(p) /\ path' = path
            BY <1>3, <2>2, SocketAssumption DEF Probe, Answered, Refused
        <3> QED  BY <1>1, <3>1, ExitTyped DEF RestTypeOK
    <2>3. CASE Answered /\ Move(p, "out")
        <3>1. /\ path \in Procs
              /\ backlog' = [backlog EXCEPT ![path] = Append(@, p)]
              /\ UNCHANGED <<stateful, path, peer, served, clock, clientVars>>
            <4>1. "out" # "unlink" /\ phase'[p] = "out"
                BY <2>3, MoveFacts, PhasesHold
            <4>2. ~Goes(p, "unlink")
                BY <4>1, GoesFacts, PhasesHold
            <4> QED  BY <1>3, <2>3, <4>2, SocketAssumption
                     DEF Probe, Answered, Refused
        <3>2. Append(backlog[path], p) \in Seq(Peers)
            BY <1>1, <3>1 DEF RestTypeOK, Peers
        <3>3. backlog' \in [Procs -> Seq(Peers)]
            BY <1>1, <3>1, <3>2 DEF RestTypeOK
        <3>4. RestTypeOK'
            BY <1>1, <3>1, <3>3 DEF RestTypeOK, clientVars
        <3> QED  BY <2>3, <3>4, MoveTyped, PhasesHold
    <2>4. CASE Goes(p, "unlink") /\ mistaken' = TRUE
               /\ UNCHANGED <<stateful, path, backlog, peer, served, clock,
                              clientVars>>
        <3>1. RestTypeOK'
            BY <1>1, <2>4 DEF RestTypeOK, clientVars
        <3> QED  BY <2>4, <3>1, GoesTyped, PhasesHold
    <2> QED  BY <1>3, <2>1, <2>2, <2>3, <2>4 DEF Probe
<1>4. CASE Unlink(p)
    <2>1. CASE path = NoFile
        BY <1>4, <2>1, ExitTyped DEF Unlink
    <2>2. CASE path # NoFile
        <3>1. RestTypeOK' /\ Move(p, "bind")
            BY <1>1, <1>4, <2>2 DEF Unlink, clientVars, RestTypeOK
        <3> QED  BY <3>1, MoveTyped, PhasesHold
    <2> QED  BY <2>1, <2>2
<1>5. CASE Bind(p)
    <2>1. CASE path # NoFile
        BY <1>1, <1>5, <2>1, ExitTyped DEF Bind, RestTypeOK
    <2>2. CASE path = NoFile
        <3>1. RestTypeOK' /\ Move(p, "chmod")
            BY <1>1, <1>5, <2>2 DEF Bind, clientVars, RestTypeOK
        <3> QED  BY <3>1, MoveTyped, PhasesHold
    <2> QED  BY <2>1, <2>2
<1>6. CASE Chmod(p)
    <2>1. CASE path = NoFile
        BY <1>1, <1>6, <2>1, ExitTyped DEF Chmod, RestTypeOK
    <2>2. CASE path # NoFile
        <3>1. RestTypeOK' /\ Move(p, "sleep")
            BY <1>1, <1>6, <2>2 DEF Chmod, clientVars, RestTypeOK
        <3> QED  BY <3>1, MoveTyped, PhasesHold
    <2> QED  BY <2>1, <2>2
<1> QED  BY <1>2, <1>3, <1>4, <1>5, <1>6

\* Every step of a loop that runs, and its end.
LEMMA LoopTyped ==
    ASSUME SocketTypeOK, NEW p \in Procs,
           \/ Sleep(p) \/ Due(p) \/ Accept(p) \/ NoMore(p)
           \/ Handle(p) \/ Stall(p) \/ Reply(p) \/ Tick(p) \/ Top(p)
           \/ Drop(p) \/ Close(p) \/ Kill(p)
    PROVE  SocketTypeOK'
<1>1. RestTypeOK
    BY DEF SocketTypeOK, RestTypeOK
<1>2. peer[p] \in Peers /\ p \in Peers
    BY <1>1 DEF RestTypeOK, Peers
<1>3. CASE Sleep(p)
    <2>1. RestTypeOK' /\ Move(p, "serve")
        BY <1>1, <1>3 DEF Sleep, clientVars, RestTypeOK
    <2> QED  BY <2>1, MoveTyped, PhasesHold
<1>4. CASE Wake(p)
    <2>1. clock' \in [Procs -> Nat]
        BY <1>1, <1>4, SocketAssumption DEF Wake, RestTypeOK
    <2>2. RestTypeOK' /\ Move(p, "tick")
        BY <1>1, <1>4, <2>1 DEF Wake, clientVars, RestTypeOK
    <2> QED  BY <2>2, MoveTyped, PhasesHold
<1>5. CASE Accept(p)
    <2>1. backlog[p] \in Seq(Peers) /\ backlog[p] # <<>>
        BY <1>1, <1>5 DEF Accept, RestTypeOK
    <2>2. Head(backlog[p]) \in Peers /\ Tail(backlog[p]) \in Seq(Peers)
        BY <2>1
    <2>3. RestTypeOK' /\ Move(p, "read")
        BY <1>1, <1>5, <2>2 DEF Accept, clientVars, RestTypeOK
    <2> QED  BY <2>3, MoveTyped, PhasesHold
<1>6. CASE NoMore(p)
    <2>1. RestTypeOK' /\ Move(p, "sleep")
        BY <1>1, <1>6 DEF NoMore, clientVars, RestTypeOK
    <2> QED  BY <2>1, MoveTyped, PhasesHold
<1>7. CASE Handle(p)
    <2>1. applied' = IF data[peer[p]] = "whole"
                     THEN [applied EXCEPT ![peer[p]] = @ + 1] ELSE applied
        BY <1>7 DEF Handle
    <2>2. applied' \in [Clients -> Nat]
        <3>1. applied \in [Clients -> Nat]
            BY <1>1 DEF RestTypeOK
        <3> DEFINE d == peer[p]
        <3>2. applied' = [applied EXCEPT ![d] = applied[d] + 1]
              \/ applied' = applied
            BY <2>1
        <3>3. \A x \in Clients : x = d => applied[d] + 1 \in Nat
            BY <3>1
        <3> HIDE DEF d
        <3> QED  BY <3>1, <3>2, <3>3
    <2>3. RestTypeOK' /\ Move(p, "reply")
        BY <1>1, <1>7, <2>2 DEF Handle, RestTypeOK
    <2> QED  BY <2>3, MoveTyped, PhasesHold
<1>8. CASE Stall(p)
    <2>1. clock' \in [Procs -> Nat]
        BY <1>1, <1>8, SocketAssumption DEF Stall, RestTypeOK
    <2>2. client' \in [Clients -> {"idle", "open", "sent"} \cup Outcomes]
        BY <1>1, <1>8 DEF Stall, RestTypeOK, Outcomes
    <2>3. RestTypeOK' /\ Move(p, "sleep")
        BY <1>1, <1>2, <1>8, <2>1, <2>2 DEF Stall, RestTypeOK
    <2> QED  BY <2>3, MoveTyped, PhasesHold
<1>9. CASE Reply(p)
    <2>1. client' \in [Clients -> {"idle", "open", "sent"} \cup Outcomes]
        BY <1>1, <1>9 DEF Reply, RestTypeOK, Outcomes
    <2>2. RestTypeOK' /\ Move(p, "serve")
        BY <1>1, <1>2, <1>9, <2>1 DEF Reply, RestTypeOK
    <2> QED  BY <2>2, MoveTyped, PhasesHold
<1>10. CASE Tick(p)
    <2>1. clock' \in [Procs -> Nat]
        BY <1>1, <1>10, SocketAssumption DEF Tick, RestTypeOK
    <2>2. RestTypeOK' /\ Move(p, "top")
        BY <1>1, <1>10, <2>1 DEF Tick, clientVars, RestTypeOK
    <2> QED  BY <2>2, MoveTyped, PhasesHold
<1>11. CASE Drop(p)
    <2>1. RestTypeOK' /\ Move(p, "unlinked")
        BY <1>1, <1>2, <1>11 DEF Drop, Idle, clientVars, RestTypeOK
    <2> QED  BY <2>1, MoveTyped, PhasesHold
<1>12. CASE Close(p)
    BY <1>1, <1>12, ExitTyped DEF Close, RestTypeOK
<1>13. CASE Kill(p)
    BY <1>1, <1>13, ExitTyped DEF Kill, RestTypeOK
<1>14. CASE Top(p) /\ ~Wake(p)
    <2>1. RestTypeOK' /\ Move(p, "sleep")
        BY <1>1, <1>14 DEF Top, clientVars, RestTypeOK
    <2> QED  BY <2>1, MoveTyped, PhasesHold
<1> QED  BY <1>3, <1>4, <1>5, <1>6, <1>7, <1>8, <1>9, <1>10, <1>11, <1>12,
            <1>13, <1>14 DEF Due

\* Every step of a client.
LEMMA ClientTyped ==
    ASSUME SocketTypeOK, NEW c \in Clients, Client(c)
    PROVE  SocketTypeOK'
<1> USE DEF SocketTypeOK, procVars
<1>1. c \in Peers
    BY DEF Peers
<1>2. CASE Connect(c)
    <2>1. UNCHANGED <<stateful, path, phase, peer, served, clock, data, applied,
                      overlapped, mistaken>>
        BY <1>2 DEF Connect
    <2>2. client' \in [Clients -> {"idle", "open", "sent"} \cup Outcomes]
        BY <1>2 DEF Connect, Outcomes
    <2>3. backlog' \in [Procs -> Seq(Peers)]
        <3>1. CASE backlog' = backlog
            BY <3>1
        <3>2. CASE path \in Procs /\ backlog' = [backlog EXCEPT ![path] = Append(@, c)]
            <4>1. Append(backlog[path], c) \in Seq(Peers)
                BY <1>1, <3>2
            <4> QED  BY <3>2, <4>1
        <3> QED  BY <1>2, <3>1, <3>2 DEF Connect, Answered
    <2> QED  BY <2>1, <2>2, <2>3
<1>3. CASE Send(c)
    BY <1>1, <1>3 DEF Send
<1>4. CASE Leave(c)
    BY <1>1, <1>4 DEF Leave, Outcomes
<1>5. CASE GiveUp(c)
    BY <1>5 DEF GiveUp, Outcomes
<1> QED  BY <1>2, <1>3, <1>4, <1>5 DEF Client

----------------------------------------------------------------------------
(* The steps of the invariant. *)

LEMMA InvInit ==
    ASSUME Init
    PROVE  SocketInv
<1>1. SocketTypeOK
    <2>1. <<>> \in Seq(Peers)
        OBVIOUS
    <2> QED  BY <2>1 DEF Init, SocketTypeOK, Phases, Peers
<1>2. \A p \in Procs : phase[p] = "out" /\ clock[p] = 0
    BY DEF Init
<1>3. ReachInv
    BY <1>2 DEF ReachInv, Bound, Starting, Serving
<1>4. ClockInv
    BY <1>2, SocketAssumption DEF ClockInv
<1> QED  BY <1>1, <1>3, <1>4 DEF SocketInv

\* Who runs, and where the path leads, after a step of a process.
LEMMA ReachStep ==
    ASSUME SocketTypeOK, ReachInv, NEW p \in Procs, Process(p)
    PROVE  ReachInv'
<1>1. CASE Open(p)
    <2>1. stateful = Procs => \A q \in Procs : phase[q] = "out"
        BY <1>1 DEF Open, HoldsLock
    <2>2. Move(p, "probe") /\ phase[p] = "out"
          /\ stateful' = stateful /\ path' = path
        BY <1>1 DEF Open
    <2> QED  BY <2>1, <2>2, ReachStart, PhasesHold
<1>2. CASE Probe(p)
    <2>1. phase[p] = "probe" /\ path' = path
        BY <1>2 DEF Probe
    <2>2. CASE Exit(p)
        BY <2>1, <2>2, ExitFacts, ReachLeave
    <2>3. CASE Move(p, "out") /\ stateful' = stateful
        BY <2>1, <2>3, ReachLeave
    <2>4. CASE /\ path = NoFile \/ Refused
               /\ Move(p, IF path = NoFile THEN "bind" ELSE "unlink")
               /\ stateful' = stateful
        <3>1. \A q \in Procs : path = q => ~Bound(q)
            BY <2>4, SocketAssumption DEF Refused, Listening, Bound
        <3>2. phase[p] \in Starting
            BY <2>1, PhasesHold
        <3> QED  BY <2>1, <2>4, <3>1, <3>2, ReachStart, PhasesHold
    <2>5. CASE Answered /\ Goes(p, "unlink") /\ mistaken' = TRUE
               /\ stateful' = stateful
        BY <2>1, <2>5, ReachMistake
    <2> QED  BY <1>2, <2>2, <2>3, <2>4, <2>5 DEF Probe
<1>3. CASE Unlink(p)
    <2>1. phase[p] = "unlink" /\ path' = NoFile
        BY <1>3 DEF Unlink
    <2>2. CASE path = NoFile
        <3>1. Exit(p)
            BY <1>3, <2>2 DEF Unlink
        <3> QED  BY <2>1, <2>2, <3>1, ExitFacts, ReachLeave
    <2>3. CASE path # NoFile
        <3>1. Move(p, "bind") /\ stateful' = stateful
            BY <1>3, <2>3 DEF Unlink
        <3> QED  BY <2>1, <3>1, ReachStart, PhasesHold
    <2> QED  BY <2>2, <2>3
<1>4. CASE Bind(p)
    <2>1. CASE path # NoFile
        <3>1. Exit(p) /\ path' = path /\ phase[p] # "out"
            BY <1>4, <2>1 DEF Bind
        <3> QED  BY <3>1, ExitFacts, ReachLeave
    <2>2. CASE path = NoFile
        BY <1>4, <2>2, ReachBind DEF Bind
    <2> QED  BY <2>1, <2>2
<1>5. CASE Chmod(p)
    <2>1. phase[p] = "chmod" /\ path' = path /\ Bound(p)
        BY <1>5 DEF Chmod, Bound
    <2>2. CASE path = NoFile
        <3>1. Exit(p)
            BY <1>5, <2>2 DEF Chmod
        <3> QED  BY <2>1, <3>1, ExitFacts, ReachLeave
    <2>3. CASE path # NoFile
        <3>1. Move(p, "sleep") /\ stateful' = stateful
            BY <1>5, <2>3 DEF Chmod
        <3> QED  BY <2>1, <3>1, ReachBound, PhasesHold
    <2> QED  BY <2>2, <2>3
<1>6. CASE \/ Sleep(p) \/ Due(p) \/ Accept(p) \/ NoMore(p)
           \/ Handle(p) \/ Stall(p) \/ Reply(p) \/ Tick(p) \/ Top(p)
    <2> DEFINE Ours == {"top", "sleep", "serve", "read", "reply", "tick"}
    <2>1. phase[p] \in Ours /\ path' = path /\ stateful' = stateful
        BY <1>6 DEF Sleep, Due, Accept, NoMore, Handle, Stall, Reply, Tick,
                    Top, Wake
    <2>2. \E to \in Ours : Move(p, to)
        BY <1>6 DEF Sleep, Due, Accept, NoMore, Handle, Stall, Reply, Tick,
                    Top, Wake
    <2>3. Bound(p)
        BY <2>1, PhasesHold DEF Bound
    <2> QED  BY <2>1, <2>2, <2>3, ReachBound, PhasesHold
<1>7. CASE Drop(p)
    <2>1. phase[p] \in {"top", "sleep", "tick"} /\ Move(p, "unlinked")
          /\ stateful' = stateful
        BY <1>7 DEF Drop
    <2>2. Bound(p)
        BY <2>1, PhasesHold DEF Bound
    <2> QED  BY <2>1, <2>2, ReachLeave
<1>8. CASE Close(p) \/ Kill(p)
    <2>1. Exit(p) /\ path' = path /\ phase[p] # "out"
        BY <1>8 DEF Close, Kill
    <2> QED  BY <2>1, ExitFacts, ReachLeave
<1> QED  BY <1>1, <1>2, <1>3, <1>4, <1>5, <1>6, <1>7, <1>8 DEF Process, Work

\* The time since the last deadline, after a step of a process.
LEMMA ClockStep ==
    ASSUME SocketTypeOK, ClockInv, NEW p \in Procs, Process(p)
    PROVE  ClockInv'
<1>1. clock \in [Procs -> Nat] /\ Interval \in Nat /\ IoTimeout \in Nat
    BY SocketAssumption DEF SocketTypeOK
\* All but the process itself keep their phase and their time.
<1>2. ASSUME NEW to \in Phases, Goes(p, to), NEW t \in Nat,
             clock' = [clock EXCEPT ![p] = t],
             to = "sleep" => t <= Interval + IoTimeout,
             to \in {"serve", "read", "reply"} => t <= Interval,
             to \notin Serving => t = 0
      PROVE  ClockInv'
    <2>1. /\ phase'[p] = to /\ \A q \in Procs : q # p => phase'[q] = phase[q]
        BY <1>2, GoesFacts
    <2>2. /\ clock'[p] = t /\ \A q \in Procs : q # p => clock'[q] = clock[q]
        BY <1>1, <1>2
    <2> QED  BY <1>2, <2>1, <2>2 DEF ClockInv
<1>3. ASSUME NEW to \in Phases, Goes(p, to), clock' = clock,
             to = "sleep" => clock[p] <= Interval + IoTimeout,
             to \in {"serve", "read", "reply"} => clock[p] <= Interval,
             to \notin Serving => clock[p] = 0
      PROVE  ClockInv'
    <2>1. clock' = [clock EXCEPT ![p] = clock[p]] /\ clock[p] \in Nat
        BY <1>1, <1>3
    <2> QED  BY <1>2, <1>3, <2>1
<1>4. 0 <= Interval + IoTimeout /\ 0 <= Interval /\ 0 \in Nat
    BY <1>1
<1>5. ASSUME Exit(p)  PROVE ClockInv'
    <2>1. clock' = [clock EXCEPT ![p] = 0] /\ Goes(p, "out")
        BY <1>5, ExitFacts DEF Move
    <2> QED  BY <1>2, <1>4, <2>1, PhasesHold
<1>6. phase[p] \in {"out", "probe", "unlink", "bind", "chmod", "unlinked"} =>
          clock[p] = 0
    BY DEF ClockInv, Serving
<1>7. CASE Open(p) \/ Probe(p) \/ Unlink(p) \/ Bind(p) \/ Chmod(p)
    <2>1. clock[p] = 0
        BY <1>6, <1>7 DEF Open, Probe, Unlink, Bind, Chmod
    <2>2. Exit(p) \/ /\ clock' = clock
                     /\ \E to \in {"probe", "bind", "unlink", "out", "chmod", "sleep"} :
                            Goes(p, to)
        BY <1>7 DEF Open, Probe, Unlink, Bind, Chmod, Move
    <2> QED  BY <1>3, <1>4, <1>5, <2>1, <2>2, PhasesHold
<1>8. CASE Sleep(p)
    <2>1. Goes(p, "serve") /\ clock' = [clock EXCEPT ![p] = clock[p] + 1]
          /\ clock[p] < Interval
        BY <1>8 DEF Sleep, Move
    <2>2. clock[p] + 1 \in Nat /\ clock[p] + 1 <= Interval
          /\ clock[p] + 1 <= Interval + IoTimeout
        BY <1>1, <2>1
    <2> QED  BY <1>2, <2>1, <2>2, PhasesHold
<1>9. CASE NoMore(p)
    <2>1. clock' = clock /\ Goes(p, "sleep") /\ phase[p] = "serve"
        BY <1>9 DEF NoMore, Move
    <2>2. clock[p] <= Interval + IoTimeout
        BY <1>1, <2>1 DEF ClockInv
    <2> QED  BY <1>3, <2>1, <2>2, PhasesHold
<1>10. CASE Accept(p) \/ Handle(p) \/ Reply(p)
    <2>1. clock' = clock /\ phase[p] \in {"serve", "read", "reply"}
          /\ \E to \in {"serve", "read", "reply"} : Goes(p, to)
        BY <1>10 DEF Accept, Handle, Reply, Move
    <2>2. clock[p] <= Interval
        BY <2>1 DEF ClockInv
    <2> QED  BY <1>3, <2>1, <2>2, PhasesHold
<1>11. CASE Stall(p)
    <2>1. Goes(p, "sleep") /\ phase[p] = "read"
          /\ clock' = [clock EXCEPT ![p] = clock[p] + IoTimeout]
        BY <1>11 DEF Stall, Move
    <2>2. clock[p] <= Interval
        BY <2>1 DEF ClockInv
    <2>3. clock[p] + IoTimeout \in Nat
          /\ clock[p] + IoTimeout <= Interval + IoTimeout
        BY <1>1, <2>2
    <2> QED  BY <1>2, <2>1, <2>3, PhasesHold
<1>12. CASE Tick(p)
    <2>1. PICK d \in 0 .. TickCap : clock' = [clock EXCEPT ![p] = clock[p] + d]
        BY <1>12 DEF Tick
    <2>2. clock[p] + d \in Nat
        BY <1>1, SocketAssumption
    <2>3. Goes(p, "top")
        BY <1>12 DEF Tick, Move
    <2> QED  BY <1>2, <2>1, <2>2, <2>3, PhasesHold
<1>13. CASE Drop(p)
    BY <1>2, <1>4, <1>13, PhasesHold DEF Drop, Idle, Move
<1>15. CASE Wake(p)
    <2>1. Goes(p, "tick")
          /\ clock' = [clock EXCEPT ![p] = clock[p] % Interval]
        BY <1>15 DEF Wake, Move
    <2>2. clock[p] % Interval \in Nat
        BY <1>1, SocketAssumption
    <2> QED  BY <1>2, <2>1, <2>2, PhasesHold
<1>16. CASE Top(p) /\ ~Wake(p)
    <2>1. clock' = clock /\ Goes(p, "sleep") /\ clock[p] < Interval
        BY <1>16 DEF Top, Move
    <2>2. clock[p] <= Interval + IoTimeout
        BY <1>1, <2>1
    <2> QED  BY <1>3, <2>1, <2>2, PhasesHold
<1>14. CASE Close(p) \/ Kill(p)
    BY <1>5, <1>14 DEF Close, Kill
<1> QED  BY <1>7, <1>8, <1>9, <1>10, <1>11, <1>12, <1>13, <1>14, <1>15, <1>16
         DEF Process, Work, Due

\* A client leaves the processes and the path alone.
LEMMA ClientKeeps ==
    ASSUME ReachInv, ClockInv, NEW c \in Clients, Client(c)
    PROVE  ReachInv' /\ ClockInv'
<1>1. UNCHANGED <<stateful, path, phase, clock, overlapped, mistaken>>
    BY DEF Client, Connect, Send, Leave, GiveUp, procVars
<1> QED  BY <1>1 DEF ReachInv, ClockInv, Safe, Bound

LEMMA InvStep ==
    ASSUME SocketInv, [Next]_vars
    PROVE  SocketInv'
<1> USE DEF SocketInv
<1>1. ASSUME NEW p \in Procs, Process(p)  PROVE SocketInv'
    BY <1>1, StartTyped, LoopTyped, ReachStep, ClockStep DEF Process, Work
<1>2. ASSUME NEW c \in Clients, Client(c)  PROVE SocketInv'
    BY <1>2, ClientTyped, ClientKeeps
<1>3. CASE UNCHANGED vars
    BY <1>3 DEF vars, procVars, clientVars, SocketTypeOK, ReachInv, ClockInv,
                Safe, Bound
<1> QED  BY <1>1, <1>2, <1>3 DEF Next

THEOREM InvHolds == Spec => []SocketInv
<1>1. Init => SocketInv
    BY InvInit
<1>2. SocketInv /\ [Next]_vars => SocketInv'
    BY InvStep
<1> QED  BY <1>1, <1>2, PTL DEF Spec

----------------------------------------------------------------------------
(* Theorems. *)

\* Every variable keeps its shape.
THEOREM SocketTyped == Spec => []SocketTypeOK
<1>1. SocketInv => SocketTypeOK
    BY DEF SocketInv
<1> QED  BY <1>1, InvHolds, PTL

\* With any number of processes a running loop is reachable at its path, if
\* they share a state file, or if their starts do not overlap and no connect
\* of a probe fails at a listener.
THEOREM LoopIsReachable == Spec => []LoopReachable
<1>1. SocketInv => LoopReachable
    BY DEF SocketInv, ReachInv, LoopReachable, Safe, Bound
<1> QED  BY <1>1, InvHolds, PTL

\* Any number of silent clients delays a tick by one read timeout at most.
THEOREM TickDelayIsBounded == Spec => []TickDelayBounded
<1>1. SocketInv => TickDelayBounded
    BY SocketAssumption DEF SocketInv, SocketTypeOK, ClockInv, TickDelayBounded
<1> QED  BY <1>1, InvHolds, PTL

----------------------------------------------------------------------------
(* Answers. *)

\* Where the connection of a client is: in a backlog, or being served.
At(p, i, c) ==
    \/ i = 0 /\ phase[p] \in {"read", "reply"} /\ peer[p] = c
    \/ i \in 1 .. Len(backlog[p]) /\ backlog[p][i] = c

\* Who has no connection, and never had one.
Without == {"idle", "absent", "refused", "fallback"}

\* A client has one connection at most, its request is not applied before the
\* connection has been served, and it waits for an answer until then.
ConnOf(c) ==
    /\ \A p, q \in Procs, i, j \in Nat :
           At(p, i, c) /\ At(q, j, c) => p = q /\ i = j
    /\ client[c] \in Without =>
           applied[c] = 0 /\ \A p \in Procs, i \in Nat : ~At(p, i, c)
    /\ \A p \in Procs, i \in Nat :
           At(p, i, c) /\ (i > 0 \/ phase[p] = "read") => applied[c] = 0
    /\ \A p \in Procs : At(p, 0, c) /\ phase[p] = "reply" =>
           /\ client[c] # "open"
           /\ client[c] = "sent" => applied[c] = 1
    /\ client[c] \in {"idle", "open"} => data[c] = "none"
    /\ client[c] = "sent" => data[c] = "whole"
    /\ applied[c] <= 1
    /\ client[c] = "ok" => applied[c] = 1

ConnInv == \A c \in Clients : ConnOf(c)

\* A step that makes no connection, and applies nothing.
LEMMA ConnShrinks ==
    ASSUME NEW c \in Clients, ConnOf(c),
           applied'[c] = applied[c], data'[c] = data[c],
           \/ client'[c] = client[c]
           \/ client'[c] = "error"
           \/ client'[c] = "ok" /\ applied[c] = 1,
           \A q \in Procs, i \in Nat :
               At(q, i, c)' => At(q, i, c) /\ (i > 0 \/ phase'[q] = phase[q])
    PROVE  ConnOf(c)'
<1>1. client'[c] \in Without => client'[c] = client[c]
    BY DEF Without
<1>2. \A p, q \in Procs, i, j \in Nat :
          At(p, i, c)' /\ At(q, j, c)' => p = q /\ i = j
    BY DEF ConnOf
<1>3. client'[c] \in Without =>
          applied'[c] = 0 /\ \A p \in Procs, i \in Nat : ~At(p, i, c)'
    BY <1>1 DEF ConnOf
<1>4. \A p \in Procs, i \in Nat :
          At(p, i, c)' /\ (i > 0 \/ phase'[p] = "read") => applied'[c] = 0
    BY DEF ConnOf
<1>5. \A p \in Procs : At(p, 0, c)' /\ phase'[p] = "reply" =>
          /\ client'[c] # "open"
          /\ client'[c] = "sent" => applied'[c] = 1
    <2>1. \A p \in Procs : At(p, 0, c)' => At(p, 0, c) /\ phase'[p] = phase[p]
        OBVIOUS
    <2> QED  BY <2>1 DEF ConnOf
<1>6. /\ client'[c] \in {"idle", "open"} => data'[c] = "none"
      /\ client'[c] = "sent" => data'[c] = "whole"
      /\ applied'[c] <= 1
      /\ client'[c] = "ok" => applied'[c] = 1
    BY DEF ConnOf
<1> QED  BY <1>2, <1>3, <1>4, <1>5, <1>6 DEF ConnOf

\* A step of a process that takes no connection up keeps them where they are,
\* or cuts all of its own.
LEMMA ShrinkAt ==
    ASSUME SocketTypeOK, NEW p \in Procs, NEW to \in Phases \ {"read", "reply"},
           Goes(p, to),
           backlog' = backlog \/ backlog' = [backlog EXCEPT ![p] = <<>>],
           peer' = peer \/ peer' = [peer EXCEPT ![p] = p],
           NEW c, NEW q \in Procs, NEW i \in Nat, At(q, i, c)'
    PROVE  At(q, i, c) /\ (i > 0 \/ phase'[q] = phase[q])
<1>1. /\ phase'[p] = to /\ \A r \in Procs : r # p => phase'[r] = phase[r]
    BY GoesFacts
<1>2. backlog \in [Procs -> Seq(Peers)] /\ peer \in [Procs -> Peers]
    BY DEF SocketTypeOK
<1>3. CASE i = 0 /\ phase'[q] \in {"read", "reply"} /\ peer'[q] = c
    <2>1. q # p
        BY <1>1, <1>3
    <2>2. phase'[q] = phase[q] /\ peer'[q] = peer[q]
        BY <1>1, <1>2, <2>1
    <2> QED  BY <1>3, <2>2 DEF At
<1>4. CASE i \in 1 .. Len(backlog'[q]) /\ backlog'[q][i] = c
    <2>1. backlog'[q] = backlog[q] \/ backlog'[q] = <<>>
        BY <1>2
    <2>2. backlog'[q] = backlog[q]
        BY <1>4, <2>1
    <2>3. i > 0
        BY <1>4, <2>2
    <2> QED  BY <1>4, <2>2, <2>3 DEF At
<1> QED  BY <1>3, <1>4 DEF At

\* The steps of a process that ends, or that does nothing with a connection.
LEMMA ConnQuiet ==
    ASSUME SocketTypeOK, ConnInv, NEW p \in Procs,
           NEW to \in Phases \ {"read", "reply"}, Goes(p, to),
           backlog' = backlog \/ backlog' = [backlog EXCEPT ![p] = <<>>],
           peer' = peer \/ peer' = [peer EXCEPT ![p] = p],
           applied' = applied, data' = data,
           \A c \in Clients :
               \/ client'[c] = client[c]
               \/ client'[c] = "error"
               \/ client'[c] = "ok" /\ applied[c] = 1
    PROVE  ConnInv'
<1> SUFFICES ASSUME NEW c \in Clients  PROVE ConnOf(c)'
    BY DEF ConnInv
<1>1. ConnOf(c)
    BY DEF ConnInv
<1>2. ASSUME NEW q \in Procs, NEW i \in Nat, At(q, i, c)'
      PROVE  At(q, i, c) /\ (i > 0 \/ phase'[q] = phase[q])
    BY <1>2, ShrinkAt
<1> QED  BY <1>1, <1>2, ConnShrinks

LEMMA ConnExit ==
    ASSUME SocketTypeOK, ConnInv, NEW p \in Procs, Exit(p)
    PROVE  ConnInv'
<1>1. "out" \in Phases \ {"read", "reply"} /\ Move(p, "out")
    BY PhasesHold DEF Exit
<1>2. \A c \in Clients : client'[c] = client[c] \/ client'[c] = "error"
    <2> DEFINE cut == {c \in Clients : c \in Range(backlog[p])
                          \/ (phase[p] \in {"read", "reply"} /\ peer[p] = c)}
    <2>1. client' = [c \in Clients |->
                        IF c \in cut /\ client[c] \in {"open", "sent"}
                        THEN "error" ELSE client[c]]
        BY DEF Exit
    <2> HIDE DEF cut
    <2> QED  BY <2>1
<1> QED  BY <1>1, <1>2, ConnQuiet DEF Exit, Idle, Move

\* A probe that is answered is no connection of a client.
LEMMA ConnProbed ==
    ASSUME SocketTypeOK, ConnInv, NEW p \in Procs, Answered, Move(p, "out"),
           phase[p] = "probe",
           backlog' = [backlog EXCEPT ![path] = Append(@, p)],
           UNCHANGED <<peer, clientVars>>
    PROVE  ConnInv'
<1> SUFFICES ASSUME NEW c \in Clients  PROVE ConnOf(c)'
    BY DEF ConnInv
<1>1. ConnOf(c)
    BY DEF ConnInv
<1>2. /\ phase'[p] = "out" /\ \A r \in Procs : r # p => phase'[r] = phase[r]
    BY MoveFacts, PhasesHold
<1>3. p # c /\ path \in Procs /\ backlog \in [Procs -> Seq(Peers)]
    BY SocketAssumption DEF Answered, SocketTypeOK
<1>4. ASSUME NEW q \in Procs, NEW i \in Nat, At(q, i, c)'
      PROVE  At(q, i, c) /\ (i > 0 \/ phase'[q] = phase[q])
    <2>1. CASE i = 0 /\ phase'[q] \in {"read", "reply"} /\ peer'[q] = c
        BY <1>2, <2>1 DEF At
    <2>2. CASE i \in 1 .. Len(backlog'[q]) /\ backlog'[q][i] = c
        <3>1. CASE q # path
            BY <1>3, <2>2, <3>1 DEF At
        <3>2. CASE q = path
            <4>1. backlog'[q] = Append(backlog[q], p) /\ backlog[q] \in Seq(Peers)
                BY <1>3, <3>2
            <4>2. i # Len(backlog[q]) + 1
                BY <1>3, <2>2, <4>1
            <4>3. i \in 1 .. Len(backlog[q]) /\ backlog[q][i] = c
                BY <2>2, <4>1, <4>2
            <4> QED  BY <4>3 DEF At
        <3> QED  BY <3>1, <3>2
    <2> QED  BY <1>4, <2>1, <2>2 DEF At
<1>5. UNCHANGED <<client, applied, data>>
    BY DEF clientVars
<1> QED  BY <1>1, <1>4, <1>5, ConnShrinks

\* The first of the backlog becomes the one that is served.
LEMMA ConnAccept ==
    ASSUME SocketTypeOK, ConnInv, NEW p \in Procs, Accept(p)
    PROVE  ConnInv'
<1> SUFFICES ASSUME NEW c \in Clients  PROVE ConnOf(c)'
    BY DEF ConnInv
<1>1. ConnOf(c)
    BY DEF ConnInv
<1> DEFINE from(q, i) == IF q = p THEN i + 1 ELSE i
<1>2. Move(p, "read") /\ phase[p] = "serve" /\ "read" \in Phases
    BY PhasesHold DEF Accept
<1>3. phase'[p] = "read" /\ \A r \in Procs : r # p => phase'[r] = phase[r]
    BY <1>2, MoveFacts
<1>4. backlog[p] \in Seq(Peers) /\ backlog[p] # <<>>
    BY DEF Accept, SocketTypeOK
<1>5. /\ backlog'[p] = Tail(backlog[p]) /\ peer'[p] = backlog[p][1]
      /\ \A r \in Procs : r # p => backlog'[r] = backlog[r] /\ peer'[r] = peer[r]
    BY DEF Accept, SocketTypeOK
<1>6. UNCHANGED <<client, applied, data>>
    BY DEF Accept, clientVars
<1>7. ASSUME NEW q \in Procs, NEW i \in Nat, At(q, i, c)'
      PROVE  At(q, from(q, i), c)
    <2>1. CASE q = p /\ i = 0
        BY <1>3, <1>4, <1>5, <1>7, <2>1 DEF At
    <2>2. CASE q = p /\ i > 0
        <3>1. i \in 1 .. Len(Tail(backlog[p])) /\ Tail(backlog[p])[i] = c
            <4>1. i \in 1 .. Len(backlog'[p]) /\ backlog'[p][i] = c
                BY <1>7, <2>2 DEF At
            <4> QED  BY <1>5, <4>1
        <3>2. i + 1 \in 1 .. Len(backlog[p]) /\ backlog[p][i + 1] = c
            BY <1>4, <3>1
        <3> QED  BY <2>2, <3>2 DEF At
    <2>3. CASE q # p
        BY <1>3, <1>5, <1>7, <2>3 DEF At
    <2> QED  BY <2>1, <2>2, <2>3
<1>8. \A q \in Procs, i \in Nat : from(q, i) \in Nat
    OBVIOUS
<1>9. \A q, r \in Procs, i, j \in Nat :
          At(q, i, c)' /\ At(r, j, c)' => q = r /\ i = j
    <2> SUFFICES ASSUME NEW q \in Procs, NEW r \in Procs, NEW i \in Nat,
                        NEW j \in Nat, At(q, i, c)', At(r, j, c)'
                 PROVE  q = r /\ i = j
        OBVIOUS
    <2>1. q = r /\ from(q, i) = from(r, j)
        BY <1>1, <1>7, <1>8 DEF ConnOf
    <2> QED  BY <2>1
<1>10. client[c] \in Without =>
           applied[c] = 0 /\ \A q \in Procs, i \in Nat : ~At(q, i, c)'
    BY <1>1, <1>7, <1>8 DEF ConnOf
<1>11. ASSUME NEW q \in Procs, NEW i \in Nat, At(q, i, c)',
              i > 0 \/ phase'[q] = "read"
       PROVE  applied[c] = 0
    <2>1. from(q, i) > 0 \/ phase[q] = "read"
        BY <1>3, <1>11
    <2> QED  BY <1>1, <1>7, <1>8, <1>11, <2>1 DEF ConnOf
<1>12. ASSUME NEW q \in Procs, At(q, 0, c)', phase'[q] = "reply"
       PROVE  client[c] # "open" /\ (client[c] = "sent" => applied[c] = 1)
    <2>1. q # p
        BY <1>3, <1>12
    <2>2. At(q, 0, c) /\ phase[q] = "reply"
        BY <1>3, <1>7, <1>12, <2>1
    <2> QED  BY <1>1, <2>2 DEF ConnOf
<1> HIDE DEF from
<1> QED  BY <1>1, <1>6, <1>9, <1>10, <1>11, <1>12 DEF ConnOf

\* A request is handled once: its connection is not in a backlog any more.
LEMMA ConnHandle ==
    ASSUME SocketTypeOK, ConnInv, NEW p \in Procs, Handle(p)
    PROVE  ConnInv'
<1> SUFFICES ASSUME NEW c \in Clients  PROVE ConnOf(c)'
    BY DEF ConnInv
<1>1. ConnOf(c)
    BY DEF ConnInv
<1>2. Move(p, "reply") /\ phase[p] = "read" /\ "reply" \in Phases
    BY PhasesHold DEF Handle
<1>3. phase'[p] = "reply" /\ \A r \in Procs : r # p => phase'[r] = phase[r]
    BY <1>2, MoveFacts
<1>4. UNCHANGED <<client, data, backlog, peer>>
    BY DEF Handle
<1>5. \A q \in Procs, i \in Nat : At(q, i, c)' <=> At(q, i, c)
    BY <1>2, <1>3, <1>4 DEF At
<1>6. CASE c # peer[p]
    <2>1. applied'[c] = applied[c]
        BY <1>6 DEF Handle, SocketTypeOK
    <2>2. ASSUME NEW q \in Procs, NEW i \in Nat, At(q, i, c)'
          PROVE  At(q, i, c) /\ (i > 0 \/ phase'[q] = phase[q])
        BY <1>3, <1>4, <1>5, <1>6, <2>2 DEF At
    <2> QED  BY <1>1, <1>4, <2>1, <2>2, ConnShrinks
<1>7. CASE c = peer[p]
    <2>1. At(p, 0, c)
        BY <1>2, <1>7 DEF At
    <2>2. applied[c] = 0 /\ client[c] \notin Without /\ client[c] # "open"
        BY <1>1, <1>2, <1>7, <2>1 DEF ConnOf, Handle
    <2>3. applied'[c] = IF data[c] = "whole" THEN 1 ELSE 0
        BY <1>7, <2>2 DEF Handle, SocketTypeOK
    <2>4. \A q \in Procs, i \in Nat : At(q, i, c)' => q = p /\ i = 0
        BY <1>1, <1>5, <2>1 DEF ConnOf
    <2>5. \A q, r \in Procs, i, j \in Nat :
              At(q, i, c)' /\ At(r, j, c)' => q = r /\ i = j
        BY <2>4
    <2>6. \A q \in Procs, i \in Nat :
              At(q, i, c)' /\ (i > 0 \/ phase'[q] = "read") => applied'[c] = 0
        BY <1>3, <2>4
    <2> QED  BY <1>1, <1>4, <2>2, <2>3, <2>5, <2>6 DEF ConnOf, Without
<1> QED  BY <1>6, <1>7

\* The other steps of a process.
LEMMA ConnProcess ==
    ASSUME SocketTypeOK, ConnInv, NEW p \in Procs, Process(p)
    PROVE  ConnInv'
<1> DEFINE Quiet == Phases \ {"read", "reply"}
<1>1. {"top", "sleep", "serve", "tick", "probe", "unlink", "bind", "chmod",
       "unlinked", "out"} \subseteq Quiet
    BY DEF Phases, Starting, Serving
<1>2. CASE Open(p)
    BY <1>1, <1>2, ConnQuiet DEF Move, Open, clientVars
<1>3. CASE Probe(p)
    <2>1. CASE Exit(p)
        BY <2>1, ConnExit
    <2>2. CASE /\ Move(p, IF path = NoFile THEN "bind" ELSE "unlink")
               /\ UNCHANGED <<stateful, backlog, peer, served, clock, clientVars>>
        <3>1. (IF path = NoFile THEN "bind" ELSE "unlink") \in Quiet
            BY <1>1
        <3> QED  BY <2>2, <3>1, ConnQuiet DEF Move, clientVars
    <2>3. CASE /\ Answered /\ Move(p, "out")
               /\ backlog' = [backlog EXCEPT ![path] = Append(@, p)]
               /\ UNCHANGED <<stateful, peer, served, clock, clientVars>>
        BY <1>3, <2>3, ConnProbed DEF Probe
    <2>4. CASE /\ Goes(p, "unlink")
               /\ UNCHANGED <<stateful, backlog, peer, served, clock, clientVars>>
        BY <1>1, <2>4, ConnQuiet DEF clientVars
    <2> QED  BY <1>3, <2>1, <2>2, <2>3, <2>4 DEF Probe
<1>4. CASE Unlink(p)
    BY <1>1, <1>4, ConnQuiet, ConnExit DEF Move, Unlink, clientVars
<1>5. CASE Bind(p)
    BY <1>1, <1>5, ConnQuiet, ConnExit DEF Move, Bind, clientVars
<1>6. CASE Chmod(p)
    BY <1>1, <1>6, ConnQuiet, ConnExit DEF Move, Chmod, clientVars
<1>7. CASE Sleep(p) \/ Due(p) \/ NoMore(p) \/ Tick(p) \/ Top(p)
    BY <1>1, <1>7, ConnQuiet
       DEF Move, Sleep, Due, NoMore, Tick, Top, Wake, clientVars
<1>8. CASE Accept(p) \/ Handle(p)
    BY <1>8, ConnAccept, ConnHandle
<1>9. CASE Stall(p)
    <2>1. \A c \in Clients : client'[c] = client[c] \/ client'[c] = "error"
        BY <1>9 DEF Stall, SocketTypeOK
    <2> QED  BY <1>1, <1>9, <2>1, ConnQuiet DEF Move, Stall
<1>10. CASE Reply(p)
    <2>1. ASSUME NEW c \in Clients
          PROVE  client'[c] = client[c] \/ (client'[c] = "ok" /\ applied[c] = 1)
        <3>1. CASE c = peer[p] /\ client[c] = "sent"
            <4>1. At(p, 0, c) /\ phase[p] = "reply"
                BY <1>10, <3>1 DEF At, Reply
            <4>2. applied[c] = 1
                BY <3>1, <4>1 DEF ConnInv, ConnOf
            <4> QED  BY <1>10, <3>1, <4>2 DEF Reply, SocketTypeOK
        <3>2. CASE ~(c = peer[p] /\ client[c] = "sent")
            BY <1>10, <3>2 DEF Reply, SocketTypeOK
        <3> QED  BY <3>1, <3>2
    <2> QED  BY <1>1, <1>10, <2>1, ConnQuiet DEF Move, Reply
<1>11. CASE Drop(p)
    BY <1>1, <1>11, ConnQuiet DEF Move, Drop, Idle, clientVars
<1>12. CASE Close(p) \/ Kill(p)
    BY <1>12, ConnExit DEF Close, Kill
<1> QED  BY <1>2, <1>3, <1>4, <1>5, <1>6, <1>7, <1>8, <1>9, <1>10, <1>11, <1>12
         DEF Process, Work

\* The steps of a client.
LEMMA ConnClient ==
    ASSUME SocketTypeOK, ConnInv, NEW d \in Clients, Client(d)
    PROVE  ConnInv'
<1> SUFFICES ASSUME NEW c \in Clients  PROVE ConnOf(c)'
    BY DEF ConnInv
<1>1. ConnOf(c)
    BY DEF ConnInv
<1>2. UNCHANGED <<phase, peer, applied>>
    BY DEF Client, Connect, Send, Leave, GiveUp, procVars
<1>3. c \in Peers /\ d \in Peers /\ data \in [Peers -> {"none", "whole", "end"}]
    BY DEF Peers, SocketTypeOK
<1>4. client \in [Clients -> {"idle", "open", "sent"} \cup Outcomes]
    BY DEF SocketTypeOK
<1>5. CASE backlog' = backlog /\ c # d
    <2>1. \A q \in Procs, i \in Nat : At(q, i, c)' <=> At(q, i, c)
        BY <1>2, <1>5 DEF At
    <2>2. client'[c] = client[c] /\ data'[c] = data[c]
        BY <1>3, <1>4, <1>5 DEF Client, Connect, Send, Leave, GiveUp
    <2> QED  BY <1>1, <1>2, <2>1, <2>2, ConnShrinks
<1>6. CASE backlog' = backlog /\ c = d
    <2>1. \A q \in Procs, i \in Nat : At(q, i, c)' <=> At(q, i, c)
        BY <1>2, <1>6 DEF At
    <2>2. CASE Connect(d)
        <3>1. client[c] = "idle"
              /\ client'[c] \in {"absent", "refused", "fallback", "error"}
            <4>1. ASSUME Answered
                  PROVE  backlog' # [backlog EXCEPT ![path] = Append(@, c)]
                <5>1. path \in Procs /\ backlog[path] \in Seq(Peers)
                    BY <4>1 DEF Answered, SocketTypeOK
                <5>2. Append(backlog[path], c) # backlog[path]
                    BY <1>3, <5>1
                <5> QED  BY <1>6, <5>1, <5>2 DEF SocketTypeOK
            <4> QED  BY <1>4, <1>6, <2>2, <4>1 DEF Connect
        <3> QED  BY <1>1, <1>2, <2>1, <2>2, <3>1 DEF ConnOf, Without, Connect
    <2>3. CASE Send(d)
        <3>1. client[c] = "open" /\ client'[c] = "sent" /\ data'[c] = "whole"
            BY <1>3, <1>4, <1>6, <2>3 DEF Send
        <3> QED  BY <1>1, <1>2, <2>1, <3>1 DEF ConnOf, Without
    <2>4. CASE Leave(d) \/ GiveUp(d)
        <3>1. client'[c] = "error"
            BY <1>4, <1>6, <2>4 DEF Leave, GiveUp
        <3> QED  BY <1>1, <1>2, <2>1, <3>1 DEF ConnOf, Without
    <2> QED  BY <2>2, <2>3, <2>4 DEF Client
<1>7. CASE backlog' # backlog
    <2>1. /\ client[d] = "idle" /\ Answered
          /\ backlog' = [backlog EXCEPT ![path] = Append(@, d)]
          /\ client' = [client EXCEPT ![d] = "open"] /\ data' = data
        BY <1>7 DEF Client, Connect, Send, Leave, GiveUp, procVars
    <2>2. path \in Procs /\ backlog[path] \in Seq(Peers)
        BY <2>1 DEF Answered, SocketTypeOK
    <2>3. /\ backlog'[path] = Append(backlog[path], d)
          /\ \A q \in Procs : q # path => backlog'[q] = backlog[q]
        BY <2>1, <2>2 DEF SocketTypeOK
    <2> DEFINE last == Len(backlog[path]) + 1
    <2>4. ASSUME NEW q \in Procs, NEW i \in Nat, At(q, i, c)'
          PROVE  At(q, i, c) \/ (q = path /\ i = last /\ c = d)
        <3>1. CASE i = 0 /\ phase'[q] \in {"read", "reply"} /\ peer'[q] = c
            BY <1>2, <3>1 DEF At
        <3>2. CASE i \in 1 .. Len(backlog'[q]) /\ backlog'[q][i] = c
            <4>1. CASE q # path
                BY <2>3, <3>2, <4>1 DEF At
            <4>2. CASE q = path
                <5>1. i \in 1 .. Len(Append(backlog[path], d))
                      /\ Append(backlog[path], d)[i] = c
                    BY <2>3, <3>2, <4>2
                <5>2. \/ i \in 1 .. Len(backlog[path]) /\ backlog[path][i] = c
                      \/ i = last /\ c = d
                    BY <2>2, <5>1
                <5> QED  BY <4>2, <5>2 DEF At
            <4> QED  BY <4>1, <4>2
        <3> QED  BY <2>4, <3>1, <3>2 DEF At
    <2> HIDE DEF last
    <2>5. CASE c = d
        <3>1. applied[c] = 0 /\ \A q \in Procs, i \in Nat : ~At(q, i, c)
            BY <1>1, <2>1, <2>5 DEF ConnOf, Without
        <3>2. \A q \in Procs, i \in Nat : At(q, i, c)' => q = path /\ i = last
            BY <2>4, <3>1
        <3>3. client'[c] = "open" /\ data'[c] = "none"
            BY <1>1, <1>4, <2>1, <2>5 DEF ConnOf
        <3>4. \A q \in Procs : ~(At(q, 0, c)' /\ phase'[q] = "reply")
            <4>1. last # 0
                BY <2>2 DEF last
            <4> QED  BY <3>2, <4>1
        <3> QED  BY <1>2, <3>1, <3>2, <3>3, <3>4 DEF ConnOf, Without
    <2>6. CASE c # d
        <3>1. client'[c] = client[c]
            BY <1>4, <2>1, <2>6
        <3>2. \A q \in Procs, i \in Nat : At(q, i, c)' => At(q, i, c)
            BY <2>4, <2>6
        <3> QED  BY <1>1, <1>2, <2>1, <3>1, <3>2, ConnShrinks
    <2> QED  BY <2>5, <2>6
<1> QED  BY <1>5, <1>6, <1>7

LEMMA ConnInit == Init => ConnInv
<1> SUFFICES ASSUME Init, NEW c \in Clients  PROVE ConnOf(c)
    BY DEF ConnInv
<1>1. \A p \in Procs, i \in Nat : ~At(p, i, c)
    BY DEF At, Init
<1>2. client[c] = "idle" /\ applied[c] = 0 /\ data[c] = "none"
    BY DEF Init, Peers
<1> QED  BY <1>1, <1>2 DEF ConnOf, Without

THEOREM ConnHolds == Spec => []ConnInv
<1>1. SocketInv /\ ConnInv /\ [Next]_vars => ConnInv'
    <2> SUFFICES ASSUME SocketInv, ConnInv, [Next]_vars  PROVE ConnInv'
        OBVIOUS
    <2>1. CASE Next
        BY <2>1, ConnProcess, ConnClient DEF Next, SocketInv
    <2>2. CASE UNCHANGED vars
        BY <2>2 DEF vars, procVars, clientVars, ConnInv, ConnOf, At
    <2> QED  BY <2>1, <2>2
<1> QED  BY <1>1, ConnInit, InvHolds, PTL DEF Spec

\* With any number of clients and processes, none of which needs to be alive
\* when its answer comes, an answer says that the request was applied once and
\* a refusal that it never was.
THEOREM AnswersAreTrue == Spec => []AnswersTell
<1>1. ConnInv => AnswersTell
    BY DEF ConnInv, ConnOf, AnswersTell, Without
<1> QED  BY <1>1, ConnHolds, PTL

=============================================================================
