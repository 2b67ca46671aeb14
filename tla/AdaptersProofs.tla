--------------------------- MODULE AdaptersProofs ---------------------------
(***************************************************************************)
(* Proofs about Adapters: what a command that was killed can still do to    *)
(* the actuator, what --verify-cv lets pass, and what becomes of the lines  *)
(* of stdin.                                                                *)
(***************************************************************************)
EXTENDS Adapters, SequenceTheorems, TLAPS

----------------------------------------------------------------------------
(* Commands. *)

\* Once its shell has exited or was killed, no worker is left in the group of
\* a call but one that the shell put in the background.
ChildInv ==
    /\ workers \subseteq Workers
    /\ actuator \in Nat
    /\ call = "none" => shell = "ok"
    /\ call = "drain" => shell # "running"
    /\ \A w \in workers : w.mode = "foreground" => w.age = 0 /\ shell = "running"

LEMMA SpawnKeeps ==
    ASSUME ChildInv, NEW k \in {"pv", "cv"}, Spawn(k)
    PROVE  ChildInv'
<1> DEFINE older == {[w EXCEPT !.age = IF @ < CallCap THEN @ + 1 ELSE @] :
                        w \in {v \in workers : v.kind = "cv"}}
<1>1. PICK m \in Modes, h \in BOOLEAN :
          workers' = older \cup
              {[age |-> 0, kind |-> k, mode |-> m, holds |-> h]}
    BY DEF Spawn
<1>2. \A w \in workers : w.mode # "foreground"
    BY DEF ChildInv, Spawn
<1>3. \A w \in older : w \in Workers /\ w.mode # "foreground"
    <2> SUFFICES ASSUME NEW v \in workers
                 PROVE  LET w == [v EXCEPT !.age = IF @ < CallCap
                                                   THEN @ + 1 ELSE @]
                        IN  w \in Workers /\ w.mode # "foreground"
        OBVIOUS
    <2>1. v \in Workers /\ v.mode # "foreground"
        BY <1>2 DEF ChildInv
    <2> QED  BY <2>1, ChildAssumption DEF Workers
<1> HIDE DEF older
<1>4. [age |-> 0, kind |-> k, mode |-> m, holds |-> h] \in Workers
    BY ChildAssumption DEF Workers
<1>5. workers' \subseteq Workers
    BY <1>1, <1>3, <1>4
<1>6. \A w \in workers' : w.mode = "foreground" => w.age = 0
    BY <1>1, <1>3
<1>7. call' = "wait" /\ shell' = "running" /\ actuator' \in Nat
    BY ChildAssumption DEF Spawn, ChildInv
<1> QED  BY <1>5, <1>6, <1>7 DEF ChildInv

\* What a call in progress does, and what its command does.
LEMMA CallKeeps ==
    ASSUME ChildInv, TryWait \/ CheckDeadline \/ KillTree \/ CommandStep
    PROVE  ChildInv'
<1>1. CASE TryWait \/ CheckDeadline
    BY <1>1 DEF TryWait, CheckDeadline, ChildInv
<1>2. CASE KillTree
    <2>1. workers' \subseteq workers
        BY <1>2 DEF KillTree, KillGroup
    <2>2. \A w \in workers' : w.mode # "foreground"
        BY <1>2, ChildAssumption DEF KillTree, KillGroup, ChildInv, Workers
    <2> QED  BY <1>2, <2>1, <2>2 DEF KillTree, ChildInv
<1>3. CASE ShellExits
    <2>1. \A w \in workers : w.mode # "foreground"
        BY <1>3 DEF ShellExits, ChildInv, Mine
    <2> QED  BY <1>3, <2>1 DEF ShellExits, ChildInv
<1>4. ASSUME NEW w \in workers, WorkerEnds(w)  PROVE ChildInv'
    <2>1. w.age \in Nat
        BY ChildAssumption DEF ChildInv, Workers
    <2> QED  BY <1>4, <2>1 DEF WorkerEnds, ChildInv
<1> QED  BY <1>1, <1>2, <1>3, <1>4 DEF CommandStep

LEMMA DrainKeeps ==
    ASSUME ChildInv, NEW answer, Drain(answer)
    PROVE  ChildInv'
BY DEF Drain, ChildInv

LEMMA ChildStep ==
    ASSUME ChildInv, [Next]_vars
    PROVE  ChildInv'
<1>1. CASE UNCHANGED childVars
    BY <1>1 DEF childVars, ChildInv
<1>2. CASE ReadCmd \/ WriteCmd
    BY <1>2, SpawnKeeps DEF ReadCmd, WriteCmd
<1>3. CASE CmdAnswers \/ CvAnswers
    BY <1>3, DrainKeeps DEF CmdAnswers, CvAnswers
<1>4. CASE Call \/ Children
    BY <1>4, CallKeeps DEF Call, Children
<1>5. CASE ReadStdin \/ StdinAnswers \/ WriteFile \/ Reader \/ Writer
           \/ UNCHANGED vars
    BY <1>1, <1>5 DEF ReadStdin, StdinAnswers, WriteFile, Reader, Writer, vars
<1>6. CASE Pass
    BY <1>6 DEF Pass, ChildInv
<1> QED  BY <1>2, <1>3, <1>4, <1>5, <1>6 DEF Next, Tick

\* With any commands, timeouts and schedules no call can set the actuator
\* after a newer one, if its command leaves no worker to itself: the group is
\* gone before the call returns.
THEOREM CvNeverGoesBackCorrect == Spec => CvNeverGoesBack
<1>1. Init => ChildInv
    BY ChildAssumption DEF Init, ChildInit, ChildInv
<1>2. ChildInv /\ [Next]_vars => ChildInv'
    BY ChildStep
<1>3. ChildInv /\ [Next]_vars =>
          [call' = call /\ actuator' > actuator => latest' # "foreground"]_childVars
    <2> SUFFICES ASSUME ChildInv, [Next]_vars, call' = call,
                        actuator' > actuator, latest' = "foreground"
                 PROVE  FALSE
        OBVIOUS
    <2>1. actuator' # actuator
        BY DEF ChildInv
    <2>2. PICK w \in workers : WorkerEnds(w)
        <3>1. CASE Children
            BY <2>1, <3>1 DEF Children, CommandStep, ShellExits
        <3>2. CASE ReadCmd \/ WriteCmd
            BY <3>2 DEF ReadCmd, WriteCmd, Spawn
        <3>3. CASE CmdAnswers \/ CvAnswers \/ Call \/ Pass
            BY <2>1, <3>3 DEF CmdAnswers, CvAnswers, Call, Pass, Drain, TryWait,
                              CheckDeadline, KillTree
        <3>4. CASE ReadStdin \/ StdinAnswers \/ WriteFile \/ Reader \/ Writer
                   \/ UNCHANGED vars
            BY <2>1, <3>4 DEF ReadStdin, StdinAnswers, WriteFile, Reader, Writer,
                              vars, childVars
        <3> QED  BY <3>1, <3>2, <3>3, <3>4 DEF Next, Tick
    <2>3. actuator' = w.age /\ w.mode = "foreground"
        BY <2>1, <2>2 DEF WorkerEnds
    <2> QED  BY <2>3 DEF ChildInv
<1> QED  BY <1>1, <1>2, <1>3, PTL DEF Spec, CvNeverGoesBack

----------------------------------------------------------------------------
(* --verify-cv. *)

\* f64::round leaves a value of either sign within half a digit, and only a
\* tie that far away.
LEMMA RoundedNear ==
    ASSUME NEW v \in Int
    PROVE  /\ Rounded(v) \in Int
           /\ \/ v >= 0 /\ v - 10 * Rounded(v) \in -5 .. 4
              \/ v <= 0 /\ v - 10 * Rounded(v) \in -4 .. 5
           /\ v >= 0 => Rounded(v) >= 0
           /\ v <= 0 => Rounded(v) <= 0
<1>1. \A n \in Int : n >= 0 => n \div 10 \in Int /\ 10 * (n \div 10) <= n
                                /\ n <= 10 * (n \div 10) + 9
    OBVIOUS
<1>2. CASE v >= 0
    <2>1. v + 5 \in Int /\ v + 5 >= 0 /\ Rounded(v) = (v + 5) \div 10
        BY <1>2 DEF Rounded
    <2> QED  BY <1>1, <1>2, <2>1
<1>3. CASE v < 0
    <2>1. /\ 5 - v \in Int /\ 5 - v >= 0
          /\ Rounded(v) = -((5 - v) \div 10)
        BY <1>3 DEF Rounded
    <2> QED  BY <1>1, <1>3, <2>1
<1> QED  BY <1>2, <1>3

\* So two values that round to the same digit are less than a digit apart.
LEMMA SameDigitNear ==
    ASSUME NEW v \in Int, NEW w \in Int, Rounded(v) = Rounded(w)
    PROVE  w - v \in -9 .. 9
<1> DEFINE d == Rounded(v)
<1>1. /\ d \in Int /\ d = Rounded(w)
      /\ v >= 0 => d >= 0
      /\ v <= 0 => d <= 0
      /\ w >= 0 => d >= 0
      /\ w <= 0 => d <= 0
    BY RoundedNear
<1>2. \/ v >= 0 /\ v - 10 * d \in -5 .. 4
      \/ v <= 0 /\ v - 10 * d \in -4 .. 5
    BY RoundedNear
<1>3. \/ w >= 0 /\ w - 10 * d \in -5 .. 4
      \/ w <= 0 /\ w - 10 * d \in -4 .. 5
    BY <1>1, RoundedNear
<1>4. d = 0 => v \in -5 .. 5 /\ w \in -5 .. 5
    BY <1>2, <1>3
<1> HIDE DEF d
<1> QED  BY <1>1, <1>2, <1>3

\* What is printed is an integer number of digits.
LEMMA FormattedType ==
    ASSUME NEW v \in Int
    PROVE  10 * Formatted(v) \in Int
<1>1. v \div 10 \in Int
    OBVIOUS
<1> QED  BY <1>1 DEF Formatted

FileInv ==
    /\ phase = "writing" => sink = "cmd"
    /\ cv \in Int /\ content \in Int
    /\ phase = "read" /\ sink = "file" /\ Verify /\ written_ok =>
           Rounded(cv) = Rounded(content)

\* When --verify-cv lets a write pass, the device answered a value less than one
\* printed digit from the CV asked for, for every CV, positive or negative, and
\* every value a device may settle on.
THEOREM VerifiedIsAppliedCorrect == Spec => []VerifiedIsApplied
<1>1. Init => FileInv
    BY DEF Init, FileInv
<1>2. FileInv /\ [Next]_vars => FileInv'
    <2> SUFFICES ASSUME FileInv, [Next]_vars  PROVE FileInv'
        OBVIOUS
    <2>1. CASE WriteFile
        <3>1. cv' \in Int /\ content' \in Int
            BY <2>1, AdaptersAssumption, FormattedType DEF WriteFile, FileInv
        <3> QED  BY <2>1, <3>1 DEF WriteFile, FileInv, ReadbackAgrees
    <2>2. CASE CvAnswers
        BY <2>2 DEF CvAnswers, FileInv
    <2>3. CASE UNCHANGED <<phase, sink, cv, content, written_ok>>
        BY <2>3 DEF FileInv
    <2>4. CASE Call \/ Reader \/ Writer \/ Children \/ Pass \/ UNCHANGED vars
        BY <2>3, <2>4 DEF Call, Reader, Writer, Children, Pass, vars, tickVars
    <2>5. CASE ReadStdin \/ ReadCmd \/ StdinAnswers \/ CmdAnswers \/ WriteCmd
        BY <2>5 DEF ReadStdin, ReadCmd, StdinAnswers, CmdAnswers, WriteCmd,
                    PvRead, PvFailed, FileInv
    <2> QED  BY <2>1, <2>2, <2>4, <2>5 DEF Next, Tick
<1>3. FileInv => VerifiedIsApplied
    BY SameDigitNear DEF FileInv, VerifiedIsApplied
<1> QED  BY <1>1, <1>2, <1>3, PTL DEF Spec

----------------------------------------------------------------------------
(* Type correctness. *)

\* The part about stdin; numbers of lines stay below LineMod.
StdinTyped ==
    /\ pipe \in Seq(Lines) /\ Len(pipe) <= PipeLines
    /\ holding \in Seq(Lines) /\ Len(holding) <= 1
    /\ channel \in Seq(Lines) /\ Len(channel) <= 1
    /\ reader \in {"alive", "gone"}
    /\ written \in 0 .. LineMod - 1

LEMMA AfterTyped ==
    ASSUME NEW n \in 0 .. LineMod - 1
    PROVE  After(n) \in 0 .. LineMod - 1
<1>1. LineMod \in Nat /\ LineMod > 0
    BY StdinAssumption DEF LineMod
<1>2. \A k, d \in Int : d > 0 => k % d \in 0 .. d - 1
    OBVIOUS
<1>3. n + 1 \in Int
    BY <1>1
<1> QED  BY <1>1, <1>2, <1>3 DEF After

LEMMA StdinStep ==
    ASSUME StdinTyped,
           \/ \E k \in LineKinds : WriteLine(k)
           \/ CloseStdin \/ ReadLine \/ SendLine \/ Take
           \/ UNCHANGED stdinVars
    PROVE  StdinTyped'
<1>1. ASSUME NEW k \in LineKinds, WriteLine(k)  PROVE StdinTyped'
    <2>1. [kind |-> k, n |-> After(written)] \in Lines
          /\ After(written) \in 0 .. LineMod - 1
        BY AfterTyped DEF StdinTyped, Lines
    <2> QED  BY <1>1, <2>1, StdinAssumption DEF WriteLine, StdinTyped
<1>2. CASE ReadLine
    <2>1. [kind |-> "eof", n |-> After(written)] \in Lines
        BY AfterTyped DEF StdinTyped, Lines
    <2> HIDE DEF Lines
    <2>2. pipe # <<>> => Head(pipe) \in Lines /\ Tail(pipe) \in Seq(Lines)
                         /\ Len(Tail(pipe)) <= PipeLines
        BY StdinAssumption DEF StdinTyped
    <2>3. PICK l \in Lines : holding' = <<l>>
        BY <1>2, <2>1, <2>2 DEF ReadLine
    <2>4. holding' \in Seq(Lines) /\ Len(holding') <= 1
        BY <2>3
    <2>5. pipe' \in Seq(Lines) /\ Len(pipe') <= PipeLines
        BY <1>2, <2>2 DEF ReadLine, StdinTyped
    <2> QED  BY <1>2, <2>4, <2>5 DEF ReadLine, StdinTyped
<1>3. CASE CloseStdin \/ UNCHANGED stdinVars
    BY <1>3 DEF CloseStdin, stdinVars, StdinTyped
<1>4. <<>> \in Seq(Lines) /\ Len(<<>>) <= 1
    OBVIOUS
<1>5. CASE SendLine \/ Take
    BY <1>4, <1>5 DEF SendLine, AfterSend, Take, StdinTyped
<1> QED  BY <1>1, <1>2, <1>3, <1>5

\* Nothing in the loop touches stdin but the reader, its writer and read_pv.
LEMMA StdinOnly ==
    ASSUME [Next]_vars
    PROVE  \/ \E k \in LineKinds : WriteLine(k)
           \/ CloseStdin \/ ReadLine \/ SendLine \/ Take
           \/ UNCHANGED stdinVars
BY DEF Next, Tick, Call, Reader, Writer, Children, Pass, ReadStdin, ReadCmd,
       StdinAnswers, CmdAnswers, WriteCmd, CvAnswers, WriteFile, StdinFails,
       ReadPvOk, vars, stdinVars

\* The part about calls and ticks.
CallTyped ==
    /\ call \in CallPhases
    /\ actuator \in 0 .. CallCap
    /\ phase \in {"read", "reading", "write", "writing", "done"}
    /\ fails \in Nat
    /\ phase # "done" => fails < FailAfter
    /\ fails <= FailAfter

LEMMA CallStep ==
    ASSUME ChildInv, CallTyped, [Next]_vars
    PROVE  CallTyped'
<1> USE ChildAssumption, AdaptersAssumption DEF CallTyped, CallPhases
<1>1. CASE ReadCmd \/ WriteCmd
    BY <1>1 DEF ReadCmd, WriteCmd, Spawn
<1>2. CASE StdinAnswers
    BY <1>2 DEF StdinAnswers, PvRead, PvFailed, childVars
<1>3. CASE CmdAnswers \/ CvAnswers
    BY <1>3 DEF CmdAnswers, CvAnswers, Drain, PvRead, PvFailed
<1>4. CASE ReadStdin \/ WriteFile \/ Reader \/ Writer \/ Pass \/ UNCHANGED vars
    BY <1>4 DEF ReadStdin, WriteFile, Reader, Writer, Pass, vars, childVars,
                tickVars
<1>5. CASE Call
    BY <1>5 DEF Call, TryWait, CheckDeadline, KillTree, tickVars
<1>6. CASE Children
    <2>1. \A w \in workers : w.age \in 0 .. CallCap
        BY DEF ChildInv, Workers
    <2> QED  BY <1>6, <2>1
             DEF Children, CommandStep, ShellExits, WorkerEnds, tickVars
<1> QED  BY <1>1, <1>2, <1>3, <1>4, <1>5, <1>6 DEF Next, Tick

\* Every variable keeps its shape, for every size of pipe and every timeout;
\* in particular a loop that goes on is below --fail-after.
THEOREM AdaptersTypeCorrect == Spec => []AdaptersTypeOK
<1> DEFINE Inv == ChildInv /\ StdinTyped /\ CallTyped
<1>1. Init => Inv
    BY StdinAssumption, ChildAssumption, AdaptersAssumption
       DEF Init, StdinInit, ChildInit, ChildInv, StdinTyped, CallTyped,
           CallPhases, LineMod
<1>2. Inv /\ [Next]_vars => Inv'
    <2> SUFFICES ASSUME Inv, [Next]_vars  PROVE StdinTyped'
        BY ChildStep, CallStep
    <2> QED  BY StdinOnly, StdinStep
<1>3. Inv => AdaptersTypeOK
    BY DEF ChildInv, StdinTyped, CallTyped, AdaptersTypeOK
<1> HIDE DEF Inv
<1> QED  BY <1>1, <1>2, <1>3, PTL DEF Spec
----------------------------------------------------------------------------
(* The lines of stdin. *)

\* Quotient and remainder are the only ones.
LEMMA ModUnique ==
    ASSUME NEW m \in Nat \ {0}, NEW q \in Int, NEW r \in 0 .. m - 1
    PROVE  (m * q + r) % m = r
<1> DEFINE x == m * q + r
<1>1. x \in Int /\ x \div m \in Int /\ x % m \in 0 .. m - 1
      /\ x = m * (x \div m) + (x % m)
    OBVIOUS
<1> HIDE DEF x
<1> DEFINE d == x \div m - q
<1>2. d \in Int /\ m * d = r - (x % m)
    BY <1>1 DEF x
<1> HIDE DEF d
<1>3. d >= 1 => m * d >= m
    BY <1>2
<1>4. d <= -1 => m * d <= -m
    BY <1>2
<1>5. d = 0
    BY <1>1, <1>2, <1>3, <1>4
<1> QED  BY <1>1, <1>2, <1>5 DEF x

\* A number may be reduced before it is counted on from.
LEMMA ModAdd ==
    ASSUME NEW m \in Nat \ {0}, NEW x \in Nat, NEW k \in Nat
    PROVE  ((x % m) + k) % m = (x + k) % m
<1> DEFINE y == (x % m) + k
<1>1. x % m \in 0 .. m - 1 /\ x \div m \in Int /\ x = m * (x \div m) + (x % m)
    OBVIOUS
<1>2. y \in Int
    BY <1>1
<1>3. y % m \in 0 .. m - 1 /\ y \div m \in Int /\ y = m * (y \div m) + (y % m)
    BY <1>2
<1>4. x + k = m * (x \div m) + y
    BY <1>1
<1> HIDE DEF y
<1> DEFINE a == x \div m
           b == y \div m
           q == a + b
<1>5. a \in Int /\ b \in Int /\ q \in Int
    BY <1>1, <1>3
<1>6. x = m * a + (x % m) /\ x + k = m * a + y /\ y = m * b + (y % m)
    BY <1>1, <1>3, <1>4
<1> HIDE DEF a, b
<1>7. m * a \in Int /\ m * b \in Int /\ m * q = m * a + m * b
    BY <1>5
<1>8. x + k = m * q + (y % m)
    BY <1>3, <1>6, <1>7
<1>9. (x + k) % m = y % m
    BY <1>3, <1>5, <1>8, ModUnique
<1> QED  BY <1>9 DEF y

\* The reader has seen the end of stdin.
Ended == reader = "gone" \/ (holding # <<>> /\ Head(holding).kind = "eof")

\* The lines that are not received yet are numbered on from the last that is,
\* through the channel, the thread and the pipe, up to the last one written;
\* the end of stdin counts as one more, after which there is nothing.
LinesInv ==
    /\ received \in 0 .. LineMod - 1
    /\ channel # <<>> => Head(channel).n = (received + 1) % LineMod
    /\ holding # <<>> =>
           Head(holding).n = (received + Len(channel) + 1) % LineMod
    /\ \A i \in 1 .. Len(pipe) :
           /\ pipe[i].n = (received + Len(channel) + Len(holding) + i) % LineMod
           /\ pipe[i].kind # "eof"
    /\ reader = "gone" => holding = <<>>
    /\ Ended => closed /\ pipe = <<>>
    /\ ~Ended => written =
           (received + Len(channel) + Len(holding) + Len(pipe)) % LineMod

\* A sequence of at most one element is empty or its head.
LEMMA AtMostOne ==
    ASSUME NEW S, NEW s \in Seq(S), Len(s) <= 1
    PROVE  /\ Len(s) = IF s = <<>> THEN 0 ELSE 1
           /\ s # <<>> => s = <<Head(s)>> /\ s[1] = Head(s) /\ Head(s) \in S
<1>1. CASE s = <<>>
    BY <1>1
<1>2. CASE s # <<>>
    <2>1. Len(s) = 1 /\ Head(s) = s[1] /\ Head(s) \in S
        BY <1>2
    <2>2. <<Head(s)>> \in Seq(S) /\ Len(<<Head(s)>>) = 1
          /\ <<Head(s)>>[1] = Head(s)
        BY <2>1
    <2>3. \A i \in 1 .. Len(s) : s[i] = <<Head(s)>>[i]
        BY <2>1, <2>2
    <2>4. s = <<Head(s)>>
        BY <2>1, <2>2, <2>3, SeqEqual
    <2> QED  BY <1>2, <2>1, <2>4
<1> QED  BY <1>1, <1>2

\* Two steps of numbering are one.
LEMMA NumbersOn ==
    ASSUME NEW x \in Nat, NEW k \in Nat
    PROVE  /\ ((x % LineMod) + k) % LineMod = (x + k) % LineMod
           /\ x % LineMod \in 0 .. LineMod - 1
<1>1. LineMod \in Nat \ {0}
    BY StdinAssumption DEF LineMod
<1>2. \A m \in Nat \ {0} : x % m \in 0 .. m - 1
    OBVIOUS
<1> QED  BY <1>1, <1>2, ModAdd

LEMMA LinesStep ==
    ASSUME StdinTyped, LinesInv,
           \/ \E k \in LineKinds : WriteLine(k)
           \/ CloseStdin \/ ReadLine \/ SendLine \/ Take
           \/ UNCHANGED stdinVars
    PROVE  LinesInv'
<1>1. received \in Nat /\ Len(pipe) \in Nat /\ LineMod \in Nat
    BY StdinAssumption DEF StdinTyped, LinesInv, LineMod
<1>2. /\ Len(channel) = IF channel = <<>> THEN 0 ELSE 1
      /\ Len(holding) = IF holding = <<>> THEN 0 ELSE 1
      /\ channel # <<>> => channel = <<Head(channel)>>
      /\ holding # <<>> => holding = <<Head(holding)>>
    BY AtMostOne DEF StdinTyped
<1>3. ASSUME NEW k \in LineKinds, WriteLine(k)  PROVE LinesInv'
    <2>1. ~Ended /\ ~Ended'
        BY <1>3 DEF WriteLine, LinesInv, Ended
    <2> DEFINE last == received + Len(channel) + Len(holding) + Len(pipe)
    <2>2. last \in Nat /\ written = last % LineMod
        <3>1. last \in Nat
            BY <1>1, <1>2
        <3>2. written = last % LineMod
            BY <2>1 DEF LinesInv
        <3> QED  BY <3>1, <3>2
    <2>3. After(written) = (last + 1) % LineMod
        BY <2>2, NumbersOn DEF After
    <2>4. k # "eof"
        BY StdinAssumption
    <2>5. /\ Len(pipe') = Len(pipe) + 1
          /\ \A i \in 1 .. Len(pipe) : pipe'[i] = pipe[i]
          /\ pipe'[Len(pipe) + 1] = [kind |-> k, n |-> After(written)]
        BY <1>3 DEF WriteLine, StdinTyped
    <2>6. \A i \in 1 .. Len(pipe') :
              /\ pipe'[i].n =
                     (received + Len(channel) + Len(holding) + i) % LineMod
              /\ pipe'[i].kind # "eof"
        <3> SUFFICES ASSUME NEW i \in 1 .. Len(pipe) + 1
                     PROVE  /\ pipe'[i].n =
                              (received + Len(channel) + Len(holding) + i) % LineMod
                            /\ pipe'[i].kind # "eof"
            BY <2>5
        <3>1. CASE i \in 1 .. Len(pipe)
            BY <2>5, <3>1 DEF LinesInv
        <3>2. CASE i = Len(pipe) + 1
            <4>1. received + Len(channel) + Len(holding) + i = last + 1
                BY <1>1, <1>2, <3>2
            <4>2. pipe'[i] = [kind |-> k, n |-> After(written)]
                BY <2>5, <3>2
            <4> QED  BY <2>3, <2>4, <4>1, <4>2
        <3> QED  BY <1>1, <3>1, <3>2
    <2>7. written' =
              (received + Len(channel) + Len(holding) + Len(pipe')) % LineMod
        <3>1. received + Len(channel) + Len(holding) + Len(pipe') = last + 1
            BY <1>1, <1>2, <2>5
        <3>2. written' = After(written)
            BY <1>3 DEF WriteLine
        <3> QED  BY <2>3, <3>1, <3>2
    <2> QED  BY <1>3, <2>1, <2>6, <2>7 DEF WriteLine, LinesInv
<1>4. CASE ReadLine /\ pipe # <<>>
    <2>1. /\ holding = <<>> /\ reader = "alive" /\ channel' = channel
          /\ holding' = <<Head(pipe)>> /\ pipe' = Tail(pipe)
          /\ UNCHANGED <<closed, reader, written, received>>
        BY <1>4 DEF ReadLine
    <2>2. /\ Len(pipe) > 0 /\ Head(pipe) = pipe[1]
          /\ Len(pipe') = Len(pipe) - 1
          /\ \A i \in 1 .. Len(pipe') : pipe'[i] = pipe[i + 1]
        BY <1>4, <2>1, HeadTailProperties, EmptySeq DEF StdinTyped
    <2>3. Len(holding) = 0 /\ Len(holding') = 1 /\ Head(holding') = pipe[1]
          /\ holding' # <<>>
        BY <2>1, <2>2
    <2>4. ~Ended /\ ~Ended'
        BY <1>1, <2>1, <2>2, <2>3 DEF Ended, LinesInv
    <2>5. Head(holding').n = (received + Len(channel) + 1) % LineMod
        <3>1. 1 \in 1 .. Len(pipe)
            BY <1>1, <2>2
        <3>2. pipe[1].n = (received + Len(channel) + Len(holding) + 1) % LineMod
            BY <3>1 DEF LinesInv
        <3>3. received + Len(channel) + Len(holding) + 1
                  = received + Len(channel) + 1
            BY <1>1, <1>2, <2>3
        <3> QED  BY <2>3, <3>2, <3>3
    <2>6. \A i \in 1 .. Len(pipe') :
              /\ pipe'[i].n =
                     (received + Len(channel) + Len(holding') + i) % LineMod
              /\ pipe'[i].kind # "eof"
        <3> SUFFICES ASSUME NEW i \in 1 .. Len(pipe')
                     PROVE  /\ pipe'[i].n = (received + Len(channel)
                                             + Len(holding') + i) % LineMod
                            /\ pipe'[i].kind # "eof"
            OBVIOUS
        <3>1. i + 1 \in 1 .. Len(pipe) /\ pipe'[i] = pipe[i + 1]
            BY <1>1, <2>2
        <3>2. received + Len(channel) + Len(holding) + (i + 1)
                  = received + Len(channel) + Len(holding') + i
            <4>1. Len(channel) \in Nat /\ i \in Int
                BY <1>2, <3>1
            <4> QED  BY <1>1, <2>3, <4>1
        <3> QED  BY <3>1, <3>2 DEF LinesInv
    <2>7. written =
              (received + Len(channel) + Len(holding') + Len(pipe')) % LineMod
        <3>1. Len(channel) \in Nat
            BY <1>2
        <3>2. received + Len(channel) + Len(holding') + Len(pipe')
                  = received + Len(channel) + Len(holding) + Len(pipe)
            BY <1>1, <2>2, <2>3, <3>1
        <3>3. written = (received + Len(channel) + Len(holding) + Len(pipe))
                        % LineMod
            BY <2>4 DEF LinesInv
        <3> QED  BY <3>2, <3>3
    <2> QED  BY <2>1, <2>3, <2>4, <2>5, <2>6, <2>7 DEF LinesInv
<1>5. CASE ReadLine /\ pipe = <<>>
    <2>1. /\ holding = <<>> /\ reader = "alive" /\ closed
          /\ holding' = <<[kind |-> "eof", n |-> After(written)]>>
          /\ UNCHANGED <<pipe, closed, reader, channel, written, received>>
        BY <1>5 DEF ReadLine
    <2>2. ~Ended /\ Len(pipe) = 0 /\ Len(holding) = 0
        BY <1>5, <2>1 DEF Ended
    <2>3. written = (received + Len(channel)) % LineMod
        <3>1. received + Len(channel) + Len(holding) + Len(pipe)
                  = received + Len(channel)
            BY <1>1, <1>2, <2>2
        <3>2. written = (received + Len(channel) + Len(holding) + Len(pipe))
                        % LineMod
            BY <2>2 DEF LinesInv
        <3> QED  BY <3>1, <3>2
    <2>4. After(written) = (received + Len(channel) + 1) % LineMod
        <3> DEFINE last == received + Len(channel)
        <3>1. last \in Nat /\ written = last % LineMod
            BY <1>1, <1>2, <2>3
        <3> HIDE DEF last
        <3>2. After(written) = (last + 1) % LineMod
            BY <3>1, NumbersOn DEF After
        <3> QED  BY <3>2 DEF last
    <2>5. holding' # <<>> /\ Head(holding').n = After(written)
        BY <2>1
    <2>6. received \in 0 .. LineMod - 1 /\ reader # "gone" /\ Len(pipe') = 0
          /\ channel # <<>> => Head(channel).n = (received + 1) % LineMod
        BY <2>1, <2>2 DEF LinesInv
    <2>7. Ended'
        BY <2>1 DEF Ended
    <2>8. \A i \in 1 .. Len(pipe') : FALSE
        <3>1. pipe' = <<>>
            BY <1>5, <2>1
        <3> QED  BY <3>1
    <2> QED  BY <1>5, <2>1, <2>4, <2>5, <2>6, <2>7, <2>8 DEF LinesInv
<1>6. CASE SendLine
    <2>1. /\ holding # <<>> /\ channel = <<>> /\ channel' = holding
          /\ holding' = <<>> /\ UNCHANGED <<pipe, closed, written, received>>
          /\ Len(channel) = 0 /\ Len(holding) = 1
          /\ Len(channel') = 1 /\ Len(holding') = 0
        BY <1>2, <1>6 DEF SendLine, AfterSend
    <2>2. Ended' <=> Ended
        BY <1>6, <2>1 DEF SendLine, AfterSend, Ended, LinesInv
    <2>3. Head(channel').n = (received' + 1) % LineMod
        BY <1>1, <2>1 DEF LinesInv
    <2>4. received + Len(channel) + Len(holding)
              = received' + Len(channel') + Len(holding')
        BY <1>1, <2>1
    <2>5. \A i \in 1 .. Len(pipe') :
              /\ pipe'[i].n =
                     (received' + Len(channel') + Len(holding') + i) % LineMod
              /\ pipe'[i].kind # "eof"
        BY <2>1, <2>4 DEF LinesInv
    <2>6. ~Ended' => written' = (received' + Len(channel') + Len(holding')
                                   + Len(pipe')) % LineMod
        BY <2>1, <2>2, <2>4 DEF LinesInv
    <2> QED  BY <2>1, <2>2, <2>3, <2>5, <2>6 DEF LinesInv
<1>7. CASE Take
    <2>1. /\ channel' = <<>> /\ received' = (received + 1) % LineMod
          /\ UNCHANGED <<pipe, closed, holding, reader, written>>
          /\ Len(channel) = 1 /\ Len(channel') = 0
        BY <1>2, <1>7 DEF Take, LinesInv
    <2>2. received' \in 0 .. LineMod - 1
        BY <1>1, <2>1, NumbersOn
    <2>3. \A k \in Nat : (received' + k) % LineMod = (received + 1 + k) % LineMod
        <3>1. received + 1 \in Nat
            BY <1>1
        <3> QED  BY <2>1, <3>1, NumbersOn
    <2>4. Ended' <=> Ended
        BY <2>1 DEF Ended
    <2>5. holding' # <<>> => Head(holding').n = (received' + 0 + 1) % LineMod
        <3>1. received' \in Nat
            BY <1>1, <2>2
        <3>2. received' + 0 + 1 = received' + 1
            BY <3>1
        <3>3. (received' + 1) % LineMod = (received + 1 + 1) % LineMod
            BY <2>3
        <3> QED  BY <2>1, <3>2, <3>3 DEF LinesInv
    <2>6. \A i \in 1 .. Len(pipe') :
              /\ pipe'[i].n = (received' + 0 + Len(holding') + i) % LineMod
              /\ pipe'[i].kind # "eof"
        <3> SUFFICES ASSUME NEW i \in 1 .. Len(pipe)
                     PROVE  /\ pipe[i].n =
                                (received' + 0 + Len(holding) + i) % LineMod
                            /\ pipe[i].kind # "eof"
            BY <2>1
        <3>1. Len(holding) \in Nat /\ i \in Nat
            BY <1>2
        <3>2. Len(holding) + i \in Nat
            BY <3>1
        <3>3. (received' + (Len(holding) + i)) % LineMod
                  = (received + 1 + (Len(holding) + i)) % LineMod
            BY <2>3, <3>2
        <3>4. received' \in Nat
            BY <1>1, <2>2
        <3>5. /\ received' + (Len(holding) + i) = received' + 0 + Len(holding) + i
              /\ received + 1 + (Len(holding) + i)
                     = received + Len(channel) + Len(holding) + i
            BY <1>1, <2>1, <3>1, <3>4
        <3> QED  BY <3>3, <3>5 DEF LinesInv
    <2>7. ~Ended' => written' =
                         (received' + 0 + Len(holding') + Len(pipe')) % LineMod
        <3>1. Len(holding) \in Nat /\ Len(holding) + Len(pipe) \in Nat
            BY <1>1, <1>2
        <3>2. (received' + (Len(holding) + Len(pipe))) % LineMod
                  = (received + 1 + (Len(holding) + Len(pipe))) % LineMod
            BY <2>3, <3>1
        <3>3. received' \in Nat
            BY <1>1, <2>2
        <3>4. /\ received' + (Len(holding) + Len(pipe))
                     = received' + 0 + Len(holding) + Len(pipe)
              /\ received + 1 + (Len(holding) + Len(pipe))
                     = received + Len(channel) + Len(holding) + Len(pipe)
            BY <1>1, <2>1, <3>1, <3>3
        <3> QED  BY <2>1, <2>4, <3>2, <3>4 DEF LinesInv
    <2>8. channel' = <<>> /\ Len(channel') = 0
        BY <2>1
    <2>9. (reader' = "gone" => holding' = <<>>) /\ (Ended' => closed' /\ pipe' = <<>>)
        BY <2>1, <2>4 DEF LinesInv
    <2> QED  BY <2>2, <2>5, <2>6, <2>7, <2>8, <2>9 DEF LinesInv
<1>8. CASE CloseStdin \/ UNCHANGED stdinVars
    BY <1>8 DEF CloseStdin, stdinVars, LinesInv, Ended
<1> QED  BY <1>3, <1>4, <1>5, <1>6, <1>7, <1>8

\* The numbering of the three places is one of what they hold together.
LEMMA LinesInOrder == StdinTyped /\ LinesInv => LinesOnce
<1> SUFFICES ASSUME StdinTyped, LinesInv, NEW i \in 1 .. Len(Pending)
             PROVE  Pending[i].n = (received + i) % LineMod
    BY DEF LinesOnce
<1>1. received \in Nat
    BY StdinAssumption DEF LinesInv, LineMod
<1>2. /\ channel \in Seq(Lines) /\ holding \in Seq(Lines) /\ pipe \in Seq(Lines)
      /\ Len(channel) = IF channel = <<>> THEN 0 ELSE 1
      /\ Len(holding) = IF holding = <<>> THEN 0 ELSE 1
      /\ channel # <<>> => channel[1].n = (received + 1) % LineMod
      /\ holding # <<>> => holding[1].n = (received + Len(channel) + 1) % LineMod
      /\ Len(pipe) \in Nat
    BY AtMostOne DEF StdinTyped, LinesInv
<1> DEFINE sent == channel \o holding
<1>3. /\ sent \in Seq(Lines) /\ Len(sent) = Len(channel) + Len(holding)
      /\ \A j \in 1 .. Len(channel) + Len(holding) :
             sent[j] = IF j <= Len(channel) THEN channel[j]
                                            ELSE holding[j - Len(channel)]
    <2>1. sent \in Seq(Lines)
        BY <1>2, ConcatProperties
    <2>2. Len(sent) = Len(channel) + Len(holding)
        BY <1>2, ConcatProperties
    <2>3. channel \in Seq(Lines) /\ holding \in Seq(Lines)
        BY <1>2
    <2>4. \A j \in 1 .. Len(channel) + Len(holding) :
              sent[j] = IF j <= Len(channel) THEN channel[j]
                                             ELSE holding[j - Len(channel)]
        BY <2>3, ConcatProperties
    <2> QED  BY <2>1, <2>2, <2>4
<1>4. /\ Len(Pending) = Len(sent) + Len(pipe)
      /\ \A j \in 1 .. Len(sent) + Len(pipe) :
             Pending[j] = IF j <= Len(sent) THEN sent[j] ELSE pipe[j - Len(sent)]
    <2>1. sent \in Seq(Lines) /\ pipe \in Seq(Lines) /\ Pending = sent \o pipe
        BY <1>2, <1>3 DEF Pending
    <2> HIDE DEF sent
    <2> QED  BY <2>1
<1> HIDE DEF sent
<1>5. CASE i <= Len(sent)
    <2>1. i \in 1 .. Len(sent)
        BY <1>2, <1>3, <1>4, <1>5
    <2>2. CASE i <= Len(channel)
        BY <1>1, <1>2, <1>3, <1>4, <2>1, <2>2
    <2>3. CASE ~(i <= Len(channel))
        <3>1. holding # <<>> /\ i = Len(channel) + 1
            BY <1>2, <1>3, <2>1, <2>3
        <3>2. Pending[i] = holding[1]
            BY <1>2, <1>3, <1>4, <1>5, <2>1, <2>3, <3>1
        <3> QED  BY <1>1, <1>2, <3>1, <3>2
    <2> QED  BY <2>2, <2>3
<1>6. CASE ~(i <= Len(sent))
    <2>1. i - Len(sent) \in 1 .. Len(pipe) /\ Len(sent) \in Nat
        BY <1>2, <1>3, <1>4, <1>6
    <2>2. pipe[i - Len(sent)].n = (received + Len(channel) + Len(holding) +
                                     (i - Len(sent))) % LineMod
        BY <2>1 DEF LinesInv
    <2>3. Len(channel) \in Nat /\ Len(holding) \in Nat /\ i \in Int
        BY <1>2
    <2>4. received + Len(channel) + Len(holding) + (i - Len(sent)) = received + i
        BY <1>1, <1>3, <2>1, <2>3
    <2> QED  BY <1>4, <1>6, <2>2, <2>4
<1> QED  BY <1>5, <1>6

\* Whatever times out and however late it comes, each line of stdin is
\* received once and in its turn, for pipes and timeouts of any size.
THEOREM LinesOnceCorrect == Spec => []LinesOnce
<1> DEFINE Inv == StdinTyped /\ LinesInv
<1>1. Init => Inv
    BY StdinAssumption DEF Init, StdinInit, StdinTyped, LinesInv, Ended, LineMod
<1>2. Inv /\ [Next]_vars => Inv'
    BY StdinOnly, StdinStep, LinesStep
<1>3. Inv => LinesOnce
    BY LinesInOrder
<1> HIDE DEF Inv
<1> QED  BY <1>1, <1>2, <1>3, PTL DEF Spec
=============================================================================
