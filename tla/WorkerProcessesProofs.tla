----------------------- MODULE WorkerProcessesProofs -----------------------
(***************************************************************************)
(* Proofs about WorkerProcesses, for any hosts, any number of calls and    *)
(* any number of processes that die and controls that fail.                *)
(*                                                                         *)
(* The adapter and the Worker only meet in two pipes and in the kernel's   *)
(* view of who is alive, so the invariant says, for each place a browser   *)
(* call may be at, what is in the pipes (PipeInv), that the Worker is in   *)
(* the cgroup once it may be acknowledged (AckInv), and what is left of    *)
(* the tree that is being ended (SupInv, ClosedInv).                       *)
(***************************************************************************)
EXTENDS WorkerProcesses, SequenceTheorems, TLAPS

Message == {"ack", "request", "shutdown"} \X Nat
Line == [kind : {"hello", "ok", "invalid", "broken"}, req : Nat]

Typed == TypeOK /\ stdin \in Seq(Message) /\ stdout \in Seq(Line)

(* A call spawns one tree at most, and ends none before the first. *)
SpawnInv ==
    /\ gen <= calls
    /\ pc \in {"ensure", "spawn"} \/ (pc \in Killing /\ after = "spawn") => gen < calls
    /\ sup \/ pc \notin {"free", "ensure", "spawn", "bye"} => gen > 0

(* A tree is given up before it is ended, and before the next is started. *)
SupInv ==
    /\ pc # "wait"
    /\ pc \in {"spawn"} \cup (Killing \ {"kill"}) => ~sup

(* The pipes are closed once nothing but the browser may be left. *)
ClosedInv == pc \in {"cgkill", "cgwait", "cleanup"} => \A p \in Of(gen) : p[2] = "child"

(* The Worker may be told, was told or has taken note that it is contained. *)
Acked ==
    \/ pc = "ack"
    \/ \E i \in 1 .. Len(stdin) : stdin[i][1] = "ack"
    \/ wpc = "idle"

AckInv == Acked => wpc # "none" /\ (Worker \in alive => Worker \in cg)

Announced == wpc \notin {"none", "boot"}

NoRequest == \A i \in 1 .. Len(stdin) : stdin[i][1] # "request"

(* What is in the pipes where the adapter is. *)
PipeInv ==
    /\ pc = "hello" => stdin = <<>> /\ Len(stdout) <= 1 /\ (stdout # <<>> <=> Announced)
    /\ pc \in {"confirm", "ack"} => stdin = <<>> /\ stdout = <<>> /\ Announced
    /\ pc = "send" \/ (sup /\ pc \in {"free", "ensure", "bye"}) =>
          NoRequest /\ stdout = <<>> /\ Announced
    /\ pc \in {"read", "write"} =>
          /\ Announced /\ Len(stdout) <= 1
          /\ \A i \in 1 .. Len(stdout) : stdout[i].req = calls
          /\ \A i \in 1 .. Len(stdin) : stdin[i][1] = "request" =>
                i = Len(stdin) /\ stdin[i][2] = calls /\ stdout = <<>>

IInv ==
    /\ Typed /\ SpawnInv
    /\ client = "browser" => SupInv /\ ClosedInv /\ AckInv /\ PipeInv
    /\ BrowserIsContained /\ OneBrowserTree

----------------------------------------------------------------------------
(* What is written to a pipe and what is taken from it: the messages of stdin
   and the lines of stdout. *)
LEMMA Written ==
    ASSUME NEW S, NEW s \in Seq(S), NEW m \in S
    PROVE  /\ Append(s, m) \in Seq(S) /\ Len(Append(s, m)) = Len(s) + 1
           /\ \A i \in 1 .. Len(s) : Append(s, m)[i] = s[i]
           /\ Append(s, m)[Len(s) + 1] = m
  OBVIOUS

LEMMA Taken ==
    ASSUME NEW S, NEW s \in Seq(S), s # <<>>
    PROVE  /\ Head(s) = s[1] /\ Head(s) \in S /\ Tail(s) \in Seq(S)
           /\ Len(Tail(s)) = Len(s) - 1 /\ Len(s) \in Nat \ {0}
           /\ \A i \in 1 .. Len(Tail(s)) : Tail(s)[i] = s[i + 1]
  OBVIOUS

LEMMA Messages ==
    /\ <<"ack", 0>> \in Message /\ <<"shutdown", 0>> \in Message
    /\ \A n \in Nat : <<"request", n>> \in Message /\ [kind |-> "hello", req |-> n] \in Line
    /\ \A m \in Message : m[2] \in Nat
    /\ \A m \in Message, k \in {"ok", "invalid", "broken"} : [kind |-> k, req |-> m[2]] \in Line
    /\ calls \in 0 .. MaxCalls => calls \in Nat
  BY BoundsAssumption DEF Message, Line

(* Both pipes after a step that writes one entry to them or takes one. *)
LEMMA Streams ==
    ASSUME Typed
    PROVE  /\ \A m \in Message : Append(stdin, m) \in Seq(Message)
           /\ stdin # <<>> => Head(stdin) \in Message /\ Tail(stdin) \in Seq(Message)
           /\ \A l \in Line : Append(stdout, l) \in Seq(Line)
           /\ stdout # <<>> => Tail(stdout) \in Seq(Line)
           /\ <<>> \in Seq(Message) /\ <<>> \in Seq(Line)
           /\ \A m \in Message : <<m>> \in Seq(Message)
  BY Written, Taken DEF Typed


(* One call of a one-shot adapter: a tree, or none. *)
LEMMA OneCall ==
    ASSUME TypeOK, SpawnInv, invoke \/ run_argv
    PROVE  /\ client # "browser" /\ pc = "free" /\ calls' = calls + 1
           /\ gen + 1 \in 1 .. MaxCalls /\ calls + 1 \in 0 .. MaxCalls
           /\ UNCHANGED <<client, setup, cg, termed, killed, after, sup, refusing>>
           /\ \/ /\ pc' \in {"wait", "write"} /\ gen' = gen + 1 /\ alive' = alive \cup {<<gen + 1, "root">>}
                 /\ tracked' = {} /\ failed' = FALSE /\ again' = FALSE /\ eof' \in BOOLEAN
                 /\ stdin' = <<<<"request", calls + 1>>>> /\ stdout' = <<>>
              \/ UNCHANGED <<pc, gen, alive, tracked, failed, again, eof, stdin, stdout>>
<1>1. PICK missing : RunOne(missing)
  BY DEF invoke, run_argv
<1>2. client # "browser"
  BY DEF invoke, run_argv
<1>3. pc = "free" /\ calls < MaxCalls /\ calls' = calls + 1 /\ UNCHANGED <<after, sup, refusing>>
  BY <1>1 DEF RunOne
<1>4. gen + 1 \in 1 .. MaxCalls /\ calls + 1 \in 0 .. MaxCalls
  BY <1>3, BoundsAssumption DEF SpawnInv, TypeOK
<1>5. UNCHANGED <<client, setup, cg, termed, killed>>
  BY <1>1 DEF RunOne, spawn_supervised, quiet, fixed, signals
<1>6. \/ \E fits \in BOOLEAN : /\ spawn_supervised("run", <<<<"request", calls + 1>>>>, fits)
                               /\ pc' \in {"wait", "write"}
      \/ UNCHANGED <<pc, gen, alive, tracked, failed, again, eof, stdin, stdout>>
  BY <1>1 DEF RunOne, quiet, ending, pipes
<1> QED
  BY <1>2, <1>3, <1>4, <1>5, <1>6 DEF spawn_supervised


(* The adapter and its host stay what they are. *)
LEMMA ClientStep == Next => client' = client
<1> USE DEF fixed, quiet
<1>1. ASSUME NEW o \in {"invoke", "probe", "shutdown"}, Call(o) PROVE client' = client
  BY <1>1 DEF Call
<1>2. CASE invoke \/ run_argv
  BY <1>2 DEF invoke, run_argv, RunOne, spawn_supervised
<1>3. CASE CallStep
  BY <1>3 DEF CallStep, _posix_terminate, Write, spawn_supervised,
      terminate_tree, Scan, Term, Grace, Kill9, Reap, release_supervision, CloseStdin,
      ClosePipes, kill_contained, _wait_until_empty, cleanup, _ensure_process, StartRefused, Start,
      ReadHello, confirm_containment, SendAck, SendRequest, WriteEnds, _read_result_line, Shutdown, ShutdownWait, Wait, Finish
<1>4. CASE LauncherForks \/ Hello \/ _handshake \/ _production_engine \/ Answer \/ Break \/ Leave
  BY <1>4 DEF LauncherForks, Hello, _handshake, _production_engine, Answer, Break, Leave,
      Serving, WorkerStep
<1>5. CASE LauncherExits \/ OutOfMemory \/ \E p \in alive : DiesOfSignal(p) \/ Crash(p) \/ OrphanExits(p)
  BY <1>5 DEF LauncherExits, OutOfMemory, DiesOfSignal, Crash, OrphanExits, Dies
<1> QED
  BY <1>1, <1>2, <1>3, <1>4, <1>5 DEF Next

(* No step spawns a second tree in one call: _ensure_process and a tree that is
   ended for the next one come to spawn before Start, and to nothing after it. *)
LEMMA SpawnStep ==
    ASSUME TypeOK, SpawnInv, Next
    PROVE  SpawnInv'
<1> USE BoundsAssumption DEF adapter, signals, ending, pipes, fixed, quiet, vars
<1>1. ASSUME NEW o \in {"invoke", "probe", "shutdown"}, Call(o) PROVE SpawnInv'
  BY <1>1 DEF Call, SpawnInv, Killing, Closing, TypeOK
<1>2. CASE invoke \/ run_argv
  BY <1>2 DEF invoke, run_argv, RunOne, spawn_supervised, Fault, SpawnInv, Killing, Closing, TypeOK
<1>3. CASE terminate_tree
  BY <1>3 DEF terminate_tree, SpawnInv, Killing, Closing, TypeOK
<1>4. CASE Scan
  BY <1>4 DEF Scan, Goto, SpawnInv, Killing, Closing, TypeOK
<1>5. CASE Term
  BY <1>5 DEF Term, Goto, SpawnInv, Killing, Closing, TypeOK
<1>6. CASE Grace
  BY <1>6 DEF Grace, Goto, SpawnInv, Killing, Closing, TypeOK
<1>7. CASE Kill9
  BY <1>7 DEF Kill9, Goto, SpawnInv, Killing, Closing, TypeOK
<1>8. CASE Reap
  BY <1>8 DEF Reap, Goto, SpawnInv, Killing, Closing, TypeOK
<1>9. CASE release_supervision
  BY <1>9 DEF release_supervision, Goto, SpawnInv, Killing, Closing, TypeOK
<1>10. CASE CloseStdin
  BY <1>10 DEF CloseStdin, Goto, SpawnInv, Killing, Closing, TypeOK
<1>11. CASE ClosePipes
  BY <1>11 DEF ClosePipes, SpawnInv, Killing, Closing, TypeOK
<1>12. CASE kill_contained
  BY <1>12 DEF kill_contained, Goto, SpawnInv, Killing, Closing, TypeOK
<1>13. CASE _wait_until_empty
  BY <1>13 DEF _wait_until_empty, SpawnInv, Killing, Closing, TypeOK
<1>14. CASE cleanup
  BY <1>14 DEF cleanup, Resume, Fault, SpawnInv, Killing, Closing, TypeOK
<1>15. CASE _ensure_process
  BY <1>15 DEF _ensure_process, Ready, EndTree, Goto, Return, SpawnInv, Killing, Closing, TypeOK
<1>16. CASE StartRefused
  BY <1>16 DEF StartRefused, Return, prepare, Fault, SpawnInv, Killing, Closing, TypeOK
<1>17. CASE Start
  BY <1>17 DEF Start, spawn_supervised, prepare, SpawnInv, Killing, Closing, TypeOK
<1>18. CASE ReadHello
  BY <1>18 DEF ReadHello, Goto, EndTree, SpawnInv, Killing, Closing, TypeOK
<1>19. CASE confirm_containment
  BY <1>19 DEF confirm_containment, Goto, EndTree, Fault, SpawnInv, Killing, Closing, TypeOK
<1>20. CASE SendAck
  BY <1>20 DEF SendAck, Write, Ready, Goto, Return, EndTree, SpawnInv, Killing, Closing, TypeOK
<1>21. CASE SendRequest
  BY <1>21 DEF SendRequest, Write, Goto, EndTree, SpawnInv, Killing, Closing, TypeOK
<1>37. CASE WriteEnds
  BY <1>37 DEF WriteEnds, Goto, EndTree, SpawnInv, Killing, Closing, TypeOK
<1>22. CASE _read_result_line
  BY <1>22 DEF _read_result_line, TakeLine, NoMoreLines, Return, EndTree, SpawnInv, Killing, Closing, TypeOK
<1>23. CASE Shutdown
  BY <1>23 DEF Shutdown, Return, Goto, EndTree, SpawnInv, Killing, Closing, TypeOK
<1>24. CASE ShutdownWait
  BY <1>24 DEF ShutdownWait, EndTree, SpawnInv, Killing, Closing, TypeOK
<1>25. CASE Wait
  BY <1>25 DEF Wait, SpawnInv, Killing, Closing, TypeOK
<1>26. CASE Finish
  BY <1>26 DEF Finish, Return, SpawnInv, Killing, Closing, TypeOK
<1>27. CASE LauncherForks
  BY <1>27 DEF LauncherForks, Starts, SpawnInv, Killing, Closing, TypeOK
<1>28. CASE Hello
  BY <1>28 DEF Hello, WorkerStep, SpawnInv, Killing, Closing, TypeOK
<1>29. CASE _handshake
  BY <1>29 DEF _handshake, WorkerStep, SpawnInv, Killing, Closing, TypeOK
<1>30. CASE _production_engine
  BY <1>30 DEF _production_engine, Serving, WorkerStep, Starts, SpawnInv, Killing, Closing, TypeOK
<1>31. CASE Answer
  BY <1>31 DEF Answer, Serving, WorkerStep, SpawnInv, Killing, Closing, TypeOK
<1>32. CASE Break
  BY <1>32 DEF Break, Serving, WorkerStep, Fault, SpawnInv, Killing, Closing, TypeOK
<1>33. CASE Leave
  BY <1>33 DEF Leave, WorkerStep, Gone, Fault, SpawnInv, Killing, Closing, TypeOK
<1>34. CASE LauncherExits
  BY <1>34 DEF LauncherExits, Gone, SpawnInv, Killing, Closing, TypeOK
<1>35. CASE OutOfMemory
  BY <1>35 DEF OutOfMemory, Dies, Gone, Fault, SpawnInv, Killing, Closing, TypeOK
<1>36. ASSUME NEW p \in alive, DiesOfSignal(p) \/ Crash(p) \/ OrphanExits(p) PROVE SpawnInv'
  BY <1>36 DEF DiesOfSignal, Crash, OrphanExits, Dies, Gone, Fault, SpawnInv, Killing, Closing, TypeOK
<1> QED
  BY <1>1, <1>2, <1>3, <1>4, <1>5, <1>6, <1>7, <1>8, <1>9, <1>10, <1>11, <1>12, <1>13, <1>14, <1>15, <1>16, <1>17, <1>18, <1>19, <1>20, <1>21, <1>22, <1>23, <1>24, <1>25, <1>26, <1>27, <1>28, <1>29, <1>30, <1>31, <1>32, <1>33, <1>34, <1>35, <1>36, <1>37 DEF Next, CallStep, _posix_terminate

(* terminate_tree gives the tree up first, and only Start takes one. *)
LEMMA SupStep ==
    ASSUME Typed, SupInv, client = "browser", Next
    PROVE  SupInv'
<1> USE DEF adapter, signals, ending, pipes, fixed, quiet, vars
<1>1. ASSUME NEW o \in {"invoke", "probe", "shutdown"}, Call(o) PROVE SupInv'
  BY <1>1 DEF Call, SupInv, Killing, Closing, Typed, TypeOK
<1>2. CASE invoke \/ run_argv
  BY <1>2 DEF invoke, run_argv, RunOne, Fault, SupInv, Killing, Closing, Typed, TypeOK
<1>3. CASE terminate_tree
  BY <1>3 DEF terminate_tree, SupInv, Killing, Closing, Typed, TypeOK
<1>4. CASE Scan
  BY <1>4 DEF Scan, Goto, SupInv, Killing, Closing, Typed, TypeOK
<1>5. CASE Term
  BY <1>5 DEF Term, Goto, SupInv, Killing, Closing, Typed, TypeOK
<1>6. CASE Grace
  BY <1>6 DEF Grace, Goto, SupInv, Killing, Closing, Typed, TypeOK
<1>7. CASE Kill9
  BY <1>7 DEF Kill9, Goto, SupInv, Killing, Closing, Typed, TypeOK
<1>8. CASE Reap
  BY <1>8 DEF Reap, Goto, SupInv, Killing, Closing, Typed, TypeOK
<1>9. CASE release_supervision
  BY <1>9 DEF release_supervision, Goto, SupInv, Killing, Closing, Typed, TypeOK
<1>10. CASE CloseStdin
  BY <1>10 DEF CloseStdin, Goto, SupInv, Killing, Closing, Typed, TypeOK
<1>11. CASE ClosePipes
  BY <1>11 DEF ClosePipes, SupInv, Killing, Closing, Typed, TypeOK
<1>12. CASE kill_contained
  BY <1>12 DEF kill_contained, Goto, SupInv, Killing, Closing, Typed, TypeOK
<1>13. CASE _wait_until_empty
  BY <1>13 DEF _wait_until_empty, SupInv, Killing, Closing, Typed, TypeOK
<1>14. CASE cleanup
  BY <1>14 DEF cleanup, Resume, Fault, SupInv, Killing, Closing, Typed, TypeOK
<1>15. CASE _ensure_process
  BY <1>15 DEF _ensure_process, Ready, EndTree, Goto, Return, SupInv, Killing, Closing, Typed, TypeOK
<1>16. CASE StartRefused
  BY <1>16 DEF StartRefused, Return, prepare, Fault, SupInv, Killing, Closing, Typed, TypeOK
<1>17. CASE Start
  BY <1>17 DEF Start, prepare, SupInv, Killing, Closing, Typed, TypeOK
<1>18. CASE ReadHello
  BY <1>18 DEF ReadHello, Goto, EndTree, SupInv, Killing, Closing, Typed, TypeOK
<1>19. CASE confirm_containment
  BY <1>19 DEF confirm_containment, Goto, EndTree, Fault, SupInv, Killing, Closing, Typed, TypeOK
<1>20. CASE SendAck
  BY <1>20 DEF SendAck, Write, Ready, Goto, Return, EndTree, SupInv, Killing, Closing, Typed, TypeOK
<1>21. CASE SendRequest
  BY <1>21 DEF SendRequest, Write, Goto, EndTree, SupInv, Killing, Closing, Typed, TypeOK
<1>37. CASE WriteEnds
  BY <1>37 DEF WriteEnds, Goto, EndTree, SupInv, Killing, Closing, Typed, TypeOK
<1>22. CASE _read_result_line
  BY <1>22 DEF _read_result_line, TakeLine, NoMoreLines, Return, EndTree, SupInv, Killing, Closing, Typed, TypeOK
<1>23. CASE Shutdown
  BY <1>23 DEF Shutdown, Return, Goto, EndTree, SupInv, Killing, Closing, Typed, TypeOK
<1>24. CASE ShutdownWait
  BY <1>24 DEF ShutdownWait, EndTree, SupInv, Killing, Closing, Typed, TypeOK
<1>25. CASE Wait
  BY <1>25 DEF Wait, SupInv, Killing, Closing, Typed, TypeOK
<1>26. CASE Finish
  BY <1>26 DEF Finish, Return, SupInv, Killing, Closing, Typed, TypeOK
<1>27. CASE LauncherForks
  BY <1>27 DEF LauncherForks, Starts, SupInv, Killing, Closing, Typed, TypeOK
<1>28. CASE Hello
  BY <1>28 DEF Hello, WorkerStep, SupInv, Killing, Closing, Typed, TypeOK
<1>29. CASE _handshake
  BY <1>29 DEF _handshake, WorkerStep, SupInv, Killing, Closing, Typed, TypeOK
<1>30. CASE _production_engine
  BY <1>30 DEF _production_engine, Serving, WorkerStep, Starts, SupInv, Killing, Closing, Typed, TypeOK
<1>31. CASE Answer
  BY <1>31 DEF Answer, Serving, WorkerStep, SupInv, Killing, Closing, Typed, TypeOK
<1>32. CASE Break
  BY <1>32 DEF Break, Serving, WorkerStep, Fault, SupInv, Killing, Closing, Typed, TypeOK
<1>33. CASE Leave
  BY <1>33 DEF Leave, WorkerStep, Gone, Fault, SupInv, Killing, Closing, Typed, TypeOK
<1>34. CASE LauncherExits
  BY <1>34 DEF LauncherExits, Gone, SupInv, Killing, Closing, Typed, TypeOK
<1>35. CASE OutOfMemory
  BY <1>35 DEF OutOfMemory, Dies, Gone, Fault, SupInv, Killing, Closing, Typed, TypeOK
<1>36. ASSUME NEW p \in alive, DiesOfSignal(p) \/ Crash(p) \/ OrphanExits(p) PROVE SupInv'
  BY <1>36 DEF DiesOfSignal, Crash, OrphanExits, Dies, Gone, Fault, SupInv, Killing, Closing, Typed, TypeOK
<1> QED
  BY <1>1, <1>2, <1>3, <1>4, <1>5, <1>6, <1>7, <1>8, <1>9, <1>10, <1>11, <1>12, <1>13, <1>14, <1>15, <1>16, <1>17, <1>18, <1>19, <1>20, <1>21, <1>22, <1>23, <1>24, <1>25, <1>26, <1>27, <1>28, <1>29, <1>30, <1>31, <1>32, <1>33, <1>34, <1>35, <1>36, <1>37 DEF Next, CallStep, _posix_terminate

(* Every step keeps the types: a process that ends leaves every set it is in,
   and what starts belongs to a tree within the bound. *)
LEMMA TypedStep ==
    ASSUME TypeOK, SpawnInv, Next
    PROVE  TypeOK'
<1> USE BoundsAssumption DEF adapter, signals, ending, pipes, fixed, quiet, vars
<1>1. ASSUME NEW o \in {"invoke", "probe", "shutdown"}, Call(o) PROVE TypeOK'
  BY <1>1 DEF Call, Killing, Closing, TypeOK, Tree, Process, Root, Worker, Child, Of, process_group, members
<1>2. CASE invoke \/ run_argv
  <2>1. <<gen + 1, "root">> \in Process
    BY <1>2, OneCall DEF Process, Tree
  <2>2. CASE pc' \in {"wait", "write"}
    <3>1. /\ gen' = gen + 1 /\ gen + 1 \in 1 .. MaxCalls /\ tracked' = {}
          /\ alive' = alive \cup {<<gen + 1, "root">>} /\ UNCHANGED <<cg, termed, killed>>
      BY <2>2, <1>2, OneCall
    <3>2. gen' \in 0 .. MaxCalls /\ alive' \subseteq Process /\ alive \subseteq alive'
      BY <2>1, <3>1 DEF TypeOK
    <3>3. {sup', refusing', failed', again', eof'} \subseteq BOOLEAN
      BY <2>2, <1>2, OneCall DEF TypeOK
    <3> QED
      BY <3>1, <3>2, <3>3, <2>2, <1>2, OneCall DEF TypeOK
  <2>3. CASE UNCHANGED <<pc, gen, alive, tracked, failed, again, eof, stdin, stdout>>
    BY <2>3, <1>2, OneCall DEF TypeOK
  <2> QED
    BY <2>2, <2>3, <1>2, OneCall
<1>3. CASE terminate_tree
  BY <1>3 DEF terminate_tree, Killing, Closing, TypeOK, Tree, Process, Root, Worker, Child, Of, process_group, members
<1>4. CASE Scan
  <2>1. Root \in Process
    BY <1>4 DEF Scan, SpawnInv, TypeOK, Root, Process, Tree
  <2>2. tracked' \subseteq Process
    BY <2>1, <1>4 DEF Scan, TypeOK, _posix_descendants_of
  <2> QED
    BY <2>2, <1>4 DEF Scan, Goto, TypeOK, Killing
<1>5. CASE Term
  BY <1>5 DEF Term, Goto, Killing, Closing, TypeOK, Tree, Process, Root, Worker, Child, Of, process_group, members
<1>6. CASE Grace
  <2>1. tracked' \subseteq Process
    BY <1>6 DEF Grace, TypeOK, _posix_descendants_of
  <2> QED
    BY <2>1, <1>6 DEF Grace, Goto, TypeOK, Killing
<1>7. CASE Kill9
  BY <1>7 DEF Kill9, Goto, Killing, Closing, TypeOK, Tree, Process, Root, Worker, Child, Of, process_group, members
<1>8. CASE Reap
  BY <1>8 DEF Reap, Goto, Killing, Closing, TypeOK, Tree, Process, Root, Worker, Child, Of, process_group, members
<1>9. CASE release_supervision
  BY <1>9 DEF release_supervision, Goto, Killing, Closing, TypeOK, Tree, Process, Root, Worker, Child, Of, process_group, members
<1>10. CASE CloseStdin
  BY <1>10 DEF CloseStdin, Goto, Killing, Closing, TypeOK, Tree, Process, Root, Worker, Child, Of, process_group, members
<1>11. CASE ClosePipes
  BY <1>11 DEF ClosePipes, Killing, Closing, TypeOK, Tree, Process, Root, Worker, Child, Of, process_group, members
<1>12. CASE kill_contained
  BY <1>12 DEF kill_contained, Goto, Killing, Closing, TypeOK, Tree, Process, Root, Worker, Child, Of, process_group, members
<1>13. CASE _wait_until_empty
  BY <1>13 DEF _wait_until_empty, Killing, Closing, TypeOK, Tree, Process, Root, Worker, Child, Of, process_group, members
<1>14. CASE cleanup
  BY <1>14 DEF cleanup, Resume, Fault, Killing, Closing, TypeOK, Tree, Process, Root, Worker, Child, Of, process_group, members
<1>15. CASE _ensure_process
  BY <1>15 DEF _ensure_process, Ready, EndTree, Goto, Return, Killing, Closing, TypeOK, Tree, Process, Root, Worker, Child, Of, process_group, members
<1>16. CASE StartRefused
  BY <1>16 DEF StartRefused, Return, prepare, Fault, Killing, Closing, TypeOK, Tree, Process, Root, Worker, Child, Of, process_group, members
<1>17. CASE Start
  <2>1. gen + 1 \in 1 .. MaxCalls
    BY <1>17, BoundsAssumption DEF Start, SpawnInv, TypeOK
  <2>2. <<gen + 1, "root">> \in Process
    BY <2>1 DEF Process, Tree
  <2>3. /\ pc' = "hello" /\ sup' = TRUE /\ gen' = gen + 1 /\ alive' = alive \cup {<<gen + 1, "root">>}
        /\ tracked' = {} /\ failed' = FALSE /\ again' = FALSE /\ eof' = FALSE
        /\ UNCHANGED <<client, setup, calls, refusing, cg, termed, killed>>
    BY <1>17 DEF Start, spawn_supervised
  <2>4. gen' \in 0 .. MaxCalls /\ alive' \subseteq Process /\ alive \subseteq alive'
    BY <2>1, <2>2, <2>3 DEF TypeOK
  <2>5. {sup', refusing', failed', again', eof'} \subseteq BOOLEAN
    BY <2>3 DEF TypeOK
  <2> QED
    BY <2>3, <2>4, <2>5 DEF TypeOK
<1>18. CASE ReadHello
  BY <1>18 DEF ReadHello, Goto, EndTree, Killing, Closing, TypeOK, Tree, Process, Root, Worker, Child, Of, process_group, members
<1>19. CASE confirm_containment
  BY <1>19 DEF confirm_containment, Goto, EndTree, Fault, Killing, Closing, TypeOK, Tree, Process, Root, Worker, Child, Of, process_group, members
<1>20. CASE SendAck
  BY <1>20 DEF SendAck, Write, Ready, Goto, Return, EndTree, Killing, Closing, TypeOK, Tree, Process, Root, Worker, Child, Of, process_group, members
<1>21. CASE SendRequest
  BY <1>21 DEF SendRequest, Write, Goto, EndTree, Killing, Closing, TypeOK, Tree, Process, Root, Worker, Child, Of, process_group, members
<1>37. CASE WriteEnds
  BY <1>37 DEF WriteEnds, Goto, EndTree, Killing, Closing, TypeOK, Tree, Process, Root, Worker, Child, Of, process_group, members
<1>22. CASE _read_result_line
  BY <1>22 DEF _read_result_line, TakeLine, NoMoreLines, Return, EndTree, Killing, Closing, TypeOK, Tree, Process, Root, Worker, Child, Of, process_group, members
<1>23. CASE Shutdown
  BY <1>23 DEF Shutdown, Return, Goto, EndTree, Killing, Closing, TypeOK, Tree, Process, Root, Worker, Child, Of, process_group, members
<1>24. CASE ShutdownWait
  BY <1>24 DEF ShutdownWait, EndTree, Killing, Closing, TypeOK, Tree, Process, Root, Worker, Child, Of, process_group, members
<1>25. CASE Wait
  BY <1>25 DEF Wait, Killing, Closing, TypeOK, Tree, Process, Root, Worker, Child, Of, process_group, members
<1>26. CASE Finish
  BY <1>26 DEF Finish, Return, Killing, Closing, TypeOK, Tree, Process, Root, Worker, Child, Of, process_group, members
<1>27. CASE LauncherForks
  BY <1>27 DEF LauncherForks, Starts, Killing, Closing, TypeOK, Tree, Process, Root, Worker, Child, Of, process_group, members
<1>28. CASE Hello
  BY <1>28 DEF Hello, WorkerStep, Killing, Closing, TypeOK, Tree, Process, Root, Worker, Child, Of, process_group, members
<1>29. CASE _handshake
  BY <1>29 DEF _handshake, WorkerStep, Killing, Closing, TypeOK, Tree, Process, Root, Worker, Child, Of, process_group, members
<1>30. CASE _production_engine
  BY <1>30 DEF _production_engine, Serving, WorkerStep, Starts, Killing, Closing, TypeOK, Tree, Process, Root, Worker, Child, Of, process_group, members
<1>31. CASE Answer
  BY <1>31 DEF Answer, Serving, WorkerStep, Killing, Closing, TypeOK, Tree, Process, Root, Worker, Child, Of, process_group, members
<1>32. CASE Break
  BY <1>32 DEF Break, Serving, WorkerStep, Fault, Killing, Closing, TypeOK, Tree, Process, Root, Worker, Child, Of, process_group, members
<1>33. CASE Leave
  BY <1>33 DEF Leave, WorkerStep, Gone, Fault, Killing, Closing, TypeOK, Tree, Process, Root, Worker, Child, Of, process_group, members
<1>34. CASE LauncherExits
  BY <1>34 DEF LauncherExits, Gone, Killing, Closing, TypeOK, Tree, Process, Root, Worker, Child, Of, process_group, members
<1>35. CASE OutOfMemory
  BY <1>35 DEF OutOfMemory, Dies, Gone, Fault, Killing, Closing, TypeOK, Tree, Process, Root, Worker, Child, Of, process_group, members
<1>36. ASSUME NEW p \in alive, DiesOfSignal(p) \/ Crash(p) \/ OrphanExits(p) PROVE TypeOK'
  BY <1>36 DEF DiesOfSignal, Crash, OrphanExits, Dies, Gone, Fault, Killing, Closing, TypeOK, Tree, Process, Root, Worker, Child, Of, process_group, members
<1> QED
  BY <1>1, <1>2, <1>3, <1>4, <1>5, <1>6, <1>7, <1>8, <1>9, <1>10, <1>11, <1>12, <1>13, <1>14, <1>15, <1>16, <1>17, <1>18, <1>19, <1>20, <1>21, <1>22, <1>23, <1>24, <1>25, <1>26, <1>27, <1>28, <1>29, <1>30, <1>31, <1>32, <1>33, <1>34, <1>35, <1>36, <1>37 DEF Next, CallStep, _posix_terminate

(* The pipes hold messages and lines. *)
LEMMA StreamStep ==
    ASSUME Typed, SpawnInv, Next
    PROVE  stdin' \in Seq(Message) /\ stdout' \in Seq(Line)
<1> USE DEF adapter, signals, ending, pipes, fixed, quiet, vars
<1>1. ASSUME NEW o \in {"invoke", "probe", "shutdown"}, Call(o) PROVE stdin' \in Seq(Message) /\ stdout' \in Seq(Line)
  BY <1>1 DEF Call, Typed, TypeOK
<1>2. CASE invoke \/ run_argv
  <2>1. <<"request", calls + 1>> \in Message
    BY BoundsAssumption DEF Typed, TypeOK, Message
  <2>2. \/ stdin' = <<<<"request", calls + 1>>>> /\ stdout' = <<>>
        \/ UNCHANGED <<stdin, stdout>>
    BY <1>2, OneCall DEF Typed
  <2> QED
    BY <2>1, <2>2, Streams DEF Typed
<1>3. CASE terminate_tree
  BY <1>3 DEF terminate_tree, Typed, TypeOK
<1>4. CASE Scan
  BY <1>4 DEF Scan, Goto, Typed, TypeOK
<1>5. CASE Term
  BY <1>5 DEF Term, Goto, Typed, TypeOK
<1>6. CASE Grace
  BY <1>6 DEF Grace, Goto, Typed, TypeOK
<1>7. CASE Kill9
  BY <1>7 DEF Kill9, Goto, Typed, TypeOK
<1>8. CASE Reap
  BY <1>8 DEF Reap, Goto, Typed, TypeOK
<1>9. CASE release_supervision
  BY <1>9 DEF release_supervision, Goto, Typed, TypeOK
<1>10. CASE CloseStdin
  BY <1>10 DEF CloseStdin, Goto, Typed, TypeOK
<1>11. CASE ClosePipes
  BY <1>11 DEF ClosePipes, Typed, TypeOK
<1>12. CASE kill_contained
  BY <1>12 DEF kill_contained, Goto, Typed, TypeOK
<1>13. CASE _wait_until_empty
  BY <1>13 DEF _wait_until_empty, Typed, TypeOK
<1>14. CASE cleanup
  BY <1>14 DEF cleanup, Resume, Fault, Typed, TypeOK
<1>15. CASE _ensure_process
  BY <1>15 DEF _ensure_process, Ready, EndTree, Goto, Return, Typed, TypeOK
<1>16. CASE StartRefused
  BY <1>16 DEF StartRefused, Return, prepare, Fault, Typed, TypeOK
<1>17. CASE Start
  BY <1>17 DEF Start, spawn_supervised, prepare, Typed, TypeOK
<1>18. CASE ReadHello
  BY <1>18, Streams, Messages DEF ReadHello, Typed, TypeOK
<1>19. CASE confirm_containment
  BY <1>19 DEF confirm_containment, Goto, EndTree, Fault, Typed, TypeOK
<1>20. CASE SendAck
  BY <1>20, Streams, Messages DEF SendAck, Write, Typed, TypeOK
<1>21. CASE SendRequest
  BY <1>21, Streams, Messages DEF SendRequest, Write, Typed, TypeOK
<1>37. CASE WriteEnds
  BY <1>37 DEF WriteEnds, Goto, EndTree, Typed, TypeOK
<1>22. CASE _read_result_line
  BY <1>22, Streams, Messages DEF _read_result_line, Typed, TypeOK
<1>23. CASE Shutdown
  BY <1>23, Streams, Messages DEF Shutdown, Typed, TypeOK
<1>24. CASE ShutdownWait
  BY <1>24 DEF ShutdownWait, EndTree, Typed, TypeOK
<1>25. CASE Wait
  BY <1>25 DEF Wait, Typed, TypeOK
<1>26. CASE Finish
  BY <1>26 DEF Finish, Return, Typed, TypeOK
<1>27. CASE LauncherForks
  BY <1>27 DEF LauncherForks, Starts, Typed, TypeOK
<1>28. CASE Hello
  BY <1>28, Streams, Messages DEF Hello, Typed, TypeOK
<1>29. CASE _handshake
  BY <1>29, Streams, Messages DEF _handshake, Typed, TypeOK
<1>30. CASE _production_engine
  BY <1>30 DEF _production_engine, Serving, WorkerStep, Starts, Typed, TypeOK
<1>31. CASE Answer
  BY <1>31, Streams, Messages DEF Answer, Serving, Typed, TypeOK
<1>32. CASE Break
  BY <1>32 DEF Break, Serving, WorkerStep, Fault, Typed, TypeOK
<1>33. CASE Leave
  BY <1>33 DEF Leave, WorkerStep, Gone, Fault, Typed, TypeOK
<1>34. CASE LauncherExits
  BY <1>34 DEF LauncherExits, Gone, Typed, TypeOK
<1>35. CASE OutOfMemory
  BY <1>35 DEF OutOfMemory, Dies, Gone, Fault, Typed, TypeOK
<1>36. ASSUME NEW p \in alive, DiesOfSignal(p) \/ Crash(p) \/ OrphanExits(p) PROVE stdin' \in Seq(Message) /\ stdout' \in Seq(Line)
  BY <1>36 DEF DiesOfSignal, Crash, OrphanExits, Dies, Gone, Fault, Typed, TypeOK
<1> QED
  BY <1>1, <1>2, <1>3, <1>4, <1>5, <1>6, <1>7, <1>8, <1>9, <1>10, <1>11, <1>12, <1>13, <1>14, <1>15, <1>16, <1>17, <1>18, <1>19, <1>20, <1>21, <1>22, <1>23, <1>24, <1>25, <1>26, <1>27, <1>28, <1>29, <1>30, <1>31, <1>32, <1>33, <1>34, <1>35, <1>36, <1>37 DEF Next, CallStep, _posix_terminate

(* ClosePipes waits for every reader of the pipes, and a root or a Worker that
   is gone does not come back. *)
LEMMA ClosedStep ==
    ASSUME Typed, SupInv, client = "browser", ClosedInv, Next
    PROVE  ClosedInv'
<1> USE DEF adapter, signals, ending, pipes, fixed, quiet, vars
<1>1. ASSUME NEW o \in {"invoke", "probe", "shutdown"}, Call(o) PROVE ClosedInv'
  BY <1>1 DEF Call, ClosedInv, SupInv, Killing, Closing, Typed, TypeOK, Of, Root, Worker, Child, Holders
<1>2. CASE invoke \/ run_argv
  BY <1>2 DEF invoke, run_argv, RunOne, Fault, ClosedInv, SupInv, Killing, Closing, Typed, TypeOK, Of, Root, Worker, Child, Holders
<1>3. CASE terminate_tree
  BY <1>3 DEF terminate_tree, ClosedInv, SupInv, Killing, Closing, Typed, TypeOK, Of, Root, Worker, Child, Holders
<1>4. CASE Scan
  BY <1>4 DEF Scan, Goto, ClosedInv, SupInv, Killing, Closing, Typed, TypeOK, Of, Root, Worker, Child, Holders
<1>5. CASE Term
  BY <1>5 DEF Term, Goto, ClosedInv, SupInv, Killing, Closing, Typed, TypeOK, Of, Root, Worker, Child, Holders
<1>6. CASE Grace
  BY <1>6 DEF Grace, Goto, ClosedInv, SupInv, Killing, Closing, Typed, TypeOK, Of, Root, Worker, Child, Holders
<1>7. CASE Kill9
  BY <1>7 DEF Kill9, Goto, ClosedInv, SupInv, Killing, Closing, Typed, TypeOK, Of, Root, Worker, Child, Holders
<1>8. CASE Reap
  BY <1>8 DEF Reap, Goto, ClosedInv, SupInv, Killing, Closing, Typed, TypeOK, Of, Root, Worker, Child, Holders
<1>9. CASE release_supervision
  BY <1>9 DEF release_supervision, Goto, ClosedInv, SupInv, Killing, Closing, Typed, TypeOK, Of, Root, Worker, Child, Holders
<1>10. CASE CloseStdin
  BY <1>10 DEF CloseStdin, Goto, ClosedInv, SupInv, Killing, Closing, Typed, TypeOK, Of, Root, Worker, Child, Holders
<1>11. CASE ClosePipes
  BY <1>11 DEF ClosePipes, ClosedInv, SupInv, Killing, Closing, Typed, TypeOK, Of, Root, Worker, Child, Holders
<1>12. CASE kill_contained
  BY <1>12 DEF kill_contained, Goto, ClosedInv, SupInv, Killing, Closing, Typed, TypeOK, Of, Root, Worker, Child, Holders
<1>13. CASE _wait_until_empty
  BY <1>13 DEF _wait_until_empty, ClosedInv, SupInv, Killing, Closing, Typed, TypeOK, Of, Root, Worker, Child, Holders
<1>14. CASE cleanup
  BY <1>14 DEF cleanup, Resume, Fault, ClosedInv, SupInv, Killing, Closing, Typed, TypeOK, Of, Root, Worker, Child, Holders
<1>15. CASE _ensure_process
  BY <1>15 DEF _ensure_process, Ready, EndTree, Goto, Return, ClosedInv, SupInv, Killing, Closing, Typed, TypeOK, Of, Root, Worker, Child, Holders
<1>16. CASE StartRefused
  BY <1>16 DEF StartRefused, Return, prepare, Fault, ClosedInv, SupInv, Killing, Closing, Typed, TypeOK, Of, Root, Worker, Child, Holders
<1>17. CASE Start
  BY <1>17 DEF Start, prepare, ClosedInv, SupInv, Killing, Closing, Typed, TypeOK, Of, Root, Worker, Child, Holders
<1>18. CASE ReadHello
  BY <1>18 DEF ReadHello, Goto, EndTree, ClosedInv, SupInv, Killing, Closing, Typed, TypeOK, Of, Root, Worker, Child, Holders
<1>19. CASE confirm_containment
  BY <1>19 DEF confirm_containment, Goto, EndTree, Fault, ClosedInv, SupInv, Killing, Closing, Typed, TypeOK, Of, Root, Worker, Child, Holders
<1>20. CASE SendAck
  BY <1>20 DEF SendAck, Write, Ready, Goto, Return, EndTree, ClosedInv, SupInv, Killing, Closing, Typed, TypeOK, Of, Root, Worker, Child, Holders
<1>21. CASE SendRequest
  BY <1>21 DEF SendRequest, Write, Goto, EndTree, ClosedInv, SupInv, Killing, Closing, Typed, TypeOK, Of, Root, Worker, Child, Holders
<1>37. CASE WriteEnds
  BY <1>37 DEF WriteEnds, Goto, EndTree, ClosedInv, SupInv, Killing, Closing, Typed, TypeOK, Of, Root, Worker, Child, Holders
<1>22. CASE _read_result_line
  BY <1>22 DEF _read_result_line, TakeLine, NoMoreLines, Return, EndTree, ClosedInv, SupInv, Killing, Closing, Typed, TypeOK, Of, Root, Worker, Child, Holders
<1>23. CASE Shutdown
  BY <1>23 DEF Shutdown, Return, Goto, EndTree, ClosedInv, SupInv, Killing, Closing, Typed, TypeOK, Of, Root, Worker, Child, Holders
<1>24. CASE ShutdownWait
  BY <1>24 DEF ShutdownWait, EndTree, ClosedInv, SupInv, Killing, Closing, Typed, TypeOK, Of, Root, Worker, Child, Holders
<1>25. CASE Wait
  BY <1>25 DEF Wait, ClosedInv, SupInv, Killing, Closing, Typed, TypeOK, Of, Root, Worker, Child, Holders
<1>26. CASE Finish
  BY <1>26 DEF Finish, Return, ClosedInv, SupInv, Killing, Closing, Typed, TypeOK, Of, Root, Worker, Child, Holders
<1>27. CASE LauncherForks
  BY <1>27 DEF LauncherForks, Starts, ClosedInv, SupInv, Killing, Closing, Typed, TypeOK, Of, Root, Worker, Child, Holders
<1>28. CASE Hello
  BY <1>28 DEF Hello, WorkerStep, ClosedInv, SupInv, Killing, Closing, Typed, TypeOK, Of, Root, Worker, Child, Holders
<1>29. CASE _handshake
  BY <1>29 DEF _handshake, WorkerStep, ClosedInv, SupInv, Killing, Closing, Typed, TypeOK, Of, Root, Worker, Child, Holders
<1>30. CASE _production_engine
  BY <1>30 DEF _production_engine, Serving, WorkerStep, Starts, ClosedInv, SupInv, Killing, Closing, Typed, TypeOK, Of, Root, Worker, Child, Holders
<1>31. CASE Answer
  BY <1>31 DEF Answer, Serving, WorkerStep, ClosedInv, SupInv, Killing, Closing, Typed, TypeOK, Of, Root, Worker, Child, Holders
<1>32. CASE Break
  BY <1>32 DEF Break, Serving, WorkerStep, Fault, ClosedInv, SupInv, Killing, Closing, Typed, TypeOK, Of, Root, Worker, Child, Holders
<1>33. CASE Leave
  BY <1>33 DEF Leave, WorkerStep, Gone, Fault, ClosedInv, SupInv, Killing, Closing, Typed, TypeOK, Of, Root, Worker, Child, Holders
<1>34. CASE LauncherExits
  BY <1>34 DEF LauncherExits, Gone, ClosedInv, SupInv, Killing, Closing, Typed, TypeOK, Of, Root, Worker, Child, Holders
<1>35. CASE OutOfMemory
  BY <1>35 DEF OutOfMemory, Dies, Gone, Fault, ClosedInv, SupInv, Killing, Closing, Typed, TypeOK, Of, Root, Worker, Child, Holders
<1>36. ASSUME NEW p \in alive, DiesOfSignal(p) \/ Crash(p) \/ OrphanExits(p) PROVE ClosedInv'
  BY <1>36 DEF DiesOfSignal, Crash, OrphanExits, Dies, Gone, Fault, ClosedInv, SupInv, Killing, Closing, Typed, TypeOK, Of, Root, Worker, Child, Holders
<1> QED
  BY <1>1, <1>2, <1>3, <1>4, <1>5, <1>6, <1>7, <1>8, <1>9, <1>10, <1>11, <1>12, <1>13, <1>14, <1>15, <1>16, <1>17, <1>18, <1>19, <1>20, <1>21, <1>22, <1>23, <1>24, <1>25, <1>26, <1>27, <1>28, <1>29, <1>30, <1>31, <1>32, <1>33, <1>34, <1>35, <1>36, <1>37 DEF Next, CallStep, _posix_terminate

(* cleanup returns with members of the cgroup refused, and what is left of a
   tree by then is the browser, which is in the cgroup. *)
LEMMA TreeStep ==
    ASSUME Typed, SupInv, client = "browser", ClosedInv, BrowserIsContained, OneBrowserTree, Next
    PROVE  OneBrowserTree'
<1> USE DEF adapter, signals, ending, pipes, fixed, quiet, vars
<1>1. ASSUME NEW o \in {"invoke", "probe", "shutdown"}, Call(o) PROVE OneBrowserTree'
  BY <1>1 DEF Call, OneBrowserTree, BrowserIsContained, ClosedInv, SupInv, Killing, Closing, Typed, TypeOK, Of, Root, Worker, Child, members
<1>2. CASE invoke \/ run_argv
  BY <1>2 DEF invoke, run_argv, RunOne, Fault, OneBrowserTree, BrowserIsContained, ClosedInv, SupInv, Killing, Closing, Typed, TypeOK, Of, Root, Worker, Child, members
<1>3. CASE terminate_tree
  BY <1>3 DEF terminate_tree, OneBrowserTree, BrowserIsContained, ClosedInv, SupInv, Killing, Closing, Typed, TypeOK, Of, Root, Worker, Child, members
<1>4. CASE Scan
  BY <1>4 DEF Scan, Goto, OneBrowserTree, BrowserIsContained, ClosedInv, SupInv, Killing, Closing, Typed, TypeOK, Of, Root, Worker, Child, members
<1>5. CASE Term
  BY <1>5 DEF Term, Goto, OneBrowserTree, BrowserIsContained, ClosedInv, SupInv, Killing, Closing, Typed, TypeOK, Of, Root, Worker, Child, members
<1>6. CASE Grace
  BY <1>6 DEF Grace, Goto, OneBrowserTree, BrowserIsContained, ClosedInv, SupInv, Killing, Closing, Typed, TypeOK, Of, Root, Worker, Child, members
<1>7. CASE Kill9
  BY <1>7 DEF Kill9, Goto, OneBrowserTree, BrowserIsContained, ClosedInv, SupInv, Killing, Closing, Typed, TypeOK, Of, Root, Worker, Child, members
<1>8. CASE Reap
  BY <1>8 DEF Reap, Goto, OneBrowserTree, BrowserIsContained, ClosedInv, SupInv, Killing, Closing, Typed, TypeOK, Of, Root, Worker, Child, members
<1>9. CASE release_supervision
  BY <1>9 DEF release_supervision, Goto, OneBrowserTree, BrowserIsContained, ClosedInv, SupInv, Killing, Closing, Typed, TypeOK, Of, Root, Worker, Child, members
<1>10. CASE CloseStdin
  BY <1>10 DEF CloseStdin, Goto, OneBrowserTree, BrowserIsContained, ClosedInv, SupInv, Killing, Closing, Typed, TypeOK, Of, Root, Worker, Child, members
<1>11. CASE ClosePipes
  BY <1>11 DEF ClosePipes, OneBrowserTree, BrowserIsContained, ClosedInv, SupInv, Killing, Closing, Typed, TypeOK, Of, Root, Worker, Child, members
<1>12. CASE kill_contained
  BY <1>12 DEF kill_contained, Goto, OneBrowserTree, BrowserIsContained, ClosedInv, SupInv, Killing, Closing, Typed, TypeOK, Of, Root, Worker, Child, members
<1>13. CASE _wait_until_empty
  BY <1>13 DEF _wait_until_empty, OneBrowserTree, BrowserIsContained, ClosedInv, SupInv, Killing, Closing, Typed, TypeOK, Of, Root, Worker, Child, members
<1>14. CASE cleanup
  BY <1>14 DEF cleanup, Resume, Fault, OneBrowserTree, BrowserIsContained, ClosedInv, SupInv, Killing, Closing, Typed, TypeOK, Of, Root, Worker, Child, members
<1>15. CASE _ensure_process
  BY <1>15 DEF _ensure_process, Ready, EndTree, Goto, Return, OneBrowserTree, BrowserIsContained, ClosedInv, SupInv, Killing, Closing, Typed, TypeOK, Of, Root, Worker, Child, members
<1>16. CASE StartRefused
  BY <1>16 DEF StartRefused, Return, prepare, Fault, OneBrowserTree, BrowserIsContained, ClosedInv, SupInv, Killing, Closing, Typed, TypeOK, Of, Root, Worker, Child, members
<1>17. CASE Start
  BY <1>17 DEF Start, spawn_supervised, prepare, OneBrowserTree, BrowserIsContained, ClosedInv, SupInv, Killing, Closing, Typed, TypeOK, Of, Root, Worker, Child, members
<1>18. CASE ReadHello
  BY <1>18 DEF ReadHello, Goto, EndTree, OneBrowserTree, BrowserIsContained, ClosedInv, SupInv, Killing, Closing, Typed, TypeOK, Of, Root, Worker, Child, members
<1>19. CASE confirm_containment
  BY <1>19 DEF confirm_containment, Goto, EndTree, Fault, OneBrowserTree, BrowserIsContained, ClosedInv, SupInv, Killing, Closing, Typed, TypeOK, Of, Root, Worker, Child, members
<1>20. CASE SendAck
  BY <1>20 DEF SendAck, Write, Ready, Goto, Return, EndTree, OneBrowserTree, BrowserIsContained, ClosedInv, SupInv, Killing, Closing, Typed, TypeOK, Of, Root, Worker, Child, members
<1>21. CASE SendRequest
  BY <1>21 DEF SendRequest, Write, Goto, EndTree, OneBrowserTree, BrowserIsContained, ClosedInv, SupInv, Killing, Closing, Typed, TypeOK, Of, Root, Worker, Child, members
<1>37. CASE WriteEnds
  BY <1>37 DEF WriteEnds, Goto, EndTree, OneBrowserTree, BrowserIsContained, ClosedInv, SupInv, Killing, Closing, Typed, TypeOK, Of, Root, Worker, Child, members
<1>22. CASE _read_result_line
  BY <1>22 DEF _read_result_line, TakeLine, NoMoreLines, Return, EndTree, OneBrowserTree, BrowserIsContained, ClosedInv, SupInv, Killing, Closing, Typed, TypeOK, Of, Root, Worker, Child, members
<1>23. CASE Shutdown
  BY <1>23 DEF Shutdown, Return, Goto, EndTree, OneBrowserTree, BrowserIsContained, ClosedInv, SupInv, Killing, Closing, Typed, TypeOK, Of, Root, Worker, Child, members
<1>24. CASE ShutdownWait
  BY <1>24 DEF ShutdownWait, EndTree, OneBrowserTree, BrowserIsContained, ClosedInv, SupInv, Killing, Closing, Typed, TypeOK, Of, Root, Worker, Child, members
<1>25. CASE Wait
  BY <1>25 DEF Wait, OneBrowserTree, BrowserIsContained, ClosedInv, SupInv, Killing, Closing, Typed, TypeOK, Of, Root, Worker, Child, members
<1>26. CASE Finish
  BY <1>26 DEF Finish, Return, OneBrowserTree, BrowserIsContained, ClosedInv, SupInv, Killing, Closing, Typed, TypeOK, Of, Root, Worker, Child, members
<1>27. CASE LauncherForks
  BY <1>27 DEF LauncherForks, Starts, OneBrowserTree, BrowserIsContained, ClosedInv, SupInv, Killing, Closing, Typed, TypeOK, Of, Root, Worker, Child, members
<1>28. CASE Hello
  BY <1>28 DEF Hello, WorkerStep, OneBrowserTree, BrowserIsContained, ClosedInv, SupInv, Killing, Closing, Typed, TypeOK, Of, Root, Worker, Child, members
<1>29. CASE _handshake
  BY <1>29 DEF _handshake, WorkerStep, OneBrowserTree, BrowserIsContained, ClosedInv, SupInv, Killing, Closing, Typed, TypeOK, Of, Root, Worker, Child, members
<1>30. CASE _production_engine
  BY <1>30 DEF _production_engine, Serving, WorkerStep, Starts, OneBrowserTree, BrowserIsContained, ClosedInv, SupInv, Killing, Closing, Typed, TypeOK, Of, Root, Worker, Child, members
<1>31. CASE Answer
  BY <1>31 DEF Answer, Serving, WorkerStep, OneBrowserTree, BrowserIsContained, ClosedInv, SupInv, Killing, Closing, Typed, TypeOK, Of, Root, Worker, Child, members
<1>32. CASE Break
  BY <1>32 DEF Break, Serving, WorkerStep, Fault, OneBrowserTree, BrowserIsContained, ClosedInv, SupInv, Killing, Closing, Typed, TypeOK, Of, Root, Worker, Child, members
<1>33. CASE Leave
  BY <1>33 DEF Leave, WorkerStep, Gone, Fault, OneBrowserTree, BrowserIsContained, ClosedInv, SupInv, Killing, Closing, Typed, TypeOK, Of, Root, Worker, Child, members
<1>34. CASE LauncherExits
  BY <1>34 DEF LauncherExits, Gone, OneBrowserTree, BrowserIsContained, ClosedInv, SupInv, Killing, Closing, Typed, TypeOK, Of, Root, Worker, Child, members
<1>35. CASE OutOfMemory
  BY <1>35 DEF OutOfMemory, Dies, Gone, Fault, OneBrowserTree, BrowserIsContained, ClosedInv, SupInv, Killing, Closing, Typed, TypeOK, Of, Root, Worker, Child, members
<1>36. ASSUME NEW p \in alive, DiesOfSignal(p) \/ Crash(p) \/ OrphanExits(p) PROVE OneBrowserTree'
  BY <1>36 DEF DiesOfSignal, Crash, OrphanExits, Dies, Gone, Fault, OneBrowserTree, BrowserIsContained, ClosedInv, SupInv, Killing, Closing, Typed, TypeOK, Of, Root, Worker, Child, members
<1> QED
  BY <1>1, <1>2, <1>3, <1>4, <1>5, <1>6, <1>7, <1>8, <1>9, <1>10, <1>11, <1>12, <1>13, <1>14, <1>15, <1>16, <1>17, <1>18, <1>19, <1>20, <1>21, <1>22, <1>23, <1>24, <1>25, <1>26, <1>27, <1>28, <1>29, <1>30, <1>31, <1>32, <1>33, <1>34, <1>35, <1>36, <1>37 DEF Next, CallStep, _posix_terminate

(* Only an idle Worker starts the browser, and by AckInv it is in the cgroup. *)
LEMMA ContainedStep ==
    ASSUME Typed, client = "browser", AckInv, BrowserIsContained, Next
    PROVE  BrowserIsContained'
<1> USE DEF adapter, signals, ending, pipes, fixed, quiet, vars
<1>1. ASSUME NEW o \in {"invoke", "probe", "shutdown"}, Call(o) PROVE BrowserIsContained'
  BY <1>1 DEF Call, BrowserIsContained, AckInv, Acked, Typed, TypeOK, Root, Worker, Child
<1>2. CASE invoke \/ run_argv
  BY <1>2 DEF invoke, run_argv, RunOne, Fault, BrowserIsContained, AckInv, Acked, Typed, TypeOK, Root, Worker, Child
<1>3. CASE terminate_tree
  BY <1>3 DEF terminate_tree, BrowserIsContained, AckInv, Acked, Typed, TypeOK, Root, Worker, Child
<1>4. CASE Scan
  BY <1>4 DEF Scan, Goto, BrowserIsContained, AckInv, Acked, Typed, TypeOK, Root, Worker, Child
<1>5. CASE Term
  BY <1>5 DEF Term, Goto, BrowserIsContained, AckInv, Acked, Typed, TypeOK, Root, Worker, Child
<1>6. CASE Grace
  BY <1>6 DEF Grace, Goto, BrowserIsContained, AckInv, Acked, Typed, TypeOK, Root, Worker, Child
<1>7. CASE Kill9
  BY <1>7 DEF Kill9, Goto, BrowserIsContained, AckInv, Acked, Typed, TypeOK, Root, Worker, Child
<1>8. CASE Reap
  BY <1>8 DEF Reap, Goto, BrowserIsContained, AckInv, Acked, Typed, TypeOK, Root, Worker, Child
<1>9. CASE release_supervision
  BY <1>9 DEF release_supervision, Goto, BrowserIsContained, AckInv, Acked, Typed, TypeOK, Root, Worker, Child
<1>10. CASE CloseStdin
  BY <1>10 DEF CloseStdin, Goto, BrowserIsContained, AckInv, Acked, Typed, TypeOK, Root, Worker, Child
<1>11. CASE ClosePipes
  BY <1>11 DEF ClosePipes, BrowserIsContained, AckInv, Acked, Typed, TypeOK, Root, Worker, Child
<1>12. CASE kill_contained
  BY <1>12 DEF kill_contained, Goto, BrowserIsContained, AckInv, Acked, Typed, TypeOK, Root, Worker, Child
<1>13. CASE _wait_until_empty
  BY <1>13 DEF _wait_until_empty, BrowserIsContained, AckInv, Acked, Typed, TypeOK, Root, Worker, Child
<1>14. CASE cleanup
  BY <1>14 DEF cleanup, Resume, Fault, BrowserIsContained, AckInv, Acked, Typed, TypeOK, Root, Worker, Child
<1>15. CASE _ensure_process
  BY <1>15 DEF _ensure_process, Ready, EndTree, Goto, Return, BrowserIsContained, AckInv, Acked, Typed, TypeOK, Root, Worker, Child
<1>16. CASE StartRefused
  BY <1>16 DEF StartRefused, Return, prepare, Fault, BrowserIsContained, AckInv, Acked, Typed, TypeOK, Root, Worker, Child
<1>17. CASE Start
  BY <1>17 DEF Start, spawn_supervised, prepare, BrowserIsContained, AckInv, Acked, Typed, TypeOK, Root, Worker, Child
<1>18. CASE ReadHello
  BY <1>18 DEF ReadHello, Goto, EndTree, BrowserIsContained, AckInv, Acked, Typed, TypeOK, Root, Worker, Child
<1>19. CASE confirm_containment
  BY <1>19 DEF confirm_containment, Goto, EndTree, Fault, BrowserIsContained, AckInv, Acked, Typed, TypeOK, Root, Worker, Child
<1>20. CASE SendAck
  BY <1>20 DEF SendAck, Write, Ready, Goto, Return, EndTree, BrowserIsContained, AckInv, Acked, Typed, TypeOK, Root, Worker, Child
<1>21. CASE SendRequest
  BY <1>21 DEF SendRequest, Write, Goto, EndTree, BrowserIsContained, AckInv, Acked, Typed, TypeOK, Root, Worker, Child
<1>37. CASE WriteEnds
  BY <1>37 DEF WriteEnds, Goto, EndTree, BrowserIsContained, AckInv, Acked, Typed, TypeOK, Root, Worker, Child
<1>22. CASE _read_result_line
  BY <1>22 DEF _read_result_line, TakeLine, NoMoreLines, Return, EndTree, BrowserIsContained, AckInv, Acked, Typed, TypeOK, Root, Worker, Child
<1>23. CASE Shutdown
  BY <1>23 DEF Shutdown, Return, Goto, EndTree, BrowserIsContained, AckInv, Acked, Typed, TypeOK, Root, Worker, Child
<1>24. CASE ShutdownWait
  BY <1>24 DEF ShutdownWait, EndTree, BrowserIsContained, AckInv, Acked, Typed, TypeOK, Root, Worker, Child
<1>25. CASE Wait
  BY <1>25 DEF Wait, BrowserIsContained, AckInv, Acked, Typed, TypeOK, Root, Worker, Child
<1>26. CASE Finish
  BY <1>26 DEF Finish, Return, BrowserIsContained, AckInv, Acked, Typed, TypeOK, Root, Worker, Child
<1>27. CASE LauncherForks
  BY <1>27 DEF LauncherForks, Starts, BrowserIsContained, AckInv, Acked, Typed, TypeOK, Root, Worker, Child
<1>28. CASE Hello
  BY <1>28 DEF Hello, WorkerStep, BrowserIsContained, AckInv, Acked, Typed, TypeOK, Root, Worker, Child
<1>29. CASE _handshake
  BY <1>29 DEF _handshake, WorkerStep, BrowserIsContained, AckInv, Acked, Typed, TypeOK, Root, Worker, Child
<1>30. CASE _production_engine
  BY <1>30 DEF _production_engine, Serving, WorkerStep, Starts, BrowserIsContained, AckInv, Acked, Typed, TypeOK, Root, Worker, Child
<1>31. CASE Answer
  BY <1>31 DEF Answer, Serving, WorkerStep, BrowserIsContained, AckInv, Acked, Typed, TypeOK, Root, Worker, Child
<1>32. CASE Break
  BY <1>32 DEF Break, Serving, WorkerStep, Fault, BrowserIsContained, AckInv, Acked, Typed, TypeOK, Root, Worker, Child
<1>33. CASE Leave
  BY <1>33 DEF Leave, WorkerStep, Gone, Fault, BrowserIsContained, AckInv, Acked, Typed, TypeOK, Root, Worker, Child
<1>34. CASE LauncherExits
  BY <1>34 DEF LauncherExits, Gone, BrowserIsContained, AckInv, Acked, Typed, TypeOK, Root, Worker, Child
<1>35. CASE OutOfMemory
  BY <1>35 DEF OutOfMemory, Dies, Gone, Fault, BrowserIsContained, AckInv, Acked, Typed, TypeOK, Root, Worker, Child
<1>36. ASSUME NEW p \in alive, DiesOfSignal(p) \/ Crash(p) \/ OrphanExits(p) PROVE BrowserIsContained'
  BY <1>36 DEF DiesOfSignal, Crash, OrphanExits, Dies, Gone, Fault, BrowserIsContained, AckInv, Acked, Typed, TypeOK, Root, Worker, Child
<1> QED
  BY <1>1, <1>2, <1>3, <1>4, <1>5, <1>6, <1>7, <1>8, <1>9, <1>10, <1>11, <1>12, <1>13, <1>14, <1>15, <1>16, <1>17, <1>18, <1>19, <1>20, <1>21, <1>22, <1>23, <1>24, <1>25, <1>26, <1>27, <1>28, <1>29, <1>30, <1>31, <1>32, <1>33, <1>34, <1>35, <1>36, <1>37 DEF Next, CallStep, _posix_terminate

(* confirm_containment attaches the Worker before SendAck, and the Worker takes
   an acknowledgement only from the pipe. *)
LEMMA AckStep ==
    ASSUME Typed, client = "browser", AckInv, PipeInv, Next
    PROVE  AckInv'
<1> USE DEF adapter, signals, ending, pipes, fixed, quiet, vars
<1>1. ASSUME NEW o \in {"invoke", "probe", "shutdown"}, Call(o) PROVE AckInv'
  BY <1>1 DEF Call, AckInv, Acked, PipeInv, Announced, Typed, TypeOK, Root, Worker, Child, Closing
<1>2. CASE invoke \/ run_argv
  BY <1>2 DEF invoke, run_argv, RunOne, Fault, AckInv, Acked, PipeInv, Announced, Typed, TypeOK, Root, Worker, Child, Closing
<1>3. CASE terminate_tree
  BY <1>3 DEF terminate_tree, AckInv, Acked, PipeInv, Announced, Typed, TypeOK, Root, Worker, Child, Closing
<1>4. CASE Scan
  BY <1>4 DEF Scan, Goto, AckInv, Acked, PipeInv, Announced, Typed, TypeOK, Root, Worker, Child, Closing
<1>5. CASE Term
  BY <1>5 DEF Term, Goto, AckInv, Acked, PipeInv, Announced, Typed, TypeOK, Root, Worker, Child, Closing
<1>6. CASE Grace
  BY <1>6 DEF Grace, Goto, AckInv, Acked, PipeInv, Announced, Typed, TypeOK, Root, Worker, Child, Closing
<1>7. CASE Kill9
  BY <1>7 DEF Kill9, Goto, AckInv, Acked, PipeInv, Announced, Typed, TypeOK, Root, Worker, Child, Closing
<1>8. CASE Reap
  BY <1>8 DEF Reap, Goto, AckInv, Acked, PipeInv, Announced, Typed, TypeOK, Root, Worker, Child, Closing
<1>9. CASE release_supervision
  BY <1>9 DEF release_supervision, Goto, AckInv, Acked, PipeInv, Announced, Typed, TypeOK, Root, Worker, Child, Closing
<1>10. CASE CloseStdin
  BY <1>10 DEF CloseStdin, Goto, AckInv, Acked, PipeInv, Announced, Typed, TypeOK, Root, Worker, Child, Closing
<1>11. CASE ClosePipes
  BY <1>11 DEF ClosePipes, AckInv, Acked, PipeInv, Announced, Typed, TypeOK, Root, Worker, Child, Closing
<1>12. CASE kill_contained
  BY <1>12 DEF kill_contained, Goto, AckInv, Acked, PipeInv, Announced, Typed, TypeOK, Root, Worker, Child, Closing
<1>13. CASE _wait_until_empty
  BY <1>13 DEF _wait_until_empty, AckInv, Acked, PipeInv, Announced, Typed, TypeOK, Root, Worker, Child, Closing
<1>14. CASE cleanup
  BY <1>14 DEF cleanup, Resume, Fault, AckInv, Acked, PipeInv, Announced, Typed, TypeOK, Root, Worker, Child, Closing
<1>15. CASE _ensure_process
  BY <1>15 DEF _ensure_process, Ready, EndTree, Goto, Return, AckInv, Acked, PipeInv, Announced, Typed, TypeOK, Root, Worker, Child, Closing
<1>16. CASE StartRefused
  BY <1>16 DEF StartRefused, Return, prepare, Fault, AckInv, Acked, PipeInv, Announced, Typed, TypeOK, Root, Worker, Child, Closing
<1>17. CASE Start
  BY <1>17 DEF Start, spawn_supervised, prepare, AckInv, Acked, PipeInv, Announced, Typed, TypeOK, Root, Worker, Child, Closing
<1>18. CASE ReadHello
  BY <1>18 DEF ReadHello, Goto, EndTree, AckInv, Acked, PipeInv, Announced, Typed, TypeOK, Root, Worker, Child, Closing
<1>19. CASE confirm_containment
  BY <1>19 DEF confirm_containment, Goto, EndTree, Fault, AckInv, Acked, PipeInv, Announced, Typed, TypeOK, Root, Worker, Child, Closing
<1>20. CASE SendAck
  BY <1>20 DEF SendAck, Write, Ready, Goto, Return, EndTree, AckInv, Acked, PipeInv, Announced, Typed, TypeOK, Root, Worker, Child, Closing
<1>21. CASE SendRequest
  <2>1. stdin' = stdin \/ stdin' = Append(stdin, <<"request", calls>>)
    BY <1>21 DEF SendRequest, Write
  <2>2. \A i \in 1 .. Len(stdin') : stdin'[i][1] = "ack" => \E j \in 1 .. Len(stdin) : stdin[j][1] = "ack"
    BY <2>1 DEF Typed
  <2>3. Acked' => Acked
    BY <2>2, <1>21 DEF SendRequest, Write, Goto, EndTree, Acked
  <2> QED
    BY <2>3, <1>21 DEF SendRequest, Write, AckInv, Worker
<1>37. CASE WriteEnds
  BY <1>37 DEF WriteEnds, Goto, EndTree, AckInv, Acked, PipeInv, Announced, Typed, TypeOK, Root, Worker, Child, Closing
<1>22. CASE _read_result_line
  BY <1>22 DEF _read_result_line, TakeLine, NoMoreLines, Return, EndTree, AckInv, Acked, PipeInv, Announced, Typed, TypeOK, Root, Worker, Child, Closing
<1>23. CASE Shutdown
  <2>1. stdin' = stdin \/ stdin' = Append(stdin, <<"shutdown", 0>>)
    BY <1>23 DEF Shutdown
  <2>2. \A i \in 1 .. Len(stdin') : stdin'[i][1] = "ack" => \E j \in 1 .. Len(stdin) : stdin[j][1] = "ack"
    BY <2>1 DEF Typed
  <2>3. Acked' => Acked
    BY <2>2, <1>23 DEF Shutdown, Return, Goto, EndTree, Acked
  <2> QED
    BY <2>3, <1>23 DEF Shutdown, AckInv, Worker
<1>24. CASE ShutdownWait
  BY <1>24 DEF ShutdownWait, EndTree, AckInv, Acked, PipeInv, Announced, Typed, TypeOK, Root, Worker, Child, Closing
<1>25. CASE Wait
  BY <1>25 DEF Wait, AckInv, Acked, PipeInv, Announced, Typed, TypeOK, Root, Worker, Child, Closing
<1>26. CASE Finish
  BY <1>26 DEF Finish, Return, AckInv, Acked, PipeInv, Announced, Typed, TypeOK, Root, Worker, Child, Closing
<1>27. CASE LauncherForks
  BY <1>27 DEF LauncherForks, Starts, AckInv, Acked, PipeInv, Announced, Typed, TypeOK, Root, Worker, Child, Closing
<1>28. CASE Hello
  BY <1>28 DEF Hello, WorkerStep, AckInv, Acked, PipeInv, Announced, Typed, TypeOK, Root, Worker, Child, Closing
<1>29. CASE _handshake
  <2>1. stdin' = stdin \/ (stdin # <<>> /\ stdin' = Tail(stdin))
    BY <1>29 DEF _handshake
  <2>2. \A i \in 1 .. Len(stdin') : stdin'[i][1] = "ack" => \E j \in 1 .. Len(stdin) : stdin[j][1] = "ack"
    BY <2>1 DEF Typed
  <2>3. wpc' = "idle" => \E j \in 1 .. Len(stdin) : stdin[j][1] = "ack"
    BY <1>29 DEF _handshake, accept_containment, Typed
  <2>4. Acked' => Acked
    BY <2>2, <2>3, <1>29 DEF _handshake, WorkerStep, Acked
  <2> QED
    BY <2>4, <1>29 DEF _handshake, WorkerStep, AckInv, Worker
<1>30. CASE _production_engine
  BY <1>30 DEF _production_engine, Serving, WorkerStep, Starts, AckInv, Acked, PipeInv, Announced, Typed, TypeOK, Root, Worker, Child, Closing
<1>31. CASE Answer
  BY <1>31 DEF Answer, Serving, WorkerStep, AckInv, Acked, PipeInv, Announced, Typed, TypeOK, Root, Worker, Child, Closing
<1>32. CASE Break
  BY <1>32 DEF Break, Serving, WorkerStep, Fault, AckInv, Acked, PipeInv, Announced, Typed, TypeOK, Root, Worker, Child, Closing
<1>33. CASE Leave
  BY <1>33 DEF Leave, WorkerStep, Gone, Fault, AckInv, Acked, PipeInv, Announced, Typed, TypeOK, Root, Worker, Child, Closing
<1>34. CASE LauncherExits
  BY <1>34 DEF LauncherExits, Gone, AckInv, Acked, PipeInv, Announced, Typed, TypeOK, Root, Worker, Child, Closing
<1>35. CASE OutOfMemory
  BY <1>35 DEF OutOfMemory, Dies, Gone, Fault, AckInv, Acked, PipeInv, Announced, Typed, TypeOK, Root, Worker, Child, Closing
<1>36. ASSUME NEW p \in alive, DiesOfSignal(p) \/ Crash(p) \/ OrphanExits(p) PROVE AckInv'
  BY <1>36 DEF DiesOfSignal, Crash, OrphanExits, Dies, Gone, Fault, AckInv, Acked, PipeInv, Announced, Typed, TypeOK, Root, Worker, Child, Closing
<1> QED
  BY <1>1, <1>2, <1>3, <1>4, <1>5, <1>6, <1>7, <1>8, <1>9, <1>10, <1>11, <1>12, <1>13, <1>14, <1>15, <1>16, <1>17, <1>18, <1>19, <1>20, <1>21, <1>22, <1>23, <1>24, <1>25, <1>26, <1>27, <1>28, <1>29, <1>30, <1>31, <1>32, <1>33, <1>34, <1>35, <1>36, <1>37 DEF Next, CallStep, _posix_terminate

(* A call that goes on to the next leaves no request and no line behind; every
   other ends the tree, and with it the pipes. *)
LEMMA PipeStep ==
    ASSUME Typed, SupInv, client = "browser", PipeInv, Next
    PROVE  PipeInv'
<1> USE DEF adapter, signals, ending, pipes, fixed, quiet, vars
<1>1. ASSUME NEW o \in {"invoke", "probe", "shutdown"}, Call(o) PROVE PipeInv'
  BY <1>1 DEF Call, PipeInv, NoRequest, Announced, SupInv, Killing, Typed, TypeOK, Closing, Message, Line
<1>2. CASE invoke \/ run_argv
  BY <1>2 DEF invoke, run_argv, RunOne, Fault, PipeInv, NoRequest, Announced, SupInv, Killing, Typed, TypeOK, Closing, Message, Line
<1>3. CASE terminate_tree
  BY <1>3 DEF terminate_tree, PipeInv, NoRequest, Announced, SupInv, Killing, Typed, TypeOK, Closing, Message, Line
<1>4. CASE Scan
  BY <1>4 DEF Scan, Goto, PipeInv, NoRequest, Announced, SupInv, Killing, Typed, TypeOK, Closing, Message, Line
<1>5. CASE Term
  BY <1>5 DEF Term, Goto, PipeInv, NoRequest, Announced, SupInv, Killing, Typed, TypeOK, Closing, Message, Line
<1>6. CASE Grace
  BY <1>6 DEF Grace, Goto, PipeInv, NoRequest, Announced, SupInv, Killing, Typed, TypeOK, Closing, Message, Line
<1>7. CASE Kill9
  BY <1>7 DEF Kill9, Goto, PipeInv, NoRequest, Announced, SupInv, Killing, Typed, TypeOK, Closing, Message, Line
<1>8. CASE Reap
  BY <1>8 DEF Reap, Goto, PipeInv, NoRequest, Announced, SupInv, Killing, Typed, TypeOK, Closing, Message, Line
<1>9. CASE release_supervision
  BY <1>9 DEF release_supervision, Goto, PipeInv, NoRequest, Announced, SupInv, Killing, Typed, TypeOK, Closing, Message, Line
<1>10. CASE CloseStdin
  BY <1>10 DEF CloseStdin, Goto, PipeInv, NoRequest, Announced, SupInv, Killing, Typed, TypeOK, Closing, Message, Line
<1>11. CASE ClosePipes
  BY <1>11 DEF ClosePipes, PipeInv, NoRequest, Announced, SupInv, Killing, Typed, TypeOK, Closing, Message, Line
<1>12. CASE kill_contained
  BY <1>12 DEF kill_contained, Goto, PipeInv, NoRequest, Announced, SupInv, Killing, Typed, TypeOK, Closing, Message, Line
<1>13. CASE _wait_until_empty
  BY <1>13 DEF _wait_until_empty, PipeInv, NoRequest, Announced, SupInv, Killing, Typed, TypeOK, Closing, Message, Line
<1>14. CASE cleanup
  BY <1>14 DEF cleanup, Resume, Fault, PipeInv, NoRequest, Announced, SupInv, Killing, Typed, TypeOK, Closing, Message, Line
<1>15. CASE _ensure_process
  BY <1>15 DEF _ensure_process, Ready, EndTree, Goto, Return, PipeInv, NoRequest, Announced, SupInv, Killing, Typed, TypeOK, Closing, Message, Line
<1>16. CASE StartRefused
  BY <1>16 DEF StartRefused, Return, prepare, Fault, PipeInv, NoRequest, Announced, SupInv, Killing, Typed, TypeOK, Closing, Message, Line
<1>17. CASE Start
  BY <1>17 DEF Start, spawn_supervised, prepare, PipeInv, NoRequest, Announced, SupInv, Killing, Typed, TypeOK, Closing, Message, Line
<1>18. CASE ReadHello
  BY <1>18 DEF ReadHello, Goto, EndTree, PipeInv, NoRequest, Announced, SupInv, Killing, Typed, TypeOK, Closing, Message, Line
<1>19. CASE confirm_containment
  BY <1>19 DEF confirm_containment, Goto, EndTree, Fault, PipeInv, NoRequest, Announced, SupInv, Killing, Typed, TypeOK, Closing, Message, Line
<1>20. CASE SendAck
  BY <1>20 DEF SendAck, Write, Ready, Goto, Return, EndTree, PipeInv, NoRequest, Announced, SupInv, Killing, Typed, TypeOK, Closing, Message, Line
<1>21. CASE SendRequest
  <2>1. CASE Peers = {}
    BY <2>1, <1>21 DEF SendRequest, Write, EndTree, PipeInv, NoRequest, Announced
  <2>2. CASE Peers # {}
    <3>1. /\ pc = "send" /\ pc' \in {"read", "write"} /\ stdin' = Append(stdin, <<"request", calls>>)
          /\ UNCHANGED <<sup, calls, stdout, wpc>>
      BY <2>2, <1>21 DEF SendRequest, Write, Goto
    <3> QED
      BY <3>1, Written, Messages DEF PipeInv, NoRequest, Announced, Typed, TypeOK
  <2> QED
    BY <2>1, <2>2
<1>37. CASE WriteEnds
  BY <1>37 DEF WriteEnds, Goto, EndTree, PipeInv, NoRequest, Announced, SupInv, Killing, Typed, TypeOK, Closing, Message, Line
<1>22. CASE _read_result_line
  BY <1>22 DEF _read_result_line, TakeLine, NoMoreLines, Return, EndTree, PipeInv, NoRequest, Announced, SupInv, Killing, Typed, TypeOK, Closing, Message, Line
<1>23. CASE Shutdown
  BY <1>23 DEF Shutdown, Return, Goto, EndTree, PipeInv, NoRequest, Announced, SupInv, Killing, Typed, TypeOK, Closing, Message, Line
<1>24. CASE ShutdownWait
  BY <1>24 DEF ShutdownWait, EndTree, PipeInv, NoRequest, Announced, SupInv, Killing, Typed, TypeOK, Closing, Message, Line
<1>25. CASE Wait
  BY <1>25 DEF Wait, PipeInv, NoRequest, Announced, SupInv, Killing, Typed, TypeOK, Closing, Message, Line
<1>26. CASE Finish
  BY <1>26 DEF Finish, Return, PipeInv, NoRequest, Announced, SupInv, Killing, Typed, TypeOK, Closing, Message, Line
<1>27. CASE LauncherForks
  BY <1>27 DEF LauncherForks, Starts, PipeInv, NoRequest, Announced, SupInv, Killing, Typed, TypeOK, Closing, Message, Line
<1>28. CASE Hello
  BY <1>28 DEF Hello, WorkerStep, PipeInv, NoRequest, Announced, SupInv, Killing, Typed, TypeOK, Closing, Message, Line
<1>29. CASE _handshake
  <2>1. /\ wpc = "hello" /\ wpc' \in {"idle", "failing"} /\ UNCHANGED <<pc, sup, calls, stdout>>
    BY <1>29 DEF _handshake, WorkerStep
  <2>2. CASE stdin' = stdin
    BY <2>1, <2>2 DEF PipeInv, NoRequest, Announced
  <2>3. CASE stdin # <<>> /\ stdin' = Tail(stdin)
    <3>1. /\ Len(stdin') = Len(stdin) - 1 /\ Len(stdin) \in Nat
          /\ \A i \in 1 .. Len(stdin') : i + 1 \in 1 .. Len(stdin) /\ stdin'[i] = stdin[i + 1]
      BY <2>3 DEF Typed
    <3>2. NoRequest => NoRequest'
      BY <3>1 DEF NoRequest
    <3>3. pc \notin {"hello", "confirm", "ack"}
      BY <2>3 DEF PipeInv
    <3>4. CASE pc \in {"read", "write"}
      BY <2>1, <3>1, <3>4 DEF PipeInv, Announced
    <3>5. CASE pc \notin {"read", "write"}
      BY <2>1, <3>2, <3>3, <3>5 DEF PipeInv, Announced
    <3> QED
      BY <3>4, <3>5
  <2> QED
    BY <1>29, <2>2, <2>3 DEF _handshake
<1>30. CASE _production_engine
  BY <1>30 DEF _production_engine, Serving, WorkerStep, Starts, PipeInv, NoRequest, Announced, SupInv, Killing, Typed, TypeOK, Closing, Message, Line
<1>31. CASE Answer
  BY <1>31 DEF Answer, Serving, WorkerStep, PipeInv, NoRequest, Announced, SupInv, Killing, Typed, TypeOK, Closing, Message, Line
<1>32. CASE Break
  BY <1>32 DEF Break, Serving, WorkerStep, Fault, PipeInv, NoRequest, Announced, SupInv, Killing, Typed, TypeOK, Closing, Message, Line
<1>33. CASE Leave
  BY <1>33 DEF Leave, WorkerStep, Gone, Fault, PipeInv, NoRequest, Announced, SupInv, Killing, Typed, TypeOK, Closing, Message, Line
<1>34. CASE LauncherExits
  BY <1>34 DEF LauncherExits, Gone, PipeInv, NoRequest, Announced, SupInv, Killing, Typed, TypeOK, Closing, Message, Line
<1>35. CASE OutOfMemory
  BY <1>35 DEF OutOfMemory, Dies, Gone, Fault, PipeInv, NoRequest, Announced, SupInv, Killing, Typed, TypeOK, Closing, Message, Line
<1>36. ASSUME NEW p \in alive, DiesOfSignal(p) \/ Crash(p) \/ OrphanExits(p) PROVE PipeInv'
  BY <1>36 DEF DiesOfSignal, Crash, OrphanExits, Dies, Gone, Fault, PipeInv, NoRequest, Announced, SupInv, Killing, Typed, TypeOK, Closing, Message, Line
<1> QED
  BY <1>1, <1>2, <1>3, <1>4, <1>5, <1>6, <1>7, <1>8, <1>9, <1>10, <1>11, <1>12, <1>13, <1>14, <1>15, <1>16, <1>17, <1>18, <1>19, <1>20, <1>21, <1>22, <1>23, <1>24, <1>25, <1>26, <1>27, <1>28, <1>29, <1>30, <1>31, <1>32, <1>33, <1>34, <1>35, <1>36, <1>37 DEF Next, CallStep, _posix_terminate
----------------------------------------------------------------------------
(* The invariant holds at first, and no step breaks it: a browser call by the
   lemmas above, a call of another adapter because it is no browser's. *)
LEMMA InvInit == Init => IInv
<1> SUFFICES ASSUME Init PROVE IInv
  OBVIOUS
<1>1. Typed
  <2>1. {sup, refusing, failed, again, eof} \subseteq BOOLEAN
    BY DEF Init
  <2>2. gen \in 0 .. MaxCalls /\ calls \in 0 .. MaxCalls
    BY BoundsAssumption DEF Init
  <2>3. stdin \in Seq(Message) /\ stdout \in Seq(Line)
    BY DEF Init
  <2> QED
    BY <2>1, <2>2, <2>3 DEF Init, Typed, TypeOK
<1>2. SpawnInv /\ SupInv /\ ClosedInv
  BY DEF Init, SpawnInv, SupInv, ClosedInv, Killing
<1>3. AckInv /\ PipeInv
  BY DEF Init, AckInv, Acked, PipeInv
<1>4. BrowserIsContained /\ OneBrowserTree
  BY DEF Init, BrowserIsContained, OneBrowserTree
<1> QED
  BY <1>1, <1>2, <1>3, <1>4 DEF IInv

LEMMA InvNext == IInv /\ [Next]_vars => IInv'
<1> SUFFICES ASSUME IInv, [Next]_vars PROVE IInv'
  OBVIOUS
<1>1. CASE UNCHANGED vars
  <2>1. TypeOK' /\ Typed' /\ SpawnInv'
    BY <1>1 DEF IInv, Typed, TypeOK, SpawnInv, vars, adapter, signals, ending, pipes, fixed
  <2>2. client = "browser" => SupInv' /\ ClosedInv' /\ AckInv' /\ PipeInv'
    BY <1>1 DEF IInv, SupInv, ClosedInv, Of, AckInv, Acked, Worker, PipeInv, NoRequest, Announced,
                vars, adapter, signals, ending, pipes, fixed
  <2>3. BrowserIsContained' /\ OneBrowserTree' /\ client' = client
    BY <1>1 DEF IInv, BrowserIsContained, OneBrowserTree, vars, adapter, signals, ending, pipes, fixed
  <2> QED
    BY <2>1, <2>2, <2>3 DEF IInv
<1>2. CASE Next
  <2>1. client' = client
    BY <1>2, ClientStep
  <2>2. Typed' /\ SpawnInv'
    BY <1>2, SpawnStep, TypedStep, StreamStep DEF IInv, Typed
  <2>3. CASE client = "browser"
    BY <1>2, <2>1, <2>2, <2>3, SupStep, ClosedStep, AckStep, PipeStep, ContainedStep, TreeStep DEF IInv
  <2>4. CASE client # "browser"
    BY <2>1, <2>2, <2>4 DEF IInv, BrowserIsContained, OneBrowserTree
  <2> QED
    BY <2>3, <2>4
<1> QED
  BY <1>1, <1>2

LEMMA Invariant == Spec => []IInv
  BY InvInit, InvNext, PTL DEF Spec

(***************************************************************************)
(* Every variable has its type in every state of every adapter, on every   *)
(* host: what ends leaves the cgroup and the pending signals with it.      *)
(***************************************************************************)
THEOREM ProcessesTyped == Spec => []TypeOK
<1>1. IInv => TypeOK
  BY DEF IInv, Typed
<1> QED
  BY <1>1, Invariant, PTL

(***************************************************************************)
(* confirm_containment and the Worker's handshake: no browser process      *)
(* exists outside its cgroup, with a trampoline or without one, whatever   *)
(* dies or is refused between the announcement and the first page.         *)
(***************************************************************************)
THEOREM NoBrowserOutside == Spec => []BrowserIsContained
<1>1. IInv => BrowserIsContained
  BY DEF IInv
<1> QED
  BY <1>1, Invariant, PTL

(***************************************************************************)
(* _terminal_outcome and cleanup: a browser tree that is given up is gone, *)
(* or the adapter starts no other, on every kernel with cgroup.kill or     *)
(* without it and however many of its processes resist.                    *)
(***************************************************************************)
THEOREM NeverTwoTrees == Spec => []OneBrowserTree
<1>1. IInv => OneBrowserTree
  BY DEF IInv
<1> QED
  BY <1>1, Invariant, PTL

(***************************************************************************)
(* _read_result_line: the line a call reads was written for its request,   *)
(* for any number of calls, timeouts and restarts before it.               *)
(***************************************************************************)
THEOREM AnswersMatch == Spec => []AnswerIsForThisRequest
<1>1. IInv => AnswerIsForThisRequest
  <2> SUFFICES ASSUME IInv, pc = "read", client = "browser", NEW i \in DOMAIN stdout
               PROVE  stdout[i].req = calls
    BY DEF AnswerIsForThisRequest
  <2>1. i \in 1 .. Len(stdout)
    BY DEF IInv, Typed
  <2> QED
    BY <2>1 DEF IInv, PipeInv
<1> QED
  BY <1>1, Invariant, PTL
=============================================================================
