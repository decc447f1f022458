-------------------------- MODULE WorkerProcesses --------------------------
(***************************************************************************)
(* The processes Zest runs for its Workers, on a POSIX host: the           *)
(* persistent browser Worker (PersistentBrowserWorkerAdapter, with the     *)
(* cgroup of LinuxCgroupV2ResourceController around it), the one-shot      *)
(* Worker (LocalProcessWorkerAdapter) and the command line of a model      *)
(* session (run_argv), over the process-tree supervision they share.       *)
(*                                                                         *)
(* The browser adapter holds its lock from a call to its return, so the    *)
(* calls of several threads are one sequence and pc is the place of the    *)
(* one that holds it.  Everything else moves meanwhile: the Worker, what   *)
(* it starts, signals on their way and the clock, whose timeouts may fire  *)
(* in any wait that has one.  A wait that has none is a guard.             *)
(***************************************************************************)
EXTENDS Naturals, Sequences, FiniteSets

CONSTANTS
    Clients,       \* the adapters to run: "browser", "oneshot", "argv"
    Setups,        \* the hosts and executables they may meet, see Setup
    MaxCalls,      \* bound on the calls of a behaviour, and so on its trees
    MaxFaults      \* bound on the processes that die, and the requests refused, by themselves

(* launcher: the executable is a trampoline and the Worker its child;
   detached: what the Worker starts has a session of its own;
   inherits: ... and holds the Worker's stderr (a command's, its stdout too);
   cgroup:   the subtree it may use: "none" that is version 2, has the memory
             and pids controllers and is writable; one with them "enabled" for
             children; one where they could be, "free" of processes or "busy";
   within:   the limits the adapter is given are within those the Worker declares;
   cgkill:   the kernel has cgroup.kill;
   oomgroup: ... and memory.oom.group. *)
Setup == [launcher : BOOLEAN, detached : BOOLEAN, inherits : BOOLEAN,
          cgroup : {"none", "enabled", "free", "busy"}, within : BOOLEAN,
          cgkill : BOOLEAN, oomgroup : BOOLEAN]

ASSUME BoundsAssumption ==
    /\ Clients \subseteq {"browser", "oneshot", "argv"} /\ Setups \subseteq Setup
    /\ MaxCalls \in Nat /\ MaxFaults \in Nat

Tree == 1..MaxCalls
Process == Tree \X {"root", "worker", "child"}

VARIABLES
    client, setup,
    pc,          \* where the call that holds the adapter's lock is
    op,          \* what it is: "invoke", "probe", "shutdown"
    after,       \* what it goes on with once the tree is ended
    outcome,     \* the status of the last call that returned
    calls,
    sup,         \* self._supervised is not None
    refusing,    \* self.containment_failure_reason is not None
    gen,         \* the last tree spawned
    alive,       \* the processes there are
    termed,      \* those sent SIGTERM
    killed,      \* those sent SIGKILL
    tracked,     \* tracked, of _posix_terminate
    failed,      \* supervised.cleanup_failed
    again,       \* release_supervision has terminated a second time
    cg,          \* the processes in the owned cgroup of their tree
    wpc,         \* where the Worker of the last tree is
    stdin, stdout,  \* its pipes
    eof,         \* its stdin is closed
    faults

adapter == <<pc, op, after, outcome, calls, sup, refusing>>
signals == <<termed, killed>>
ending == <<tracked, failed, again>>
pipes == <<stdin, stdout, eof>>
fixed == <<client, setup>>
vars == <<fixed, adapter, gen, alive, signals, ending, cg, wpc, pipes, faults>>

----------------------------------------------------------------------------
(* Processes *)

Root == <<gen, "root">>
Worker == <<gen, IF setup.launcher THEN "worker" ELSE "root">>
Child == <<gen, "child">>
Of(g) == {p \in alive : p[1] = g}

Parent(p) == IF p[2] = "child" /\ setup.launcher THEN <<p[1], "worker">> ELSE <<p[1], "root">>

(* One reading of /proc, from the roots down.  A process whose parent is gone
   has another one, and is not found. *)
_posix_descendants_of(roots) ==
    LET children(S) == {p \in alive : p[2] # "root" /\ Parent(p) \in S \cap alive}
    IN roots \cup children(roots) \cup children(children(roots))

(* The session the root was started in. *)
process_group == {p \in Of(gen) : p[2] # "child" \/ ~setup.detached}

(* The processes whose end a pipe's reader thread, and so close(), waits for. *)
Holders == {p \in Of(gen) : p[2] # "child" \/ setup.inherits}

(* The processes that read stdin and write stdout. *)
Peers == {p \in Of(gen) : p[2] # "child"}

Gone(S) == alive' = alive \ S /\ termed' = termed \ S /\ killed' = killed \ S /\ cg' = cg \ S

(* What starts is in the cgroup of what starts it. *)
Starts(p, q) == alive' = alive \cup {q} /\ cg' = IF p \in cg THEN cg \cup {q} ELSE cg

Fault == faults < MaxFaults /\ faults' = faults + 1

(* A step of the adapter leaves the processes alone; it goes on, or it returns
   and leaves the lock, or the tree is ended first (_terminal_outcome). *)
quiet == <<fixed, gen, alive, wpc>>
Goto(l) == pc' = l /\ UNCHANGED <<op, after, outcome, calls, sup, refusing>>
Return(status) == pc' = "free" /\ outcome' = status /\ UNCHANGED <<op, after, calls, sup, refusing>>
EndTree(then) == pc' = "kill" /\ after' = then /\ UNCHANGED <<op, outcome, calls, sup, refusing>>

----------------------------------------------------------------------------
(* Ending a tree *)

Closing == IF client = "browser" THEN "close" ELSE "drain"

(* Faulty variant: the pipes are closed before anything is terminated. *)
KillClosingFirst ==
    /\ pc = "kill" /\ pc' = Closing /\ sup' = FALSE
    /\ UNCHANGED <<op, after, outcome, calls, refusing>>
    /\ UNCHANGED <<quiet, signals, ending, cg, pipes, faults>>

(* terminate_tree does not look behind a root that has exited. *)
terminate_tree ==
    /\ pc = "kill" /\ pc' = (IF Root \in alive THEN "scan" ELSE Closing) /\ sup' = FALSE
    /\ UNCHANGED <<op, after, outcome, calls, refusing>>
    /\ UNCHANGED <<quiet, signals, ending, cg, pipes, faults>>

Scan ==
    /\ pc = "scan" /\ tracked' = _posix_descendants_of({Root}) /\ Goto("term")
    /\ UNCHANGED <<quiet, signals, failed, again, cg, pipes, faults>>

Term ==
    /\ pc = "term" /\ termed' = termed \cup ((process_group \cup tracked) \cap alive) /\ Goto("grace")
    /\ UNCHANGED <<quiet, killed, ending, cg, pipes, faults>>

(* The root ended or the grace is over. *)
Grace ==
    /\ pc = "grace" /\ tracked' = _posix_descendants_of(tracked) /\ Goto("kill9")
    /\ UNCHANGED <<quiet, signals, failed, again, cg, pipes, faults>>

Kill9 ==
    /\ pc = "kill9" /\ killed' = killed \cup ((process_group \cup tracked) \cap alive) /\ Goto("reap")
    /\ UNCHANGED <<quiet, termed, ending, cg, pipes, faults>>

(* The root is waited for, with a timeout; the others are not, and what was
   killed may not be gone yet. *)
Reap ==
    /\ pc = "reap" /\ failed' = (failed \/ tracked \cap alive # {}) /\ tracked' = {}
    /\ Goto(IF client = "browser" THEN "release" ELSE "drain")
    /\ UNCHANGED <<quiet, signals, again, cg, pipes, faults>>

_posix_terminate == Scan \/ Term \/ Grace \/ Kill9 \/ Reap

release_supervision ==
    /\ pc = "release" /\ again' = TRUE
    /\ Goto(IF Root \in alive /\ ~again THEN "scan" ELSE "close")
    /\ UNCHANGED <<quiet, signals, tracked, failed, cg, pipes, faults>>

(* stdin first, which the Worker sees; stdout and stderr when their readers
   have come to the end. *)
CloseStdin ==
    /\ pc = "close" /\ eof' = TRUE /\ Goto("drain")
    /\ UNCHANGED <<quiet, signals, ending, cg, stdin, stdout, faults>>

ClosePipes ==
    /\ pc = "drain" /\ client = "browser" /\ Holders = {}
    /\ pc' = "cgkill" /\ refusing' = (refusing \/ failed)
    /\ UNCHANGED <<op, after, outcome, calls, sup>>
    /\ UNCHANGED <<quiet, signals, ending, cg, pipes, faults>>

members == Of(gen) \cap cg

kill_contained ==
    /\ pc = "cgkill"
    /\ IF setup.cgkill THEN killed' = killed \cup members /\ Goto("cgwait")
       ELSE Goto("cleanup") /\ UNCHANGED killed
    /\ UNCHANGED <<quiet, termed, ending, cg, pipes, faults>>

(* It may give up before the members are gone. *)
_wait_until_empty ==
    /\ pc = "cgwait" /\ pc' = "cleanup" /\ refusing' = (refusing \/ members # {})
    /\ UNCHANGED <<op, after, outcome, calls, sup>>
    /\ UNCHANGED <<quiet, signals, ending, cg, pipes, faults>>

(* Back to the call the tree was ended for. *)
Resume(refuse) ==
    /\ refusing' = (refusing \/ refuse)
    /\ IF after = "spawn" THEN pc' = "spawn" /\ UNCHANGED outcome
       ELSE pc' = "free" /\ outcome' = after
    /\ UNCHANGED <<op, after, calls, sup>>

(* Faulty variant: the cgroup is given up without a look at its members. *)
CleanupBlindly ==
    /\ pc = "cleanup" /\ Resume(FALSE)
    /\ UNCHANGED <<quiet, signals, ending, cg, pipes, faults>>

(* A cgroup that has members is not removed; an empty one may resist. *)
cleanup ==
    /\ pc = "cleanup"
    /\ \/ Resume(members # {}) /\ UNCHANGED faults
       \/ Resume(TRUE) /\ Fault
    /\ UNCHANGED <<quiet, signals, ending, cg, pipes>>

----------------------------------------------------------------------------
(* The persistent browser adapter *)

Call(o) ==
    /\ pc = "free" /\ client = "browser" /\ calls < MaxCalls
    /\ calls' = calls + 1 /\ op' = o /\ pc' = (IF o = "shutdown" THEN "bye" ELSE "ensure")
    /\ UNCHANGED <<after, outcome, sup, refusing>>
    /\ UNCHANGED <<quiet, signals, ending, cg, pipes, faults>>

Ready == IF op = "invoke" THEN Goto("send") ELSE Return("READY")

_ensure_process ==
    /\ pc = "ensure"
    /\ CASE sup /\ Root \in alive    -> Ready
         [] sup /\ Root \notin alive -> EndTree("spawn")
         [] ~sup                     -> Goto("spawn")
    /\ UNCHANGED <<quiet, signals, ending, cg, pipes, faults>>

(* A tree of its own in a session of its own, and new pipes. *)
spawn_supervised(where, input, closed) ==
    /\ gen' = gen + 1 /\ alive' = alive \cup {<<gen + 1, "root">>}
    /\ wpc' = where /\ stdin' = input /\ stdout' = <<>> /\ eof' = closed
    /\ tracked' = {} /\ failed' = FALSE /\ again' = FALSE
    /\ UNCHANGED <<fixed, cg, signals>>

readiness == setup.cgroup \in {"enabled", "free"}

(* The controllers are enabled where they are not, the owned cgroup is made, and
   its limits are written and read back; what resists is removed again. *)
prepare(made) == IF made THEN UNCHANGED faults ELSE Fault

(* An earlier tree is not accounted for; or the controller is not ready, its
   cgroup cannot be prepared, there is no executable: nothing is started and
   the empty cgroup removed. *)
StartRefused ==
    /\ pc = "spawn" /\ (IF refusing \/ ~readiness THEN UNCHANGED faults ELSE prepare(FALSE))
    /\ Return("START_FAILED")
    /\ UNCHANGED <<quiet, signals, ending, cg, pipes>>

Start ==
    /\ pc = "spawn" /\ ~refusing /\ readiness /\ prepare(TRUE)
    /\ spawn_supervised(IF setup.launcher THEN "none" ELSE "boot", <<>>, FALSE)
    /\ pc' = "hello" /\ sup' = TRUE
    /\ UNCHANGED <<op, after, outcome, calls, refusing>>

(* The announcement, or the end of the pipe or of the timeout. *)
ReadHello ==
    /\ pc = "hello"
    /\ IF stdout # <<>> THEN stdout' = Tail(stdout) /\ Goto("confirm")
       ELSE EndTree("START_FAILED") /\ UNCHANGED stdout
    /\ UNCHANGED <<quiet, signals, ending, cg, stdin, eof, faults>>

(* Faulty variant: only the process that was spawned is attached. *)
ConfirmSpawned ==
    /\ pc = "confirm"
    /\ IF Worker \in _posix_descendants_of({Root}) /\ Root \in alive
       THEN cg' = cg \cup {Root} /\ Goto("ack")
       ELSE EndTree("START_FAILED") /\ UNCHANGED cg
    /\ UNCHANGED <<quiet, signals, ending, pipes, faults>>

(* The spawned process and the one that announced itself are attached, each
   looked up afterwards: both, or the first and not the second, or, when the
   announcement or the first write is refused, none. *)
confirm_containment ==
    /\ pc = "confirm"
    /\ \/ /\ {Root, Worker} \subseteq alive
          /\ cg' = cg \cup {Root, Worker} /\ Goto("ack") /\ UNCHANGED faults
       \/ /\ IF {Root, Worker} \subseteq alive THEN Fault ELSE UNCHANGED faults
          /\ \E S \in {{}, {Root} \cap alive} : cg' = cg \cup S
          /\ EndTree("START_FAILED")
    /\ UNCHANGED <<quiet, signals, ending, pipes>>

(* What is written to a pipe nobody reads any more is an error.  The writes
   have no timeout: a request that is more than the pipe has room for is
   written, at "write", as the Worker reads it. *)
Write(m, next, status) ==
    /\ IF Peers # {} THEN stdin' = Append(stdin, m) /\ next
       ELSE EndTree(status) /\ UNCHANGED stdin
    /\ UNCHANGED <<quiet, signals, ending, cg, stdout, eof, faults>>

SendAck == pc = "ack" /\ Write(<<"ack", 0>>, Ready, "START_FAILED")

SendRequest ==
    /\ pc = "send"
    /\ \E l \in {"read", "write"} : Write(<<"request", calls>>, Goto(l), "PROCESS_FAILED")

(* The write comes to its end: the Worker has read it, or there is no reader
   left.  The one-shot adapter and the command line then close the pipe, and
   take an error for the end of the process they wait for. *)
WriteEnds ==
    /\ pc = "write" /\ (stdin = <<>> \/ Peers = {})
    /\ IF client = "browser"
       THEN UNCHANGED eof /\ (IF stdin = <<>> THEN Goto("read") ELSE EndTree("PROCESS_FAILED"))
       ELSE eof' = TRUE /\ Goto("wait")
    /\ UNCHANGED <<quiet, signals, ending, cg, stdin, stdout, faults>>

Clean == wpc = "left" \* the exit code, once the root is gone

(* The line decides what the call answers and whether the Worker is kept; a
   line that names another request is not an answer to this one. *)
TakeLine(line) ==
    CASE line.kind = "broken"                      -> EndTree("PROTOCOL_ERROR")
      [] line.kind = "invalid" \/ line.req # calls -> Return("CONTRACT_INVALID")
      [] OTHER                                     -> Return("COMPLETED")

NoMoreLines == EndTree(IF Clean THEN "PROTOCOL_ERROR" ELSE "PROCESS_FAILED")

(* Faulty variant: a call that timed out leaves the Worker to it. *)
ReadKeepingWorker ==
    /\ pc = "read"
    /\ \/ stdout # <<>> /\ TakeLine(Head(stdout)) /\ stdout' = Tail(stdout)
       \/ stdout = <<>> /\ Peers = {} /\ NoMoreLines /\ UNCHANGED stdout
       \/ stdout = <<>> /\ Return("TIMED_OUT") /\ UNCHANGED stdout
    /\ UNCHANGED <<quiet, signals, ending, cg, stdin, eof, faults>>

_read_result_line ==
    /\ pc = "read"
    /\ \/ stdout # <<>> /\ TakeLine(Head(stdout)) /\ stdout' = Tail(stdout)
       \/ stdout = <<>> /\ Peers = {} /\ NoMoreLines /\ UNCHANGED stdout
       \/ stdout = <<>> /\ EndTree("TIMED_OUT") /\ UNCHANGED stdout
    /\ UNCHANGED <<quiet, signals, ending, cg, stdin, eof, faults>>

(* shutdown: the Worker is asked first, and waited for with a timeout. *)
Shutdown ==
    /\ pc = "bye"
    /\ CASE ~sup                     -> Return("SHUT_DOWN") /\ UNCHANGED stdin
         [] sup /\ Root \in alive    -> Goto("byewait") /\ stdin' = Append(stdin, <<"shutdown", 0>>)
         [] sup /\ Root \notin alive -> EndTree("SHUT_DOWN") /\ UNCHANGED stdin
    /\ UNCHANGED <<quiet, signals, ending, cg, stdout, eof, faults>>

ShutdownWait ==
    /\ pc = "byewait" /\ EndTree("SHUT_DOWN")
    /\ UNCHANGED <<quiet, signals, ending, cg, pipes, faults>>

----------------------------------------------------------------------------
(* The one-shot Worker and the command line *)

(* The executable may not be there; otherwise its input is written and closed,
   at once where the pipe has room for it. *)
RunOne(missing) ==
    /\ pc = "free" /\ calls < MaxCalls /\ calls' = calls + 1 /\ op' = "invoke"
    /\ \/ /\ \E fits \in BOOLEAN :
                /\ spawn_supervised("run", <<<<"request", calls + 1>>>>, fits)
                /\ pc' = (IF fits THEN "wait" ELSE "write")
          /\ UNCHANGED <<outcome, faults>>
       \/ /\ Fault /\ outcome' = missing
          /\ UNCHANGED <<pc, quiet, signals, ending, cg, pipes>>
    /\ UNCHANGED <<after, sup, refusing>>

invoke == client = "oneshot" /\ RunOne("START_FAILED")

run_argv == client = "argv" /\ RunOne("UNAVAILABLE")

(* Only the root is waited for; the timeout ends the tree. *)
Wait ==
    /\ pc = "wait"
    /\ \/ Root \notin alive /\ pc' = "drain" /\ after' = "exited"
       \/ Root \in alive /\ pc' = "kill" /\ after' = "TIMED_OUT"
    /\ UNCHANGED <<op, outcome, calls, sup, refusing>>
    /\ UNCHANGED <<quiet, signals, ending, cg, pipes, faults>>

(* What the one document on stdout and the exit code come to: a document is
   nothing without a clean exit. *)
WorkerStatus(kind) ==
    CASE kind = "none"    -> IF Clean THEN "PROTOCOL_ERROR" ELSE "PROCESS_FAILED"
      [] kind = "broken"  -> "PROTOCOL_ERROR"
      [] kind = "invalid" -> "CONTRACT_INVALID"
      [] kind = "ok"      -> IF Clean THEN "COMPLETED" ELSE "PROTOCOL_ERROR"

(* A command's output has no form, only a length. *)
ArgvStatus(kind) ==
    CASE kind = "broken" -> "PROTOCOL_ERROR"
      [] kind # "broken" -> IF Clean THEN "COMPLETED" ELSE "PROCESS_FAILED"

(* The pipes are closed with their readers at the end, which every process that
   has them is one of; the root is gone by then and is not terminated again. *)
Finish ==
    /\ pc = "drain" /\ client # "browser" /\ Holders = {}
    /\ LET kind == IF stdout = <<>> THEN "none" ELSE Head(stdout).kind
       IN  Return(IF after = "TIMED_OUT" THEN "TIMED_OUT"
                  ELSE IF client = "argv" THEN ArgvStatus(kind) ELSE WorkerStatus(kind))
    /\ UNCHANGED <<quiet, signals, ending, cg, pipes, faults>>

----------------------------------------------------------------------------
(* The Worker *)

WorkerStep == Worker \in alive /\ UNCHANGED <<fixed, adapter, gen, ending, eof>>

LauncherForks ==
    /\ Root \in alive /\ wpc = "none" /\ wpc' = "boot" /\ Starts(Root, Worker)
    /\ UNCHANGED <<fixed, adapter, gen, signals, ending, pipes, faults>>

Hello ==
    /\ WorkerStep /\ wpc = "boot" /\ wpc' = "hello"
    /\ stdout' = Append(stdout, [kind |-> "hello", req |-> 0])
    /\ UNCHANGED <<alive, signals, cg, stdin, faults>>

(* The Worker takes no limit wider than the ones it declares. *)
accept_containment == Head(stdin)[1] = "ack" /\ setup.within

(* Nothing is served before the acknowledgement. *)
_handshake ==
    /\ WorkerStep /\ wpc = "hello"
    /\ \/ /\ stdin # <<>> /\ stdin' = Tail(stdin)
          /\ wpc' = (IF accept_containment THEN "idle" ELSE "failing")
       \/ stdin = <<>> /\ eof /\ wpc' = "failing" /\ UNCHANGED stdin
    /\ UNCHANGED <<alive, signals, cg, stdout, faults>>

(* The next request; a command has its input from the start. *)
Serving == WorkerStep /\ wpc \in {"idle", "engine", "run"} /\ stdin # <<>>

(* The first page starts the engine; a command starts what it likes. *)
_production_engine ==
    /\ Serving /\ Head(stdin)[1] = "request"
    /\ \/ wpc = "idle" /\ wpc' = "engine"
       \/ wpc = "run" /\ client = "argv" /\ Child \notin alive /\ UNCHANGED wpc
    /\ Starts(Worker, Child)
    /\ UNCHANGED <<signals, stdin, stdout, faults>>

(* One line for one request, in a form the adapter may not like; a one-shot
   Worker then leaves. *)
Answer ==
    /\ Serving /\ Head(stdin)[1] = "request"
    /\ \E k \in {"ok", "invalid", "broken"} :
           stdout' = Append(stdout, [kind |-> k, req |-> Head(stdin)[2]])
    /\ stdin' = Tail(stdin) /\ wpc' = (IF wpc = "run" THEN "leaving" ELSE wpc)
    /\ UNCHANGED <<alive, signals, cg, faults>>

(* The end of the loop: shutdown, the end of stdin, or a request that raises. *)
Break ==
    /\ WorkerStep
    /\ \/ /\ Serving /\ Head(stdin)[1] = "shutdown" /\ wpc' = "leaving" /\ UNCHANGED faults
       \/ /\ wpc \in {"idle", "engine"} /\ stdin = <<>> /\ eof /\ wpc' = "leaving" /\ UNCHANGED faults
       \/ /\ Serving /\ Head(stdin)[1] = "request" /\ Fault /\ wpc' = "failing"
    /\ UNCHANGED <<alive, signals, cg, stdin, stdout>>

(* shutdown_engine, which may not stop the engine; then the exit.  A command
   stops nothing. *)
Leave ==
    /\ WorkerStep /\ wpc \in {"leaving", "failing"}
    /\ \/ /\ client = "browser" /\ Gone({Worker, Child})
          /\ wpc' = (IF wpc = "leaving" THEN "left" ELSE wpc) /\ UNCHANGED faults
       \/ /\ client = "browser" /\ Child \in alive /\ Fault /\ Gone({Worker}) /\ wpc' = "failing"
       \/ /\ client # "browser" /\ Gone({Worker})
          /\ wpc' = (IF wpc = "leaving" THEN "left" ELSE wpc) /\ UNCHANGED faults
    /\ UNCHANGED <<stdin, stdout>>

LauncherExits ==
    /\ setup.launcher /\ wpc # "none" /\ Root \in alive /\ Worker \notin alive /\ Gone({Root})
    /\ UNCHANGED <<fixed, adapter, gen, ending, wpc, pipes, faults>>

----------------------------------------------------------------------------
(* The kernel, and what ends by itself *)

Dies(S) == Gone(S) /\ UNCHANGED <<fixed, adapter, gen, ending, wpc, pipes>>

(* A handler may keep a process from dying of SIGTERM, nothing from SIGKILL. *)
DiesOfSignal(p) == p \in alive \cap (termed \cup killed) /\ Dies({p}) /\ UNCHANGED faults
DiesOfKill(p) == p \in alive \cap killed /\ Dies({p}) /\ UNCHANGED faults

Crash(p) == p \in alive /\ Fault /\ Dies({p})

(* The memory of the cgroup is exhausted: memory.oom.group takes all of it. *)
OutOfMemory == setup.oomgroup /\ members # {} /\ Fault /\ Dies(members)

(* What has lost its parent may end by itself; nothing makes it. *)
OrphanExits(p) ==
    /\ p \in alive /\ p[2] # "root" /\ Parent(p) \notin alive
    /\ Dies({p}) /\ UNCHANGED faults

----------------------------------------------------------------------------
Init ==
    /\ client \in Clients /\ setup \in Setups /\ (setup.launcher => client = "browser")
    /\ pc = "free" /\ op = "none" /\ after = "none" /\ outcome = "none" /\ calls = 0
    /\ sup = FALSE /\ refusing = FALSE /\ gen = 0 /\ alive = {}
    /\ termed = {} /\ killed = {} /\ tracked = {} /\ failed = FALSE /\ again = FALSE
    /\ cg = {} /\ wpc = "none" /\ stdin = <<>> /\ stdout = <<>> /\ eof = FALSE /\ faults = 0

(* The steps of a call, whose waits are all bounded but two: for the reader of
   stdin, and for those who hold the pipes to be closed. *)
CallStep ==
    \/ terminate_tree \/ _posix_terminate \/ release_supervision \/ CloseStdin \/ ClosePipes
    \/ kill_contained \/ _wait_until_empty \/ cleanup
    \/ _ensure_process \/ StartRefused \/ Start \/ ReadHello \/ confirm_containment
    \/ SendAck \/ SendRequest \/ WriteEnds \/ _read_result_line \/ Shutdown \/ ShutdownWait
    \/ Wait \/ Finish

Next ==
    \/ \E o \in {"invoke", "probe", "shutdown"} : Call(o)
    \/ invoke \/ run_argv \/ CallStep
    \/ LauncherForks \/ Hello \/ _handshake \/ _production_engine \/ Answer \/ Break \/ Leave
    \/ LauncherExits \/ OutOfMemory
    \/ \E p \in alive : DiesOfSignal(p) \/ Crash(p) \/ OrphanExits(p)

Spec == Init /\ [][Next]_vars

(* The adapter runs on, and the kernel kills what it was told to kill.  Nothing
   is assumed of the processes: a Worker may hang, an orphan live on. *)
FairSpec == Spec /\ WF_vars(CallStep) /\ \A p \in Process : WF_vars(DiesOfKill(p))

----------------------------------------------------------------------------
Killing == {"kill", "scan", "term", "grace", "kill9", "reap", "release", "close", "drain",
            "cgkill", "cgwait", "cleanup"}

(* Every variable has its type. *)
TypeOK ==
    /\ client \in Clients /\ setup \in Setups
    /\ pc \in Killing \cup {"free", "bye", "byewait", "ensure", "spawn", "hello", "confirm",
                            "ack", "send", "write", "read", "wait"}
    /\ alive \subseteq Process /\ cg \subseteq alive /\ termed \cup killed \subseteq alive
    /\ tracked \subseteq Process /\ gen \in 0..MaxCalls /\ calls \in 0..MaxCalls
    /\ {sup, refusing, failed, again, eof} \subseteq BOOLEAN

(***************************************************************************)
(* browser_containment.py: no browser process exists outside the cgroup    *)
(* its limits are set on, whatever the executable forks before it          *)
(* announces itself and whoever dies during the handshake.                 *)
(***************************************************************************)
BrowserIsContained ==
    client = "browser" => {p \in alive : p[2] = "child"} \subseteq cg

(***************************************************************************)
(* A browser tree is given up only once it is gone: when the adapter has   *)
(* none, or has the next one, nothing is left of an earlier one, or the    *)
(* adapter refuses to start another for good.                              *)
(***************************************************************************)
OneBrowserTree ==
    client = "browser" =>
        \A p \in alive : \/ p[1] = gen /\ (sup \/ pc \in Killing)
                         \/ refusing

(***************************************************************************)
(* What the adapter reads next, when it waits for the answer to a request, *)
(* was written for this request: no timeout, broken line or failed         *)
(* handshake leaves the line of an earlier one in the pipe.                *)
(***************************************************************************)
AnswerIsForThisRequest ==
    pc = "read" /\ client = "browser" =>
        \A i \in DOMAIN stdout : stdout[i].req = calls

(* The two ways a call may hang: its request is not read by a Worker that is
   there, or its pipes are held by a process that lost its parent before it was
   looked for, and so was neither found among the descendants nor killed. *)
Unread == pc = "write" /\ Peers # {}
HeldByOrphan ==
    pc = "drain" /\ \E p \in Holders \ killed : p[2] # "root" /\ Parent(p) \notin alive

(***************************************************************************)
(* A call returns and leaves the lock, whatever the Worker and what it     *)
(* started do, or else hangs for ever in one of those two waits and in no  *)
(* other: every timeout is followed by a kill that reaches every process   *)
(* it can find, before anything is waited for that has no timeout.         *)
(***************************************************************************)
HangsOnlyOnPipes == pc # "free" ~> (pc = "free" \/ []Unread \/ []HeldByOrphan)

(* A call returns, "Terminates the process tree on timeout". *)
EveryInvocationReturns == pc # "free" ~> pc = "free"
=============================================================================
