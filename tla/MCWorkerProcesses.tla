------------------------- MODULE MCWorkerProcesses -------------------------
(* WorkerProcesses on small instances for TLC. *)
EXTENDS WorkerProcesses

(* A driver that shares the Worker's session and stderr. *)
Driver == [launcher |-> FALSE, detached |-> FALSE, inherits |-> TRUE, cgroup |-> "enabled",
           within |-> TRUE, cgkill |-> TRUE, oomgroup |-> TRUE]

(* Chromium in a session of its own, behind a trampoline and on an old kernel;
   and the hosts and limits that do not do. *)
McSetups ==
    {Driver,
     [Driver EXCEPT !.launcher = TRUE, !.detached = TRUE, !.inherits = FALSE, !.oomgroup = FALSE],
     [Driver EXCEPT !.detached = TRUE, !.inherits = FALSE, !.cgroup = "free", !.cgkill = FALSE],
     [Driver EXCEPT !.within = FALSE],
     [Driver EXCEPT !.cgroup = "busy"]}

(* A command that leaves something behind which has its output. *)
McOrphan == {Driver}
=============================================================================
