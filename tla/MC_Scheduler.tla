---------------------------- MODULE MC_Scheduler ----------------------------
(***************************************************************************)
(* Instances of Scheduler for TLC: the command lines the user may type in *)
(* each run, and the bound on queue lengths.                              *)
(***************************************************************************)
EXTENDS Scheduler

\* A parsed command line.
Cmd(op, pg, sig, t, n, bg) ==
    [op |-> op, prog |-> pg, sig |-> sig, target |-> t, n |-> n, bg |-> bg]

\* busy, echo and sleep 1, in the foreground or with &.
JobCmds ==
    {Cmd("run", pg, "none", -1, 0, bg) : pg \in {"busy", "echo"}, bg \in BOOLEAN}
    \cup {Cmd("sleep", "none", "none", -1, 1, bg) : bg \in BOOLEAN}

\* kill -term / kill -stop of a user pid, in the background.
KillCmds(sigs) == {Cmd("run", "kill", s, t, 0, TRUE) : s \in sigs, t \in UserPids}

CONSTANT MaxQueue   \* longest queue explored
\* Stale nodes make blocked_pcbs and the ready queues grow without bound.
\* init's node, which stays in blocked_pcbs for good, is not counted.
QueueBound ==
    /\ \A r \in Prios : Len(pq[r]) <= MaxQueue
    /\ Len(SelectSeq(blocked_pcbs, LAMBDA x : x # InitPid)) <= MaxQueue
    /\ Len(stopped_pcbs) <= MaxQueue /\ Len(zombie_pcbs) <= MaxQueue

\* The jobs, kill -term and kill -stop, and zombify in the background.
CmdsJobs == JobCmds \cup KillCmds({"TERM", "STOP"})
            \cup {Cmd("run", pg, "none", -1, 0, TRUE) : pg \in {"zombify", "hang", "nohang"}}

\* kill -cont of a user pid, besides the jobs above.
CmdsCont == JobCmds \cup KillCmds({"TERM", "STOP", "CONT"})

\* nice_pid, fg and bg on the first user pid, fg without a pid, after a
\* background busy job (started with nice -1), a foreground orphanify
\* (with nice 0) created it, and a foreground sleep 2 during which every
\* ready queue is empty.
CmdsControl ==
    {Cmd("nice", "busy", "none", -1, -1, TRUE), Cmd("nice", "orphanify", "none", -1, 0, FALSE),
     Cmd("nice_pid", "none", "none", 3, 1, FALSE), Cmd("sleep", "none", "none", -1, 2, FALSE)}
    \cup {Cmd(op, "none", "none", 3, 0, FALSE) : op \in {"fg", "bg"}}
    \cup {Cmd("fg", "none", "none", -1, 0, FALSE)}

\* echo in the foreground: the shell waits on a child that exits at once.
CmdsEcho == {Cmd("run", "echo", "none", -1, 0, FALSE)}

\* The echo job, then bg on its (by then reaped) pid.
CmdsReaped == CmdsEcho \cup {Cmd("bg", "none", "none", 3, 0, FALSE)}

\* A background sleep 2, a background kill -cont of it, and fg of it.
CmdsSleepCont ==
    {Cmd("sleep", "none", "none", -1, 2, TRUE), Cmd("run", "kill", "CONT", 3, 0, TRUE),
     Cmd("fg", "none", "none", 3, 0, FALSE)}

\* A background busy job and a background kill -stop of it.
CmdsStopBg == {Cmd("run", "busy", "none", -1, 0, TRUE), Cmd("run", "kill", "STOP", 3, 0, TRUE)}
=============================================================================
