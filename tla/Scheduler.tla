----------------------------- MODULE Scheduler -----------------------------
(***************************************************************************)
(* PennOS processes: the kernel calls of k_pennos.c, the scheduler loop   *)
(* of scheduler.c, the user calls of p_pennos.c, the shell loop of main.c *)
(* and the child programs of bash.c.  All of it runs on one host thread:  *)
(* the scheduler swaps into one PCB at a time and a SIGALRM every quantum *)
(* swaps back.  A process step is a stretch of its code between two      *)
(* points at which the timer may fire and be noticed.                     *)
(***************************************************************************)
EXTENDS Integers, Deque, PidDeque, FiniteSets

CONSTANTS
    MaxPid,       \* highest pid k_process_create may hand out (bounds pid_counter)
    Commands,     \* shell command lines the user may type, as records
    HostSignals,  \* host terminal signals forwarded to fg_pid: subset of {"TERM","STOP"}
    NapCount      \* nappers stress.c's spawn creates (10 in the code)

Idle  == 0   \* create_idle_pcb
InitPid == 1  \* k_system_init
Shell == 2   \* the first p_spawn of p_system_init
Pids  == 0 .. MaxPid
UserPids == 3 .. MaxPid

ASSUME MaxPid >= 3 /\ HostSignals \subseteq {"TERM", "STOP"} /\ NapCount \in Nat \ {0}

Prios == {-1, 0, 1}
Statuses == {"READY", "BLOCKED", "STOPPED", "RUNNING", "ZOMBIE", "TERMINATED"}
Unused == "UNUSED"    \* status of a pid no PCB holds yet
ExitStatuses == {"NOT_EXITED", "EXIT_NORMAL", "EXIT_STOPPED", "EXIT_SIGNAL", "NO_CHANGE"}
Unset == "UNSET"      \* waitpid_estatus is never initialised by init_pcb
Terminal == {"EXIT_NORMAL", "EXIT_SIGNAL"}
Signals == {"TERM", "STOP", "CONT"}

\* Mutant: a table in which the +1 slots hold 0.
priority_tracker_no_pos ==
    [i \in 0 .. 18 |-> IF i \in {0, 1, 3, 4, 6, 7, 9, 10, 12, 14} THEN 0 ELSE -1]

\* create_array: the 19-slot table, +1 at 0,3,6,9; 0 at 1,4,7,10,12,14.
priority_tracker ==
    [i \in 0 .. 18 |-> IF i \in {0, 3, 6, 9} THEN 1
                       ELSE IF i \in {1, 4, 7, 10, 12, 14} THEN 0 ELSE -1]

VARIABLES
    kern,            \* the kernel state: PCB fields, queues, pid_counter
    current_pcb,     \* pid of the PCB the scheduler swapped into last
    phase,           \* "sched": scheduler_main runs; "run": current_pcb runs
    tracker_pos,
    fg_pid, cmd, wtarget,  \* shell locals: fg_pid (a global), the parsed command, the pid it waits on
    jobs, wstat            \* curr_shell_pids, and the shell loop's int status

vars == <<kern, current_pcb, phase, tracker_pos, fg_pid, cmd, wtarget, jobs, wstat>>

(***************************************************************************)
(* The kernel state is one record, so that a call that makes further      *)
(* calls is a composition of operators from record to record.  Its fields *)
(* are the PCB fields of pcb.h (one function over pids each), the ready   *)
(* queues neg/zero/pos_priority (pq), the other PCB deques and            *)
(* pid_counter.  prog is the process_name and the arguments its entry     *)
(* function got; pc is where the process's code stands, and loop_i the   *)
(* loop counter i of stress.c's spawn.                                    *)
(***************************************************************************)
status          == kern.status
priority        == kern.priority
parent_pid      == kern.parent_pid
children_pids   == kern.children_pids
waitpid_pid     == kern.waitpid_pid
waitpid_estatus == kern.waitpid_estatus
e_status        == kern.e_status
sleep_counter   == kern.sleep_counter
prog            == kern.prog
pc              == kern.pc
pq              == kern.pq
blocked_pcbs    == kern.blocked_pcbs
stopped_pcbs    == kern.stopped_pcbs
zombie_pcbs     == kern.zombie_pcbs
pid_counter     == kern.pid_counter
loop_i          == kern.loop_i


\* strcmp(process->process_name, "sleep") == 0
IsSleep(k, p) == k.prog[p].name = "sleep"

\* schedule_ready_process: a READY PCB goes to the back of its priority's
\* queue, a sleeper to blocked_pcbs; anything else is only reported.
schedule_ready_process(k, p) ==
    IF k.status[p] = "READY"
    THEN [k EXCEPT !.pq[k.priority[p]] = Deque_Push_Back(@, p)]
    ELSE IF k.sleep_counter[p] > 0
         THEN [k EXCEPT !.blocked_pcbs = Deque_Push_Back(@, p)]
         ELSE k

\* Mutant: the child's status, not its e_status, copied to the parent.
Unblock_status_copied(k, par, p) ==
    [k EXCEPT !.status[par] = "READY",
              !.waitpid_estatus[par] = IF k.status[p] = "STOPPED" THEN "EXIT_STOPPED" ELSE k.status[p]]

\* The body of the unblocking branch of waitpid_checks: the parent becomes
\* READY and records what it saw of the child; a stop report is consumed.
Unblock(k, par, p) ==
    [k EXCEPT !.status[par] = "READY",
              !.waitpid_estatus[par] =
                  CASE k.status[p] = "ZOMBIE"  -> k.e_status[p]
                    [] k.status[p] = "STOPPED" -> "EXIT_STOPPED"
                    [] OTHER                   -> @,
              !.e_status[p] = IF k.status[p] = "STOPPED" THEN "NO_CHANGE" ELSE @]

\* Mutant: the woken parent is made READY but not enqueued.
waitpid_checks_no_enqueue(k, p) ==
    LET par == k.parent_pid[p]
        w   == IF k.waitpid_pid[par] = -1 THEN p ELSE k.waitpid_pid[par]
        k1  == [k EXCEPT !.waitpid_pid[par] = w]
    IN  IF par \notin ToSet(k.blocked_pcbs) THEN k
        ELSE IF w = p /\ par # InitPid /\ k.status[p] # "READY" THEN Unblock(k1, par, p) ELSE k1

\* Mutant: a parent is woken by any child, not only the one it waits on.
waitpid_checks_any_child(k, p) ==
    LET par == k.parent_pid[p] IN
    IF par \notin ToSet(k.blocked_pcbs) \/ par = InitPid \/ k.status[p] = "READY" THEN k
    ELSE schedule_ready_process(Unblock(k, par, p), par)

\* waitpid_checks: the first blocked_pcbs node holding p's parent decides.
\* A parent waiting on any child (-1) is pointed at p; a parent waiting on
\* p, other than init, is woken unless p is READY.  The parent's node is
\* left in blocked_pcbs.
waitpid_checks(k, p) ==
    LET par == k.parent_pid[p]
        w   == IF k.waitpid_pid[par] = -1 THEN p ELSE k.waitpid_pid[par]
        k1  == [k EXCEPT !.waitpid_pid[par] = w]
    IN  IF par \notin ToSet(k.blocked_pcbs) THEN k
        ELSE IF w = p /\ par # InitPid /\ k.status[p] # "READY"
             THEN schedule_ready_process(Unblock(k1, par, p), par)
             ELSE k1

\* schedule_sleep_process: the sleep child moves between blocked_pcbs and
\* the stopped or zombie queue, then its waiter is checked.
schedule_sleep_process(k, p, sig) ==
    LET k1 == CASE sig = "STOP" ->
                   [k EXCEPT !.status[p] = "STOPPED",
                             !.blocked_pcbs = Deque_Pop_PID(@, p),
                             !.stopped_pcbs = Deque_Push_Back(@, p)]
                [] sig = "TERM" ->
                   [k EXCEPT !.status[p] = "ZOMBIE",
                             !.blocked_pcbs = Deque_Pop_PID(@, p),
                             !.zombie_pcbs = Deque_Push_Back(@, p)]
                [] sig = "CONT" ->
                   [k EXCEPT !.status[p] = "BLOCKED",
                             !.stopped_pcbs = Deque_Pop_PID(@, p),
                             !.blocked_pcbs = Deque_Push_Back(@, p)]
    IN  waitpid_checks(k1, p)

\* What STOP and TERM write into the target before the sleep handling.
KillEffect == [STOP |-> [st |-> "STOPPED", es |-> "EXIT_STOPPED"],
               TERM |-> [st |-> "ZOMBIE",  es |-> "EXIT_SIGNAL"]]

\* k_process_kill: nothing for a TERMINATED target (a ZOMBIE one is not
\* excluded); CONT makes the target READY without enqueueing it.
k_process_kill(k, p, sig) ==
    IF k.status[p] = "TERMINATED" THEN k
    ELSE IF sig = "CONT"
    THEN LET k1 == [k EXCEPT !.status[p] = "READY"]
         IN  IF IsSleep(k1, p) THEN schedule_sleep_process(k1, p, "CONT") ELSE k1
    ELSE LET k1 == [k EXCEPT !.status[p] = KillEffect[sig].st,
                             !.e_status[p] = KillEffect[sig].es]
             k2 == IF IsSleep(k1, p) THEN schedule_sleep_process(k1, p, sig) ELSE k1
         IN  waitpid_checks(k2, p)

\* Mutant: the parent's children_pids is not updated (no remove_pid).
k_process_cleanup_keep_child(k, p) ==
    IF k.status[p] = "TERMINATED" THEN k
    ELSE [k EXCEPT !.status[p] = "TERMINATED",
                   !.parent_pid = [c \in Pids |->
                       IF c \in ToSet(k.children_pids[p]) THEN InitPid ELSE k.parent_pid[c]]]

\* k_process_cleanup: reaping.  The children are handed to init (init's
\* own list is not updated) and p leaves its parent's list.
k_process_cleanup(k, p) ==
    IF k.status[p] = "TERMINATED" THEN k
    ELSE [k EXCEPT !.status[p] = "TERMINATED",
                   !.parent_pid = [c \in Pids |->
                       IF c \in ToSet(k.children_pids[p]) THEN InitPid ELSE k.parent_pid[c]],
                   !.children_pids[k.parent_pid[p]] = RemoveFirst(@, p)]

\* k_process_create: the next pid; the priority of the parent, 0 under the
\* shell.  The other PCB fields keep the init_pcb values Init gives them.
k_process_create(k, par, prg, entry) ==
    LET p == k.pid_counter IN
    [k EXCEPT !.pid_counter = @ + 1,
              !.status[p] = "READY",
              !.priority[p] = IF par = Shell THEN 0 ELSE k.priority[par],
              !.parent_pid[p] = par,
              !.children_pids[par] = Append(@, p),
              !.prog[p] = prg,
              !.pc[p] = entry]

\* p_spawn: create the child, make its context (entry), enqueue it.
p_spawn(k, par, prg, entry) ==
    schedule_ready_process(k_process_create(k, par, prg, entry), k.pid_counter)

\* p_sleep: a child named "sleep" that is given no context at all, BLOCKED
\* with the tick count, and put in blocked_pcbs when the count is positive.
p_sleep(k, par, ticks) ==
    LET p  == k.pid_counter
        k1 == k_process_create(k, par, [name |-> "sleep", sig |-> "none", target |-> -1], "nocontext")
    IN  schedule_ready_process([k1 EXCEPT !.sleep_counter[p] = ticks,
                                          !.status[p] = "BLOCKED"], p)

\* set_priority: a READY PCB is taken out of the old priority's queue and
\* re-enqueued; any other PCB only gets the new value.
set_priority(k, p, pr) ==
    IF k.status[p] = "READY"
    THEN schedule_ready_process(
             [k EXCEPT !.priority[p] = pr,
                       !.pq[k.priority[p]] = Deque_Pop_PID(@, p)], p)
    ELSE [k EXCEPT !.priority[p] = pr]

\* p_fg / p_bg on an existing pid: a sleeper not BLOCKED goes through the
\* sleep CONT path; anything else is made READY and enqueued, whatever its
\* status was.
p_fg(k, p) ==
    IF k.sleep_counter[p] > 0
    THEN IF k.status[p] # "BLOCKED" THEN schedule_sleep_process(k, p, "CONT") ELSE k
    ELSE schedule_ready_process([k EXCEPT !.status[p] = "READY"], p)

\* get_last_stopped_pcb: from the back of stopped_pcbs, the first PCB whose
\* status is STOPPED; -1 when there is none.
get_last_stopped_pcb(k) ==
    LET hits == {i \in DOMAIN k.stopped_pcbs : k.status[k.stopped_pcbs[i]] = "STOPPED"}
    IN  IF hits = {} THEN -1 ELSE k.stopped_pcbs[Max(hits)]

(***************************************************************************)
(* scheduler_main after the swapcontext returns: the branch on the        *)
(* status the slice left, then the sleep, stopped and zombie passes.      *)
(***************************************************************************)
AfterSlice(k, p) ==
    CASE k.status[p] = "RUNNING" ->
             schedule_ready_process([k EXCEPT !.status[p] = "READY"], p)
      [] k.status[p] = "ZOMBIE" ->
             LET k1 == waitpid_checks(k, p)
             IN  [k1 EXCEPT !.zombie_pcbs = Deque_Push_Back(@, p)]
      [] k.status[p] = "STOPPED" ->
             LET k1 == waitpid_checks(k, p)
             IN  [k1 EXCEPT !.stopped_pcbs = Deque_Push_Back(@, p)]
      [] k.status[p] = "BLOCKED" ->
             [k EXCEPT !.blocked_pcbs = Deque_Push_Back(@, p)]
      [] OTHER -> k

\* One visit of the sleep pass to a blocked_pcbs node.  The list does not
\* change during the pass (a woken parent is READY and goes to a ready
\* queue), so a fold over it visits the nodes the C loop visits.
SleepTick(k, b) ==
    IF k.sleep_counter[b] <= 0 THEN k
    ELSE IF k.sleep_counter[b] - 1 > 0
    THEN [k EXCEPT !.sleep_counter[b] = @ - 1]
    ELSE waitpid_checks([k EXCEPT !.status[b] = "ZOMBIE",
                                  !.sleep_counter[b] = -1,
                                  !.e_status[b] = "EXIT_NORMAL"], b)

SleepPass(k) == FoldLeft(SleepTick, k, k.blocked_pcbs)

\* The stopped pass from node j on: a node whose PCB is READY is unlinked,
\* its waiter checked, and the PCB enqueued.  The C loop then reads the
\* freed node's next field; the model takes the value the node held.
RECURSIVE StoppedPass(_, _)
StoppedPass(k, j) ==
    IF j > Len(k.stopped_pcbs) THEN k
    ELSE LET r == k.stopped_pcbs[j] IN
         IF k.status[r] = "READY"
         THEN StoppedPass(schedule_ready_process(
                  waitpid_checks([k EXCEPT !.stopped_pcbs = Deque_Pop_Pcb(@, j)], r), r), j)
         ELSE StoppedPass(k, j + 1)

\* The zombie pass: every non-TERMINATED node gets waitpid_checks again.
ZombieVisit(k, z) == IF k.status[z] = "TERMINATED" THEN k ELSE waitpid_checks(k, z)
ZombiePass(k) == FoldLeft(ZombieVisit, k, k.zombie_pcbs)

EndQuantum(k, p) == ZombiePass(StoppedPass(SleepPass(AfterSlice(k, p)), 1))

(***************************************************************************)
(* p_waitpid(-1, &status, true) as the shell calls it: each child in turn *)
(* is polled with p_waitpid(child, &status, true); a ZOMBIE child is      *)
(* reaped by the poll, and the first child whose status is EXIT_NORMAL,   *)
(* EXIT_SIGNAL or EXIT_STOPPED is returned.  Reaping shifts the caller's  *)
(* children_pids, so the loop index then skips the next child.            *)
(***************************************************************************)
PollStatus(k, ch) ==
    IF k.status[ch] \in {"READY", "RUNNING", "BLOCKED"} THEN "NOT_EXITED" ELSE k.e_status[ch]

RECURSIVE PollChildren(_, _, _)
PollChildren(k, c, i) ==
    IF i > Len(k.children_pids[c]) THEN [k |-> k, r |-> 0]
    ELSE LET ch == k.children_pids[c][i]
             st == PollStatus(k, ch)
             k1 == IF k.status[ch] = "ZOMBIE" THEN k_process_cleanup(k, ch) ELSE k
         IN  IF st \in Terminal \cup {"EXIT_STOPPED"} THEN [k |-> k1, r |-> ch]
             ELSE PollChildren(k1, c, i + 1)

p_waitpid_nohang_any(k, c) ==
    IF k.children_pids[c] = <<>> THEN [k |-> k, r |-> -1] ELSE PollChildren(k, c, 1)

(***************************************************************************)
(* Process steps.  Running(p): p is the PCB the scheduler swapped into and *)
(* the timer has not yet taken the CPU back.  A step runs whatever p's    *)
(* status says: a PCB stopped by a host signal during its own slice       *)
(* keeps executing until the timer fires.                                 *)
(***************************************************************************)
Running(p) == phase = "run" /\ current_pcb = p
others == <<current_pcb, phase, tracker_pos, fg_pid, cmd, wtarget, jobs, wstat>>

\* exit_context and p_exit: status = ZOMBIE, then e_status = EXIT_NORMAL,
\* then while(1) until the timer.  p_exit's f_close loop is left out.
ExitZombie(p) ==
    /\ Running(p) /\ pc[p] = "exit1"
    /\ kern' = [kern EXCEPT !.status[p] = "ZOMBIE", !.pc[p] = "exit2"]
    /\ UNCHANGED others

ExitStatus(p) ==
    /\ Running(p) /\ pc[p] = "exit2"
    /\ kern' = [kern EXCEPT !.e_status[p] = "EXIT_NORMAL", !.pc[p] = "done"]
    /\ UNCHANGED others

\* bash_kill: p_kill(pid, sig) (an error when no PCB has the pid; idle is
\* not in global_pcbs), then p_exit.
bash_kill(p) ==
    /\ Running(p) /\ pc[p] = "kill"
    /\ LET t == prog[p].target
           k1 == IF t \in 1 .. pid_counter - 1 THEN k_process_kill(kern, t, prog[p].sig) ELSE kern
       IN  kern' = [k1 EXCEPT !.pc[p] = "exit1"]
    /\ UNCHANGED others

\* orphanify: p_spawn(orphan_child) (a busy loop), then p_exit.
orphanify(p) ==
    /\ Running(p) /\ pc[p] = "orphan" /\ pid_counter <= MaxPid
    /\ LET k1 == p_spawn(kern, p, [name |-> "orphan_child", sig |-> "none", target |-> -1], "spin")
       IN  kern' = [k1 EXCEPT !.pc[p] = "exit1"]
    /\ UNCHANGED others
\* zombify: p_spawn(zombie_child), which only calls p_exit, then
\* while(1): the parent never waits, so the child stays a ZOMBIE.
zombify(p) ==
    /\ Running(p) /\ pc[p] = "zombify" /\ pid_counter <= MaxPid
    /\ LET k1 == p_spawn(kern, p, [name |-> "zombie_child", sig |-> "none", target |-> -1], "exit1")
       IN  kern' = [k1 EXCEPT !.pc[p] = "spin"]
    /\ UNCHANGED others

\* stress.c spawn(nohang), called by nohang and hang: the loop p_spawns
\* NapCount nappers; each naps and returns into exit_context.
StressSpawn(p) ==
    /\ Running(p) /\ pc[p] = "spawn" /\ pid_counter <= MaxPid
    /\ \E k1 \in {p_spawn(kern, p, [name |-> "nap", sig |-> "none", target |-> -1], "exit1")} :
          kern' = [k1 EXCEPT !.loop_i[p] = @ + 1,
                             !.pc[p] = IF loop_i[p] + 1 < NapCount THEN "spawn" ELSE "wait"]
    /\ UNCHANGED others

\* nohang's wait loop: p_waitpid(-1, NULL, true); p_exit on -1 (no child
\* left), else poll again.
NohangWait(p) ==
    /\ Running(p) /\ pc[p] = "wait" /\ prog[p].name = "nohang"
    /\ \E res \in {p_waitpid_nohang_any(kern, p)} :
          kern' = [res.k EXCEPT !.pc[p] = IF res.r < 0 THEN "exit1" ELSE "wait"]
    /\ UNCHANGED others

\* hang's wait loop: p_waitpid(-1, NULL, false) returns -1 without
\* children (then p_exit), else stores status = BLOCKED, ...
HangBlock(p) ==
    /\ Running(p) /\ pc[p] = "wait" /\ prog[p].name = "hang"
    /\ kern' = IF children_pids[p] = <<>> THEN [kern EXCEPT !.pc[p] = "exit1"]
               ELSE [kern EXCEPT !.status[p] = "BLOCKED", !.pc[p] = "hset"]
    /\ UNCHANGED others

\* ... then waitpid_pid = -1, which waitpid_checks replaces by the first
\* child it is called for.
HangSetTarget(p) ==
    /\ Running(p) /\ pc[p] = "hset"
    /\ kern' = [kern EXCEPT !.waitpid_pid[p] = -1, !.pc[p] = "hspin"]
    /\ UNCHANGED others

\* Once no longer BLOCKED: the pid in waitpid_pid is reaped with
\* k_process_cleanup, whatever its status, and waitpid_pid = 0.  A wakeup
\* that left no pid there makes get_pcb_from_pid return NULL, and the
\* cleanup crashes the host; that step is not represented.
HangReap(p) ==
    /\ Running(p) /\ pc[p] = "hspin" /\ status[p] # "BLOCKED"
    /\ waitpid_pid[p] \in 1 .. pid_counter - 1
    /\ kern' = [k_process_cleanup([kern EXCEPT !.waitpid_pid[p] = 0], waitpid_pid[p])
                    EXCEPT !.pc[p] = "wait"]
    /\ UNCHANGED others

(***************************************************************************)
(* The shell (main.c shell()).  Each loop: fg_pid = shell_pid, drain      *)
(* finished jobs with nohang waits, read a line, drain again, run it.     *)
(* A command record has fields op, prog, sig, target, n and bg; a target  *)
(* of -1 is fg or bg typed without a pid.  jobs is curr_shell_pids, and   *)
(* wstat the int `status` local of the loop that every p_waitpid call     *)
(* gets a pointer to; it is an int as the code stores it.                 *)
(***************************************************************************)
shvars == <<current_pcb, phase, tracker_pos>>

\* The entry point p_spawn gives each program of func_array.
Entry == [busy |-> "spin", echo |-> "exit1", kill |-> "kill", orphanify |-> "orphan",
          zombify |-> "zombify", nohang |-> "spawn", hang |-> "spawn"]

\* The exit_status enum as the int p_waitpid stores through wstatus.
StatusCode == [NOT_EXITED |-> 0, EXIT_NORMAL |-> 1, EXIT_STOPPED |-> 2,
               EXIT_SIGNAL |-> 3, NO_CHANGE |-> 4]

\* An int nothing has written yet (the local status before the first
\* wait, or waitpid_estatus never set by a wakeup): one value for each way
\* the PennOS and the host wait macros can classify it.
GarbageInts == {0, 1, 2, 3, 4, 127, 255}

\* W_WIFEXITED, W_WIFSTOPPED and W_WIFSIGNALED compare with the enum.
W_WIFEXITED(s)   == s = StatusCode.EXIT_NORMAL
W_WIFSTOPPED(s)  == s = StatusCode.EXIT_STOPPED
W_WIFSIGNALED(s) == s = StatusCode.EXIT_SIGNAL

\* The drain's report of waited_pid.  It tests the host's <sys/wait.h>
\* macros: WIFEXITED is (s & 0x7f) == 0, WIFSIGNALED holds for any other
\* low seven bits but 0x7f, WIFSTOPPED is (s & 0xff) == 0x7f.  The job is
\* dropped, or moved to the back, or left.
DrainJobs(js, p, s) ==
    CASE s % 128 # 127 -> pid_Deque_Pop_PID(js, p)
      [] s % 256 = 127 -> pid_Deque_Push_Back(pid_Deque_Pop_PID(js, p), p)
      [] OTHER         -> js

\* After the blocking wait of a foreground job: run and sleep drop a job
\* that exited or was signalled; fg puts back one that did not.
AfterWait(js, c, p, s) ==
    IF c.op = "fg"
    THEN IF W_WIFEXITED(s) \/ W_WIFSIGNALED(s) THEN js ELSE pid_Deque_Push_Back(js, p)
    ELSE IF W_WIFEXITED(s) \/ W_WIFSIGNALED(s) THEN pid_Deque_Pop_PID(js, p) ELSE js

\* p_waitpid(p, &s, true) from the shell: -1 without storing s when the
\* shell has no children, p is not its child or p is TERMINATED; else s
\* gets the poll's status, and a ZOMBIE is reaped.
NohangPoll(k, p, s) ==
    IF k.children_pids[Shell] = <<>> \/ k.parent_pid[p] # Shell \/ k.status[p] = "TERMINATED"
    THEN [k |-> k, s |-> s]
    ELSE [k |-> IF k.status[p] = "ZOMBIE" THEN k_process_cleanup(k, p) ELSE k,
          s |-> StatusCode[PollStatus(k, p)]]

\* fg without a pid: from the back of the job list towards the front, poll
\* each job; one that exited is popped and the walk goes on from the node's
\* prev, any other becomes fg_pid (continued first when stopped).
RECURSIVE FgWalk(_, _, _, _)
FgWalk(k, js, s, i) ==
    IF i = 0 THEN [k |-> k, js |-> js, s |-> s, fg |-> -1]
    ELSE LET p == js[i]
             q == NohangPoll(k, p, s)
             j == pid_Deque_Find(js, p)
         IN  IF W_WIFEXITED(q.s) \/ W_WIFSIGNALED(q.s)
             THEN FgWalk(q.k, pid_Deque_Pop_PID(js, p), q.s, IF j = i THEN i - 1 ELSE i - 2)
             ELSE [k |-> IF W_WIFSTOPPED(q.s) THEN k_process_kill(q.k, p, "CONT") ELSE q.k,
                   js |-> js, s |-> q.s, fg |-> p]

ShellTop ==
    /\ Running(Shell) /\ pc[Shell] = "top"
    /\ fg_pid' = Shell
    /\ kern' = [kern EXCEPT !.pc[Shell] = "drain1"]
    /\ UNCHANGED <<shvars, cmd, wtarget, jobs, wstat>>

\* One iteration of either drain loop; it is left on -1 or 0.  The pid
\* p_waitpid(-1, &status, true) returns is reported by a status the call
\* never stored (it polls each child into a status of its own).
ShellDrain ==
    /\ Running(Shell) /\ pc[Shell] \in {"drain1", "drain2"}
    /\ LET res  == p_waitpid_nohang_any(kern, Shell)
           next == IF res.r \in {-1, 0}
                   THEN IF pc[Shell] = "drain1" THEN "read" ELSE "exec"
                   ELSE pc[Shell]
       IN  /\ kern' = [res.k EXCEPT !.pc[Shell] = next]
           /\ jobs' = IF res.r \in {-1, 0} THEN jobs ELSE DrainJobs(jobs, res.r, wstat)
    /\ UNCHANGED <<shvars, fg_pid, cmd, wtarget, wstat>>

\* A command the shell can carry out in this state: a pid to create is
\* below the bound; kill names a PCB that exists when the line is typed,
\* and so do fg and bg given a pid (a missing one is a NULL dereference
\* in p_fg/p_bg).
Feasible(c) ==
    /\ c.op \in {"run", "sleep", "nice"} => pid_counter <= MaxPid
    /\ c.prog = "kill" => c.target \in 1 .. pid_counter - 1
    /\ c.op \in {"fg", "bg"} => c.target \in {-1} \cup 1 .. pid_counter - 1

ShellRead ==
    /\ Running(Shell) /\ pc[Shell] = "read"
    /\ \E c \in Commands : Feasible(c) /\ cmd' = c
    /\ kern' = [kern EXCEPT !.pc[Shell] = "drain2"]
    /\ UNCHANGED <<shvars, fg_pid, wtarget, jobs, wstat>>

\* Mutant: only a foreground job is added to the job list.
Launch_fg_only(k, c) ==
    /\ jobs' = IF cmd.bg THEN jobs ELSE pid_Deque_Push_Back(jobs, c)
    /\ IF cmd.bg
       THEN kern' = [k EXCEPT !.pc[Shell] = "top"] /\ UNCHANGED <<fg_pid, wtarget>>
       ELSE /\ kern' = [k EXCEPT !.pc[Shell] = "wblock"]
            /\ fg_pid' = c /\ wtarget' = c
    /\ UNCHANGED <<shvars, cmd, wstat>>

\* After a spawn or sleep the new pid joins the job list; a background
\* job returns to the prompt, a foreground one becomes fg_pid and is
\* waited on.
Launch(k, c) ==
    /\ jobs' = pid_Deque_Push_Back(jobs, c)
    /\ IF cmd.bg
       THEN kern' = [k EXCEPT !.pc[Shell] = "top"] /\ UNCHANGED <<fg_pid, wtarget>>
       ELSE /\ kern' = [k EXCEPT !.pc[Shell] = "wblock"]
            /\ fg_pid' = c /\ wtarget' = c
    /\ UNCHANGED <<shvars, cmd, wstat>>

\* Any other command: p_spawn(func_array[idx], ...).
ShellRun ==
    /\ Running(Shell) /\ pc[Shell] = "exec" /\ cmd.op = "run" /\ pid_counter <= MaxPid
    /\ Launch(p_spawn(kern, Shell, [name |-> cmd.prog, sig |-> cmd.sig, target |-> cmd.target],
                      Entry[cmd.prog]), pid_counter)

\* sleep n: p_sleep(n * CLOCKS_PER_SEC), in quanta here; n = 0 stands for
\* an argument atoi reads as 0, after which p_sleep(0) is still called.
ShellSleep ==
    /\ Running(Shell) /\ pc[Shell] = "exec" /\ cmd.op = "sleep" /\ pid_counter <= MaxPid
    /\ Launch(p_sleep(kern, Shell, cmd.n), pid_counter)

\* Mutant: p_nice writes pcb->priority and leaves the queues alone.
p_nice_unqueued(k, p, pr) ==
    IF p \in 1 .. k.pid_counter - 1 THEN [k EXCEPT !.priority[p] = pr] ELSE k

\* p_nice: set_priority on the PCB with the pid; -1, and no change, when
\* get_pcb_from_pid finds none (idle is not in global_pcbs).
p_nice(k, p, pr) == IF p \in 1 .. k.pid_counter - 1 THEN set_priority(k, p, pr) ELSE k

\* nice priority prog: p_spawn, then p_nice on the new pid.  A background
\* job only gets a line printed; a foreground one becomes fg_pid and is
\* waited on.  Neither is pushed onto the job list.
ShellNice ==
    /\ Running(Shell) /\ pc[Shell] = "exec" /\ cmd.op = "nice" /\ pid_counter <= MaxPid
    /\ \E k1 \in {p_nice(p_spawn(kern, Shell, [name |-> cmd.prog, sig |-> cmd.sig, target |-> cmd.target],
                                 Entry[cmd.prog]), pid_counter, cmd.n)} :
          IF cmd.bg
          THEN kern' = [k1 EXCEPT !.pc[Shell] = "top"] /\ UNCHANGED <<fg_pid, wtarget>>
          ELSE /\ kern' = [k1 EXCEPT !.pc[Shell] = "wblock"]
               /\ fg_pid' = pid_counter /\ wtarget' = pid_counter
    /\ UNCHANGED <<shvars, cmd, jobs, wstat>>

\* nice_pid priority pid: p_nice.
ShellNicePid ==
    /\ Running(Shell) /\ pc[Shell] = "exec" /\ cmd.op = "nice_pid"
    /\ kern' = [p_nice(kern, cmd.target, cmd.n) EXCEPT !.pc[Shell] = "top"]
    /\ UNCHANGED <<shvars, fg_pid, cmd, wtarget, jobs, wstat>>

\* fg pid: fg_pid = pid, which leaves the job list; p_fg(pid); then a
\* blocking p_waitpid on it.
ShellFg ==
    /\ Running(Shell) /\ pc[Shell] = "exec" /\ cmd.op = "fg" /\ cmd.target # -1
    /\ kern' = [p_fg(kern, cmd.target) EXCEPT !.pc[Shell] = "wblock"]
    /\ jobs' = pid_Deque_Pop_PID(jobs, cmd.target)
    /\ fg_pid' = cmd.target /\ wtarget' = cmd.target
    /\ UNCHANGED <<shvars, cmd, wstat>>

\* fg alone: the walk picks a job (-1 when none is left); it leaves the
\* job list, and p_fg(-1) falls back on get_last_stopped_pcb.  With no
\* pid at all, p_fg reports an error and the shell goes back to the top.
ShellFgLast ==
    /\ Running(Shell) /\ pc[Shell] = "exec" /\ cmd.op = "fg" /\ cmd.target = -1
    /\ LET w  == FgWalk(kern, jobs, wstat, Len(jobs))
           p  == IF w.fg = -1 THEN get_last_stopped_pcb(w.k) ELSE w.fg
       IN  /\ jobs' = pid_Deque_Pop_PID(w.js, w.fg)
           /\ wstat' = w.s
           /\ fg_pid' = p
           /\ IF p = -1
              THEN kern' = [w.k EXCEPT !.pc[Shell] = "top"] /\ UNCHANGED wtarget
              ELSE kern' = [p_fg(w.k, p) EXCEPT !.pc[Shell] = "wblock"] /\ wtarget' = p
    /\ UNCHANGED <<shvars, cmd>>

\* bg [pid]: p_bg, whose body is that of p_fg; without a pid it takes
\* get_last_stopped_pcb, and reports an error when that is -1.
ShellBg ==
    /\ Running(Shell) /\ pc[Shell] = "exec" /\ cmd.op = "bg"
    /\ LET p  == IF cmd.target = -1 THEN get_last_stopped_pcb(kern) ELSE cmd.target
           k1 == IF p = -1 THEN kern ELSE p_fg(kern, p)
       IN  kern' = [k1 EXCEPT !.pc[Shell] = "top"]
    /\ UNCHANGED <<shvars, fg_pid, cmd, wtarget, jobs, wstat>>

\* p_waitpid(pid, &status, false), first part: the error returns (no
\* children, not a child of the caller, already TERMINATED), after which
\* the shell updates the job list from the status it last stored; else
\* status = BLOCKED.
WaitBlock ==
    /\ Running(Shell) /\ pc[Shell] = "wblock"
    /\ IF \/ children_pids[Shell] = <<>>
          \/ parent_pid[wtarget] # Shell
          \/ status[wtarget] = "TERMINATED"
       THEN /\ kern' = [kern EXCEPT !.pc[Shell] = "top"]
            /\ jobs' = AfterWait(jobs, cmd, wtarget, wstat)
       ELSE /\ kern' = [kern EXCEPT !.status[Shell] = "BLOCKED", !.pc[Shell] = "wset"]
            /\ UNCHANGED jobs
    /\ UNCHANGED <<shvars, fg_pid, cmd, wtarget, wstat>>

\* Second store: waitpid_pid = pid.  The timer may fire between the two.
WaitSetTarget ==
    /\ Running(Shell) /\ pc[Shell] = "wset"
    /\ kern' = [kern EXCEPT !.waitpid_pid[Shell] = wtarget, !.pc[Shell] = "wspin"]
    /\ UNCHANGED <<shvars, fg_pid, cmd, wtarget, jobs, wstat>>

\* The spin ends once the status is no longer BLOCKED.  The caller stores
\* waitpid_estatus into status (any int when no wakeup wrote it), reaps
\* the target on a terminal status, and resets both fields; the shell
\* then updates the job list.
WaitResume ==
    /\ Running(Shell) /\ pc[Shell] = "wspin" /\ status[Shell] # "BLOCKED"
    /\ \E s \in IF waitpid_estatus[Shell] = Unset THEN GarbageInts
                ELSE {StatusCode[waitpid_estatus[Shell]]} :
           LET k1 == [kern EXCEPT !.waitpid_pid[Shell] = 0]
               k2 == IF W_WIFEXITED(s) \/ W_WIFSIGNALED(s) THEN k_process_cleanup(k1, wtarget) ELSE k1
           IN  /\ kern' = [k2 EXCEPT !.waitpid_estatus[Shell] = "NO_CHANGE", !.pc[Shell] = "top"]
               /\ wstat' = s
               /\ jobs' = AfterWait(jobs, cmd, wtarget, s)
    /\ UNCHANGED <<shvars, fg_pid, cmd, wtarget>>
(***************************************************************************)
(* The scheduler.                                                         *)
(***************************************************************************)
\* One pass of the while(1) in scheduler_main up to swapcontext: take the
\* slot's queue, pop its front;
\* an empty queue, a PCB that is not READY (a ZOMBIE or STOPPED one is
\* moved to its queue) or one of another priority moves to the next slot.
\* The idle PCB is pushed into the slot's queue when all three are empty.
\* Mutant: the idle PCB is never pushed.
IdleIfEmpty_never(q, pr) == q

IdleIfEmpty(q, pr) ==
    IF \A r \in Prios : q[r] = <<>> THEN [q EXCEPT ![pr] = Deque_Push_Back(@, Idle)] ELSE q

SchedPick ==
    /\ phase = "sched"
    /\ LET pos == IF tracker_pos >= 19 THEN 0 ELSE tracker_pos
           pr  == priority_tracker[pos]
           q0  == IdleIfEmpty(pq, pr)
           p   == Head(q0[pr])
           q1  == [q0 EXCEPT ![pr] = Deque_Pop_Front(@)]
       IN  CASE q0[pr] = <<>> ->
                    /\ tracker_pos' = pos + 1 /\ UNCHANGED <<kern, current_pcb, phase>>
             [] status[p] # "READY" ->
                    /\ tracker_pos' = pos + 1
                    /\ kern' = [kern EXCEPT !.pq = q1,
                              !.zombie_pcbs = IF status[p] = "ZOMBIE" THEN Deque_Push_Back(@, p) ELSE @,
                              !.stopped_pcbs = IF status[p] = "STOPPED" THEN Deque_Push_Back(@, p) ELSE @]
                    /\ UNCHANGED <<current_pcb, phase>>
             [] priority[p] # pr ->
                    /\ tracker_pos' = pos + 1
                    /\ kern' = [kern EXCEPT !.pq = q1] /\ UNCHANGED <<current_pcb, phase>>
             [] OTHER ->
                    /\ tracker_pos' = pos /\ current_pcb' = p /\ phase' = "run"
                    /\ kern' = [kern EXCEPT !.pq = q1, !.status[p] = "RUNNING"]
    /\ UNCHANGED <<fg_pid, cmd, wtarget, jobs, wstat>>

\* SIGALRM: alarmHandler swaps back to the scheduler, which finishes the
\* loop pass (the status branch, the sleep, stopped and zombie passes,
\* tracker_pos++).
Timer ==
    /\ phase = "run"
    /\ kern' = EndQuantum(kern, current_pcb)
    /\ phase' = "sched" /\ tracker_pos' = tracker_pos + 1
    /\ UNCHANGED <<current_pcb, fg_pid, cmd, wtarget, jobs, wstat>>

\* SIGINT/SIGQUIT (TERM) and SIGTSTP (STOP) from the host terminal:
\* p_kill(fg_pid, sig) when fg_pid > shell_pid, wherever the host thread is.
HostSignal ==
    /\ \E sig \in HostSignals :
           /\ fg_pid > Shell
           /\ kern' = k_process_kill(kern, fg_pid, sig)
    /\ UNCHANGED others

(***************************************************************************)
(* k_system_init, init_scheduler and p_system_init: init (pid 1) sits in  *)
(* blocked_pcbs as READY and never runs; idle (pid 0) is in no queue and  *)
(* no registry; the shell, child of init, is READY in the -1 queue.       *)
(***************************************************************************)
NoProg == [name |-> "none", sig |-> "none", target |-> -1]

Init ==
    /\ kern = [
         status |-> [p \in Pids |-> IF p \in {Idle, InitPid, Shell} THEN "READY" ELSE Unused],
         priority |-> [p \in Pids |-> -1],
         parent_pid |-> [p \in Pids |-> CASE p = Idle -> 0 [] p = Shell -> InitPid [] OTHER -> -1],
         children_pids |-> [p \in Pids |-> IF p = InitPid THEN <<Shell>> ELSE <<>>],
         waitpid_pid |-> [p \in Pids |-> 0],
         waitpid_estatus |-> [p \in Pids |-> Unset],
         e_status |-> [p \in Pids |-> "NOT_EXITED"],
         sleep_counter |-> [p \in Pids |-> -1],
         prog |-> [p \in Pids |-> CASE p = Idle  -> [NoProg EXCEPT !.name = "idle"]
                                    [] p = InitPid -> [NoProg EXCEPT !.name = "init"]
                                    [] p = Shell -> [NoProg EXCEPT !.name = "shell"]
                                    [] OTHER     -> NoProg],
         pc |-> [p \in Pids |-> CASE p = Idle -> "spin" [] p = Shell -> "top" [] OTHER -> "nocontext"],
         pq |-> [r \in Prios |-> IF r = -1 THEN <<Shell>> ELSE <<>>],
         blocked_pcbs |-> <<InitPid>>,
         stopped_pcbs |-> <<>>,
         zombie_pcbs |-> <<>>,
         loop_i |-> [p \in Pids |-> 0],
         pid_counter |-> 3]
    /\ current_pcb = InitPid
    /\ phase = "sched"
    /\ tracker_pos = 0
    /\ fg_pid = 0
    /\ cmd = CHOOSE c \in Commands : TRUE
    /\ wtarget = 0
    /\ jobs = pid_Deque_Allocate
    /\ wstat \in GarbageInts

ProcStep(p) ==
    \/ ExitZombie(p) \/ ExitStatus(p) \/ bash_kill(p) \/ orphanify(p) \/ zombify(p)
    \/ StressSpawn(p) \/ NohangWait(p) \/ HangBlock(p) \/ HangSetTarget(p) \/ HangReap(p)

ShellStep ==
    \/ ShellTop \/ ShellDrain \/ ShellRead
    \/ ShellRun \/ ShellSleep \/ ShellNice \/ ShellNicePid \/ ShellFg \/ ShellFgLast \/ ShellBg
    \/ WaitBlock \/ WaitSetTarget \/ WaitResume

Next ==
    \/ SchedPick
    \/ Timer
    \/ ShellStep
    \/ \E p \in UserPids : ProcStep(p)
    \/ HostSignal

(***************************************************************************)
(* Fairness.  scheduler_main loops without waiting: weak fairness.  The   *)
(* interval timer fires every 100 ms: weak fairness.  Code of a process   *)
(* that is swapped in runs long before its quantum ends, but the timer    *)
(* may pre-empt it at every step, so its steps get strong fairness; so do *)
(* the shell's, once a command is read.  The user at the prompt           *)
(* (ShellRead) and the host terminal get none.                            *)
(***************************************************************************)
Fairness ==
    /\ WF_vars(SchedPick)
    /\ WF_vars(Timer)
    /\ \A p \in UserPids : SF_vars(ProcStep(p))
    /\ SF_vars(ShellTop \/ ShellDrain \/ ShellRun \/ ShellSleep \/ ShellNice \/ ShellNicePid
               \/ ShellFg \/ ShellFgLast \/ ShellBg \/ WaitBlock \/ WaitSetTarget \/ WaitResume)

Spec == Init /\ [][Next]_vars /\ Fairness

(***************************************************************************)
(* Properties.                                                            *)
(***************************************************************************)
Queues == {pq[-1], pq[0], pq[1], blocked_pcbs, stopped_pcbs, zombie_pcbs}
ProgRecs == [name : {"none", "idle", "init", "shell", "busy", "echo", "kill",
                     "orphanify", "orphan_child", "zombify", "zombie_child",
                     "nohang", "hang", "nap", "sleep"},
             sig : Signals \cup {"none"}, target : Pids \cup {-1}]

\* Every variable holds a value of its type.
TypeOK ==
    /\ status \in [Pids -> Statuses \cup {Unused}]
    /\ priority \in [Pids -> Prios]
    /\ parent_pid \in [Pids -> Pids \cup {-1}]
    /\ \A p \in Pids : children_pids[p] \in Seq(Pids)
    /\ waitpid_pid \in [Pids -> Pids \cup {-1}]
    /\ waitpid_estatus \in [Pids -> ExitStatuses \cup {Unset}]
    /\ e_status \in [Pids -> ExitStatuses]
    /\ sleep_counter \in [Pids -> Int]
    /\ prog \in [Pids -> ProgRecs]
    /\ \A q \in Queues : q \in Seq(Pids)
    /\ pid_counter \in 3 .. MaxPid + 1
    /\ loop_i \in [Pids -> 0 .. NapCount]
    /\ current_pcb \in Pids /\ phase \in {"sched", "run"}
    /\ tracker_pos \in 0 .. 19
    /\ fg_pid \in Pids \cup {-1} /\ cmd \in Commands /\ wtarget \in Pids
    /\ jobs \in Seq(Pids) /\ wstat \in GarbageInts

Created(p) == status[p] # Unused
Queued(q, p) == p \in ToSet(q)

\* Queue discipline the scheduler comment states ("every pcb in a queue is
\* valid"), in the form the scheduler relies on: the shell or a user
\* process that is READY and not on the CPU can be found by the scheduler,
\* in the ready queue of its own priority or in stopped_pcbs, from which
\* the stopped pass re-enqueues it.  A READY PCB in no such queue never
\* runs again.
NoLostProcess ==
    \A p \in {Shell} \cup UserPids :
        (status[p] = "READY" /\ ~Running(p))
            => Queued(pq[priority[p]], p) \/ Queued(stopped_pcbs, p)

\* Reaping keeps the process tree consistent (k_process_create,
\* k_process_cleanup): a live process lists exactly its live children,
\* and every child of a reaped process has been handed to init.
ParentLinks ==
    /\ \A p \in Pids : Created(p) =>
          \A c \in ToSet(children_pids[p]) :
              IF status[p] = "TERMINATED" THEN parent_pid[c] = InitPid
              ELSE parent_pid[c] = p /\ status[c] # "TERMINATED"
    /\ \A c \in UserPids :
          (Created(c) /\ status[c] # "TERMINATED" /\ parent_pid[c] # InitPid)
              => Queued(children_pids[parent_pid[c]], c)

\* The job list keeps every job that is still running (main.c: "deque of
\* currently running or stopped processes ... not including the shell"):
\* a child of the shell that is READY, RUNNING or BLOCKED is listed in
\* curr_shell_pids, unless it is the job fg has taken out of the list and
\* is waiting on.  Launch, the drains, the post-wait updates and fg all
\* edit the list, each from a status the code stored at another time.
JobsTracked ==
    \A p \in UserPids :
        /\ parent_pid[p] = Shell
        /\ status[p] \in {"READY", "RUNNING", "BLOCKED"}
        /\ ~(cmd.op = "fg" /\ p = wtarget /\ pc[Shell] \in {"wblock", "wset", "wspin"})
        => p \in ToSet(jobs)

\* The shell's blocking p_waitpid returns only after the child it waits on
\* has changed state: it is a ZOMBIE or STOPPED when the spin ends
\* (waitpid_checks wakes the parent only for such a child).
FgWaitReturnsOnChange ==
    [][pc[Shell] = "wspin" /\ pc'[Shell] = "top"
          => status[wtarget] \in {"ZOMBIE", "STOPPED"}]_vars

\* Rendezvous (spec 8.9, scenario S3): when the shell's blocking p_waitpid
\* returns and the child it waited on has exited (ZOMBIE), the wait has
\* reaped it: the wakeup handed over a terminal exit status.
WaitReapsExited ==
    [][pc[Shell] = "wspin" /\ pc'[Shell] = "top" /\ status[wtarget] = "ZOMBIE"
          => status'[wtarget] = "TERMINATED"]_vars

\* Rendezvous (spec 8.9): once the shell has entered its blocking
\* p_waitpid on a child and that child has exited, the wait completes and
\* the shell is back at the top of its loop.
FgWaitCompletes ==
    (pc[Shell] \in {"wset", "wspin"} /\ status[wtarget] = "ZOMBIE") ~> (pc[Shell] = "top")

\* The shell's drain loop (main.c, p_waitpid(-1, &status, true) until it
\* returns 0 or -1) ends: after reporting its finished or stopped jobs the
\* shell prints the prompt and reads a line.
ShellReachesPrompt == (pc[Shell] = "drain1") ~> (pc[Shell] = "read")

\* A reaped PCB stays reaped: no kill, fg, bg, sleep tick or scheduler
\* pass brings a TERMINATED process back.
TerminatedIsFinal ==
    [][\A p \in Pids : status[p] = "TERMINATED" => status'[p] = "TERMINATED"]_vars

\* The CPU never stays with the scheduler: however the queues stand,
\* scheduler_main's skip loop (empty queue, stale or re-prioritised node)
\* ends in a dispatch, of the idle PCB if nothing else.
DispatchProgress == []<>(phase = "run")

\* No starvation under the 19-slot table: a user process waiting READY in
\* the queue of its priority is eventually dispatched (or stopped or
\* killed first).
ReadyRuns ==
    \A p \in UserPids :
        (status[p] = "READY" /\ Queued(pq[priority[p]], p)) ~> (status[p] # "READY")

=============================================================================
