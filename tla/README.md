# PennOS process, scheduler and file-system model

TLA+ models of PennOS (`src/src/`), checked with TLC.

## The system

PennOS runs on a single host thread.
- `scheduler_main` (scheduler.c) is a loop. It picks the next PCB from three ready deques (priorities -1, 0, 1) using a 19-slot `priority_tracker` table, then `swapcontext`s into it.
- A SIGALRM every quantum (`alarmHandler`) swaps back to the scheduler.
- After a slice, the scheduler:
  - requeues a still-RUNNING process;
  - reports a ZOMBIE or STOPPED process to a waiting parent (`waitpid_checks`) and moves it to `zombie_pcbs` or `stopped_pcbs`;
  - ticks the sleepers in `blocked_pcbs` (`schedule_sleep_process`);
  - moves continued processes out of `stopped_pcbs`;
  - gives every zombie another `waitpid_checks`.

The kernel calls live in k_pennos.c: `k_process_create`, `k_process_kill`, `k_process_cleanup`. The user calls live in p_pennos.c: `p_spawn`, `p_waitpid`, `p_kill`, `p_exit`, `p_nice`, `p_sleep`, `p_fg`, `p_bg`. The shell (`shell()` in main.c) loops like this:
1. set `fg_pid` to itself;
2. drain finished jobs with non-blocking `p_waitpid(-1)`;
3. read a line;
4. drain again;
5. spawn a program or run a built-in;
6. for a foreground job, block in `p_waitpid(pid)`.

The host terminal's SIGINT, SIGQUIT and SIGTSTP handlers call `p_kill(fg_pid, ...)` wherever the host thread happens to be. The file system sits beside all this:
- pennfat.c keeps a FAT, mapped in memory, and a root directory whose blocks are the chain from block 1. `touch`, `rm`, `mv`, `cp` and `chmod` each change the image.
- f_pennos.c puts a global descriptor table (`fd_table`, `MAX_OPEN_FILES` entries with a ref_count) over it. Each PCB has an `open_fds` array of indices into that table.
- For a redirection, the shell `f_open`s the file in its own array. `k_process_create` copies that array into the child, `p_spawn_cmd` puts the chosen slots at 0 and 1, `echo` writes through slot 1, and `p_exit` `f_close`s slots 2 and up.
- The file commands run as jobs too (`bash_rm`, `bash_mv`, ...).

## Modules

- **Deque.tla** models Deque.c. A PCB deque is the sequence of pids its nodes hold, with duplicates kept, because a node holds a pointer and nothing prevents two nodes for one PCB. Each deque function is one operator.
- **PidDeque.tla** models Deque_PID.c, the shell's job list `curr_shell_pids`, in the same way: a sequence of pids, with one operator per function the shell uses. `pid_Deque_Pop_PID` pops through `pid_Deque_Pop_Node`, which pops from the front, pops from the back, or unlinks.
- **Scheduler.tla** models the process part of the system. Its state:
  - `kern` is one record with a function over pids for each PCB field of pcb.h (`status`, `priority`, `parent_pid`, `children_pids`, `waitpid_pid`, `waitpid_estatus`, `e_status`, `sleep_counter`), plus the program (`prog`), the code position (`pc`), the ready queues `pq`, `blocked_pcbs`, `stopped_pcbs`, `zombie_pcbs` and `pid_counter`.
  - Kernel calls are operators from record to record, composed the way the C calls each other. For example, `k_process_kill` calls `schedule_sleep_process` and then `waitpid_checks`.
  - `current_pcb`, `phase` ("sched" or "run") and `tracker_pos` are the scheduler's globals.
  - `fg_pid`, `cmd` and `wtarget` are the shell's globals and locals.
  - `jobs` is `curr_shell_pids`.
  - `wstat` is the loop's `int status`, which every `p_waitpid` call gets a pointer to. It holds the int the code stores: the `exit_status` enum value (`StatusCode`).
    - Before anything is stored it is uninitialised. It is then any of `GarbageInts`: one value for each way the PennOS macros (`W_WIFEXITED`, ...) and the host's `<sys/wait.h>` macros classify an int.
    - The drain tests the host macros (`DrainJobs`) on a `status` that `p_waitpid(-1, &status, true)` never stores.

  Actions:
  - `SchedPick` is one pass of the scheduler loop up to `swapcontext`: empty queue, non-READY PCB, priority mismatch, idle push, or dispatch.
  - `Timer` is SIGALRM followed by the whole rest of the loop pass (`EndQuantum`).
  - `HostSignal` is a terminal signal.
  - Each process step is the code between two points where the timer can be noticed.
  - `exit_context`/`p_exit` is split into `ExitZombie` and `ExitStatus` (two stores).
  - `p_waitpid`'s blocking path is split into `WaitBlock`, `WaitSetTarget` and `WaitResume` (status = BLOCKED; waitpid_pid = pid; the spin and the reap).
  - Every other call runs as one step: one C statement sequence with no user-visible intermediate state.
  - bash.c programs are modelled as child programs: `busy` and `orphan_child` spin, `echo` exits at once, `kill` calls `p_kill` then exits, `orphanify` spawns a child then exits, and `zombify` spawns `zombie_child` (which exits at once) and then spins without ever waiting, so the child stays a ZOMBIE.
  - stress.c's `hang` and `nohang` are modelled as programs too. `StressSpawn` is `spawn`'s loop: it p_spawns `NapCount` nappers (10 in the code, 1 in the runs), each of which exits at once; the loop counter is the kern field `loop_i`. Then `nohang` polls with `p_waitpid(-1, NULL, true)` (`NohangWait`, the shell drain's `p_waitpid_nohang_any`) until no child is left. `hang` blocks in `p_waitpid(-1, NULL, false)`: `HangBlock` (status = BLOCKED), `HangSetTarget` (waitpid_pid = -1), and `HangReap`, which cleans up the pid `waitpid_checks` stored there.

  The shell's commands:
  - a program run (`ShellRun`);
  - `sleep` (`ShellSleep`). Sleep is counted in quanta: the code's `n*CLOCKS_PER_SEC` ticks are `10n` quanta. Sleeps of 1 and 2 quanta already exercise every ordering of "the sleep ends" against the other steps;
  - `nice` with a program (`ShellNice`): `p_spawn`, then `p_nice` on the new pid, then a background return or a foreground wait, like a run, except that the pid is never pushed onto the job list. `p_nice` changes nothing for a pid with no PCB, and `set_priority` moves a READY process to its new queue;
  - `nice_pid` (`ShellNicePid`), `fg pid` and `bg pid`;
  - `fg` without a pid (`ShellFgLast`). `FgWalk` walks the job list from the back and polls each job with `NohangPoll`. An exited job is popped, a stopped one is continued, and the first that has not exited is taken. When none is left, `p_fg(-1)` falls back on `get_last_stopped_pcb`. `bg` without a pid takes `get_last_stopped_pcb` directly;
  - the job-list edits: a launch pushes the new pid, a drain report pops it or moves it to the back, and the post-wait update (`AfterWait`) pops an exited run/sleep job or pushes back an fg job that did not exit;
  - the two drain loops and the foreground wait.

- **MC_Scheduler.tla** instantiates Scheduler for TLC:
  - the command sets each run offers the user;
  - `MaxQueue` and the state constraint `QueueBound`, which caps every deque except the `init` node of `blocked_pcbs`.

- **PennFAT.tla** models pennfat.c as operators over one image record `[fat, dir, faults]`, with no variables.
  - `fat` is the FAT: 0 for free, 0xFFFF for the end of a chain, else the next block. `fat[0]` holds mkfs's metadata word.
  - `dir[b]` holds the directory entries that block b reads as (name, size, firstBlock, perm).
  - File data is abstracted to its length. A block written with data reads back as entries named `"?"`.
  - `faults` records the undefined stores a command made: a FAT index outside the FAT, a chain walk that never ends, a write that nothing records, or a read of an uninitialised entry.
  - Each command is the whole C function: `find_file`, `find_open_fat`, `find_new_fat`, `touch_single`, `touch`, `rm`, `mv`, `chmod`, `cp_fs` (cp inside the image) and `cp_host` (`cp -h`). Their loops are RECURSIVE operators (`FreeChain`, `CpLoop`, `HostLoop`).
  - The predicates over an image are `FatConsistentAt`, `NamesUniqueAt`, `SizeFitsChainAt` and `ImageOK`. FatFS and FileDesc state their properties with them.
- **FatFS.tla** is the file commands on their own: the image `fs`, the command line the shell parsed last (`line`, as `[cmd, args]`), and one action per command (`Touch`, `Rm`, `Mv`, `CpFs`, `CpHost`, `Chmod`), as the foreground shell runs them one after another.
- **FileStore.tla** is the abstract file store that spec section 4.5 describes, with blocks and the directory left out: `files` maps each name to `[size, perm]`, or to `Absent`, and `op` is the command line the last step carried out. Each command has exactly one outcome, fixed by the store before the step (`f`) and the arguments; `Step(f, g, c)` relates it to the store after (`g`):
  - `Create` (touch): the missing names become empty rw- files, and the other names keep their size and perm;
  - `Remove` (rm);
  - `Rename` (mv): the source's file under the new name, the destination's old file gone, and no change when the source is missing or the two names are the same;
  - `Copy` (cp): the destination made fresh, then given the source's size as it is now (0 when both are one file), and no change when the source is missing;
  - `Import` (cp -h): the destination becomes a rw- file of the host file's length, and no change when the host file cannot be opened (-1);
  - `Chmod`: the mode computed over bit sets (+ is union, - is difference, = keeps the last letter's bit, as the spec's "ASSIGN per letter" says). An unknown letter, a missing file, or a result of --x or -wx leaves the store unchanged.
- **FatFS.tla** also holds the refinement mapping `AbsOf`. It reads each name through `find_file` and takes that entry's size and perm. `Store == INSTANCE FileStore WITH files <- AbsFiles, op <- line`.
  - `FileStoreRefined` is `Store!Spec`, except that the mapping is applied to `fs` and `fs'` separately (`Store!Step(AbsOf(fs), AbsOf(fs'), line')`). Because every abstract command is deterministic, a concrete command has to produce exactly the promised store: a touch that truncated an existing file, a cp of the wrong size, or a chmod with the wrong bits all break it.
  - Priming the instance's `files` would make TLC evaluate a primed expression that goes through `find_file`, and that is far slower.
- **FileDesc.tla** composes PennFAT with f_pennos.c and the shell's redirections. Its variables:
  - `disk`, the image;
  - `fd_table`;
  - `open_fds`, for the shell and each job;
  - `run`, each job's remaining calls;
  - `buf`, what a job's `f_read` returned;
  - `live` and `launches`.

  Its operators:
  - f_open is `f_open` (the lookups), then `OpenFrom` (truncation or creation), then `OpenEntry` (refusals, the table, `add_fd_to_pcb`).
  - `f_close`, `f_read` (with `ReadFile`/`RLoop`) and `f_write` (with `WriteFile`/`SeekBlock`/`WLoop`) each model their whole C function.

  Its actions:
  - `Launch`: the shell reads a line, opens `<` then `>`/`>>` (`OpenIn`, `OpenOut`), and spawns the job with `SpawnSlots`;
  - `EchoWrite` and `EchoRead`: echo's `f_write` and `f_read`;
  - `FsCommand`: rm, mv or chmod as a job;
  - `Exit`: `p_exit`'s close loop, then the reap.

  Each f_ call is one step, and any live job may take its next one. With `Background = FALSE` the shell waits for each job, so jobs run one at a time.

  `f_open` may return -1 and `p_spawn_cmd` then reads `open_fds[-1]`. In pcb.h's layout that is the new PCB's `num_children`, 0, so the child gets index 0 (STDIN).
- **MC_FatFS.tla** and **MC_FileDesc.tla** give the constants: cp -h sizes, mv pairs, chmod modes, and the command lines (echo with a word of n bytes, echo `< a > b`, rm, mv, chmod -w).

PROJECT.json's `map` gives the source lines of every definition.

## Runs

| run | result | what it shows |
|---|---|---|
| jobs | pass | See the list below. |
| control | pass | Commands include `nice -1 busy &`, `nice 0 orphanify`, `nice_pid` and `fg` without a pid. Through every priority change, a READY process stays in the queue of its priority (`NoLostProcess`). Under the fairness below, the scheduler dispatches infinitely often (`DispatchProgress`), and a READY process that has a node in its queue eventually runs (`ReadyRuns`). |
| cont_zombie | violation | `kill -cont` of an exited job makes it READY in no queue (k_pennos.c:152). It is never run and never reaped. |
| fg_resurrect | violation | `bg` of a pid that was already reaped turns a TERMINATED PCB back into READY (p_pennos.c:397). |
| sleep_cont_wake | violation | `kill -cont` of a foreground `sleep` wakes the shell's wait early: `waitpid_checks` tests `status != READY`, but a continued sleeper is BLOCKED (scheduler.c:233). |
| exit_race | violation | A timer between `status = ZOMBIE` and `e_status = EXIT_NORMAL` hands the waiting shell NOT_EXITED, so it does not reap (p_pennos.c:30). |
| lost_wakeup | violation | A timer between `status = BLOCKED` and `waitpid_pid = pid` leaves the shell blocked forever (p_pennos.c:254). |
| fat | pass | Any sequence of touch, rm, mv onto another name, cp (also onto itself), cp -h and chmod keeps the FAT and directory consistent (`FatConsistent`: chains well formed and disjoint, a block used exactly when some chain holds it), names unique (`NamesUnique`) and sizes matched to chains (`SizeFitsChain`). Every command's step is FileStore's step for that command line (`FileStoreRefined`). |
| fds | pass | Foreground echo jobs with `>`, `>>` and `<`, plus file-command jobs, keep the image consistent (`DiskConsistent`, `DiskSizes`). This holds also after the shell's array fills and f_open fails. Words are 1 or 2 bytes. A job's own writes are the only writes to a file it holds open: its exit zeroes the entries it shares with the shell, and once the array is full no job gets a FILE slot. So the run cannot reach a stale cached entry (f_pennos.c:484). |
| fwrite_chain | violation | A 3-byte echo into a new file: f_write never advances `prev_fat_value`, so the second block is marked EOC but never linked (f_pennos.c:454). |
| sibling_close | violation | Two background jobs: the second inherits the shell's slot for the first one's `> a` without a ref_count, and its `p_exit` zeroes the first one's output entry (p_pennos.c:290). |
| drain_livelock | violation | A background job stopped by `kill -stop` is reported by every nohang poll, so the shell never gets back to the prompt (main.c:513). |

The jobs run covers foreground and background `busy`, `echo` and `sleep` jobs, background `kill -term`/`-stop`, a background `zombify`, `hang` and `nohang`, and a host SIGINT/SIGTSTP. It checks:
- `TypeOK`;
- `JobsTracked`: a child of the shell that is READY, RUNNING or BLOCKED is in the job list, unless it is the job that `fg` took out of the list and is waiting on;
- `NoLostProcess`: every READY process other than init sits in a ready queue, or is the one running;
- `ParentLinks`: children lists and parent pointers agree, and no reaped pid is still listed;
- `FgWaitReturnsOnChange`: the shell's blocking wait returns only when its target exited, was signalled or stopped.

Each property of a passing run has a mutant in PROJECT.json. Each mutant is a plausible code slip, and TLC finds it violates the property: a wakeup without enqueueing, wakeups for any child, cleanup that leaves the child listed, a copied status, no idle push, a launch that lists only foreground jobs, a `p_nice` that writes the priority without moving the queue node, or a table without +1 slots. The file-system mutants are rm that keeps the chain, mv that does not remove the destination, chmod's `-` as a subtraction, cp counting the last block late, chmod that stores --x/-wx (breaks the refinement), f_write that never links a new block, or sets the size to the bytes written, and f_read that advances by the count asked for.

## Bounds

- **MaxPid.** MaxPid = 4 allows two user processes besides init and the shell. That covers a job plus the `kill` that signals it, a job plus an `orphanify` or `zombify` child, or a stress program plus one napper (`NapCount = 1`). With one napper, `nohang`'s poll and `hang`'s wait go through every outcome: child still running, exited, reaped, none left. MaxPid = 3 is enough for the single-job races.
- **MaxQueue.** Every deque holds at most MaxQueue nodes (2, or 3 for sleep_cont_wake). Duplicate nodes do arise, so the bound cuts some behaviours.
- **FatFS.** NumEntries = 8 (7 data blocks), one directory entry per block, blocks of 2 bytes, names a and b, cp -h of 1 or 3 bytes or of a missing file.
  - A 3-byte file needs two blocks, so every loop runs both its "next block" and its "last block" arm.
  - The root directory grows to a second block, so touch_single's `find_new_fat` path is taken.
  - The FAT never fills, which is what the run's "while the FAT has room" means.
- **FileDesc.** The image is as in FatFS, with MaxOpen = 4 (two slots besides STDIN and STDOUT) and 6 command lines.
  - The shell leaks a slot per redirection, so its array fills within the six lines, and the f_open failure paths and the `open_fds[-1]` read occur.
  - Words of 1 and 2 bytes fill a block exactly and cross into a second block through a later write.
  - Words longer than a block in one write are the fwrite_chain run.
  - The background run has two jobs and two lines, the fewest that show the sibling close.
- **Init's node.** Init's permanent node in `blocked_pcbs` is not counted.
- **The constraint and liveness.** TLC checks liveness on the constrained graph. A behaviour cut off by the constraint is not examined, so the liveness results hold for behaviours whose deques stay within the bound.

## Fairness

- **Weak fairness for `SchedPick` and `Timer`.** `scheduler_main` never waits, and the interval timer always fires.
- **Strong fairness for the code of a dispatched process, and for the shell's code after a command is read.** It runs long before its quantum ends, yet the timer may pre-empt it at any step, so it is enabled only intermittently.
- **No fairness for reading a command (`ShellRead`) or for host signals.** The user may stop typing.
- **What the user types is not restricted by fairness.** This bears on `ReadyRuns`. `set_priority` takes a READY process out of its queue and pushes it at the back, even when the priority does not change. A user who repeats `nice_pid` on a process that shares its queue with another one therefore keeps it from running. The control run starts `orphanify` at priority 0, so nothing shares queue 1 with the process `nice_pid 3 1` moves there.

The file-system runs check safety only and assume no fairness.

## Not modelled

- **cp to the host, ls, cat and the `cat` functions.** They move or print file bytes, which the model abstracts to lengths.
  - The cat functions (pennfat.c 715–1532) write `block_size - 1` bytes per block, padded with NULs, and join blocks with `strcat`. What lands in the image depends on byte contents, so the length abstraction cannot say it.
  - They also leave the FAT and directory in states the other commands never produce. cat_f_w over an existing file keeps the old size (line 833), and each write links one extra block (line 870). They would break `SizeFitsChain`, and spec 4.5 puts them out of scope.
  - PROJECT.json lists these as hazards with no property.
- **mkfs, mount and umount as commands.** In PennOS's command table they are a no-op; the image is made and mounted once at start-up (`Fresh`, `Mounted`).
- **f_lseek and f_unlink.** Nothing in PennOS calls them.
- **Jobs that mix file writes with the process model's scheduling.** FileDesc lets any live job take its next f_ call, which covers every order the timer can produce between calls, but an f_ call is not interrupted inside. Scheduler and FileDesc are separate modules.
- **A full FAT.** This covers find_new_fat's unbounded scan, cp's fat[0xFFFF] and f_write's fat[-1]. The operators record these stores as faults, but no run fills the FAT.
- **`jobs`, `man`, history, parsing and script mode.** They only produce output.
- **The stopped jobs the drain drops from the job list.** The drain pops a job whenever the host macros read the never-stored `status` as exited or signalled, and every enum value reads that way. So a stopped job leaves the list.
  - `JobsTracked` therefore covers only jobs that still run.
  - No run states the stopped case. Every drain that reports a stopped job enters the loop that the drain_livelock run shows, so the shell never acts on the list again.
- **`fg` alone resuming a process that is not a job.** With no live job, `p_fg(-1)` takes the last stopped PCB of the whole system. After `orphanify` and a `kill -stop` of its child, that is the grandchild, which `fg` continues and then fails to wait on.
  - A configuration with those three commands shows it, but no run keeps it. The jobs run, which stops processes, does not spawn `orphanify`, which keeps that run within its bounds.
  - PROJECT.json lists it as a hazard.
- **`bg` without a pid.** It is in the model (`ShellBg`), but no run types it.
- **The job list and `nice` with a program.** The nice branch (main.c:664–700) never pushes its pid onto `curr_shell_pids`, so a nice job is invisible to `fg`, `bg` and the job list.
  - `JobsTracked` fails on the first such job (nine steps after `nice busy &`).
  - The jobs run leaves nice out, so that `JobsTracked` still checks the other branches, and the control run, which has nice, does not check `JobsTracked`.
  - PROJECT.json lists it as a hazard (main.c:681).
- **Priorities outside -1..1.** `nice` and `nice_pid` take any int from atoi. The model's commands use -1, 0 and 1. Any other value makes `get_pq_from_priority` return NULL, and the host crashes (see below).
- **stress.c: `recur`.** Each of its 26 generations p_spawns the next and block-waits on it, and the counter is a `static` shared by every process. One pid per generation is beyond the runs' bounds. `hang` and `nohang` are modelled.
- **`hang` ended by a signal.** A ^Z or ^C to a foreground `hang`, or `fg`, `bg` or `kill -cont` of a blocked one, ends its spin with `waitpid_pid` = -1. `k_process_cleanup(get_pcb_from_pid(-1))` then dereferences NULL.
  - With a foreground `hang` and host SIGTSTP, the crash is reached in 15 steps (spawn, block, `waitpid_pid` set to -1, ^Z).
  - The jobs run starts `hang` only in the background. There, only `waitpid_checks` ends the spin, and it always stores the child's pid first, so no property there can see the crash. No run keeps the violation. PROJECT.json lists it as a hazard (p_pennos.c:211).
- **`hang` reaping a stopped napper.** `waitpid_checks` also wakes a -1 waiter for a STOPPED child, and `hang` reaps it. This needs a third user pid for the `kill -stop`. PROJECT.json lists it as a hazard (p_pennos.c:213).
- **Interruption inside a kernel call or inside a Deque operation.** Kernel calls and host signals are atomic. Only the stores that `p_waitpid` and `exit_context` make in user code are split.
- **Undefined behaviour that crashes the host.** This includes NULL PCBs and invalid priorities.

## Plan

- A FileDesc refinement of FileStore. It needs an abstract store that ties truncation to an open for writing; otherwise the refinement is too weak to catch a slip in f_open.

- A module for the scheduling ratio of spec section 8.7.
- A linked-list refinement of Deque (abstract sequence, detailed nodes).
- A sleep-0 run for the `sleep 0` hang.
- A background FileDesc run with a file command beside a writer (rm or mv of an open file, the f_write write-back).
- A run whose FAT fills.
