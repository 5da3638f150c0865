------------------------------- MODULE FileDesc -------------------------------
(***************************************************************************)
(* The descriptor layer of PennOS (f_pennos.c) over the PennFAT image,    *)
(* with the shell's redirections and the jobs that use them.              *)
(*                                                                         *)
(* fd_table is the global table of open files; each process has its own   *)
(* open_fds array of indices into it.  The shell opens a redirection with *)
(* f_open (the slot lands in the shell's own array), p_spawn / p_spawn_cmd *)
(* copy the shell's array into the child (k_process_create) and put the  *)
(* two chosen slots at 0 and 1; echo writes through slot 1 (bash_echo),   *)
(* and p_exit closes slots 2 .. MAX_OPEN_FILES-1.  The file commands run  *)
(* as jobs too (bash_rm, bash_mv, bash_chmod).                            *)
(*                                                                         *)
(* Any live job may take its next step: the scheduler may switch between  *)
(* them at any clock tick.  One f_ call is one step.                      *)
(***************************************************************************)
EXTENDS PennFAT

CONSTANTS
    MaxOpen,      \* MAX_OPEN_FILES: size of fd_table and of each open_fds
    Jobs,         \* pids the shell's children may have
    Cmds,         \* command lines: [ops, in, out]
    TermReads,    \* byte counts a read of the terminal may return
    Background,   \* whether the shell may start a job without waiting
    MaxLaunches   \* how many command lines the shell reads

ASSUME MaxOpen >= 3

VARIABLES
    disk,        \* the mounted PennFAT image
    fd_table,    \* the global table
    open_fds,    \* per process ("sh" and Jobs): slot -> index or -1
    run,         \* a live job's remaining calls
    buf,         \* bytes a job's f_read returned
    live,        \* jobs spawned and not yet exited
    launches     \* command lines read so far

vars == <<disk, fd_table, open_fds, run, buf, live, launches>>

Idx == 0 .. MaxOpen - 1
Procs == {"sh"} \cup Jobs
F_WRITE == 1
F_READ == 2
F_APPEND == 3
LineMax == 4096                       \* MAX_LINE_LENGTH, echo's read size

Fd(t, m, e, o, r) == [type |-> t, mode |-> m, ent |-> e, off |-> o, ref |-> r]
Uninit == Fd("UNINIT", 0, Empty, 0, 0)      \* a memset entry
NoSlots == [k \in Idx |-> -1]

\* f_mount: the table zeroed, then STDIN at 0 and STDOUT at 1.
Mounted == [i \in Idx |-> CASE i = 0 -> Fd("STDIN", F_READ, Empty, 0, 0)
                            [] i = 1 -> Fd("STDOUT", F_WRITE, Empty, 0, 0)
                            [] OTHER -> Uninit]

\* k_system_init: init's array is 0, 1 and then -1; the shell copies it.
ShellSlots == [k \in Idx |-> IF k < 2 THEN k ELSE -1]

Lowest(S) == IF S = {} THEN -1 ELSE CHOOSE i \in S : \A k \in S : i <= k

find_global_open_fd(t) == Lowest({i \in Idx : t[i].type = "UNINIT"})

\* find_fat: the same scan as find_open_fat.
find_fat(st) == find_open_fat(st)

\* The result of a call: image, table, the caller's array, return value.
Res(d, t, sl, r) == [d |-> d, t |-> t, sl |-> sl, ret |-> r]

\* add_fd_to_pcb: the lowest free slot of the caller gets index g.
add_fd_to_pcb(d, t, sl, g) ==
    LET k == Lowest({i \in Idx : sl[i] = -1})
    IN  IF k = -1 THEN Res(d, t, sl, -1) ELSE Res(d, t, [sl EXCEPT ![k] = g], k)

\* The entry find_file filled in, or an uninitialised local.
FoundAt(d, p) ==
    IF p = NotFound THEN [e |-> Empty, d |-> [d EXCEPT !.faults = @ \cup {"uninit"}]]
    ELSE [e |-> EntryAt(d, p), d |-> d]

Found(d, name) == FoundAt(d, find_file(d, name))

\* f_open, once the call has its entry got (and the image got.d), given
\* where find_file found the name on the image it started from (pos), the
\* table entry already open by that name (here) and the lowest unused
\* index (free).  All refusals come before the image changes; then the
\* entry is added to the table (or shared: ref_count + 1) and to the
\* caller's array.
OpenEntry(d, t, sl, mode, pos, here, free, got) ==
    LET denied ==
            \/ mode = F_READ /\ pos = NotFound
            \/ here = -1 /\ mode = F_READ /\ (free = -1 \/ got.e.perm & 4 = 0)
            \/ here = -1 /\ mode # F_READ /\ pos # NotFound /\ EntryAt(d, pos).perm & 2 = 0
            \/ here # -1 /\ t[here].ent.perm & (IF mode = F_READ THEN 4 ELSE 2) = 0
            \/ here # -1 /\ mode = F_WRITE /\ t[here].mode = F_WRITE
        t1 == IF here = -1
              THEN [t EXCEPT ![free] = Fd("FILE", mode, got.e, IF mode = F_APPEND THEN got.e.size ELSE 0, 1)]
              ELSE CASE mode = F_READ  -> [t EXCEPT ![here].ref = @ + 1]
                     [] mode = F_WRITE -> [t EXCEPT ![here].ent = got.e, ![here].mode = F_WRITE,
                                                    ![here].ref = @ + 1]
                     [] OTHER -> [t EXCEPT ![here].mode = F_APPEND, ![here].off = got.e.size,
                                           ![here].ref = @ + 1]
    IN  CASE denied -> Res(d, t, sl, -1)
          [] here = -1 /\ free = -1 -> Res(got.d, t, sl, -1)
          [] OTHER -> add_fd_to_pcb(got.d, t1, sl, IF here = -1 THEN free ELSE here)

\* f_open after its lookups: F_WRITE truncates (rm, then touch_single) or
\* creates; F_APPEND creates a missing file unless it is already in the
\* table; F_READ leaves the image alone.
OpenFrom(d, t, sl, name, mode, pos, here, free) ==
    LET keep == mode = F_READ \/ (mode = F_APPEND /\ (pos # NotFound \/ here # -1))
        made == IF keep THEN d
                ELSE touch_single(IF mode = F_WRITE /\ pos # NotFound THEN rm(d, name) ELSE d, name)
    IN  OpenEntry(d, t, sl, mode, pos, here, free, Found(made, name))

\* f_open: the file is looked up on disk and, by name, in fd_table.
f_open(d, t, sl, name, mode) ==
    OpenFrom(d, t, sl, name, mode, find_file(d, name),
             Lowest({i \in Idx : t[i].ent.name = name}), find_global_open_fd(t))

\* A slot the f_ calls accept (fd > MAX_OPEN_FILES, open_fds[fd] == -1).
BadSlot(sl, fd) == fd \notin Idx \/ sl[fd] = -1

\* f_close: a FILE entry loses a reference and is zeroed at none; the
\* caller's slot is freed.
f_close(t, sl, fd) ==
    LET g == sl[fd]
    IN  IF BadSlot(sl, fd) THEN [t |-> t, sl |-> sl]
        ELSE [t  |-> IF t[g].type # "FILE" THEN t
                     ELSE IF t[g].ref = 1 THEN [t EXCEPT ![g] = Uninit]
                     ELSE [t EXCEPT ![g].ref = @ - 1],
              sl |-> [sl EXCEPT ![fd] = -1]]

\* p_exit's loop: f_close(i) for i = 2 .. MAX_OPEN_FILES-1 whose slot
\* holds an index in [2, MAX_OPEN_FILES).
ExitClose(t, sl) ==
    FoldLeft(LAMBDA acc, i : IF acc.sl[i] \in 2 .. MaxOpen - 1 THEN f_close(acc.t, acc.sl, i) ELSE acc,
             [t |-> t, sl |-> sl], [k \in 1 .. MaxOpen - 2 |-> k + 1])

\* The walk f_read and f_write start with: while the offset is past the
\* block size and the chain goes on, follow it.
RECURSIVE SeekBlock(_, _, _)
SeekBlock(st, fv, a) ==
    IF a > BlockSize /\ fv # EOC THEN SeekBlock(st, NextOf(st, fv), a - BlockSize) ELSE <<fv, a>>

\* Mutant: a newly found block is never linked after the previous one.
RECURSIVE WLoop_nolink(_, _, _, _, _, _)
WLoop_nolink(st, left, fv, prev, a, written) ==
    LET btw == IF a + left > BlockSize THEN BlockSize - a ELSE left
        o   == find_fat(st)
        nf  == IF fv = EOC THEN o ELSE fv
        st2 == DataWrite(IF fv = EOC THEN SetFat(st, o, EOC) ELSE st, nf, btw)
    IN  CASE left <= 0 -> [st |-> st, written |-> written]
          [] fv = EOC /\ o = -1 -> [st |-> st, written |-> written]
          [] btw < 0 -> [st |-> st, written |-> -1]
          [] OTHER -> WLoop_nolink(st2, left - btw, NextOf(st2, nf), prev, 0, written + btw)

\* f_write's block loop: left bytes still to write at offset a of block
\* fv; a missing block is found with find_fat and linked after prev, which
\* the loop never advances.  No free block ends the loop.
RECURSIVE WLoop(_, _, _, _, _, _)
WLoop(st, left, fv, prev, a, written) ==
    LET btw == IF a + left > BlockSize THEN BlockSize - a ELSE left
        o   == find_fat(st)
        nf  == IF fv = EOC THEN o ELSE fv
        st1 == IF fv = EOC THEN SetFat(IF prev # EOC THEN SetFat(st, prev, o) ELSE st, o, EOC) ELSE st
        st2 == DataWrite(st1, nf, btw)
    IN  CASE left <= 0 -> [st |-> st, written |-> written]
          [] fv = EOC /\ o = -1 -> [st |-> st, written |-> written]
          [] btw < 0 -> [st |-> st, written |-> -1]
          [] OTHER -> WLoop(st2, left - btw, NextOf(st2, nf), prev, 0, written + btw)

\* Mutant: the size becomes the bytes of this call (as cp sets it).
WriteFile_size_written(d, e, n) ==
    LET sk  == SeekBlock(d, e.ent.first, e.off)
        o   == find_fat(d)
        d1  == IF sk[1] # EOC THEN d ELSE SetFat(d, o, EOC)
        e1  == IF sk[1] # EOC THEN e ELSE [e EXCEPT !.ent.first = U16(o)]
        r   == WLoop(d1, n, IF sk[1] # EOC THEN sk[1] ELSE o, sk[1], sk[2], 0)
        e2  == [e1 EXCEPT !.off = e1.off + r.written, !.ent.size = r.written]
        pos == find_file(r.st, e.ent.name)
    IN  CASE sk[1] = EOC /\ o = -1 -> [d |-> d1, e |-> e1, ret |-> -1]
          [] r.written < 0 -> [d |-> r.st, e |-> e1, ret |-> -1]
          [] OTHER -> [d |-> IF pos = NotFound THEN r.st ELSE SetEntry(r.st, pos, e2.ent),
                       e |-> e2, ret |-> r.written]

\* f_write to a FILE entry e of n >= 1 bytes: an empty file gets its first
\* block before the loop (find_fat's -1 is written to as fat[-1]); then
\* offset and size grow, and the cached entry is written over the entry
\* find_file gives for its name (nowhere when it has none).
WriteFile(d, e, n) ==
    LET sk  == SeekBlock(d, e.ent.first, e.off)
        o   == find_fat(d)
        d1  == IF sk[1] # EOC THEN d ELSE SetFat(d, o, EOC)
        fv  == IF sk[1] # EOC THEN sk[1] ELSE o
        e1  == IF sk[1] # EOC THEN e ELSE [e EXCEPT !.ent.first = U16(o)]
        r   == WLoop(d1, n, fv, sk[1], sk[2], 0)
        off == e1.off + r.written
        e2  == [e1 EXCEPT !.off = off, !.ent.size = IF off > @ THEN off ELSE @]
        pos == find_file(r.st, e.ent.name)
    IN  CASE sk[1] = EOC /\ o = -1 -> [d |-> d1, e |-> e1, ret |-> -1]
          [] r.written < 0 -> [d |-> r.st, e |-> e1, ret |-> -1]
          [] OTHER -> [d |-> IF pos = NotFound THEN r.st ELSE SetEntry(r.st, pos, e2.ent),
                       e |-> e2, ret |-> r.written]

\* f_write(fd, str, n) by a process with array sl.
f_write(d, t, sl, fd, n) ==
    LET g == sl[fd]
        w == WriteFile(d, t[g], n)
    IN  CASE BadSlot(sl, fd) -> [d |-> d, t |-> t, ret |-> -1]
          [] t[g].type = "STDOUT" -> [d |-> d, t |-> t, ret |-> n]
          [] t[g].type # "FILE" \/ t[g].mode \in {F_READ, 0} -> [d |-> d, t |-> t, ret |-> -1]
          [] n < 1 -> [d |-> d, t |-> t, ret |-> 0]
          [] t[g].off > t[g].ent.size -> [d |-> d, t |-> t, ret |-> -1]
          [] OTHER -> [d |-> w.d, t |-> [t EXCEPT ![g] = w.e], ret |-> w.ret]

\* f_read's block loop: tot bytes still to read at offset a of block fv;
\* it stops at the end of the chain.
RECURSIVE RLoop(_, _, _, _, _)
RLoop(st, tot, fv, a, got) ==
    LET btr == IF a + tot > BlockSize THEN BlockSize - a ELSE tot
    IN  CASE tot <= 0 -> got
          [] NextOf(st, fv) = EOC -> got + btr
          [] OTHER -> RLoop(st, tot - btr, NextOf(st, fv), 0, got + btr)

\* f_read(fd, n) from a FILE entry e: nothing from an empty file or from
\* an offset the walk leaves at or past the block end or past the size.
ReadFile(d, e, n) ==
    LET sk  == SeekBlock(d, e.ent.first, e.off)
        tot == IF e.off + n < e.ent.size THEN n ELSE e.ent.size - e.off
    IN  IF e.ent.first = EOC \/ sk[2] >= BlockSize \/ sk[2] > e.ent.size THEN 0
        ELSE RLoop(d, tot, sk[1], sk[2], 0)

\* Mutant: the offset advances by the count asked for.
f_read_adv_n(d, t, sl, fd, n, k) ==
    LET g == sl[fd]
        r == ReadFile(d, t[g], n)
    IN  CASE BadSlot(sl, fd) -> [t |-> t, ret |-> -1]
          [] t[g].type = "STDIN" -> [t |-> t, ret |-> k]
          [] t[g].type # "FILE" -> [t |-> t, ret |-> -1]
          [] OTHER -> [t |-> [t EXCEPT ![g].off = @ + n], ret |-> r]

\* f_read(fd, n, buf) by a process with array sl; k is what a read of the
\* terminal returns.
f_read(d, t, sl, fd, n, k) ==
    LET g == sl[fd]
        r == ReadFile(d, t[g], n)
    IN  CASE BadSlot(sl, fd) -> [t |-> t, ret |-> -1]
          [] t[g].type = "STDIN" -> [t |-> t, ret |-> k]
          [] t[g].type # "FILE" -> [t |-> t, ret |-> -1]
          [] OTHER -> [t |-> [t EXCEPT ![g].off = @ + r], ret |-> r]

(***************************************************************************)
(* The shell and its jobs.                                                *)
(***************************************************************************)
Init ==
    /\ disk = Fresh
    /\ fd_table = Mounted
    /\ open_fds = [p \in Procs |-> IF p = "sh" THEN ShellSlots ELSE NoSlots]
    /\ run = [j \in Jobs |-> <<>>]
    /\ buf = [j \in Jobs |-> 0]
    /\ live = {}
    /\ launches = 0

\* The shell's redirections in its own array: stdin first (its index is
\* the fd0 the job gets, 0 without one) ...
OpenIn(c) ==
    IF c.in = "none" THEN Res(disk, fd_table, open_fds["sh"], 0)
    ELSE f_open(disk, fd_table, open_fds["sh"], c.in, F_READ)

\* ... then > or >> on what the first call left (fd1, 1 without one).
OpenOut(c, r1) ==
    IF c.out.kind = "none" THEN Res(r1.d, r1.t, r1.sl, 1)
    ELSE f_open(r1.d, r1.t, r1.sl, c.out.f, IF c.out.kind = ">>" THEN F_APPEND ELSE F_WRITE)

\* p_spawn_cmd / p_spawn: the child's array is a copy of the shell's, with
\* open_fds[fd0] and open_fds[fd1] of the copy put at 0 and 1.  f_open's
\* -1 indexes open_fds[-1], which in the PCB layout of pcb.h is the new
\* PCB's num_children, 0.
SpawnSlots(sl, fd0, fd1) ==
    LET at(k) == IF k = -1 THEN 0 ELSE sl[k]
    IN  [sl EXCEPT ![0] = at(fd0), ![1] = at(fd1)]

\* The shell reads a command line, opens its redirections and spawns the
\* job; in the foreground it waits for it before reading the next one.
Launch(j, c) ==
    /\ j \notin live
    /\ launches < MaxLaunches
    /\ Background \/ live = {}
    /\ \E r1 \in {OpenIn(c)} : \E r2 \in {OpenOut(c, r1)} :
          /\ disk' = r2.d
          /\ fd_table' = r2.t
          /\ open_fds' = [open_fds EXCEPT !["sh"] = r2.sl, ![j] = SpawnSlots(r2.sl, r1.ret, r2.ret)]
    /\ run' = [run EXCEPT ![j] = c.ops]
    /\ live' = live \cup {j}
    /\ launches' = launches + 1
    /\ UNCHANGED buf

\* echo writes a word (f_write(1, word)), or what it read.
EchoWrite(j) ==
    LET op == Head(run[j])
        w  == f_write(disk, fd_table, open_fds[j], 1, IF op.op = "wb" THEN buf[j] ELSE op.n)
    IN  /\ j \in live
        /\ run[j] # <<>> /\ op.op \in {"w", "wb"}
        /\ disk' = w.d
        /\ fd_table' = w.t
        /\ run' = [run EXCEPT ![j] = Tail(@)]
        /\ UNCHANGED <<open_fds, buf, live, launches>>

\* echo < file: f_read(0, MAX_LINE_LENGTH).
EchoRead(j) ==
    \E k \in TermReads :
        LET r == f_read(disk, fd_table, open_fds[j], 0, LineMax, k)
        IN  /\ j \in live
            /\ run[j] # <<>> /\ Head(run[j]).op = "r"
            /\ fd_table' = r.t
            /\ buf' = [buf EXCEPT ![j] = r.ret]
            /\ run' = [run EXCEPT ![j] = Tail(@)]
            /\ UNCHANGED <<disk, open_fds, live, launches>>

\* bash_rm, bash_mv, bash_chmod: the pennfat.c command on the image.
FsCommand(j) ==
    LET op == Head(run[j])
    IN  /\ j \in live
        /\ run[j] # <<>> /\ op.op \in {"rm", "mv", "chmod"}
        /\ disk' = CASE op.op = "rm" -> rm(disk, op.f)
                     [] op.op = "mv" -> mv(disk, op.f, op.g)
                     [] OTHER -> chmod(disk, op.m, op.f)
        /\ run' = [run EXCEPT ![j] = Tail(@)]
        /\ UNCHANGED <<fd_table, open_fds, buf, live, launches>>

\* p_exit, and the shell reaping the job.
Exit(j) ==
    LET x == ExitClose(fd_table, open_fds[j])
    IN  /\ j \in live
        /\ run[j] = <<>>
        /\ fd_table' = x.t
        /\ open_fds' = [open_fds EXCEPT ![j] = NoSlots]
        /\ live' = live \ {j}
        /\ buf' = [buf EXCEPT ![j] = 0]
        /\ UNCHANGED <<disk, run, launches>>

\* The shell has read its last command line and all jobs are done.
Done ==
    /\ launches = MaxLaunches
    /\ live = {}
    /\ UNCHANGED vars

Next ==
    \/ \E j \in Jobs, c \in Cmds : Launch(j, c)
    \/ \E j \in Jobs : EchoWrite(j) \/ EchoRead(j) \/ FsCommand(j) \/ Exit(j)
    \/ Done

Spec == Init /\ [][Next]_vars

(***************************************************************************)
(* Properties.                                                            *)
(***************************************************************************)
TypeOK ==
    /\ ImageOK(disk)
    /\ fd_table \in [Idx -> [type : {"UNINIT", "STDIN", "STDOUT", "FILE"},
                             mode : {0, F_WRITE, F_READ, F_APPEND},
                             ent : [name : Names \cup {""}, size : Nat, first : FatIdx \cup {EOC},
                                    perm : 0 .. 7],
                             off : 0 .. BlockSize * NumEntries, ref : Nat]]
    /\ open_fds \in [Procs -> [Idx -> Idx \cup {-1}]]
    /\ live \subseteq Jobs
    /\ launches \in 0 .. MaxLaunches

\* The image stays consistent while jobs write through descriptors:
\* f_open's truncation (rm, touch) and f_write's block allocation keep the
\* FAT and the directory in agreement.
DiskConsistent == FatConsistentAt(disk)

\* f_write grows a file's size in step with its chain.
DiskSizes == SizeFitsChainAt(disk)

\* A running job's standard output is the descriptor p_spawn_cmd gave it:
\* the entry its slot 1 names is still open.
StdoutOpen ==
    \A j \in live : open_fds[j][1] # -1 /\ fd_table[open_fds[j][1]].type # "UNINIT"

====
