-------------------------------- MODULE FatFS --------------------------------
(***************************************************************************)
(* The PennFAT file commands on their own.  In PennOS each of touch, rm,  *)
(* mv, cp and chmod runs as a child process the shell spawns (bash_touch, *)
(* bash_rm, bash_mv, bash_cp, bash_chmod in bash.c), which calls the      *)
(* command of pennfat.c through its f_ wrapper and exits; in the          *)
(* foreground they run one after the other.                               *)
(***************************************************************************)
EXTENDS PennFAT

CONSTANTS
    HostSizes,   \* lengths of host files cp -h may read (-1: no such file)
    MvPairs,     \* <<src, dst>> pairs mv is given
    Modes        \* chmod modes as [op, bits]

VARIABLES
    fs,          \* the file-system image
    line         \* the command line the shell parsed last: [cmd, args]

vars == <<fs, line>>

Init == fs = Fresh /\ line = [cmd |-> "none", args |-> <<>>]

Touch  == \E ns \in {<<a>> : a \in Names} \cup {<<a, b>> : a, b \in Names} :
              fs' = touch(fs, ns) /\ line' = [cmd |-> "touch", args |-> ns]
Rm     == \E n \in Names : fs' = rm(fs, n) /\ line' = [cmd |-> "rm", args |-> <<n>>]
Mv     == \E pr \in MvPairs : fs' = mv(fs, pr[1], pr[2]) /\ line' = [cmd |-> "mv", args |-> pr]
CpFs   == \E a, b \in Names : fs' = cp_fs(fs, a, b) /\ line' = [cmd |-> "cp", args |-> <<a, b>>]
CpHost == \E h \in HostSizes, n \in Names :
              fs' = cp_host(fs, h, n) /\ line' = [cmd |-> "cp -h", args |-> <<h, n>>]
Chmod  == \E m \in Modes, n \in Names :
              fs' = chmod(fs, m, n) /\ line' = [cmd |-> "chmod", args |-> <<m, n>>]

Next == Touch \/ Rm \/ Mv \/ CpFs \/ CpHost \/ Chmod

Spec == Init /\ [][Next]_vars

(***************************************************************************)
(* Properties.                                                            *)
(***************************************************************************)
\* The FAT and the directory agree (what rm, mv and cp must keep when they
\* free, rename and allocate): the root chain and every file's chain are
\* well formed and pairwise disjoint, a block is in use in the FAT exactly
\* when it is on one of them, and no command wrote outside the FAT.
FatConsistent == FatConsistentAt(fs)

\* No two directory entries carry the same name: find_file returns the
\* first, so a second one would be a file no command reaches (touch, mv
\* and cp must check before they add a name).
NamesUnique == NamesUniqueAt(fs)

\* A file's size fits its chain: the chain has as many blocks as the size
\* needs, or one block for an empty file that cp filled (the copy loops
\* must advance and link blocks in step with the bytes they count).
SizeFitsChain == SizeFitsChainAt(fs)

TypeOK == ImageOK(fs)

(***************************************************************************)
(* Refinement.  Read through find_file, the image is a FileStore: each    *)
(* name maps to the size and permission bits of the entry find_file       *)
(* returns for it.                                                        *)
(***************************************************************************)
StatOf(st, p) == IF p = NotFound THEN [size |-> 0, perm |-> 8]
                 ELSE [size |-> EntryAt(st, p).size, perm |-> EntryAt(st, p).perm]

AbsOf(st) == [n \in Names |-> StatOf(st, find_file(st, n))]

AbsFiles == AbsOf(fs)

Store == INSTANCE FileStore WITH files <- AbsFiles, op <- line

\* Every step of the commands is the file store's step for the command
\* line it carries out, spec 4.5: touch creates only the missing names and
\* keeps the others' sizes, rm and mv lose no other file, cp leaves the
\* destination with the source's size after making it fresh (0 when the
\* two are one file), cp -h with the host file's length, and chmod stores
\* the bit-wise result unless it is --x or -wx.  (Store!Spec, with the
\* mapping applied to fs and fs' apart.)
FileStoreRefined ==
    /\ Store!Init
    /\ [][Store!Step(AbsOf(fs), AbsOf(fs'), line') /\ line' \in Store!Commands]_vars

====
