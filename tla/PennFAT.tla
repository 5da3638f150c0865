------------------------------- MODULE PennFAT -------------------------------
(***************************************************************************)
(* The PennFAT file system of pennfat.c as PennOS uses it: the FAT, mapped *)
(* in memory (fat[]), and the root directory, whose blocks are the chain  *)
(* from block 1.  The whole image is one record, so that a command that   *)
(* calls others (cp calls rm and touch_single) composes operators.        *)
(*                                                                        *)
(*   fat     entry i of the FAT: 0 free, 0xFFFF end of chain, else next;  *)
(*           fat[0] holds the metadata word written by mkfs               *)
(*   dir     the directory entries each data block holds when read as     *)
(*           directory entries (name, size, firstBlock, perm; type and    *)
(*           mtime are left out)                                          *)
(*   faults  the undefined writes a command has made: "fat_oob", an       *)
(*           index of fat[] outside the mapped FAT; "loop", a chain walk  *)
(*           that never reaches 0xFFFF                                    *)
(*                                                                        *)
(* File data is abstracted to its length: a block written with file data  *)
(* reads back as entries whose names match no file (Garbage).             *)
(***************************************************************************)
EXTENDS Integers, FiniteSets, SequencesExt, Bitwise

CONSTANTS
    NumEntries,       \* num_fat_entries: FAT indices 0 .. NumEntries-1
    EntriesPerBlock,  \* block_size / sizeof(directory_entry)
    BlockSize,        \* bytes per block, as the unit file sizes are counted in
    Names             \* file names the commands use (strings, not "")

ASSUME NumEntries \in 3 .. 255 /\ EntriesPerBlock >= 1 /\ BlockSize >= 1

EOC      == 65535                      \* 0xFFFF
Meta     == 256 + 0                    \* fat[0] = (blocks_in_fat << 8) | config, mkfs 1 0
FatIdx   == 0 .. NumEntries - 1
Blocks   == 1 .. NumEntries - 1        \* data blocks; block 1 starts the root directory
NotFound == <<0, 0>>

Entry(n, s, f, p) == [name |-> n, size |-> s, first |-> f, perm |-> p]
Empty   == Entry("", 0, 0, 0)          \* a zeroed directory entry
Garbage == Entry("?", 0, 0, 0)         \* file bytes read as an entry
EmptyBlock == [i \in 1 .. EntriesPerBlock |-> Empty]

\* mkfs + initialize_fat + mount: a zeroed image whose fat[0] is the
\* metadata and fat[1] = 0xFFFF (the root directory).
Fresh == [fat    |-> [i \in FatIdx |-> CASE i = 0 -> Meta [] i = 1 -> EOC [] OTHER -> 0],
          dir    |-> [b \in Blocks |-> EmptyBlock],
          faults |-> {}]

(***************************************************************************)
(* Chains.  A walk follows fat[] from b until 0xFFFF.  It stops at an     *)
(* index outside the data blocks (the code would go on reading there) and *)
(* after NumEntries steps (the code would loop for ever).                 *)
(***************************************************************************)
RECURSIVE Walk(_, _, _)
Walk(fat, b, n) ==
    IF b = EOC \/ n = 0 THEN <<>>
    ELSE IF b \notin Blocks THEN <<b>>
    ELSE <<b>> \o Walk(fat, fat[b], n - 1)

Chain(st, b) == Walk(st.fat, b, NumEntries)

\* The writes fat[i] = v; an index outside the FAT is an undefined write.
SetFat(st, i, v) ==
    IF i \in FatIdx THEN [st EXCEPT !.fat[i] = v]
    ELSE [st EXCEPT !.faults = @ \cup {"fat_oob"}]

\* write(fs_fd, buffer, n) into data block b, n > 0: its entries are gone.
DataWrite(st, b, n) ==
    IF n > 0 /\ b \in Blocks THEN [st EXCEPT !.dir[b] = [i \in 1 .. EntriesPerBlock |-> Garbage]]
    ELSE st

SetEntry(st, slot, e) == [st EXCEPT !.dir[slot[1]][slot[2]] = e]
EntryAt(st, slot) == st.dir[slot[1]][slot[2]]

\* The slots of the root directory in the order the code reads them.
RootSlots(st) ==
    LET rc == SelectSeq(Chain(st, 1), LAMBDA b : b \in Blocks)
    IN  FlattenSeq([k \in 1 .. Len(rc) |-> [i \in 1 .. EntriesPerBlock |-> <<rc[k], i>>]])

\* find_file: the first root-directory entry with the name.
find_file(st, name) ==
    LET rs   == RootSlots(st)
        hits == {k \in DOMAIN rs : EntryAt(st, rs[k]).name = name}
    IN  IF hits = {} THEN NotFound ELSE rs[Min(hits)]

\* find_open_fat (and find_fat of f_pennos.c): the lowest free entry from
\* 1, or -1.
find_open_fat(st) ==
    LET free == {i \in 1 .. NumEntries - 1 : st.fat[i] = 0}
    IN  IF free = {} THEN -1 ELSE CHOOSE i \in free : \A j \in free : i <= j

\* find_new_fat: reads the image two bytes at a time from entry 2 and stops
\* at the first whose low byte is 0; it is not bounded by the FAT, so with
\* no free entry it returns an index past it.
find_new_fat(st) ==
    LET free == {i \in 2 .. NumEntries - 1 : st.fat[i] % 256 = 0}
    IN  IF free = {} THEN NumEntries ELSE CHOOSE i \in free : \A j \in free : i <= j

\* A uint16_t holding -1 holds 0xFFFF.
U16(i) == IF i = -1 THEN EOC ELSE i

(***************************************************************************)
(* The commands.  Each is the whole C function; an early return leaves    *)
(* the image as the function left it at that point.                      *)
(***************************************************************************)
NewEntry(name) == Entry(name, 0, EOC, 6)

\* touch_single: nothing when the name exists (the new mtime is set on a
\* local copy only); else the first empty slot of the root directory; else
\* a block from find_new_fat is linked after the last root block and the
\* entry goes to its first slot.  The extra pass over the block after the
\* last root block compares file bytes with the name and is left out.
touch_single(st, name) ==
    LET e == find_file(st, "")          \* the scan for an empty name
        rc == Chain(st, 1)
        nf == find_new_fat(st)
        st1 == SetFat(SetFat(st, rc[Len(rc)], nf), nf, EOC)
    IN  CASE find_file(st, name) # NotFound -> st
          [] e # NotFound -> SetEntry(st, e, NewEntry(name))
          [] nf \in Blocks -> SetEntry(st1, <<nf, 1>>, NewEntry(name))
          [] OTHER -> st1

\* touch: touch_single on every name in turn.
touch(st, names) == FoldLeft(touch_single, st, names)

\* rm's loop: zero each block of the chain and its FAT entry.
RECURSIVE FreeChain(_, _, _)
FreeChain(st, b, n) ==
    CASE b = EOC -> st
      [] n = 0 -> [st EXCEPT !.faults = @ \cup {"loop"}]
      [] b \notin Blocks -> [st EXCEPT !.faults = @ \cup {"fat_oob"}]
      [] OTHER -> FreeChain([st EXCEPT !.fat[b] = 0, !.dir[b] = EmptyBlock], st.fat[b], n - 1)

\* Mutant: rm zeroes the entry but leaves the chain allocated.
rm_keep_chain(st, name) ==
    LET pos == find_file(st, name)
    IN  IF pos = NotFound THEN st ELSE SetEntry(st, pos, Empty)

\* rm: free the chain of the first entry with the name, then zero the
\* entry.  Open descriptors are not consulted.
rm(st, name) ==
    LET pos == find_file(st, name)
    IN  IF pos = NotFound THEN st
        ELSE SetEntry(FreeChain(st, EntryAt(st, pos).first, NumEntries), pos, Empty)

\* Mutant: mv renames without removing an existing dst.
mv_no_rm(st, src, dst) ==
    LET sp == find_file(st, src)
    IN  IF sp = NotFound THEN st
        ELSE SetEntry(st, sp, [EntryAt(st, sp) EXCEPT !.name = dst])

\* mv: the source entry is read, an entry named dst is removed with rm,
\* and the saved source entry is written back under the new name.
mv(st, src, dst) ==
    LET sp  == find_file(st, src)
        st1 == IF find_file(st, dst) # NotFound THEN rm(st, dst) ELSE st
    IN  IF sp = NotFound THEN st
        ELSE SetEntry(st1, sp, [EntryAt(st, sp) EXCEPT !.name = dst])

\* Mutant: "-" subtracts the bit instead of clearing it.
ApplyMode_sub(op, p, c) == CASE op = "+" -> p | c
                                [] op = "-" -> p - c
                                [] OTHER    -> c

\* chmod: mode is an operator (+, -, =) and the bits of its letters (0
\* for a letter other than r, w, x); results 1 and 3 are refused.
ApplyMode(op, p, c) == CASE op = "+" -> p | c
                             [] op = "-" -> p & (255 - c)
                             [] OTHER    -> c

\* Mutant: the result is stored without refusing --x and -wx.
chmod_no_refuse(st, mode, name) ==
    LET pos == find_file(st, name)
        np  == FoldLeft(LAMBDA p, c : ApplyMode(mode.op, p, c), EntryAt(st, pos).perm, mode.bits)
    IN  IF pos = NotFound \/ 0 \in ToSet(mode.bits) THEN st
        ELSE SetEntry(st, pos, [EntryAt(st, pos) EXCEPT !.perm = np])

chmod(st, mode, name) ==
    LET pos == find_file(st, name)
        np  == FoldLeft(LAMBDA p, c : ApplyMode(mode.op, p, c), EntryAt(st, pos).perm, mode.bits)
    IN  IF pos = NotFound \/ 0 \in ToSet(mode.bits) \/ np \in {1, 3} THEN st
        ELSE SetEntry(st, pos, [EntryAt(st, pos) EXCEPT !.perm = np])

\* fat[b] read where b may lie outside the FAT (a chain already broken).
NextOf(st, b) == IF b \in FatIdx THEN st.fat[b] ELSE EOC

\* The destination is made empty: touch_single, after rm when it exists.
Recreate(st, name) ==
    touch_single(IF find_file(st, name) = NotFound THEN st ELSE rm(st, name), name)

\* Mutant: the bytes of the last block are counted after the loop breaks.
RECURSIVE CpLoop_late_count(_, _, _, _, _, _)
CpLoop_late_count(st, s, left, d, prev, written) ==
    LET rd  == IF left < BlockSize THEN left ELSE BlockSize
        o   == find_open_fat(st)
        nd  == IF d = EOC THEN o ELSE d
        st2 == DataWrite(IF d = EOC THEN SetFat(SetFat(st, prev, o), o, EOC) ELSE st, nd, rd)
    IN  CASE s = EOC -> [st |-> st, ok |-> TRUE, written |-> written]
          [] d = EOC /\ o = -1 -> [st |-> st, ok |-> FALSE, written |-> written]
          [] left - rd <= 0 -> [st |-> st2, ok |-> TRUE, written |-> written]
          [] OTHER -> CpLoop_late_count(st2, NextOf(st2, s), left - rd, NextOf(st2, nd), nd, written + rd)

\* The block loop of cp inside the file system: s walks the source chain,
\* left counts the bytes still to copy, d is the destination block (0xFFFF
\* when one must be found), prev the one before it.  No free block ends
\* cp with return -1, the blocks taken so far staying marked in the FAT.
RECURSIVE CpLoop(_, _, _, _, _, _)
CpLoop(st, s, left, d, prev, written) ==
    LET rd  == IF left < BlockSize THEN left ELSE BlockSize
        o   == find_open_fat(st)
        nd  == IF d = EOC THEN o ELSE d
        st1 == IF d = EOC THEN SetFat(SetFat(st, prev, o), o, EOC) ELSE st
        st2 == DataWrite(st1, nd, rd)
    IN  CASE s = EOC -> [st |-> st, ok |-> TRUE, written |-> written]
          [] d = EOC /\ o = -1 -> [st |-> st, ok |-> FALSE, written |-> written]
          [] left - rd <= 0 -> [st |-> st2, ok |-> TRUE, written |-> written + rd]
          [] OTHER -> CpLoop(st2, NextOf(st2, s), left - rd, NextOf(st2, nd), nd, written + rd)

\* cp SOURCE DEST inside the file system.  The source is looked up again
\* after DEST is recreated (when SOURCE = DEST it is now the empty file).
\* DEST's first block is taken before the loop whether or not there is
\* anything to copy; find_open_fat's -1 becomes 0xFFFF in a uint16_t.
cp_fs(st, src, dst) ==
    LET st1 == Recreate(st, dst)
        sp  == find_file(st1, src)
        dp  == find_file(st1, dst)
        d0  == U16(find_open_fat(st1))
        r   == CpLoop(SetFat(st1, d0, EOC), EntryAt(st1, sp).first, EntryAt(st1, sp).size, d0, d0, 0)
    IN  CASE find_file(st, src) = NotFound -> st
          [] sp = NotFound -> st1
          [] ~r.ok -> r.st
          [] dp = NotFound -> [r.st EXCEPT !.faults = @ \cup {"lost_write"}]
          [] OTHER -> SetEntry(r.st, dp, [EntryAt(st1, dp) EXCEPT !.first = d0, !.size = r.written])

\* The read loop of cp -h: left bytes of the host file still to read, fv
\* the block to write (0xFFFF when one must be found), prev the last one.
RECURSIVE HostLoop(_, _, _, _, _)
HostLoop(st, left, fv, prev, written) ==
    LET rd  == IF left < BlockSize THEN left ELSE BlockSize
        o   == find_open_fat(st)
        nf  == IF fv = EOC THEN o ELSE fv
        st1 == IF fv = EOC
               THEN SetFat(IF prev # EOC THEN SetFat(st, prev, o) ELSE st, o, EOC)
               ELSE st
        st2 == DataWrite(st1, nf, rd)
    IN  CASE rd = 0 -> [st |-> st, ok |-> TRUE, written |-> written]
          [] fv = EOC /\ o = -1 -> [st |-> st, ok |-> FALSE, written |-> written]
          [] OTHER -> HostLoop(st2, left - rd, NextOf(st2, nf), nf, written + rd)

\* cp -h HOSTFILE DEST: hsize is the host file's length, -1 when open()
\* fails.
cp_host(st, hsize, dst) ==
    LET st1 == Recreate(st, dst)
        dp  == find_file(st1, dst)
        f0  == U16(find_open_fat(st1))
        r   == HostLoop(SetFat(st1, f0, EOC), hsize, f0, EOC, 0)
    IN  CASE hsize < 0 -> st
          [] ~r.ok -> r.st
          [] dp = NotFound -> [r.st EXCEPT !.faults = @ \cup {"lost_write"}]
          [] OTHER -> SetEntry(r.st, dp, [EntryAt(st1, dp) EXCEPT !.first = f0, !.size = r.written])

(***************************************************************************)
(* What a consistent image is, for the properties of the modules that    *)
(* use this one.                                                          *)
(***************************************************************************)
Files(st) == {s \in ToSet(RootSlots(st)) : EntryAt(st, s).name \notin {"", "?"}}
FileChain(st, s) == IF EntryAt(st, s).first = EOC THEN <<>> ELSE Chain(st, EntryAt(st, s).first)

\* A chain is well formed: data blocks only, no block twice, ends at 0xFFFF.
WellFormed(st, c) ==
    /\ ToSet(c) \subseteq Blocks
    /\ IsInjective(c)
    /\ c # <<>> => st.fat[c[Len(c)]] = EOC

\* The FAT and the directory of image st agree; no write left the FAT.
FatConsistentAt(st) ==
    LET chains == {Chain(st, 1)} \cup {FileChain(st, s) : s \in Files(st)}
        owner(b) == {s \in Files(st) : b \in ToSet(FileChain(st, s))}
                    \cup (IF b \in ToSet(Chain(st, 1)) THEN {"root"} ELSE {})
    IN  /\ st.faults = {}
        /\ \A c \in chains : WellFormed(st, c)
        /\ \A b \in Blocks : (st.fat[b] # 0) <=> (owner(b) # {})
        /\ \A b \in Blocks : Cardinality(owner(b)) <= 1

\* No two directory entries of st have the same name.
NamesUniqueAt(st) ==
    \A s, t \in Files(st) : s # t => EntryAt(st, s).name # EntryAt(st, t).name

\* Every file's size of st needs exactly the blocks of its chain (an
\* empty file may hold one block).
SizeFitsChainAt(st) ==
    \A s \in Files(st) :
        LET n == Len(FileChain(st, s))
            z == EntryAt(st, s).size
        IN  /\ z <= n * BlockSize
            /\ n > 1 => z > (n - 1) * BlockSize

ImageOK(st) ==
    /\ st.fat \in [FatIdx -> FatIdx \cup {EOC, Meta}]
    /\ st.faults \subseteq {"fat_oob", "loop", "lost_write", "uninit"}
    /\ \A b \in Blocks, i \in 1 .. EntriesPerBlock :
           /\ st.dir[b][i].name \in Names \cup {"", "?"}
           /\ st.dir[b][i].perm \in 0 .. 7

====
