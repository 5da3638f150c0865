------------------------------- MODULE FileStore -------------------------------
(***************************************************************************)
(* What the PennFAT commands promise, with blocks and the directory       *)
(* layout left out: a map from names to a file's size and permission      *)
(* bits (spec section 4.5), and the command line each step carries out.   *)
(* Each command has one outcome, fixed by the store before it and its     *)
(* arguments:                                                             *)
(*   touch creates the missing names as empty rw- files;                  *)
(*   rm removes the name;                                                  *)
(*   mv gives the source's file the new name, a file there before gone;   *)
(*   cp makes the destination fresh and copies the source (as it is then) *)
(*   into it;  cp -h makes the destination a fresh file of the host       *)
(*   file's length;                                                       *)
(*   chmod computes the mode over permission bits and refuses --x, -wx.   *)
(* A missing source or file leaves the store as it was.                   *)
(***************************************************************************)
EXTENDS Naturals, Sequences

CONSTANTS
    Names,       \* file names
    HostSizes,   \* lengths of host files cp -h may read (-1: no such file)
    MvPairs,     \* <<src, dst>> pairs mv is given
    Modes        \* chmod modes as [op, bits], bit 0 for a letter not r, w, x

VARIABLES
    files,       \* name -> [size, perm], or Absent
    op           \* the command line of the last step: [cmd, args]

Absent == [size |-> 0, perm |-> 8]           \* no file of that name (no perm is 8)
New    == [size |-> 0, perm |-> 6]           \* a file touch makes
Stat   == [size : Nat, perm : {0, 2, 4, 5, 6, 7}]

NoCommand == [cmd |-> "none", args |-> <<>>]

\* The command lines of the file commands.
Commands ==
    {[cmd |-> "touch", args |-> ns] : ns \in {<<a>> : a \in Names} \cup {<<a, b>> : a, b \in Names}}
    \cup {[cmd |-> "rm", args |-> <<n>>] : n \in Names}
    \cup {[cmd |-> "mv", args |-> pr] : pr \in MvPairs}
    \cup {[cmd |-> "cp", args |-> <<a, b>>] : a, b \in Names}
    \cup {[cmd |-> "cp -h", args |-> <<h, n>>] : h \in HostSizes, n \in Names}
    \cup {[cmd |-> "chmod", args |-> <<m, n>>] : m \in Modes, n \in Names}

Exists(f, n) == f[n] # Absent

\* The permission bits as a set, and back.
BitsOf(p) == {b \in {1, 2, 4} : (p \div b) % 2 = 1}
PermOf(B) == (IF 4 \in B THEN 4 ELSE 0) + (IF 2 \in B THEN 2 ELSE 0) + (IF 1 \in B THEN 1 ELSE 0)

\* chmod's result: + adds the letters' bits, - takes them away, = keeps
\* the last letter's bit (each letter assigns in turn).
ModeResult(p, m) ==
    LET B == {m.bits[i] : i \in DOMAIN m.bits}
    IN  CASE m.op = "+" -> PermOf(BitsOf(p) \cup B)
          [] m.op = "-" -> PermOf(BitsOf(p) \ B)
          [] OTHER      -> IF m.bits = <<>> THEN p ELSE m.bits[Len(m.bits)]

\* The actions relate the store before a step (f) to the store after it (g).
Create(f, g, ns) ==
    g = [n \in Names |-> IF \E i \in DOMAIN ns : ns[i] = n /\ ~Exists(f, n) THEN New ELSE f[n]]

Remove(f, g, n) == g = [f EXCEPT ![n] = Absent]

Rename(f, g, a, b) ==
    g = IF Exists(f, a) /\ a # b THEN [f EXCEPT ![b] = f[a], ![a] = Absent] ELSE f

Copy(f, g, a, b) ==
    LET fresh == [f EXCEPT ![b] = New]
    IN  g = IF Exists(f, a) THEN [fresh EXCEPT ![b].size = fresh[a].size] ELSE f

Import(f, g, h, b) ==
    g = IF h < 0 THEN f ELSE [f EXCEPT ![b] = [size |-> h, perm |-> 6]]

Chmod(f, g, m, n) ==
    LET p == ModeResult(f[n].perm, m)
    IN  g = IF ~Exists(f, n) \/ 0 \in {m.bits[i] : i \in DOMAIN m.bits} \/ p \in {1, 3}
            THEN f ELSE [f EXCEPT ![n].perm = p]

\* One step of the store, from f to g, carrying out command line c.
Step(f, g, c) ==
    \/ c.cmd = "touch" /\ Create(f, g, c.args)
    \/ c.cmd = "rm"    /\ Remove(f, g, c.args[1])
    \/ c.cmd = "mv"    /\ Rename(f, g, c.args[1], c.args[2])
    \/ c.cmd = "cp"    /\ Copy(f, g, c.args[1], c.args[2])
    \/ c.cmd = "cp -h" /\ Import(f, g, c.args[1], c.args[2])
    \/ c.cmd = "chmod" /\ Chmod(f, g, c.args[1], c.args[2])

Init == files = [n \in Names |-> Absent] /\ op = NoCommand

Next == \E c \in Commands : op' = c /\ Step(files, files', c)

Spec == Init /\ [][Next]_<<files, op>>

TypeOK == files \in [Names -> Stat \cup {Absent}] /\ op \in Commands \cup {NoCommand}
====
