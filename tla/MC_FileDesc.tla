----------------------------- MODULE MC_FileDesc -----------------------------
(***************************************************************************)
(* FileDesc for TLC.  Command lines are echo with a word of n bytes       *)
(* (f_write of n, then " " and "\n"), echo reading its stdin, and the     *)
(* file commands rm, mv and chmod, with or without redirections.          *)
(***************************************************************************)
EXTENDS FileDesc

W(n) == [op |-> "w", n |-> n]
EchoWord(n) == <<W(n), W(1), W(1)>>
EchoStdin == <<[op |-> "r"], [op |-> "wb"], W(1)>>
To(k, f) == [kind |-> k, f |-> f]
Terminal == [kind |-> "none", f |-> "none"]
Line(ops, in, out) == [ops |-> ops, in |-> in, out |-> out]

\* echo w > a, echo w >> a, echo < a > b, echo w, rm a, mv a b, chmod -w a
\* for words of the given lengths.
CmdsFor(lens) ==
    {Line(EchoWord(n), "none", To(k, "a")) : n \in lens, k \in {">", ">>"}}
    \cup {Line(EchoWord(n), "none", Terminal) : n \in lens}
    \cup {Line(EchoStdin, "a", To(">", "b")),
          Line(<<[op |-> "rm", f |-> "a"]>>, "none", Terminal),
          Line(<<[op |-> "mv", f |-> "a", g |-> "b"]>>, "none", Terminal),
          Line(<<[op |-> "chmod", m |-> [op |-> "-", bits |-> <<2>>], f |-> "a"]>>, "none", Terminal)}

\* Words of one and two bytes: no single f_write spans more than two blocks
\* of two bytes or starts an empty file with more than one.
ShortWords == CmdsFor({1, 2})

\* A word of three bytes: one f_write fills a first block and needs a
\* second.
LongWord == CmdsFor({3})

\* For the background run: echo > a and plain echo.
BgCmds == {Line(EchoWord(1), "none", To(">", "a")), Line(EchoWord(1), "none", Terminal)}

Reads == {0, 1}
====
