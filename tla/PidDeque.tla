------------------------------ MODULE PidDeque ------------------------------
(***************************************************************************)
(* The shell's job list, curr_shell_pids (Deque_PID.c): a doubly linked   *)
(* deque of pids, seen as the sequence of its nodes from front to back.   *)
(* Nothing stops a pid from being pushed twice, so the sequence may hold  *)
(* duplicates.  A failed malloc ends the host process; that path is not   *)
(* represented.                                                           *)
(***************************************************************************)
EXTENDS Sequences, SequencesExt

\* pid_Deque_Allocate: front = back = NULL, no elements.
pid_Deque_Allocate == <<>>

\* pid_Deque_Push_Back: a new node after the back.
pid_Deque_Push_Back(dq, p) == Append(dq, p)

\* pid_Deque_Pop_Front and pid_Deque_Pop_Back on a deque that is not empty.
pid_Deque_Pop_Front(dq) == Tail(dq)

pid_Deque_Pop_Back(dq) == SubSeq(dq, 1, Len(dq) - 1)

\* pid_Deque_Pop_Node: a node without prev is popped from the front, one
\* without next from the back, any other is unlinked in place.
pid_Deque_Pop_Node(dq, i) ==
    IF i = 1 THEN pid_Deque_Pop_Front(dq)
    ELSE IF i = Len(dq) THEN pid_Deque_Pop_Back(dq)
    ELSE RemoveAt(dq, i)

\* The position of the node pid_Deque_Pop_PID stops at: the first from the
\* front holding the pid, 0 when none does.
pid_Deque_Find(dq, pid) ==
    IF pid \notin ToSet(dq) THEN 0
    ELSE CHOOSE i \in DOMAIN dq : dq[i] = pid /\ \A j \in 1 .. i - 1 : dq[j] # pid

\* pid_Deque_Pop_PID: the first node holding the pid is popped; nothing
\* changes when no node holds it.
pid_Deque_Pop_PID(dq, pid) ==
    LET i == pid_Deque_Find(dq, pid) IN IF i = 0 THEN dq ELSE pid_Deque_Pop_Node(dq, i)

=============================================================================
