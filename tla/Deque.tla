------------------------------- MODULE Deque -------------------------------
(***************************************************************************)
(* The doubly linked PCB deque of Deque.c, seen as the sequence of pids   *)
(* its nodes hold from front to back.  Every queue of the scheduler       *)
(* (the three ready queues, blocked_pcbs, stopped_pcbs, zombie_pcbs) is a *)
(* value of this kind.  A node holds a PCB pointer, so the same PCB may   *)
(* sit in a queue more than once; the sequence keeps those duplicates.    *)
(* A failed malloc ends the host process (exit(EXIT_FAILURE)); the model  *)
(* has no memory bound, so that path is not represented.                  *)
(***************************************************************************)
EXTENDS Sequences, SequencesExt

\* Deque_Push_Back: a new node after the back.
Deque_Push_Back(dq, p) == Append(dq, p)

\* Deque_Push_Front: a new node before the front.
Deque_Push_Front(dq, p) == <<p>> \o dq

\* Deque_Pop_Front: the deque without its front node; callers first test
\* that it is not empty (the C function returns false then).
Deque_Pop_Front(dq) == Tail(dq)

\* Deque_Pop_Back: the deque without its back node.
Deque_Pop_Back(dq) == SubSeq(dq, 1, Len(dq) - 1)

\* Deque_Pop_Pcb: unlink the node at position i.
Deque_Pop_Pcb(dq, i) == RemoveAt(dq, i)

\* Deque_Pop_PID: unlink the first node whose PCB has the pid; no change
\* when there is none.
Deque_Pop_PID(dq, pid) == RemoveFirst(dq, pid)

=============================================================================
