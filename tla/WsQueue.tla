------------------------------- MODULE WsQueue -------------------------------
(***************************************************************************)
(* tools/ws_cpu: the circular queue that IQ.hpp, ROB.hpp and LSB.hpp each  *)
(* spell out.  One slot stays free, so a queue holds MAXN - 1 entries.     *)
(***************************************************************************)
EXTENDS Integers

CONSTANT MAXN

ASSUME QueueAssumption == MAXN \in Nat /\ MAXN >= 2

Slot == 0 .. MAXN - 1

\* Mutant of get_nxt: the end of the array is not looked at.
get_nxt_past(cur) == cur + 1

get_nxt(cur)    == (cur + 1) % MAXN
push_back(b, e) == [b EXCEPT !.queue[b.tail] = e, !.tail = get_nxt(b.tail)]
isempty(b)      == b.head = b.tail

isfull(b)       == get_nxt(b.tail) = b.head
get_front(b)    == b.queue[b.head]
pop_front(b)    == [b EXCEPT !.head = get_nxt(b.head)]

Emptied(b)      == [queue |-> b.queue, head |-> 0, tail |-> 0]

QueueOf(entry)  == [queue : [Slot -> entry], head : Slot, tail : Slot]

\* The slots in use, and the distance of one from the head.
Age(b, s)       == (s - b.head) % MAXN
Held(b)         == {s \in Slot : Age(b, s) < Age(b, b.tail)}

\* The slots in use from the head on, as the loops "while(tmp!=tail)" visit them.
Visited(b)      == [k \in 1 .. Age(b, b.tail) |-> (b.head + k - 1) % MAXN]
=============================================================================
