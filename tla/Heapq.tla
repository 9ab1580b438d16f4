------------------------------- MODULE Heapq --------------------------------
(***************************************************************************)
(* heapq, on lists that begin at 1, of calls that Orderable                *)
(* (base/legacy.py) compares by their targets alone.                       *)
(***************************************************************************)
EXTENDS Integers, Sequences

\* Orderable compares the first element, whatever the rest
Less(x, y) == x.target < y.target

\* a place in the tree, and those above it
Lineage[p \in Nat \ {0}] == IF p = 1 THEN {1} ELSE Lineage[p \div 2] \cup {p}

\* _siftdown(): the element goes up past the parents it is less than, each of
\* which takes the place below it
Passed(h, pos) ==
    {p \in Lineage[pos] :
        \A q \in Lineage[pos] : p <= q /\ q < pos => Less(h[pos], h[q])}
Rise(h, pos) ==
    [i \in DOMAIN h |-> IF i \notin Passed(h, pos) THEN h[i]
                        ELSE IF i \div 2 \in Passed(h, pos) THEN h[i \div 2] ELSE h[pos]]

\* mutant of Child: always the left one
LeftChild(h, pos) == 2 * pos

\* the child that takes the place of its parent, the right one of two equals
Child(h, pos) ==
    LET left == 2 * pos
    IN  IF left < Len(h) /\ ~Less(h[left], h[left + 1]) THEN left + 1 ELSE left

\* _siftup(): the first element goes down to a leaf, past the lesser children,
\* and up from there
Way(h) == {p \in DOMAIN h : \A q \in Lineage[p] : q = 1 \/ q = Child(h, q \div 2)}
Leaf(h) == CHOOSE p \in Way(h) : 2 * p > Len(h)
Raised(h) ==
    [i \in DOMAIN h |-> IF i \notin Way(h) THEN h[i]
                        ELSE IF i = Leaf(h) THEN h[1] ELSE h[Child(h, i)]]
Sink(h) == Rise(Raised(h), Leaf(h))

HeapPush(h, x) == Rise(Append(h, x), Len(h) + 1)

\* what heappop() leaves
HeapPop(h) ==
    IF Len(h) = 1 THEN <<>>
    ELSE Sink([i \in 1 .. Len(h) - 1 |-> IF i = 1 THEN h[Len(h)] ELSE h[i]])

PushAll(h, s) ==
    LET Upto[k \in 0 .. Len(s)] == IF k = 0 THEN h ELSE HeapPush(Upto[k - 1], s[k])
    IN  Upto[Len(s)]
=============================================================================
