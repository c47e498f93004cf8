------------------------------ MODULE MemoryPool ------------------------------
(***************************************************************************)
(* CMemoryPool (common/MemoryPool.h): blocks that are free or in use, and  *)
(* the index of the one to be handed out next.  A block keeps its contents *)
(* when it is given back.                                                  *)
(***************************************************************************)
EXTENDS Integers

Blocks(size) == 0 .. size - 1

IsPool(p, size) == p \in [size : {size}, free : SUBSET Blocks(size), next : Blocks(size)]

NewPool(size) == [size |-> size, free |-> Blocks(size), next |-> 0]

\* Mutant: the search does not go round.
NextFreeAhead(p) ==
    CHOOSE i \in p.next .. p.size :
        /\ i \in p.free \cup {p.size}
        /\ \A j \in p.next .. i - 1 : j \notin p.free

\* UpdateNextFreeIndex: the first free block from the next one on, going round.
NextFree(p) ==
    LET at(k) == (p.next + k) % p.size
    IN  at(CHOOSE k \in Blocks(p.size) :
               /\ at(k) \in p.free
               /\ \A j \in 0 .. k - 1 : at(j) \notin p.free)

\* The ASSERTs of Allocate and of the search, which fails for the last free block.
CanAllocate(p) == p.next \in p.free /\ p.free # {p.next}

\* The pool after block p.next has been handed out.
Allocate(p) ==
    LET taken == [p EXCEPT !.free = @ \ {p.next}]
    IN  [taken EXCEPT !.next = NextFree(taken)]

\* The pool after blocks bs have been given back.
Deallocate(p, bs) == [p EXCEPT !.free = @ \cup bs]
=============================================================================
