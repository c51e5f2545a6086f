------------------------------ MODULE CspBuffer ------------------------------
(***************************************************************************)
(* The packet buffer pool whose interface is include/csp/csp_buffer.h.     *)
(* The pool's implementation (csp_buffer.c) is not part of this source     *)
(* tree: what a slot does is taken from the header's contract and the      *)
(* spec (4.1).  A slot is a reference count and the packet it carries.     *)
(***************************************************************************)
EXTENDS Naturals, Sequences, FiniteSets

CONSTANTS Buffers,             \* the slots of the pool
          CSP_BUFFER_RESERVE,  \* slots csp_buffer_get() leaves in the pool
          NoHdr                \* the contents of a slot nobody holds

VARIABLES refc,  \* refc[b]: the reference count of slot b
          hdr    \* hdr[b]: the parsed packet header held in slot b

\* Every slot free and empty after csp_buffer_init().
Init == /\ refc = [b \in Buffers |-> 0]
        /\ hdr = [b \in Buffers |-> NoHdr]

\* csp_buffer_remaining(): the number of free slots.
Remaining == Cardinality({b \in Buffers : refc[b] = 0})

\* csp_buffer_get(): the task-context, fallible allocation.  It fails
\* (returns NULL) rather than hand out one of the reserved slots.
CanGet == Remaining > CSP_BUFFER_RESERVE

\* The slot the allocator hands out next.
Fresh == CHOOSE b \in Buffers : refc[b] = 0

\* Allocation of slot b, which then carries header h.
Get(b, h) == /\ refc' = [refc EXCEPT ![b] = 1]
             /\ hdr' = [hdr EXCEPT ![b] = h]

\* The number of times slot b occurs in the sequence s.
Occurrences(s, b) == Cardinality({i \in DOMAIN s : s[i] = b})

\* csp_buffer_free() once for every element of the sequence s, in one step:
\* each call decrements the count, and a slot whose count reaches zero is
\* back in the pool (its contents no longer mean anything).
Release(s) ==
    /\ refc' = [b \in Buffers |-> refc[b] - Occurrences(s, b)]
    /\ hdr' = [b \in Buffers |-> IF refc'[b] = 0 THEN NoHdr ELSE hdr[b]]

=============================================================================
