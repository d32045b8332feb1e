---------------------------- MODULE F64Allocator ----------------------------
(***************************************************************************)
(* The two-space heap for boxed floats (runtime/src/allocator/             *)
(* f64_allocator.rs).  A boxed float is a pointer <<space, index>>; a      *)
(* collection swaps the spaces and copies the floats it finds.  The module *)
(* has the allocator's state and its two operations as actions; Heap       *)
(* composes them with the collector.                                       *)
(***************************************************************************)
EXTENDS Integers

CONSTANTS LEN,    \* slots of each space (1000 in the code)
          Val,    \* the floats a program computes with
          Zero    \* 0.0, the initial content of every slot

ASSUME LENAssumption == LEN \in Nat \ {0}
ASSUME ValAssumption == Zero \in Val

VARIABLES current_space,   \* which of the two boxes is `current_space`
          space,           \* the contents of both boxes
          next_slot        \* where the next float goes

f64_vars == <<current_space, space, next_slot>>

Slots == 0 .. LEN - 1

F64TypeOK ==
    /\ current_space \in {0, 1}
    /\ space \in [{0, 1} -> [Slots -> Val]]
    /\ next_slot \in 0 .. LEN

F64New ==
    /\ current_space = 0
    /\ space = [b \in {0, 1} |-> [i \in Slots |-> Zero]]
    /\ next_slot = 0

\* Mutant: the test comes before the increment.
F64IsFull_TestFirst == next_slot = LEN

\* alloc increments next_slot before it tests it, so the last slot is never
\* handed out and a refused call leaves next_slot = LEN.
F64IsFull == next_slot + 1 = LEN

\* alloc(value) = Some(pointer): the write is unchecked (get_unchecked_mut).
F64AllocSome(value) ==
    /\ ~F64IsFull
    /\ space' = [space EXCEPT ![current_space][next_slot] = value]
    /\ next_slot' = next_slot + 1
    /\ UNCHANGED current_space

\* alloc(value) = None
F64AllocNone ==
    /\ F64IsFull
    /\ next_slot' = next_slot + 1
    /\ UNCHANGED <<current_space, space>>

\* Mutant: the spaces are not exchanged, so a copy overwrites what it copies.
semispace_swap_InPlace ==
    /\ next_slot' = 0
    /\ UNCHANGED <<current_space, space>>

\* Mutant: the slots used before the swap stay used after it.
semispace_swap_NoReset ==
    /\ current_space' = 1 - current_space
    /\ UNCHANGED <<space, next_slot>>

semispace_swap ==
    /\ current_space' = 1 - current_space
    /\ next_slot' = 0
    /\ UNCHANGED space

\* The pointer the next successful alloc returns, and what *ptr reads.
F64Next(value) == [k |-> "f64", space |-> current_space, index |-> next_slot, val |-> value]
F64Read(p) == space[p.space][p.index]
=============================================================================
