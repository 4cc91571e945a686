------------------------- MODULE BranchTargetBuffer -------------------------
(***************************************************************************)
(* The branch target buffer of pipeline.c: ENTRY_NUM entries searched from *)
(* the first and replaced in turn.  A buffer is a record of the entries    *)
(* and of the index of the next entry to replace.  The code's idx is a     *)
(* uint8_t used modulo ENTRY_NUM = 32; 32 divides 256, so counting modulo  *)
(* ENTRY_NUM is the same counter.                                          *)
(***************************************************************************)
EXTENDS Integers

CONSTANTS ENTRY_NUM, \* number of entries, at least 1
          PC         \* the addresses, 0 among them

Slots == 0 .. ENTRY_NUM - 1

Entry == [pc : PC, predict_pc : PC, valid : BOOLEAN]

Buffer == [entries : [Slots -> Entry], idx : Slots]

\* Static storage: every field is 0.
EmptyBuffer ==
    [entries |-> [i \in Slots |-> [pc |-> 0, predict_pc |-> 0, valid |-> FALSE]],
     idx     |-> 0]

First(S) == CHOOSE i \in S : \A j \in S : i <= j

\* The entries a search for pc stops at: only valid ones in found_BTB, any
\* entry with that pc in delete_BTB.
Named(b, pc) == {i \in Slots : b.entries[i].pc = pc}

Hits(b, pc) == {i \in Named(b, pc) : b.entries[i].valid}

found_BTB(b, pc) == Hits(b, pc) # {}

predicted_pc(b, pc) == b.entries[First(Hits(b, pc))].predict_pc

\* Mutant: the index of the next entry to replace is not taken modulo ENTRY_NUM.
update_BTB_NoWrap(b, pc, target) ==
    [entries |-> [b.entries EXCEPT ![b.idx] =
                    [pc |-> pc, predict_pc |-> target, valid |-> TRUE]],
     idx     |-> b.idx + 1]

update_BTB(b, pc, target) ==
    [entries |-> [b.entries EXCEPT ![b.idx] =
                    [pc |-> pc, predict_pc |-> target, valid |-> TRUE]],
     idx     |-> (b.idx + 1) % ENTRY_NUM]

\* Invalidates the first entry that names pc, valid or not, and no other.
delete_BTB(b, pc) ==
    IF Named(b, pc) = {} THEN b
    ELSE [b EXCEPT !.entries[First(Named(b, pc))].valid = FALSE]

=============================================================================
