--------------------------- MODULE CanonicalChain ---------------------------
(***************************************************************************)
(* What the block store promises its readers (spec.md 3, Block; 4.2),      *)
(* without the columns that implement it.                                  *)
(*                                                                         *)
(* `rows` are the blocks ever written; they are never lost.  `tip` is the  *)
(* last canonical block, and the canonical chain is the chain ending in    *)
(* it.  An insert of b writes b's row and then, atomically, does one of:   *)
(*   - b's chain is wholly stored: b becomes the tip (the branch last      *)
(*     written wins, whether it extends, replaces or returns to a branch); *)
(*   - b is already canonical: nothing else changes;                       *)
(*   - b's chain has a gap: b stays an orphan and the canonical chain keeps *)
(*     a prefix of itself until the gap is filled.                         *)
(* A refused insert changes nothing (a stuttering step).                   *)
(***************************************************************************)
EXTENDS Integers

CONSTANTS Blocks, Parent, NoBlock

VARIABLES rows, tip

RECURSIVE Chain(_)
Chain(b) == IF Parent[b] = NoBlock THEN {b} ELSE {b} \cup Chain(Parent[b])

Start == CHOOSE b \in Blocks : Parent[b] = NoBlock

Init ==
  /\ rows = {Start}
  /\ tip = Start

Adopt(b) ==
  /\ Chain(b) \subseteq rows'
  /\ tip' = b

Rewrite(b) ==
  /\ b \in Chain(tip)
  /\ tip' = tip

RecordOrphan(b) ==
  /\ ~(Chain(b) \subseteq rows')
  /\ tip' \in Chain(tip)

Insert(b) ==
  /\ rows' = rows \cup {b}
  /\ Adopt(b) \/ Rewrite(b) \/ RecordOrphan(b)

Next == \E b \in Blocks : Insert(b)

Spec == Init /\ [][Next]_<<rows, tip>>

=============================================================================
