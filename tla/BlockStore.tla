----------------------------- MODULE BlockStore -----------------------------
(***************************************************************************)
(* The block table of the Postgres store (src/V2/pkg/postgres/postgres.go) *)
(* and the reorg reconciliation its insert performs.                       *)
(*                                                                         *)
(* Blocks come from a fixed block tree: Parent gives each block's prevHash *)
(* (NoBlock for the start block, which the store holds from the start).   *)
(* A stored row is a block with is_orphaned; the non-orphaned rows are     *)
(* `canonical`.  `nextHash` is the next_block_hash column.                 *)
(*                                                                         *)
(* InsertBlock calls the stored procedure _SCHEMA_.block_insert, whose SQL *)
(* is not in the repository: block_insert is written from spec.md 4.2 and  *)
(* agrees with every reorg scenario of postgres_integration_test.go and    *)
(* indexer_integration_test.go.                                            *)
(***************************************************************************)
EXTENDS Integers, FiniteSets

CONSTANTS
  Blocks,     \* the block tree the node may ever report
  Parent,     \* Parent[b]: the block b.PrevHash names, or NoBlock
  NoBlock     \* model value: no block

ASSUME Parent \in [Blocks -> Blocks \cup {NoBlock}]
ASSUME NoBlock \notin Blocks

VARIABLES
  stored,     \* rows of _SCHEMA_.block
  canonical,  \* rows with is_orphaned = FALSE
  nextHash    \* next_block_hash column

storeVars == <<stored, canonical, nextHash>>

(***************************************************************************)
(* The block tree.                                                         *)
(***************************************************************************)
RECURSIVE HeightRec(_)
HeightRec(b) == IF Parent[b] = NoBlock THEN 0 ELSE HeightRec(Parent[b]) + 1

\* b and all blocks it builds on: the chain a node whose tip is b reports.
RECURSIVE ChainRec(_)
ChainRec(b) == IF Parent[b] = NoBlock THEN {b} ELSE {b} \cup ChainRec(Parent[b])

\* Both as tables over the tree, computed once.
HeightTable == [b \in Blocks |-> HeightRec(b)]
ChainTable == [b \in Blocks |-> ChainRec(b)]

Height(b) == HeightTable[b]
ChainOf(b) == ChainTable[b]

\* The block at height h of the chain ending in tip.
BlockAt(tip, h) == CHOOSE x \in ChainOf(tip) : Height(x) = h

Genesis == CHOOSE b \in Blocks : Parent[b] = NoBlock

ASSUME \A b \in Blocks : Parent[b] = NoBlock <=> b = Genesis

(***************************************************************************)
(* Reads.                                                                  *)
(***************************************************************************)
\* LastBlock: the highest row with is_orphaned = FALSE.
LastBlock == CHOOSE c \in canonical : \A d \in canonical : Height(d) <= Height(c)

TipHeight == Height(LastBlock)

(***************************************************************************)
(* block_insert(b, recover).                                               *)
(*                                                                         *)
(* Walking back from b through prevHash over stored orphaned rows reaches  *)
(* a root.  If the root's parent is canonical, b's branch connects: every  *)
(* canonical row from the root's height up is orphaned and the branch from *)
(* the root to b becomes canonical, each parent's next_block_hash pointing *)
(* to its child on the branch.  If the root's parent is missing, the node  *)
(* has a different block at the root's parent height than the store: the  *)
(* canonical rows from that height up are orphaned and b is stored as an  *)
(* orphan until the gap is filled.  A block that is already canonical is  *)
(* only rewritten.  Without recover, a block below the tip that is not the *)
(* canonical block at its height is refused.                               *)
(***************************************************************************)
RECURSIVE BranchRoot(_)
BranchRoot(x) ==
  IF Parent[x] \in stored \ canonical THEN BranchRoot(Parent[x]) ELSE x

\* Fault: the branch taken from above its root, leaving the root orphaned.
BranchAboveRoot(b) == {x \in ChainOf(b) : Height(x) > Height(BranchRoot(b))}

Branch(b) == {x \in ChainOf(b) : Height(x) >= Height(BranchRoot(b))}

Connected(b) == Parent[BranchRoot(b)] \in canonical

Rejected(b, recover) ==
  /\ ~recover
  /\ Height(b) < TipHeight
  /\ b \notin canonical

\* Fault: the reconciliation runs but the row itself is not written.
block_insertNoRow(b, recover) ==
  /\ ~Rejected(b, recover)
  /\ stored' = stored
  /\ \/ /\ b \in canonical
        /\ UNCHANGED <<canonical, nextHash>>
     \/ /\ b \notin canonical
        /\ Connected(b)
        /\ canonical' = {c \in canonical : Height(c) < Height(BranchRoot(b))}
                          \cup Branch(b)
        /\ nextHash' = nextHash
     \/ /\ b \notin canonical
        /\ ~Connected(b)
        /\ canonical' = {c \in canonical : Height(c) < Height(BranchRoot(b)) - 1}
        /\ UNCHANGED nextHash

\* Fault: a reorg deletes the superseded rows instead of orphaning them.
block_insertDeleting(b, recover) ==
  /\ ~Rejected(b, recover)
  /\ \/ /\ b \in canonical
        /\ UNCHANGED <<stored, canonical, nextHash>>
     \/ /\ b \notin canonical
        /\ Connected(b)
        /\ canonical' = {c \in canonical : Height(c) < Height(BranchRoot(b))}
                          \cup Branch(b)
        /\ stored' = (stored \ (canonical \ canonical')) \cup {b}
        /\ nextHash' = [x \in Blocks |->
                          IF \E y \in Branch(b) : Parent[y] = x
                          THEN CHOOSE y \in Branch(b) : Parent[y] = x
                          ELSE nextHash[x]]
     \/ /\ b \notin canonical
        /\ ~Connected(b)
        /\ canonical' = {c \in canonical : Height(c) < Height(BranchRoot(b)) - 1}
        /\ stored' = stored \cup {b}
        /\ UNCHANGED nextHash

block_insert(b, recover) ==
  /\ ~Rejected(b, recover)
  /\ stored' = stored \cup {b}
  /\ \/ /\ b \in canonical
        /\ UNCHANGED <<canonical, nextHash>>
     \/ /\ b \notin canonical
        /\ Connected(b)
        /\ canonical' = {c \in canonical : Height(c) < Height(BranchRoot(b))}
                          \cup Branch(b)
        /\ nextHash' = [x \in Blocks |->
                          IF \E y \in Branch(b) : Parent[y] = x
                          THEN CHOOSE y \in Branch(b) : Parent[y] = x
                          ELSE nextHash[x]]
     \/ /\ b \notin canonical
        /\ ~Connected(b)
        /\ canonical' = {c \in canonical : Height(c) < Height(BranchRoot(b)) - 1}
        /\ UNCHANGED nextHash

\* Database.InsertBlock: marshal the header and run block_insert, retried
\* by retry.Simple.  A refused insert changes nothing, so a retry with no
\* other writer in between is refused again: one call stands for all.
InsertBlock(b, recover) == block_insert(b, recover)

(***************************************************************************)
(* The store on its own: any block of the tree inserted with or without    *)
(* recover, as backfills, the live indexer and the validator's repairs do. *)
(***************************************************************************)
StoreInit ==
  /\ stored = {Genesis}
  /\ canonical = {Genesis}
  /\ nextHash = [x \in Blocks |-> NoBlock]

StoreNext == \E b \in Blocks, recover \in BOOLEAN : InsertBlock(b, recover)

StoreSpec == StoreInit /\ [][StoreNext]_storeVars

StoreTypeOK ==
  /\ stored \subseteq Blocks
  /\ canonical \subseteq stored
  /\ nextHash \in [Blocks -> Blocks \cup {NoBlock}]

(***************************************************************************)
(* Canonical uniqueness and linked-list integrity (spec.md 3 and 8): after *)
(* any sequence of inserts of any blocks, in any order, with or without    *)
(* recover, the non-orphaned rows are exactly one chain from the start     *)
(* block to LastBlock, and every non-tip row's next_block_hash names the   *)
(* canonical row above it.  block_insert's walk, orphaning and relinking   *)
(* must agree for this to hold.                                            *)
(***************************************************************************)
CanonicalChainLinked ==
  /\ canonical = ChainOf(LastBlock)
  /\ \A c \in canonical :
       Height(c) < TipHeight =>
         /\ nextHash[c] \in canonical
         /\ Parent[nextHash[c]] = c

(***************************************************************************)
(* The store implements the abstract canonical chain (CanonicalChain.tla) *)
(* under the mapping rows <- the block rows, tip <- LastBlock: every insert *)
(* keeps every row, and either makes the written block the tip with its    *)
(* whole chain stored, rewrites a canonical row, or records an orphan while *)
(* the canonical chain keeps a prefix of itself.                           *)
(***************************************************************************)
Abstract == INSTANCE CanonicalChain WITH rows <- stored, tip <- LastBlock

ImplementsCanonicalChain == Abstract!Spec

=============================================================================
