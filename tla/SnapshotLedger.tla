--------------------------- MODULE SnapshotLedger ---------------------------
(***************************************************************************)
(* What the index promises its readers about the versioned tables, without *)
(* rows: the data-service reads the rows with superseded_by = MAX_UID, the *)
(* current view.  The ledger remembers, for every stored block, the view   *)
(* as it was when that block was the last one.  Appending blocks never     *)
(* rewrites a remembered view, folding microblocks into their key block    *)
(* keeps the newest of theirs, and rolling back to a block brings exactly  *)
(* its view back.                                                          *)
(***************************************************************************)
EXTENDS Integers, FiniteSetsExt

CONSTANT EmptyView   \* no version of anything

VARIABLES
  taken,    \* block uid -> [key, view], one per stored block
  current   \* the view readers see

snapshots == <<taken, current>>

Init == taken = <<>> /\ current = EmptyView

(* The part of the ledger up to uid u. *)
UpTo(u) == {v \in DOMAIN taken : v <= u}

(* Every append leaves the entries of base alone, adds newer ones, and     *)
(* shows the view of the newest.                                           *)
AppendTo(base) ==
  /\ DOMAIN taken' # DOMAIN base
  /\ \A u \in DOMAIN base : u \in DOMAIN taken' /\ taken'[u] = base[u]
  /\ \A u \in DOMAIN taken' \ DOMAIN base : \A v \in DOMAIN base : v < u
  /\ current' = taken'[Max(DOMAIN taken')].view

Keyed(u) == taken[u].key

(* A microblock goes on top of everything. *)
AppendMicroblock == DOMAIN taken # {} /\ AppendTo(taken)

(* Key blocks go on top of the last key block, which first takes over what *)
(* its microblocks made current.                                           *)
Folded ==
  LET keys == {u \in DOMAIN taken : Keyed(u)}
  IN  IF taken = <<>> THEN taken
      ELSE [u \in keys |-> IF u = Max(keys) THEN [key |-> TRUE, view |-> current]
                                            ELSE taken[u]]

AppendBlocks ==
  /\ AppendTo(Folded)
  /\ \A u \in DOMAIN taken' : taken'[u].key

RollBackTo(u) ==
  /\ taken' = [v \in UpTo(u) |-> taken[v]]
  /\ current' = taken[u].view

Next ==
  \/ AppendBlocks
  \/ AppendMicroblock
  \/ \E u \in DOMAIN taken : RollBackTo(u)

Spec == Init /\ [][Next]_snapshots
=============================================================================
