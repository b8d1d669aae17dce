---------------------------- MODULE SnapshotStore ----------------------------
(***************************************************************************)
(* What a write-behind store promises: its owner changes a view of the     *)
(* items, and what is stored is always a view the owner had at one moment, *)
(* never a mix of two, and never an older one than before.  A medium that  *)
(* fails breaks this promise until the store is opened again.              *)
(***************************************************************************)
EXTENDS Integers, Sequences

CONSTANT Items  \* the possible contents

VARIABLES
    stored,     \* the stored items
    views,      \* what is stored, and the views that came after it
    broken      \* the promise is suspended until the store is opened again

vars == <<stored, views, broken>>

Init ==
    /\ stored \in Items
    /\ views = <<stored>>
    /\ broken = FALSE

\* The owner changes an item.
Write ==
    /\ ~broken /\ ~broken'
    /\ \E v \in Items : views' = Append(views, v)
    /\ UNCHANGED stored

\* A later view is stored.
Persist ==
    /\ ~broken /\ ~broken'
    /\ \E p \in 1..Len(views) :
        /\ stored' = views[p]
        /\ views' = SubSeq(views, p, Len(views))

\* The medium fails or has failed: it holds items, nothing is said of which.
Break ==
    /\ broken'
    /\ stored' \in Items

\* The store is opened again: after it was closed, or after a crash, which may
\* come before or after a view under way is stored.
Reopen ==
    /\ ~broken'
    /\ IF broken THEN stored' \in Items
                 ELSE \E p \in 1..Len(views) : stored' = views[p]
    /\ views' = <<stored'>>

Next == Write \/ Persist \/ Break \/ Reopen

Spec == Init /\ [][Next]_vars

=============================================================================
