---------------------------- MODULE SessionTree ----------------------------
(***************************************************************************)
(* What session storage promises its callers, whatever happens to the      *)
(* process: a tree of entries that only grows, in which every entry hangs  *)
(* from the root or from an entry of the tree; a cursor in the tree; and   *)
(* every entry that was acknowledged.                                      *)
(***************************************************************************)
CONSTANTS
  Ids,            \* the ids entries may have
  Root            \* the parent of a first entry

VARIABLES
  tree,           \* the entries stored
  parentOf,       \* the parent each id was created with
  cursor,         \* the tip of the active branch
  promised        \* the entries whose append was acknowledged

treeVars == <<tree, parentOf, cursor, promised>>

Init ==
  /\ tree = {} /\ cursor = Root /\ promised = {}
  /\ parentOf = [e \in Ids |-> Root]

\* Once stored, an entry keeps its parent.
KeepsParents == \A e \in tree : parentOf'[e] = parentOf[e]

\* A new entry becomes the tip.
Store(e) ==
  /\ e \notin tree
  /\ parentOf'[e] \in tree \cup {Root}
  /\ tree' = tree \cup {e}
  /\ cursor' = e
  /\ UNCHANGED promised
  /\ KeepsParents

Acknowledge(e) ==
  /\ e \in tree
  /\ promised' = promised \cup {e}
  /\ UNCHANGED <<tree, cursor, parentOf>>

\* The cursor moves within the tree: a navigation, or a restart.
Move ==
  /\ cursor' \in tree \cup {Root}
  /\ UNCHANGED <<tree, promised>>
  /\ KeepsParents

Next == Move \/ \E e \in Ids : Store(e) \/ Acknowledge(e)

Spec == Init /\ [][Next]_treeVars

=============================================================================
