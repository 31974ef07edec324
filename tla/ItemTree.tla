------------------------------- MODULE ItemTree -------------------------------
(***************************************************************************)
(* The tree of canquick's display items (rootedtreenode.cpp): every node   *)
(* counts the activations beneath it, and an item is seen when every node  *)
(* from the root to it is counted and none is covered by another layer.    *)
(* The operators give the counts that a call leaves behind; the threads    *)
(* that make the calls are in Display.                                     *)
(***************************************************************************)
EXTENDS Naturals, FiniteSets

CONSTANTS
  Node, Root,
  Item,         (* the nodes that have a canEntityType                     *)
  Parent,       (* of each node but Root                                   *)
  Above,        (* a node and everything from it up to Root                *)
  MutexGroup,   (* groups of which one child is active at a time           *)
  ModeGroup,    (* nodes that an activation beneath does not reach         *)
  Layer         (* layer_pri: the active children with the least are seen  *)

ASSUME TreeAssumption ==
  /\ Root \in Node /\ Item \subseteq Node /\ Root \notin Item
  /\ MutexGroup \subseteq Node /\ ModeGroup \subseteq Node
  /\ Parent \in [Node \ {Root} -> Node]
  /\ Layer \in [Node -> Nat]
  /\ Above \in [Node -> SUBSET Node]
  /\ Above[Root] = {Root}
  /\ \A n \in Node \ {Root} : Above[n] = {n} \cup Above[Parent[n]] /\ n \notin Above[Parent[n]]
  /\ \A n \in Node : \A k \in Above[n] : Above[k] \subseteq Above[n]

ASSUME FiniteAssumption == IsFiniteSet(Item)

-----------------------------------------------------------------------------
\* The nodes that the recursion of activate() and deactivate() visits.
Path(n) == {m \in Above[n] : \A k \in Above[n] \ {n} : k \in ModeGroup => m \notin Above[k]}

\* "Current implementation assumes mutex Group only for Atomic Items"; and no
\* item counts the activations of another.
ASSUME ItemAssumption ==
  /\ \A n \in Node \ {Root} : Parent[n] \in MutexGroup => n \in Item
  /\ \A i, j \in Item : j \in Path(i) => i = j

InMutexGroup(n) == n # Root /\ Parent[n] \in MutexGroup
Siblings(n) == IF n = Root THEN {n} ELSE {m \in Node \ {Root} : Parent[m] = Parent[n]}

\* handleMutexGroup() zeroes all the children of the group before one counts.
Activated(c, i) ==
  [m \in Node |->
    IF m \in Path(i) THEN (IF InMutexGroup(m) THEN 1 ELSE c[m] + 1)
    ELSE IF \E k \in Path(i) : InMutexGroup(k) /\ m \in Siblings(k) THEN 0
    ELSE c[m]]

\* The recursion ends at the first node that counts nothing.
Deactivated(c, i) ==
  [m \in Node |->
    IF m \in Path(i) /\ \A k \in Path(i) : m \in Above[k] => c[k] > 0
    THEN c[m] - 1
    ELSE c[m]]

Visible(c) ==
  {m \in Node : \A k \in Above[m] :
     c[k] > 0 /\ \A s \in Siblings(k) : c[s] > 0 => Layer[k] <= Layer[s]}

\* The active items that a node should count.
Active(c, m) == {i \in Item : c[i] > 0 /\ m \in Path(i)}

\* What is left when two calls, whose effects alone are f and g, overlap: a node
\* that both of them write may keep the writes of one only.
Torn(c, f, g, both) ==
  LET contested == {m \in Node : f[m] # c[m] /\ g[m] # c[m]}
  IN {[m \in Node |-> IF m \in lf THEN f[m] ELSE IF m \in lg THEN g[m] ELSE both[m]] :
        lf, lg \in SUBSET contested}
=============================================================================
