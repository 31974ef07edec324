------------------------------ MODULE MCDisplay ------------------------------
(* An instance of Display: a mutex group of two ruled items, of which "tsr" has
   the slot of the volume's menu as well, and the alert of a timer on a layer
   above the group. *)
EXTENDS Display

MCNode == {"root", "group", "sli", "tsr", "alert"}
MCParent == [n \in MCNode \ {"root"} |-> IF n \in {"sli", "tsr"} THEN "group" ELSE "root"]
MCAbove == [n \in MCNode |-> {n, "root"} \cup IF n = "root" THEN {} ELSE {MCParent[n]}]
MCLayer == [n \in MCNode |-> IF n = "group" THEN 1 ELSE 0]
=============================================================================
