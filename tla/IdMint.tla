-------------------------------- MODULE IdMint ---------------------------------
(***************************************************************************)
(* What the id service promises its callers: an id is <<timestamp, node,   *)
(* sequence>>, none is handed out twice, and those of a node come out in   *)
(* ascending order whoever holds the node.                                 *)
(***************************************************************************)
EXTENDS Integers

CONSTANTS Nodes, SequenceCount

VARIABLES
  issued,  \* the ids handed out
  total    \* how many were handed out

Ids == Nat \X Nodes \X (0 .. SequenceCount - 1)

Init == issued = {} /\ total = 0

After(id, older) == id[1] > older[1] \/ (id[1] = older[1] /\ id[3] > older[3])

Issue(id) ==
  /\ id \in Ids
  /\ \A older \in issued : older[2] = id[2] => After(id, older)
  /\ issued' = issued \cup {id}
  /\ total' = total + 1

Next == \E id \in issued' : Issue(id)

Spec == Init /\ [][Next]_<<issued, total>>
===============================================================================
