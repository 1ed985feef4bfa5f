------------------------------ MODULE MCKitting -------------------------------
(***************************************************************************)
(* Kitting on a small instance: one kit with two positions that draw on    *)
(* the same class.                                                         *)
(***************************************************************************)
EXTENDS Kitting

KitA == <<1, 0>>

OneKit == {KitA}
GroupsA == {"a1", "a2"}
KitOfA == [g \in GroupsA |-> KitA]
ClassOfA == [g \in GroupsA |-> "screw"]
TargetA == ("a1" :> 1) @@ ("a2" :> 2)
RowsOfA == KitA :> <<"a1", "a2">>
KitNoA == KitA :> 0
StockTwo == "screw" :> 2
Nothing == [g \in Groups |-> 0]
Unlabelled == [g \in Groups |-> NULL]
Unpacked == [g \in Groups |-> FALSE]
KitsOfA == [s \in Sessions |-> {KitA}]
OneClient == "p1" :> "s1"

RequestsA == KitA :> PageRequests(KitA)
=============================================================================
