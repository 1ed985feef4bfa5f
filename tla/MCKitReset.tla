----------------------------- MODULE MCKitReset -----------------------------
(***************************************************************************)
(* KitReset on a small instance: one kit with two positions that draw on   *)
(* one class.  The first position is loaded complete, labelled and packed. *)
(***************************************************************************)
EXTENDS KitReset, TLC

KitA == <<1, 0>>
MCKits == {KitA}
MCGroups == {"a1", "a2"}
MCKitOf == [g \in MCGroups |-> KitA]
MCClassOf == [g \in MCGroups |-> "screw"]
MCTarget == [g \in MCGroups |-> 1]
MCStock == "screw" :> 1
MCFirstCount == ("a1" :> 1) @@ ("a2" :> 0)
MCFirstTag == ("a1" :> "t1") @@ ("a2" :> NULL)
MCFirstArchived == ("a1" :> TRUE) @@ ("a2" :> FALSE)
MCKitsOf == [s \in Sessions |-> {KitA}]
OneClient == "p1" :> "s1"
RowsOfA == KitA :> <<"a1", "a2">>
KitNoA == KitA :> 0
RequestsA == KitA :> PageRequests(KitA)
=============================================================================
