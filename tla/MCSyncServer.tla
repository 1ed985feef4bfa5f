---------------------------- MODULE MCSyncServer ------------------------------
(***************************************************************************)
(* SyncServer on a small instance: two kits of two orders that draw on one *)
(* stock position; the first kit has two positions, the second has one.    *)
(***************************************************************************)
EXTENDS SyncServer, TLC

KitA == <<1, 0>>
KitB == <<2, 0>>

MCKits == {KitA, KitB}
MCGroups == {"a1", "a2", "b1"}
MCKitOf == ("a1" :> KitA) @@ ("a2" :> KitA) @@ ("b1" :> KitB)
MCClassOf == [g \in MCGroups |-> "screw"]
MCTarget == ("a1" :> 1) @@ ("a2" :> 2) @@ ("b1" :> 2)
MCStock == [c \in {"screw"} |-> 2]
MCFirstCount == ("a1" :> 0) @@ ("a2" :> 0) @@ ("b1" :> 1)
MCFirstTag == [g \in MCGroups |-> NULL]
MCFirstArchived == [g \in MCGroups |-> FALSE]

\* One session per kit, two sessions on the first kit.
Disjoint == ("s1" :> {KitA}) @@ ("s2" :> {KitB})
Shared == [s \in {"s1", "s2"} |-> {KitA}]

Rows(g, values, tags) == [id : {g}, value : values, tag : tags, status : {-1}]

\* The requests of the two kits.  In kit A the second row has a count or an
\* empty input field and is never labelled; kit B also reports its status.
MCRequests ==
    (KitA :> {<<e, f>> : e \in Rows("a1", {0, 1}, BOOLEAN),
                         f \in Rows("a2", {0, 2, NULL}, {FALSE})})
    @@ (KitB :> {<<e, [status |-> n]>> : e \in Rows("b1", {1, 2}, BOOLEAN),
                                         n \in 0..1})
=============================================================================
