-------------------------- MODULE SyncServerProofs ----------------------------
(***************************************************************************)
(* Proofs about the kit synchronisation server, for any number of          *)
(* sessions, kits, positions, classes and labels and any requests.         *)
(***************************************************************************)
EXTENDS SyncServer, FiniteSetTheorems, WellFoundedInduction, TLAPS

\* The rest of a request is again a list of elements.
LEMMA TailElements ==
    ASSUME NEW q \in Seq(Element), q # <<>>
    PROVE  /\ Head(q) \in Element
           /\ Tail(q) \in Seq(Element)
  OBVIOUS

\* An element of a request is a row of the table or a status report, and
\* IsGroup tells them apart.
LEMMA ElementKinds ==
    ASSUME NEW e \in Element
    PROVE  /\ IsGroup(e) => /\ e.id \in Groups
                            /\ e.value \in Quantities \cup {NULL}
                            /\ e.tag \in BOOLEAN
           /\ ~IsGroup(e) => e.status \in Nat
  BY DEF Element, GroupElem, StatusElem, IsGroup

\* The control state of a request fits the element it is working on: past the
\* first UPDATE the element is a row with a numeric value.
InRow(s) ==
    pc[s] \in {"count", "pick", "assign"} =>
        /\ todo[s] # <<>>
        /\ IsGroup(Elem(s))
        /\ Elem(s).value \in Quantities

\* A session serves its own kits, with rows of the kit it serves.
OwnRows(s) ==
    pc[s] # "idle" =>
        /\ kit[s] \in KitsOf[s]
        /\ \A i \in DOMAIN todo[s] :
              IsGroup(todo[s][i]) => KitOf[todo[s][i].id] = kit[s]

ControlInv == \A s \in Sessions : InRow(s) /\ OwnRows(s)

\* Type correctness with the control invariant it needs.
TypeInv == ServerTypeOK /\ ControlInv

LEMMA TypeInvInit == ServerInit => TypeInv
  BY ServerAssumption
  DEF ServerInit, TypeInv, ServerTypeOK, Points, ControlInv, InRow, OwnRows

\* A session at a row: what its element holds.
LEMMA RowTypes ==
    ASSUME ServerTypeOK, NEW s \in Sessions, todo[s] # <<>>, IsGroup(Elem(s))
    PROVE  /\ Elem(s).id \in Groups
           /\ Elem(s).value \in Quantities \cup {NULL}
           /\ Elem(s).tag \in BOOLEAN
  <1>1. todo[s] \in Seq(Element)
    BY DEF ServerTypeOK
  <1>2. Elem(s) \in Element
    BY <1>1, TailElements DEF Elem
  <1> QED BY <1>2, ElementKinds

\* The elements of the rest of a list are elements of the list.
LEMMA TailRows ==
    ASSUME NEW q \in Seq(Element), q # <<>>, NEW k,
           \A i \in DOMAIN q : IsGroup(q[i]) => KitOf[q[i].id] = k
    PROVE  \A i \in DOMAIN Tail(q) : IsGroup(Tail(q)[i]) => KitOf[Tail(q)[i].id] = k
  OBVIOUS

\* Going on to the next element keeps the types and the control invariant.
LEMMA AdvanceKeeps ==
    ASSUME ServerTypeOK, ControlInv, NEW s \in Sessions, pc[s] # "idle", todo[s] # <<>>,
           Advance(s), UNCHANGED kit
    PROVE  /\ pc' \in [Sessions -> Points]
           /\ todo' \in [Sessions -> Seq(Element)]
           /\ ControlInv'
  <1>1. pc \in [Sessions -> Points]
    BY DEF ServerTypeOK
  <1>2. todo \in [Sessions -> Seq(Element)]
    BY DEF ServerTypeOK
  <1>3. Tail(todo[s]) \in Seq(Element)
    BY <1>2, TailElements
  <1>4. pc' \in [Sessions -> Points]
    BY <1>1 DEF Advance, Points
  <1>5. todo' \in [Sessions -> Seq(Element)]
    BY <1>2, <1>3 DEF Advance
  <1>6. ASSUME NEW t \in Sessions PROVE InRow(t)' /\ OwnRows(t)'
    <2>1. CASE t = s
      <3>1. pc'[s] = "next" /\ todo'[s] = Tail(todo[s]) /\ kit'[s] = kit[s]
        BY <1>1, <1>2 DEF Advance
      <3>2. InRow(s)'
        BY <3>1 DEF InRow
      <3>3. OwnRows(s)
        BY DEF ControlInv
      <3>4. OwnRows(s)'
        BY <3>1, <3>3, <1>2, TailRows DEF OwnRows
      <3> QED BY <2>1, <3>2, <3>4
    <2>2. CASE t # s
      <3>1. pc'[t] = pc[t] /\ todo'[t] = todo[t] /\ kit'[t] = kit[t]
        BY <2>2, <1>1, <1>2 DEF Advance
      <3> QED BY <3>1 DEF ControlInv, InRow, OwnRows, Elem
    <2> QED BY <2>1, <2>2
  <1> QED BY <1>4, <1>5, <1>6 DEF ControlInv

\* A step of s that leaves todo and kit alone and moves s to a statement about
\* the current row keeps the types and the control invariant.
LEMMA StayKeeps ==
    ASSUME ServerTypeOK, ControlInv, NEW s \in Sessions, pc[s] # "idle",
           todo[s] # <<>>, IsGroup(Elem(s)), Elem(s).value \in Quantities,
           NEW l \in {"count", "pick", "assign"},
           pc' = [pc EXCEPT ![s] = l], UNCHANGED <<todo, kit>>
    PROVE  /\ pc' \in [Sessions -> Points]
           /\ todo' \in [Sessions -> Seq(Element)]
           /\ ControlInv'
  <1>1. pc \in [Sessions -> Points]
    BY DEF ServerTypeOK
  <1>2. todo' \in [Sessions -> Seq(Element)]
    BY DEF ServerTypeOK
  <1>3. ASSUME NEW t \in Sessions PROVE InRow(t)' /\ OwnRows(t)'
    <2>1. CASE t = s
      BY <2>1, <1>1 DEF ControlInv, InRow, OwnRows, Elem
    <2>2. CASE t # s
      BY <2>2, <1>1 DEF ControlInv, InRow, OwnRows, Elem
    <2> QED BY <2>1, <2>2
  <1> QED BY <1>1, <1>2, <1>3 DEF ControlInv, Points

\* Both ways to leave the count statements.
LEMMA AfterCountKeeps ==
    ASSUME ServerTypeOK, ControlInv, NEW s \in Sessions, pc[s] # "idle",
           todo[s] # <<>>, IsGroup(Elem(s)), Elem(s).value \in Quantities,
           AfterCount(s), UNCHANGED kit
    PROVE  /\ pc' \in [Sessions -> Points]
           /\ todo' \in [Sessions -> Seq(Element)]
           /\ ControlInv'
  <1>1. CASE Advance(s)
    BY <1>1, AdvanceKeeps
  <1>2. CASE pc' = [pc EXCEPT ![s] = "pick"] /\ todo' = todo
    BY <1>2, StayKeeps
  <1> QED BY <1>1, <1>2 DEF AfterCount

LEMMA TypeInvNext == TypeInv /\ [ServerNext]_serverVars => TypeInv'
<1> SUFFICES ASSUME ServerTypeOK, ControlInv, [ServerNext]_serverVars
             PROVE  ServerTypeOK' /\ ControlInv'
  BY DEF TypeInv
<1> USE ServerAssumption
<1>1. ASSUME NEW s \in Sessions, NEW c \in Clients, NEW k \in KitsOf[s],
             NEW r \in Requests[k], Receive(s, c, k, r)
      PROVE  ServerTypeOK' /\ ControlInv'
  <2>1. k \in Kits /\ r \in Seq(Element)
    OBVIOUS
  <2>2. ServerTypeOK'
    BY <1>1, <2>1 DEF Receive, ServerTypeOK, Points, db
  <2>3. ControlInv'
    BY <1>1, <2>1 DEF Receive, ServerTypeOK, ControlInv, InRow, OwnRows, Elem
  <2> QED BY <2>2, <2>3
<1>2. ASSUME NEW s \in Sessions, SkipElem(s)
      PROVE  ServerTypeOK' /\ ControlInv'
  <2>1. pc[s] # "idle" /\ todo[s] # <<>> /\ Advance(s) /\ UNCHANGED kit
    BY <1>2 DEF SkipElem, AtGroup
  <2> QED BY <1>2, <2>1, AdvanceKeeps DEF SkipElem, ServerTypeOK, db
<1>3. ASSUME NEW s \in Sessions, Take(s)
      PROVE  ServerTypeOK' /\ ControlInv'
  <2>1. /\ pc[s] # "idle" /\ todo[s] # <<>> /\ IsGroup(Elem(s))
        /\ Elem(s).value # NULL
        /\ pc' = [pc EXCEPT ![s] = "count"] /\ UNCHANGED <<todo, kit>>
    BY <1>3 DEF Take, AtGroup
  <2>2. Elem(s).id \in Groups /\ Elem(s).value \in Quantities
    BY <2>1, RowTypes
  <2>3. count[Elem(s).id] \in Int /\ inventory \in [Classes -> Int]
    BY <2>2 DEF ServerTypeOK
  <2> HIDE DEF Elem
  <2>4. Delta(s) \in Int
    <3>1. Elem(s).value \in Int
      BY <2>2
    <3> QED BY <2>3, <3>1 DEF Delta
  <2>5. inventory' \in [Classes -> Int]
    BY <1>3, <2>2, <2>3, <2>4 DEF Take
  <2>6. drawn' \in [Groups -> Int]
    <3>1. drawn \in [Groups -> Int] /\ drawn' = [drawn EXCEPT ![Elem(s).id] = drawn[Elem(s).id] + Delta(s)]
      BY <1>3 DEF Take, ServerTypeOK
    <3>2. drawn[Elem(s).id] + Delta(s) \in Int
      BY <2>2, <2>4, <3>1
    <3> QED BY <3>1, <3>2
  <2>7. pc' \in [Sessions -> Points] /\ todo' \in [Sessions -> Seq(Element)] /\ ControlInv'
    BY <2>1, <2>2, StayKeeps
  <2> QED BY <1>3, <2>5, <2>6, <2>7 DEF Take, ServerTypeOK
<1>4. ASSUME NEW s \in Sessions, Refuse(s)
      PROVE  ServerTypeOK' /\ ControlInv'
  <2>1. /\ pc[s] # "idle" /\ todo[s] # <<>> /\ IsGroup(Elem(s))
        /\ Elem(s).value # NULL
        /\ AfterCount(s) /\ UNCHANGED kit
    BY <1>4 DEF Refuse, AtGroup
  <2>2. Elem(s).value \in Quantities
    BY <2>1, RowTypes
  <2>3. pc' \in [Sessions -> Points] /\ todo' \in [Sessions -> Seq(Element)] /\ ControlInv'
    BY <2>1, <2>2, AfterCountKeeps
  <2> QED BY <1>4, <2>3 DEF Refuse, ServerTypeOK, db
<1>5. ASSUME NEW s \in Sessions, SetCount(s)
      PROVE  ServerTypeOK' /\ ControlInv'
  <2>1. /\ pc[s] # "idle" /\ todo[s] # <<>> /\ IsGroup(Elem(s))
        /\ Elem(s).value \in Quantities
        /\ AfterCount(s) /\ UNCHANGED kit
    BY <1>5 DEF SetCount, ControlInv, InRow
  <2>2. Elem(s).id \in Groups
    BY <2>1, RowTypes
  <2>3. pc' \in [Sessions -> Points] /\ todo' \in [Sessions -> Seq(Element)] /\ ControlInv'
    BY <2>1, AfterCountKeeps
  <2>4. count' \in [Groups -> Int]
    BY <1>5, <2>1, <2>2 DEF SetCount, ServerTypeOK
  <2> QED BY <1>5, <2>3, <2>4 DEF SetCount, ServerTypeOK
<1>6. ASSUME NEW s \in Sessions, CreateTag(s)
      PROVE  ServerTypeOK' /\ ControlInv'
  <2>1. /\ pc[s] # "idle" /\ todo[s] # <<>> /\ IsGroup(Elem(s))
        /\ Elem(s).value \in Quantities
        /\ pc' = [pc EXCEPT ![s] = "assign"] /\ UNCHANGED <<todo, kit>>
    BY <1>6 DEF CreateTag, ControlInv, InRow
  <2>2. pc' \in [Sessions -> Points] /\ todo' \in [Sessions -> Seq(Element)] /\ ControlInv'
    BY <2>1, StayKeeps
  <2>3. free' \in [Sessions -> Tags \cup {NULL}]
    BY <1>6 DEF CreateTag, FreeTags, ServerTypeOK
  <2> QED BY <1>6, <2>2, <2>3 DEF CreateTag, ServerTypeOK, db
<1>7. ASSUME NEW s \in Sessions, AssignTag(s)
      PROVE  ServerTypeOK' /\ ControlInv'
  <2>1. pc[s] # "idle" /\ todo[s] # <<>> /\ Advance(s) /\ UNCHANGED kit
    BY <1>7 DEF AssignTag, ControlInv, InRow
  <2>2. tag' \in [Groups -> Tags \cup Blank]
    BY <1>7 DEF AssignTag, ServerTypeOK, Blank
  <2> QED BY <1>7, <2>1, <2>2, AdvanceKeeps DEF AssignTag, ServerTypeOK
<1>8. ASSUME NEW s \in Sessions, SetStatus(s)
      PROVE  ServerTypeOK' /\ ControlInv'
  <2>1. pc[s] # "idle" /\ todo[s] # <<>> /\ Advance(s) /\ UNCHANGED kit
    BY <1>8 DEF SetStatus
  <2>2. Elem(s) \in Element
    BY <2>1, TailElements DEF Elem, ServerTypeOK
  <2>3. Elem(s).status \in Nat
    BY <1>8, <2>2, ElementKinds DEF SetStatus
  <2>4. status' \in [Kits -> Nat]
    BY <1>8, <2>3 DEF SetStatus, ServerTypeOK
  <2> QED BY <1>8, <2>1, <2>4, AdvanceKeeps DEF SetStatus, ServerTypeOK
<1>9. ASSUME NEW s \in Sessions, Respond(s)
      PROVE  ServerTypeOK' /\ ControlInv'
  <2>1. ServerTypeOK'
    BY <1>9 DEF Respond, ServerTypeOK, Points, db
  <2>2. ControlInv'
    BY <1>9 DEF Respond, ServerTypeOK, ControlInv, InRow, OwnRows, Elem
  <2> QED BY <2>1, <2>2
<1>10. ASSUME NEW t \in Tags, Archive(t)
      PROVE  ServerTypeOK' /\ ControlInv'
  BY <1>10 DEF Archive, request, ServerTypeOK, ControlInv, InRow, OwnRows, Elem
<1>11. CASE UNCHANGED serverVars
  BY <1>11 DEF serverVars, ServerTypeOK, ControlInv, InRow, OwnRows, Elem
<1> QED
  BY <1>1, <1>2, <1>3, <1>4, <1>5, <1>6, <1>7, <1>8, <1>9, <1>10, <1>11 DEF ServerNext, Serve

\* Every state has the types of ServerTypeOK: no request, however its rows are
\* filled in, puts a value of another kind into the base or makes a statement
\* run without its row (ajax.php lines 38 to 61).
THEOREM TypeCorrect == ServerSpec => []ServerTypeOK
<1>1. TypeInv => ServerTypeOK
  BY DEF TypeInv
<1> QED BY TypeInvInit, TypeInvNext, <1>1, PTL DEF ServerSpec

LEMMA TypeInvAlways == ServerSpec => []TypeInv
  BY TypeInvInit, TypeInvNext, PTL DEF ServerSpec
-----------------------------------------------------------------------------
(* Stock never becomes negative.                                             *)

LEMMA NoOverdraftNext ==
    TypeInv /\ NoOverdraft /\ [ServerNext]_serverVars => NoOverdraft'
<1> SUFFICES ASSUME ServerTypeOK, ControlInv, NoOverdraft, [ServerNext]_serverVars
             PROVE  NoOverdraft'
  BY DEF TypeInv
<1>1. ASSUME NEW s \in Sessions, Take(s)
      PROVE  NoOverdraft'
  <2> DEFINE c == ClassOf[Elem(s).id]
  <2>1. todo[s] # <<>> /\ IsGroup(Elem(s)) /\ Elem(s).value # NULL
    BY <1>1 DEF Take, AtGroup
  <2>2. Elem(s).id \in Groups /\ Elem(s).value \in Quantities
    BY <2>1, RowTypes
  <2>3. c \in Classes /\ Elem(s).value \in Int /\ count[Elem(s).id] \in Int
    BY <2>2, ServerAssumption DEF ServerTypeOK
  <2>4. Delta(s) \in Int
    BY <2>3 DEF Delta
  <2>5. inventory[c] >= Delta(s) /\ inventory' = [inventory EXCEPT ![c] = @ - Delta(s)]
    BY <1>1 DEF Take
  <2> HIDE DEF c
  <2>6. inventory \in [Classes -> Int]
    BY DEF ServerTypeOK
  <2> QED BY <2>3, <2>4, <2>5, <2>6 DEF NoOverdraft
<1>2. CASE UNCHANGED inventory
  BY <1>2 DEF NoOverdraft
<1> QED
  BY <1>1, <1>2 DEF ServerNext, Serve, Receive, SkipElem, Refuse, SetCount, CreateTag,
     AssignTag, SetStatus, Respond, Archive, db, serverVars

\* Whatever requests run concurrently, no class is ever debited below zero: the
\* test and the debit are one statement (ajax.php line 48).
THEOREM StockNeverNegative == ServerSpec => []NoOverdraft
<1>1. ServerInit => NoOverdraft
  BY ServerAssumption DEF ServerInit, NoOverdraft
<1> QED BY <1>1, TypeInvAlways, NoOverdraftNext, PTL DEF ServerSpec
-----------------------------------------------------------------------------
(* Material is accounted for when sessions work on different kits.           *)

\* A move under way has been debited to its full value; all others are done.
MoveInv ==
    \A g \in Groups :
        /\ \A s \in Sessions : MidMove(s, g) => drawn[g] = Elem(s).value
        /\ (\A s \in Sessions : ~MidMove(s, g)) => drawn[g] = count[g]

\* Two sessions on different kits are never at the same row.
LEMMA RowsApart ==
    ASSUME ServerTypeOK, ControlInv, DisjointKits,
           NEW s \in Sessions, NEW t \in Sessions, s # t,
           pc[s] # "idle", todo[s] # <<>>, IsGroup(Elem(s)),
           pc[t] # "idle", todo[t] # <<>>, IsGroup(Elem(t))
    PROVE  Elem(s).id # Elem(t).id
  <1>1. ASSUME NEW u \in Sessions, pc[u] # "idle", todo[u] # <<>>, IsGroup(Elem(u))
        PROVE  KitOf[Elem(u).id] = kit[u] /\ kit[u] \in KitsOf[u]
    <2>1. OwnRows(u)
      BY DEF ControlInv
    <2>2. todo[u] \in Seq(Element)
      BY DEF ServerTypeOK
    <2>3. 1 \in DOMAIN todo[u] /\ Elem(u) = todo[u][1]
      BY <1>1, <2>2 DEF Elem
    <2> QED BY <1>1, <2>1, <2>3 DEF OwnRows
  <1>2. KitsOf[s] \cap KitsOf[t] = {}
    BY DEF DisjointKits
  <1> QED BY <1>1, <1>2

\* A step does not change whether session t is between the two UPDATEs.
SameMove(t) ==
    \/ pc[t] # "count" /\ pc'[t] # "count"
    \/ pc'[t] = pc[t] /\ todo'[t] = todo[t]

\* A step that changes neither counts nor debits, nor who is mid-move.
LEMMA MoveInvFrame ==
    ASSUME MoveInv, UNCHANGED <<count, drawn>>,
           \A t \in Sessions : SameMove(t)
    PROVE  MoveInv'
  <1>1. ASSUME NEW g \in Groups, NEW t \in Sessions
        PROVE  /\ MidMove(t, g)' <=> MidMove(t, g)
               /\ MidMove(t, g) => Elem(t)' = Elem(t)
    BY DEF SameMove, MidMove, Elem
  <1> QED BY <1>1 DEF MoveInv

\* A row is only debited while no move of it is under way ...
LEMMA NotMidMove ==
    ASSUME ServerTypeOK, ControlInv, DisjointKits,
           NEW s \in Sessions, Take(s), NEW t \in Sessions
    PROVE  ~MidMove(t, Elem(s).id)
<1> SUFFICES ASSUME MidMove(t, Elem(s).id) PROVE FALSE
  OBVIOUS
<1>1. pc[s] = "next" /\ todo[s] # <<>> /\ IsGroup(Elem(s))
  BY DEF Take, AtGroup
<1>2. pc[t] = "count" /\ Elem(t).id = Elem(s).id /\ t # s
  BY <1>1 DEF MidMove
<1>3. todo[t] # <<>> /\ IsGroup(Elem(t))
  BY <1>2 DEF ControlInv, InRow
<1> QED BY <1>1, <1>2, <1>3, RowsApart

\* ... so the count the debit is computed from is what was drawn so far.
LEMMA TakeFromRest ==
    ASSUME ServerTypeOK, ControlInv, MoveInv, DisjointKits, NEW s \in Sessions, Take(s)
    PROVE  drawn[Elem(s).id] = count[Elem(s).id]
<1>1. \A t \in Sessions : ~MidMove(t, Elem(s).id)
  BY NotMidMove
<1>2. Elem(s).id \in Groups
  BY RowTypes DEF Take, AtGroup
<1> QED BY <1>1, <1>2 DEF MoveInv

LEMMA MoveInvNext ==
    ASSUME DisjointKits
    PROVE  TypeInv /\ MoveInv /\ [ServerNext]_serverVars => MoveInv'
<1> SUFFICES ASSUME ServerTypeOK, ControlInv, MoveInv, [ServerNext]_serverVars
             PROVE  MoveInv'
  BY DEF TypeInv
<1>0. pc \in [Sessions -> Points] /\ todo \in [Sessions -> Seq(Element)]
  BY DEF ServerTypeOK
<1>1. ASSUME NEW s \in Sessions, NEW c \in Clients, NEW k \in KitsOf[s],
             NEW r \in Requests[k], Receive(s, c, k, r)
      PROVE  MoveInv'
  <2>1. UNCHANGED <<count, drawn>>
    BY <1>1 DEF Receive, db
  <2>2. pc[s] # "count" /\ pc'[s] # "count"
    BY <1>0, <1>1 DEF Receive
  <2>3. \A t \in Sessions \ {s} : pc'[t] = pc[t] /\ todo'[t] = todo[t]
    BY <1>0, <1>1 DEF Receive
  <2>4. \A t \in Sessions : SameMove(t)
    BY <2>2, <2>3 DEF SameMove
  <2> QED BY <2>1, <2>4, MoveInvFrame
<1>2. ASSUME NEW s \in Sessions, SkipElem(s)
      PROVE  MoveInv'
  <2>1. UNCHANGED <<count, drawn>>
    BY <1>2 DEF SkipElem, db
  <2>2. pc[s] # "count" /\ pc'[s] # "count"
    BY <1>0, <1>2 DEF SkipElem, AtGroup, Advance
  <2>3. \A t \in Sessions \ {s} : pc'[t] = pc[t] /\ todo'[t] = todo[t]
    BY <1>0, <1>2 DEF SkipElem, AtGroup, Advance
  <2>4. \A t \in Sessions : SameMove(t)
    BY <2>2, <2>3 DEF SameMove
  <2> QED BY <2>1, <2>4, MoveInvFrame
<1>3. ASSUME NEW s \in Sessions, Take(s)
      PROVE  MoveInv'
  <2> DEFINE e == Elem(s)
             d == Delta(s)
  <2>1. /\ pc[s] = "next" /\ todo[s] # <<>> /\ IsGroup(e) /\ e.value # NULL
        /\ drawn' = [drawn EXCEPT ![e.id] = @ + d]
        /\ pc' = [pc EXCEPT ![s] = "count"] /\ UNCHANGED <<count, todo>>
    BY <1>3 DEF Take, AtGroup
  <2>2. e.id \in Groups /\ e.value \in Int
    BY <2>1, RowTypes, ServerAssumption
  <2>3. \A t \in Sessions : ~MidMove(t, e.id)
    BY <1>3, NotMidMove
  <2>4. drawn[e.id] = count[e.id] /\ count[e.id] \in Int
    BY <1>3, <2>2, TakeFromRest DEF ServerTypeOK
  <2>5. drawn'[e.id] = e.value
    BY <2>1, <2>2, <2>4 DEF Delta, ServerTypeOK
  <2>6. \A t \in Sessions : Elem(t)' = Elem(t)
    BY <2>1 DEF Elem
  <2>7. ASSUME NEW g \in Groups, NEW t \in Sessions
        PROVE  MidMove(t, g)' <=> MidMove(t, g) \/ (t = s /\ g = e.id)
    BY <1>0, <2>1, <2>6 DEF MidMove
  <2>8. ASSUME NEW g \in Groups, g # e.id
        PROVE  drawn'[g] = drawn[g] /\ count'[g] = count[g]
    BY <2>1, <2>8 DEF ServerTypeOK
  <2> HIDE DEF e, d
  <2>9. ASSUME NEW g \in Groups, NEW t \in Sessions, MidMove(t, g)'
        PROVE  drawn'[g] = Elem(t)'.value
    <3>1. CASE g = e.id
      BY <2>3, <2>5, <2>6, <2>7, <2>9, <3>1 DEF e
    <3>2. CASE g # e.id
      BY <2>6, <2>7, <2>8, <2>9, <3>2 DEF MoveInv
    <3> QED BY <3>1, <3>2
  <2>10. ASSUME NEW g \in Groups, \A t \in Sessions : ~MidMove(t, g)'
         PROVE  drawn'[g] = count'[g]
    <3>1. g # e.id /\ \A t \in Sessions : ~MidMove(t, g)
      BY <2>7, <2>10
    <3> QED BY <2>8, <3>1 DEF MoveInv
  <2> QED BY <2>9, <2>10 DEF MoveInv
<1>4. ASSUME NEW s \in Sessions, Refuse(s)
      PROVE  MoveInv'
  <2>1. UNCHANGED <<count, drawn>>
    BY <1>4 DEF Refuse, db
  <2>2. pc[s] # "count" /\ pc'[s] # "count"
    BY <1>0, <1>4 DEF Refuse, AtGroup, AfterCount, Advance
  <2>3. \A t \in Sessions \ {s} : pc'[t] = pc[t] /\ todo'[t] = todo[t]
    BY <1>0, <1>4 DEF Refuse, AtGroup, AfterCount, Advance
  <2>4. \A t \in Sessions : SameMove(t)
    BY <2>2, <2>3 DEF SameMove
  <2> QED BY <2>1, <2>4, MoveInvFrame
<1>5. ASSUME NEW s \in Sessions, SetCount(s)
      PROVE  MoveInv'
  <2> DEFINE e == Elem(s)
  <2>1. /\ pc[s] = "count" /\ UNCHANGED drawn
        /\ count' = [count EXCEPT ![e.id] = e.value]
    BY <1>5 DEF SetCount
  <2>2. todo[s] # <<>> /\ IsGroup(e)
    BY <2>1 DEF ControlInv, InRow
  <2>3. e.id \in Groups
    BY <2>2, RowTypes
  <2>4. drawn[e.id] = e.value
    BY <2>1, <2>3 DEF MoveInv, MidMove
  <2>5. pc'[s] # "count"
    BY <1>0, <1>5 DEF SetCount, AfterCount, Advance
  <2>6. \A t \in Sessions \ {s} : pc'[t] = pc[t] /\ todo'[t] = todo[t]
    BY <1>0, <1>5 DEF SetCount, AfterCount, Advance
  <2>7. ASSUME NEW g \in Groups, NEW t \in Sessions
        PROVE  /\ MidMove(t, g)' => MidMove(t, g) /\ t # s /\ Elem(t)' = Elem(t)
               /\ MidMove(t, g) /\ t # s => MidMove(t, g)'
    BY <2>5, <2>6 DEF MidMove, Elem
  <2>8. ASSUME NEW g \in Groups, g # e.id
        PROVE  count'[g] = count[g] /\ ~MidMove(s, g)
    BY <2>1, <2>8 DEF ServerTypeOK, MidMove
  <2>9. count'[e.id] = e.value
    BY <2>1, <2>3 DEF ServerTypeOK
  <2> HIDE DEF e
  <2>10. ASSUME NEW g \in Groups, \A t \in Sessions : ~MidMove(t, g)'
         PROVE  drawn'[g] = count'[g]
    <3>1. CASE g = e.id
      BY <2>1, <2>4, <2>9, <3>1
    <3>2. CASE g # e.id
      BY <2>1, <2>7, <2>8, <2>10, <3>2 DEF MoveInv
    <3> QED BY <3>1, <3>2
  <2>11. ASSUME NEW g \in Groups, NEW t \in Sessions, MidMove(t, g)'
         PROVE  drawn'[g] = Elem(t)'.value
    BY <2>1, <2>7, <2>11 DEF MoveInv
  <2> QED BY <2>10, <2>11 DEF MoveInv
<1>6. ASSUME NEW s \in Sessions, CreateTag(s)
      PROVE  MoveInv'
  <2>1. UNCHANGED <<count, drawn>>
    BY <1>6 DEF CreateTag, db
  <2>2. pc[s] # "count" /\ pc'[s] # "count"
    BY <1>0, <1>6 DEF CreateTag
  <2>3. \A t \in Sessions \ {s} : pc'[t] = pc[t] /\ todo'[t] = todo[t]
    BY <1>0, <1>6 DEF CreateTag
  <2>4. \A t \in Sessions : SameMove(t)
    BY <2>2, <2>3 DEF SameMove
  <2> QED BY <2>1, <2>4, MoveInvFrame
<1>7. ASSUME NEW s \in Sessions, AssignTag(s)
      PROVE  MoveInv'
  <2>1. UNCHANGED <<count, drawn>>
    BY <1>7 DEF AssignTag
  <2>2. pc[s] # "count" /\ pc'[s] # "count"
    BY <1>0, <1>7 DEF AssignTag, Advance
  <2>3. \A t \in Sessions \ {s} : pc'[t] = pc[t] /\ todo'[t] = todo[t]
    BY <1>0, <1>7 DEF AssignTag, Advance
  <2>4. \A t \in Sessions : SameMove(t)
    BY <2>2, <2>3 DEF SameMove
  <2> QED BY <2>1, <2>4, MoveInvFrame
<1>8. ASSUME NEW s \in Sessions, SetStatus(s)
      PROVE  MoveInv'
  <2>1. UNCHANGED <<count, drawn>>
    BY <1>8 DEF SetStatus
  <2>2. pc[s] # "count" /\ pc'[s] # "count"
    BY <1>0, <1>8 DEF SetStatus, Advance
  <2>3. \A t \in Sessions \ {s} : pc'[t] = pc[t] /\ todo'[t] = todo[t]
    BY <1>0, <1>8 DEF SetStatus, Advance
  <2>4. \A t \in Sessions : SameMove(t)
    BY <2>2, <2>3 DEF SameMove
  <2> QED BY <2>1, <2>4, MoveInvFrame
<1>9. ASSUME NEW s \in Sessions, Respond(s)
      PROVE  MoveInv'
  <2>1. UNCHANGED <<count, drawn>>
    BY <1>9 DEF Respond, db
  <2>2. pc[s] # "count" /\ pc'[s] # "count"
    BY <1>0, <1>9 DEF Respond
  <2>3. \A t \in Sessions \ {s} : pc'[t] = pc[t] /\ todo'[t] = todo[t]
    BY <1>0, <1>9 DEF Respond
  <2>4. \A t \in Sessions : SameMove(t)
    BY <2>2, <2>3 DEF SameMove
  <2> QED BY <2>1, <2>4, MoveInvFrame
<1>10. ASSUME NEW t \in Tags, Archive(t)
       PROVE  MoveInv'
  BY <1>10, MoveInvFrame DEF Archive, request, SameMove
<1>11. CASE UNCHANGED serverVars
  BY <1>11, MoveInvFrame DEF serverVars, SameMove
<1> QED
  BY <1>1, <1>2, <1>3, <1>4, <1>5, <1>6, <1>7, <1>8, <1>9, <1>10, <1>11 DEF ServerNext, Serve

LEMMA MoveInvInit == ServerInit => MoveInv
  BY DEF ServerInit, MoveInv, MidMove

LEMMA MoveInvAlways ==
    ASSUME DisjointKits
    PROVE  ServerSpec => []MoveInv
  BY MoveInvInit, MoveInvNext, TypeInvAlways, PTL DEF ServerSpec

\* As long as no kit is worked on in two sessions, every unit debited from
\* stock is in the count of its position, however the two UPDATEs of the
\* requests (ajax.php lines 48 and 51) interleave.
THEOREM MaterialAccounted ==
    ASSUME DisjointKits
    PROVE  ServerSpec => []Accounted
<1>1. MoveInv => Accounted
  BY DEF MoveInv, Accounted
<1> QED BY <1>1, MoveInvAlways, PTL
-----------------------------------------------------------------------------
(* The two UPDATEs implement one atomic move.                                *)

\* With a move counted from its debit on, the counts are the debits.
LEMMA MovedIsDrawn ==
    ASSUME ServerTypeOK, MoveInv
    PROVE  Moved = drawn
<1>1. ASSUME NEW g \in Groups PROVE Moved[g] = drawn[g]
  <2>1. CASE \E s \in Sessions : MidMove(s, g)
    <3> DEFINE t == CHOOSE s \in Sessions : MidMove(s, g)
    <3>1. t \in Sessions /\ MidMove(t, g)
      BY <2>1
    <3>2. Moved[g] = Elem(t).value
      BY <2>1 DEF Moved
    <3> QED BY <3>1, <3>2 DEF MoveInv
  <2>2. CASE \A s \in Sessions : ~MidMove(s, g)
    BY <2>2 DEF Moved, MoveInv
  <2> QED BY <2>1, <2>2
<1>2. drawn \in [Groups -> Int]
  BY DEF ServerTypeOK
<1>3. Moved = [g \in Groups |-> Moved[g]]
  BY DEF Moved
<1> QED BY <1>1, <1>2, <1>3

\* The debit is the atomic move; every other step leaves the ledger alone.
LEMMA StepIsMove ==
    ASSUME ServerTypeOK, ControlInv, MoveInv, DisjointKits,
           Moved = drawn, Moved' = drawn', [ServerNext]_serverVars
    PROVE  [Ledger!LedgerNext]_<<inventory, Moved>>
<1>1. ASSUME NEW s \in Sessions, Take(s)
      PROVE  Ledger!LedgerNext
  <2> DEFINE e == Elem(s)
             c == ClassOf[e.id]
  <2>1. /\ pc[s] = "next" /\ todo[s] # <<>> /\ IsGroup(e) /\ e.value # NULL
        /\ inventory[c] >= Delta(s)
        /\ inventory' = [inventory EXCEPT ![c] = @ - Delta(s)]
        /\ drawn' = [drawn EXCEPT ![e.id] = @ + Delta(s)]
    BY <1>1 DEF Take, AtGroup
  <2>2. e.id \in Groups /\ e.value \in Quantities /\ e.value \in Int
    BY <2>1, RowTypes, ServerAssumption
  <2>3. drawn[e.id] = count[e.id] /\ count[e.id] \in Int
    BY <1>1, <2>2, TakeFromRest DEF ServerTypeOK
  <2>4. Delta(s) = e.value - Moved[e.id]
    BY <2>3 DEF Delta
  <2>5. drawn' = [drawn EXCEPT ![e.id] = e.value]
    <3>1. drawn[e.id] + Delta(s) = e.value
      BY <2>2, <2>3 DEF Delta
    <3> QED BY <2>1, <3>1
  <2>6. Ledger!Move(e.id, e.value)
    BY <2>1, <2>4, <2>5 DEF Ledger!Move
  <2> QED BY <2>2, <2>6 DEF Ledger!LedgerNext
<1>2. CASE UNCHANGED <<inventory, drawn>>
  BY <1>2
<1> QED
  BY <1>1, <1>2 DEF ServerNext, Serve, Receive, SkipElem, Refuse, SetCount, CreateTag,
     AssignTag, SetStatus, Respond, Archive, db, serverVars

\* As long as no kit is worked on in two sessions, the server implements the
\* stock ledger in which taking material is a single step: the `atomic' that
\* the TODO above the UPDATEs (ajax.php line 47) asks for.
THEOREM ImplementsLedger ==
    ASSUME DisjointKits
    PROVE  ServerSpec => AtomicMoves
<1>1. ServerInit => Ledger!LedgerInit
  BY ServerAssumption DEF ServerInit, Ledger!LedgerInit, Moved, MidMove
<1>2. TypeInv /\ MoveInv /\ Moved = drawn /\ [ServerNext]_serverVars /\ (Moved = drawn)'
      => [Ledger!LedgerNext]_<<inventory, Moved>>
  BY StepIsMove DEF TypeInv
<1>3. TypeInv /\ MoveInv => Moved = drawn
  BY MovedIsDrawn DEF TypeInv
<1>4. ServerSpec => [](TypeInv /\ MoveInv)
  BY TypeInvAlways, MoveInvAlways, PTL
<1> QED
  BY <1>1, <1>2, <1>3, <1>4, PTL
  DEF ServerSpec, AtomicMoves, Ledger!LedgerSpec, Ledger!ledgerVars
-----------------------------------------------------------------------------
(* Sums.                                                                     *)

\* Every set of natural numbers that is not empty has a least element.
LEMMA LeastNumber ==
    ASSUME NEW T \in SUBSET Nat, T # {}
    PROVE  \E m \in T : \A n \in T : m <= n
<1> DEFINE R == OpToRel(<, Nat)
<1>1. IsWellFoundedOn(R, Nat)
  BY NatLessThanWellFounded
<1>2. PICK m \in T : \A n \in T : ~(<<n, m>> \in R)
  <2> HIDE DEF R
  <2> QED BY <1>1, WFMin
<1>3. \A n \in T : <<n, m>> \in R <=> n < m
  BY DEF OpToRel
<1>4. \A n \in T : ~(n < m)
  BY <1>2, <1>3, Zenon
<1> QED BY <1>4

\* A sum is what is picked first and the sum of the rest.
Pick(T) == CHOOSE x \in T : TRUE
SumStep(f, F, T) == IF T = {} THEN 0 ELSE f[Pick(T)] + F[T \ {Pick(T)}]
IsSum(f, F, U) == \A T \in U : F[T] = SumStep(f, F, T)

\* The parts of S with at most n elements.
Parts(S, n) == {T \in SUBSET S : Cardinality(T) <= n}

LEMMA PickedRest ==
    ASSUME NEW S, IsFiniteSet(S), NEW T \in SUBSET S, T # {}
    PROVE  /\ Pick(T) \in S /\ Pick(T) \in T /\ T \ {Pick(T)} \in SUBSET S
           /\ Cardinality(T) \in Nat /\ Cardinality(T \ {Pick(T)}) = Cardinality(T) - 1
           /\ Cardinality(T) # 0
<1>1. Pick(T) \in T
  BY DEF Pick
<1>2. IsFiniteSet(T)
  BY FS_Subset
<1>3. Cardinality(T) \in Nat /\ (Cardinality(T) = 0 <=> T = {})
  BY <1>2, FS_CardinalityType, FS_EmptySet
<1>4. Cardinality(T \ {Pick(T)}) = Cardinality(T) - 1
  BY <1>1, <1>2, FS_RemoveElement
<1> QED BY <1>1, <1>3, <1>4

\* The sums of the parts of a finite set exist: from those of the parts with at
\* most n - 1 elements one gets those with at most n.
LEMMA SumsExist ==
    ASSUME NEW S, IsFiniteSet(S), NEW f, \A x \in S : f[x] \in Int
    PROVE  \E F \in [SUBSET S -> Int] : IsSum(f, F, SUBSET S)
<1> DEFINE Has(n) == \E F \in [Parts(S, n) -> Int] : IsSum(f, F, Parts(S, n))
           Lacks == {n \in Nat : ~Has(n)}
<1>1. Has(0)
  <2>1. Parts(S, 0) = {{}}
    <3>1. ASSUME NEW T \in SUBSET S, T # {} PROVE ~(Cardinality(T) <= 0)
      <4>1. Cardinality(T) \in Nat /\ Cardinality(T) # 0
        BY <3>1, PickedRest
      <4> QED BY <4>1
    <3>2. Cardinality({}) <= 0
      BY FS_EmptySet
    <3> QED BY <3>1, <3>2 DEF Parts
  <2> DEFINE F == [T \in Parts(S, 0) |-> 0]
  <2>2. F \in [Parts(S, 0) -> Int] /\ IsSum(f, F, Parts(S, 0))
    BY <2>1 DEF IsSum, SumStep
  <2> HIDE DEF F
  <2> QED BY <2>2
<1>2. ASSUME NEW n \in Nat, Has(n) PROVE Has(n + 1)
  <2>1. PICK F \in [Parts(S, n) -> Int] : IsSum(f, F, Parts(S, n))
    BY <1>2
  <2>2. ASSUME NEW T \in Parts(S, n + 1), T # {}
        PROVE  T \ {Pick(T)} \in Parts(S, n) /\ f[Pick(T)] \in Int
    <3>1. T \in SUBSET S /\ Cardinality(T) <= n + 1
      BY DEF Parts
    <3>2. /\ Pick(T) \in S /\ T \ {Pick(T)} \in SUBSET S /\ Cardinality(T) \in Nat
          /\ Cardinality(T \ {Pick(T)}) = Cardinality(T) - 1
      BY <2>2, <3>1, PickedRest
    <3> QED BY <3>1, <3>2 DEF Parts
  <2>3. PICK G : G = [T \in Parts(S, n + 1) |-> SumStep(f, F, T)]
    OBVIOUS
  <2>4. ASSUME NEW T \in Parts(S, n + 1) PROVE G[T] \in Int
    BY <2>2, <2>3 DEF SumStep
  <2>5. ASSUME NEW T \in Parts(S, n) PROVE G[T] = F[T]
    <3>1. Cardinality(T) <= n + 1
      <4>1. IsFiniteSet(T)
        BY FS_Subset DEF Parts
      <4> QED BY <4>1, FS_CardinalityType DEF Parts
    <3>2. T \in Parts(S, n + 1)
      BY <3>1 DEF Parts
    <3> QED BY <2>1, <2>3, <3>2 DEF IsSum
  <2>6. ASSUME NEW T \in Parts(S, n + 1) PROVE G[T] = SumStep(f, G, T)
    BY <2>2, <2>3, <2>5 DEF SumStep
  <2>7. G \in [Parts(S, n + 1) -> Int] /\ IsSum(f, G, Parts(S, n + 1))
    BY <2>3, <2>4, <2>6 DEF IsSum
  <2> QED BY <2>7
<1> HIDE DEF Has
<1>3. Lacks = {}
  <2> SUFFICES ASSUME Lacks # {} PROVE FALSE
    OBVIOUS
  <2>1. PICK m \in Lacks : \A n \in Lacks : m <= n
    BY LeastNumber
  <2>2. m \in Nat /\ m # 0 /\ m - 1 \in Nat
    BY <1>1, <2>1
  <2>3. m - 1 \notin Lacks
    BY <2>1, <2>2
  <2> QED BY <1>2, <2>1, <2>2, <2>3
<1>4. Cardinality(S) \in Nat
  BY FS_CardinalityType
<1>5. Has(Cardinality(S))
  BY <1>3, <1>4
<1>6. Parts(S, Cardinality(S)) = SUBSET S
  BY FS_Subset DEF Parts
<1> QED BY <1>5, <1>6 DEF Has

\* SumFunctionOnSet( ) takes the last of these sums.
LEMMA SumIs ==
    ASSUME NEW S, IsFiniteSet(S), NEW f, \A x \in S : f[x] \in Int
    PROVE  \E F \in [SUBSET S -> Int] : IsSum(f, F, SUBSET S) /\ SumFunctionOnSet(f, S) = F[S]
<1> DEFINE P(F) == F = [T \in SUBSET S |-> SumStep(f, F, T)]
<1>1. PICK G \in [SUBSET S -> Int] : IsSum(f, G, SUBSET S)
  BY SumsExist
<1>2. P(G)
  BY <1>1 DEF IsSum
<1>3. PICK F : F = CHOOSE H : P(H)
  OBVIOUS
<1>4. P(F)
  BY <1>2, <1>3, Zenon
<1>5. SumFunctionOnSet(f, S) = F[S]
  <2>1. SumFunctionOnSet(f, S)
           = (CHOOSE H : H = [T \in SUBSET S |->
                IF T = {} THEN 0
                ELSE f[CHOOSE x \in T : TRUE] + H[T \ {CHOOSE x \in T : TRUE}]])[S]
    BY DEF SumFunctionOnSet, FoldFunctionOnSet, MapThenFoldSet
  <2> QED BY <1>3, <2>1, Zenon DEF SumStep, Pick
<1>6. IsSum(f, F, SUBSET S)
  BY <1>4 DEF IsSum
<1> DEFINE Odd == {n \in Nat : \E T \in SUBSET S : Cardinality(T) = n /\ F[T] \notin Int}
<1>7. Odd = {}
  <2> SUFFICES ASSUME Odd # {} PROVE FALSE
    OBVIOUS
  <2>1. PICK m \in Odd : \A n \in Odd : m <= n
    BY LeastNumber
  <2>2. PICK T \in SUBSET S : Cardinality(T) = m /\ F[T] \notin Int
    BY <2>1
  <2>3. F[T] = SumStep(f, F, T)
    BY <1>6 DEF IsSum
  <2>4. T # {}
    BY <2>2, <2>3 DEF SumStep
  <2>5. /\ Pick(T) \in S /\ T \ {Pick(T)} \in SUBSET S /\ m \in Nat
        /\ Cardinality(T \ {Pick(T)}) = m - 1 /\ m # 0
    BY <2>2, <2>4, PickedRest
  <2>6. m - 1 \notin Odd /\ m - 1 \in Nat
    BY <2>1, <2>5
  <2>7. F[T \ {Pick(T)}] \in Int
    BY <2>5, <2>6
  <2> QED BY <2>2, <2>3, <2>4, <2>5, <2>7 DEF SumStep
<1>8. \A T \in SUBSET S : F[T] \in Int
  <2>1. \A T \in SUBSET S : Cardinality(T) \in Nat
    BY FS_Subset, FS_CardinalityType
  <2> QED BY <1>7, <2>1
<1>9. F \in [SUBSET S -> Int]
  BY <1>4, <1>8
<1> QED BY <1>5, <1>6, <1>9

\* Changing one value by d changes the sum by d.
LEMMA SumChange ==
    ASSUME NEW S, IsFiniteSet(S), NEW f, \A x \in S : f[x] \in Int,
           NEW g, NEW d \in Int, NEW h, \A x \in S : h[x] = f[x] + (IF x = g THEN d ELSE 0)
    PROVE  /\ SumFunctionOnSet(f, S) \in Int
           /\ SumFunctionOnSet(h, S) = SumFunctionOnSet(f, S) + (IF g \in S THEN d ELSE 0)
<1>1. PICK F \in [SUBSET S -> Int] : IsSum(f, F, SUBSET S) /\ SumFunctionOnSet(f, S) = F[S]
  BY SumIs
<1>2. \A x \in S : h[x] \in Int
  OBVIOUS
<1>3. PICK H \in [SUBSET S -> Int] : IsSum(h, H, SUBSET S) /\ SumFunctionOnSet(h, S) = H[S]
  BY <1>2, SumIs
<1> DEFINE Same(T) == H[T] = F[T] + (IF g \in T THEN d ELSE 0)
           Odd == {n \in Nat : \E T \in SUBSET S : Cardinality(T) = n /\ ~Same(T)}
<1>4. Odd = {}
  <2> SUFFICES ASSUME Odd # {} PROVE FALSE
    OBVIOUS
  <2>1. PICK m \in Odd : \A n \in Odd : m <= n
    BY LeastNumber
  <2>2. PICK T \in SUBSET S : Cardinality(T) = m /\ ~Same(T)
    BY <2>1
  <2>3. F[T] = SumStep(f, F, T) /\ H[T] = SumStep(h, H, T)
    BY <1>1, <1>3 DEF IsSum
  <2>4. T # {}
    BY <2>2, <2>3 DEF SumStep
  <2>5. PICK x : x = Pick(T)
    OBVIOUS
  <2>6. /\ x \in S /\ x \in T /\ T \ {x} \in SUBSET S /\ m \in Nat
        /\ Cardinality(T \ {x}) = m - 1 /\ m # 0
    BY <2>2, <2>4, <2>5, PickedRest
  <2>7. m - 1 \notin Odd /\ m - 1 \in Nat
    BY <2>1, <2>6
  <2>8. Same(T \ {x})
    BY <2>6, <2>7
  <2>9. F[T] = f[x] + F[T \ {x}] /\ H[T] = h[x] + H[T \ {x}]
    BY <2>3, <2>4, <2>5 DEF SumStep
  <2>10. F[T \ {x}] \in Int /\ H[T \ {x}] \in Int /\ f[x] \in Int
    BY <1>1, <1>3, <2>6
  <2>11. H[T] = F[T] + (IF g \in T THEN d ELSE 0)
    <3>1. CASE x = g
      BY <2>6, <2>8, <2>9, <2>10, <3>1
    <3>2. CASE x # g
      <4>1. g \in T <=> g \in T \ {x}
        BY <3>2
      <4> QED BY <2>6, <2>8, <2>9, <2>10, <3>2, <4>1
    <3> QED BY <3>1, <3>2
  <2> QED BY <2>2, <2>11
<1>5. Same(S)
  BY <1>4, FS_CardinalityType
<1> QED BY <1>1, <1>3, <1>5
-----------------------------------------------------------------------------
(* Material is conserved.                                                    *)

\* What is in stock and what was debited add up to what there was.
DrawnConserved ==
    \A c \in Classes :
        inventory[c] + SumFunctionOnSet(drawn, DrawingOn(c))
            = Stock[c] + SumFunctionOnSet(FirstCount, DrawingOn(c))

LEMMA DrawnConservedNext ==
    ASSUME IsFiniteSet(Groups)
    PROVE  TypeInv /\ DrawnConserved /\ [ServerNext]_serverVars => DrawnConserved'
<1> SUFFICES ASSUME ServerTypeOK, ControlInv, DrawnConserved, [ServerNext]_serverVars
             PROVE  DrawnConserved'
  BY DEF TypeInv
<1>1. ASSUME NEW s \in Sessions, Take(s)
      PROVE  DrawnConserved'
  <2>1. todo[s] # <<>> /\ IsGroup(Elem(s)) /\ Elem(s).value # NULL
    BY <1>1 DEF Take, AtGroup
  <2>2. PICK g, d : g = Elem(s).id /\ d = Delta(s)
    OBVIOUS
  <2>3. g \in Groups /\ Elem(s).value \in Quantities
    BY <2>1, <2>2, RowTypes
  <2>4. ClassOf[g] \in Classes /\ d \in Int
    BY <2>2, <2>3, ServerAssumption DEF Delta, ServerTypeOK
  <2>5. /\ inventory' = [inventory EXCEPT ![ClassOf[g]] = @ - d]
        /\ drawn' = [drawn EXCEPT ![g] = @ + d]
    BY <1>1, <2>2 DEF Take
  <2>6. inventory \in [Classes -> Int] /\ drawn \in [Groups -> Int]
    BY DEF ServerTypeOK
  <2>7. \A x \in Groups : drawn[x] \in Int /\ drawn'[x] = drawn[x] + (IF x = g THEN d ELSE 0)
    BY <2>3, <2>4, <2>5, <2>6
  <2>8. ASSUME NEW c \in Classes
        PROVE  inventory'[c] + SumFunctionOnSet(drawn', DrawingOn(c))
                  = Stock[c] + SumFunctionOnSet(FirstCount, DrawingOn(c))
    <3>1. IsFiniteSet(DrawingOn(c)) /\ DrawingOn(c) \subseteq Groups
      BY FS_Subset DEF DrawingOn
    <3>2. /\ SumFunctionOnSet(drawn, DrawingOn(c)) \in Int
          /\ SumFunctionOnSet(drawn', DrawingOn(c))
                = SumFunctionOnSet(drawn, DrawingOn(c)) + (IF g \in DrawingOn(c) THEN d ELSE 0)
      <4>1. /\ \A x \in DrawingOn(c) : drawn[x] \in Int
            /\ \A x \in DrawingOn(c) : drawn'[x] = drawn[x] + (IF x = g THEN d ELSE 0)
        BY <2>7, <3>1
      <4>2. d \in Int /\ IsFiniteSet(DrawingOn(c))
        BY <2>4, <3>1
      <4> QED BY <4>1, <4>2, SumChange, ZenonT(30)
    <3>3. g \in DrawingOn(c) <=> c = ClassOf[g]
      BY <2>3 DEF DrawingOn
    <3>4. inventory'[c] = inventory[c] - (IF c = ClassOf[g] THEN d ELSE 0)
      BY <2>4, <2>5, <2>6
    <3>5. inventory[c] + SumFunctionOnSet(drawn, DrawingOn(c))
             = Stock[c] + SumFunctionOnSet(FirstCount, DrawingOn(c))
      BY DEF DrawnConserved
    <3>6. inventory[c] \in Int
      BY <2>6
    <3> QED BY <2>4, <3>2, <3>3, <3>4, <3>5, <3>6
  <2> QED BY <2>8 DEF DrawnConserved
<1>2. CASE UNCHANGED <<inventory, drawn>>
  BY <1>2 DEF DrawnConserved
<1> QED
  BY <1>1, <1>2 DEF ServerNext, Serve, Receive, SkipElem, Refuse, SetCount, CreateTag,
     AssignTag, SetStatus, Respond, Archive, db, serverVars

\* Material moves between the stock and the positions and none is lost or made,
\* in any number of concurrent requests, as long as no kit is worked on in two
\* sessions (ajax.php lines 48 and 51).
THEOREM MaterialConserved ==
    ASSUME DisjointKits, IsFiniteSet(Groups)
    PROVE  ServerSpec => []Conserved
<1>1. ServerInit => DrawnConserved
  BY DEF ServerInit, DrawnConserved
<1>2. TypeInv /\ MoveInv /\ DrawnConserved => Conserved
  BY MovedIsDrawn DEF TypeInv, DrawnConserved, Conserved
<1>3. ServerSpec => [](TypeInv /\ MoveInv)
  BY TypeInvAlways, MoveInvAlways, PTL
<1> QED BY <1>1, <1>2, <1>3, DrawnConservedNext, PTL DEF ServerSpec
-----------------------------------------------------------------------------
(* Labels are unique when there is one session.                              *)

\* The label a session is about to assign is still free.
PickedFree ==
    \A s \in Sessions : pc[s] = "assign" =>
        free[s] = NULL \/ \A g \in Groups : tag[g] # free[s]

TagInv == TagsUnique /\ PickedFree

LEMMA TagInvNext ==
    ASSUME OneSession
    PROVE  TypeInv /\ TagInv /\ [ServerNext]_serverVars => TagInv'
<1> SUFFICES ASSUME ServerTypeOK, ControlInv, TagInv, [ServerNext]_serverVars
             PROVE  TagInv'
  BY DEF TypeInv
<1>0. pc \in [Sessions -> Points] /\ free \in [Sessions -> Tags \cup {NULL}]
  BY DEF ServerTypeOK
<1>1. ASSUME NEW s \in Sessions, CreateTag(s)
      PROVE  TagInv'
  <2>1. tag' = tag
    BY <1>1 DEF CreateTag, db
  <2>2. free'[s] = NULL \/ \A g \in Groups : tag[g] # free'[s]
    BY <1>0, <1>1 DEF CreateTag, FreeTags
  <2>3. \A t \in Sessions : t = s
    BY DEF OneSession
  <2> QED BY <2>1, <2>2, <2>3 DEF TagInv, TagsUnique, PickedFree
<1>2. ASSUME NEW s \in Sessions, AssignTag(s)
      PROVE  TagInv'
  <2>1. free[s] = NULL \/ \A g \in Groups : tag[g] # free[s]
    BY <1>2 DEF AssignTag, TagInv, PickedFree
  <2>2. ASSUME NEW g \in Groups
        PROVE  tag'[g] = tag[g] \/ (g = Elem(s).id /\ tag'[g] = free[s])
    BY <1>2 DEF AssignTag, ServerTypeOK
  <2>3. TagsUnique'
    BY <2>1, <2>2 DEF TagInv, TagsUnique, Blank
  <2>4. \A t \in Sessions : pc'[t] # "assign"
    BY <1>0, <1>2 DEF AssignTag, Advance, OneSession
  <2> QED BY <2>3, <2>4 DEF TagInv, PickedFree
<1>3. ASSUME UNCHANGED tag,
             \A s \in Sessions : pc'[s] = "assign" => pc[s] = "assign" /\ free'[s] = free[s]
      PROVE  TagInv'
  BY <1>3 DEF TagInv, TagsUnique, PickedFree
<1>4. ASSUME NEW s \in Sessions,
             \/ \E c \in Clients, k \in KitsOf[s] : \E r \in Requests[k] : Receive(s, c, k, r)
             \/ SkipElem(s) \/ Take(s) \/ Refuse(s) \/ SetCount(s) \/ SetStatus(s) \/ Respond(s)
      PROVE  TagInv'
  <2>1. UNCHANGED tag
    BY <1>4 DEF Receive, SkipElem, Take, Refuse, SetCount, SetStatus, Respond, db
  <2>2. pc'[s] # "assign"
    BY <1>0, <1>4 DEF Receive, SkipElem, Take, Refuse, SetCount, SetStatus, Respond,
       AfterCount, Advance
  <2>3. \A t \in Sessions : t = s
    BY DEF OneSession
  <2> QED BY <1>3, <2>1, <2>2, <2>3
<1>5. ASSUME NEW t \in Tags, Archive(t)
      PROVE  TagInv'
  BY <1>3, <1>5 DEF Archive, request
<1>6. CASE UNCHANGED serverVars
  BY <1>3, <1>6 DEF serverVars
<1> QED BY <1>1, <1>2, <1>4, <1>5, <1>6 DEF ServerNext, Serve

\* In a single session, on a base loaded without duplicate labels,
\* create_tag( ) keeps its promise (ajax.php line 3): no two positions ever
\* carry the same label, although it is looked up and assigned by two statements.
THEOREM LabelsUnique ==
    ASSUME OneSession, FirstTagsUnique
    PROVE  ServerSpec => []TagsUnique
<1>1. ServerInit => TagInv
  BY DEF ServerInit, TagInv, TagsUnique, PickedFree, FirstTagsUnique
<1>2. TagInv => TagsUnique
  BY DEF TagInv
<1> QED BY <1>1, <1>2, TagInvNext, TypeInvAlways, PTL DEF ServerSpec
=============================================================================
