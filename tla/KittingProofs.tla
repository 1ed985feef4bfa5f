---------------------------- MODULE KittingProofs -----------------------------
(***************************************************************************)
(* Kit pages with the synchronisation server, for any number of sessions,  *)
(* pages, kits and positions and any number of posts under way.            *)
(***************************************************************************)
EXTENDS Kitting, SyncServerProofs, SequenceTheorems

\* The positions that a page shows.
Shown(p) == {g \in Groups : KitOf[g] = view[p]}

\* The variables of the pages have the types of TypeOK.
PageTypes ==
    /\ page \in [Clients -> {"new", "open", "left"}]
    /\ view \in [Clients -> Kits \cup {NULL}]
    /\ rows \in [Clients -> [Groups -> Row \cup {NULL}]]
    /\ ticked \in [Clients -> BOOLEAN]
    /\ posts \in [Clients -> Seq(Seq(Element))]
    /\ DOMAIN replies = Clients
    /\ user \in [Kits -> Sessions \cup {NULL}]
    /\ acts \in 0..MaxActs

\* A number of the base can be shown in a count field.
Showable == count \in [Groups -> Quantities]

\* An answer holds a datum for every position of the kit.
Data(k) == [{g \in Groups : KitOf[g] = k} ->
              [count : Quantities, inventory : Int, tag : Tags \cup Blank, archived : BOOLEAN]]

\* A page that was loaded shows a kit of its session; what it posted and what it
\* is answered are about this kit; its table is empty or has a row for each
\* position of the kit.
ViewInv(p) ==
    /\ page[p] = "new" => posts[p] = <<>> /\ replies[p] = <<>> /\ rows[p] = NoRows
    /\ page[p] # "new" => view[p] \in KitsOf[SessionOf[p]]
    /\ \A i \in DOMAIN posts[p] : posts[p][i] \in PageRequests(view[p])
    /\ replies[p] \in Seq(Data(view[p]))
    /\ Loaded(p) => \A g \in Groups : HasRow(p, g) <=> g \in Shown(p)

\* A request is served for a page of the session and its kit.
ServedInv(s) ==
    /\ pc[s] = "idle" => client[s] = NULL
    /\ pc[s] # "idle" =>
         /\ client[s] \in Clients
         /\ SessionOf[client[s]] = s
         /\ page[client[s]] # "new"
         /\ kit[s] = view[client[s]]

PageInv ==
    /\ PageTypes
    /\ Showable
    /\ \A p \in Clients : ViewInv(p)
    /\ \A s \in Sessions : ServedInv(s)

KitInv == TypeInv /\ PageInv
-----------------------------------------------------------------------------
(* What a page posts and what it is answered.                                *)

LEMMA KitRows ==
    ASSUME NEW k \in Kits
    PROVE  /\ RowsOf[k] \in Seq(Groups)
           /\ ToSet(RowsOf[k]) = {g \in Groups : KitOf[g] = k}
           /\ \A i \in DOMAIN RowsOf[k] : RowsOf[k][i] \in Groups /\ KitOf[RowsOf[k][i]] = k
<1>1. RowsOf[k] \in Seq(Groups) /\ ToSet(RowsOf[k]) = {g \in Groups : KitOf[g] = k}
  BY PageAssumption
<1>2. ASSUME NEW i \in DOMAIN RowsOf[k] PROVE RowsOf[k][i] \in ToSet(RowsOf[k])
  BY DEF ToSet
<1> QED BY <1>1, <1>2

\* The posts of a page are requests that the server is specified for.
LEMMA PostsServed ==
    ASSUME NEW k \in Kits, NEW q \in PageRequests(k)
    PROVE  q \in Requests[k] /\ q \in Seq(Element)
  BY PageAssumption, ServerAssumption

LEMMA RowElemType ==
    ASSUME PageInv, NEW p \in Clients, NEW g \in Groups, HasRow(p, g)
    PROVE  RowElem(p, g) \in GroupElem /\ RowElem(p, g).id = g
<1>1. rows[p][g] \in Row
  BY DEF PageInv, PageTypes, HasRow
<1>2. rows[p][g].input \in Quantities \cup {NULL} /\ rows[p][g].requested \in BOOLEAN
  BY <1>1 DEF Row
<1> QED BY <1>2 DEF RowElem, GroupElem

\* A loaded page posts its whole table.
LEMMA SyncRequestType ==
    ASSUME PageInv, NEW p \in Clients, page[p] # "new"
    PROVE  SyncRequest(p) \in PageRequests(view[p])
<1> DEFINE k == view[p]
           order == RowsOf[k]
           f == [i \in DOMAIN order |-> RowElem(p, order[i])]
<1>1. k \in Kits
  BY ServerAssumption, PageAssumption DEF PageInv, ViewInv
<1>2. CASE Loaded(p)
  <2>1. ASSUME NEW i \in DOMAIN order
        PROVE  RowElem(p, order[i]) \in GroupElem /\ RowElem(p, order[i]).id = order[i]
    <3>1. order[i] \in Groups /\ KitOf[order[i]] = k
      BY <1>1, KitRows
    <3>2. HasRow(p, order[i])
      BY <1>2, <3>1 DEF PageInv, ViewInv, Shown
    <3> QED BY <3>1, <3>2, RowElemType
  <2>2. f \in TableElems(k)
    BY <2>1 DEF TableElems
  <2>3. RowsStatus(p) \in 0..2
    BY DEF RowsStatus
  <2>4. SyncRequest(p) = Append(f, [status |-> RowsStatus(p)])
    BY <1>2 DEF SyncRequest
  <2> HIDE DEF f, k
  <2> QED BY <2>2, <2>3, <2>4 DEF PageRequests, k
<1>3. CASE ~Loaded(p)
  BY <1>3 DEF SyncRequest, PageRequests
<1> QED BY <1>2, <1>3

\* The closing SELECT gives a datum for every position of the kit.
LEMMA AnswerType ==
    ASSUME ServerTypeOK, Showable, NEW k \in Kits
    PROVE  Answer(k) \in Data(k)
<1> DEFINE D == [count : Quantities, inventory : Int, tag : Tags \cup Blank, archived : BOOLEAN]
           G == {g \in Groups : KitOf[g] = k}
           d(g) == [count |-> count[g], inventory |-> inventory[ClassOf[g]],
                    tag |-> tag[g], archived |-> archived[g]]
<1>1. ASSUME NEW g \in Groups PROVE d(g) \in D
  BY ServerAssumption DEF ServerTypeOK, Showable
<1>2. Answer(k) = [g \in G |-> d(g)]
  BY KitRows DEF Answer
<1>3. Data(k) = [G -> D]
  BY DEF Data
<1> HIDE DEF d, D
<1> QED BY <1>1, <1>2, <1>3

LEMMA Removed ==
    ASSUME NEW S, NEW q \in Seq(S), NEW i \in DOMAIN q
    PROVE  /\ RemoveAt(q, i) \in Seq(S) /\ Len(RemoveAt(q, i)) = Len(q) - 1
           /\ \A j \in DOMAIN RemoveAt(q, i) : \E n \in DOMAIN q : RemoveAt(q, i)[j] = q[n]
<1> DEFINE a == SubSeq(q, 1, i - 1)
           b == SubSeq(q, i + 1, Len(q))
<1>1. i \in 1..Len(q) /\ Len(q) \in Nat
  OBVIOUS
<1>2. /\ a \in Seq(S) /\ Len(a) = i - 1 /\ b \in Seq(S) /\ Len(b) = Len(q) - i
      /\ \A j \in 1..(i - 1) : a[j] = q[j]
      /\ \A j \in 1..(Len(q) - i) : b[j] = q[i + j]
  BY <1>1
<1> HIDE DEF a, b
<1>3. /\ a \o b \in Seq(S) /\ Len(a \o b) = Len(q) - 1
      /\ \A j \in 1..(Len(q) - 1) : (a \o b)[j] = IF j <= i - 1 THEN a[j] ELSE b[j - (i - 1)]
  <2>1. /\ a \o b \in Seq(S) /\ Len(a \o b) = Len(a) + Len(b)
        /\ \A j \in 1..(Len(a) + Len(b)) : (a \o b)[j] = IF j <= Len(a) THEN a[j] ELSE b[j - Len(a)]
    BY <1>2, ConcatProperties
  <2>2. Len(a) + Len(b) = Len(q) - 1
    BY <1>1, <1>2
  <2> QED BY <1>2, <2>1, <2>2
<1>4. ASSUME NEW j \in 1..(Len(q) - 1) PROVE \E n \in DOMAIN q : (a \o b)[j] = q[n]
  <2>1. CASE j <= i - 1
    BY <1>1, <1>2, <1>3, <2>1
  <2>2. CASE ~(j <= i - 1)
    <3>1. j - (i - 1) \in 1..(Len(q) - i) /\ i + (j - (i - 1)) = j + 1 /\ j + 1 \in DOMAIN q
      BY <1>1, <2>2
    <3>2. (a \o b)[j] = q[j + 1]
      BY <1>2, <1>3, <2>2, <3>1
    <3> QED BY <3>1, <3>2
  <2> QED BY <2>1, <2>2
<1>5. RemoveAt(q, i) = a \o b
  BY DEF RemoveAt, a, b
<1>6. DOMAIN (a \o b) = 1..(Len(q) - 1)
  BY <1>1, <1>3
<1> QED BY <1>3, <1>4, <1>5, <1>6
-----------------------------------------------------------------------------
(* The server sees what it is specified for.                                 *)

\* The statements of a request between its beginning and its end.
Inner(s) ==
    \/ SkipElem(s) \/ Take(s) \/ Refuse(s) \/ SetCount(s)
    \/ CreateTag(s) \/ AssignTag(s) \/ SetStatus(s)

\* A post reaches the server as a request for a kit of the session.
LEMMA ArriveReceives ==
    ASSUME KitInv, NEW p \in Clients, NEW i \in DOMAIN posts[p], Arrive(p, i)
    PROVE  /\ view[p] \in KitsOf[SessionOf[p]] /\ view[p] \in Kits
           /\ page[p] # "new"
           /\ posts[p][i] \in Requests[view[p]]
           /\ Receive(SessionOf[p], p, view[p], posts[p][i])
<1>1. posts[p] # <<>>
  BY DEF KitInv, PageInv, PageTypes
<1>2. page[p] # "new" /\ view[p] \in KitsOf[SessionOf[p]] /\ posts[p][i] \in PageRequests(view[p])
  BY <1>1 DEF KitInv, PageInv, ViewInv
<1>3. SessionOf[p] \in Sessions /\ view[p] \in Kits
  BY <1>2, PageAssumption, ServerAssumption
<1> QED BY <1>2, <1>3, PostsServed DEF Arrive

LEMMA ServerStep == KitInv /\ [Next]_vars => [ServerNext]_serverVars
<1> SUFFICES ASSUME KitInv, [Next]_vars PROVE [ServerNext]_serverVars
  OBVIOUS
<1>1. ASSUME NEW p \in Clients, NEW i \in DOMAIN posts[p], Arrive(p, i) PROVE ServerNext
  <2>1. SessionOf[p] \in Sessions
    BY PageAssumption
  <2> QED BY <1>1, <2>1, ArriveReceives DEF ServerNext
<1>2. ASSUME NEW s \in Sessions, ServeStep(s) PROVE ServerNext
  BY <1>2 DEF ServeStep, Reply, ServerNext, Serve
<1>3. ASSUME NEW t \in Tags, Scan(t) PROVE ServerNext
  BY <1>3 DEF Scan, ServerNext
<1>4. ASSUME NEW p \in Clients, NEW k \in KitsOf[SessionOf[p]], OpenPage(p, k)
      PROVE  UNCHANGED serverVars
  BY <1>4 DEF OpenPage
<1>5. ASSUME NEW p \in Clients,
             \/ LeavePage(p) \/ SyncKits(p) \/ Merges(p)
             \/ \E g \in Groups, v \in Quantities \cup {NULL} : Enter(p, g, v)
             \/ \E g \in Groups : ClickLabel(p, g)
             \/ \E i \in DOMAIN posts[p] : LosePost(p, i)
             \/ \E i \in DOMAIN replies[p] : LoseReply(p, i)
      PROVE  UNCHANGED serverVars
  BY <1>5 DEF LeavePage, SyncKits, Merges, SyncResult, Enter, ClickLabel, LosePost, LoseReply
<1>6. CASE UNCHANGED vars
  BY <1>6 DEF vars, serverVars
<1>7. CASE Next
  BY <1>7, <1>1, <1>2, <1>3, <1>4, <1>5 DEF Next, Arrives
<1> QED BY <1>6, <1>7

\* A statement keeps whom its session serves, and other sessions as they are.
LEMMA InnerStep ==
    ASSUME TypeInv, NEW s \in Sessions, Inner(s)
    PROVE  /\ pc[s] # "idle" /\ pc'[s] # "idle"
           /\ \A t \in Sessions \ {s} : pc'[t] = pc[t]
           /\ UNCHANGED <<client, kit>>
<1>1. pc \in [Sessions -> Points]
  BY DEF TypeInv, ServerTypeOK
<1>2. pc[s] # "idle" /\ UNCHANGED <<client, kit>>
  BY DEF Inner, SkipElem, Take, Refuse, SetCount, CreateTag, AssignTag, SetStatus, AtGroup
<1>3. \E l \in {"next", "count", "pick", "assign"} : pc' = [pc EXCEPT ![s] = l]
  BY DEF Inner, SkipElem, Take, Refuse, SetCount, CreateTag, AssignTag, SetStatus,
         AfterCount, Advance
<1> QED BY <1>1, <1>2, <1>3

\* Counts only take values that a count field can hold.
LEMMA ShowableInner ==
    ASSUME TypeInv, Showable, NEW s \in Sessions, Inner(s)
    PROVE  Showable'
<1>1. CASE SetCount(s)
  <2>1. Elem(s).value \in Quantities /\ todo[s] # <<>> /\ IsGroup(Elem(s))
    BY <1>1 DEF TypeInv, ControlInv, InRow, SetCount
  <2> QED BY <1>1, <2>1 DEF SetCount, Showable
<1>2. CASE ~SetCount(s)
  <2>1. UNCHANGED count
    BY <1>2 DEF Inner, SkipElem, Take, Refuse, CreateTag, AssignTag, SetStatus, db
  <2> QED BY <2>1 DEF Showable
<1> QED BY <1>1, <1>2

-----------------------------------------------------------------------------
(* The pages keep their invariant.                                           *)

LEMMA ViewFrame ==
    ASSUME NEW q \in Clients, ViewInv(q),
           page'[q] = page[q], view'[q] = view[q], rows'[q] = rows[q],
           posts'[q] = posts[q], replies'[q] = replies[q]
    PROVE  ViewInv(q)'
  BY DEF ViewInv, Loaded, HasRow, Shown

\* What the pages do by themselves leaves the requests being served alone.
LEMMA ServedFrame ==
    ASSUME NEW s \in Sessions, ServedInv(s), UNCHANGED <<pc, client, kit>>,
           \A q \in Clients : page[q] # "new" => page'[q] # "new" /\ view'[q] = view[q]
    PROVE  ServedInv(s)'
  BY DEF ServedInv

\* The rows that a merge builds.
LEMMA MergedType ==
    ASSUME PageInv, NEW p \in Clients, NEW data \in Data(view[p])
    PROVE  /\ Merged(p, data) \in [Groups -> Row \cup {NULL}]
           /\ \A g \in Groups : Merged(p, data)[g] # NULL <=> g \in Shown(p)
<1> DEFINE D == [count : Quantities, inventory : Int, tag : Tags \cup Blank, archived : BOOLEAN]
<1>1. ASSUME NEW g \in Groups, NEW goal \in D PROVE MergedRow(p, g, goal) \in Row
  <2>1. goal.count \in Quantities /\ goal.archived \in BOOLEAN
    OBVIOUS
  <2>2. NewTr(g, goal) \in Row
    BY <2>1 DEF NewTr, Row
  <2>3. ASSUME NEW row \in Row PROVE UpdatedTr(g, row, goal) \in Row
    BY <2>1 DEF UpdatedTr, Row
  <2>4. HasRow(p, g) => rows[p][g] \in Row
    BY DEF HasRow, PageInv, PageTypes
  <2> QED BY <2>2, <2>3, <2>4 DEF MergedRow
<1>2. data \in [Shown(p) -> D]
  BY DEF Data, Shown
<1>3. NULL \notin Row
  BY PageAssumption
<1> HIDE DEF D
<1> QED BY <1>1, <1>2, <1>3 DEF Merged, Shown

\* A step of page p on its own.
LEMMA OwnStep ==
    ASSUME PageInv, NEW p \in Clients, PageTypes', ViewInv(p)', UNCHANGED <<count, pc, client, kit>>,
           \A q \in Clients \ {p} :
              /\ page'[q] = page[q] /\ view'[q] = view[q] /\ rows'[q] = rows[q]
              /\ posts'[q] = posts[q] /\ replies'[q] = replies[q],
           page[p] # "new" => page'[p] # "new" /\ view'[p] = view[p]
    PROVE  PageInv'
<1>1. \A q \in Clients : ViewInv(q)'
  <2>1. ASSUME NEW q \in Clients \ {p} PROVE ViewInv(q)'
    <3>1. ViewInv(q)
      BY DEF PageInv
    <3> QED BY <3>1, ViewFrame
  <2> QED BY <2>1
<1>2. \A q \in Clients : page[q] # "new" => page'[q] # "new" /\ view'[q] = view[q]
  OBVIOUS
<1>3. \A s \in Sessions : ServedInv(s)'
  BY <1>2, ServedFrame DEF PageInv
<1>4. Showable'
  BY DEF Showable, PageInv
<1> QED BY <1>1, <1>3, <1>4 DEF PageInv

LEMMA OpenPageKeeps ==
    ASSUME PageInv, NEW p \in Clients, NEW k \in KitsOf[SessionOf[p]], OpenPage(p, k)
    PROVE  PageInv'
<1> USE DEF OpenPage
<1>0. PageTypes /\ ViewInv(p) /\ page[p] = "new"
  BY DEF PageInv
<1>1. k \in Kits /\ SessionOf[p] \in Sessions
  BY PageAssumption, ServerAssumption
<1>2. PageTypes'
  <2>1. posts' \in [Clients -> Seq(Seq(Element))]
    BY <1>0 DEF PageTypes
  <2>2. user' \in [Kits -> Sessions \cup {NULL}]
    BY <1>0, <1>1 DEF PageTypes
  <2>3. ticked' \in [Clients -> BOOLEAN]
    BY <1>0 DEF PageTypes
  <2>4. page' \in [Clients -> {"new", "open", "left"}] /\ view' \in [Clients -> Kits \cup {NULL}]
    BY <1>0, <1>1 DEF PageTypes
  <2> QED BY <1>0, <2>1, <2>2, <2>3, <2>4 DEF PageTypes
<1>3. ViewInv(p)'
  <2>1. page'[p] = "open" /\ view'[p] = k /\ posts'[p] = <<<<>>>>
    BY <1>0 DEF PageTypes
  <2>2. <<>> \in PageRequests(k)
    BY DEF PageRequests
  <2>3. replies'[p] = <<>> /\ rows'[p] = NoRows
    BY <1>0 DEF ViewInv
  <2>4. ~Loaded(p)'
    BY <2>3 DEF Loaded, HasRow, NoRows
  <2>5. \A i \in DOMAIN posts'[p] : posts'[p][i] \in PageRequests(k)
    BY <2>1, <2>2
  <2> QED BY <1>0, <2>1, <2>3, <2>4, <2>5 DEF ViewInv
<1>4. UNCHANGED <<count, pc, client, kit>>
  BY DEF serverVars
<1>5. \A q \in Clients \ {p} :
              /\ page'[q] = page[q] /\ view'[q] = view[q] /\ rows'[q] = rows[q]
              /\ posts'[q] = posts[q] /\ replies'[q] = replies[q]
  BY <1>0 DEF PageTypes
<1> QED BY <1>0, <1>2, <1>3, <1>4, <1>5, OwnStep

LEMMA LeavePageKeeps ==
    ASSUME PageInv, NEW p \in Clients, LeavePage(p)
    PROVE  PageInv'
<1> USE DEF LeavePage
<1>0. PageTypes /\ ViewInv(p) /\ page[p] = "open"
  BY DEF PageInv
<1>1. NoRows \in [Groups -> Row \cup {NULL}]
  BY DEF NoRows
<1>2. PageTypes'
  BY <1>0, <1>1 DEF PageTypes
<1>3. ViewInv(p)'
  <2>1. page'[p] = "left" /\ view'[p] = view[p] /\ posts'[p] = posts[p] /\ replies'[p] = <<>>
        /\ rows'[p] = NoRows
    BY <1>0 DEF PageTypes
  <2>2. ~Loaded(p)'
    BY <2>1 DEF Loaded, HasRow, NoRows
  <2>3. <<>> \in Seq(Data(view[p])')
    OBVIOUS
  <2> QED BY <1>0, <2>1, <2>2, <2>3 DEF ViewInv
<1>4. UNCHANGED <<count, pc, client, kit>>
  BY DEF serverVars
<1>5. \A q \in Clients \ {p} :
              /\ page'[q] = page[q] /\ view'[q] = view[q] /\ rows'[q] = rows[q]
              /\ posts'[q] = posts[q] /\ replies'[q] = replies[q]
  BY <1>0 DEF PageTypes
<1>6. page'[p] # "new" /\ view'[p] = view[p]
  BY <1>0 DEF PageTypes
<1> QED BY <1>0, <1>2, <1>3, <1>4, <1>5, <1>6, OwnStep

\* A step that only changes one row of a page.
LEMMA RowStep ==
    ASSUME PageInv, NEW p \in Clients, NEW g \in Groups, HasRow(p, g), NEW row \in Row,
           rows' = [rows EXCEPT ![p] = [@ EXCEPT ![g] = row]], acts' \in 0..MaxActs,
           UNCHANGED <<serverVars, page, view, ticked, posts, replies, user>>
    PROVE  PageInv'
<1>0. PageTypes /\ ViewInv(p)
  BY DEF PageInv
<1>1. rows \in [Clients -> [Groups -> Row \cup {NULL}]] /\ NULL \notin Row
  BY <1>0, PageAssumption DEF PageTypes
<1>2. rows' \in [Clients -> [Groups -> Row \cup {NULL}]]
  BY <1>1
<1>3. PageTypes'
  BY <1>0, <1>2 DEF PageTypes
<1>4. \A h \in Groups : HasRow(p, h)' <=> HasRow(p, h)
  BY <1>1 DEF HasRow
<1>5. ViewInv(p)'
  <2>1. Loaded(p)' <=> Loaded(p)
    BY <1>4 DEF Loaded
  <2>2. page[p] # "new"
    BY <1>0 DEF ViewInv, HasRow, NoRows
  <2> QED BY <1>0, <1>4, <2>1, <2>2 DEF ViewInv, Shown
<1>6. UNCHANGED <<count, pc, client, kit>>
  BY DEF serverVars
<1>7. \A q \in Clients \ {p} : rows'[q] = rows[q]
  BY <1>1
<1> QED BY <1>3, <1>5, <1>6, <1>7, OwnStep

LEMMA EnterKeeps ==
    ASSUME PageInv, NEW p \in Clients, NEW g \in Groups, NEW v \in Quantities \cup {NULL},
           Enter(p, g, v)
    PROVE  PageInv'
<1> DEFINE row == [rows[p][g] EXCEPT !.input = v]
<1>1. HasRow(p, g) /\ rows[p][g] \in Row /\ rows \in [Clients -> [Groups -> Row \cup {NULL}]]
  BY DEF Enter, HasRow, PageInv, PageTypes
<1>2. row \in Row
  BY <1>1 DEF Row
<1>3. rows' = [rows EXCEPT ![p] = [@ EXCEPT ![g] = row]]
  BY <1>1 DEF Enter
<1>4. acts' \in 0..MaxActs
  BY PageAssumption DEF Enter, PageInv, PageTypes
<1> HIDE DEF row
<1> QED BY <1>1, <1>2, <1>3, <1>4, RowStep DEF Enter

LEMMA ClickLabelKeeps ==
    ASSUME PageInv, NEW p \in Clients, NEW g \in Groups, ClickLabel(p, g)
    PROVE  PageInv'
<1> DEFINE row == [rows[p][g] EXCEPT !.requested = TRUE]
<1>1. HasRow(p, g) /\ rows[p][g] \in Row /\ rows \in [Clients -> [Groups -> Row \cup {NULL}]]
  BY DEF ClickLabel, HasRow, PageInv, PageTypes
<1>2. row \in Row
  BY <1>1 DEF Row
<1>3. rows' = [rows EXCEPT ![p] = [@ EXCEPT ![g] = row]]
  BY <1>1 DEF ClickLabel
<1>4. acts' \in 0..MaxActs
  BY PageAssumption DEF ClickLabel, PageInv, PageTypes
<1> HIDE DEF row
<1> QED BY <1>1, <1>2, <1>3, <1>4, RowStep DEF ClickLabel

\* A loaded page sends a table and changes nothing else that its invariant is about.
LEMMA SyncKitsKeeps ==
    ASSUME PageInv, NEW p \in Clients, SyncKits(p)
    PROVE  PageInv'
<1> USE DEF SyncKits
<1> DEFINE q == SyncRequest(p)
<1>0. PageTypes /\ ViewInv(p) /\ page[p] = "open"
  BY DEF PageInv
<1>1. q \in PageRequests(view[p])
  BY <1>0, SyncRequestType
<1>2. view[p] \in Kits
  BY <1>0, PageAssumption, ServerAssumption DEF ViewInv
<1>3. q \in Seq(Element)
  BY <1>1, <1>2, PostsServed
<1> HIDE DEF q
<1>4. posts' = [posts EXCEPT ![p] = Append(@, q)] /\ posts[p] \in Seq(Seq(Element))
  BY <1>0 DEF q, PageTypes
<1>5. posts' \in [Clients -> Seq(Seq(Element))]
  BY <1>0, <1>3, <1>4 DEF PageTypes
<1>6. PageTypes'
  <2>1. ticked' \in [Clients -> BOOLEAN]
    BY <1>0 DEF PageTypes
  <2> QED BY <1>0, <1>5, <2>1 DEF PageTypes
<1>7. ViewInv(p)'
  <2>1. posts'[p] = Append(posts[p], q)
    BY <1>0, <1>4 DEF PageTypes
  <2>2. \A i \in DOMAIN posts'[p] : posts'[p][i] \in PageRequests(view[p])
    BY <1>0, <1>1, <1>3, <1>4, <2>1 DEF ViewInv
  <2>3. Loaded(p)' <=> Loaded(p)
    BY DEF Loaded, HasRow
  <2> QED BY <1>0, <2>2, <2>3 DEF ViewInv, HasRow, Shown
<1>8. UNCHANGED <<count, pc, client, kit>>
  BY DEF serverVars
<1>9. \A o \in Clients \ {p} : posts'[o] = posts[o]
  BY <1>0, <1>4 DEF PageTypes
<1> QED BY <1>6, <1>7, <1>8, <1>9, OwnStep

\* Posts and answers leave the network.
LEMMA PostsRemoved ==
    ASSUME PageInv, NEW p \in Clients, NEW i \in DOMAIN posts[p],
           posts' = [posts EXCEPT ![p] = RemoveAt(@, i)],
           UNCHANGED <<page, view, rows, ticked, replies, user, acts>>
    PROVE  /\ PageTypes'
           /\ \A q \in Clients : ViewInv(q)'
           /\ page[p] # "new"
<1>0. PageTypes /\ ViewInv(p)
  BY DEF PageInv
<1>1. posts[p] \in Seq(Seq(Element)) /\ posts[p] # <<>> /\ posts'[p] = RemoveAt(posts[p], i)
  BY <1>0 DEF PageTypes
<1>2. page[p] # "new"
  BY <1>0, <1>1 DEF ViewInv
<1>3. /\ posts'[p] \in Seq(Seq(Element))
      /\ \A j \in DOMAIN posts'[p] : \E n \in DOMAIN posts[p] : posts'[p][j] = posts[p][n]
  BY <1>1, Removed
<1>4. posts' \in [Clients -> Seq(Seq(Element))]
  BY <1>0, <1>1, <1>3 DEF PageTypes
<1>5. PageTypes'
  BY <1>0, <1>4 DEF PageTypes
<1>6. ViewInv(p)'
  <2>1. \A j \in DOMAIN posts'[p] : posts'[p][j] \in PageRequests(view[p])
    BY <1>0, <1>3 DEF ViewInv
  <2>2. Loaded(p)' <=> Loaded(p)
    BY DEF Loaded, HasRow
  <2> QED BY <1>0, <1>2, <2>1, <2>2 DEF ViewInv, HasRow, Shown
<1>7. ASSUME NEW q \in Clients \ {p} PROVE ViewInv(q)'
  <2>1. posts'[q] = posts[q] /\ ViewInv(q)
    BY <1>0 DEF PageTypes, PageInv
  <2> QED BY <2>1, ViewFrame
<1> QED BY <1>2, <1>5, <1>6, <1>7

LEMMA RepliesRemoved ==
    ASSUME PageInv, NEW p \in Clients, NEW i \in DOMAIN replies[p],
           replies' = [replies EXCEPT ![p] = RemoveAt(@, i)]
    PROVE  /\ page[p] # "new"
           /\ replies[p][i] \in Data(view[p])
           /\ replies'[p] \in Seq(Data(view[p]))
           /\ DOMAIN replies' = Clients
           /\ \A q \in Clients \ {p} : replies'[q] = replies[q]
<1>0. DOMAIN replies = Clients /\ ViewInv(p)
  BY DEF PageInv, PageTypes
<1>1. replies[p] \in Seq(Data(view[p])) /\ replies[p] # <<>>
  BY <1>0 DEF ViewInv
<1>2. page[p] # "new"
  BY <1>0, <1>1 DEF ViewInv
<1>3. RemoveAt(replies[p], i) \in Seq(Data(view[p]))
  BY <1>1, Removed
<1> QED BY <1>0, <1>1, <1>2, <1>3

LEMMA LosePostKeeps ==
    ASSUME PageInv, NEW p \in Clients, NEW i \in DOMAIN posts[p], LosePost(p, i)
    PROVE  PageInv'
<1>1. PageTypes' /\ \A q \in Clients : ViewInv(q)'
  BY PostsRemoved DEF LosePost
<1>2. \A s \in Sessions : ServedInv(s)'
  BY ServedFrame DEF LosePost, PageInv, serverVars
<1>3. Showable'
  BY DEF Showable, PageInv, LosePost, serverVars
<1> QED BY <1>1, <1>2, <1>3 DEF PageInv

LEMMA LoseReplyKeeps ==
    ASSUME PageInv, NEW p \in Clients, NEW i \in DOMAIN replies[p], LoseReply(p, i)
    PROVE  PageInv'
<1> USE DEF LoseReply
<1>0. PageTypes /\ ViewInv(p)
  BY DEF PageInv
<1>1. /\ page[p] # "new" /\ replies'[p] \in Seq(Data(view[p]))
      /\ DOMAIN replies' = Clients /\ \A q \in Clients \ {p} : replies'[q] = replies[q]
  BY RepliesRemoved
<1>2. PageTypes'
  BY <1>0, <1>1 DEF PageTypes
<1>3. ViewInv(p)'
  <2>1. Loaded(p)' <=> Loaded(p)
    BY DEF Loaded, HasRow
  <2>2. replies'[p] \in Seq(Data(view[p])')
    BY <1>1 DEF Data
  <2> QED BY <1>0, <1>1, <2>1, <2>2 DEF ViewInv, HasRow, Shown
<1>4. UNCHANGED <<count, pc, client, kit>>
  BY DEF serverVars
<1> QED BY <1>1, <1>2, <1>3, <1>4, OwnStep

\* A page merges an answer into its table.
LEMMA SyncResultKeeps ==
    ASSUME PageInv, NEW p \in Clients, NEW i \in DOMAIN replies[p], SyncResult(p, i)
    PROVE  PageInv'
<1> USE DEF SyncResult
<1>0. PageTypes /\ ViewInv(p) /\ page[p] = "open"
  BY DEF PageInv
<1>1. /\ replies[p][i] \in Data(view[p]) /\ replies'[p] \in Seq(Data(view[p]))
      /\ DOMAIN replies' = Clients /\ \A q \in Clients \ {p} : replies'[q] = replies[q]
  BY RepliesRemoved
<1> DEFINE m == Merged(p, replies[p][i])
<1>2. m \in [Groups -> Row \cup {NULL}] /\ \A g \in Groups : m[g] # NULL <=> g \in Shown(p)
  BY <1>1, MergedType
<1> HIDE DEF m
<1>3. rows' = IF ticked[p] THEN [rows EXCEPT ![p] = m] ELSE rows
  BY DEF m
<1>4. /\ rows' \in [Clients -> [Groups -> Row \cup {NULL}]]
      /\ rows'[p] = IF ticked[p] THEN m ELSE rows[p]
      /\ \A q \in Clients \ {p} : rows'[q] = rows[q]
  BY <1>0, <1>2, <1>3 DEF PageTypes
<1>5. PageTypes'
  BY <1>0, <1>1, <1>4 DEF PageTypes
<1>6. ViewInv(p)'
  <2>1. Loaded(p)' => \A g \in Groups : HasRow(p, g)' <=> g \in Shown(p)
    <3>1. CASE ticked[p]
      BY <1>2, <1>4, <3>1 DEF HasRow
    <3>2. CASE ~ticked[p]
      BY <1>0, <1>4, <3>2 DEF ViewInv, Loaded, HasRow
    <3> QED BY <3>1, <3>2
  <2>2. replies'[p] \in Seq(Data(view[p])') /\ Shown(p)' = Shown(p)
    BY <1>1 DEF Data, Shown
  <2> QED BY <1>0, <2>1, <2>2 DEF ViewInv
<1>7. UNCHANGED <<count, pc, client, kit>>
  BY DEF serverVars
<1> QED BY <1>0, <1>1, <1>4, <1>5, <1>6, <1>7, OwnStep

\* A request begins to be served for the page that posted it.
LEMMA ArriveKeeps ==
    ASSUME KitInv, NEW p \in Clients, NEW i \in DOMAIN posts[p], Arrive(p, i)
    PROVE  PageInv'
<1> DEFINE s == SessionOf[p]
<1>0. PageInv /\ ServerTypeOK /\ s \in Sessions
  BY PageAssumption DEF KitInv, TypeInv
<1>1. PageTypes' /\ (\A q \in Clients : ViewInv(q)') /\ page[p] # "new"
  BY <1>0, PostsRemoved DEF Arrive
<1> HIDE DEF s
<1>2. Receive(s, p, view[p], posts[p][i]) /\ UNCHANGED <<page, view>>
  BY DEF Arrive, s
<1>3. \A t \in Sessions : ServedInv(t)'
  <2>1. pc'[s] = "next" /\ client'[s] = p /\ kit'[s] = view[p] /\ SessionOf[p] = s
    BY <1>0, <1>2 DEF Receive, ServerTypeOK, s
  <2>2. ServedInv(s)'
    BY <1>1, <1>2, <2>1 DEF ServedInv
  <2>3. ASSUME NEW t \in Sessions \ {s} PROVE ServedInv(t)'
    <3>1. pc'[t] = pc[t] /\ client'[t] = client[t] /\ kit'[t] = kit[t]
      BY <1>0, <1>2 DEF Receive, ServerTypeOK
    <3>2. ServedInv(t)
      BY <1>0 DEF PageInv
    <3> QED BY <1>2, <3>1, <3>2 DEF ServedInv
  <2> QED BY <2>2, <2>3
<1>4. Showable'
  BY <1>0, <1>2 DEF PageInv, Showable, Receive, db
<1> QED BY <1>1, <1>3, <1>4 DEF PageInv

\* A request ends and its page, if it is still open, is answered for its kit.
LEMMA ReplyKeeps ==
    ASSUME KitInv, NEW s \in Sessions, Reply(s)
    PROVE  PageInv'
<1>0. PageInv /\ PageTypes /\ Showable /\ ServerTypeOK /\ ServedInv(s) /\ Respond(s) /\ pc[s] # "idle"
  BY DEF KitInv, TypeInv, PageInv, Reply, Respond
<1>1. PICK p \in Clients : p = client[s] /\ page[p] # "new" /\ kit[s] = view[p]
  BY <1>0 DEF ServedInv
<1>2. ViewInv(p) /\ view[p] \in Kits
  BY <1>0, <1>1, PageAssumption, ServerAssumption DEF PageInv, ViewInv
<1> DEFINE a == Answer(view[p])
<1>3. a \in Data(view[p])
  BY <1>0, <1>2, AnswerType
<1> HIDE DEF a
<1>4. /\ UNCHANGED <<page, view, rows, ticked, posts, user, acts>>
      /\ replies' = IF page[p] = "open" THEN [replies EXCEPT ![p] = Append(@, a)] ELSE replies
  BY <1>1 DEF Reply, a
<1>5. /\ DOMAIN replies' = Clients
      /\ replies'[p] \in Seq(Data(view[p]))
      /\ \A q \in Clients \ {p} : replies'[q] = replies[q]
  <2>1. replies[p] \in Seq(Data(view[p])) /\ DOMAIN replies = Clients
    BY <1>0, <1>2 DEF PageTypes, ViewInv
  <2>2. Append(replies[p], a) \in Seq(Data(view[p]))
    BY <1>3, <2>1
  <2> QED BY <1>4, <2>1, <2>2
<1>6. PageTypes'
  BY <1>0, <1>4, <1>5 DEF PageTypes
<1>7. \A q \in Clients : ViewInv(q)'
  <2>1. ViewInv(p)'
    <3>1. Loaded(p)' <=> Loaded(p)
      BY <1>4 DEF Loaded, HasRow
    <3>2. replies'[p] \in Seq(Data(view'[p]))
      BY <1>4, <1>5
    <3>3. UNCHANGED <<page, view, rows, posts>>
      BY <1>4
    <3> QED BY <1>1, <1>2, <3>1, <3>2, <3>3 DEF ViewInv, HasRow, Shown
  <2>2. ASSUME NEW q \in Clients \ {p} PROVE ViewInv(q)'
    <3>1. ViewInv(q)
      BY <1>0 DEF PageInv
    <3> QED BY <1>4, <1>5, <3>1, ViewFrame
  <2> QED BY <2>1, <2>2
<1>8. \A t \in Sessions : ServedInv(t)'
  <2>1. pc'[s] = "idle" /\ client'[s] = NULL
    BY <1>0 DEF Respond, ServerTypeOK
  <2>2. ASSUME NEW t \in Sessions \ {s} PROVE ServedInv(t)'
    <3>1. pc'[t] = pc[t] /\ client'[t] = client[t] /\ kit'[t] = kit[t]
      BY <1>0 DEF Respond, ServerTypeOK
    <3>2. ServedInv(t)
      BY <1>0 DEF PageInv
    <3> QED BY <1>4, <3>1, <3>2 DEF ServedInv
  <2> QED BY <2>1, <2>2 DEF ServedInv
<1>9. Showable'
  BY <1>0 DEF Showable, Respond, db
<1> QED BY <1>6, <1>7, <1>8, <1>9 DEF PageInv

\* The statements of a request, and the label reader, do not touch the pages.
LEMMA StatementKeeps ==
    ASSUME KitInv, UNCHANGED pageVars,
           \/ \E s \in Sessions : Inner(s)
           \/ \E t \in Tags : Archive(t)
    PROVE  PageInv'
<1>0. PageInv /\ PageTypes /\ Showable /\ TypeInv
  BY DEF KitInv, PageInv
<1>1. PageTypes'
  BY <1>0 DEF PageTypes, pageVars
<1>2. \A q \in Clients : ViewInv(q)'
  BY <1>0, ViewFrame DEF PageInv, pageVars
<1>3. CASE \E s \in Sessions : Inner(s)
  <2>1. PICK s \in Sessions : Inner(s)
    BY <1>3
  <2>2. \A t \in Sessions : ServedInv(t)'
    <3>1. ASSUME NEW t \in Sessions PROVE ServedInv(t)'
      <4>1. ServedInv(t) /\ (pc'[t] = "idle" <=> pc[t] = "idle") /\ UNCHANGED <<client, kit>>
        BY <1>0, <2>1, InnerStep DEF PageInv
      <4> QED BY <4>1 DEF ServedInv, pageVars
    <3> QED BY <3>1
  <2>3. Showable'
    BY <1>0, <2>1, ShowableInner
  <2> QED BY <1>1, <1>2, <2>2, <2>3 DEF PageInv
<1>4. CASE \E t \in Tags : Archive(t)
  <2>1. UNCHANGED <<count, pc, client, kit, page, view>>
    BY <1>4 DEF Archive, request, pageVars
  <2>2. \A s \in Sessions : ServedInv(s)'
    BY <1>0, <2>1, ServedFrame DEF PageInv
  <2>3. Showable'
    BY <1>0, <2>1 DEF Showable
  <2> QED BY <1>1, <1>2, <2>2, <2>3 DEF PageInv
<1> QED BY <1>3, <1>4

LEMMA PageInvNext == KitInv /\ [Next]_vars => PageInv'
<1> SUFFICES ASSUME KitInv, [Next]_vars PROVE PageInv'
  OBVIOUS
<1>0. PageInv
  BY DEF KitInv
<1>1. ASSUME NEW p \in Clients, NEW k \in KitsOf[SessionOf[p]], OpenPage(p, k) PROVE PageInv'
  BY <1>0, <1>1, OpenPageKeeps
<1>2. ASSUME NEW p \in Clients, LeavePage(p) PROVE PageInv'
  BY <1>0, <1>2, LeavePageKeeps
<1>3. ASSUME NEW p \in Clients, NEW g \in Groups, NEW v \in Quantities \cup {NULL}, Enter(p, g, v)
      PROVE  PageInv'
  BY <1>0, <1>3, EnterKeeps
<1>4. ASSUME NEW p \in Clients, NEW g \in Groups, ClickLabel(p, g) PROVE PageInv'
  BY <1>0, <1>4, ClickLabelKeeps
<1>5. ASSUME NEW p \in Clients, SyncKits(p) PROVE PageInv'
  BY <1>0, <1>5, SyncKitsKeeps
<1>6. ASSUME NEW p \in Clients, NEW i \in DOMAIN posts[p], Arrive(p, i) PROVE PageInv'
  BY <1>6, ArriveKeeps
<1>7. ASSUME NEW p \in Clients, NEW i \in DOMAIN replies[p], SyncResult(p, i) PROVE PageInv'
  BY <1>0, <1>7, SyncResultKeeps
<1>8. ASSUME NEW p \in Clients, NEW i \in DOMAIN posts[p], LosePost(p, i) PROVE PageInv'
  BY <1>0, <1>8, LosePostKeeps
<1>9. ASSUME NEW p \in Clients, NEW i \in DOMAIN replies[p], LoseReply(p, i) PROVE PageInv'
  BY <1>0, <1>9, LoseReplyKeeps
<1>10. ASSUME NEW s \in Sessions, Reply(s) PROVE PageInv'
  BY <1>10, ReplyKeeps
<1>11. ASSUME NEW s \in Sessions, Inner(s), UNCHANGED pageVars PROVE PageInv'
  BY <1>11, StatementKeeps
<1>12. ASSUME NEW t \in Tags, Scan(t) PROVE PageInv'
  BY <1>12, StatementKeeps DEF Scan
<1>13. CASE UNCHANGED vars
  <2>1. PageTypes' /\ Showable'
    BY <1>0, <1>13 DEF PageInv, PageTypes, Showable, vars, serverVars
  <2>2. \A q \in Clients : ViewInv(q)'
    BY <1>0, <1>13, ViewFrame DEF PageInv, vars
  <2>3. \A s \in Sessions : ServedInv(s)'
    BY <1>0, <1>13, ServedFrame DEF PageInv, vars, serverVars
  <2> QED BY <2>1, <2>2, <2>3 DEF PageInv
<1>14. CASE Next
  BY <1>14, <1>1, <1>2, <1>3, <1>4, <1>5, <1>6, <1>7, <1>8, <1>9, <1>10, <1>11, <1>12
  DEF Next, Arrives, Merges, ServeStep, Inner
<1> QED BY <1>13, <1>14

LEMMA KitInvInit == Init => KitInv
<1> SUFFICES ASSUME Init PROVE KitInv
  OBVIOUS
<1> USE DEF Init
<1>1. TypeInv
  BY TypeInvInit
<1>2. PageTypes
  BY PageAssumption DEF PageTypes, NoRows
<1>3. Showable
  BY PageAssumption, ServerAssumption DEF Showable, ServerInit
<1>4. ASSUME NEW p \in Clients PROVE ViewInv(p)
  <2>1. page[p] = "new" /\ posts[p] = <<>> /\ replies[p] = <<>> /\ rows[p] = NoRows
    OBVIOUS
  <2>2. ~Loaded(p)
    BY <2>1 DEF Loaded, HasRow, NoRows
  <2> QED BY <2>1, <2>2 DEF ViewInv
<1>5. \A s \in Sessions : ServedInv(s)
  BY DEF ServerInit, ServedInv
<1> QED BY <1>1, <1>2, <1>3, <1>4, <1>5 DEF KitInv, PageInv

LEMMA KitInvNext == KitInv /\ [Next]_vars => KitInv'
  BY PageInvNext, ServerStep, TypeInvNext DEF KitInv

LEMMA KitInvAlways == Spec => []KitInv
  BY KitInvInit, KitInvNext, PTL DEF Spec

LEMMA KitTypes == KitInv => TypeOK
<1> SUFFICES ASSUME KitInv PROVE TypeOK
  OBVIOUS
<1>1. PageTypes /\ ServerTypeOK
  BY DEF KitInv, PageInv, TypeInv
<1>2. ASSUME NEW p \in Clients, NEW i \in DOMAIN replies[p]
      PROVE  replies[p][i] \in [ToSet(RowsOf[view[p]]) -> Goal]
  <2>1. ViewInv(p) /\ replies[p] \in Seq(Data(view[p])) /\ replies[p] # <<>>
    BY DEF KitInv, PageInv, ViewInv
  <2>2. view[p] \in Kits
    BY <2>1, PageAssumption, ServerAssumption DEF ViewInv
  <2>3. replies[p][i] \in Data(view[p])
    BY <2>1
  <2>4. [count : Quantities, inventory : Int, tag : Tags \cup Blank, archived : BOOLEAN]
          \subseteq Goal
    BY ServerAssumption DEF Goal
  <2>5. ToSet(RowsOf[view[p]]) = {g \in Groups : KitOf[g] = view[p]}
    BY <2>2, KitRows
  <2> QED BY <2>3, <2>4, <2>5 DEF Data
<1> QED BY <1>1, <1>2 DEF TypeOK, PageTypes

\* Pages and server together are type correct, whatever the pages send and in
\* whatever order posts and answers arrive.
THEOREM KittingTypeCorrect == Spec => []TypeOK
  BY KitTypes, KitInvAlways, PTL

\* The kit pages only send what the server is specified for: the composed system
\* is an instance of the server's specification.
THEOREM PagesImplementServer == Spec => ServerImplemented
<1>1. Init => ServerInit
  BY DEF Init
<1> QED BY <1>1, KitInvAlways, ServerStep, PTL DEF Spec, ServerImplemented

\* Whatever pages are open, posts and answers lost or overtaken, stock is never
\* overdrawn (ajax.php line 48); and as long as no kit is worked on in two
\* sessions, every unit debited is in the count of its position and none is lost
\* or made (ajax.php lines 48 and 51).
THEOREM PagesKeepMaterial ==
    /\ Spec => []NoOverdraft
    /\ DisjointKits /\ IsFiniteSet(Groups) => (Spec => []Accounted /\ []Conserved)
<1>1. ServerInit => TypeInv /\ MoveInv /\ NoOverdraft /\ DrawnConserved
  BY TypeInvInit, MoveInvInit, ServerAssumption DEF ServerInit, NoOverdraft, DrawnConserved
<1>2. TypeInv /\ NoOverdraft /\ [ServerNext]_serverVars => TypeInv' /\ NoOverdraft'
  BY TypeInvNext, NoOverdraftNext
<1>3. Spec => []NoOverdraft
  BY <1>1, <1>2, PagesImplementServer, PTL DEF ServerImplemented
<1>4. ASSUME DisjointKits, IsFiniteSet(Groups)
      PROVE  Spec => []Accounted /\ []Conserved
  <2>1. TypeInv /\ MoveInv /\ DrawnConserved /\ [ServerNext]_serverVars
           => TypeInv' /\ MoveInv' /\ DrawnConserved'
    BY <1>4, TypeInvNext, MoveInvNext, DrawnConservedNext
  <2>2. TypeInv /\ MoveInv /\ DrawnConserved => Accounted /\ Conserved
    BY MovedIsDrawn DEF TypeInv, MoveInv, DrawnConserved, Accounted, Conserved
  <2> QED BY <1>1, <2>1, <2>2, PagesImplementServer, PTL DEF ServerImplemented
<1> QED BY <1>3, <1>4
-----------------------------------------------------------------------------
(* Labelled rows.                                                            *)

\* A locked row has no number in it.
LockedEmpty ==
    \A p \in Clients : \A g \in Groups :
        HasRow(p, g) /\ rows[p][g].locked => rows[p][g].input = NULL

\* The table that a page posts has no number for a locked row.
LEMMA SyncRequestSkips ==
    ASSUME NEW p \in Clients, NEW g \in Groups, HasRow(p, g), rows[p][g].input = NULL,
           PageInv, page[p] # "new"
    PROVE  Skips(SyncRequest(p), g)
<1> DEFINE order == RowsOf[view[p]]
           f == [i \in DOMAIN order |-> RowElem(p, order[i])]
           e == [status |-> RowsStatus(p)]
<1>1. Loaded(p) /\ view[p] \in Kits
  BY ServerAssumption, PageAssumption DEF Loaded, PageInv, ViewInv
<1>2. SyncRequest(p) = Append(f, e)
  BY <1>1 DEF SyncRequest
<1>3. order \in Seq(Groups) /\ Len(order) \in Nat /\ DOMAIN order = 1..Len(order)
  BY <1>1, KitRows
<1>4. ASSUME NEW i \in DOMAIN order, f[i].id = g PROVE f[i].value = NULL
  BY <1>4 DEF RowElem
<1>5. ~IsGroup(e)
  BY DEF RowsStatus, IsGroup
<1>6. /\ DOMAIN Append(f, e) = 1..(Len(order) + 1)
      /\ \A i \in 1..Len(order) : Append(f, e)[i] = f[i]
      /\ Append(f, e)[Len(order) + 1] = e
  <2>1. Len(f) = Len(order)
    BY <1>3
  <2> HIDE DEF f, e
  <2> QED BY <1>3, <2>1
<1> HIDE DEF f, e, order
<1>7. ASSUME NEW i \in 1..(Len(order) + 1), IsGroup(Append(f, e)[i]), Append(f, e)[i].id = g
      PROVE  Append(f, e)[i].value = NULL
  <2>1. i # Len(order) + 1
    BY <1>5, <1>6, <1>7
  <2>2. i \in 1..Len(order)
    BY <1>3, <2>1
  <2> QED BY <1>3, <1>4, <1>6, <1>7, <2>2
<1> QED BY <1>2, <1>6, <1>7 DEF Skips

LEMMA TailSkips ==
    ASSUME NEW r \in Seq(Element), r # <<>>, NEW g, Skips(r, g)
    PROVE  Skips(Tail(r), g)
<1>1. \A i \in DOMAIN Tail(r) : i + 1 \in DOMAIN r /\ Tail(r)[i] = r[i + 1]
  OBVIOUS
<1> QED BY <1>1 DEF Skips

\* The statements of a request only shorten what is left of it.
LEMMA InnerSkips ==
    ASSUME TypeInv, NEW s \in Sessions, Inner(s), NEW t \in Sessions, NEW g, Skips(todo[t], g)
    PROVE  Skips(todo'[t], g)
<1>1. todo \in [Sessions -> Seq(Element)]
  BY DEF TypeInv, ServerTypeOK
<1>2. todo[s] # <<>>
  BY DEF TypeInv, ControlInv, InRow, Inner, SkipElem, Take, Refuse, SetCount, CreateTag,
         AssignTag, SetStatus, AtGroup
<1>3. todo' = todo \/ todo' = [todo EXCEPT ![s] = Tail(@)]
  BY DEF Inner, SkipElem, Take, Refuse, SetCount, CreateTag, AssignTag, SetStatus,
         AfterCount, Advance
<1>4. todo'[t] = todo[t] \/ (t = s /\ todo'[t] = Tail(todo[t]))
  BY <1>1, <1>3
<1> QED BY <1>1, <1>2, <1>4, TailSkips

\* A merged row is locked without a number in it.
LEMMA MergedLocked ==
    ASSUME PageInv, NEW p \in Clients, NEW data \in Data(view[p]), NEW g \in Groups,
           Merged(p, data)[g] # NULL, Merged(p, data)[g].locked
    PROVE  Merged(p, data)[g].input = NULL
<1>1. g \in DOMAIN data /\ Merged(p, data)[g] = MergedRow(p, g, data[g])
  BY DEF Merged
<1>2. CASE ~HasRow(p, g) \/ rows[p][g].locked \/ data[g].tag \notin Blank
  <2>1. Merged(p, data)[g] = NewTr(g, data[g])
    BY <1>1, <1>2 DEF MergedRow
  <2>2. NewTr(g, data[g]).locked => NewTr(g, data[g]).input = NULL
    BY DEF NewTr
  <2> QED BY <2>1, <2>2
<1>3. CASE ~(~HasRow(p, g) \/ rows[p][g].locked \/ data[g].tag \notin Blank)
  <2>1. rows[p][g] \in Row /\ ~rows[p][g].locked
    BY <1>3 DEF HasRow, PageInv, PageTypes
  <2>2. MergedRow(p, g, data[g]) = UpdatedTr(g, rows[p][g], data[g])
    BY <1>3 DEF MergedRow
  <2>3. UpdatedTr(g, rows[p][g], data[g]).locked = rows[p][g].locked
    BY <2>1 DEF UpdatedTr, Row
  <2> QED BY <1>1, <2>1, <2>2, <2>3
<1> QED BY <1>2, <1>3

\* Editing one field of a row leaves its other fields, and every other row.
LEMMA RowEdited ==
    ASSUME rows \in [Clients -> [Groups -> Row \cup {NULL}]],
           NEW p \in Clients, NEW g \in Groups, rows[p][g] \in Row,
           \/ \E v \in Quantities \cup {NULL} :
                 ~rows[p][g].locked /\ rows' = [rows EXCEPT ![p][g].input = v]
           \/ rows' = [rows EXCEPT ![p][g].requested = TRUE]
    PROVE  /\ rows'[p][g] \in Row /\ rows'[p][g].locked = rows[p][g].locked
           /\ rows[p][g].locked => rows'[p][g].input = rows[p][g].input
           /\ \A q \in Clients, h \in Groups : q # p \/ h # g => rows'[q][h] = rows[q][h]
<1>1. CASE \E v \in Quantities \cup {NULL} :
             ~rows[p][g].locked /\ rows' = [rows EXCEPT ![p][g].input = v]
  <2>1. PICK v \in Quantities \cup {NULL} :
          ~rows[p][g].locked /\ rows' = [rows EXCEPT ![p][g].input = v]
    BY <1>1
  <2>2. rows'[p][g] = [rows[p][g] EXCEPT !.input = v]
    BY <2>1
  <2>3. rows'[p][g] \in Row /\ rows'[p][g].locked = rows[p][g].locked
    BY <2>2 DEF Row
  <2> QED BY <2>1, <2>3
<1>2. CASE rows' = [rows EXCEPT ![p][g].requested = TRUE]
  <2>1. rows'[p][g] = [rows[p][g] EXCEPT !.requested = TRUE]
    BY <1>2
  <2>2. /\ rows'[p][g] \in Row /\ rows'[p][g].locked = rows[p][g].locked
        /\ rows'[p][g].input = rows[p][g].input
    BY <2>1 DEF Row
  <2> QED BY <1>2, <2>2
<1> QED BY <1>1, <1>2

\* No step puts a number into a locked row, or locks one that has a number.
LEMMA LockedEmptyNext == KitInv /\ LockedEmpty /\ [Next]_vars => LockedEmpty'
<1> SUFFICES ASSUME KitInv, LockedEmpty, [Next]_vars PROVE LockedEmpty'
  OBVIOUS
<1>0. /\ PageInv /\ PageTypes /\ rows \in [Clients -> [Groups -> Row \cup {NULL}]]
  BY DEF KitInv, PageInv, PageTypes
<1>1. ASSUME UNCHANGED rows PROVE LockedEmpty'
  BY <1>1 DEF LockedEmpty, HasRow
<1>2. ASSUME NEW p \in Clients, LeavePage(p) PROVE LockedEmpty'
  BY <1>0, <1>2 DEF LeavePage, LockedEmpty, HasRow, NoRows
<1>3. ASSUME NEW p \in Clients, NEW g \in Groups,
             (\E v \in Quantities \cup {NULL} : Enter(p, g, v)) \/ ClickLabel(p, g)
      PROVE  LockedEmpty'
  <2>1. HasRow(p, g) /\ rows[p][g] \in Row
    BY <1>0, <1>3 DEF Enter, ClickLabel, HasRow
  <2>2. \/ \E v \in Quantities \cup {NULL} :
              ~rows[p][g].locked /\ rows' = [rows EXCEPT ![p][g].input = v]
        \/ rows' = [rows EXCEPT ![p][g].requested = TRUE]
    BY <1>3 DEF Enter, ClickLabel
  <2>3. /\ rows'[p][g].locked => rows[p][g].locked /\ rows'[p][g].input = rows[p][g].input
        /\ \A q \in Clients, h \in Groups : q # p \/ h # g => rows'[q][h] = rows[q][h]
    BY <1>0, <2>1, <2>2, RowEdited
  <2> QED BY <2>1, <2>3 DEF LockedEmpty, HasRow
<1>4. ASSUME NEW p \in Clients, NEW i \in DOMAIN replies[p], SyncResult(p, i) PROVE LockedEmpty'
  <2> DEFINE m == Merged(p, replies[p][i])
  <2>1. rows' = IF ticked[p] THEN [rows EXCEPT ![p] = m] ELSE rows
    BY <1>4 DEF SyncResult
  <2>2. replies[p][i] \in Data(view[p])
    <3>1. replies[p] \in Seq(Data(view[p]))
      BY <1>0 DEF PageInv, ViewInv
    <3> QED BY <3>1
  <2>3. \A g \in Groups : m[g] # NULL /\ m[g].locked => m[g].input = NULL
    BY <1>0, <2>2, MergedLocked
  <2> HIDE DEF m
  <2>4. \A q \in Clients : rows'[q] = rows[q] \/ rows'[q] = m
    BY <1>0, <2>1
  <2> QED BY <2>3, <2>4 DEF LockedEmpty, HasRow
<1>5. ASSUME NEW p \in Clients, NEW k \in KitsOf[SessionOf[p]], OpenPage(p, k)
      PROVE  UNCHANGED rows
  BY <1>5 DEF OpenPage
<1>6. ASSUME NEW p \in Clients,
             \/ SyncKits(p)
             \/ \E i \in DOMAIN posts[p] : Arrive(p, i) \/ LosePost(p, i)
             \/ \E i \in DOMAIN replies[p] : LoseReply(p, i)
      PROVE  UNCHANGED rows
  BY <1>6 DEF SyncKits, Arrive, LosePost, LoseReply
<1>7. ASSUME (\E s \in Sessions : ServeStep(s)) \/ (\E t \in Tags : Scan(t)) PROVE UNCHANGED rows
  BY <1>7 DEF ServeStep, Reply, Scan, pageVars
<1>8. CASE UNCHANGED vars
  BY <1>1, <1>8 DEF vars
<1>9. CASE Next
  BY <1>9, <1>1, <1>2, <1>3, <1>4, <1>5, <1>6, <1>7 DEF Next, Arrives, Merges
<1> QED BY <1>8, <1>9

\* A request that is at a row stores nothing for a position that is settled on
\* the only page of the kit.
LEMMA SettledNotServed ==
    ASSUME OnePagePerKit, KitInv, NEW p \in Clients, NEW g \in Groups, Settled(p, g),
           NEW s \in Sessions, pc[s] \in {"count", "pick", "assign"}
    PROVE  Elem(s).id # g
<1> SUFFICES ASSUME Elem(s).id = g PROVE FALSE
  OBVIOUS
<1>0. KitInv /\ PageInv /\ TypeInv /\ ServerTypeOK /\ ControlInv
  BY DEF KitInv, TypeInv
<1>1. page[p] = "open" /\ HasRow(p, g) /\ rows[p][g].locked
  BY DEF Settled
<1>2. KitOf[g] = view[p] /\ view[p] \in KitsOf[SessionOf[p]]
  BY <1>0, <1>1 DEF PageInv, ViewInv, Loaded, Shown
<1>3. todo[s] # <<>> /\ IsGroup(Elem(s)) /\ Elem(s).value \in Quantities
  BY <1>0 DEF ControlInv, InRow
<1>4. todo[s] \in Seq(Element) /\ 1 \in DOMAIN todo[s] /\ Elem(s) = todo[s][1]
  BY <1>0, <1>3 DEF ServerTypeOK, Elem
<1>5. KitOf[g] = kit[s]
  BY <1>0, <1>3, <1>4 DEF ControlInv, OwnRows
<1>6. /\ client[s] \in Clients /\ SessionOf[client[s]] = s /\ kit[s] = view[client[s]]
      /\ page[client[s]] # "new"
  BY <1>0 DEF PageInv, ServedInv
<1>7. view[client[s]] \in KitsOf[SessionOf[client[s]]]
  BY <1>0, <1>6 DEF PageInv, ViewInv
<1>8. client[s] = p
  BY <1>2, <1>5, <1>6, <1>7 DEF OnePagePerKit
<1>9. Skips(todo[s], g)
  BY <1>6, <1>8 DEF Settled
<1>10. Elem(s).value = NULL
  BY <1>3, <1>4, <1>9 DEF Skips
<1> QED BY <1>3, <1>10, ServerAssumption

\* Only the statements of a request change counts and labels.
LEMMA SettledUntouched ==
    ASSUME OnePagePerKit, KitInv, [Next]_vars, NEW p \in Clients, NEW g \in Groups, Settled(p, g)
    PROVE  count'[g] = count[g] /\ tag'[g] = tag[g]
<1>0. KitInv /\ ServerTypeOK /\ [ServerNext]_serverVars
  BY ServerStep DEF KitInv, TypeInv
<1>1. ASSUME NEW s \in Sessions, SetCount(s) PROVE count'[g] = count[g] /\ tag'[g] = tag[g]
  <2>1. Elem(s).id # g
    BY <1>1, SettledNotServed DEF SetCount
  <2> QED BY <1>0, <1>1, <2>1 DEF SetCount, ServerTypeOK
<1>2. ASSUME NEW s \in Sessions, AssignTag(s) PROVE count'[g] = count[g] /\ tag'[g] = tag[g]
  <2>1. Elem(s).id # g
    BY <1>2, SettledNotServed DEF AssignTag
  <2> QED BY <1>0, <1>2, <2>1 DEF AssignTag, ServerTypeOK
<1>3. ASSUME NEW s \in Sessions,
             \/ \E c \in Clients, k \in KitsOf[s] : \E r \in Requests[k] : Receive(s, c, k, r)
             \/ SkipElem(s) \/ Take(s) \/ Refuse(s) \/ CreateTag(s) \/ SetStatus(s) \/ Respond(s)
      PROVE  count'[g] = count[g] /\ tag'[g] = tag[g]
  BY <1>3 DEF Receive, SkipElem, Take, Refuse, CreateTag, SetStatus, Respond, db
<1>4. ASSUME NEW t \in Tags, Archive(t) PROVE count'[g] = count[g] /\ tag'[g] = tag[g]
  BY <1>4 DEF Archive
<1>5. CASE UNCHANGED serverVars
  BY <1>5 DEF serverVars
<1> QED BY <1>0, <1>1, <1>2, <1>3, <1>4, <1>5 DEF ServerNext, Serve

\* What has to be seen to of a step.
LEMMA SettledFrame ==
    ASSUME NEW q \in Clients, NEW g \in Groups, Settled(q, g), page'[q] = "open", tag'[g] = tag[g],
           HasRow(q, g)', rows'[q][g].locked,
           \A i \in DOMAIN posts'[q] :
              Skips(posts'[q][i], g) \/ \E n \in DOMAIN posts[q] : posts'[q][i] = posts[q][n],
           client'[SessionOf[q]] = q => Skips(todo'[SessionOf[q]], g),
           \A i \in DOMAIN replies'[q] :
              \/ replies'[q][i][g].tag \notin Blank
              \/ \E n \in DOMAIN replies[q] : replies'[q][i] = replies[q][n]
    PROVE  Settled(q, g)'
<1>1. \A i \in DOMAIN posts'[q] : Skips(posts'[q][i], g)
  BY DEF Settled
<1>2. \A i \in DOMAIN replies'[q] : replies'[q][i][g].tag \notin Blank
  BY DEF Settled
<1> QED BY <1>1, <1>2 DEF Settled, Skips

\* A position that is settled stays so, and keeps its count and its label.
LEMMA SettledNext ==
    ASSUME OnePagePerKit, KitInv, LockedEmpty, [Next]_vars, NEW q \in Clients, NEW g \in Groups,
           Settled(q, g), page'[q] = "open"
    PROVE  Settled(q, g)' /\ count'[g] = count[g] /\ tag'[g] = tag[g]
<1> DEFINE z == SessionOf[q]
<1>0. /\ PageInv /\ PageTypes /\ ViewInv(q) /\ TypeInv
      /\ z \in Sessions /\ NULL \notin Clients
      /\ posts \in [Clients -> Seq(Seq(Element))] /\ DOMAIN replies = Clients
      /\ rows \in [Clients -> [Groups -> Row \cup {NULL}]]
      /\ client \in [Sessions -> Clients \cup {NULL}]
      /\ todo \in [Sessions -> Seq(Element)] /\ page \in [Clients -> {"new", "open", "left"}]
  BY PageAssumption DEF KitInv, PageInv, PageTypes, TypeInv, ServerTypeOK
<1>a. count'[g] = count[g] /\ tag'[g] = tag[g]
  BY SettledUntouched
<1>b. /\ page[q] = "open" /\ HasRow(q, g) /\ rows[q][g].locked /\ tag[g] \notin Blank
      /\ rows[q][g] \in Row
      /\ \A i \in DOMAIN posts[q] : Skips(posts[q][i], g)
      /\ client[z] = q => Skips(todo[z], g)
      /\ \A i \in DOMAIN replies[q] : replies[q][i][g].tag \notin Blank
  BY <1>0 DEF Settled, HasRow
<1>c. g \in Shown(q) /\ view[q] \in Kits
  BY <1>0, <1>b, ServerAssumption, PageAssumption DEF ViewInv, Loaded
<1> HIDE DEF z
<1>1. ASSUME rows'[q][g] = rows[q][g], posts'[q] = posts[q], replies'[q] = replies[q],
             client'[z] = q => Skips(todo'[z], g)
      PROVE  Settled(q, g)'
  BY <1>1, <1>a, <1>b, SettledFrame DEF HasRow, z
<1>2. ASSUME NEW p \in Clients, NEW k \in KitsOf[SessionOf[p]], OpenPage(p, k)
      PROVE  Settled(q, g)'
  <2>1. /\ UNCHANGED <<client, todo, rows, replies>> /\ page[p] = "new"
        /\ posts' = [posts EXCEPT ![p] = <<<<>>>>]
    BY <1>2 DEF OpenPage, serverVars
  <2> QED BY <1>0, <1>1, <1>b, <2>1
<1>3. ASSUME NEW p \in Clients, LeavePage(p) PROVE Settled(q, g)'
  <2>1. /\ UNCHANGED <<client, todo, posts>> /\ rows' = [rows EXCEPT ![p] = NoRows]
        /\ replies' = [replies EXCEPT ![p] = <<>>] /\ page' = [page EXCEPT ![p] = "left"]
    BY <1>3 DEF LeavePage, serverVars
  <2>2. q # p
    BY <1>0, <2>1
  <2> QED BY <1>0, <1>1, <1>b, <2>1, <2>2
<1>4. ASSUME NEW p \in Clients, NEW h \in Groups,
             (\E v \in Quantities \cup {NULL} : Enter(p, h, v)) \/ ClickLabel(p, h)
      PROVE  Settled(q, g)'
  <2>1. UNCHANGED <<client, todo, posts, replies>> /\ rows[p][h] \in Row
    BY <1>0, <1>4 DEF Enter, ClickLabel, HasRow, serverVars
  <2>2. \/ \E v \in Quantities \cup {NULL} :
              ~rows[p][h].locked /\ rows' = [rows EXCEPT ![p][h].input = v]
        \/ rows' = [rows EXCEPT ![p][h].requested = TRUE]
    BY <1>4 DEF Enter, ClickLabel
  <2>3. rows'[q][g] # NULL /\ rows'[q][g].locked
    <3>1. CASE q = p /\ g = h
      <4>1. rows'[p][h] \in Row /\ rows'[p][h].locked = rows[p][h].locked
        BY <1>0, <2>1, <2>2, RowEdited, Zenon
      <4> QED BY <1>b, <3>1, <4>1, PageAssumption
    <3>2. CASE ~(q = p /\ g = h)
      <4>1. rows'[q][g] = rows[q][g]
        BY <1>0, <2>2, <3>2
      <4> QED BY <1>b, <4>1 DEF HasRow
    <3> QED BY <3>1, <3>2
  <2> QED BY <1>a, <1>b, <2>1, <2>3, SettledFrame DEF HasRow, z
<1>5. ASSUME NEW p \in Clients, SyncKits(p) PROVE Settled(q, g)'
  <2> DEFINE r == SyncRequest(p)
  <2>1. /\ UNCHANGED <<client, todo, rows, replies>>
        /\ posts' = [posts EXCEPT ![p] = Append(@, r)]
    BY <1>5 DEF SyncKits, serverVars
  <2>2. q = p => Skips(r, g)
    <3>1. rows[q][g].input = NULL
      BY <1>b DEF LockedEmpty
    <3> QED BY <1>0, <1>b, <3>1, SyncRequestSkips
  <2> HIDE DEF r
  <2>3. ASSUME NEW i \in DOMAIN posts'[q] PROVE Skips(posts'[q][i], g)
    <3>1. CASE q = p
      <4>1. posts'[q] = Append(posts[q], r) /\ posts[q] \in Seq(Seq(Element))
        BY <1>0, <2>1, <3>1
      <4>2. posts'[q][i] = r \/ (i \in DOMAIN posts[q] /\ posts'[q][i] = posts[q][i])
        BY <2>3, <4>1
      <4> QED BY <1>b, <2>2, <3>1, <4>2
    <3>2. CASE q # p
      BY <1>0, <1>b, <2>1, <2>3, <3>2
    <3> QED BY <3>1, <3>2
  <2> QED BY <1>a, <1>b, <2>1, <2>3, SettledFrame DEF HasRow, z
<1>6. ASSUME NEW p \in Clients, NEW i \in DOMAIN posts[p],
             posts' = [posts EXCEPT ![p] = RemoveAt(@, i)], UNCHANGED <<rows, replies>>,
             client'[z] = q => Skips(todo'[z], g)
      PROVE  Settled(q, g)'
  <2>1. \A j \in DOMAIN RemoveAt(posts[p], i) :
           \E n \in DOMAIN posts[p] : RemoveAt(posts[p], i)[j] = posts[p][n]
    BY <1>0, Removed
  <2>2. \A j \in DOMAIN posts'[q] : \E n \in DOMAIN posts[q] : posts'[q][j] = posts[q][n]
    BY <1>0, <1>6, <2>1
  <2> QED BY <1>6, <1>a, <1>b, <2>2, SettledFrame DEF HasRow, z
<1>7. ASSUME NEW p \in Clients, NEW i \in DOMAIN posts[p], Arrive(p, i) PROVE Settled(q, g)'
  <2>1. /\ UNCHANGED <<rows, replies>> /\ posts' = [posts EXCEPT ![p] = RemoveAt(@, i)]
        /\ client' = [client EXCEPT ![SessionOf[p]] = p]
        /\ todo' = [todo EXCEPT ![SessionOf[p]] = posts[p][i]]
    BY <1>7 DEF Arrive, Receive
  <2>2. client'[z] = q => Skips(todo'[z], g)
    <3>1. CASE q = p
      BY <1>0, <1>b, <2>1, <3>1 DEF z
    <3>2. CASE q # p /\ z = SessionOf[p]
      BY <1>0, <2>1, <3>2
    <3>3. CASE z # SessionOf[p]
      BY <1>0, <1>b, <2>1, <3>3
    <3> QED BY <3>1, <3>2, <3>3
  <2> QED BY <1>6, <2>1, <2>2
<1>8. ASSUME NEW p \in Clients, NEW i \in DOMAIN posts[p], LosePost(p, i) PROVE Settled(q, g)'
  <2>1. /\ UNCHANGED <<client, todo, rows, replies>>
        /\ posts' = [posts EXCEPT ![p] = RemoveAt(@, i)]
    BY <1>8 DEF LosePost, serverVars
  <2> QED BY <1>6, <1>b, <2>1
<1>9. ASSUME NEW p \in Clients, NEW i \in DOMAIN replies[p],
             replies' = [replies EXCEPT ![p] = RemoveAt(@, i)]
      PROVE  \A j \in DOMAIN replies'[q] : \E n \in DOMAIN replies[q] : replies'[q][j] = replies[q][n]
  <2>1. replies[p] \in Seq(Data(view[p]))
    BY <1>0 DEF PageInv, ViewInv
  <2>2. \A j \in DOMAIN RemoveAt(replies[p], i) :
           \E n \in DOMAIN replies[p] : RemoveAt(replies[p], i)[j] = replies[p][n]
    BY <2>1, Removed
  <2> QED BY <1>0, <1>9, <2>2
<1>10. ASSUME NEW p \in Clients, NEW i \in DOMAIN replies[p], SyncResult(p, i) PROVE Settled(q, g)'
  <2> DEFINE m == Merged(p, replies[p][i])
  <2>1. /\ UNCHANGED <<client, todo, posts>>
        /\ rows' = IF ticked[p] THEN [rows EXCEPT ![p] = m] ELSE rows
        /\ replies' = [replies EXCEPT ![p] = RemoveAt(@, i)]
    BY <1>10 DEF SyncResult, serverVars
  <2>2. q = p => m[g] # NULL /\ m[g].locked
    <3> SUFFICES ASSUME q = p PROVE m[g] # NULL /\ m[g].locked
      OBVIOUS
    <3>1. replies[p][i] \in Data(view[p])
      <4>1. replies[p] \in Seq(Data(view[p]))
        BY <1>0 DEF PageInv, ViewInv
      <4> QED BY <4>1
    <3>2. g \in DOMAIN replies[p][i]
      BY <1>c, <3>1 DEF Data, Shown
    <3>3. m[g] = NewTr(g, replies[p][i][g])
      BY <1>b, <3>2 DEF Merged, MergedRow
    <3>4. NewTr(g, replies[p][i][g]).locked
      BY <1>b DEF NewTr
    <3>5. m[g] # NULL
      BY <1>0, <1>c, <3>1, MergedType
    <3> QED BY <3>3, <3>4, <3>5
  <2> HIDE DEF m
  <2>3. rows'[q][g] # NULL /\ rows'[q][g].locked
    <3>1. CASE q = p /\ ticked[p]
      BY <1>0, <2>1, <2>2, <3>1
    <3>2. CASE ~(q = p /\ ticked[p])
      <4>1. rows'[q] = rows[q]
        BY <1>0, <2>1, <3>2
      <4> QED BY <1>b, <4>1 DEF HasRow
    <3> QED BY <3>1, <3>2
  <2> QED BY <1>9, <1>a, <1>b, <2>1, <2>3, SettledFrame DEF HasRow, z
<1>11. ASSUME NEW p \in Clients, NEW i \in DOMAIN replies[p], LoseReply(p, i) PROVE Settled(q, g)'
  <2>1. /\ UNCHANGED <<client, todo, rows, posts>>
        /\ replies' = [replies EXCEPT ![p] = RemoveAt(@, i)]
    BY <1>11 DEF LoseReply, serverVars
  <2> QED BY <1>9, <1>a, <1>b, <2>1, SettledFrame DEF HasRow, z
<1>12. ASSUME NEW s \in Sessions, Reply(s) PROVE Settled(q, g)'
  <2> DEFINE p == client[s]
             answer == Answer(kit[s])
  <2>1. /\ UNCHANGED <<rows, posts, todo>> /\ client' = [client EXCEPT ![s] = NULL]
        /\ replies' = IF page[p] = "open" THEN [replies EXCEPT ![p] = Append(@, answer)]
                                          ELSE replies
        /\ pc[s] # "idle"
    BY <1>12 DEF Reply, Respond
  <2>2. client'[z] = q => client[z] = q
    BY <1>0, <2>1
  <2>3. q = p => answer[g].tag \notin Blank
    <3> SUFFICES ASSUME q = p PROVE answer[g].tag \notin Blank
      OBVIOUS
    <3>1. kit[s] = view[q]
      BY <1>0, <2>1 DEF PageInv, ServedInv
    <3>2. g \in ToSet(RowsOf[kit[s]])
      BY <1>c, <3>1, KitRows DEF Shown
    <3>3. answer[g].tag = tag[g]
      BY <3>2 DEF Answer
    <3> QED BY <1>b, <3>3
  <2> HIDE DEF p, answer
  <2>4. ASSUME NEW i \in DOMAIN replies'[q] PROVE replies'[q][i][g].tag \notin Blank
    <3>1. CASE replies'[q] = replies[q]
      BY <1>b, <2>4, <3>1
    <3>2. CASE q = p /\ replies'[q] = Append(replies[q], answer)
      <4>1. replies[q] \in Seq(Data(view[q]))
        BY <1>0 DEF ViewInv
      <4>2. replies'[q][i] = answer \/ (i \in DOMAIN replies[q] /\ replies'[q][i] = replies[q][i])
        BY <2>4, <3>2, <4>1
      <4> QED BY <1>b, <2>3, <3>2, <4>2
    <3> QED BY <1>0, <2>1, <3>1, <3>2
  <2> QED BY <1>a, <1>b, <2>1, <2>2, <2>4, SettledFrame DEF HasRow, z
<1>13. ASSUME NEW s \in Sessions, Inner(s), UNCHANGED pageVars PROVE Settled(q, g)'
  <2>1. UNCHANGED <<rows, posts, replies, client>>
    BY <1>0, <1>13, InnerStep DEF pageVars
  <2>2. Skips(todo[z], g) => Skips(todo'[z], g)
    BY <1>0, <1>13, InnerSkips
  <2> QED BY <1>1, <1>b, <2>1, <2>2
<1>14. ASSUME UNCHANGED <<rows, posts, replies, client, todo>> PROVE Settled(q, g)'
  BY <1>1, <1>14, <1>b
<1>15. ASSUME NEW t \in Tags, Scan(t) PROVE Settled(q, g)'
  BY <1>14, <1>15 DEF Scan, Archive, request, pageVars
<1>16. CASE UNCHANGED vars
  BY <1>14, <1>16, <1>a DEF vars, serverVars
<1>17. CASE Next
  BY <1>17, <1>a, <1>2, <1>3, <1>4, <1>5, <1>7, <1>8, <1>10, <1>11, <1>12, <1>13, <1>15
  DEF Next, Arrives, Merges, ServeStep, Inner
<1> QED BY <1>a, <1>16, <1>17
=============================================================================
