-------------------------------- MODULE Kitting -------------------------------
(***************************************************************************)
(* Kit pages and the synchronisation server together.  A page is one load  *)
(* of include/page_kit.php in a browser, running static/js/kitstatus.js:   *)
(* every SYNC_INTERVAL it posts its whole table to include/ajax.php        *)
(* (SyncServer) and merges the answer into the table.                      *)
(*                                                                         *)
(* Posts are asynchronous: a page does not wait for an answer before the   *)
(* next post, posts and answers overtake each other, and either can be     *)
(* lost ($.post has no error handler).                                     *)
(***************************************************************************)
EXTENDS SyncServer, SequencesExt

CONSTANTS
    SessionOf,      \* SessionOf[p]: the session whose cookie page p sends
    Admins,         \* the sessions logged in as LTLS_ADMIN
    KitNo,          \* KitNo[k]: kits.id, a number within the order
    RowsOf,         \* RowsOf[k]: the groups of k ORDER BY groups.id
    Lossy,          \* whether posts and answers can get lost
    MaxInFlight,    \* bound on a page's unanswered posts
    MaxActs         \* bound on what users enter and click

\* What a page of kit k can post: nothing before its table is there, then an
\* element for each row in the order of the table and the status of the kit.
TableElems(k) ==
    {f \in [DOMAIN RowsOf[k] -> GroupElem] : \A i \in DOMAIN f : f[i].id = RowsOf[k][i]}

PageRequests(k) ==
    {<<>>} \cup {Append(f, [status |-> n]) : f \in TableElems(k), n \in 0..2}

(***************************************************************************)
(* A row of the table.  A labelled row is locked: it shows its count as    *)
(* text and has no fields.  An unlocked row has a count field and a button *)
(* that requests a label; a click is remembered in its `requested' data.   *)
(***************************************************************************)
Row == [input : Quantities \cup {NULL}, locked : BOOLEAN, final : BOOLEAN,
        enabled : BOOLEAN, requested : BOOLEAN]

ASSUME PageAssumption ==
    /\ SessionOf \in [Clients -> Sessions]
    /\ Admins \subseteq Sessions
    /\ KitNo \in [Kits -> Nat]
    /\ RowsOf \in [Kits -> Seq(Groups)]
    /\ \A k \in Kits : ToSet(RowsOf[k]) = {g \in Groups : KitOf[g] = k}
    /\ \A k \in Kits : PageRequests(k) \subseteq Requests[k]
    /\ \A g \in Groups : FirstCount[g] \in Quantities
    /\ NULL \notin Row \cup Clients
    /\ Lossy \in BOOLEAN
    /\ MaxInFlight \in Nat \ {0}
    /\ MaxActs \in Nat

VARIABLES
    page,       \* page[p]: not loaded yet, open in the browser, or left
    view,       \* view[p]: (current_order_id, current_kit_id) of the page
    rows,       \* rows[p][g]: the table row of g, NULL when there is none
    ticked,     \* ticked[p]: `timestamp>latestSync' holds
    posts,      \* posts[p]: posted requests[] arrays not yet at the server
    replies,    \* replies[p]: answers not yet handled by the page
    user,       \* kits.user_id
    acts        \* how often users entered or clicked something

pageVars == <<page, view, rows, ticked, posts, replies, user, acts>>
vars == <<serverVars, page, view, rows, ticked, posts, replies, user, acts>>

Goal == [count : Int, inventory : Int, tag : Tags \cup Blank, archived : BOOLEAN]

TypeOK ==
    /\ ServerTypeOK
    /\ page \in [Clients -> {"new", "open", "left"}]
    /\ view \in [Clients -> Kits \cup {NULL}]
    /\ rows \in [Clients -> [Groups -> Row \cup {NULL}]]
    /\ ticked \in [Clients -> BOOLEAN]
    /\ posts \in [Clients -> Seq(Seq(Element))]
    /\ \A p \in Clients : \A i \in DOMAIN replies[p] :
           replies[p][i] \in [ToSet(RowsOf[view[p]]) -> Goal]
    /\ user \in [Kits -> Sessions \cup {NULL}]
    /\ acts \in 0..MaxActs

NoRows == [g \in Groups |-> NULL]

\* No kit is open on two pages.
OnePagePerKit ==
    \A p, q \in Clients : p # q => KitsOf[SessionOf[p]] \cap KitsOf[SessionOf[q]] = {}

Init ==
    /\ ServerInit
    /\ page = [p \in Clients |-> "new"]
    /\ view = [p \in Clients |-> NULL]
    /\ rows = [p \in Clients |-> NoRows]
    /\ ticked = [p \in Clients |-> FALSE]
    /\ posts = [p \in Clients |-> <<>>]
    /\ replies = [p \in Clients |-> <<>>]
    /\ user = [k \in Kits |-> NULL]
    /\ acts = 0
-----------------------------------------------------------------------------
(* The browser.                                                              *)

\* page_kit.php, under the session lock: the kit's worker is recorded, without
\* the order in the WHERE clause; then init( ) posts an empty request.
\* Date.now( ) may not have moved since latestSync was set.
OpenPage(p, k) ==
    /\ page[p] = "new"
    /\ pc[SessionOf[p]] = "idle"
    /\ page' = [page EXCEPT ![p] = "open"]
    /\ view' = [view EXCEPT ![p] = k]
    /\ user' = IF SessionOf[p] \in Admins THEN user
               ELSE [h \in Kits |-> IF KitNo[h] = KitNo[k] THEN SessionOf[p]
                                    ELSE user[h]]
    /\ \E b \in BOOLEAN : ticked' = [ticked EXCEPT ![p] = b]
    /\ posts' = [posts EXCEPT ![p] = <<<<>>>>]
    /\ UNCHANGED <<serverVars, rows, replies, acts>>

\* The user goes elsewhere.  Posts already sent are still served.
LeavePage(p) ==
    /\ page[p] = "open"
    /\ page' = [page EXCEPT ![p] = "left"]
    /\ rows' = [rows EXCEPT ![p] = NoRows]
    /\ replies' = [replies EXCEPT ![p] = <<>>]
    /\ UNCHANGED <<serverVars, view, ticked, posts, user, acts>>

HasRow(p, g) == rows[p][g] # NULL

\* The user types into a count field; text that is no number reads as NaN,
\* which JSON.stringify turns into null.
Enter(p, g, v) ==
    /\ acts < MaxActs
    /\ HasRow(p, g) /\ ~rows[p][g].locked
    /\ v # rows[p][g].input
    /\ rows' = [rows EXCEPT ![p][g].input = v]
    /\ acts' = acts + 1
    /\ UNCHANGED <<serverVars, page, view, ticked, posts, replies, user>>

\* The user clicks the enabled `Label Zuweisung' button.
ClickLabel(p, g) ==
    /\ acts < MaxActs
    /\ HasRow(p, g) /\ rows[p][g].enabled /\ ~rows[p][g].requested
    /\ rows' = [rows EXCEPT ![p][g].requested = TRUE]
    /\ acts' = acts + 1
    /\ UNCHANGED <<serverVars, page, view, ticked, posts, replies, user>>

Loaded(p) == \E g \in Groups : HasRow(p, g)

\* Fault: the tests for `final' and `ready' in the wrong order.
RowsStatusReadyFirst(p) ==
    IF \E g \in Groups : HasRow(p, g) /\ rows[p][g].locked THEN 1 ELSE 0

\* Fault: without a labelled row the status keeps the -1 of the rows.
RowsStatusUnset(p) ==
    IF \E g \in Groups : HasRow(p, g) /\ rows[p][g].final THEN 2
    ELSE IF \E g \in Groups : HasRow(p, g) /\ rows[p][g].locked THEN 1
    ELSE -1

\* The status that sync_kits( ) reads off the classes of the rows.
RowsStatus(p) ==
    IF \E g \in Groups : HasRow(p, g) /\ rows[p][g].final THEN 2
    ELSE IF \E g \in Groups : HasRow(p, g) /\ rows[p][g].locked THEN 1
    ELSE 0

RowElem(p, g) == [id |-> g, value |-> rows[p][g].input,
                  tag |-> rows[p][g].requested, status |-> -1]

\* Fault: the status is reported before there is a table.
SyncRequestEarly(p) ==
    LET order == IF Loaded(p) THEN RowsOf[view[p]] ELSE <<>> IN
    Append([i \in DOMAIN order |-> RowElem(p, order[i])], [status |-> RowsStatus(p)])

\* The requests[] array of a sync: all rows, then the status of the kit.
SyncRequest(p) ==
    LET order == RowsOf[view[p]] IN
    IF Loaded(p)
    THEN Append([i \in DOMAIN order |-> RowElem(p, order[i])],
                [status |-> RowsStatus(p)])
    ELSE <<>>

InFlight(p) ==
    Len(posts[p]) + Len(replies[p]) + (IF client[SessionOf[p]] = p THEN 1 ELSE 0)

\* sync_kits( ), called every SYNC_INTERVAL whether or not answers are pending.
SyncKits(p) ==
    /\ page[p] = "open"
    /\ InFlight(p) < MaxInFlight
    /\ posts' = [posts EXCEPT ![p] = Append(@, SyncRequest(p))]
    /\ ticked' = [ticked EXCEPT ![p] = TRUE]
    /\ UNCHANGED <<serverVars, page, view, rows, replies, user, acts>>

NewTr(g, goal) ==
    LET labelled == goal.tag \notin Blank IN
    [input |-> IF labelled THEN NULL ELSE goal.count,
     locked |-> labelled,
     final |-> labelled /\ goal.archived,
     enabled |-> ~labelled /\ goal.count = Target[g],
     requested |-> FALSE]

\* Fault: an entered number is never given up.
UnreachableNever(input, goal) == FALSE

\* The field disagrees with the base and cannot be reached from the inventory.
Unreachable(input, goal) ==
    /\ input # NULL
    /\ input # goal.count
    /\ input - goal.count > goal.inventory

\* An unlocked row keeps what the user entered unless it is unreachable.
UpdatedTr(g, row, goal) ==
    LET input == IF Unreachable(row.input, goal) THEN goal.count ELSE row.input
    IN  [row EXCEPT !.input = input, !.enabled = (input = Target[g])]

\* Fault: a row that has just been labelled is marked as such in place, with its
\* count field and its label request.
MergedRowInPlace(p, g, goal) ==
    IF ~HasRow(p, g) \/ rows[p][g].locked
    THEN NewTr(g, goal)
    ELSE [UpdatedTr(g, rows[p][g], goal) EXCEPT !.locked = goal.tag \notin Blank]

\* A row is built anew when it is missing or when it is or becomes labelled.
MergedRow(p, g, goal) ==
    IF ~HasRow(p, g) \/ rows[p][g].locked \/ goal.tag \notin Blank
    THEN NewTr(g, goal)
    ELSE UpdatedTr(g, rows[p][g], goal)

Merged(p, data) ==
    [g \in Groups |-> IF g \in DOMAIN data THEN MergedRow(p, g, data[g]) ELSE NULL]

\* The callback of a post.  `timestamp' is a global that every post overwrites,
\* so the test only fails until the clock has moved past the page's load.
SyncResult(p, i) ==
    /\ page[p] = "open"
    /\ rows' = IF ticked[p] THEN [rows EXCEPT ![p] = Merged(p, replies[p][i])]
                            ELSE rows
    /\ replies' = [replies EXCEPT ![p] = RemoveAt(@, i)]
    /\ UNCHANGED <<serverVars, page, view, ticked, posts, user, acts>>
-----------------------------------------------------------------------------
(* Network and server.                                                       *)

\* A post reaches the server and gets its session's lock.
Arrive(p, i) ==
    /\ Receive(SessionOf[p], p, view[p], posts[p][i])
    /\ posts' = [posts EXCEPT ![p] = RemoveAt(@, i)]
    /\ UNCHANGED <<page, view, rows, ticked, replies, user, acts>>

LosePost(p, i) ==
    /\ Lossy
    /\ posts' = [posts EXCEPT ![p] = RemoveAt(@, i)]
    /\ UNCHANGED <<serverVars, page, view, rows, ticked, replies, user, acts>>

LoseReply(p, i) ==
    /\ Lossy
    /\ replies' = [replies EXCEPT ![p] = RemoveAt(@, i)]
    /\ UNCHANGED <<serverVars, page, view, rows, ticked, posts, user, acts>>

\* The result of the closing SELECT.
Answer(k) ==
    [g \in ToSet(RowsOf[k]) |->
        [count |-> count[g], inventory |-> inventory[ClassOf[g]],
         tag |-> tag[g], archived |-> archived[g]]]

\* The script ends; a page that was left does not see the answer.
Reply(s) ==
    LET p == client[s] IN
    /\ Respond(s)
    /\ replies' = IF page[p] = "open"
                  THEN [replies EXCEPT ![p] = Append(@, Answer(kit[s]))]
                  ELSE replies
    /\ UNCHANGED <<page, view, rows, ticked, posts, user, acts>>

ServeStep(s) ==
    \/ Reply(s)
    \/ /\ SkipElem(s) \/ Take(s) \/ Refuse(s) \/ SetCount(s)
          \/ CreateTag(s) \/ AssignTag(s) \/ SetStatus(s)
       /\ UNCHANGED pageVars

Scan(t) == Archive(t) /\ UNCHANGED pageVars

Arrives(p) == \E i \in DOMAIN posts[p] : Arrive(p, i)
Merges(p) == \E i \in DOMAIN replies[p] : SyncResult(p, i)

Next ==
    \/ \E p \in Clients :
          \/ \E k \in KitsOf[SessionOf[p]] : OpenPage(p, k)
          \/ LeavePage(p)
          \/ \E g \in Groups, v \in Quantities \cup {NULL} : Enter(p, g, v)
          \/ \E g \in Groups : ClickLabel(p, g)
          \/ SyncKits(p)
          \/ Arrives(p)
          \/ Merges(p)
          \/ \E i \in DOMAIN posts[p] : LosePost(p, i)
          \/ \E i \in DOMAIN replies[p] : LoseReply(p, i)
    \/ \E s \in Sessions : ServeStep(s)
    \/ \E t \in Tags : Scan(t)

(***************************************************************************)
(* Fairness.  The interval timer fires for ever; a script that began runs  *)
(* to its end; the network does not lose or hold back all posts or all     *)
(* answers of a page.  Users and the label reader are under no obligation. *)
(***************************************************************************)
Fairness ==
    /\ \A p \in Clients :
          WF_vars(SyncKits(p)) /\ SF_vars(Arrives(p)) /\ SF_vars(Merges(p))
    /\ \A s \in Sessions : WF_vars(ServeStep(s))

Spec == Init /\ [][Next]_vars /\ Fairness
-----------------------------------------------------------------------------
(* Properties.                                                               *)

\* What a row shows is what the base has: the count of an unlocked row, unless
\* its field holds no number, and whether there is a label.
RowAgrees(p, g) ==
    HasRow(p, g) =>
        /\ rows[p][g].locked <=> tag[g] \notin Blank
        /\ ~rows[p][g].locked /\ rows[p][g].input # NULL => rows[p][g].input = count[g]

\* Once users stop typing, an open page and the base come to agree for good:
\* `the next request should hopefully return an agreeable datum'
\* (kitstatus.js line 103).
PageAgrees ==
    \A p \in Clients :
        <>[](page[p] = "open" => Loaded(p) /\ \A g \in Groups : RowAgrees(p, g))

\* The status that the labels and the label reader imply for a kit.
TrueStatus(k) ==
    LET labelled == {g \in ToSet(RowsOf[k]) : tag[g] \notin Blank} IN
    IF \E g \in labelled : archived[g] THEN 2 ELSE IF labelled # {} THEN 1 ELSE 0

\* As long as its page stays open, the stored status of a kit comes to be the
\* one its labels imply, although every report is computed from an old table
\* (kitstatus.js lines 158 to 200).
StatusSettles ==
    \A p \in Clients :
        <>[](page[p] = "open" => status[view[p]] = TrueStatus(view[p]))

\* `override it only if the count is found to be unreachable from current
\* inventory' (kitstatus.js line 103): an answer replaces an entered number
\* only when the base, as it is at that moment, cannot satisfy it.
OverrideOnlyUnreachable ==
    [][\A p \in Clients : \A g \in Groups :
          Merges(p) /\ HasRow(p, g) /\ HasRow(p, g)'
            /\ ~rows[p][g].locked /\ ~rows'[p][g].locked
            /\ rows'[p][g].input # rows[p][g].input
          => rows[p][g].input - Moved[g] > inventory[ClassOf[g]]]_vars

\* The server ignores what request r says of position g.
Skips(r, g) == \A i \in DOMAIN r : IsGroup(r[i]) /\ r[i].id = g => r[i].value = NULL

\* Position g is labelled, its page p shows that, and nothing that p sent, or is
\* sent, is from before that: no request has a number for g, no answer is without
\* its label.
Settled(p, g) ==
    /\ page[p] = "open" /\ HasRow(p, g) /\ rows[p][g].locked
    /\ tag[g] \notin Blank
    /\ \A i \in DOMAIN posts[p] : Skips(posts[p][i], g)
    /\ client[SessionOf[p]] = p => Skips(todo[SessionOf[p]], g)
    /\ \A i \in DOMAIN replies[p] : replies[p][i][g].tag \notin Blank

\* The step leaves the count and the label of a settled position alone, and the
\* position is still settled afterwards.
SettledStays ==
    \A p \in Clients : \A g \in Groups :
        Settled(p, g) /\ page'[p] = "open"
          => Settled(p, g)' /\ count'[g] = count[g] /\ tag'[g] = tag[g]

\* The pages only send what the server is specified for.
ServerImplemented == ServerInit /\ [][ServerNext]_serverVars
=============================================================================
