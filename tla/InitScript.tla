------------------------------ MODULE InitScript ------------------------------
(***************************************************************************)
(* The initialisation script of include/operations.php: an administrator   *)
(* posts a text, the tables are truncated and filled line by line.  A line *)
(* in brackets selects a section, which decides what the lines after it    *)
(* mean.  Every statement is a transaction of its own, so that scripts     *)
(* posted in two sessions interleave statement by statement.               *)
(*                                                                         *)
(* A line is abstracted to what the sections tell apart: `text' has one    *)
(* field, `pair' has two, `item' has five or more.  All of them also have  *)
(* the text that the TAGS and USERS sections store.                        *)
(***************************************************************************)
EXTENDS Integers, Sequences, FiniteSets

CONSTANTS
    Runners,    \* sessions that post a script
    Posts,      \* what they may post: for each of them a script, a sequence of
                \* lines, or NULL when it posts nothing
    Prefix,     \* Prefix[n]: the leading letters, digits and spaces of n
    NULL,       \* an unset PHP variable
    EMPTY       \* the empty string

\* The sections, numbered from 0 by array_search( ).
Sections == <<"INVENTORY", "TAGS", "ORDER", "KIT", "ITEMS", "USERS">>

Names == DOMAIN Prefix

Line ==
    [kind : {"comment"}]
    \cup [kind : {"section"}, name : STRING]
    \cup [kind : {"text"}, text : Names \cup {EMPTY}]
    \cup [kind : {"pair"}, text : Names, class : Names, amount : Int]
    \cup [kind : {"item"}, text : Names, class : Names, target : Int, count : Int,
          tag : Names \cup {EMPTY}, archived : BOOLEAN]

ASSUME ScriptAssumption ==
    /\ Prefix \in [Names -> Names]
    /\ NULL \notin Int
    /\ \A f \in Posts : /\ DOMAIN f = Runners
                         /\ \A r \in Runners : f[r] = NULL \/ f[r] \in Seq(Line)

VARIABLES
    classes,    \* classes[i]: the row with id i
    tags,       \* the ids in tags
    kitCount,   \* kitCount[o]: orders.kit_count of the order with id o
    kits,       \* kits[<<o, k>>]: kits.group_count of kit k of order o
    groups,     \* the rows of groups
    users,      \* the rows of users, which are never truncated
    script,     \* script[r]: what r posted
    pos,        \* pos[r]: the line r is at
    pc,         \* pc[r]: the next statement of r
    mode,       \* mode[r]: $mode
    orderId,    \* orderId[r]: $order_id
    kitId,      \* kitId[r]: $kit_id
    classId     \* classId[r]: what create_class( ) returned

tables == <<classes, tags, kitCount, kits, groups, users>>
vars == <<classes, tags, kitCount, kits, groups, users,
          script, pos, pc, mode, orderId, kitId, classId>>

Group == [order : Nat, kit : Nat, id : Nat, class : Nat, target : Int, count : Int,
          tag : Names \cup {NULL}, archived : BOOLEAN]

ScriptTypeOK ==
    /\ classes \in Seq([name : Names, inventory : Int])
    /\ tags \subseteq Names \cup {EMPTY}
    /\ kitCount \in Seq(Nat)
    /\ DOMAIN kits \subseteq Nat \X Nat /\ \A k \in DOMAIN kits : kits[k] \in Nat
    /\ groups \subseteq Group
    /\ users \in Seq(Names \cup {EMPTY})
    /\ DOMAIN script = Runners /\ \A r \in Runners : script[r] = NULL \/ script[r] \in Seq(Line)
    /\ pos \in [Runners -> Nat]
    /\ pc \in [Runners -> {"start", "line", "insert", "fill", "tag", "row", "done"}]
    /\ mode \in [Runners -> 0..5]
    /\ orderId \in [Runners -> Nat \cup {NULL}]
    /\ kitId \in [Runners -> Nat \cup {NULL}]
    /\ classId \in [Runners -> Nat \cup {NULL}]

ScriptInit ==
    /\ classes = <<>> /\ tags = {} /\ kitCount = <<>> /\ kits = <<>> /\ groups = {}
    /\ users = <<>>
    /\ script \in Posts
    /\ pos = [r \in Runners |-> 1]
    /\ pc = [r \in Runners |-> "start"]
    /\ mode = [r \in Runners |-> 0]
    /\ orderId = [r \in Runners |-> NULL]
    /\ kitId = [r \in Runners |-> NULL]
    /\ classId = [r \in Runners |-> NULL]
-----------------------------------------------------------------------------
\* TRUNCATE classes,groups,kits,orders,tags RESTART IDENTITY CASCADE
Truncate(r) ==
    /\ pc[r] = "start" /\ script[r] # NULL
    /\ classes' = <<>> /\ tags' = {} /\ kitCount' = <<>> /\ kits' = <<>> /\ groups' = {}
    /\ pc' = [pc EXCEPT ![r] = "line"]
    /\ UNCHANGED <<users, script, pos, mode, orderId, kitId, classId>>

At(r) == script[r][pos[r]]

\* r is about to read a line of this kind.
Reads(r, kind) ==
    /\ pc[r] = "line"
    /\ pos[r] \in DOMAIN script[r]
    /\ At(r).kind = kind

NextLine(r) ==
    /\ pos' = [pos EXCEPT ![r] = @ + 1]
    /\ pc' = [pc EXCEPT ![r] = "line"]

ReadComment(r) ==
    /\ Reads(r, "comment")
    /\ NextLine(r)
    /\ UNCHANGED <<tables, script, mode, orderId, kitId, classId>>

\* array_search( ); the `false' of an unknown section compares equal to 0.
ModeOf(name) ==
    IF \E i \in DOMAIN Sections : Sections[i] = name
    THEN (CHOOSE i \in DOMAIN Sections : Sections[i] = name) - 1
    ELSE 0

\* A section that changes nothing but the mode; a KIT without an ORDER too.
ReadSection(r) ==
    /\ Reads(r, "section")
    /\ ModeOf(At(r).name) # 2
    /\ ModeOf(At(r).name) = 3 => orderId[r] = NULL
    /\ mode' = [mode EXCEPT ![r] = ModeOf(At(r).name)]
    /\ NextLine(r)
    /\ UNCHANGED <<tables, script, orderId, kitId, classId>>

\* [ORDER]: INSERT INTO orders DEFAULT VALUES
ReadOrder(r) ==
    /\ Reads(r, "section")
    /\ ModeOf(At(r).name) = 2
    /\ mode' = [mode EXCEPT ![r] = 2]
    /\ kitCount' = Append(kitCount, 0)
    /\ orderId' = [orderId EXCEPT ![r] = Len(kitCount) + 1]
    /\ kitId' = [kitId EXCEPT ![r] = NULL]
    /\ NextLine(r)
    /\ UNCHANGED <<classes, tags, kits, groups, users, script, classId>>

\* The table of kits with a new kit, which has no items.
WithKit(o, n) ==
    [k \in DOMAIN kits \cup {<<o, n>>} |-> IF k = <<o, n>> THEN 0 ELSE kits[k]]

\* Fault: RETURNING kit_count instead of kit_count-1.
ReadKitOffByOne(r) ==
    LET o == orderId[r] IN
    /\ Reads(r, "section")
    /\ ModeOf(At(r).name) = 3
    /\ o # NULL
    /\ mode' = [mode EXCEPT ![r] = 3]
    /\ IF o \in DOMAIN kitCount
       THEN /\ kitCount' = [kitCount EXCEPT ![o] = @ + 1]
            /\ kits' = WithKit(o, kitCount[o] + 1)
            /\ kitId' = [kitId EXCEPT ![r] = kitCount[o] + 1]
       ELSE /\ kitId' = [kitId EXCEPT ![r] = 0]
            /\ UNCHANGED <<kitCount, kits>>
    /\ NextLine(r)
    /\ UNCHANGED <<classes, tags, groups, users, script, orderId, classId>>

\* [KIT]: one statement counts the kit in its order and inserts it under the
\* old count.  When another script has truncated the order away it affects no
\* row and (int)NULL makes the kit number 0.
ReadKit(r) ==
    LET o == orderId[r] IN
    /\ Reads(r, "section")
    /\ ModeOf(At(r).name) = 3
    /\ o # NULL
    /\ mode' = [mode EXCEPT ![r] = 3]
    /\ IF o \in DOMAIN kitCount
       THEN /\ kitCount' = [kitCount EXCEPT ![o] = @ + 1]
            /\ kits' = WithKit(o, kitCount[o])
            /\ kitId' = [kitId EXCEPT ![r] = kitCount[o]]
       ELSE /\ kitId' = [kitId EXCEPT ![r] = 0]
            /\ UNCHANGED <<kitCount, kits>>
    /\ NextLine(r)
    /\ UNCHANGED <<classes, tags, groups, users, script, orderId, classId>>

IsData(r) == Reads(r, "text") \/ Reads(r, "pair") \/ Reads(r, "item")

\* The line names a class: a pair under INVENTORY, an item under ITEMS.
NamesClass(r) ==
    \/ Reads(r, "pair") /\ mode[r] = 0
    \/ Reads(r, "item") /\ mode[r] = 4

\* A line that does not fit its section is ignored, as are the parameters of
\* orders and kits.
IgnoreLine(r) ==
    /\ IsData(r)
    /\ mode[r] \notin {1, 5}
    /\ ~NamesClass(r)
    /\ NextLine(r)
    /\ UNCHANGED <<tables, script, mode, orderId, kitId, classId>>

\* TAGS: create_rfid( ) of the line, whatever it holds; a duplicate is ignored.
AddTag(r) ==
    /\ IsData(r)
    /\ mode[r] = 1
    /\ tags' = tags \cup {At(r).text}
    /\ NextLine(r)
    /\ UNCHANGED <<classes, kitCount, kits, groups, users, script,
                   mode, orderId, kitId, classId>>

\* USERS: `count( $fields==2 )' is 1 for every line, so every line is a user.
AddUser(r) ==
    /\ IsData(r)
    /\ mode[r] = 5
    /\ users' = Append(users, At(r).text)
    /\ NextLine(r)
    /\ UNCHANGED <<classes, tags, kitCount, kits, groups, script,
                   mode, orderId, kitId, classId>>

\* What follows create_class( ).
AfterClass(r) == pc' = [pc EXCEPT ![r] = IF mode[r] = 0 THEN "fill" ELSE "tag"]

\* Fault: the class is never found.
WithNameNever(n) == {}

WithName(n) == {i \in DOMAIN classes : classes[i].name = n}

\* create_class( ): SELECT id FROM classes WHERE description=...
SelectClass(r) ==
    LET found == WithName(Prefix[At(r).class]) IN
    /\ NamesClass(r)
    /\ \/ /\ found = {}
          /\ pc' = [pc EXCEPT ![r] = "insert"]
          /\ UNCHANGED classId
       \/ /\ \E i \in found : classId' = [classId EXCEPT ![r] = i]
          /\ AfterClass(r)
    /\ UNCHANGED <<tables, script, pos, mode, orderId, kitId>>

\* Fault: a new class has no inventory.
InsertClassNull(r) ==
    /\ pc[r] = "insert"
    /\ classes' = Append(classes, [name |-> Prefix[At(r).class], inventory |-> NULL])
    /\ classId' = [classId EXCEPT ![r] = Len(classes) + 1]
    /\ AfterClass(r)
    /\ UNCHANGED <<tags, kitCount, kits, groups, users, script, pos, mode, orderId, kitId>>

\* create_class( ): INSERT INTO classes(description), with inventory 0.
InsertClass(r) ==
    /\ pc[r] = "insert"
    /\ classes' = Append(classes, [name |-> Prefix[At(r).class], inventory |-> 0])
    /\ classId' = [classId EXCEPT ![r] = Len(classes) + 1]
    /\ AfterClass(r)
    /\ UNCHANGED <<tags, kitCount, kits, groups, users, script, pos, mode, orderId, kitId>>

\* INVENTORY: UPDATE classes SET inventory=... WHERE id=...
FillClass(r) ==
    /\ pc[r] = "fill"
    /\ classes' = [i \in DOMAIN classes |->
                     IF i = classId[r] THEN [classes[i] EXCEPT !.inventory = At(r).amount]
                                       ELSE classes[i]]
    /\ NextLine(r)
    /\ UNCHANGED <<tags, kitCount, kits, groups, users, script,
                   mode, orderId, kitId, classId>>

\* ITEMS: the label of the item is made known if it has one.
ItemTag(r) ==
    /\ pc[r] = "tag"
    /\ tags' = tags \cup ({At(r).tag} \ {EMPTY})
    /\ pc' = [pc EXCEPT ![r] = "row"]
    /\ UNCHANGED <<classes, kitCount, kits, groups, users, script, pos,
                   mode, orderId, kitId, classId>>

KitKey(r) == <<orderId[r], kitId[r]>>

GroupOf(r, l, n) ==
    [order |-> orderId[r], kit |-> kitId[r], id |-> n, class |-> classId[r],
     target |-> l.target, count |-> l.count,
     tag |-> IF l.tag = EMPTY THEN NULL ELSE l.tag, archived |-> l.archived]

\* Fault: RETURNING group_count instead of group_count-1.
InsertItemOffByOne(r) ==
    /\ pc[r] = "row"
    /\ IF KitKey(r) \in DOMAIN kits
       THEN /\ kits' = [kits EXCEPT ![KitKey(r)] = @ + 1]
            /\ groups' = groups \cup {GroupOf(r, At(r), kits[KitKey(r)] + 1)}
       ELSE UNCHANGED <<kits, groups>>
    /\ NextLine(r)
    /\ UNCHANGED <<classes, tags, kitCount, users, script, mode, orderId, kitId, classId>>

\* ITEMS: one statement counts the item in its kit and inserts it under the old
\* count.  Without a kit the statement fails or affects no row.
InsertItem(r) ==
    /\ pc[r] = "row"
    /\ IF KitKey(r) \in DOMAIN kits
       THEN /\ kits' = [kits EXCEPT ![KitKey(r)] = @ + 1]
            /\ groups' = groups \cup {GroupOf(r, At(r), kits[KitKey(r)])}
       ELSE UNCHANGED <<kits, groups>>
    /\ NextLine(r)
    /\ UNCHANGED <<classes, tags, kitCount, users, script, mode, orderId, kitId, classId>>

\* The last line was read.
EndScript(r) ==
    /\ pc[r] = "line"
    /\ pos[r] \notin DOMAIN script[r]
    /\ pc' = [pc EXCEPT ![r] = "done"]
    /\ UNCHANGED <<tables, script, pos, mode, orderId, kitId, classId>>

ScriptStep(r) ==
    \/ Truncate(r) \/ ReadComment(r) \/ ReadSection(r) \/ ReadOrder(r) \/ ReadKit(r)
    \/ IgnoreLine(r) \/ AddTag(r) \/ AddUser(r) \/ SelectClass(r)
    \/ InsertClass(r) \/ FillClass(r) \/ ItemTag(r) \/ InsertItem(r) \/ EndScript(r)

ScriptNext == \E r \in Runners : ScriptStep(r)

ScriptSpec == ScriptInit /\ [][ScriptNext]_vars
-----------------------------------------------------------------------------
(* Properties.                                                               *)

\* The kits of an order are numbered from 0 without a gap, up to the count that
\* the order overview shows (`Anzahl an Kits', page_kitting.php line 30), also
\* when two scripts truncate and fill the tables at the same time
\* (operations.php lines 48 and 55).
KitsNumbered ==
    DOMAIN kits = UNION {{o} \X (0..(kitCount[o] - 1)) : o \in DOMAIN kitCount}

\* The items of a kit are numbered from 0 without a gap or a duplicate, and no
\* item is left without its kit (operations.php line 88): the page and
\* ajax.php line 48 identify a position by (order_id, kit_id, id).
ItemsNumbered ==
    /\ \A g \in groups : /\ <<g.order, g.kit>> \in DOMAIN kits
                         /\ g.id < kits[<<g.order, g.kit>>]
    /\ \A k \in DOMAIN kits : \A n \in 0..(kits[k] - 1) :
          \E g \in groups : <<g.order, g.kit, g.id>> = <<k[1], k[2], n>>
    /\ \A g, h \in groups : g.order = h.order /\ g.kit = h.kit /\ g.id = h.id => g = h

(***************************************************************************)
(* What a script says, defined without running it.                         *)
(***************************************************************************)

\* The section that line i of sc is in.
SectionAt(sc, i) ==
    LET before == {j \in 1..(i - 1) : sc[j].kind = "section"} IN
    IF before = {} THEN 0
    ELSE ModeOf(sc[CHOOSE j \in before : \A k \in before : k <= j].name)

\* The lines from a to b that open section n.
Opens(sc, a, b, n) == {j \in a..b : sc[j].kind = "section" /\ ModeOf(sc[j].name) = n}

\* The number of the order that line i belongs to, and the first line of it.
OrderAt(sc, i) == Cardinality(Opens(sc, 1, i, 2))
OrderStart(sc, i) ==
    CHOOSE j \in Opens(sc, 1, i, 2) : \A k \in Opens(sc, 1, i, 2) : k <= j

\* The number of the kit, -1 before the first [KIT] of the order.
KitAt(sc, i) == Cardinality(Opens(sc, OrderStart(sc, i), i, 3)) - 1

\* The item lines that stand in a kit.
ItemLines(sc) ==
    {i \in DOMAIN sc : /\ sc[i].kind = "item" /\ SectionAt(sc, i) = 4
                       /\ OrderAt(sc, i) > 0 /\ KitAt(sc, i) >= 0}

\* The item number of line i.
ItemAt(sc, i) ==
    Cardinality({j \in ItemLines(sc) : /\ j < i /\ OrderAt(sc, j) = OrderAt(sc, i)
                                       /\ KitAt(sc, j) = KitAt(sc, i)})

\* A script that had the tables to itself has loaded what it says: each item is
\* in the order, kit and place that it stands under, with its class, and each
\* class has the inventory given last (operations.php lines 39 to 89).
LoadedAsWritten ==
    \A r \in Runners : pc[r] = "done" /\ (\A q \in Runners \ {r} : pc[q] = "start") =>
        LET sc == script[r]
            fills(n) == {i \in DOMAIN sc : /\ sc[i].kind = "pair" /\ SectionAt(sc, i) = 0
                                           /\ Prefix[sc[i].class] = n}
        IN  /\ {<<g.order, g.kit, g.id, classes[g.class].name, g.target>> : g \in groups}
               = {<<OrderAt(sc, i), KitAt(sc, i), ItemAt(sc, i), Prefix[sc[i].class],
                    sc[i].target>> : i \in ItemLines(sc)}
            /\ \A i, j \in DOMAIN classes : classes[i].name = classes[j].name => i = j
            /\ \A i \in DOMAIN classes :
                  LET lines == fills(classes[i].name) IN
                  classes[i].inventory =
                      IF lines = {} THEN 0
                      ELSE sc[CHOOSE l \in lines : \A k \in lines : k <= l].amount
=============================================================================
