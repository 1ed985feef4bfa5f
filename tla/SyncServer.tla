------------------------------ MODULE SyncServer ------------------------------
(***************************************************************************)
(* The server side of kit synchronisation: include/ajax.php, run by one    *)
(* PHP process per HTTP request, over the PostgreSQL tables classes,       *)
(* groups, kits and tags.                                                  *)
(*                                                                         *)
(* Every pg_query is a transaction of its own (autocommit), so one SQL     *)
(* statement is one atomic step and the statements of different sessions   *)
(* interleave.  session_start() (index.php) holds PHP's session lock until *)
(* the script ends, so a session serves one request at a time: the state   *)
(* of the request being served is kept per session.                        *)
(*                                                                         *)
(* A row of groups is one position of a kit's bill of material: `count'    *)
(* units of its class were taken towards `target', and once it is complete *)
(* it can be labelled with an RFID tag.                                    *)
(***************************************************************************)
EXTENDS Integers, Sequences, Functions

CONSTANTS
    Sessions,   \* PHP sessions (logged-in browsers)
    Clients,    \* the pages that requests come from
    Kits,       \* rows of kits, identified by (order_id, id)
    Groups,     \* rows of groups
    Classes,    \* rows of classes, the stock positions
    Tags,       \* rows of tags, the RFID labels
    NULL,       \* SQL NULL and JSON null
    EMPTY,      \* the empty string
    Quantities, \* the numbers a count field can hold
    KitOf,      \* KitOf[g]: the kit of group g
    ClassOf,    \* ClassOf[g]: groups.class_id
    Target,     \* Target[g]: groups.target
    Stock,      \* Stock[c]: the inventory loaded for class c
    FirstCount, \* FirstCount[g], FirstTag[g], FirstArchived[g]: what the
    FirstTag,   \* initialisation script, or reset.php, stored for position g
    FirstArchived,
    KitsOf,     \* KitsOf[s]: the kits that session s works on
    Requests    \* Requests[k]: the requests[] arrays posted for kit k

(***************************************************************************)
(* An element of the posted requests[] array.  The page sends one per row  *)
(* of its table (status -1) and one with the kit's status.  A row without  *)
(* a numeric input field has value null.                                   *)
(***************************************************************************)
GroupElem == [id : Groups, value : Quantities \cup {NULL}, tag : BOOLEAN, status : {-1}]
StatusElem == [status : Nat]
Element == GroupElem \cup StatusElem

\* `if ( (int)( $json->status ) < 0 )'
IsGroup(e) == e.status < 0

\* What groups.tag_id holds for a position without a label: NULL from the
\* initialisation script and create_tag( ), '' from reset.php.
Blank == {NULL, EMPTY}

ASSUME ServerAssumption ==
    /\ NULL \notin Int
    /\ Quantities \subseteq Int
    /\ Blank \cap Tags = {}
    /\ KitOf \in [Groups -> Kits]
    /\ ClassOf \in [Groups -> Classes]
    /\ Target \in [Groups -> Int]
    /\ Stock \in [Classes -> Nat]
    /\ FirstCount \in [Groups -> Int]
    /\ FirstTag \in [Groups -> Tags \cup Blank]
    /\ FirstArchived \in [Groups -> BOOLEAN]
    /\ KitsOf \in [Sessions -> SUBSET Kits]
    /\ Requests \in [Kits -> SUBSET Seq(Element)]
    /\ \A k \in Kits : \A r \in Requests[k] : \A i \in DOMAIN r :
           IsGroup(r[i]) => KitOf[r[i].id] = k

\* Each kit is worked on in one session only.
DisjointKits ==
    \A s, t \in Sessions : s # t => KitsOf[s] \cap KitsOf[t] = {}

\* The base is loaded with no label on two positions.
FirstTagsUnique ==
    \A g, h \in Groups : g # h /\ FirstTag[g] = FirstTag[h] => FirstTag[g] \in Blank

OneSession == \A s, t \in Sessions : s = t

VARIABLES
    inventory,  \* classes.inventory
    count,      \* groups.count
    tag,        \* groups.tag_id
    archived,   \* groups.archived
    status,     \* kits.status
    pc,         \* pc[s]: the next statement of the request s is serving
    client,     \* client[s]: the page that waits for the answer
    kit,        \* kit[s]: $current_kit
    todo,       \* todo[s]: the elements not yet handled, the current one first
    free,       \* free[s]: the tag create_tag( ) returned
    drawn       \* history: drawn[g] is what g was loaded with and what was
                \* debited from stock for g since

db == <<inventory, count, tag, archived, status>>
request == <<pc, client, kit, todo, free>>
serverVars == <<inventory, count, tag, archived, status,
                pc, client, kit, todo, free, drawn>>

\* Where a request can be: before the statement named.
Points == {"idle", "next", "count", "pick", "assign"}

ServerTypeOK ==
    /\ inventory \in [Classes -> Int]
    /\ count \in [Groups -> Int]
    /\ tag \in [Groups -> Tags \cup Blank]
    /\ archived \in [Groups -> BOOLEAN]
    /\ status \in [Kits -> Nat]
    /\ pc \in [Sessions -> Points]
    /\ client \in [Sessions -> Clients \cup {NULL}]
    /\ kit \in [Sessions -> Kits \cup {NULL}]
    /\ todo \in [Sessions -> Seq(Element)]
    /\ free \in [Sessions -> Tags \cup {NULL}]
    /\ drawn \in [Groups -> Int]

\* The database as it was loaded.
ServerInit ==
    /\ inventory = Stock
    /\ count = FirstCount
    /\ tag = FirstTag
    /\ archived = FirstArchived
    /\ status = [k \in Kits |-> 0]
    /\ pc = [s \in Sessions |-> "idle"]
    /\ client = [s \in Sessions |-> NULL]
    /\ kit = [s \in Sessions |-> NULL]
    /\ todo = [s \in Sessions |-> <<>>]
    /\ free = [s \in Sessions |-> NULL]
    /\ drawn = FirstCount
-----------------------------------------------------------------------------
(* Serving one request.                                                      *)

\* session_start( ) got the session lock, the current kit was looked up and
\* the loop over $_POST[ "requests" ] begins.
Receive(s, c, k, r) ==
    /\ pc[s] = "idle"
    /\ pc' = [pc EXCEPT ![s] = "next"]
    /\ client' = [client EXCEPT ![s] = c]
    /\ kit' = [kit EXCEPT ![s] = k]
    /\ todo' = [todo EXCEPT ![s] = r]
    /\ UNCHANGED <<db, free, drawn>>

Elem(s) == Head(todo[s])

\* The current element is a row of the kit table.
AtGroup(s) ==
    /\ pc[s] = "next"
    /\ todo[s] # <<>>
    /\ IsGroup(Elem(s))

\* Done with the current element: on to the next iteration of the loop.
Advance(s) ==
    /\ pc' = [pc EXCEPT ![s] = "next"]
    /\ todo' = [todo EXCEPT ![s] = Tail(@)]

\* The rest of the iteration once the count is dealt with: `if( $tag )'.
AfterCount(s) ==
    \/ Elem(s).tag /\ pc' = [pc EXCEPT ![s] = "pick"] /\ todo' = todo
    \/ ~Elem(s).tag /\ Advance(s)

\* `isset( $json->value )' fails: the element is ignored.
SkipElem(s) ==
    /\ AtGroup(s)
    /\ Elem(s).value = NULL
    /\ Advance(s)
    /\ UNCHANGED <<db, client, kit, free, drawn>>

\* What the request asks to take from stock, against the count of this moment.
Delta(s) == Elem(s).value - count[Elem(s).id]

\* Fault: the test admits one unit more than there is.
TakeTooMuch(s) ==
    LET g == Elem(s).id IN
    /\ AtGroup(s)
    /\ Elem(s).value # NULL
    /\ inventory[ClassOf[g]] + 1 >= Delta(s)
    /\ inventory' = [inventory EXCEPT ![ClassOf[g]] = @ - Delta(s)]
    /\ drawn' = [drawn EXCEPT ![g] = @ + Delta(s)]
    /\ pc' = [pc EXCEPT ![s] = "count"]
    /\ UNCHANGED <<count, tag, archived, status, client, kit, todo, free>>

\* UPDATE classes SET inventory=inventory-($value-groups.count) ... affects the
\* row: the class has enough in stock.
Take(s) ==
    LET g == Elem(s).id IN
    /\ AtGroup(s)
    /\ Elem(s).value # NULL
    /\ inventory[ClassOf[g]] >= Delta(s)
    /\ inventory' = [inventory EXCEPT ![ClassOf[g]] = @ - Delta(s)]
    /\ drawn' = [drawn EXCEPT ![g] = @ + Delta(s)]
    /\ pc' = [pc EXCEPT ![s] = "count"]
    /\ UNCHANGED <<count, tag, archived, status, client, kit, todo, free>>

\* Fault: pg_affected_rows( ) is not looked at.
RefuseIgnored(s) ==
    /\ AtGroup(s)
    /\ Elem(s).value # NULL
    /\ inventory[ClassOf[Elem(s).id]] < Delta(s)
    /\ pc' = [pc EXCEPT ![s] = "count"]
    /\ UNCHANGED <<db, client, kit, todo, free, drawn>>

\* The same statement affects no row: pg_affected_rows( ) is 0.
Refuse(s) ==
    /\ AtGroup(s)
    /\ Elem(s).value # NULL
    /\ inventory[ClassOf[Elem(s).id]] < Delta(s)
    /\ AfterCount(s)
    /\ UNCHANGED <<db, client, kit, free, drawn>>

\* UPDATE groups SET count=$value
SetCount(s) ==
    /\ pc[s] = "count"
    /\ count' = [count EXCEPT ![Elem(s).id] = Elem(s).value]
    /\ AfterCount(s)
    /\ UNCHANGED <<inventory, tag, archived, status, client, kit, free, drawn>>

\* Fault: the sub-select looks for the label in the wrong column.
FreeTagsAny == Tags

\* The labels that no position carries.
FreeTags == {t \in Tags : \A g \in Groups : tag[g] # t}

\* Fault: an empty string instead of NULL when no label is left.
CreateTagEmpty(s) ==
    /\ pc[s] = "pick"
    /\ \/ \E t \in FreeTags : free' = [free EXCEPT ![s] = t]
       \/ FreeTags = {} /\ free' = [free EXCEPT ![s] = EMPTY]
    /\ pc' = [pc EXCEPT ![s] = "assign"]
    /\ UNCHANGED <<db, client, kit, todo, drawn>>

\* create_tag( ): SELECT id FROM tags WHERE NOT EXISTS( ... ) LIMIT 1.  Without
\* an ORDER BY any free tag may come first; with none left it returns NULL.
CreateTag(s) ==
    /\ pc[s] = "pick"
    /\ \/ \E t \in FreeTags : free' = [free EXCEPT ![s] = t]
       \/ FreeTags = {} /\ free' = [free EXCEPT ![s] = NULL]
    /\ pc' = [pc EXCEPT ![s] = "assign"]
    /\ UNCHANGED <<db, client, kit, todo, drawn>>

\* UPDATE groups SET tag_id=... WHERE ... AND count=target
AssignTag(s) ==
    LET g == Elem(s).id IN
    /\ pc[s] = "assign"
    /\ tag' = IF count[g] = Target[g] THEN [tag EXCEPT ![g] = free[s]] ELSE tag
    /\ Advance(s)
    /\ UNCHANGED <<inventory, count, archived, status, client, kit, free, drawn>>

\* UPDATE kits SET status=... for the last element the page sends.
SetStatus(s) ==
    /\ pc[s] = "next"
    /\ todo[s] # <<>>
    /\ ~IsGroup(Elem(s))
    /\ status' = [status EXCEPT ![kit[s]] = Elem(s).status]
    /\ Advance(s)
    /\ UNCHANGED <<inventory, count, tag, archived, client, kit, free, drawn>>

\* The closing SELECT over the kit's groups and classes; the script ends and
\* the session lock is released.
Respond(s) ==
    /\ pc[s] = "next"
    /\ todo[s] = <<>>
    /\ pc' = [pc EXCEPT ![s] = "idle"]
    /\ client' = [client EXCEPT ![s] = NULL]
    /\ kit' = [kit EXCEPT ![s] = NULL]
    /\ free' = [free EXCEPT ![s] = NULL]
    /\ UNCHANGED <<db, todo, drawn>>

\* External: ./rfidhandler (started by page_kit.php) sees a label and marks the
\* position that carries it as packed, which the page shows as `final'.
Archive(t) ==
    /\ \E g \in Groups : tag[g] = t /\ ~archived[g]
    /\ archived' = [g \in Groups |-> archived[g] \/ tag[g] = t]
    /\ UNCHANGED <<inventory, count, tag, status, request, drawn>>

Serve(s) ==
    \/ SkipElem(s) \/ Take(s) \/ Refuse(s) \/ SetCount(s)
    \/ CreateTag(s) \/ AssignTag(s) \/ SetStatus(s) \/ Respond(s)

ServerNext ==
    \/ \E s \in Sessions :
          \/ \E c \in Clients, k \in KitsOf[s] :
                \E r \in Requests[k] : Receive(s, c, k, r)
          \/ Serve(s)
    \/ \E t \in Tags : Archive(t)

ServerSpec == ServerInit /\ [][ServerNext]_serverVars
-----------------------------------------------------------------------------
(* Properties.                                                               *)

\* s has debited the stock for g and not yet stored the new count.
MidMove(s, g) == pc[s] = "count" /\ Elem(s).id = g

\* Concurrent requests for one class never take more than is in stock: the
\* inventory test and the debit are one statement (ajax.php line 48).
NoOverdraft == \A c \in Classes : inventory[c] >= 0

\* Except between the two UPDATEs of a request (ajax.php lines 48 and 51), what
\* was debited from stock for a position is exactly the position's count: no
\* interleaving of requests loses or invents material.
Accounted ==
    \A g \in Groups : (\A s \in Sessions : ~MidMove(s, g)) => drawn[g] = count[g]

\* No two positions carry the same label: create_tag( ) `picks first tag from
\* database which is not associated to group' (ajax.php line 3).
TagsUnique ==
    \A g, h \in Groups : g # h /\ tag[g] = tag[h] => tag[g] \in Blank

\* The stock ledger in which taking material is one step.  A position whose
\* debit is stored and whose count is not counts as moved already.
Moved == [g \in Groups |->
            IF \E s \in Sessions : MidMove(s, g)
            THEN Elem(CHOOSE s \in Sessions : MidMove(s, g)).value
            ELSE count[g]]

Ledger == INSTANCE StockLedger WITH count <- Moved

\* The two UPDATEs of ajax.php lines 48 and 51 behave like one atomic move of
\* material between the stock and a position.
AtomicMoves == Ledger!LedgerSpec

\* The positions that draw on class c.
DrawingOn(c) == {g \in Groups : ClassOf[g] = c}

\* What left the stock of a class is exactly what its positions count, with a
\* move counted from its debit on (ajax.php lines 48 and 51).
Conserved ==
    \A c \in Classes :
        inventory[c] + SumFunctionOnSet(Moved, DrawingOn(c))
            = Stock[c] + SumFunctionOnSet(FirstCount, DrawingOn(c))
=============================================================================
