-------------------------------- MODULE Cabinet -------------------------------
(***************************************************************************)
(* The lights of the storage cabinet.  A kit page (static/js/kitstatus.js) *)
(* posts the list of locations that still have to be visited whenever that *)
(* list has changed; the cabinet branch of include/ajax.php runs           *)
(* scripts/led.py with it while it holds the session lock; led.py darkens  *)
(* the strip block by block and then lights the locations one by one.      *)
(* Every set_rgb_values is one packet, so that runs of different sessions  *)
(* interleave packet by packet.                                            *)
(***************************************************************************)
EXTENDS Integers, Sequences, SequencesExt

CONSTANTS
    Sessions,     \* PHP sessions
    Pages,        \* kit pages
    SessionOf,    \* SessionOf[p]: the session of page p
    RowOrder,     \* the rows of the kit table, from top to bottom
    LocationOf,   \* LocationOf[r]: the location column of row r
    LocList,      \* the table of led.py: for each column its list of positions
    Blocks,       \* number of set_rgb_values of turnoff (20)
    BlockSize,    \* LEDs darkened by each of them (10)
    Span,         \* LEDs lit for one location (4)
    MaxInFlight,  \* bound on a page's posts that are not served yet
    MaxChanges    \* bound on changes of what is short

TableRows == ToSet(RowOrder)

\* A location is a row number and a column letter: `01_A'.
Locations == [row : Nat, col : {"A", "B"}]

ASSUME CabinetAssumption ==
    /\ RowOrder \in Seq(TableRows)
    /\ SessionOf \in [Pages -> Sessions]
    /\ LocationOf \in [TableRows -> Locations]
    /\ LocList \in [{"A", "B"} -> Seq(Nat)]
    /\ Blocks \in Nat /\ BlockSize \in Nat /\ Span \in Nat
    /\ \A col \in {"A", "B"} : \A i \in DOMAIN LocList[col] :
           LocList[col][i] + Span <= Blocks * BlockSize
    /\ MaxInFlight \in Nat \ {0} /\ MaxChanges \in Nat

\* All pages are open in one session.
OneSession == \A s, t \in Sessions : s = t

VARIABLES
    page,       \* page[p]: not loaded yet, open, or left
    short,      \* short[p]: the rows whose count field is below the target
    globalloc,  \* globalloc[p]: the list of locations sent last
    posts,      \* posts[p]: cabinet requests on their way
    run,        \* run[s]: the led.py process of session s
    lit,        \* the LEDs that are on
    changes,    \* how often `short' changed
    shown,      \* history: the locations that the last finished run asked for
    cut,        \* history: whether the last run lost its connection half-way
    newest      \* history: newest[p]: what became of the newest post of p

vars == <<page, short, globalloc, posts, run, lit, changes, shown, cut, newest>>

\* The newest post of a page is under way; or its led.py was the last to start;
\* or it never reached the strip, or something came after it there.
Fates == {"none", "sent", "shown", "missed"}

\* What a request asks led.py for.  `led.py 3' and `led.py 1' without locations
\* both just darken the strip.
Request == Seq(Locations)

\* A led.py process: the next block to darken, the locations it was given and
\* the index of the next one to light.
Process == [on : BOOLEAN, block : 0..Blocks, asked : Seq(Locations), next : Nat]

Idle == [on |-> FALSE, block |-> Blocks, asked |-> <<>>, next |-> 1]

CabinetTypeOK ==
    /\ page \in [Pages -> {"new", "open", "left"}]
    /\ short \in [Pages -> SUBSET TableRows]
    /\ globalloc \in [Pages -> Seq(Locations)]
    /\ posts \in [Pages -> Seq(Request)]
    /\ run \in [Sessions -> Process]
    /\ lit \subseteq 0..(Blocks * BlockSize - 1)
    /\ changes \in 0..MaxChanges
    /\ shown \in Seq(Locations)
    /\ cut \in BOOLEAN
    /\ newest \in [Pages -> Fates]

CabinetInit ==
    /\ page = [p \in Pages |-> "new"]
    /\ short = [p \in Pages |-> {}]
    /\ globalloc = [p \in Pages |-> <<>>]
    /\ posts = [p \in Pages |-> <<>>]
    /\ run = [s \in Sessions |-> Idle]
    /\ lit = {}
    /\ changes = 0
    /\ shown = <<>>
    /\ cut = FALSE
    /\ newest = [p \in Pages |-> "none"]
-----------------------------------------------------------------------------
(* The browser.                                                              *)

AllOff == <<>>

\* A plain $.post of one request: no answer is awaited, nothing is repeated.
Post(p, request) ==
    /\ posts' = [posts EXCEPT ![p] = Append(@, request)]
    /\ newest' = [newest EXCEPT ![p] = "sent"]

\* init( ) posts a request that darkens the strip.
OpenPage(p) ==
    /\ page[p] = "new"
    /\ page' = [page EXCEPT ![p] = "open"]
    /\ Post(p, AllOff)
    /\ UNCHANGED <<short, globalloc, run, lit, changes, shown, cut>>

\* The user goes to an overview, whose page runs led.py 3.
LeavePage(p) ==
    /\ page[p] = "open"
    /\ page' = [page EXCEPT ![p] = "left"]
    /\ Post(p, AllOff)
    /\ UNCHANGED <<short, globalloc, run, lit, changes, shown, cut>>

\* What is short in the table changes: an entry or an answer of the server.
ChangeShort(p, rows) ==
    /\ page[p] = "open"
    /\ changes < MaxChanges
    /\ rows # short[p]
    /\ short' = [short EXCEPT ![p] = rows]
    /\ changes' = changes + 1
    /\ UNCHANGED <<page, globalloc, posts, run, lit, shown, cut, newest>>

\* The positions in the table of the rows that are short.
Needed(p) == {i \in DOMAIN RowOrder : RowOrder[i] \in short[p]}

\* The place of position i among the positions in S.
Rank(S, i) == Cardinality({j \in S : j <= i})

\* The locations of the rows that are short, in the order of the table.
LocListOf(p) ==
    [n \in 1..Cardinality(Needed(p)) |->
        LocationOf[RowOrder[CHOOSE i \in Needed(p) : Rank(Needed(p), i) = n]]]

\* Fault: the list is remembered and not posted.
ToggleForgotten(p) ==
    /\ page[p] = "open"
    /\ Len(posts[p]) < MaxInFlight
    /\ globalloc[p] # LocListOf(p)
    /\ globalloc' = [globalloc EXCEPT ![p] = LocListOf(p)]
    /\ UNCHANGED <<page, short, posts, run, lit, changes, shown, cut, newest>>

\* sync_kits( ) finds that the list differs from the one sent last.
ToggleLED(p) ==
    /\ page[p] = "open"
    /\ Len(posts[p]) < MaxInFlight
    /\ globalloc[p] # LocListOf(p)
    /\ globalloc' = [globalloc EXCEPT ![p] = LocListOf(p)]
    /\ Post(p, LocListOf(p))
    /\ UNCHANGED <<page, short, run, lit, changes, shown, cut>>
-----------------------------------------------------------------------------
(* The server and led.py.                                                    *)

\* The i-th of the posts under way is the newest one of the page.
IsNewest(p, i) == newest[p] = "sent" /\ i = Len(posts[p])

\* What the newest post of q has come to when led.py starts with the i-th of p.
FateAfter(p, i, q) ==
    CASE q = p /\ IsNewest(p, i) -> "shown"
      [] ~(q = p /\ IsNewest(p, i)) /\ newest[q] = "shown" -> "missed"
      [] OTHER -> newest[q]

\* A post under way, whichever of them comes first, gets the session lock;
\* exec( ) runs led.py, which connects to the daemon.
StartLed(p, i) ==
    /\ ~run[SessionOf[p]].on
    /\ run' = [run EXCEPT ![SessionOf[p]] =
                 [on |-> TRUE, block |-> 0, asked |-> posts[p][i], next |-> 1]]
    /\ posts' = [posts EXCEPT ![p] = RemoveAt(@, i)]
    /\ newest' = [q \in Pages |-> FateAfter(p, i, q)]
    /\ UNCHANGED <<page, short, globalloc, lit, changes, shown, cut>>

\* A post is gone and nothing was done with it.
Unserved(p, i) ==
    /\ posts' = [posts EXCEPT ![p] = RemoveAt(@, i)]
    /\ newest' = [newest EXCEPT ![p] = IF IsNewest(p, i) THEN "missed" ELSE @]
    /\ UNCHANGED <<page, short, globalloc, run, lit, changes, shown, cut>>

\* led.py cannot connect to the daemon and ends with the exception.
ConnectFails(p, i) == ~run[SessionOf[p]].on /\ Unserved(p, i)

\* The post never arrives at the server.
LosePost(p, i) == Unserved(p, i)

\* Fault: a block is darkened without its last LED.
BlockLedsShort(b) == (b * BlockSize)..(b * BlockSize + BlockSize - 2)

\* The LEDs that turnoff( ) darkens with its packet number b.
BlockLeds(b) == (b * BlockSize)..(b * BlockSize + BlockSize - 1)

\* Fault: one block too many.
TurnOffBeyond(s) ==
    /\ run[s].on
    /\ run[s].block <= Blocks
    /\ lit' = lit \ BlockLeds(run[s].block)
    /\ run' = [run EXCEPT ![s].block = @ + 1]
    /\ UNCHANGED <<page, short, globalloc, posts, changes, shown, cut, newest>>

\* turnoff( ): one set_rgb_values with zeroes.
TurnOff(s) ==
    /\ run[s].on
    /\ run[s].block < Blocks
    /\ lit' = lit \ BlockLeds(run[s].block)
    /\ run' = [run EXCEPT ![s].block = @ + 1]
    /\ UNCHANGED <<page, short, globalloc, posts, changes, shown, cut, newest>>

\* parsePosition( ) finds an entry; row `00' becomes index -1, the last one.
Known(l) == l.row <= Len(LocList[l.col]) /\ LocList[l.col] # <<>>

ParsePosition(l) ==
    LET list == LocList[l.col] IN list[IF l.row = 0 THEN Len(list) ELSE l.row]

LocLeds(l) == ParsePosition(l)..(ParsePosition(l) + Span - 1)

\* The strip is dark and a location is to be handled.
Lighting(s) ==
    run[s].on /\ run[s].block = Blocks /\ run[s].next \in DOMAIN run[s].asked

Location(s) == run[s].asked[run[s].next]

\* toggleLED( ) with a position: one set_rgb_values in green.
Light(s) ==
    /\ Lighting(s)
    /\ Known(Location(s))
    /\ lit' = lit \cup LocLeds(Location(s))
    /\ run' = [run EXCEPT ![s].next = @ + 1]
    /\ UNCHANGED <<page, short, globalloc, posts, changes, shown, cut, newest>>

\* exec( ) returns and the session lock is released.
EndLed(s) ==
    /\ shown' = SubSeq(run[s].asked, 1, run[s].next - 1)
    /\ cut' = FALSE
    /\ run' = [run EXCEPT ![s] = Idle]
    /\ UNCHANGED <<page, short, globalloc, posts, lit, changes, newest>>

\* All locations are lit and the process disconnects.
Finish(s) ==
    /\ run[s].on
    /\ run[s].block = Blocks
    /\ run[s].next \notin DOMAIN run[s].asked
    /\ EndLed(s)

\* The location is not in the table: the IndexError ends the process.
UnknownLocation(s) ==
    /\ Lighting(s)
    /\ ~Known(Location(s))
    /\ EndLed(s)

LedStep(s) == TurnOff(s) \/ Light(s) \/ Finish(s) \/ UnknownLocation(s)

\* The connection to the daemon is lost: the next set_rgb_values raises, and
\* the strip stays as the packets so far have left it.
BreakOff(s) ==
    /\ run[s].on
    /\ run' = [run EXCEPT ![s] = Idle]
    /\ cut' = TRUE
    /\ newest' = [p \in Pages |->
                     IF SessionOf[p] = s /\ newest[p] = "shown" THEN "missed" ELSE newest[p]]
    /\ UNCHANGED <<page, short, globalloc, posts, lit, changes, shown>>

\* What becomes of a post.
Arrives(p) ==
    \E i \in DOMAIN posts[p] : StartLed(p, i) \/ ConnectFails(p, i) \/ LosePost(p, i)

CabinetNext ==
    \/ \E p \in Pages :
          \/ OpenPage(p)
          \/ LeavePage(p)
          \/ \E rows \in SUBSET TableRows : ChangeShort(p, rows)
          \/ ToggleLED(p)
          \/ Arrives(p)
    \/ \E s \in Sessions : LedStep(s) \/ BreakOff(s)

\* The interval timer fires, a post is served or lost some time, and a process
\* runs to its end.
CabinetSpec ==
    /\ CabinetInit
    /\ [][CabinetNext]_vars
    /\ \A p \in Pages : WF_vars(ToggleLED(p)) /\ WF_vars(Arrives(p))
    /\ \A s \in Sessions : WF_vars(LedStep(s))
-----------------------------------------------------------------------------
(* Properties.                                                               *)

\* The LEDs that led.py lights when it is given locs: those of the locations
\* before the first that is not in the table.
Leds(locs) ==
    UNION {LocLeds(locs[i]) :
              i \in {j \in DOMAIN locs : \A k \in 1..j : Known(locs[k])}}

\* `Newly added location will rewrite all previous location data' (led.py line
\* 74): when no process runs, the strip shows exactly the locations that the
\* process which ended last has lit, unless that one lost its connection.
RewritesAll == (\A s \in Sessions : ~run[s].on) /\ ~cut => lit = Leds(shown)

\* Once the table stops changing, the strip comes to show the rows that are
\* short, up to the first whose location is not in the table - or the newest
\* list was lost, failed or overtaken.  The page sends a list only once
\* (kitstatus.js line 169), and no other way to miss it is left.
CabinetSettles ==
    \A p \in Pages :
        <>[](page[p] = "open" => newest[p] = "missed" \/ lit = Leds(LocListOf(p)))
=============================================================================
