# Verification of the LISES kitting application

The repository holds a small web application for kitting: collecting the
material of an order from a storage cabinet into kits. It has a PHP server over
PostgreSQL, one JavaScript page that keeps a kit table in step with the server,
a Python script that lights the cabinet's LED strip, and an RFID label reader.
The script drives the strip through the Tinkerforge Python bindings, which are
the larger part of the repository's Python code: a TCP connection with its own
threads, request/answer matching, and one class per device.
This directory models it in TLA+, checks the models with TLC on small instances
and proves the most important properties with TLAPS for all instances.

    tlc -config server_disjoint.cfg MCSyncServer     # one run; all are listed below
    tlapm SyncServerProofs.tla                       # one module of proofs

## 1. Inventory

### The system and its state

| part | files | state | operations |
|---|---|---|---|
| session and dispatch | `index.php`, `include/config.php`, `include/loginscreen.php`, `include/display.php` | PHP session (role, messages), session lock | log in, log out, dispatch to a page or to `ajax.php`, pass messages on over a redirect |
| kit synchronisation server | `include/ajax.php` | tables `classes` (stock), `groups` (positions of kits), `kits`, `tags` | for each posted row: take material, store the count, assign a label; store the kit's status; answer with the table |
| kit page | `static/js/kitstatus.js`, `include/page_kit.php` | table rows with count fields and label buttons, `latestSync`, `timestamp`, `globalloc`; `kits.user_id` | open, type, click, poll every 750 ms, merge an answer |
| cabinet lights | `scripts/led.py`, cabinet branch of `ajax.php`, `toggleLED` of `kitstatus.js`, first line of `page_order.php` and `page_kitting.php` | the LED strip, the running `led.py` processes | darken the strip in 20 packets, light a location |
| reset | `reset.php` | the tables | four UPDATEs |
| initialisation script | `include/operations.php`, `include/page_initialize.php` | the tables, `$mode`, `$order_id`, `$kit_id` | TRUNCATE, then one or more statements per line |
| label reader | `./rfidhandler`, started by `page_kit.php`, not in the repository | `groups.archived` | mark the position of a label it sees as packed |
| overviews | `page_order.php`, `page_kitting.php`, `page_overview.php`, `pages.php` | none | render query results |
| printing | `scripts/print.py`, print branch of `ajax.php` | none | one transfer |
| trials | `scripts/a.py`, `scripts/b.py`, `queries` | none | called by nobody |
| connection | `scripts/tinkerforge/ip_connection.py`, class `IPConnection` | socket, `socket_id`, `socket_lock`, receive, probe and callback threads with their queues, auto-reconnect flags | connect, disconnect, send, set auto reconnect; receive, probe, close after a loss, reconnect |
| requests | the same file, `send_request` and `handle_response` | sequence counter; per device `request_lock`, the two expected fields, `response_queue` | draw a number, expect, send, wait with a timeout, take an answer |
| device classes | `Device` in the same file and the 61 `brick*.py` and `bricklet_*.py` | table of response-expected flags, registered callbacks | set one flag or all, call a method, register a callback, dispatch a callback |
| third party, not Python | `data/brickd-2.2.1`, jQuery, Bootstrap | | used, not developed here |

### How the parts interact

* A kit page posts its whole table to `ajax.php` every `SYNC_INTERVAL` and does
  not wait for the answer. The answer is merged into the table by a callback.
* Every request opens the PHP session first (`session_start`), which holds the
  session's lock until the script ends. Requests of **one** session are
  therefore served one after the other, requests of **different** sessions run
  concurrently.
* Every `pg_query` is a transaction of its own. What the concurrent requests
  share is the base, and they interleave statement by statement.
* `ajax.php` runs `led.py` synchronously, so its LED packets too are ordered
  within one session only.
* The label reader writes to `groups` at any time, outside all sessions.
* `led.py` opens an `IPConnection`, calls methods of one device and disconnects.
  A method becomes a packet with a sequence number; the receive thread hands the
  answer to the thread that waits on the device, and callback packets and the
  loss of the connection to the callback thread. That thread closes a lost
  connection and reconnects. `socket_lock` guards the socket, but several
  flags are used outside it.

### What is hard, and what makes each part correct

| part | hard because | correct means |
|---|---|---|
| server | stock and count are changed by two transactions, a label is looked up and assigned by two | stock is never overdrawn; every unit debited is in a count; a label is on one position |
| page | posts and answers overtake each other and get lost; answers are merged into what a user is typing | page and base come to agree; a number a user entered is only replaced when stock cannot satisfy it; positions whose label has come through do not change; the stored status comes to fit the labels |
| cabinet | packets of several processes interleave, a list is sent only once and may be lost, overtaken or find no daemon, an unknown location stops the script half way | the strip shows one list, and comes to show what is short unless the newest list was missed |
| reset | four transactions beside requests and the label reader | afterwards positions are empty, without labels, and stock plus counts are consistent |
| initialisation | a text of lines with a mode, not a transaction, may run twice at a time | kits and items are numbered without gaps and duplicates; a script alone loads what it says |
| connection | five kinds of threads join each other, some with `socket_lock` held; the auto reconnect races the application | no socket is lost or opened twice; a probe thread does not outlive its connection; calls return; a lost connection is noticed; a disconnect disconnects |
| requests | numbers wrap after 15; answers come after the timeout; the receive thread reads the expected fields without a lock | a call takes only its own answer, its device expects that answer while it waits, every call returns |
| device classes | the flags have no lock; the tables of 62 classes have over a thousand entries | getters return values, whatever is done to the flags; the callback thread only ends by a callback that was taken back |
| session | messages and role survive redirects | (not modelled) |

`PROJECT.json` lists the hazards one by one at their lines.

## 2. The modules

| module | what it models |
|---|---|
| `StockLedger` | abstract specification: stock and counts move together, in one step, never below zero. It is the `atomic` form that the TODO at `ajax.php` line 47 asks for |
| `SyncServer` | `ajax.php`: one action per SQL statement, one request per session |
| `Kitting` | `SyncServer` (by EXTENDS) with kit pages, network and `page_kit.php` |
| `Reset` | `SyncServer` with `reset.php` |
| `KitReset` | `Kitting` and `Reset` composed: a reset while a kit page is open |
| `Cabinet` | location lists, the cabinet branch and every packet of `led.py` |
| `InitScript` | the initialisation script, and what a script says without running it |
| `IPConnection` | the life of a connection and the threads behind it |
| `Requests` | how a call finds its answer |
| `Device` | a device object: flags, method calls, callbacks |
| `BindingTables` | the classes: ids, formats and callbacks, one definition per constructor and per group of methods |
| `MC...` | the small instances |
| `SyncServerProofs`, `KittingProofs`, `ResetProofs`, `CabinetProofs`, `InitScriptProofs`, `DeviceProofs`, `RequestsProofs`, `IPConnectionProofs` | theorems and proofs |

`SyncServer` implements `StockLedger` (property `AtomicMoves`), `Kitting`
implements `SyncServer` (`ServerImplemented`), and `KitReset` implements `Reset`
(property `ResetImplemented`, with the server inside). The first and the last are
checked by TLC, and all three are proved.

Definitions with a comment that begins with `Fault:` are not part of
any specification. Each stands in front of the definition it varies and is a
plausible bug of that code; substituting it makes the property named in
`PROJECT.json` fail, which shows that the property can fail.

### SyncServer and the code

`inventory`, `count`, `tag`, `archived` and `status` are columns. `pc[s]` says
before which statement the request of session `s` is, `todo[s]` is what remains
of `$_POST["requests"]`, `kit[s]` is `$current_kit`, and `free[s]` is the label
that `create_tag( )` returned.

| action | lines of `ajax.php` |
|---|---|
| `Receive` | 37-41, the session lock taken |
| `SkipElem` | 40, the row has no numeric value (labelled row, or text in the field) |
| `Take` / `Refuse` | 48, the UPDATE of `classes` affects a row or none |
| `SetCount` | 50-51 |
| `CreateTag` | 2-6: any free label, as the query has no ORDER BY, or NULL |
| `AssignTag` | 53-54, a no-op unless `count=target` |
| `SetStatus` | 56 |
| `Respond` | 63-70, the lock released |
| `Archive` | the label reader, external |

`drawn` is a history variable: what was debited from stock for each position.
A position without a label has `NULL` (script, `create_tag( )`) or `''`
(`reset.php`) in `tag_id`; both are in `Blank`, and JavaScript treats both as
false.

Assumptions about what is outside the repository: PostgreSQL's default READ
COMMITTED isolation makes each statement atomic on the rows it updates. (An
UPDATE that waits for a row of `classes` evaluates its condition again on the
new row but keeps its snapshot of `groups`. For kits that only one session works
on this is the same thing; for shared kits it is one more way to the loss that
`server_shared` shows.) There is no unique constraint on `groups.tag_id`, as
`reset.php` stores `''` in all rows. Statements do not fail and scripts do not
die in the middle; nothing in the code would repair it if they did. Requests
without a valid kit change nothing and are left out.

### Kitting and the code

`rows[p][g]` is a row of the HTML table: what the count field holds (`NULL` when
it has no number or does not exist), whether it is `locked` (labelled), `final`,
whether its label button is `enabled` and has been `requested`. `SyncKits` is
`sync_kits( )`, `SyncResult` the callback, with `NewTr` for `new_tr( )` and
`MergedRow` for lines 84-130. `ticked` stands for `timestamp>latestSync`:
`timestamp` is a global that every post overwrites and `latestSync` is set once,
so the test can only fail until the clock has moved past the page's load.
`OpenPage` includes the UPDATE of `kits.user_id` at line 3 of `page_kit.php`,
with its WHERE clause as it is. The set of rows of a kit does not change while
pages are open, so moving and removing rows (lines 74, 87-101) comes down to the
first filling of the table. What a page may post is not a constant of its own:
`PageAssumption` says that `Requests[k]` has every list of elements that a page
of kit `k` can put together (`PageRequests`), one per row of `RowsOf[k]` and one
for the status. `OnePagePerKit` is a condition on who works on what, not an
assumption; the theorem that needs it says so. A position is `Settled` on a page
when its label is in the base and on the page and nothing older is under way:
every post, and the request being served, skips it (`Skips`), and every answer
under way has the label.

### Cabinet and the code

A `led.py` process has a next block to darken and a next location to light; each
step is one `set_rgb_values`. `Known` and `ParsePosition` are `locList` with
Python's indexing (row `00` is index -1, an unknown row ends the process).
`LocListOf` is the list of a page: the rows that lack material (`Needed`) in the
order of the table, the n-th location being that of the row of rank n.
Posts are plain `$.post`s: they overtake each other and get lost (`LosePost`),
and nobody repeats them. `led.py` may fail to connect (`ConnectFails`, the
exception of line 84 leaves the strip as it was) and may lose its connection
between two packets (`BreakOff`). Two history variables name what has happened:
`newest[p]` what became of the last list a page sent, `cut` whether the last run
ended by a lost connection. Assumptions: a packet takes effect when it is sent,
and every class has a location.

### Reset, InitScript and the code

`Reset` has one action per UPDATE of `reset.php`; while it runs it holds its
session's lock (`SessionFree`). `InitScript` has one action per statement of
`operations.php` lines 31-96 and per line that has none. A line is abstracted to
its kind, its fields and the name that TAGS and USERS would store; `Prefix` is
the regular expression of `create_class( )`. Sections that are unknown select
mode `false`, which compares equal to 0 and hence is INVENTORY. External
assumptions: `classes.inventory`, `orders.kit_count` and `kits.group_count`
default to 0.

`KitReset` joins the two systems that share the base: a session that runs
`reset.php` starts no post and loads no page (`LockKept`), everything else
interleaves.

### Device, BindingTables and the code

A method is one `send_request` with two format strings; a format is abstracted
to its size. `PackRequest` is `create_packet_header` with the packing of the
arguments: it reads the function's flag once. `Transmit` sends, and waits if
that header asked for an answer; `TransmitFails` is NOT_CONNECTED. The device
answers with one of its error codes or not at all (TIMEOUT). `SetAllStart` and
`SetAllStep` are the loop of `set_response_expected_all`, one entry per step, as
there is no lock. A callback is looked up when its packet arrives
(`HandleCallback`), tested when the callback thread takes it (`DispatchPacket`,
lines 768 and 784-785) and read once more for the call (`CallCallback`, lines 774
and 786), without a lock in between. `retracted` records which callbacks were set
to None after they were functions. `set_response_expected` is called with ids of
the class, of the common functions and with invalid ones (`NoIds`). `BindingTables` holds, for each of the
classes, what its constructor writes into the table and what its methods pass
to `send_request`; `BindingsAssumption`, which TLC evaluates on all of them in
the run `bindings`, says that ids are distinct, that every method calls a
function with a flag and that every method with a result calls one whose flag
is ALWAYS_TRUE.

### Requests and the code

`CreatePacketHeader` draws the number (before `request_lock`), `ExpectFunction`
takes the lock, then the expected fields are set, the packet is sent, answers
are taken from the queue until one fits (`Accepts`) or the timeout is over, the
fields are cleared one after the other and the lock is released. The receive
thread compares the two fields in two steps. `drawn` counts the numbers, so `n`
names a request although its packet only has `(n - 1) % 15 + 1`. External: a
device repeats the header of the request, answers at most once, late or never.

### IPConnection and the code

Connections and callback contexts are numbered in the order of their creation;
`socket` is the current connection or 0, `socket_id` the number of connections
so far. `pc[u]` is where an application thread is in `connect`, `disconnect` or
`send`, `rcv`, `prb` and `cb` are where the threads of the library are. A step
ends where another thread can see the difference: at taking and releasing
`socket_lock`, at every join, and between two accesses to
`auto_reconnect_allowed`, `auto_reconnect_pending`, `receive_flag` and
`callback`, which are also used outside the lock.

| actions | lines of `ip_connection.py` |
|---|---|
| `ConnectLocks` ... `ConnectCleanup` | `connect`, `connect_unlocked` |
| `DisconnectLocks`, `JoinProbe`, `JoinReceive`, `Exit`, `Join` | `disconnect`, `disconnect_unlocked` |
| `SendLocks` | `send` |
| `Receive...`, `Probe...` | `receive_loop`, `disconnect_probe_loop`, `handle_disconnect_by_peer` |
| `GetMessage`, `CloseLocks`, `CloseJoins`, `Notify`, `SetPending`, `Retry...` | `callback_loop`, `dispatch_meta` |

Where the code would run into an AttributeError (a probe thread or a context
that is None) the action gives up at that point, with what was done so far.

## 3. Runs

| run | expects | instance | states |
|---|---|---|---|
| `server_disjoint` | pass | 2 sessions, each with its own kit; 3 positions drawing on 2 units of one class; 1 label | 189 592 |
| `server_shared` | violation of `Accounted` | the same with both sessions on one kit | |
| `labels_two_sessions` | violation of `TagsUnique` | 2 sessions on different kits, 2 labels | |
| `page_stale` | violation of `OverrideOnlyUnreachable` | 1 page, 2 positions, 3 user actions, 2 posts or answers under way | |
| `page_reset` | pass | 1 page, 2 posts in flight in any order, losses, 2 user actions, 3 labels, 1 reset; one position loaded labelled and packed | 222 855 |
| `cabinet_one_page` | pass | strip of 3 blocks of 2 LEDs, 3 locations (one straddles blocks, one has row 00, one is unknown), 3 changes, 2 posts under way in any order, losses and failing connects | 259 637 |
| `scripts` | pass | 5524 scripts of up to 8 lines alone, and pairs of scripts of up to 7 lines at the same time | 97 009 |
| `bindings` | pass | all classes, 2 threads, 2 operations, 1 callback packet | 981 754 |
| `requests` | pass | 2 threads, 1 device, 2 functions (one without answers), numbers modulo 2, 4 calls | 106 277 |
| `connection` | pass | 1 application thread, 3 calls, 3 connections, 3 contexts, 1 loss; the daemon may refuse the first connect and any auto reconnect, for ever | 48 696 |
| `connect_refused` | violation of `CallsReturn` | the same, the daemon may also refuse a later connect | |
| `disconnect_reopens` | violation of `DisconnectCloses` | as `connection` | |

What they show:

* `server_disjoint`: `NoOverdraft`, `Accounted`, `Conserved` (stock plus counts
  are constant), `AtomicMoves` (the refinement of the ledger). The
  stock of 2 is less than what the positions want, so refusals and competition
  for the last unit happen; one label for two labelled rows makes labels run out.
* `page_reset`: `ResetAccounted`, `ResetFresh`, `TagsUnique` while a page keeps
  posting the table it showed before the reset, the refinement
  `ResetImplemented`, and `PageAgrees`, `StatusSettles`: page, base and status
  come to agree again (on what the page shows: the reset is undone, but
  consistently). `LabelFinal` says how long a labelled position can still change:
  as long as posts or answers from before the label are under way. After that
  neither a poll nor an answer changes count or label or unlocks the row. That
  positions get settled in the run is seen from the fault `MergedRowInPlace`,
  which breaks it.
* `cabinet_one_page`: `RewritesAll`, unless the last run was cut off, and
  `CabinetSettles`, unless the newest list was lost, failed or overtaken. Each
  exception is needed (TLC finds a counterexample without it): the page sends a
  list once and never learns what became of it. What remains says that there is
  no other way to miss a list, for instance that `globalloc` is never ahead of
  what was sent.
* `scripts`: `LoadedAsWritten` for a script alone: all sequences of up to 3
  lines, and all sequences of up to 4 lines after a first item, so that
  misplaced items, kits before orders, unknown sections, inventories before and
  after use and names that `create_class( )` cuts to the same prefix all occur.
  `KitsNumbered` and `ItemsNumbered` also when one script truncates the tables
  under another.
* `bindings`: `FixedFlags`, `GettersReturnValues`, `EndsOnlyIfTakenBack`, for
  every class with its own tables.
* `requests`: `AnswerMatches`, `ExpectsOwn`, `RequestsReturn`.
* `connection`: `OneSocket`, `ProbesOwnSocket`, `CallsReturn`, `LossDetected`.
  `CallsReturn` has an exception: every call gets to its end or to the join of
  the callback thread, and from there it returns unless auto reconnects are
  refused for ever (`RefusedForEver`). The exception is needed. `disconnect`
  takes the pending branch (lines 357-361) and clears `auto_reconnect_allowed`, a
  receive thread that is late sets it again (line 1013), the daemon refuses, the
  loop of lines 747-760 goes on for as long as it does, and `disconnect` waits at
  line 380.

The bounds: `MaxInFlight` 2 is enough for one post or answer to overtake
another, and one strip of two-LED blocks for a location to straddle two.
`MaxActs`, `MaxChanges` and `MaxResets` bound what users do; two actions label a
position (enter its target, ask for the label), a third edits another.
In `requests` a modulus of 2 with 4 calls makes numbers come again twice; a call
that has timed out, one that waits and one behind the lock exist at the same
time. In `connection` three calls are a connect, a disconnect and a connect or
send in between; three connections allow an auto reconnect and a connect after
the first; a context is made by each. Two application threads were checked too
(safety only, 2 connections and 2 contexts); for any number the theorems apply.
In `bindings` two operations suffice for a rewrite of the flags to meet a call;
the bound per kind (`MaxOf`) keeps the product with all classes small.
`CHECK_DEADLOCK FALSE` stands where the system may rest: pages that were left,
scripts that are done, and applications that make no more calls.

### Fairness

* A PHP script that began runs to its end: weak fairness of `ServeStep(s)` in
  `Kitting` and `KitReset`, of `LedStep(s)` in `Cabinet`. The session lock is only
  released by that. `SyncServer` alone is a safety specification.
* `setInterval` fires for ever: weak fairness of `SyncKits(p)` and
  `ToggleLED(p)`.
* A list for the cabinet is served or lost some time (weak fairness of
  `Arrives(p)` in `Cabinet`, which includes the loss): nothing is assumed of
  which.
* A page that keeps posting gets through: strong fairness of `Arrives(p)`
  (a post waits for the session lock, which is taken and released again and
  again), and of `Merges(p)`. Losses remain possible any number of times.
* A `reset.php` that began runs to its end (`KitReset`).
* `Requests`: the operating system runs every thread and `Queue.get` notices an
  expired timeout (weak fairness of `Step(t)`); a thread that waits for
  `request_lock` gets it when it is free again and again (strong fairness of
  `ExpectFunction(t)`). Nothing is assumed of devices: they may never answer.
* `IPConnection`: receive and probe threads run (weak); application and callback
  threads get `socket_lock` when it is free again and again (strong; the auto
  reconnect sleeps 100 ms between its attempts). Nothing is assumed of the
  daemon: it may refuse auto reconnects for ever. Data need not arrive, and an
  established connection need not be lost.
* Users, the label reader and the network's losses are under no obligation.

### Disagreements found

1. *Lost material* (`server_shared`). `ajax.php` line 48 debits against the
   count, line 51 stores it. Two sessions on one kit both debit against the old
   count. The code's own comment is `TODO: Make atomic/lock`.
2. *One label on two positions* (`labels_two_sessions`). Two sessions select the
   same free label before either assigns it.
3. *A refused connect that never returns* (`connect_refused`). The cleanup in
   `connect_unlocked` (`ip_connection.py` line 553) joins the callback thread
   with `socket_lock` held; if that thread still works on an earlier loss it
   waits for the same lock. `disconnect` was written to avoid this (line 372).
   A refused *first* connect is harmless, as `connection` shows.
4. *A disconnect that reconnects* (`disconnect_reopens`). A receive thread that
   reports a loss late sets `auto_reconnect_allowed` (line 1013) after
   `disconnect` has cleared it, and the callback thread that `disconnect` is
   about to join connects again first.
5. *A reachable entry is overridden* (`page_stale`). The test at `kitstatus.js`
   line 124 compares the entry with count and inventory of the answer. Polls do
   not wait for answers (line 204), so a later post may have given units back
   since; the comment at line 103 only allows to override what is `unreachable
   from current inventory`.

Checking with other constants shows where further properties stop to hold. They
are no runs of their own; each is the change of a configuration:

* `LabelFinal` needs that older posts are through: without the conditions on
  posts and answers in `Settled`, an older post changes the count of a position
  that a newer one has labelled, and a repeated label request gives it another
  label, or none when labels have run out.
* `RewritesAll` needs one session: with two the packets of two `led.py`
  interleave and the strip shows the list of neither, against the comment at
  `led.py` line 74.
* `PageAgrees` needs a label to spare: when the pool is used up, a label request
  that is repeated because answers are late finds none, stores NULL, and the
  next one finds the label just given back, so the label of the position comes
  and goes for ever (`Tags` with two labels in `page_reset.cfg`).
* `PageAgrees` needs one page per kit: two pages of one session with different
  entries set a count to and fro for ever, as each poll posts all fields.
* `ResetAccounted` needs one session: a count stored by another session between
  the last two UPDATEs of a reset survives although the stock is refilled. A
  label read after `archived` was cleared and before the labels are leaves a
  position packed without a label, also with one session.
* `LoadedAsWritten` needs a script that runs alone: after a second TRUNCATE order
  ids start at 1 again and the rest of the first script goes to orders of the
  second.
* `AnswerMatches` is stated up to whole rounds of the sequence counter. Without
  the exception it fails: an answer that is left in the queue for 15 calls is
  taken for the answer of the later call, if that is of the same function
  (comment at `ip_connection.py` line 943).

Seen in the models, and worth a reviewer's attention, but not runs of their own:

* The worker of a kit: the UPDATE in `page_kit.php` line 3 has no `order_id`, so
  opening kit 0 of one order sets the worker of kit 0 of all orders.
* A lost auto reconnect: the new receive thread runs before `connect_unlocked`
  clears `auto_reconnect_allowed` (line 619). A loss in between is reported, but
  not followed by the reconnect that the documentation of `set_auto_reconnect`
  promises (line 442).
* An old receive thread on a new socket: `dispatch_meta` closes a lost socket
  without ending its receive thread, which reads `self.socket` anew in every
  turn (line 675). After a reconnect, two threads may read the same socket.
* `auto_reconnect_pending` is set outside `socket_lock` (line 742): a
  `disconnect` that comes in between takes the pending branch although there is
  a socket again and leaves it open without a callback thread.
* A callback that is set to None ends the callback thread: the enumerate callback
  whenever a packet comes (line 774 has no test), a device callback if it happens
  between the test of line 785 and the read of line 786. `EndsOnlyIfTakenBack`
  says that nothing else does. The connected and disconnected callbacks (lines
  710-712 and 736-738) have the same two reads and are not modelled.

## 4. Proofs

All theorems are proved for arbitrary constants that satisfy the named
assumptions of the modules: `ServerAssumption`, `ResetAssumption` and
`ScriptAssumption` (any finite or infinite sets of sessions, kits, positions,
classes and labels, any requests whose rows belong to the kit they are posted
for, any integers as values), `PageAssumption` (any pages, of any sessions, with
tables in any order and any number of posts under way), `SystemAssumption` (0 is
a count, as `reset.php` stores it), `CabinetAssumption` (any table of rows and
locations, any length of strip and blocks), `BindingsAssumption` and
`BoundsAssumption` (any classes whose ids and formats fit together),
`RequestsAssumption` (any modulus above 0) and `IPConnectionAssumption` (any
threads and any choice of when the daemon refuses). TLC evaluates each of them on
the instances of the runs.

| theorem | statement | further hypothesis |
|---|---|---|
| `TypeCorrect` | `ServerSpec => []ServerTypeOK` | |
| `StockNeverNegative` | `ServerSpec => []NoOverdraft` | |
| `MaterialAccounted` | `ServerSpec => []Accounted` | `DisjointKits` |
| `ImplementsLedger` | `ServerSpec => AtomicMoves` | `DisjointKits` |
| `MaterialConserved` | `ServerSpec => []Conserved` | `DisjointKits`, finitely many positions |
| `LabelsUnique` | `ServerSpec => []TagsUnique` | `OneSession`, `FirstTagsUnique` |
| `KittingTypeCorrect` | `Spec => []TypeOK` | |
| `PagesImplementServer` | `Spec => ServerImplemented` | |
| `PagesKeepMaterial` | `Spec => []NoOverdraft`; `Spec => []Accounted /\ []Conserved` | for the second part those of `MaterialConserved` |
| `ResetTypeCorrect` | `ResetSpec => []ResetTypeOK` | |
| `ResetKeepsAccount`, `ResetEndsFresh` | `ResetSpec => []ResetAccounted`, `ResetSpec => ResetFresh` | `OneSession` |
| `ResetLabelsUnique` | `ResetSpec => []TagsUnique` | `OneSession`, `FirstTagsUnique` |
| `SystemImplementsReset` | `SystemSpec => ResetImplemented` | |
| `SystemTypeCorrect` | `SystemSpec => []ResetTypeOK /\ []TypeOK` | |
| `LabelsFinal` | `SystemSpec => LabelFinal` | `OnePagePerKit` |
| `SystemKeepsAccount` | `SystemSpec => []ResetAccounted /\ []TagsUnique /\ ResetFresh` | `OneSession`, `FirstTagsUnique` |
| `CabinetTypeCorrect` | `CabinetSpec => []CabinetTypeOK` | |
| `StripRewritten` | `CabinetSpec => []RewritesAll` | `OneSession` |
| `ScriptTypeCorrect` | `ScriptSpec => []ScriptTypeOK` | |
| `KitNumbers`, `ItemNumbers` | `ScriptSpec => []KitsNumbered`, `[]ItemsNumbered` | |
| `ScriptLoads` | `ScriptSpec => []LoadedAsWritten` | |
| `DeviceTypes`, `FlagsFixed`, `GettersReturn` | `Spec => []DeviceTypeOK`, `[]FixedFlags`, `[]GettersReturnValues` | |
| `CallbackThreadEnds` | `Spec => []EndsOnlyIfTakenBack` | |
| `RequestTypes`, `DeviceExpectsCaller`, `AnswersMatch` | `Spec => []RequestsTypeOK`, `[]ExpectsOwn`, `[]AnswerMatches` | |
| `ConnectionTypes`, `NoSocketLost`, `ProbeOfSocket` | `Spec => []IPConnectionTypeOK`, `[]OneSocket`, `[]ProbesOwnSocket` | |

The hypotheses are exactly what the violation runs take away: `server_shared`
violates `DisjointKits`, `labels_two_sessions` violates `OneSession`, and the list
of changed configurations at the end of section 3 violates the `OneSession` of
the cabinet.

The argument for the server:

* Type correctness is not inductive alone: that `SetCount` stores a number
  depends on the request being at a row with a number. `ControlInv` says so
  (`InRow`), and that a session only handles rows of its own kit (`OwnRows`).
  `TypeInv` is the conjunction.
* `NoOverdraft` is inductive over `TypeInv`, since line 48 tests and debits in
  one statement.
* `Accounted` says nothing about a move that is under way, so it is not
  inductive. `MoveInv` adds that during a move what was drawn is the value being
  stored. `RowsApart` uses `DisjointKits` and `OwnRows` to show that no two
  sessions are at the same row.
* For the refinement, `MovedIsDrawn` shows that the mapped count is `drawn`
  under `MoveInv`; then `Take` is a `Move` of the ledger and all other steps
  stutter.
* `Conserved` is a sum over the positions of a class. `DrawnConserved`, the same
  sum over what was debited, is inductive over `TypeInv` for any sessions, as one
  statement changes both sides; `MovedIsDrawn` makes it `Conserved`. The library's
  sum is a recursive function over subsets; that it exists (`SumsExist`) and that
  changing one value by `d` changes it by `d` (`SumChange`) is shown with the
  least number of elements for which it would fail (`LeastNumber`).
* `TagInv` adds to `TagsUnique` that a label which was picked and not assigned
  yet is still free (`PickedFree`), which only the session lock guarantees.

The argument for the pages:

* `KitInv` is `TypeInv` of the server and `PageInv`: the types of the pages'
  variables; `ViewInv`, that a page shows a kit of its session, that its table is
  empty or has exactly the rows of that kit, and that its posts and answers under
  way are of that kit; and `ServedInv`, that the request a session serves for a
  page is one of the page's kit. A lost or overtaken post only shortens or
  permutes what is under way, so nothing more is needed. `ServerStep` maps every
  step of the pages to a `Receive`, a `Respond`, or a stutter.
* `LabelFinal` is the claim that `Settled` is kept, together with count and
  label, by every step that is not a reset, for any number of posts under way.
  `LockedEmpty` (a locked row has no number) makes a page's next post skip the
  position; a served request that skips it stores nothing for it
  (`SettledNotServed`, which uses `OnePagePerKit`: no other page serves the kit);
  an answer written then has the label, and merging an answer with the label
  leaves the row locked. A step of a reset always moves `resetVars`
  (`ResetMoves`), so what is left are the pages' own steps.

`SystemInv` joins the types of the server and of a reset (`ResetTypes`) with
`PageInv`; a system step is then a step of `Reset` or a stutter, and the theorems of `Reset` carry over. The
cabinet's `StripInv` says how far each `led.py` has come: the LEDs of the blocks
it has darkened are dark except for the locations it has lit since, and in a
single session nobody else writes. That the list of a page has a location at
each rank (`RankExists`) again uses a least number.

`ResetInv` consists of `TypeInv`, of `LockHeld` (a session that resets serves no
request), of `ClearedOrMoved` (between the last two UPDATEs counts are 0,
otherwise `MoveInv`) and of `LabelsGone`. The steps of the server are reused as
lemmas. `NumberInv` joins the two numbering properties with the types they need;
each needs the other, as an item refers to a kit that must exist. `ScriptInv`
adds to the types that a script in the middle of a line is at a line of the kind
its section takes.

`LoadedAsWritten` relates a loop with a mode to a definition that counts lines.
`FollowInv` says, for a script that is alone, how the two agree before line `p`:
`Where` (mode, order and kit variables are the section, order and kit of the
lines read, and the tables have as many orders and kits), `Rows` (the stored
items are the item lines before `p`, and the count of each kit is the number of
its lines), `Stock` (each class is there once, with the last inventory before
`p`, and every line that filled a class has left it there) and `Chosen` (what
`create_class( )` has found). `SectionNext`, `OpensNext`, `OrderNext` and
`KitNext` say what one more line does to the counting definitions. `KitsNumbered`
and `ItemsNumbered` are needed too: that a new kit has no lines yet follows from
the existence of the kits of all items read so far.

`DeviceInv` is needed because a getter's value depends on the flag that was read
when its header was made: `CallOK` says that a packed getter asks for an answer,
that an answer is there only for a thread that waits, and that it has the bytes
the caller unpacks. `FixedFlags` is inductive only together with the domain of
the table, which `CallTypes` keeps. `EndsOnlyIfTakenBack` needs `DispatchOK`: a
packet that passed the test has a callback that is a function, or has been taken
back since, or is an enumerate callback that is None because it was set so.

`RequestsInv` has three parts beside the types. `Control`: who is between
`ExpectFunction` and the release holds the lock of its device, which then
expects its call. `Numbered`: every packet anywhere (on the wire, in the net, in
a queue, in the receive thread's hands) has a sequence number that differs from
its number by whole rounds, and lies in the queue of its own device. `Took`: the
answer a thread took has its sequence number. `AnswerMatches` follows from the
last two by arithmetic on remainders.

`ConnectionInv` is the types and `SafeInv`. `LockOwned`: a thread is inside a
section of `socket_lock` exactly if it holds it, and a context that was not made
has no thread. `SocketKnown`: the open connection is the current one, and a
probe thread that runs is the one the object knows and belongs to it. `Phases`:
what each section relies on, such as that there is no probe thread any more when
the receive thread is joined. `OneSocket` alone is not inductive: that
`Establish` forgets no open socket needs that the thread which found `socket`
None still holds the lock, and that closing leaves no probe thread behind needs
that the thread joined was the only one.

Only model-checked: liveness (`PageAgrees`, `StatusSettles`,
`CabinetSettles`, `RequestsReturn`, `CallsReturn`, `LossDetected`), which the
installed provers do not cover. Every invariant and every action property of the
passing runs is proved; where a hypothesis is listed above, the run satisfies it.
The library's induction theorems take an operator as a parameter and cannot be
used here; the few inductions over data are arguments by a least counterexample
instead.

## 5. Not modelled

Rendering, printing, trial scripts, the C source of the Brick Daemon and the
JavaScript libraries (reasons in `PROJECT.json`). Login, logout and messages are
only there as the session lock and a role. Database and process failures are not
modelled, as no code handles them. Two facts of `operations.php` are below the
abstraction of a line: TAGS and ITEMS cut off the last character of a line,
which is the carriage return of a browser's text area, so a last line without
one loses a character; and a blank line with a carriage return is not a comment
but, under TAGS, the label `''`.

Of `ip_connection.py`: the authentication handshake (a sequence of two calls
under a lock of its own), `enumerate`, `wait` and `unwait`, base58 and uid
conversion, the unpacking of headers and payloads into named tuples, the
splitting of the byte stream into packets, `packet_dispatch_allowed` and
`disconnect_probe_flag` (they skip a callback, or put a probe off by one
interval), failures to start a thread, and calls of `connect` and `disconnect`
from inside callbacks. Packets are not followed across two receive threads that
read one socket. The modules `IPConnection`, `Requests` and `Device` are not
composed: a failing send is a nondeterministic outcome in the last two.

The PHP and JavaScript of overview pages only render; the one `led.py` call they
make is an action of `Cabinet`.

## 6. What would come next

1. `IPConnection` with `Requests`: calls that wait for an answer while the
   connection is closed and opened anew, with packets of the old one.
2. `Session`: login, logout, redirect after a post, messages shown once.
3. `InitScript` composed with `SyncServer`: a request that has looked up its kit
   goes on after a TRUNCATE, in rows of the new script with the same ids.
4. Proofs: the disagreements as theorems about what does hold, such as
   `Accounted` for the kits that only one session works on when others are shared.
