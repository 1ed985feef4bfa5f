-------------------------------- MODULE Reset ---------------------------------
(***************************************************************************)
(* reset.php beside the synchronisation server.  Like every script it runs *)
(* under its session's lock and its four UPDATEs are four transactions, so *)
(* requests of other sessions and the label reader come in between.        *)
(***************************************************************************)
EXTENDS SyncServer

CONSTANTS
    Full,       \* the inventory every class is set to (2500)
    MaxResets   \* bound on the number of resets

ASSUME ResetAssumption == Full \in Nat /\ MaxResets \in Nat

VARIABLES
    resetting,  \* resetting[s]: the next UPDATE of the reset.php of session s
    resets      \* how often reset.php was begun

resetVars == <<resetting, resets>>
allVars == <<inventory, count, tag, archived, status, pc, client, kit, todo,
             free, drawn, resetting, resets>>

\* Before which of its statements reset.php can be.
ResetPoints == {"none", "archived", "tags", "counts", "stock"}

ResetTypeOK ==
    /\ ServerTypeOK
    /\ resetting \in [Sessions -> ResetPoints]
    /\ resets \in 0..MaxResets

ResetInit ==
    /\ ServerInit
    /\ resetting = [s \in Sessions |-> "none"]
    /\ resets = 0

GoesTo(s, point) ==
    /\ resetting' = [resetting EXCEPT ![s] = point]
    /\ UNCHANGED resets

\* session_start( ) gets the lock of the session.
BeginReset(s) ==
    /\ pc[s] = "idle" /\ resetting[s] = "none"
    /\ resets < MaxResets
    /\ resetting' = [resetting EXCEPT ![s] = "archived"]
    /\ resets' = resets + 1
    /\ UNCHANGED serverVars

\* Fault: NULL instead of 'f'.
ClearArchivedNull(s) ==
    /\ resetting[s] = "archived"
    /\ archived' = [g \in Groups |-> NULL]
    /\ GoesTo(s, "tags")
    /\ UNCHANGED <<inventory, count, tag, status, request, drawn>>

\* UPDATE groups SET archived='f'
ClearArchived(s) ==
    /\ resetting[s] = "archived"
    /\ archived' = [g \in Groups |-> FALSE]
    /\ GoesTo(s, "tags")
    /\ UNCHANGED <<inventory, count, tag, status, request, drawn>>

\* UPDATE groups SET tag_id=''
ClearTags(s) ==
    /\ resetting[s] = "tags"
    /\ tag' = [g \in Groups |-> EMPTY]
    /\ GoesTo(s, "counts")
    /\ UNCHANGED <<inventory, count, archived, status, request, drawn>>

\* Fault: the counts are left as they are.
ClearCountsNot(s) ==
    /\ resetting[s] = "counts"
    /\ GoesTo(s, "stock")
    /\ UNCHANGED serverVars

\* UPDATE groups SET count=0
ClearCounts(s) ==
    /\ resetting[s] = "counts"
    /\ count' = [g \in Groups |-> 0]
    /\ GoesTo(s, "stock")
    /\ UNCHANGED <<inventory, tag, archived, status, request, drawn>>

\* UPDATE classes SET inventory=2500; the script ends.
RefillStock(s) ==
    /\ resetting[s] = "stock"
    /\ inventory' = [c \in Classes |-> Full]
    /\ drawn' = [g \in Groups |-> 0]
    /\ GoesTo(s, "none")
    /\ UNCHANGED <<count, tag, archived, status, request>>

ResetStep(s) == ClearArchived(s) \/ ClearTags(s) \/ ClearCounts(s) \/ RefillStock(s)

\* Fault: no session_start( ), requests are served during the session's reset.
SessionFreeAlways(s) == TRUE

\* The session's lock is not held by its reset.php.
SessionFree(s) == resetting[s] = "none"

ResetNext ==
    \/ \E s \in Sessions :
          \/ BeginReset(s)
          \/ ResetStep(s)
          \/ /\ SessionFree(s)
             /\ \E c \in Clients, k \in KitsOf[s] :
                   \E r \in Requests[k] : Receive(s, c, k, r)
             /\ UNCHANGED resetVars
          \/ Serve(s) /\ UNCHANGED resetVars
    \/ \E t \in Tags : Archive(t) /\ UNCHANGED resetVars

ResetSpec == ResetInit /\ [][ResetNext]_allVars
-----------------------------------------------------------------------------
(* Properties.                                                               *)

\* Outside the two UPDATEs of a request and between the last two of a reset
\* (reset.php lines 26 and 27), what was debited for a position since the stock
\* was last filled is the position's count: a reset neither loses nor invents
\* material.
ResetAccounted == (\A s \in Sessions : resetting[s] # "stock") => Accounted

\* When `Reset complete.' is shown (reset.php line 28) all positions are empty
\* and have no label, although the statements that cleared them came earlier.
ResetFresh ==
    [][\A s \in Sessions : RefillStock(s) =>
          \A g \in Groups : count'[g] = 0 /\ tag'[g] \in Blank]_allVars
=============================================================================
