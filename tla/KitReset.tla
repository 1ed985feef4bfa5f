------------------------------ MODULE KitReset ------------------------------
(***************************************************************************)
(* Kit pages, the synchronisation server and reset.php together: a reset   *)
(* comes while pages are open, with posts and answers under way.  The page *)
(* is not told; it goes on posting the table it shows (kitstatus.js:152).  *)
(***************************************************************************)
EXTENDS Kitting, Reset

\* A count field can hold what a reset stores.
ASSUME SystemAssumption == 0 \in Quantities

systemVars == <<vars, resetVars>>

SystemInit == Init /\ ResetInit

\* While its reset.php runs, a session's lock is taken: none of its posts is
\* begun and none of its kit pages is loaded.
LockKept ==
    /\ \A s \in Sessions : pc[s] = "idle" /\ pc'[s] # "idle" => SessionFree(s)
    /\ \A p \in Clients : page[p] = "new" /\ page'[p] # "new" => SessionFree(SessionOf[p])

PageStep == Next /\ LockKept /\ UNCHANGED resetVars

Resets == \E s \in Sessions : (BeginReset(s) \/ ResetStep(s)) /\ UNCHANGED pageVars

SystemNext == PageStep \/ Resets

\* As in Kitting; a reset that began runs to its end.
SystemFairness ==
    /\ \A p \in Clients :
          /\ WF_systemVars(SyncKits(p) /\ UNCHANGED resetVars)
          /\ SF_systemVars(Arrives(p) /\ LockKept /\ UNCHANGED resetVars)
          /\ SF_systemVars(Merges(p) /\ UNCHANGED resetVars)
    /\ \A s \in Sessions :
          /\ WF_systemVars(ServeStep(s) /\ UNCHANGED resetVars)
          /\ WF_systemVars(ResetStep(s) /\ UNCHANGED pageVars)

SystemSpec == SystemInit /\ [][SystemNext]_systemVars /\ SystemFairness
-----------------------------------------------------------------------------
(* Properties.                                                               *)

\* The pages only send what the server beside a reset is specified for, and
\* never while the reset holds their session's lock.
ResetImplemented == ResetInit /\ [][allVars' # allVars => ResetNext]_allVars

\* Until the page has heard of a label, and as long as older posts and answers
\* are under way, count and label may still change: ajax.php line 51 stores
\* counts of labelled positions, line 54 labels again, and an old answer unlocks
\* the row (kitstatus.js line 107).  Once those are through, both are final: no
\* post, answer, loss or overtaking brings the row's field back (`Was not, is
\* not locked', kitstatus.js line 109), only a reset does.
LabelFinal == [][UNCHANGED resetVars => SettledStays]_systemVars
=============================================================================
