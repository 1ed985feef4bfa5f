----------------------------- MODULE ResetProofs ------------------------------
(***************************************************************************)
(* In a single session, reset.php and the synchronisation requests keep    *)
(* the material accounted for.  The session lock separates them; the steps *)
(* of the server are those of SyncServerProofs.  With kit pages open the   *)
(* system implements the same specification, by the steps of               *)
(* KittingProofs.                                                          *)
(***************************************************************************)
EXTENDS KitReset, KittingProofs

\* A session that is resetting serves no request.
LockHeld == \A s \in Sessions : resetting[s] # "none" => pc[s] = "idle"

\* Between the last two UPDATEs of a reset the counts are cleared; at all other
\* times every move that is not under way is done.
ClearedOrMoved ==
    /\ \A s \in Sessions : resetting[s] = "stock" => count = [g \in Groups |-> 0]
    /\ (\A s \in Sessions : resetting[s] # "stock") => MoveInv

\* After its second UPDATE a reset has left no label anywhere.
LabelsGone ==
    \A s \in Sessions : resetting[s] \in {"counts", "stock"} =>
        \A g \in Groups : tag[g] \in Blank

ResetInv ==
    /\ TypeInv
    /\ resetting \in [Sessions -> ResetPoints]
    /\ LockHeld
    /\ ClearedOrMoved
    /\ LabelsGone

LEMMA OneSessionDisjoint == OneSession => DisjointKits
  BY DEF OneSession, DisjointKits

LEMMA ResetInvInit == ResetInit => ResetInv
<1> SUFFICES ASSUME ResetInit PROVE ResetInv
  OBVIOUS
<1>1. TypeInv /\ MoveInv
  BY TypeInvInit, MoveInvInit DEF ResetInit
<1> QED
  BY <1>1 DEF ResetInit, ResetInv, ResetPoints, LockHeld, ClearedOrMoved,
     LabelsGone

\* A step that changes neither requests nor the types of the base keeps TypeInv.
LEMMA TypeInvFrame ==
    ASSUME TypeInv, UNCHANGED <<status, request>>,
           inventory' \in [Classes -> Int], count' \in [Groups -> Int],
           tag' \in [Groups -> Tags \cup Blank], archived' \in [Groups -> BOOLEAN],
           drawn' \in [Groups -> Int]
    PROVE  TypeInv'
<1>1. ServerTypeOK'
  BY DEF TypeInv, ServerTypeOK, request
<1>2. ControlInv'
  BY DEF TypeInv, ControlInv, InRow, OwnRows, Elem, request
<1> QED BY <1>1, <1>2 DEF TypeInv

\* With one session, no request is under way while it resets.
LEMMA NothingUnderWay ==
    ASSUME OneSession, LockHeld, NEW s \in Sessions, resetting[s] # "none"
    PROVE  \A t \in Sessions : \A g \in Groups : ~MidMove(t, g)
  BY DEF OneSession, LockHeld, MidMove

\* A step of the server in a session that does not reset.
LEMMA ServerStepKeeps ==
    ASSUME OneSession, ResetInv, UNCHANGED resetVars, ServerNext,
           \A s \in Sessions : resetting[s] # "none" => UNCHANGED <<pc, count, tag>>
    PROVE  ResetInv'
<1>1. TypeInv'
  BY TypeInvNext DEF ResetInv
<1>2. LockHeld' /\ LabelsGone' /\ resetting' \in [Sessions -> ResetPoints]
  BY DEF ResetInv, LockHeld, LabelsGone, resetVars
<1>3. CASE \A s \in Sessions : resetting[s] # "stock"
  <2>1. MoveInv
    BY <1>3 DEF ResetInv, ClearedOrMoved
  <2>2. MoveInv'
    BY <2>1, OneSessionDisjoint, MoveInvNext DEF ResetInv
  <2> QED BY <1>1, <1>2, <1>3, <2>2 DEF ResetInv, ClearedOrMoved, resetVars
<1>4. CASE \E s \in Sessions : resetting[s] = "stock"
  BY <1>1, <1>2, <1>4 DEF ResetInv, ClearedOrMoved, resetVars
<1> QED BY <1>3, <1>4

LEMMA ResetInvNext ==
    ASSUME OneSession
    PROVE  ResetInv /\ [ResetNext]_allVars => ResetInv'
<1> SUFFICES ASSUME ResetInv, [ResetNext]_allVars PROVE ResetInv'
  OBVIOUS
<1>0. /\ TypeInv /\ ServerTypeOK /\ LockHeld /\ ClearedOrMoved /\ LabelsGone
      /\ resetting \in [Sessions -> ResetPoints]
  BY DEF ResetInv, TypeInv
<1>1. ASSUME NEW s \in Sessions, BeginReset(s)
      PROVE  ResetInv'
  <2>1. /\ pc[s] = "idle" /\ resetting[s] = "none" /\ UNCHANGED serverVars
        /\ resetting' = [resetting EXCEPT ![s] = "archived"]
    BY <1>1 DEF BeginReset
  <2>2. TypeInv'
    BY <1>0, <2>1, TypeInvNext
  <2>3. LockHeld' /\ LabelsGone' /\ resetting' \in [Sessions -> ResetPoints]
    BY <1>0, <2>1 DEF LockHeld, LabelsGone, OneSession, ResetPoints, serverVars
  <2>4. \A t \in Sessions : resetting[t] # "stock" /\ resetting'[t] # "stock"
    BY <1>0, <2>1 DEF OneSession
  <2>5. MoveInv'
    BY <1>0, <2>1, <2>4, MoveInvFrame DEF ClearedOrMoved, serverVars, SameMove
  <2> QED BY <2>2, <2>3, <2>4, <2>5 DEF ResetInv, ClearedOrMoved
<1>2. ASSUME NEW s \in Sessions, ClearArchived(s) \/ ClearTags(s)
      PROVE  ResetInv'
  <2>1. /\ resetting[s] \in {"archived", "tags"}
        /\ resetting'[s] \in {"tags", "counts"}
        /\ resetting' \in [Sessions -> ResetPoints]
        /\ UNCHANGED <<inventory, count, status, request, drawn>>
    BY <1>0, <1>2 DEF ClearArchived, ClearTags, GoesTo, ResetPoints
  <2>2. tag' \in [Groups -> Tags \cup Blank] /\ archived' \in [Groups -> BOOLEAN]
    BY <1>0, <1>2 DEF ClearArchived, ClearTags, ServerTypeOK, Blank
  <2>3. TypeInv'
    BY <1>0, <2>1, <2>2, TypeInvFrame DEF ServerTypeOK
  <2>4. LockHeld' /\ LabelsGone'
    BY <1>0, <1>2, <2>1 DEF LockHeld, LabelsGone, OneSession, request, ClearArchived,
       ClearTags, GoesTo, Blank
  <2>5. \A t \in Sessions : resetting[t] # "stock" /\ resetting'[t] # "stock"
    BY <2>1 DEF OneSession
  <2>6. MoveInv'
    BY <1>0, <2>1, <2>5, MoveInvFrame DEF ClearedOrMoved, request, SameMove
  <2> QED BY <2>1, <2>3, <2>4, <2>5, <2>6 DEF ResetInv, ClearedOrMoved
<1>3. ASSUME NEW s \in Sessions, ClearCounts(s)
      PROVE  ResetInv'
  <2>1. /\ resetting[s] = "counts" /\ resetting'[s] = "stock"
        /\ resetting' \in [Sessions -> ResetPoints]
        /\ count' = [g \in Groups |-> 0]
        /\ UNCHANGED <<inventory, tag, archived, status, request, drawn>>
    BY <1>0, <1>3 DEF ClearCounts, GoesTo, ResetPoints
  <2>2. TypeInv'
    BY <1>0, <2>1, TypeInvFrame DEF ServerTypeOK
  <2>3. LockHeld' /\ LabelsGone'
    BY <1>0, <2>1 DEF LockHeld, LabelsGone, OneSession, request
  <2> QED BY <2>1, <2>2, <2>3 DEF ResetInv, ClearedOrMoved
<1>4. ASSUME NEW s \in Sessions, RefillStock(s)
      PROVE  ResetInv'
  <2>1. /\ resetting[s] = "stock" /\ resetting'[s] = "none"
        /\ resetting' \in [Sessions -> ResetPoints]
        /\ inventory' = [c \in Classes |-> Full] /\ drawn' = [g \in Groups |-> 0]
        /\ UNCHANGED <<count, tag, archived, status, request>>
    BY <1>0, <1>4 DEF RefillStock, GoesTo, ResetPoints
  <2>2. TypeInv'
    BY <1>0, <2>1, TypeInvFrame, ResetAssumption DEF ServerTypeOK
  <2>3. LockHeld' /\ LabelsGone'
    BY <1>0, <2>1 DEF LockHeld, LabelsGone, OneSession, request
  <2>4. \A t \in Sessions : resetting'[t] # "stock"
    BY <2>1 DEF OneSession
  <2>5. \A t \in Sessions : \A g \in Groups : ~MidMove(t, g)'
    BY <1>0, <2>1, NothingUnderWay DEF MidMove, Elem, request
  <2>6. \A g \in Groups : drawn'[g] = count'[g]
    BY <1>0, <2>1 DEF ClearedOrMoved
  <2>7. MoveInv'
    BY <2>5, <2>6 DEF MoveInv
  <2> QED BY <2>1, <2>2, <2>3, <2>4, <2>7 DEF ResetInv, ClearedOrMoved
<1>5. ASSUME NEW s \in Sessions, UNCHANGED resetVars, SessionFree(s),
             \E c \in Clients, k \in KitsOf[s] : \E r \in Requests[k] : Receive(s, c, k, r)
      PROVE  ResetInv'
  <2>1. ServerNext
    BY <1>5 DEF ServerNext
  <2>2. \A t \in Sessions : resetting[t] = "none"
    BY <1>5 DEF OneSession, SessionFree
  <2> QED BY <1>5, <2>1, <2>2, ServerStepKeeps
<1>6. ASSUME NEW s \in Sessions, UNCHANGED resetVars, Serve(s)
      PROVE  ResetInv'
  <2>1. ServerNext
    BY <1>6 DEF ServerNext
  <2>2. pc[s] # "idle"
    BY <1>6 DEF Serve, SkipElem, Take, Refuse, SetCount, CreateTag, AssignTag,
       SetStatus, Respond, AtGroup
  <2>3. \A t \in Sessions : resetting[t] = "none"
    BY <1>0, <2>2 DEF OneSession, LockHeld
  <2> QED BY <1>6, <2>1, <2>3, ServerStepKeeps
<1>7. ASSUME NEW t \in Tags, Archive(t), UNCHANGED resetVars
      PROVE  ResetInv'
  <2>1. ServerNext
    BY <1>7 DEF ServerNext
  <2>2. UNCHANGED <<pc, count, tag>>
    BY <1>7 DEF Archive, request
  <2> QED BY <1>7, <2>1, <2>2, ServerStepKeeps
<1>8. CASE UNCHANGED allVars
  <2>1. UNCHANGED serverVars /\ UNCHANGED resetVars
    BY <1>8 DEF allVars, serverVars, resetVars
  <2>2. TypeInv'
    BY <1>0, <2>1, TypeInvNext
  <2>3. MoveInv => MoveInv'
    BY <2>1, MoveInvFrame DEF serverVars, SameMove
  <2> QED
    BY <1>0, <2>1, <2>2, <2>3 DEF ResetInv, LockHeld, ClearedOrMoved, LabelsGone,
       serverVars, resetVars
<1> QED
  BY <1>1, <1>2, <1>3, <1>4, <1>5, <1>6, <1>7, <1>8 DEF ResetNext, ResetStep

\* In a single session, resets (reset.php lines 24 to 27) and requests
\* (ajax.php lines 48 and 51) in any order keep every unit accounted for: what
\* was debited for a position since the stock was filled is its count.
THEOREM ResetKeepsAccount ==
    ASSUME OneSession
    PROVE  ResetSpec => []ResetAccounted
<1>1. ResetInv => ResetAccounted
  BY DEF ResetInv, ClearedOrMoved, ResetAccounted, MoveInv, Accounted
<1> QED BY <1>1, ResetInvInit, ResetInvNext, PTL DEF ResetSpec

\* In a single session a reset ends with every position empty and without a
\* label (reset.php lines 25 to 28), although scans of the label reader come in
\* between.
THEOREM ResetEndsFresh ==
    ASSUME OneSession
    PROVE  ResetSpec => ResetFresh
<1>1. ASSUME ResetInv, [ResetNext]_allVars
      PROVE  [\A s \in Sessions : RefillStock(s) =>
                 \A g \in Groups : count'[g] = 0 /\ tag'[g] \in Blank]_allVars
  <2> SUFFICES ASSUME NEW s \in Sessions, RefillStock(s), NEW g \in Groups
               PROVE  count'[g] = 0 /\ tag'[g] \in Blank
    OBVIOUS
  <2>1. resetting[s] = "stock" /\ UNCHANGED <<count, tag>>
    BY DEF RefillStock
  <2> QED BY <1>1, <2>1 DEF ResetInv, ClearedOrMoved, LabelsGone
<1> QED BY <1>1, ResetInvInit, ResetInvNext, PTL DEF ResetSpec, ResetFresh
-----------------------------------------------------------------------------
(* Types, in any number of sessions.                                         *)

ResetTypes ==
    /\ TypeInv
    /\ resetting \in [Sessions -> ResetPoints]
    /\ resets \in 0..MaxResets

LEMMA ResetTypesNext == ResetTypes /\ [ResetNext]_allVars => ResetTypes'
<1> SUFFICES ASSUME ResetTypes, [ResetNext]_allVars PROVE ResetTypes'
  OBVIOUS
<1>0. /\ TypeInv /\ ServerTypeOK /\ resets \in 0..MaxResets
      /\ resetting \in [Sessions -> ResetPoints]
  BY DEF ResetTypes, TypeInv
<1>1. ASSUME NEW s \in Sessions, BeginReset(s)
      PROVE  ResetTypes'
  <2>1. TypeInv'
    BY <1>0, <1>1, TypeInvNext DEF BeginReset
  <2>2. resetting' \in [Sessions -> ResetPoints]
    BY <1>0, <1>1 DEF BeginReset, ResetPoints
  <2>3. resets' \in 0..MaxResets
    BY <1>0, <1>1, ResetAssumption DEF BeginReset
  <2> QED BY <2>1, <2>2, <2>3 DEF ResetTypes
<1>2. ASSUME NEW s \in Sessions, ResetStep(s)
      PROVE  ResetTypes'
  <2>1. resetting' \in [Sessions -> ResetPoints] /\ UNCHANGED <<resets, status, request>>
    BY <1>0, <1>2 DEF ResetStep, ClearArchived, ClearTags, ClearCounts, RefillStock,
       GoesTo, ResetPoints
  <2>2. /\ tag' \in [Groups -> Tags \cup Blank]
        /\ archived' \in [Groups -> BOOLEAN]
    BY <1>0, <1>2 DEF ResetStep, ClearArchived, ClearTags, ClearCounts, RefillStock,
       ServerTypeOK, Blank
  <2>3. /\ inventory' \in [Classes -> Int]
        /\ count' \in [Groups -> Int]
        /\ drawn' \in [Groups -> Int]
    BY <1>0, <1>2, ResetAssumption DEF ResetStep, ClearArchived, ClearTags, ClearCounts,
       RefillStock, ServerTypeOK
  <2>4. TypeInv'
    BY <1>0, <2>1, <2>2, <2>3, TypeInvFrame
  <2> QED BY <1>0, <2>1, <2>4 DEF ResetTypes
<1>3. ASSUME [ServerNext]_serverVars, UNCHANGED resetVars
      PROVE  ResetTypes'
  <2>1. TypeInv'
    BY <1>0, <1>3, TypeInvNext
  <2> QED BY <1>0, <1>3, <2>1 DEF ResetTypes, resetVars
<1>4. CASE UNCHANGED allVars
  BY <1>3, <1>4 DEF allVars, serverVars, resetVars
<1> QED
  BY <1>1, <1>2, <1>3, <1>4 DEF ResetNext, ServerNext

\* The four UPDATEs of reset.php (lines 24 to 27), between the statements of
\* requests of any sessions, leave no value of another kind in the base.
THEOREM ResetTypeCorrect == ResetSpec => []ResetTypeOK
<1>1. ResetInit => ResetTypes
  BY TypeInvInit, ResetAssumption DEF ResetInit, ResetTypes, ResetPoints
<1>2. ResetTypes => ResetTypeOK
  BY DEF ResetTypes, ResetTypeOK, TypeInv
<1> QED BY <1>1, <1>2, ResetTypesNext, PTL DEF ResetSpec
-----------------------------------------------------------------------------
(* Labels.                                                                   *)

LEMMA ResetTagInvNext ==
    ASSUME OneSession
    PROVE  ResetTypes /\ TagInv /\ [ResetNext]_allVars => TagInv'
<1> SUFFICES ASSUME TypeInv, TagInv, [ResetNext]_allVars PROVE TagInv'
  BY DEF ResetTypes
<1>1. ASSUME NEW s \in Sessions, ClearTags(s)
      PROVE  TagInv'
  <2>1. tag' = [g \in Groups |-> EMPTY] /\ UNCHANGED <<pc, free>>
    BY <1>1 DEF ClearTags, request
  <2>2. \A g \in Groups : tag'[g] \in Blank
    BY <2>1 DEF Blank
  <2>3. free \in [Sessions -> Tags \cup {NULL}]
    BY DEF TypeInv, ServerTypeOK
  <2>4. \A t \in Sessions : free[t] = NULL \/ \A g \in Groups : tag'[g] # free[t]
    BY <2>2, <2>3, ServerAssumption
  <2> QED BY <2>1, <2>2, <2>4 DEF TagInv, TagsUnique, PickedFree
<1>2. ASSUME UNCHANGED <<tag, pc, free>>
      PROVE  TagInv'
  BY <1>2 DEF TagInv, TagsUnique, PickedFree
<1>3. ASSUME [ServerNext]_serverVars
      PROVE  TagInv'
  BY <1>3, TagInvNext
<1>4. ASSUME NEW s \in Sessions,
             BeginReset(s) \/ ClearArchived(s) \/ ClearCounts(s) \/ RefillStock(s)
      PROVE  TagInv'
  BY <1>2, <1>4 DEF BeginReset, ClearArchived, ClearCounts, RefillStock, request, serverVars
<1> QED
  BY <1>1, <1>2, <1>3, <1>4 DEF ResetNext, ResetStep, ServerNext, allVars

\* In a single session, on a base loaded without duplicate labels, no two
\* positions carry the same label when reset.php (line 25) makes all labels free
\* again and create_tag( ) hands them out anew.
THEOREM ResetLabelsUnique ==
    ASSUME OneSession, FirstTagsUnique
    PROVE  ResetSpec => []TagsUnique
<1>1. ResetInit => ResetTypes /\ TagInv
  BY TypeInvInit, ResetAssumption DEF ResetInit, ResetTypes, ResetPoints, ServerInit, TagInv,
     TagsUnique, PickedFree, FirstTagsUnique
<1>2. TagInv => TagsUnique
  BY DEF TagInv
<1> QED BY <1>1, <1>2, ResetTypesNext, ResetTagInvNext, PTL DEF ResetSpec
-----------------------------------------------------------------------------
(* Kit pages beside resets.                                                  *)

\* With resets in between, the pages keep their invariant.
SystemInv == ResetTypes /\ PageInv

\* A step of the pages, or of the requests they sent, is one that reset.php is
\* specified beside: the session lock (LockKept) keeps the two apart.
LEMMA SystemStep == SystemInv /\ [SystemNext]_systemVars => [ResetNext]_allVars
<1> SUFFICES ASSUME SystemInv, [SystemNext]_systemVars PROVE [ResetNext]_allVars
  OBVIOUS
<1>0. KitInv /\ pc \in [Sessions -> Points]
  BY DEF SystemInv, ResetTypes, KitInv, TypeInv, ServerTypeOK
<1>1. ASSUME Next, LockKept, UNCHANGED resetVars PROVE [ResetNext]_allVars
  <2>1. [ServerNext]_serverVars
    BY <1>0, <1>1, ServerStep
  <2>2. ASSUME NEW s \in Sessions, NEW c \in Clients, NEW k \in KitsOf[s],
               NEW r \in Requests[k], Receive(s, c, k, r)
        PROVE  ResetNext
    <3>1. pc[s] = "idle" /\ pc'[s] = "next"
      BY <1>0, <2>2 DEF Receive
    <3>2. SessionFree(s)
      BY <1>1, <3>1 DEF LockKept
    <3> QED BY <1>1, <2>2, <3>2 DEF ResetNext
  <2>3. ASSUME NEW s \in Sessions, Serve(s) PROVE ResetNext
    BY <1>1, <2>3 DEF ResetNext
  <2>4. ASSUME NEW t \in Tags, Archive(t) PROVE ResetNext
    BY <1>1, <2>4 DEF ResetNext
  <2>5. CASE UNCHANGED serverVars
    BY <1>1, <2>5 DEF serverVars, resetVars, allVars
  <2> QED BY <2>1, <2>2, <2>3, <2>4, <2>5 DEF ServerNext
<1>2. ASSUME Resets PROVE ResetNext
  BY <1>2 DEF Resets, ResetNext
<1>3. CASE UNCHANGED systemVars
  BY <1>3 DEF systemVars, vars, serverVars, resetVars, allVars
<1> QED BY <1>1, <1>2, <1>3 DEF SystemNext, PageStep

LEMMA SystemInvNext == SystemInv /\ [SystemNext]_systemVars => SystemInv'
<1> SUFFICES ASSUME SystemInv, [SystemNext]_systemVars PROVE SystemInv'
  OBVIOUS
<1>0. KitInv /\ PageInv
  BY DEF SystemInv, ResetTypes, KitInv
<1>1. ResetTypes'
  BY SystemStep, ResetTypesNext DEF SystemInv
<1>2. ASSUME [Next]_vars PROVE PageInv'
  BY <1>0, <1>2, PageInvNext
<1>3. ASSUME Resets PROVE PageInv'
  <2>0. PICK s \in Sessions : (BeginReset(s) \/ ResetStep(s)) /\ UNCHANGED pageVars
    BY <1>3 DEF Resets
  <2>1. UNCHANGED pageVars /\ UNCHANGED <<pc, client, kit>>
    <3>1. BeginReset(s) => UNCHANGED <<pc, client, kit>>
      BY DEF BeginReset, serverVars
    <3>2. ResetStep(s) => UNCHANGED request
      BY DEF ResetStep, ClearArchived, ClearTags, ClearCounts, RefillStock
    <3> QED BY <2>0, <3>1, <3>2 DEF request
  <2>2. count' = count \/ count' = [g \in Groups |-> 0]
    BY <2>0 DEF BeginReset, ResetStep, ClearArchived, ClearTags, ClearCounts, RefillStock,
       serverVars
  <2>3. Showable'
    BY <1>0, <2>2, SystemAssumption DEF PageInv, Showable
  <2>4. PageTypes'
    BY <1>0, <2>1 DEF PageInv, PageTypes, pageVars
  <2>5. \A p \in Clients : ViewInv(p)'
    BY <1>0, <2>1, ViewFrame DEF PageInv, pageVars
  <2>6. \A t \in Sessions : ServedInv(t)'
    BY <1>0, <2>1, ServedFrame DEF PageInv, pageVars
  <2> QED BY <2>3, <2>4, <2>5, <2>6 DEF PageInv
<1>4. ASSUME UNCHANGED systemVars PROVE PageInv'
  BY <1>2, <1>4 DEF systemVars
<1> QED BY <1>1, <1>2, <1>3, <1>4 DEF SystemInv, SystemNext, PageStep

LEMMA SystemInvAlways == SystemSpec => []SystemInv
<1>1. SystemInit => SystemInv
  <2> SUFFICES ASSUME SystemInit PROVE SystemInv
    OBVIOUS
  <2>1. KitInv
    BY KitInvInit DEF SystemInit
  <2>2. ResetTypes
    BY <2>1, ResetAssumption DEF SystemInit, ResetInit, ResetTypes, ResetPoints, KitInv
  <2> QED BY <2>1, <2>2 DEF SystemInv, KitInv
<1> QED BY <1>1, SystemInvNext, PTL DEF SystemSpec

LEMMA SystemReset == SystemSpec => ResetSpec
<1>1. SystemInit => ResetInit
  BY DEF SystemInit
<1> QED BY <1>1, SystemInvAlways, SystemStep, PTL DEF SystemSpec, ResetSpec

\* Pages, server and resets together implement the specification of reset.php
\* beside the server: every step of a page, of its posts and of a request is
\* one of the server in a session that does not reset.
THEOREM SystemImplementsReset == SystemSpec => ResetImplemented
<1>1. SystemInit => ResetInit
  BY DEF SystemInit
<1>2. SystemInv /\ [SystemNext]_systemVars => [allVars' # allVars => ResetNext]_allVars
  BY SystemStep
<1> QED BY <1>1, <1>2, SystemInvAlways, PTL DEF SystemSpec, ResetImplemented

\* With kit pages open during resets, in any number of sessions, the base and
\* the pages stay type correct.
THEOREM SystemTypeCorrect == SystemSpec => []ResetTypeOK /\ []TypeOK
<1>1. SystemInv => TypeOK
  BY KitTypes DEF SystemInv, ResetTypes, KitInv
<1> QED BY <1>1, SystemReset, SystemInvAlways, ResetTypeCorrect, PTL

\* In a single session, pages that go on posting old tables during and after a
\* reset (kitstatus.js line 152) lose and invent no material, give no label to
\* two positions and do not fill a position before the reset is complete.
THEOREM SystemKeepsAccount ==
    ASSUME OneSession, FirstTagsUnique
    PROVE  SystemSpec => []ResetAccounted /\ []TagsUnique /\ ResetFresh
  BY SystemReset, ResetKeepsAccount, ResetLabelsUnique, ResetEndsFresh, PTL
-----------------------------------------------------------------------------
(* Labelled positions.                                                       *)

\* A reset takes nothing from the pages.
LEMMA LockedEmptySystem ==
    SystemInv /\ LockedEmpty /\ [SystemNext]_systemVars => LockedEmpty'
<1> SUFFICES ASSUME SystemInv, LockedEmpty, [SystemNext]_systemVars PROVE LockedEmpty'
  OBVIOUS
<1>0. KitInv
  BY DEF SystemInv, ResetTypes, KitInv
<1>1. ASSUME [Next]_vars PROVE LockedEmpty'
  BY <1>0, <1>1, LockedEmptyNext
<1>2. CASE Resets
  <2>1. rows' = rows
    BY <1>2 DEF Resets, pageVars
  <2> QED BY <2>1 DEF LockedEmpty, HasRow
<1>3. CASE UNCHANGED systemVars
  BY <1>1, <1>3 DEF systemVars
<1> QED BY <1>1, <1>2, <1>3 DEF SystemNext, PageStep

\* Every step of a reset moves the reset on.
LEMMA ResetMoves ==
    ASSUME ResetTypes, Resets
    PROVE  ~UNCHANGED resetVars
<1>0. resets \in Nat /\ resetting \in [Sessions -> ResetPoints]
  BY ResetAssumption DEF ResetTypes
<1>1. PICK s \in Sessions : BeginReset(s) \/ ResetStep(s)
  BY DEF Resets
<1>2. CASE BeginReset(s)
  BY <1>0, <1>2 DEF BeginReset, resetVars
<1>3. CASE ResetStep(s)
  BY <1>0, <1>3 DEF ResetStep, ClearArchived, ClearTags, ClearCounts, RefillStock, GoesTo,
     resetVars
<1> QED BY <1>1, <1>2, <1>3

\* A kit that is open on one page: once a label is in the base and on the page,
\* and the posts and answers from before are through, the position keeps its
\* count and its label and the row stays locked (`Was not, is not locked',
\* kitstatus.js line 109) until a reset.  Posts may be lost, overtake each other
\* and pile up behind the session lock in any number.
THEOREM LabelsFinal ==
    ASSUME OnePagePerKit
    PROVE  SystemSpec => LabelFinal
<1>1. SystemInit => LockedEmpty
  BY DEF SystemInit, Init, LockedEmpty, HasRow, NoRows
<1>2. ASSUME SystemInv, LockedEmpty, [SystemNext]_systemVars
      PROVE  [UNCHANGED resetVars => SettledStays]_systemVars
  <2> SUFFICES ASSUME UNCHANGED resetVars, NEW p \in Clients, NEW g \in Groups,
                      Settled(p, g), page'[p] = "open"
               PROVE  Settled(p, g)' /\ count'[g] = count[g] /\ tag'[g] = tag[g]
    BY DEF SettledStays
  <2>1. KitInv /\ ResetTypes
    BY <1>2 DEF SystemInv, ResetTypes, KitInv
  <2>2. [Next]_vars
    BY <1>2, <2>1, ResetMoves DEF SystemNext, PageStep, systemVars
  <2> QED BY <1>2, <2>1, <2>2, SettledNext
<1> QED BY <1>1, <1>2, SystemInvAlways, LockedEmptySystem, PTL DEF SystemSpec, LabelFinal
=============================================================================
