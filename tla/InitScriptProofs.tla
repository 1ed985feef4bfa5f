-------------------------- MODULE InitScriptProofs ----------------------------
(***************************************************************************)
(* The numbering of kits and items and the types of the tables, for any    *)
(* scripts posted in any number of sessions; and that a script which has   *)
(* the tables to itself loads what it says.                                *)
(***************************************************************************)
EXTENDS InitScript, FiniteSetTheorems, TLAPS

\* The types that the numbering needs.
NumberTypes ==
    /\ kitCount \in Seq(Nat)
    /\ kits \in [DOMAIN kits -> Nat]
    /\ \A g \in groups : g.id \in Nat
    /\ orderId \in [Runners -> Nat \cup {NULL}]

NumberInv == NumberTypes /\ KitsNumbered /\ ItemsNumbered

\* KitsNumbered for a single key.
LEMMA KitKeys ==
    ASSUME KitsNumbered
    PROVE  /\ \A o \in DOMAIN kitCount : \A n \in 0..(kitCount[o] - 1) : <<o, n>> \in DOMAIN kits
           /\ \A k \in DOMAIN kits : \E o \in DOMAIN kitCount :
                 \E n \in 0..(kitCount[o] - 1) : k = <<o, n>>
  BY DEF KitsNumbered

LEMMA KitKeysConverse ==
    ASSUME \A o \in DOMAIN kitCount : \A n \in 0..(kitCount[o] - 1) : <<o, n>> \in DOMAIN kits,
           \A k \in DOMAIN kits : \E o \in DOMAIN kitCount :
                 \E n \in 0..(kitCount[o] - 1) : k = <<o, n>>
    PROVE  KitsNumbered
  BY DEF KitsNumbered

LEMMA NumberInvInit == ScriptInit => NumberInv
<1> SUFFICES ASSUME ScriptInit PROVE NumberInv
  OBVIOUS
<1>1. kitCount = <<>> /\ kits = <<>> /\ groups = {} /\ orderId = [r \in Runners |-> NULL]
  BY DEF ScriptInit
<1>2. DOMAIN kits = {} /\ DOMAIN kitCount = {}
  BY <1>1
<1>3. NumberTypes
  BY <1>1, <1>2 DEF NumberTypes
<1> QED BY <1>1, <1>2, <1>3, KitKeysConverse DEF NumberInv, ItemsNumbered

\* Steps that do not touch what is numbered.
LEMMA NumbersFrame ==
    ASSUME NumberInv, UNCHANGED <<kitCount, kits, groups, orderId>>
    PROVE  NumberInv'
<1>1. NumberTypes'
  BY DEF NumberInv, NumberTypes
<1>2. KitsNumbered'
  BY DEF NumberInv, KitsNumbered
<1>3. ItemsNumbered'
  BY DEF NumberInv, ItemsNumbered
<1> QED BY <1>1, <1>2, <1>3 DEF NumberInv

LEMMA NumberInvNext == NumberInv /\ [ScriptNext]_vars => NumberInv'
<1> SUFFICES ASSUME NumberInv, NumberTypes, KitsNumbered, ItemsNumbered, [ScriptNext]_vars
             PROVE  NumberInv'
  BY DEF NumberInv
<1>1. ASSUME NEW r \in Runners, Truncate(r)
      PROVE  NumberInv'
  <2>1. kitCount' = <<>> /\ kits' = <<>> /\ groups' = {} /\ UNCHANGED orderId
    BY <1>1 DEF Truncate
  <2>2. DOMAIN kits' = {} /\ DOMAIN kitCount' = {}
    BY <2>1
  <2>3. NumberTypes'
    BY <2>1, <2>2 DEF NumberTypes
  <2>4. KitsNumbered'
    BY <2>2 DEF KitsNumbered
  <2> QED BY <2>1, <2>2, <2>3, <2>4 DEF NumberInv, ItemsNumbered
<1>2. ASSUME NEW r \in Runners, ReadOrder(r)
      PROVE  NumberInv'
  <2>1. /\ kitCount' = Append(kitCount, 0) /\ UNCHANGED <<kits, groups>>
        /\ orderId' = [orderId EXCEPT ![r] = Len(kitCount) + 1]
    BY <1>2 DEF ReadOrder
  <2>2. NumberTypes'
    BY <2>1 DEF NumberTypes
  <2>3. DOMAIN kitCount' = DOMAIN kitCount \cup {Len(kitCount) + 1}
    BY <2>1 DEF NumberTypes
  <2>4. /\ kitCount'[Len(kitCount) + 1] = 0
        /\ \A o \in DOMAIN kitCount : kitCount'[o] = kitCount[o]
    BY <2>1 DEF NumberTypes
  <2>5. KitsNumbered'
    <3>1. ASSUME NEW o \in DOMAIN kitCount', NEW n \in 0..(kitCount'[o] - 1)
          PROVE  <<o, n>> \in DOMAIN kits'
      <4>1. o \in DOMAIN kitCount
        BY <2>3, <2>4
      <4>2. n \in 0..(kitCount[o] - 1)
        BY <2>4, <4>1
      <4> QED BY <2>1, <4>1, <4>2, KitKeys
    <3>2. ASSUME NEW k \in DOMAIN kits'
          PROVE  \E o \in DOMAIN kitCount' : \E n \in 0..(kitCount'[o] - 1) : k = <<o, n>>
      <4>1. PICK o \in DOMAIN kitCount : \E n \in 0..(kitCount[o] - 1) : k = <<o, n>>
        BY <2>1, KitKeys
      <4>2. PICK n \in 0..(kitCount[o] - 1) : k = <<o, n>>
        BY <4>1
      <4>3. o \in DOMAIN kitCount' /\ n \in 0..(kitCount'[o] - 1)
        BY <2>3, <2>4, <4>1, <4>2
      <4> QED BY <4>2, <4>3
    <3> QED BY <3>1, <3>2 DEF KitsNumbered
  <2> QED BY <2>1, <2>2, <2>5 DEF NumberInv, ItemsNumbered
<1>3. ASSUME NEW r \in Runners, ReadKit(r)
      PROVE  NumberInv'
  <2> DEFINE o == orderId[r]
             n == kitCount[o]
  <2>1. CASE o \in DOMAIN kitCount
    <3>1. /\ kitCount' = [kitCount EXCEPT ![o] = @ + 1] /\ kits' = WithKit(o, n)
          /\ UNCHANGED <<groups, orderId>>
      BY <1>3, <2>1 DEF ReadKit
    <3>2. n \in Nat /\ o \in Nat
      BY <2>1 DEF NumberTypes
    <3>3. /\ DOMAIN kits' = DOMAIN kits \cup {<<o, n>>}
          /\ kits'[<<o, n>>] = 0
          /\ \A k \in DOMAIN kits : k # <<o, n>> => kits'[k] = kits[k]
      BY <3>1 DEF WithKit
    <3>4. <<o, n>> \notin DOMAIN kits
      BY <3>2, KitKeys
    <3>5. DOMAIN kitCount' = DOMAIN kitCount /\ kitCount'[o] = n + 1
          /\ \A p \in DOMAIN kitCount : p # o => kitCount'[p] = kitCount[p]
      BY <2>1, <3>1 DEF NumberTypes
    <3>6. NumberTypes'
      <4>1. kitCount' \in Seq(Nat)
        BY <2>1, <3>1, <3>2 DEF NumberTypes
      <4>2. kits' \in [DOMAIN kits' -> Nat]
        BY <3>1 DEF WithKit, NumberTypes
      <4> QED BY <3>1, <4>1, <4>2 DEF NumberTypes
    <3> HIDE DEF o, n
    <3>7. KitsNumbered'
      <4>1. ASSUME NEW p \in DOMAIN kitCount', NEW m \in 0..(kitCount'[p] - 1)
            PROVE  <<p, m>> \in DOMAIN kits'
        <5>1. CASE p = o /\ m = n
          BY <5>1, <3>3
        <5>2. CASE p = o /\ m # n
          <6>1. m \in 0..(kitCount[o] - 1)
            BY <5>2, <3>2, <3>5 DEF n
          <6> QED BY <5>2, <6>1, <2>1, <3>3, KitKeys
        <5>3. CASE p # o
          BY <5>3, <3>3, <3>5, KitKeys
        <5> QED BY <5>1, <5>2, <5>3
      <4>2. ASSUME NEW k \in DOMAIN kits'
            PROVE  \E p \in DOMAIN kitCount' : \E m \in 0..(kitCount'[p] - 1) : k = <<p, m>>
        <5>1. CASE k = <<o, n>>
          <6>1. o \in DOMAIN kitCount' /\ n \in 0..(kitCount'[o] - 1)
            BY <2>1, <3>2, <3>5
          <6> QED BY <5>1, <6>1
        <5>2. CASE k \in DOMAIN kits
          <6>1. PICK p \in DOMAIN kitCount : \E m \in 0..(kitCount[p] - 1) : k = <<p, m>>
            BY <5>2, KitKeys
          <6>2. PICK m \in 0..(kitCount[p] - 1) : k = <<p, m>>
            BY <6>1
          <6>3. p \in DOMAIN kitCount' /\ m \in 0..(kitCount'[p] - 1)
            BY <3>2, <3>5, <6>1, <6>2 DEF n
          <6> QED BY <6>2, <6>3
        <5> QED BY <3>3, <5>1, <5>2
      <4> QED BY <4>1, <4>2 DEF KitsNumbered
    <3>8. ItemsNumbered'
      <4>1. ASSUME NEW g \in groups'
            PROVE  /\ <<g.order, g.kit>> \in DOMAIN kits'
                   /\ g.id < kits'[<<g.order, g.kit>>]
        BY <3>1, <3>3, <3>4 DEF ItemsNumbered
      <4>2. ASSUME NEW k \in DOMAIN kits', NEW m \in 0..(kits'[k] - 1)
            PROVE  \E g \in groups' : <<g.order, g.kit, g.id>> = <<k[1], k[2], m>>
        <5>1. k # <<o, n>>
          BY <3>3
        <5>2. k \in DOMAIN kits /\ kits'[k] = kits[k]
          BY <3>3, <5>1
        <5> QED BY <3>1, <5>2 DEF ItemsNumbered
      <4>3. \A g, h \in groups' : g.order = h.order /\ g.kit = h.kit /\ g.id = h.id => g = h
        BY <3>1 DEF ItemsNumbered
      <4> QED BY <4>1, <4>2, <4>3 DEF ItemsNumbered
    <3> QED BY <3>6, <3>7, <3>8 DEF NumberInv
  <2>2. CASE o \notin DOMAIN kitCount
    <3>1. UNCHANGED <<kitCount, kits, groups, orderId>>
      BY <1>3, <2>2 DEF ReadKit
    <3> QED BY <3>1, NumbersFrame
  <2> QED BY <2>1, <2>2
<1>4. ASSUME NEW r \in Runners, InsertItem(r)
      PROVE  NumberInv'
  <2> DEFINE key == KitKey(r)
             new == GroupOf(r, At(r), kits[key])
  <2>1. CASE key \in DOMAIN kits
    <3>1. /\ kits' = [kits EXCEPT ![key] = @ + 1] /\ groups' = groups \cup {new}
          /\ UNCHANGED <<kitCount, orderId>>
      BY <1>4, <2>1 DEF InsertItem
    <3>2. new.order = orderId[r] /\ new.kit = kitId[r] /\ new.id = kits[key]
      BY DEF GroupOf
    <3>3. key = <<new.order, new.kit>> /\ key[1] = new.order /\ key[2] = new.kit
      BY <3>2 DEF KitKey
    <3> HIDE DEF key, new
    <3>4. /\ DOMAIN kits' = DOMAIN kits /\ kits[key] \in Nat /\ kits'[key] = kits[key] + 1
          /\ \A k \in DOMAIN kits : k # key => kits'[k] = kits[k]
      BY <2>1, <3>1 DEF NumberTypes
    <3>5. NumberTypes'
      BY <2>1, <3>1, <3>2, <3>4 DEF NumberTypes
    <3>6. KitsNumbered'
      BY <3>1, <3>4 DEF KitsNumbered
    <3>7. ItemsNumbered'
      <4>1. ASSUME NEW g \in groups'
            PROVE  /\ <<g.order, g.kit>> \in DOMAIN kits'
                   /\ g.id < kits'[<<g.order, g.kit>>]
        <5>1. CASE g = new
          BY <5>1, <2>1, <3>2, <3>3, <3>4
        <5>2. CASE g \in groups
          <6>1. <<g.order, g.kit>> \in DOMAIN kits /\ g.id < kits[<<g.order, g.kit>>]
            BY <5>2 DEF ItemsNumbered
          <6>2. CASE <<g.order, g.kit>> = key
            <7>1. g.id < kits[key]
              BY <6>1, <6>2
            <7>2. g.id < kits[key] + 1
              BY <7>1, <3>4, <5>2 DEF NumberTypes
            <7> QED BY <6>1, <6>2, <7>2, <3>4
          <6>3. CASE <<g.order, g.kit>> # key
            BY <6>1, <6>3, <3>4
          <6> QED BY <6>2, <6>3
        <5> QED BY <3>1, <5>1, <5>2
      <4>2. ASSUME NEW k \in DOMAIN kits', NEW m \in 0..(kits'[k] - 1)
            PROVE  \E g \in groups' : <<g.order, g.kit, g.id>> = <<k[1], k[2], m>>
        <5>1. CASE k = key /\ m = kits[key]
          BY <5>1, <3>1, <3>2, <3>3
        <5>2. CASE ~(k = key /\ m = kits[key])
          <6>1. k \in DOMAIN kits /\ m \in 0..(kits[k] - 1)
            BY <5>2, <3>4
          <6> QED BY <6>1, <3>1 DEF ItemsNumbered
        <5> QED BY <5>1, <5>2
      <4>3. ASSUME NEW g \in groups', NEW h \in groups',
                   g.order = h.order, g.kit = h.kit, g.id = h.id
            PROVE  g = h
        <5>1. ASSUME NEW f \in groups, f.order = new.order, f.kit = new.kit, f.id = new.id
              PROVE  FALSE
          <6>1. f.id < kits[<<f.order, f.kit>>]
            BY <5>1 DEF ItemsNumbered
          <6>2. kits[key] < kits[key]
            BY <5>1, <6>1, <3>2, <3>3
          <6> QED BY <6>2, <3>4
        <5> QED BY <3>1, <4>3, <5>1 DEF ItemsNumbered
      <4> QED BY <4>1, <4>2, <4>3 DEF ItemsNumbered
    <3> QED BY <3>5, <3>6, <3>7 DEF NumberInv
  <2>2. CASE key \notin DOMAIN kits
    <3>1. UNCHANGED <<kitCount, kits, groups, orderId>>
      BY <1>4, <2>2 DEF InsertItem
    <3> QED BY <3>1, NumbersFrame
  <2> QED BY <2>1, <2>2
<1>5. CASE UNCHANGED <<kitCount, kits, groups, orderId>>
  BY <1>5, NumbersFrame
<1> QED
  BY <1>1, <1>2, <1>3, <1>4, <1>5 DEF ScriptNext, ScriptStep, ReadComment, ReadSection,
     IgnoreLine, AddTag, AddUser, SelectClass, InsertClass, FillClass, ItemTag, EndScript,
     tables, vars

\* Whatever scripts are posted at the same time, the kits of every order are
\* numbered from 0 without a gap: counting and inserting a kit are one
\* statement (operations.php line 55).
THEOREM KitNumbers == ScriptSpec => []KitsNumbered
<1>1. NumberInv => KitsNumbered
  BY DEF NumberInv
<1> QED BY <1>1, NumberInvInit, NumberInvNext, PTL DEF ScriptSpec

\* The same for the items of every kit (operations.php line 88).
THEOREM ItemNumbers == ScriptSpec => []ItemsNumbered
<1>1. NumberInv => ItemsNumbered
  BY DEF NumberInv
<1> QED BY <1>1, NumberInvInit, NumberInvNext, PTL DEF ScriptSpec
-----------------------------------------------------------------------------
(* Types.                                                                    *)

\* A statement after the first of a line still has its line, which names a class
\* and fits the section; create_class( ) has returned an id by then.
LineInv(r) ==
    /\ pc[r] # "start" => script[r] # NULL
    /\ pc[r] \in {"insert", "fill", "tag", "row"} =>
          /\ pos[r] \in DOMAIN script[r]
          /\ \/ mode[r] = 0 /\ At(r).kind = "pair"
             \/ mode[r] = 4 /\ At(r).kind = "item"
    /\ pc[r] = "fill" => mode[r] = 0
    /\ pc[r] \in {"tag", "row"} => mode[r] = 4
    /\ pc[r] \in {"fill", "tag", "row"} => classId[r] \in Nat

LineInvs == \A r \in Runners : LineInv(r)

\* The types of the tables and those of the scripts' variables.
TableTypes ==
    /\ classes \in Seq([name : Names, inventory : Int])
    /\ tags \subseteq Names \cup {EMPTY}
    /\ kitCount \in Seq(Nat)
    /\ DOMAIN kits \subseteq Nat \X Nat /\ \A k \in DOMAIN kits : kits[k] \in Nat
    /\ groups \subseteq Group
    /\ users \in Seq(Names \cup {EMPTY})

RunnerTypes ==
    /\ DOMAIN script = Runners /\ \A r \in Runners : script[r] = NULL \/ script[r] \in Seq(Line)
    /\ pos \in [Runners -> Nat]
    /\ pc \in [Runners -> {"start", "line", "insert", "fill", "tag", "row", "done"}]
    /\ mode \in [Runners -> 0..5]
    /\ orderId \in [Runners -> Nat \cup {NULL}]
    /\ kitId \in [Runners -> Nat \cup {NULL}]
    /\ classId \in [Runners -> Nat \cup {NULL}]

ScriptInv == TableTypes /\ RunnerTypes /\ LineInvs

\* What the lines of a script hold.
LEMMA LineFields ==
    ASSUME NEW l \in Line
    PROVE  /\ l.kind = "pair" => l.class \in Names /\ l.amount \in Int /\ l.text \in Names
           /\ l.kind = "item" => /\ l.class \in Names /\ l.target \in Int /\ l.count \in Int
                                 /\ l.tag \in Names \cup {EMPTY} /\ l.archived \in BOOLEAN
                                 /\ l.text \in Names
           /\ l.kind = "text" => l.text \in Names \cup {EMPTY}
  BY DEF Line

LEMMA AtLine ==
    ASSUME RunnerTypes, NEW r \in Runners, script[r] # NULL, pos[r] \in DOMAIN script[r]
    PROVE  At(r) \in Line
  BY DEF RunnerTypes, At

LEMMA ModeRange == \A name : ModeOf(name) \in 0..5
<1> SUFFICES ASSUME NEW name PROVE ModeOf(name) \in 0..5
  OBVIOUS
<1>1. DOMAIN Sections = 1..6
  BY DEF Sections
<1>2. CASE \E i \in DOMAIN Sections : Sections[i] = name
  <2> DEFINE j == CHOOSE i \in DOMAIN Sections : Sections[i] = name
  <2>1. j \in DOMAIN Sections
    BY <1>2
  <2>2. ModeOf(name) = j - 1
    BY <1>2 DEF ModeOf
  <2> HIDE DEF j
  <2> QED BY <1>1, <2>1, <2>2
<1>3. CASE ~\E i \in DOMAIN Sections : Sections[i] = name
  BY <1>3 DEF ModeOf
<1> QED BY <1>2, <1>3

LEMMA ScriptInvInit == ScriptInit => ScriptInv
<1> SUFFICES ASSUME ScriptInit PROVE ScriptInv
  OBVIOUS
<1>1. DOMAIN kits = {}
  BY DEF ScriptInit
<1>2. DOMAIN script = Runners /\ \A r \in Runners : script[r] = NULL \/ script[r] \in Seq(Line)
  BY ScriptAssumption DEF ScriptInit
<1>3. TableTypes /\ RunnerTypes
  BY <1>1, <1>2 DEF ScriptInit, TableTypes, RunnerTypes
<1> QED BY <1>3 DEF ScriptInit, ScriptInv, LineInvs, LineInv

\* A step of r leaves the other scripts where they are.
LEMMA OthersKeep ==
    ASSUME LineInvs, NEW r \in Runners,
           \A q \in Runners \ {r} : /\ pc'[q] = pc[q] /\ pos'[q] = pos[q]
                                    /\ mode'[q] = mode[q] /\ classId'[q] = classId[q],
           UNCHANGED script,
           LineInv(r)'
    PROVE  LineInvs'
  BY DEF LineInvs, LineInv, At

\* Going on to the next line.
LEMMA NextLineKeeps ==
    ASSUME RunnerTypes, LineInvs, NEW r \in Runners, pc[r] # "start", NextLine(r),
           UNCHANGED <<script, classId>>, mode' \in [Runners -> 0..5],
           orderId' \in [Runners -> Nat \cup {NULL}], kitId' \in [Runners -> Nat \cup {NULL}],
           \A q \in Runners \ {r} : mode'[q] = mode[q]
    PROVE  RunnerTypes' /\ LineInvs'
<1>1. RunnerTypes'
  <2>1. pos' \in [Runners -> Nat]
    BY DEF RunnerTypes, NextLine
  <2>2. pc' \in [Runners -> {"start", "line", "insert", "fill", "tag", "row", "done"}]
    BY DEF RunnerTypes, NextLine
  <2> QED BY <2>1, <2>2 DEF RunnerTypes
<1>2. pc'[r] = "line" /\ \A q \in Runners \ {r} : pc'[q] = pc[q] /\ pos'[q] = pos[q]
  BY DEF RunnerTypes, NextLine
<1>3. LineInv(r)'
  BY <1>2 DEF LineInvs, LineInv
<1> QED BY <1>1, <1>2, <1>3, OthersKeep

\* Going on within a line.
LEMMA SameLineKeeps ==
    ASSUME RunnerTypes, LineInvs, NEW r \in Runners,
           NEW l \in {"line", "insert", "fill", "tag", "row", "done"},
           pc' = [pc EXCEPT ![r] = l],
           UNCHANGED <<script, pos, mode, orderId, kitId>>,
           classId' \in [Runners -> Nat \cup {NULL}],
           \A q \in Runners \ {r} : classId'[q] = classId[q],
           script[r] # NULL,
           l \in {"insert", "fill", "tag", "row"} =>
               /\ pos[r] \in DOMAIN script[r]
               /\ \/ mode[r] = 0 /\ At(r).kind = "pair"
                  \/ mode[r] = 4 /\ At(r).kind = "item",
           l = "fill" => mode[r] = 0,
           l \in {"tag", "row"} => mode[r] = 4,
           l \in {"fill", "tag", "row"} => classId'[r] \in Nat
    PROVE  RunnerTypes' /\ LineInvs'
<1>1. RunnerTypes'
  BY DEF RunnerTypes
<1>2. pc'[r] = l /\ \A q \in Runners \ {r} : pc'[q] = pc[q]
  BY DEF RunnerTypes
<1>3. LineInv(r)'
  BY <1>2 DEF LineInv, At
<1> QED BY <1>1, <1>2, <1>3, OthersKeep

LEMMA ScriptInvNext == ScriptInv /\ [ScriptNext]_vars => ScriptInv'
<1> SUFFICES ASSUME TableTypes, RunnerTypes, LineInvs, [ScriptNext]_vars
             PROVE  TableTypes' /\ RunnerTypes' /\ LineInvs'
  BY DEF ScriptInv
<1>a. ASSUME NEW r \in Runners, pc[r] # "start", NextLine(r),
             UNCHANGED <<script, classId, mode, orderId, kitId>>
      PROVE  RunnerTypes' /\ LineInvs'
  BY <1>a, NextLineKeeps DEF RunnerTypes
<1>b. ASSUME NEW r \in Runners, IsData(r)
      PROVE  pc[r] # "start" /\ At(r).text \in Names \cup {EMPTY}
  <2>1. pc[r] = "line" /\ pos[r] \in DOMAIN script[r] /\ At(r).kind \in {"text", "pair", "item"}
    BY <1>b DEF IsData, Reads
  <2>2. At(r) \in Line
    BY <2>1, AtLine DEF LineInvs, LineInv
  <2> QED BY <2>1, <2>2, LineFields
<1>c. ASSUME UNCHANGED tables
      PROVE  TableTypes'
  BY <1>c DEF TableTypes, tables
<1>1. ASSUME NEW r \in Runners, Truncate(r)
      PROVE  TableTypes' /\ RunnerTypes' /\ LineInvs'
  <2>1. /\ classes' = <<>> /\ tags' = {} /\ kitCount' = <<>> /\ kits' = <<>> /\ groups' = {}
        /\ UNCHANGED users
    BY <1>1 DEF Truncate
  <2>2. DOMAIN kits' = {}
    BY <2>1
  <2>3. TableTypes'
    BY <2>1, <2>2 DEF TableTypes
  <2>4. RunnerTypes' /\ LineInvs'
    BY <1>1, SameLineKeeps DEF Truncate, RunnerTypes
  <2> QED BY <2>3, <2>4
<1>2. ASSUME NEW r \in Runners, ReadComment(r) \/ IgnoreLine(r)
      PROVE  TableTypes' /\ RunnerTypes' /\ LineInvs'
  BY <1>2, <1>a, <1>b, <1>c DEF ReadComment, IgnoreLine, Reads
<1>3. ASSUME NEW r \in Runners, ReadSection(r)
      PROVE  TableTypes' /\ RunnerTypes' /\ LineInvs'
  <2>1. mode' \in [Runners -> 0..5] /\ \A q \in Runners \ {r} : mode'[q] = mode[q]
    BY <1>3, ModeRange DEF ReadSection, RunnerTypes
  <2>2. RunnerTypes' /\ LineInvs'
    BY <1>3, <2>1, NextLineKeeps DEF ReadSection, Reads, RunnerTypes
  <2> QED BY <1>3, <1>c, <2>2 DEF ReadSection
<1>4. ASSUME NEW r \in Runners, ReadOrder(r)
      PROVE  TableTypes' /\ RunnerTypes' /\ LineInvs'
  <2>1. TableTypes'
    BY <1>4 DEF ReadOrder, TableTypes
  <2>2. Len(kitCount) + 1 \in Nat
    BY DEF TableTypes
  <2>3. /\ mode' \in [Runners -> 0..5] /\ \A q \in Runners \ {r} : mode'[q] = mode[q]
        /\ orderId' \in [Runners -> Nat \cup {NULL}] /\ kitId' \in [Runners -> Nat \cup {NULL}]
    BY <1>4, <2>2 DEF ReadOrder, RunnerTypes
  <2> QED BY <1>4, <2>1, <2>3, NextLineKeeps DEF ReadOrder, Reads
<1>5. ASSUME NEW r \in Runners, ReadKit(r)
      PROVE  TableTypes' /\ RunnerTypes' /\ LineInvs'
  <2> DEFINE o == orderId[r]
  <2>1. /\ pc[r] # "start" /\ NextLine(r) /\ mode' = [mode EXCEPT ![r] = 3]
        /\ UNCHANGED <<classes, tags, groups, users, script, orderId, classId>>
    BY <1>5 DEF ReadKit, Reads
  <2>2. TableTypes' /\ kitId' \in [Runners -> Nat \cup {NULL}]
    <3>1. CASE o \in DOMAIN kitCount
      <4>1. /\ kitCount' = [kitCount EXCEPT ![o] = @ + 1] /\ kits' = WithKit(o, kitCount[o])
            /\ kitId' = [kitId EXCEPT ![r] = kitCount[o]]
        BY <1>5, <3>1 DEF ReadKit
      <4>2. o \in Nat /\ kitCount[o] \in Nat
        BY <3>1 DEF TableTypes
      <4> HIDE DEF o
      <4>3. kitCount' \in Seq(Nat)
        BY <3>1, <4>1, <4>2 DEF TableTypes
      <4>4. DOMAIN kits' \subseteq Nat \X Nat
        BY <4>1, <4>2 DEF TableTypes, WithKit
      <4>5. \A k \in DOMAIN kits' : kits'[k] \in Nat
        BY <4>1 DEF TableTypes, WithKit
      <4>6. kitId' \in [Runners -> Nat \cup {NULL}]
        BY <4>1, <4>2 DEF RunnerTypes
      <4> QED BY <2>1, <4>3, <4>4, <4>5, <4>6 DEF TableTypes
    <3>2. CASE o \notin DOMAIN kitCount
      <4>1. kitId' = [kitId EXCEPT ![r] = 0] /\ UNCHANGED <<kitCount, kits>>
        BY <1>5, <3>2 DEF ReadKit
      <4> QED BY <2>1, <4>1 DEF TableTypes, RunnerTypes
    <3> QED BY <3>1, <3>2
  <2>3. mode' \in [Runners -> 0..5] /\ \A q \in Runners \ {r} : mode'[q] = mode[q]
    BY <2>1 DEF RunnerTypes
  <2> QED BY <2>1, <2>2, <2>3, NextLineKeeps DEF RunnerTypes
<1>6. ASSUME NEW r \in Runners, AddTag(r) \/ AddUser(r)
      PROVE  TableTypes' /\ RunnerTypes' /\ LineInvs'
  <2>1. /\ IsData(r) /\ NextLine(r)
        /\ UNCHANGED <<classes, kitCount, kits, groups, script, mode, orderId, kitId, classId>>
        /\ \/ tags' = tags \cup {At(r).text} /\ UNCHANGED users
           \/ users' = Append(users, At(r).text) /\ UNCHANGED tags
    BY <1>6 DEF AddTag, AddUser
  <2>2. pc[r] # "start" /\ At(r).text \in Names \cup {EMPTY}
    BY <2>1, <1>b
  <2>3. users' \in Seq(Names \cup {EMPTY})
    <3> DEFINE U == Names \cup {EMPTY}
    <3>1. users \in Seq(U)
      BY DEF TableTypes
    <3>2. At(r).text \in U
      BY <2>2
    <3> HIDE DEF U
    <3>3. users' \in Seq(U)
      BY <2>1, <3>1, <3>2
    <3> QED BY <3>3 DEF U
  <2>4. tags' \subseteq Names \cup {EMPTY}
    BY <2>1, <2>2 DEF TableTypes
  <2>5. TableTypes'
    BY <2>1, <2>3, <2>4 DEF TableTypes
  <2> QED BY <1>a, <2>1, <2>2, <2>5
<1>7. ASSUME NEW r \in Runners, SelectClass(r)
      PROVE  TableTypes' /\ RunnerTypes' /\ LineInvs'
  <2>1. /\ pc[r] = "line" /\ pos[r] \in DOMAIN script[r]
        /\ \/ mode[r] = 0 /\ At(r).kind = "pair"
           \/ mode[r] = 4 /\ At(r).kind = "item"
        /\ UNCHANGED <<tables, script, pos, mode, orderId, kitId>>
    BY <1>7 DEF SelectClass, NamesClass, Reads
  <2>2. script[r] # NULL
    BY <2>1 DEF LineInvs, LineInv
  <2>3. CASE pc' = [pc EXCEPT ![r] = "insert"] /\ UNCHANGED classId
    <3>1. classId' \in [Runners -> Nat \cup {NULL}]
      BY <2>3 DEF RunnerTypes
    <3> QED BY <1>c, <2>1, <2>2, <2>3, <3>1, SameLineKeeps
  <2>4. CASE /\ AfterClass(r)
             /\ \E i \in WithName(Prefix[At(r).class]) : classId' = [classId EXCEPT ![r] = i]
    <3>1. PICK i \in WithName(Prefix[At(r).class]) : classId' = [classId EXCEPT ![r] = i]
      BY <2>4
    <3>2. i \in Nat
      BY <3>1 DEF WithName, TableTypes
    <3>3. /\ classId' \in [Runners -> Nat \cup {NULL}] /\ classId'[r] \in Nat
          /\ \A q \in Runners \ {r} : classId'[q] = classId[q]
      BY <3>1, <3>2 DEF RunnerTypes
    <3>4. CASE mode[r] = 0
      BY <1>c, <2>1, <2>2, <2>4, <3>3, <3>4, SameLineKeeps DEF AfterClass
    <3>5. CASE mode[r] = 4
      BY <1>c, <2>1, <2>2, <2>4, <3>3, <3>5, SameLineKeeps DEF AfterClass
    <3> QED BY <2>1, <3>4, <3>5
  <2> QED BY <1>7, <2>3, <2>4 DEF SelectClass
<1>8. ASSUME NEW r \in Runners, pc[r] \in {"insert", "fill", "tag", "row"}
      PROVE  /\ script[r] # NULL /\ pos[r] \in DOMAIN script[r] /\ At(r) \in Line
             /\ \/ mode[r] = 0 /\ At(r).kind = "pair"
                \/ mode[r] = 4 /\ At(r).kind = "item"
  BY <1>8, AtLine DEF LineInvs, LineInv
<1>9. ASSUME NEW r \in Runners, InsertClass(r)
      PROVE  TableTypes' /\ RunnerTypes' /\ LineInvs'
  <2>1. /\ pc[r] = "insert"
        /\ classes' = Append(classes, [name |-> Prefix[At(r).class], inventory |-> 0])
        /\ classId' = [classId EXCEPT ![r] = Len(classes) + 1]
        /\ AfterClass(r)
        /\ UNCHANGED <<tags, kitCount, kits, groups, users, script, pos, mode, orderId, kitId>>
    BY <1>9 DEF InsertClass
  <2>2. Prefix[At(r).class] \in Names
    BY <1>8, <2>1, LineFields, ScriptAssumption
  <2>3. TableTypes'
    BY <2>1, <2>2 DEF TableTypes
  <2>4. Len(classes) + 1 \in Nat
    BY DEF TableTypes
  <2>5. /\ classId' \in [Runners -> Nat \cup {NULL}] /\ classId'[r] \in Nat
        /\ \A q \in Runners \ {r} : classId'[q] = classId[q]
    BY <2>1, <2>4 DEF RunnerTypes
  <2>6. CASE mode[r] = 0
    BY <1>8, <2>1, <2>3, <2>5, <2>6, SameLineKeeps DEF AfterClass
  <2>7. CASE mode[r] = 4
    BY <1>8, <2>1, <2>3, <2>5, <2>7, SameLineKeeps DEF AfterClass
  <2> QED BY <1>8, <2>1, <2>6, <2>7
<1>10. ASSUME NEW r \in Runners, FillClass(r)
       PROVE  TableTypes' /\ RunnerTypes' /\ LineInvs'
  <2> DEFINE C == [name : Names, inventory : Int]
  <2>1. /\ pc[r] = "fill" /\ NextLine(r)
        /\ classes' = [i \in DOMAIN classes |->
                         IF i = classId[r] THEN [classes[i] EXCEPT !.inventory = At(r).amount]
                                           ELSE classes[i]]
        /\ UNCHANGED <<tags, kitCount, kits, groups, users, script, mode, orderId, kitId, classId>>
    BY <1>10 DEF FillClass
  <2>2. At(r).amount \in Int
    BY <1>8, <2>1, LineFields DEF LineInvs, LineInv
  <2>3. ASSUME NEW i \in DOMAIN classes PROVE classes'[i] \in C
    <3>0. classes \in Seq(C)
      BY DEF TableTypes
    <3>1. classes[i] \in C
      <4> HIDE DEF C
      <4> QED BY <3>0
    <3>2. [classes[i] EXCEPT !.inventory = At(r).amount] \in C
      BY <2>2, <3>1
    <3> QED BY <2>1, <3>1, <3>2
  <2>4. DOMAIN classes' = 1..Len(classes) /\ Len(classes) \in Nat
    BY <2>1 DEF TableTypes
  <2>5. classes' \in Seq(C)
    BY <2>1, <2>3, <2>4 DEF TableTypes
  <2>6. TableTypes'
    BY <2>1, <2>5 DEF TableTypes
  <2> QED BY <1>a, <2>1, <2>6
<1>11. ASSUME NEW r \in Runners, ItemTag(r)
       PROVE  TableTypes' /\ RunnerTypes' /\ LineInvs'
  <2>1. /\ pc[r] = "tag" /\ tags' = tags \cup ({At(r).tag} \ {EMPTY})
        /\ pc' = [pc EXCEPT ![r] = "row"]
        /\ UNCHANGED <<classes, kitCount, kits, groups, users, script, pos,
                       mode, orderId, kitId, classId>>
    BY <1>11 DEF ItemTag
  <2>2. mode[r] = 4 /\ classId[r] \in Nat
    BY <2>1 DEF LineInvs, LineInv
  <2>3. At(r).kind = "item" /\ At(r).tag \in Names \cup {EMPTY}
    BY <1>8, <2>1, <2>2, LineFields
  <2>4. TableTypes'
    BY <2>1, <2>3 DEF TableTypes
  <2>5. classId' \in [Runners -> Nat \cup {NULL}]
    BY <2>1 DEF RunnerTypes
  <2> QED BY <1>8, <2>1, <2>2, <2>3, <2>4, <2>5, SameLineKeeps
<1>12. ASSUME NEW r \in Runners, InsertItem(r)
       PROVE  TableTypes' /\ RunnerTypes' /\ LineInvs'
  <2> DEFINE key == KitKey(r)
  <2>1. /\ pc[r] = "row" /\ NextLine(r)
        /\ UNCHANGED <<classes, tags, kitCount, users, script, mode, orderId, kitId, classId>>
    BY <1>12 DEF InsertItem
  <2>2. mode[r] = 4 /\ classId[r] \in Nat
    BY <2>1 DEF LineInvs, LineInv
  <2>3. CASE key \in DOMAIN kits
    <3>1. /\ kits' = [kits EXCEPT ![key] = @ + 1]
          /\ groups' = groups \cup {GroupOf(r, At(r), kits[key])}
      BY <1>12, <2>3 DEF InsertItem
    <3>2. kits[key] \in Nat /\ orderId[r] \in Nat /\ kitId[r] \in Nat
      BY <2>3 DEF TableTypes, KitKey
    <3> HIDE DEF key
    <3>3. GroupOf(r, At(r), kits[key]) \in Group
      <4>1. /\ At(r).target \in Int /\ At(r).count \in Int
            /\ At(r).tag \in Names \cup {EMPTY} /\ At(r).archived \in BOOLEAN
        BY <1>8, <2>1, <2>2, LineFields
      <4>2. (IF At(r).tag = EMPTY THEN NULL ELSE At(r).tag) \in Names \cup {NULL}
        BY <4>1
      <4> QED BY <2>2, <3>2, <4>1, <4>2 DEF GroupOf, Group
    <3>4. DOMAIN kits' = DOMAIN kits /\ \A k \in DOMAIN kits' : kits'[k] \in Nat
      BY <2>3, <3>1, <3>2 DEF TableTypes
    <3>5. TableTypes'
      BY <2>1, <3>1, <3>3, <3>4 DEF TableTypes
    <3> QED BY <1>a, <2>1, <3>5
  <2>4. CASE key \notin DOMAIN kits
    <3>1. UNCHANGED tables
      BY <1>12, <2>1, <2>4 DEF InsertItem, tables
    <3> QED BY <1>a, <1>c, <2>1, <3>1
  <2> QED BY <2>3, <2>4
<1>13. ASSUME NEW r \in Runners, EndScript(r)
       PROVE  TableTypes' /\ RunnerTypes' /\ LineInvs'
  <2>1. script[r] # NULL
    BY <1>13 DEF EndScript, LineInvs, LineInv
  <2> QED BY <1>13, <1>c, <2>1, SameLineKeeps DEF EndScript, RunnerTypes
<1>14. CASE UNCHANGED vars
  BY <1>14 DEF vars, TableTypes, RunnerTypes, LineInvs, LineInv, At
<1> QED
  BY <1>1, <1>2, <1>3, <1>4, <1>5, <1>6, <1>7, <1>9, <1>10, <1>11, <1>12, <1>13, <1>14
  DEF ScriptNext, ScriptStep

\* Whatever scripts are posted at the same time, a line is still there, and of
\* the kind its section takes, when the later statements for it run
\* (operations.php lines 58 to 89), and only values of their kind are stored.
THEOREM ScriptTypeCorrect == ScriptSpec => []ScriptTypeOK
<1>1. ScriptInv => ScriptTypeOK
  BY DEF ScriptInv, TableTypes, RunnerTypes, ScriptTypeOK
<1> QED BY <1>1, ScriptInvInit, ScriptInvNext, PTL DEF ScriptSpec
-----------------------------------------------------------------------------
(* What a script that has the tables to itself has loaded so far.            *)

\* The lines before line p: those that are items, those among them in kit k of
\* their order, and those that fill the class named n.
ItemsBefore(sc, p) == {i \in ItemLines(sc) : i < p}
InKit(sc, p, k) == {i \in ItemsBefore(sc, p) : OrderAt(sc, i) = k[1] /\ KitAt(sc, i) = k[2]}
FillsBefore(sc, p) ==
    {i \in DOMAIN sc : i < p /\ sc[i].kind = "pair" /\ SectionAt(sc, i) = 0}
FillsOf(sc, p, n) == {i \in FillsBefore(sc, p) : Prefix[sc[i].class] = n}

\* The inventory that the last of these lines gives.
LastOf(lines) == CHOOSE l \in lines : \A k \in lines : k <= l
LastFill(sc, p, n) ==
    IF FillsOf(sc, p, n) = {} THEN 0 ELSE sc[LastOf(FillsOf(sc, p, n))].amount

\* An item as the script says it and as it is stored.
ItemSaid(sc, i) ==
    <<OrderAt(sc, i), KitAt(sc, i), ItemAt(sc, i), Prefix[sc[i].class], sc[i].target>>
ItemStored(g) == <<g.order, g.kit, g.id, classes[g.class].name, g.target>>

\* $mode, $order_id and $kit_id are those of the lines read so far, and the tables
\* have as many orders, and kits in the last order.
Where(r, sc, p) ==
    /\ p \in 1..(Len(sc) + 1)
    /\ mode[r] = SectionAt(sc, p)
    /\ Len(kitCount) = OrderAt(sc, p - 1)
    /\ OrderAt(sc, p - 1) = 0 => orderId[r] = NULL /\ kitId[r] = NULL
    /\ OrderAt(sc, p - 1) # 0 =>
          /\ OrderStart(sc, p - 1) \in 1..(p - 1)
          /\ orderId[r] = OrderAt(sc, p - 1)
          /\ kitCount[orderId[r]] = KitAt(sc, p - 1) + 1
          /\ kitId[r] = IF KitAt(sc, p - 1) = -1 THEN NULL ELSE KitAt(sc, p - 1)

\* The items stored are those read so far.
Rows(sc, p) ==
    /\ \A k \in DOMAIN kits : kits[k] = Cardinality(InKit(sc, p, k))
    /\ \A g \in groups : g.class \in DOMAIN classes
    /\ {ItemStored(g) : g \in groups} = {ItemSaid(sc, i) : i \in ItemsBefore(sc, p)}

\* Every class is there once, with what it was filled with so far.
Stock(sc, p) ==
    /\ \A i, j \in DOMAIN classes : classes[i].name = classes[j].name => i = j
    /\ \A i \in DOMAIN classes : classes[i].inventory = LastFill(sc, p, classes[i].name)
    /\ \A l \in FillsBefore(sc, p) : WithName(Prefix[sc[l].class]) # {}

\* What create_class( ) has found out about the class of the line.
Chosen(r) ==
    /\ pc[r] = "insert" => WithName(Prefix[At(r).class]) = {}
    /\ pc[r] \in {"fill", "tag", "row"} => classId[r] \in WithName(Prefix[At(r).class])

Follows(r) ==
    /\ Where(r, script[r], pos[r]) /\ Rows(script[r], pos[r]) /\ Stock(script[r], pos[r])
    /\ Chosen(r)
    /\ pc[r] = "done" => pos[r] = Len(script[r]) + 1

Fresh(r) == pos[r] = 1 /\ mode[r] = 0 /\ orderId[r] = NULL /\ kitId[r] = NULL

\* All other scripts have not begun.
Alone(r) == \A q \in Runners \ {r} : pc[q] = "start"

FollowInv ==
    /\ \A r \in Runners : pc[r] = "start" => Fresh(r)
    /\ \A r \in Runners : Alone(r) /\ pc[r] # "start" => Follows(r)
\* Line p opens section n.
OpensAt(sc, p, n) == sc[p].kind = "section" /\ ModeOf(sc[p].name) = n

\* One more line: the section,
LEMMA SectionNext ==
    ASSUME NEW sc, NEW p \in Nat, p >= 1
    PROVE  SectionAt(sc, p + 1) = IF sc[p].kind = "section" THEN ModeOf(sc[p].name)
                                                            ELSE SectionAt(sc, p)
<1> DEFINE B(i) == {j \in 1..(i - 1) : sc[j].kind = "section"}
           S(i) == IF B(i) = {} THEN 0
                   ELSE ModeOf(sc[CHOOSE j \in B(i) : \A k \in B(i) : k <= j].name)
<1>0. SectionAt(sc, p) = S(p) /\ SectionAt(sc, p + 1) = S(p + 1)
  BY Zenon DEF SectionAt
<1>1. CASE sc[p].kind = "section"
  <2>1. p \in B(p + 1) /\ \A k \in B(p + 1) : k \in Int /\ k <= p
    BY <1>1
  <2>2. (CHOOSE j \in B(p + 1) : \A k \in B(p + 1) : k <= j) = p
    <3> HIDE DEF B
    <3> QED BY <2>1
  <2> HIDE DEF B
  <2> QED BY <1>0, <1>1, <2>1, <2>2
<1>2. CASE sc[p].kind # "section"
  <2>1. B(p + 1) = B(p)
    BY <1>2
  <2> HIDE DEF B
  <2> QED BY <1>0, <1>2, <2>1
<1> QED BY <1>1, <1>2

LEMMA OpensFinite ==
    ASSUME NEW sc, NEW a \in Int, NEW b \in Int, NEW n
    PROVE  IsFiniteSet(Opens(sc, a, b, n)) /\ Cardinality(Opens(sc, a, b, n)) \in Nat
<1>1. Opens(sc, a, b, n) \in SUBSET (a..b) /\ IsFiniteSet(a..b)
  BY FS_Interval DEF Opens
<1>2. IsFiniteSet(Opens(sc, a, b, n))
  BY <1>1, FS_Subset
<1> QED BY <1>2, FS_CardinalityType

\* how many lines open section n,
LEMMA OpensNext ==
    ASSUME NEW sc, NEW a \in Int, NEW p \in Int, a <= p, NEW n
    PROVE  /\ OpensAt(sc, p, n) =>
                 Cardinality(Opens(sc, a, p, n)) = Cardinality(Opens(sc, a, p - 1, n)) + 1
           /\ ~OpensAt(sc, p, n) =>
                 Opens(sc, a, p, n) = Opens(sc, a, p - 1, n)
<1>1. a..p = (a..(p - 1)) \cup {p} /\ p \notin a..(p - 1)
  OBVIOUS
<1>2. CASE OpensAt(sc, p, n)
  <2>1. Opens(sc, a, p, n) = Opens(sc, a, p - 1, n) \cup {p} /\ p \notin Opens(sc, a, p - 1, n)
    BY <1>1, <1>2 DEF Opens, OpensAt
  <2>2. IsFiniteSet(Opens(sc, a, p - 1, n))
    BY OpensFinite
  <2> QED BY <1>2, <2>1, <2>2, FS_AddElement
<1>3. CASE ~OpensAt(sc, p, n)
  BY <1>1, <1>3 DEF Opens, OpensAt
<1> QED BY <1>2, <1>3

\* the order,
LEMMA OrderNext ==
    ASSUME NEW sc, NEW p \in Nat, p >= 1
    PROVE  /\ OrderAt(sc, p) \in Nat /\ OrderAt(sc, p - 1) \in Nat
           /\ IF OpensAt(sc, p, 2)
              THEN OrderAt(sc, p) = OrderAt(sc, p - 1) + 1 /\ OrderStart(sc, p) = p
              ELSE /\ OrderAt(sc, p) = OrderAt(sc, p - 1)
                   /\ OrderStart(sc, p) = OrderStart(sc, p - 1)
<1>1. OrderAt(sc, p) \in Nat /\ OrderAt(sc, p - 1) \in Nat
  BY OpensFinite DEF OrderAt
<1>a. PICK a \in Int : a = 1
  OBVIOUS
<1>b. /\ OpensAt(sc, p, 2) =>
            Cardinality(Opens(sc, a, p, 2)) = Cardinality(Opens(sc, a, p - 1, 2)) + 1
      /\ ~OpensAt(sc, p, 2) =>
            Opens(sc, a, p, 2) = Opens(sc, a, p - 1, 2)
  <2>1. p \in Int /\ a <= p
    BY <1>a
  <2> QED BY <2>1, OpensNext
<1>2. CASE OpensAt(sc, p, 2)
  <2>1. OrderAt(sc, p) = OrderAt(sc, p - 1) + 1
    BY <1>2, <1>a, <1>b DEF OrderAt
  <2>2. p \in Opens(sc, 1, p, 2) /\ \A k \in Opens(sc, 1, p, 2) : k \in Int /\ k <= p
    BY <1>2 DEF Opens, OpensAt
  <2>3. OrderStart(sc, p) = p
    BY <2>2 DEF OrderStart
  <2> QED BY <1>1, <1>2, <2>1, <2>3
<1>3. CASE ~OpensAt(sc, p, 2)
  <2>1. Opens(sc, 1, p, 2) = Opens(sc, 1, p - 1, 2)
    BY <1>3, <1>a, <1>b
  <2> QED BY <1>1, <1>3, <2>1 DEF OrderAt, OrderStart
<1> QED BY <1>2, <1>3

\* the kit of an order that has begun,
LEMMA KitNext ==
    ASSUME NEW sc, NEW p \in Nat, p >= 1, OrderStart(sc, p - 1) \in 1..(p - 1),
           ~OpensAt(sc, p, 2)
    PROVE  /\ KitAt(sc, p - 1) \in Int /\ KitAt(sc, p - 1) >= -1
           /\ KitAt(sc, p) = IF OpensAt(sc, p, 3)
                             THEN KitAt(sc, p - 1) + 1 ELSE KitAt(sc, p - 1)
<1> DEFINE a == OrderStart(sc, p - 1)
<1>1. OrderStart(sc, p) = a
  BY OrderNext
<1>2. a \in Int /\ a <= p
  OBVIOUS
<1>3. /\ KitAt(sc, p) = Cardinality(Opens(sc, a, p, 3)) - 1
      /\ KitAt(sc, p - 1) = Cardinality(Opens(sc, a, p - 1, 3)) - 1
  BY <1>1 DEF KitAt
<1> HIDE DEF a
<1>4. Cardinality(Opens(sc, a, p - 1, 3)) \in Nat
  BY <1>2, OpensFinite
<1>5. IF OpensAt(sc, p, 3)
      THEN Cardinality(Opens(sc, a, p, 3)) = Cardinality(Opens(sc, a, p - 1, 3)) + 1
      ELSE Cardinality(Opens(sc, a, p, 3)) = Cardinality(Opens(sc, a, p - 1, 3))
  BY <1>2, OpensNext
<1> QED BY <1>3, <1>4, <1>5

\* and of one that begins.
LEMMA KitFirst ==
    ASSUME NEW sc, NEW p \in Nat, p >= 1, OpensAt(sc, p, 2)
    PROVE  KitAt(sc, p) = -1
<1>1. OrderStart(sc, p) = p
  BY OrderNext
<1>2. Opens(sc, p, p, 3) = {}
  BY DEF Opens, OpensAt
<1> QED BY <1>1, <1>2, FS_EmptySet DEF KitAt

\* A line that opens neither an order nor a kit.
LEMMA WhereSame ==
    ASSUME NEW r \in Runners, NEW sc \in Seq(Line), NEW p \in DOMAIN sc, Where(r, sc, p),
           ~OpensAt(sc, p, 2),
           OpensAt(sc, p, 3) => orderId[r] = NULL,
           mode'[r] = IF sc[p].kind = "section" THEN ModeOf(sc[p].name) ELSE mode[r],
           UNCHANGED <<kitCount, orderId, kitId>>
    PROVE  Where(r, sc, p + 1)'
<1>1. p \in Nat /\ p >= 1 /\ p <= Len(sc) /\ Len(sc) \in Nat /\ (p + 1) - 1 = p
  OBVIOUS
<1>2. mode'[r] = SectionAt(sc, p + 1)
  BY <1>1, SectionNext DEF Where
<1>3. /\ OrderAt(sc, p) = OrderAt(sc, p - 1) /\ OrderStart(sc, p) = OrderStart(sc, p - 1)
      /\ OrderAt(sc, p) \in Nat
  BY <1>1, OrderNext
<1>4. p + 1 \in 1..(Len(sc) + 1)
  BY <1>1
<1>5. CASE OrderAt(sc, p) = 0
  BY <1>1, <1>2, <1>3, <1>4, <1>5 DEF Where
<1>6. CASE OrderAt(sc, p) # 0
  <2>1. OrderStart(sc, p - 1) \in 1..(p - 1) /\ orderId[r] # NULL
    BY <1>3, <1>6, ScriptAssumption DEF Where
  <2>2. KitAt(sc, p) = KitAt(sc, p - 1)
    BY <1>1, <2>1, KitNext
  <2>3. OrderStart(sc, p) \in 1..p
    BY <1>1, <1>3, <2>1
  <2> QED BY <1>1, <1>2, <1>3, <1>4, <1>6, <2>2, <2>3 DEF Where
<1> QED BY <1>5, <1>6

LEMMA WhereOrder ==
    ASSUME NEW r \in Runners, NEW sc \in Seq(Line), NEW p \in DOMAIN sc, Where(r, sc, p),
           kitCount \in Seq(Nat), OpensAt(sc, p, 2),
           mode'[r] = 2, kitCount' = Append(kitCount, 0),
           orderId'[r] = Len(kitCount) + 1, kitId'[r] = NULL
    PROVE  Where(r, sc, p + 1)'
<1>1. p \in Nat /\ p >= 1 /\ p <= Len(sc) /\ Len(sc) \in Nat /\ (p + 1) - 1 = p
  OBVIOUS
<1>2. mode'[r] = SectionAt(sc, p + 1)
  BY <1>1, SectionNext DEF OpensAt
<1>3. OrderAt(sc, p) = OrderAt(sc, p - 1) + 1 /\ OrderStart(sc, p) = p /\ OrderAt(sc, p - 1) \in Nat
  BY <1>1, OrderNext
<1>4. KitAt(sc, p) = -1
  BY <1>1, KitFirst
<1>5. Len(kitCount) = OrderAt(sc, p - 1)
  BY DEF Where
<1>6. Len(kitCount') = OrderAt(sc, p) /\ kitCount'[Len(kitCount) + 1] = 0
  BY <1>3, <1>5
<1>7. /\ orderId'[r] = OrderAt(sc, p) /\ OrderAt(sc, p) # 0 /\ kitCount'[orderId'[r]] = 0
      /\ p \in 1..p /\ p + 1 \in 1..(Len(sc) + 1)
  BY <1>1, <1>3, <1>5, <1>6
<1> QED BY <1>1, <1>2, <1>3, <1>4, <1>6, <1>7 DEF Where

LEMMA WhereKit ==
    ASSUME NEW r \in Runners, NEW sc \in Seq(Line), NEW p \in DOMAIN sc, Where(r, sc, p),
           kitCount \in Seq(Nat), OpensAt(sc, p, 3),
           NEW o, o = orderId[r], o # NULL,
           mode'[r] = 3, kitCount' = [kitCount EXCEPT ![o] = @ + 1],
           kitId'[r] = kitCount[o], UNCHANGED orderId
    PROVE  Where(r, sc, p + 1)'
<1>0. ~OpensAt(sc, p, 2)
  BY DEF OpensAt
<1>1. p \in Nat /\ p >= 1 /\ p <= Len(sc) /\ Len(sc) \in Nat /\ (p + 1) - 1 = p
  OBVIOUS
<1>2. mode'[r] = SectionAt(sc, p + 1)
  BY <1>1, SectionNext DEF OpensAt
<1>3. /\ OrderAt(sc, p) = OrderAt(sc, p - 1) /\ OrderStart(sc, p) = OrderStart(sc, p - 1)
      /\ OrderAt(sc, p) \in Nat
  BY <1>0, <1>1, OrderNext
<1>4. /\ OrderAt(sc, p - 1) # 0 /\ o = OrderAt(sc, p - 1) /\ o = Len(kitCount)
      /\ OrderStart(sc, p - 1) \in 1..(p - 1) /\ kitCount[o] = KitAt(sc, p - 1) + 1
  BY DEF Where
<1>5. KitAt(sc, p) = KitAt(sc, p - 1) + 1 /\ KitAt(sc, p) \in Nat
  <2>1. KitAt(sc, p - 1) \in Int /\ KitAt(sc, p - 1) >= -1 /\ KitAt(sc, p) = KitAt(sc, p - 1) + 1
    BY <1>0, <1>1, <1>4, KitNext
  <2> QED BY <2>1
<1>6. o \in DOMAIN kitCount
  BY <1>3, <1>4
<1>7. Len(kitCount') = Len(kitCount) /\ kitCount'[o] = KitAt(sc, p) + 1
  BY <1>4, <1>5, <1>6
<1>8. OrderStart(sc, p) \in 1..p /\ p + 1 \in 1..(Len(sc) + 1)
  BY <1>1, <1>3, <1>4
<1>9. orderId'[r] = OrderAt(sc, p) /\ OrderAt(sc, p) # 0 /\ kitId'[r] = KitAt(sc, p)
  BY <1>3, <1>4, <1>5
<1>10. Len(kitCount') = OrderAt(sc, p) /\ kitCount'[orderId'[r]] = KitAt(sc, p) + 1
  BY <1>3, <1>4, <1>7, <1>9
<1>11. KitAt(sc, p) # -1
  BY <1>5
<1> QED BY <1>1, <1>2, <1>8, <1>9, <1>10, <1>11 DEF Where

\* A line that is not an item of a kit adds none.
LEMMA RowsSame ==
    ASSUME NEW sc \in Seq(Line), NEW p \in DOMAIN sc, Rows(sc, p), p \notin ItemLines(sc),
           UNCHANGED <<classes, kits, groups>>
    PROVE  Rows(sc, p + 1)'
<1>1. \A i \in ItemLines(sc) : i \in Nat /\ i # p
  BY DEF ItemLines
<1>2. ItemsBefore(sc, p + 1) = ItemsBefore(sc, p)
  BY <1>1 DEF ItemsBefore
<1>3. \A k : InKit(sc, p + 1, k) = InKit(sc, p, k)
  BY <1>2 DEF InKit
<1> QED BY <1>2, <1>3 DEF Rows, ItemStored

\* A line that fills no class changes no inventory.
LEMMA StockSame ==
    ASSUME NEW sc \in Seq(Line), NEW p \in DOMAIN sc, Stock(sc, p),
           ~(sc[p].kind = "pair" /\ SectionAt(sc, p) = 0), UNCHANGED classes
    PROVE  Stock(sc, p + 1)'
<1>1. FillsBefore(sc, p + 1) = FillsBefore(sc, p)
  BY DEF FillsBefore
<1>2. \A n : LastFill(sc, p + 1, n) = LastFill(sc, p, n)
  <2>1. \A n : FillsOf(sc, p + 1, n) = FillsOf(sc, p, n)
    BY <1>1, Zenon DEF FillsOf
  <2>2. ASSUME NEW n PROVE LastFill(sc, p + 1, n) = LastFill(sc, p, n)
    <3>1. FillsOf(sc, p + 1, n) = FillsOf(sc, p, n)
      BY <2>1
    <3> QED BY <3>1 DEF LastFill
  <2> QED BY <2>2
<1> QED BY <1>1, <1>2 DEF Stock, WithName
\* What a script knows of its next line.
LEMMA FollowsLine ==
    ASSUME ScriptInv, NEW r \in Runners, Follows(r), pc[r] # "start", pos[r] \in DOMAIN script[r]
    PROVE  \E sc \in Seq(Line), p \in Nat :
              /\ p \in DOMAIN sc /\ script[r] = sc /\ pos[r] = p /\ At(r) = sc[p]
              /\ Where(r, sc, p) /\ Rows(sc, p) /\ Stock(sc, p)
<1>1. script[r] \in Seq(Line)
  BY DEF ScriptInv, RunnerTypes, LineInvs, LineInv
<1> QED BY <1>1 DEF Follows, At

\* After a line, create_class( ) has not been asked about the next one.
LEMMA FollowsNext ==
    ASSUME RunnerTypes, NEW r \in Runners, NEW sc, NEW p, script[r] = sc, pos[r] = p,
           NextLine(r), UNCHANGED script,
           Where(r, sc, p + 1)', Rows(sc, p + 1)', Stock(sc, p + 1)'
    PROVE  Follows(r)'
<1>1. script'[r] = sc /\ pos'[r] = p + 1 /\ pc'[r] = "line"
  BY DEF NextLine, RunnerTypes
<1>2. Where(r, script[r], pos[r])'
  BY <1>1 DEF Where
<1>3. Rows(script[r], pos[r])'
  BY <1>1 DEF Rows
<1>4. Stock(script[r], pos[r])'
  BY <1>1 DEF Stock
<1> QED BY <1>1, <1>2, <1>3, <1>4 DEF Follows, Chosen

\* A line that stores neither an order, a kit, an item nor an inventory.
LEMMA PlainLine ==
    ASSUME ScriptInv, NEW r \in Runners, Follows(r), pc[r] # "start",
           pos[r] \in DOMAIN script[r], NextLine(r),
           ~(At(r).kind = "section" /\ ModeOf(At(r).name) = 2),
           At(r).kind = "section" /\ ModeOf(At(r).name) = 3 => orderId[r] = NULL,
           ~(At(r).kind = "pair" /\ mode[r] = 0), ~(At(r).kind = "item" /\ mode[r] = 4),
           mode'[r] = IF At(r).kind = "section" THEN ModeOf(At(r).name) ELSE mode[r],
           UNCHANGED <<classes, kitCount, kits, groups, script, orderId, kitId>>
    PROVE  Follows(r)'
<1>1. PICK sc \in Seq(Line), p \in Nat :
              /\ p \in DOMAIN sc /\ script[r] = sc /\ pos[r] = p /\ At(r) = sc[p]
              /\ Where(r, sc, p) /\ Rows(sc, p) /\ Stock(sc, p)
  BY FollowsLine
<1>2. mode[r] = SectionAt(sc, p)
  BY <1>1 DEF Where
<1>3. Where(r, sc, p + 1)'
  BY <1>1, WhereSame DEF OpensAt
<1>4. Rows(sc, p + 1)'
  BY <1>1, <1>2, RowsSame DEF ItemLines
<1>5. Stock(sc, p + 1)'
  BY <1>1, <1>2, StockSame
<1> QED BY <1>1, <1>3, <1>4, <1>5, FollowsNext DEF ScriptInv

LEMMA FollowsOrder ==
    ASSUME ScriptInv, NEW r \in Runners, Follows(r), ReadOrder(r)
    PROVE  Follows(r)'
<1>0. /\ pc[r] = "line" /\ pos[r] \in DOMAIN script[r] /\ At(r).kind = "section"
      /\ ModeOf(At(r).name) = 2
  BY DEF ReadOrder, Reads
<1>1. PICK sc \in Seq(Line), p \in Nat :
              /\ p \in DOMAIN sc /\ script[r] = sc /\ pos[r] = p /\ At(r) = sc[p]
              /\ Where(r, sc, p) /\ Rows(sc, p) /\ Stock(sc, p)
  BY <1>0, FollowsLine
<1>2. /\ mode'[r] = 2 /\ orderId'[r] = Len(kitCount) + 1 /\ kitId'[r] = NULL
      /\ kitCount' = Append(kitCount, 0) /\ kitCount \in Seq(Nat)
  BY DEF ReadOrder, ScriptInv, RunnerTypes, TableTypes
<1>3. Where(r, sc, p + 1)'
  BY <1>0, <1>1, <1>2, WhereOrder DEF OpensAt
<1>4. Rows(sc, p + 1)' /\ Stock(sc, p + 1)'
  BY <1>0, <1>1, RowsSame, StockSame DEF ReadOrder, ItemLines
<1> QED BY <1>1, <1>3, <1>4, FollowsNext DEF ReadOrder, ScriptInv

\* The kits of the items read so far exist, so a new kit has none of them.
LEMMA FollowsKit ==
    ASSUME ScriptInv, NumberInv, NEW r \in Runners, Follows(r), ReadKit(r)
    PROVE  Follows(r)'
<1>0. /\ pc[r] = "line" /\ pos[r] \in DOMAIN script[r] /\ At(r).kind = "section"
      /\ ModeOf(At(r).name) = 3
  BY DEF ReadKit, Reads
<1>1. PICK sc \in Seq(Line), p \in Nat :
              /\ p \in DOMAIN sc /\ script[r] = sc /\ pos[r] = p /\ At(r) = sc[p]
              /\ Where(r, sc, p) /\ Rows(sc, p) /\ Stock(sc, p)
  BY <1>0, FollowsLine
<1>2. PICK o : o = orderId[r] /\ o # NULL
  BY DEF ReadKit
<1>3. p \in Nat /\ p >= 1 /\ kitCount \in Seq(Nat)
  BY <1>1 DEF ScriptInv, TableTypes
<1>4. o = Len(kitCount) /\ o # 0
  <2>1. OrderAt(sc, p - 1) # 0
    BY <1>1, <1>2 DEF Where
  <2> QED BY <1>1, <1>2, <2>1 DEF Where
<1>5. o \in DOMAIN kitCount
  BY <1>3, <1>4
<1>6. /\ mode'[r] = 3 /\ kitCount' = [kitCount EXCEPT ![o] = @ + 1]
      /\ kitId'[r] = kitCount[o] /\ kits' = WithKit(o, kitCount[o])
      /\ UNCHANGED <<orderId, classes, groups, script>> /\ NextLine(r)
  BY <1>2, <1>5 DEF ReadKit, ScriptInv, RunnerTypes
<1>7. Where(r, sc, p + 1)'
  BY <1>0, <1>1, <1>2, <1>3, <1>6, WhereKit DEF OpensAt
<1>8. Stock(sc, p + 1)'
  BY <1>0, <1>1, <1>6, StockSame
<1>9. \A i \in ItemsBefore(sc, p) : <<OrderAt(sc, i), KitAt(sc, i)>> \in DOMAIN kits
  <2> SUFFICES ASSUME NEW i \in ItemsBefore(sc, p)
               PROVE  <<OrderAt(sc, i), KitAt(sc, i)>> \in DOMAIN kits
    OBVIOUS
  <2>1. ItemSaid(sc, i) \in {ItemStored(g) : g \in groups}
    BY <1>1 DEF Rows
  <2>2. PICK g \in groups : ItemStored(g) = ItemSaid(sc, i)
    BY <2>1
  <2>3. g.order = OrderAt(sc, i) /\ g.kit = KitAt(sc, i)
    BY <2>2 DEF ItemStored, ItemSaid
  <2>4. <<g.order, g.kit>> \in DOMAIN kits
    BY DEF NumberInv, ItemsNumbered
  <2> QED BY <2>3, <2>4
<1>10. <<o, kitCount[o]>> \notin DOMAIN kits
  <2> SUFFICES ASSUME <<o, kitCount[o]>> \in DOMAIN kits PROVE FALSE
    OBVIOUS
  <2>1. PICK q \in DOMAIN kitCount : \E m \in 0..(kitCount[q] - 1) : <<o, kitCount[o]>> = <<q, m>>
    BY KitKeys DEF NumberInv
  <2>3. PICK n \in 0..(kitCount[q] - 1) : <<o, kitCount[o]>> = <<q, n>>
    BY <2>1
  <2>2. kitCount[o] \in Nat /\ n = kitCount[o] /\ q = o
    BY <1>3, <1>5, <2>3
  <2> QED BY <2>2
<1>11. ItemsBefore(sc, p + 1) = ItemsBefore(sc, p)
  <2>1. \A i \in ItemLines(sc) : i \in Nat /\ i # p
    BY <1>0, <1>1 DEF ItemLines
  <2> QED BY <2>1 DEF ItemsBefore
<1>12. Rows(sc, p + 1)'
  <2>1. ASSUME NEW k \in DOMAIN kits' PROVE kits'[k] = Cardinality(InKit(sc, p + 1, k))
    <3>0. InKit(sc, p + 1, k) = InKit(sc, p, k)
      BY <1>11 DEF InKit
    <3>1. CASE k \in DOMAIN kits
      <4>1. k # <<o, kitCount[o]>>
        BY <1>10, <3>1
      <4>2. kits'[k] = kits[k]
        BY <1>6, <3>1, <4>1 DEF WithKit
      <4> QED BY <1>1, <3>0, <3>1, <4>2 DEF Rows
    <3>2. CASE k \notin DOMAIN kits
      <4>1. k = <<o, kitCount[o]>> /\ kits'[k] = 0
        BY <1>6, <3>2 DEF WithKit
      <4>2. InKit(sc, p, k) = {}
        <5>1. ASSUME NEW i \in InKit(sc, p, k) PROVE FALSE
          <6>1. i \in ItemsBefore(sc, p) /\ OrderAt(sc, i) = o /\ KitAt(sc, i) = kitCount[o]
            BY <4>1, <5>1 DEF InKit
          <6> QED BY <1>9, <1>10, <6>1
        <5> QED BY <5>1
      <4> QED BY <3>0, <4>1, <4>2, FS_EmptySet
    <3> QED BY <3>1, <3>2
  <2>2. /\ \A g \in groups : g.class \in DOMAIN classes
        /\ {ItemStored(g) : g \in groups} = {ItemSaid(sc, i) : i \in ItemsBefore(sc, p + 1)}
    BY <1>1, <1>11 DEF Rows
  <2>3. /\ \A g \in groups' : g.class \in DOMAIN classes'
        /\ {ItemStored(g)' : g \in groups'} = {ItemSaid(sc, i) : i \in ItemsBefore(sc, p + 1)}
    BY <1>6, <2>2 DEF ItemStored
  <2> QED BY <2>1, <2>3 DEF Rows
<1> QED BY <1>1, <1>6, <1>7, <1>8, <1>12, FollowsNext DEF ScriptInv
\* Without a kit the line is not an item of the script; otherwise the count of
\* the kit is the number of the item.
LEMMA FollowsItem ==
    ASSUME ScriptInv, NumberInv, NEW r \in Runners, Follows(r), InsertItem(r)
    PROVE  Follows(r)'
<1>0. /\ pc[r] = "row" /\ NextLine(r)
      /\ UNCHANGED <<classes, kitCount, script, mode, orderId, kitId>>
  BY DEF InsertItem
<1>1. /\ pos[r] \in DOMAIN script[r] /\ At(r).kind = "item" /\ mode[r] = 4
  BY <1>0 DEF ScriptInv, LineInvs, LineInv
<1>2. PICK sc \in Seq(Line), p \in Nat :
              /\ p \in DOMAIN sc /\ script[r] = sc /\ pos[r] = p /\ At(r) = sc[p]
              /\ Where(r, sc, p) /\ Rows(sc, p) /\ Stock(sc, p)
  BY <1>0, <1>1, FollowsLine
<1>3. /\ sc[p].kind = "item" /\ SectionAt(sc, p) = 4 /\ p >= 1 /\ kitCount \in Seq(Nat)
      /\ classId[r] \in WithName(Prefix[sc[p].class])
  BY <1>0, <1>1, <1>2 DEF Where, Follows, Chosen, ScriptInv, TableTypes
<1>4. Where(r, sc, p + 1)'
  <2>1. mode'[r] = IF sc[p].kind = "section" THEN ModeOf(sc[p].name) ELSE mode[r]
    BY <1>0, <1>3
  <2>2. UNCHANGED <<kitCount, orderId, kitId>> /\ sc[p].kind # "section"
    BY <1>0, <1>3
  <2> QED BY <1>2, <2>1, <2>2, WhereSame DEF OpensAt
<1>5. Stock(sc, p + 1)'
  BY <1>0, <1>2, <1>3, StockSame
<1>6. OrderAt(sc, p) = OrderAt(sc, p - 1) /\ OrderAt(sc, p) \in Nat
  BY <1>3, OrderNext DEF OpensAt
<1>7. ASSUME OrderAt(sc, p) # 0
      PROVE  KitAt(sc, p) = KitAt(sc, p - 1) /\ KitAt(sc, p) \in Int /\ KitAt(sc, p) >= -1
  <2>1. OrderStart(sc, p - 1) \in 1..(p - 1)
    BY <1>2, <1>6, <1>7 DEF Where
  <2> QED BY <1>3, <2>1, KitNext DEF OpensAt
<1>8. p \in ItemLines(sc) <=> OrderAt(sc, p) # 0 /\ KitAt(sc, p) # -1
  <2>1. p \in ItemLines(sc) <=> OrderAt(sc, p) > 0 /\ KitAt(sc, p) >= 0
    BY <1>2, <1>3 DEF ItemLines
  <2> QED BY <1>6, <1>7, <2>1
<1>9. CASE p \in ItemLines(sc)
  <2> DEFINE o == OrderAt(sc, p)
             k == KitAt(sc, p)
  <2>1. /\ o # 0 /\ orderId[r] = o /\ kitId[r] = k /\ o = Len(kitCount) /\ kitCount[o] = k + 1
        /\ k \in Nat /\ o \in Nat
    <3>1. OrderAt(sc, p) # 0 /\ KitAt(sc, p) # -1
      BY <1>8, <1>9
    <3>2. KitAt(sc, p) = KitAt(sc, p - 1) /\ KitAt(sc, p) \in Int /\ KitAt(sc, p) >= -1
      BY <1>7, <3>1
    <3>3. KitAt(sc, p) \in Nat
      BY <3>1, <3>2
    <3> QED BY <1>2, <1>6, <3>1, <3>2, <3>3 DEF Where
  <2>2. ItemAt(sc, p) = Cardinality(InKit(sc, p, <<o, k>>))
    <3>1. {j \in ItemLines(sc) : j < p /\ OrderAt(sc, j) = o /\ KitAt(sc, j) = k}
             = InKit(sc, p, <<o, k>>)
      BY DEF InKit, ItemsBefore
    <3> QED BY <3>1 DEF ItemAt
  <2>3. ItemsBefore(sc, p + 1) = ItemsBefore(sc, p) \cup {p} /\ p \notin ItemsBefore(sc, p)
    <3>1. \A i \in ItemLines(sc) : i \in Nat
      BY DEF ItemLines
    <3>2. p \notin ItemsBefore(sc, p)
      BY DEF ItemsBefore
    <3>3. \A i \in ItemLines(sc) : i < p + 1 <=> i < p \/ i = p
      BY <3>1
    <3>4. p \in ItemsBefore(sc, p + 1)
      BY <1>9 DEF ItemsBefore
    <3>5. \A i : i \in ItemsBefore(sc, p + 1) <=> i \in ItemsBefore(sc, p) \/ i = p
      BY <1>9, <3>3, <3>4, Zenon DEF ItemsBefore
    <3> QED BY <3>2, <3>5
  <2>4. InKit(sc, p + 1, <<o, k>>) = InKit(sc, p, <<o, k>>) \cup {p}
    BY <2>3 DEF InKit
  <2>5. \A q : q[1] # o \/ q[2] # k => InKit(sc, p + 1, q) = InKit(sc, p, q)
    BY <2>3 DEF InKit
  <2>6. IsFiniteSet(InKit(sc, p, <<o, k>>))
    <3>1. InKit(sc, p, <<o, k>>) \subseteq DOMAIN sc
      BY Zenon DEF InKit, ItemsBefore, ItemLines
    <3>2. IsFiniteSet(1..Len(sc)) /\ DOMAIN sc = 1..Len(sc)
      BY FS_Interval
    <3> QED BY <3>1, <3>2, FS_Subset
  <2>7. Cardinality(InKit(sc, p + 1, <<o, k>>)) = Cardinality(InKit(sc, p, <<o, k>>)) + 1
    <3>1. p \notin InKit(sc, p, <<o, k>>)
      BY <2>3 DEF InKit
    <3> QED BY <2>4, <2>6, <3>1, FS_AddElement
  <2>8. ItemSaid(sc, p)
           = <<o, k, Cardinality(InKit(sc, p, <<o, k>>)), Prefix[sc[p].class], sc[p].target>>
    BY <2>2 DEF ItemSaid
  <2> HIDE DEF o, k
  <2>9. KitKey(r) = <<o, k>> /\ <<o, k>> \in DOMAIN kits
    <3>1. o \in DOMAIN kitCount /\ k \in 0..(kitCount[o] - 1)
      BY <1>3, <2>1
    <3> QED BY <2>1, <3>1, KitKeys DEF KitKey, NumberInv
  <2>10. PICK g : g = GroupOf(r, sc[p], kits[<<o, k>>])
    OBVIOUS
  <2>11. kits' = [kits EXCEPT ![<<o, k>>] = @ + 1] /\ groups' = groups \cup {g}
    BY <1>2, <2>9, <2>10 DEF InsertItem
  <2>12. /\ g.order = o /\ g.kit = k /\ g.id = kits[<<o, k>>] /\ g.class = classId[r]
         /\ g.target = sc[p].target
    BY <2>1, <2>10 DEF GroupOf
  <2>13. /\ classId[r] \in DOMAIN classes /\ classes[classId[r]].name = Prefix[sc[p].class]
    BY <1>3 DEF WithName
  <2>14. kits[<<o, k>>] = Cardinality(InKit(sc, p, <<o, k>>))
    BY <1>2, <2>9 DEF Rows
  <2>15. ItemStored(g) = ItemSaid(sc, p)
    BY <2>8, <2>12, <2>13, <2>14 DEF ItemStored
  <2>16. ASSUME NEW q \in DOMAIN kits' PROVE kits'[q] = Cardinality(InKit(sc, p + 1, q))
    <3>1. q \in DOMAIN kits
      BY <2>11
    <3>2. CASE q = <<o, k>>
      BY <2>7, <2>9, <2>11, <2>14, <3>2
    <3>3. CASE q # <<o, k>>
      <4>1. kits'[q] = kits[q]
        BY <2>11, <3>1, <3>3
      <4>2. q \in Nat \X Nat
        BY <3>1 DEF ScriptInv, TableTypes
      <4>3. q[1] # o \/ q[2] # k
        BY <3>3, <4>2
      <4>4. InKit(sc, p + 1, q) = InKit(sc, p, q)
        BY <2>5, <4>3
      <4> QED BY <1>2, <3>1, <4>1, <4>4 DEF Rows
    <3> QED BY <3>2, <3>3
  <2>17. /\ \A h \in groups' : h.class \in DOMAIN classes
         /\ {ItemStored(h) : h \in groups'} = {ItemSaid(sc, i) : i \in ItemsBefore(sc, p + 1)}
    <3>1. \A h \in groups' : h.class \in DOMAIN classes
      BY <1>2, <2>11, <2>12, <2>13 DEF Rows
    <3>2. {ItemStored(h) : h \in groups'} = {ItemStored(h) : h \in groups} \cup {ItemStored(g)}
      BY <2>11, Zenon
    <3>3. {ItemSaid(sc, i) : i \in ItemsBefore(sc, p + 1)}
             = {ItemSaid(sc, i) : i \in ItemsBefore(sc, p)} \cup {ItemSaid(sc, p)}
      BY <2>3, Zenon
    <3> QED BY <1>2, <2>15, <3>1, <3>2, <3>3 DEF Rows
  <2>18. Rows(sc, p + 1)'
    <3>1. {ItemStored(h)' : h \in groups'} = {ItemSaid(sc, i) : i \in ItemsBefore(sc, p + 1)}
      BY <1>0, <2>17 DEF ItemStored
    <3> QED BY <1>0, <2>16, <2>17, <3>1 DEF Rows
  <2> QED BY <1>0, <1>2, <1>4, <1>5, <2>18, FollowsNext DEF ScriptInv
<1>10. CASE p \notin ItemLines(sc)
  <2>1. KitKey(r) \notin DOMAIN kits
    <3>1. orderId[r] = NULL \/ kitId[r] = NULL
      <4>1. CASE OrderAt(sc, p) = 0
        BY <1>2, <1>6, <4>1 DEF Where
      <4>2. CASE OrderAt(sc, p) # 0 /\ KitAt(sc, p) = -1
        <5>1. OrderAt(sc, p - 1) # 0 /\ KitAt(sc, p - 1) = -1
          BY <1>6, <1>7, <4>2
        <5> QED BY <1>2, <5>1 DEF Where
      <4> QED BY <1>8, <1>10, <4>1, <4>2
    <3>2. ASSUME KitKey(r) \in DOMAIN kits PROVE FALSE
      <4>1. KitKey(r) \in Nat \X Nat
        BY <3>2 DEF ScriptInv, TableTypes
      <4>2. orderId[r] \in Nat /\ kitId[r] \in Nat
        BY <4>1 DEF KitKey
      <4> QED BY <3>1, <4>2, ScriptAssumption
    <3> QED BY <3>2
  <2>2. UNCHANGED <<kits, groups>>
    BY <2>1 DEF InsertItem
  <2>3. Rows(sc, p + 1)'
    BY <1>0, <1>2, <1>10, <2>2, RowsSame
  <2> QED BY <1>0, <1>2, <1>4, <1>5, <2>3, FollowsNext DEF ScriptInv
<1> QED BY <1>9, <1>10
\* A statement that leaves the script at its line.
LEMMA FollowsStay ==
    ASSUME NEW r \in Runners, Follows(r), UNCHANGED <<classes, kitCount, kits, groups>>,
           script'[r] = script[r], pos'[r] = pos[r], mode'[r] = mode[r],
           orderId'[r] = orderId[r], kitId'[r] = kitId[r],
           Chosen(r)', pc'[r] = "done" => pos[r] = Len(script[r]) + 1
    PROVE  Follows(r)'
<1>1. Where(r, script[r], pos[r])'
  BY DEF Follows, Where
<1>2. Rows(script[r], pos[r])'
  BY DEF Follows, Rows, ItemStored
<1>3. Stock(script[r], pos[r])'
  BY DEF Follows, Stock, WithName
<1> QED BY <1>1, <1>2, <1>3 DEF Follows

LEMMA FollowsSelect ==
    ASSUME ScriptInv, NEW r \in Runners, Follows(r), SelectClass(r)
    PROVE  Follows(r)'
<1>1. /\ UNCHANGED <<classes, kitCount, kits, groups, script, pos, mode, orderId, kitId>>
      /\ At(r)' = At(r)
  BY DEF SelectClass, tables, At
<1>2. \A n : WithName(n)' = WithName(n)
  BY <1>1 DEF WithName
<1>3. CASE /\ WithName(Prefix[At(r).class]) = {}
           /\ pc' = [pc EXCEPT ![r] = "insert"]
  <2>1. pc'[r] = "insert"
    BY <1>3 DEF ScriptInv, RunnerTypes
  <2>2. Chosen(r)'
    BY <1>1, <1>3, <2>1 DEF Chosen, WithName
  <2> QED BY <1>1, <2>1, <2>2, FollowsStay
<1>4. CASE /\ AfterClass(r)
           /\ \E i \in WithName(Prefix[At(r).class]) : classId' = [classId EXCEPT ![r] = i]
  <2>1. pc'[r] \in {"fill", "tag"} /\ classId'[r] \in WithName(Prefix[At(r).class])
    BY <1>4 DEF AfterClass, ScriptInv, RunnerTypes
  <2>2. Chosen(r)'
    BY <1>1, <2>1 DEF Chosen, WithName
  <2> QED BY <1>1, <2>1, <2>2, FollowsStay
<1> QED BY <1>3, <1>4 DEF SelectClass

\* The class is new, so that no line has filled it before.
LEMMA FollowsInsert ==
    ASSUME ScriptInv, NEW r \in Runners, Follows(r), InsertClass(r)
    PROVE  Follows(r)'
<1>0. pc[r] = "insert"
  BY DEF InsertClass
<1>1. pos[r] \in DOMAIN script[r]
  BY <1>0 DEF ScriptInv, LineInvs, LineInv
<1>2. PICK sc \in Seq(Line), p \in Nat :
              /\ p \in DOMAIN sc /\ script[r] = sc /\ pos[r] = p /\ At(r) = sc[p]
              /\ Where(r, sc, p) /\ Rows(sc, p) /\ Stock(sc, p)
  BY <1>0, <1>1, FollowsLine
<1>3. PICK n : n = Prefix[sc[p].class]
  OBVIOUS
<1>4. PICK m \in Nat : m = Len(classes) /\ DOMAIN classes = 1..m
  BY DEF ScriptInv, TableTypes
<1>5. /\ DOMAIN classes' = 1..(m + 1)
      /\ \A i \in 1..m : classes'[i] = classes[i]
      /\ classes'[m + 1].name = n /\ classes'[m + 1].inventory = 0
  <2>1. classes' = Append(classes, [name |-> n, inventory |-> 0])
    BY <1>2, <1>3 DEF InsertClass
  <2> QED BY <1>4, <2>1 DEF ScriptInv, TableTypes
<1>6. \A i \in 1..m : classes[i].name # n
  <2>1. WithName(n) = {}
    BY <1>0, <1>2, <1>3 DEF Follows, Chosen
  <2> QED BY <1>4, <2>1 DEF WithName
<1>7. /\ classId'[r] = m + 1 /\ pc'[r] \in {"fill", "tag"}
      /\ UNCHANGED <<kitCount, kits, groups, script, pos, mode, orderId, kitId>>
  BY <1>4 DEF InsertClass, AfterClass, ScriptInv, RunnerTypes
<1>8. Where(r, sc, p)'
  BY <1>2, <1>7 DEF Where
<1>9. Rows(sc, p)'
  <2>1. \A g \in groups : g.class \in DOMAIN classes' /\ ItemStored(g)' = ItemStored(g)
    BY <1>2, <1>4, <1>5 DEF Rows, ItemStored
  <2>2. {ItemStored(g)' : g \in groups'} = {ItemStored(g) : g \in groups}
    BY <1>7, <2>1
  <2> QED BY <1>2, <1>7, <2>1, <2>2 DEF Rows
<1>10. Stock(sc, p)'
  <2>1. \A i, j \in DOMAIN classes' : classes'[i].name = classes'[j].name => i = j
    <3> SUFFICES ASSUME NEW i \in 1..(m + 1), NEW j \in 1..(m + 1),
                        classes'[i].name = classes'[j].name
                 PROVE  i = j
      BY <1>5
    <3>1. CASE i \in 1..m /\ j \in 1..m
      BY <1>2, <1>4, <1>5, <3>1 DEF Stock
    <3>2. CASE i = m + 1 \/ j = m + 1
      <4>1. ASSUME NEW l \in 1..(m + 1), classes'[l].name = n PROVE l = m + 1
        <5>1. l \in 1..m => classes'[l].name # n
          BY <1>5, <1>6
        <5> QED BY <4>1, <5>1
      <4> QED BY <1>5, <3>2, <4>1
    <3> QED BY <3>1, <3>2
  <2>2. LastFill(sc, p, n) = 0
    <3>1. ASSUME NEW l \in FillsOf(sc, p, n) PROVE FALSE
      <4>1. l \in FillsBefore(sc, p) /\ Prefix[sc[l].class] = n
        BY <3>1 DEF FillsOf
      <4>2. WithName(n) # {}
        BY <1>2, <4>1 DEF Stock
      <4> QED BY <1>4, <1>6, <4>2 DEF WithName
    <3>2. FillsOf(sc, p, n) = {}
      BY <3>1
    <3> QED BY <3>2 DEF LastFill
  <2>3. \A i \in DOMAIN classes' : classes'[i].inventory = LastFill(sc, p, classes'[i].name)
    <3> SUFFICES ASSUME NEW i \in 1..(m + 1)
                 PROVE  classes'[i].inventory = LastFill(sc, p, classes'[i].name)
      BY <1>5
    <3>1. CASE i \in 1..m
      BY <1>2, <1>4, <1>5, <3>1 DEF Stock
    <3>2. CASE i = m + 1
      BY <1>5, <2>2, <3>2
    <3> QED BY <3>1, <3>2
  <2>4. \A l \in FillsBefore(sc, p) : WithName(Prefix[sc[l].class])' # {}
    <3> SUFFICES ASSUME NEW l \in FillsBefore(sc, p)
                 PROVE  WithName(Prefix[sc[l].class])' # {}
      OBVIOUS
    <3>1. PICK i \in DOMAIN classes : classes[i].name = Prefix[sc[l].class]
      BY <1>2 DEF Stock, WithName
    <3>2. i \in DOMAIN classes' /\ classes'[i].name = Prefix[sc[l].class]
      BY <1>4, <1>5, <3>1
    <3> QED BY <3>2 DEF WithName
  <2> QED BY <2>1, <2>3, <2>4 DEF Stock
<1>11. Chosen(r)'
  <2>1. (At(r) = sc[p])'
    BY <1>2, <1>7 DEF At
  <2>2. m + 1 \in DOMAIN classes' /\ classes'[classId'[r]].name = Prefix[sc[p].class]
    BY <1>3, <1>5, <1>7
  <2> QED BY <1>7, <2>1, <2>2 DEF Chosen, WithName
<1>12. script'[r] = sc /\ pos'[r] = p /\ pc'[r] # "done"
  BY <1>2, <1>7
<1>13. Where(r, script[r], pos[r])' /\ Rows(script[r], pos[r])' /\ Stock(script[r], pos[r])'
  BY <1>8, <1>9, <1>10, <1>12 DEF Where, Rows, Stock
<1> QED BY <1>11, <1>12, <1>13 DEF Follows

\* The line is the last so far that fills its class.
LEMMA FollowsFill ==
    ASSUME ScriptInv, NEW r \in Runners, Follows(r), FillClass(r)
    PROVE  Follows(r)'
<1>0. pc[r] = "fill" /\ NextLine(r) /\ UNCHANGED <<kitCount, kits, groups, script, mode, orderId, kitId>>
  BY DEF FillClass
<1>1. pos[r] \in DOMAIN script[r] /\ At(r).kind = "pair" /\ mode[r] = 0
  BY <1>0 DEF ScriptInv, LineInvs, LineInv
<1>2. PICK sc \in Seq(Line), p \in Nat :
              /\ p \in DOMAIN sc /\ script[r] = sc /\ pos[r] = p /\ At(r) = sc[p]
              /\ Where(r, sc, p) /\ Rows(sc, p) /\ Stock(sc, p)
  BY <1>0, <1>1, FollowsLine
<1>3. /\ sc[p].kind = "pair" /\ SectionAt(sc, p) = 0 /\ p >= 1
      /\ classId[r] \in WithName(Prefix[sc[p].class])
  BY <1>0, <1>1, <1>2 DEF Where, Follows, Chosen
<1>4. Where(r, sc, p + 1)'
  <2>1. /\ mode'[r] = IF sc[p].kind = "section" THEN ModeOf(sc[p].name) ELSE mode[r]
        /\ UNCHANGED <<kitCount, orderId, kitId>> /\ sc[p].kind # "section"
    BY <1>0, <1>3
  <2> QED BY <1>2, <2>1, WhereSame DEF OpensAt
<1>5. PICK n, c : n = Prefix[sc[p].class] /\ c = classId[r]
  OBVIOUS
<1>6. c \in DOMAIN classes /\ classes[c].name = n
  BY <1>3, <1>5 DEF WithName
<1>7. /\ DOMAIN classes' = DOMAIN classes
      /\ \A i \in DOMAIN classes : classes'[i].name = classes[i].name
      /\ \A i \in DOMAIN classes : i # c => classes'[i] = classes[i]
      /\ classes'[c].inventory = sc[p].amount
  <2>1. classes' = [i \in DOMAIN classes |->
                      IF i = c THEN [classes[i] EXCEPT !.inventory = sc[p].amount]
                               ELSE classes[i]]
    BY <1>2, <1>5 DEF FillClass
  <2>2. \A i \in DOMAIN classes : classes[i] \in [name : Names, inventory : Int]
    <3> DEFINE C == [name : Names, inventory : Int]
    <3>1. classes \in Seq(C)
      BY DEF ScriptInv, TableTypes
    <3> HIDE DEF C
    <3>2. \A i \in DOMAIN classes : classes[i] \in C
      BY <3>1
    <3> QED BY <3>2 DEF C
  <2> QED BY <1>6, <2>1, <2>2
<1>8. \A x : WithName(x)' = WithName(x)
  BY <1>7 DEF WithName
<1>9. \A i \in FillsBefore(sc, p + 1) : i \in FillsBefore(sc, p) \/ i = p
  BY <1>2 DEF FillsBefore
<1>10. ASSUME NEW x, x # n PROVE LastFill(sc, p + 1, x) = LastFill(sc, p, x)
  <2>1. FillsOf(sc, p + 1, x) \subseteq FillsOf(sc, p, x)
    BY <1>5, <1>9, <1>10 DEF FillsOf
  <2>2. FillsBefore(sc, p) \subseteq FillsBefore(sc, p + 1)
    BY <1>2 DEF FillsBefore
  <2>3. FillsOf(sc, p + 1, x) = FillsOf(sc, p, x)
    BY <2>1, <2>2 DEF FillsOf
  <2> QED BY <2>3 DEF LastFill
<1>11. LastFill(sc, p + 1, n) = sc[p].amount
  <2>1. p \in FillsOf(sc, p + 1, n)
    BY <1>2, <1>3, <1>5 DEF FillsOf, FillsBefore
  <2>2. \A l \in FillsOf(sc, p + 1, n) : l \in Int /\ l <= p
    BY <1>2 DEF FillsOf, FillsBefore
  <2>3. LastOf(FillsOf(sc, p + 1, n)) = p
    BY <2>1, <2>2 DEF LastOf
  <2> QED BY <2>1, <2>3 DEF LastFill
<1>12. Stock(sc, p + 1)'
  <2>1. \A i, j \in DOMAIN classes' : classes'[i].name = classes'[j].name => i = j
    BY <1>2, <1>7 DEF Stock
  <2>2. ASSUME NEW i \in DOMAIN classes'
        PROVE  classes'[i].inventory = LastFill(sc, p + 1, classes'[i].name)
    <3>1. CASE i = c
      BY <1>6, <1>7, <1>11, <3>1
    <3>2. CASE i # c
      <4>1. classes[i].name # n /\ i \in DOMAIN classes
        BY <1>2, <1>6, <1>7, <3>2 DEF Stock
      <4>2. classes'[i] = classes[i] /\ classes[i].inventory = LastFill(sc, p, classes[i].name)
        BY <1>2, <1>7, <3>2, <4>1 DEF Stock
      <4> QED BY <1>10, <4>1, <4>2
    <3> QED BY <3>1, <3>2
  <2>3. \A l \in FillsBefore(sc, p + 1) : WithName(Prefix[sc[l].class])' # {}
    BY <1>2, <1>3, <1>8, <1>9 DEF Stock
  <2> QED BY <2>1, <2>2, <2>3 DEF Stock
<1>13. Rows(sc, p + 1)'
  <2>1. \A i \in ItemLines(sc) : i \in Nat /\ i # p
    BY <1>3 DEF ItemLines
  <2>2. ItemsBefore(sc, p + 1) = ItemsBefore(sc, p)
    BY <2>1 DEF ItemsBefore
  <2>3. \A k : InKit(sc, p + 1, k) = InKit(sc, p, k)
    BY <2>2 DEF InKit
  <2>4. \A g \in groups : g.class \in DOMAIN classes' /\ ItemStored(g)' = ItemStored(g)
    BY <1>2, <1>7 DEF Rows, ItemStored
  <2>5. {ItemStored(g)' : g \in groups'} = {ItemStored(g) : g \in groups}
    BY <1>0, <2>4
  <2> QED BY <1>0, <1>2, <2>2, <2>3, <2>4, <2>5 DEF Rows
<1> QED BY <1>0, <1>2, <1>4, <1>12, <1>13, FollowsNext DEF ScriptInv
\* TRUNCATE leaves what a script with no line says.
LEMMA FollowsBegin ==
    ASSUME ScriptInv, NEW r \in Runners, Fresh(r), Truncate(r)
    PROVE  Follows(r)'
<1>1. PICK sc \in Seq(Line) : script[r] = sc
  BY DEF Truncate, ScriptInv, RunnerTypes
<1>2. /\ script'[r] = sc /\ pos'[r] = 1 /\ mode'[r] = 0 /\ orderId'[r] = NULL /\ kitId'[r] = NULL
      /\ pc'[r] = "line" /\ classes' = <<>> /\ kitCount' = <<>> /\ kits' = <<>> /\ groups' = {}
  BY <1>1 DEF Truncate, Fresh, ScriptInv, RunnerTypes
<1>3. DOMAIN classes' = {} /\ DOMAIN kits' = {} /\ Len(kitCount') = 0
  BY <1>2
<1>4. SectionAt(sc, 1) = 0
  <2>1. {j \in 1..(1 - 1) : sc[j].kind = "section"} = {}
    OBVIOUS
  <2> QED BY <2>1 DEF SectionAt
<1>5. OrderAt(sc, 1 - 1) = 0
  <2>1. Opens(sc, 1, 1 - 1, 2) = {}
    BY DEF Opens
  <2> QED BY <2>1, FS_EmptySet DEF OrderAt
<1>6. Where(r, sc, 1)'
  BY <1>2, <1>3, <1>4, <1>5 DEF Where
<1>7. ItemsBefore(sc, 1) = {} /\ FillsBefore(sc, 1) = {}
  BY DEF ItemsBefore, ItemLines, FillsBefore
<1>8. Rows(sc, 1)' /\ Stock(sc, 1)'
  BY <1>2, <1>3, <1>7 DEF Rows, Stock
<1>9. Where(r, script[r], pos[r])' /\ Rows(script[r], pos[r])' /\ Stock(script[r], pos[r])'
  BY <1>2, <1>6, <1>8 DEF Where, Rows, Stock
<1> QED BY <1>2, <1>9 DEF Follows, Chosen

\* Every statement of a script that is alone.
LEMMA FollowsStep ==
    ASSUME ScriptInv, NumberInv, NEW r \in Runners, ScriptStep(r),
           pc[r] = "start" => Fresh(r), pc[r] # "start" => Follows(r)
    PROVE  Follows(r)'
<1>0. RunnerTypes /\ LineInvs
  BY DEF ScriptInv
<1>1. CASE Truncate(r)
  BY <1>1, FollowsBegin DEF Truncate
<1>2. ASSUME ~Truncate(r) PROVE pc[r] # "start" /\ Follows(r)
  BY <1>2 DEF ScriptStep, ReadComment, ReadSection, ReadOrder, ReadKit, IgnoreLine, AddTag,
     AddUser, SelectClass, InsertClass, FillClass, ItemTag, InsertItem, EndScript, Reads, IsData,
     NamesClass
<1>3. ASSUME pc[r] # "start", Follows(r),
             ReadComment(r) \/ ReadSection(r) \/ IgnoreLine(r) \/ AddTag(r) \/ AddUser(r)
      PROVE  Follows(r)'
  <2>1. /\ pos[r] \in DOMAIN script[r] /\ NextLine(r)
        /\ UNCHANGED <<classes, kitCount, kits, groups, script, orderId, kitId>>
    BY <1>3 DEF ReadComment, ReadSection, IgnoreLine, AddTag, AddUser, Reads, IsData, tables
  <2>2. CASE ReadComment(r)
    BY <1>3, <2>1, <2>2, PlainLine DEF ReadComment, Reads
  <2>3. CASE ReadSection(r)
    <3>1. At(r).kind = "section" /\ ModeOf(At(r).name) # 2 /\ mode'[r] = ModeOf(At(r).name)
      BY <1>0, <2>3 DEF ReadSection, Reads, RunnerTypes
    <3> QED BY <1>3, <2>1, <2>3, <3>1, PlainLine DEF ReadSection
  <2>4. CASE IgnoreLine(r) \/ AddTag(r) \/ AddUser(r)
    <3>1. /\ At(r).kind \in {"text", "pair", "item"} /\ mode'[r] = mode[r]
          /\ ~(At(r).kind = "pair" /\ mode[r] = 0) /\ ~(At(r).kind = "item" /\ mode[r] = 4)
      BY <2>4 DEF IgnoreLine, AddTag, AddUser, IsData, Reads, NamesClass
    <3> QED BY <1>3, <2>1, <3>1, PlainLine
  <2> QED BY <1>3, <2>2, <2>3, <2>4
<1>4. ASSUME Follows(r), ItemTag(r) PROVE Follows(r)'
  <2>1. /\ pc[r] = "tag" /\ pc'[r] = "row"
        /\ UNCHANGED <<classes, kitCount, kits, groups, script, pos, mode, orderId, kitId, classId>>
    BY <1>0, <1>4 DEF ItemTag, RunnerTypes
  <2>2. Chosen(r)'
    BY <1>4, <2>1 DEF Follows, Chosen, WithName, At
  <2> QED BY <1>4, <2>1, <2>2, FollowsStay
<1>5. ASSUME Follows(r), EndScript(r) PROVE Follows(r)'
  <2>1. /\ pc'[r] = "done" /\ pos[r] \notin DOMAIN script[r] /\ script[r] \in Seq(Line)
        /\ UNCHANGED <<classes, kitCount, kits, groups, script, pos, mode, orderId, kitId>>
    BY <1>0, <1>5 DEF EndScript, RunnerTypes, LineInvs, LineInv, tables
  <2>2. pos[r] \in 1..(Len(script[r]) + 1)
    BY <1>5 DEF Follows, Where
  <2>3. pos[r] = Len(script[r]) + 1
    BY <2>1, <2>2
  <2>4. Chosen(r)'
    BY <2>1 DEF Chosen
  <2> QED BY <1>5, <2>1, <2>3, <2>4, FollowsStay
<1> QED
  BY <1>1, <1>2, <1>3, <1>4, <1>5, FollowsOrder, FollowsKit, FollowsSelect, FollowsInsert,
     FollowsFill, FollowsItem
  DEF ScriptStep

LEMMA FollowInvInit == ScriptInit => FollowInv
  BY DEF ScriptInit, FollowInv, Fresh

\* A script that takes a step is not about to start, so nobody else is alone.
LEMMA FollowInvNext ==
    ASSUME ScriptInv, NumberInv, FollowInv, [ScriptNext]_vars
    PROVE  FollowInv'
<1>1. ASSUME NEW q \in Runners, ScriptStep(q) PROVE FollowInv'
  <2>0. RunnerTypes
    BY DEF ScriptInv
  <2>1. pc'[q] # "start"
    BY <1>1, <2>0 DEF ScriptStep, Truncate, ReadComment, ReadSection, ReadOrder, ReadKit,
       IgnoreLine, AddTag, AddUser, SelectClass, InsertClass, FillClass, ItemTag, InsertItem,
       EndScript, NextLine, AfterClass, RunnerTypes
  <2>2. \A r \in Runners \ {q} : /\ pc'[r] = pc[r] /\ pos'[r] = pos[r] /\ mode'[r] = mode[r]
                                 /\ orderId'[r] = orderId[r] /\ kitId'[r] = kitId[r]
    BY <1>1, <2>0 DEF ScriptStep, Truncate, ReadComment, ReadSection, ReadOrder, ReadKit,
       IgnoreLine, AddTag, AddUser, SelectClass, InsertClass, FillClass, ItemTag, InsertItem,
       EndScript, NextLine, AfterClass, RunnerTypes
  <2>3. ASSUME NEW r \in Runners, pc'[r] = "start" PROVE Fresh(r)'
    BY <2>1, <2>2, <2>3 DEF FollowInv, Fresh
  <2>4. ASSUME NEW r \in Runners, Alone(r)', pc'[r] # "start" PROVE Follows(r)'
    <3>1. r = q
      BY <2>1, <2>4 DEF Alone
    <3>2. Alone(r)
      BY <2>2, <2>4, <3>1 DEF Alone
    <3>3. /\ pc[r] = "start" => Fresh(r)
          /\ pc[r] # "start" => Follows(r)
      BY <3>2 DEF FollowInv
    <3> QED BY <1>1, <3>1, <3>3, FollowsStep
  <2> QED BY <2>3, <2>4 DEF FollowInv
<1>2. CASE UNCHANGED vars
  <2>1. ASSUME NEW r \in Runners, Follows(r) PROVE Follows(r)'
    <3>1. Chosen(r)'
      BY <1>2, <2>1 DEF vars, Follows, Chosen, WithName, At
    <3> QED BY <1>2, <2>1, <3>1, FollowsStay DEF vars, Follows
  <2>2. ASSUME NEW r \in Runners, Alone(r)', pc'[r] # "start" PROVE Follows(r)'
    BY <1>2, <2>1, <2>2 DEF vars, FollowInv, Alone
  <2>3. ASSUME NEW r \in Runners, pc'[r] = "start" PROVE Fresh(r)'
    BY <1>2, <2>3 DEF vars, FollowInv, Fresh
  <2> QED BY <2>2, <2>3 DEF FollowInv
<1> QED BY <1>1, <1>2 DEF ScriptNext

\* LoadedAsWritten of one script.
Loaded(sc) ==
    /\ {<<g.order, g.kit, g.id, classes[g.class].name, g.target>> : g \in groups}
       = {<<OrderAt(sc, i), KitAt(sc, i), ItemAt(sc, i), Prefix[sc[i].class],
            sc[i].target>> : i \in ItemLines(sc)}
    /\ \A i, j \in DOMAIN classes : classes[i].name = classes[j].name => i = j
    /\ \A i \in DOMAIN classes :
          LET lines == {l \in DOMAIN sc : /\ sc[l].kind = "pair" /\ SectionAt(sc, l) = 0
                                          /\ Prefix[sc[l].class] = classes[i].name} IN
          classes[i].inventory =
              IF lines = {} THEN 0
              ELSE sc[CHOOSE l \in lines : \A k \in lines : k <= l].amount

\* Whatever an administrator posts, a script that had the tables to itself has
\* loaded what it says: each item in the order, kit and place that it stands
\* under, with its class, each class once and with the inventory given last
\* (operations.php lines 39 to 89).
THEOREM ScriptLoads == ScriptSpec => []LoadedAsWritten
<1>1. ASSUME ScriptInv, FollowInv PROVE LoadedAsWritten
  <2> SUFFICES ASSUME NEW r \in Runners, pc[r] = "done", Alone(r)
               PROVE  Loaded(script[r])
    BY Zenon DEF LoadedAsWritten, Loaded, Alone
  <2>0. PICK sc : sc = script[r]
    OBVIOUS
  <2>1. PICK p : p = Len(sc) + 1 /\ Rows(sc, p) /\ Stock(sc, p)
    BY <1>1, <2>0 DEF FollowInv, Follows
  <2>2. sc \in Seq(Line)
    BY <1>1, <2>0 DEF ScriptInv, RunnerTypes, LineInvs, LineInv
  <2>3. \A i \in DOMAIN sc : i < p
    BY <2>1, <2>2
  <2>4. ItemsBefore(sc, p) = ItemLines(sc)
    BY <2>3 DEF ItemsBefore, ItemLines
  <2>5. {<<g.order, g.kit, g.id, classes[g.class].name, g.target>> : g \in groups}
           = {<<OrderAt(sc, i), KitAt(sc, i), ItemAt(sc, i), Prefix[sc[i].class],
                sc[i].target>> : i \in ItemLines(sc)}
    BY <2>1, <2>4, Zenon DEF Rows, ItemStored, ItemSaid
  <2>6. ASSUME NEW i \in DOMAIN classes, NEW lines,
               lines = {l \in DOMAIN sc : /\ sc[l].kind = "pair" /\ SectionAt(sc, l) = 0
                                          /\ Prefix[sc[l].class] = classes[i].name}
        PROVE  classes[i].inventory =
                   IF lines = {} THEN 0
                   ELSE sc[CHOOSE l \in lines : \A k \in lines : k <= l].amount
    <3>1. lines = FillsOf(sc, p, classes[i].name)
      BY <2>3, <2>6 DEF FillsOf, FillsBefore
    <3>2. classes[i].inventory = IF lines = {} THEN 0 ELSE sc[LastOf(lines)].amount
      BY <2>1, <3>1 DEF Stock, LastFill
    <3> QED BY <3>2, Zenon DEF LastOf
  <2>7. \A i, j \in DOMAIN classes : classes[i].name = classes[j].name => i = j
    BY <2>1 DEF Stock
  <2>8. Loaded(sc)
    BY <2>5, <2>6, <2>7, Zenon DEF Loaded
  <2> QED BY <2>0, <2>8
<1>2. ScriptInv /\ NumberInv /\ FollowInv /\ [ScriptNext]_vars => (ScriptInv /\ NumberInv /\ FollowInv)'
  BY ScriptInvNext, NumberInvNext, FollowInvNext
<1>3. ScriptInit => ScriptInv /\ NumberInv /\ FollowInv
  BY ScriptInvInit, NumberInvInit, FollowInvInit
<1> QED BY <1>1, <1>2, <1>3, PTL DEF ScriptSpec
=============================================================================
