---------------------------- MODULE CabinetProofs -----------------------------
(***************************************************************************)
(* The strip shows what the last led.py was asked for, for any table of    *)
(* locations, any strip and any number of pages, when all of them belong   *)
(* to one session.                                                         *)
(***************************************************************************)
EXTENDS Cabinet, FiniteSetTheorems, SequenceTheorems, WellFoundedInduction, TLAPS

-----------------------------------------------------------------------------
(* The list of locations.                                                    *)

\* Every set of natural numbers that is not empty has a least element.
LEMMA LeastNat ==
    ASSUME NEW T \in SUBSET Nat, T # {}
    PROVE  \E m \in T : \A n \in T : m <= n
<1> DEFINE R == OpToRel(<, Nat)
<1>1. IsWellFoundedOn(R, Nat)
  BY NatLessThanWellFounded
<1>2. PICK m \in T : \A n \in T : ~(<<n, m>> \in R)
  <2> HIDE DEF R
  <2> QED BY <1>1, WFMin
<1>3. \A n \in T : <<n, m>> \in R <=> n < m
  BY DEF OpToRel
<1>4. \A n \in T : ~(n < m)
  BY <1>2, <1>3, Zenon
<1> QED BY <1>4

\* A finite set of positions has an element of every rank.
LEMMA RankExists ==
    ASSUME NEW N \in Nat, NEW S, \A j \in S : j \in 1..N, IsFiniteSet(S),
           NEW n \in 1..Cardinality(S)
    PROVE  \E i \in S : Rank(S, i) = n
<1> DEFINE Upto(x) == {j \in S : j <= x}
           T == {x \in Nat : Cardinality(Upto(x)) >= n}
<1>1. ASSUME NEW x
      PROVE  IsFiniteSet(Upto(x)) /\ Cardinality(Upto(x)) \in Nat
  <2>1. Upto(x) \in SUBSET S
    OBVIOUS
  <2> HIDE DEF Upto
  <2>2. IsFiniteSet(Upto(x))
    BY <2>1, FS_Subset
  <2> QED BY <2>2, FS_CardinalityType
<1>2. Cardinality(S) \in Nat
  BY FS_CardinalityType
<1>3. Upto(N) = S
  OBVIOUS
<1>4. Upto(0) = {}
  OBVIOUS
<1>5. ASSUME NEW m \in Nat, m # 0, m \notin S
      PROVE  Upto(m) = Upto(m - 1)
  <2>1. \A j \in S : j \in Nat /\ (j <= m <=> j <= m - 1)
    BY <1>5
  <2> QED BY <2>1
<1>6. ASSUME NEW m \in S
      PROVE  Upto(m) = Upto(m - 1) \cup {m} /\ m \notin Upto(m - 1)
  <2>1. \A j \in S : j \in Nat /\ (j <= m <=> j <= m - 1 \/ j = m) /\ ~(m <= m - 1)
    OBVIOUS
  <2> QED BY <2>1
<1> HIDE DEF Upto
<1>7. N \in T
  BY <1>2, <1>3
<1>8. PICK m \in T : \A x \in T : m <= x
  <2>1. T \in SUBSET Nat /\ T # {}
    BY <1>7
  <2> HIDE DEF T
  <2> QED BY <2>1, LeastNat
<1>9. m \in Nat /\ Cardinality(Upto(m)) >= n
  BY <1>8
<1>10. m # 0
  <2>1. Cardinality(Upto(0)) = 0
    BY <1>4, FS_EmptySet
  <2> QED BY <1>9, <2>1
<1>11. Cardinality(Upto(m - 1)) < n
  <2>1. m - 1 \in Nat /\ m - 1 \notin T
    BY <1>8, <1>9, <1>10
  <2> QED BY <1>1, <1>2, <2>1
<1>12. m \in S
  BY <1>1, <1>2, <1>5, <1>9, <1>10, <1>11
<1>13. Cardinality(Upto(m)) = Cardinality(Upto(m - 1)) + 1
  BY <1>1, <1>6, <1>12, FS_AddElement
<1>14. Cardinality(Upto(m)) = n
  BY <1>1, <1>2, <1>9, <1>11, <1>13
<1> QED BY <1>12, <1>14 DEF Rank, Upto

\* The page sends a list of locations of its table.
LEMMA LocListType ==
    ASSUME NEW p
    PROVE  LocListOf(p) \in Seq(Locations)
<1> DEFINE S == Needed(p)
           N == Len(RowOrder)
           at(n) == CHOOSE i \in S : Rank(S, i) = n
<1>1. N \in Nat /\ DOMAIN RowOrder = 1..N
  BY CabinetAssumption
<1>2. \A j \in S : j \in 1..N
  BY <1>1 DEF Needed
<1> HIDE DEF S, N
<1>3. IsFiniteSet(S)
  <2>1. S \in SUBSET (1..N)
    BY <1>2
  <2>2. IsFiniteSet(1..N)
    BY <1>1, FS_Interval
  <2> QED BY <2>1, <2>2, FS_Subset
<1>4. Cardinality(S) \in Nat
  BY <1>3, FS_CardinalityType
<1>5. ASSUME NEW n \in 1..Cardinality(S)
      PROVE  LocationOf[RowOrder[at(n)]] \in Locations
  <2>1. \E i \in S : Rank(S, i) = n
    BY <1>1, <1>2, <1>3, RankExists
  <2>2. at(n) \in S
    BY <2>1
  <2> HIDE DEF at
  <2>3. RowOrder[at(n)] \in TableRows
    BY <1>1, <1>2, <2>2, CabinetAssumption
  <2> QED BY <2>3, CabinetAssumption
<1>6. LocListOf(p) = [n \in 1..Cardinality(S) |-> LocationOf[RowOrder[at(n)]]]
  BY DEF LocListOf, S
<1> HIDE DEF at
<1> QED BY <1>4, <1>5, <1>6
-----------------------------------------------------------------------------
(* The strip.                                                                *)

\* The strip's LEDs.
Strip == 0..(Blocks * BlockSize - 1)

\* A process is at one of the locations it was given, or past the last.
NextInv == \A s \in Sessions : run[s].next \in 1..(Len(run[s].asked) + 1)

CabinetTypes == CabinetTypeOK /\ NextInv

LEMMA ProcessFields ==
    ASSUME CabinetTypeOK, NEW s \in Sessions
    PROVE  /\ run[s] \in Process /\ run[s].block \in 0..Blocks /\ run[s].next \in Nat
           /\ run[s].asked \in Seq(Locations) /\ Len(run[s].asked) \in Nat
<1>1. run[s] \in Process
  BY DEF CabinetTypeOK
<1>2. run[s].asked \in Seq(Locations)
  BY <1>1 DEF Process
<1> QED BY <1>1, <1>2 DEF Process

\* A location of the table of led.py lights LEDs of the strip.
LEMMA LocLedsOnStrip ==
    ASSUME NEW l \in Locations, Known(l)
    PROVE  LocLeds(l) \subseteq Strip
<1> DEFINE list == LocList[l.col]
           i == IF l.row = 0 THEN Len(list) ELSE l.row
<1>1. l.row \in Nat /\ l.col \in {"A", "B"}
  BY DEF Locations
<1>2. list \in Seq(Nat) /\ \A j \in DOMAIN list : list[j] + Span <= Blocks * BlockSize
  BY <1>1, CabinetAssumption
<1>3. l.row <= Len(list) /\ list # <<>>
  BY DEF Known
<1>4. ParsePosition(l) = list[i]
  BY DEF ParsePosition
<1> HIDE DEF list
<1>5. i \in DOMAIN list
  BY <1>1, <1>2, <1>3
<1>6. list[i] \in Nat /\ list[i] + Span <= Blocks * BlockSize
  BY <1>2, <1>5
<1>7. Blocks * BlockSize \in Nat /\ Span \in Nat
  BY CabinetAssumption
<1> HIDE DEF i
<1> QED BY <1>4, <1>6, <1>7 DEF LocLeds, Strip

LEMMA Removed ==
    ASSUME NEW S, NEW q \in Seq(S), NEW i \in DOMAIN q
    PROVE  RemoveAt(q, i) \in Seq(S)
  BY DEF RemoveAt

LEMMA CabinetTypesInit == CabinetInit => CabinetTypes
<1> SUFFICES ASSUME CabinetInit PROVE CabinetTypes
  OBVIOUS
<1>1. Idle \in Process
  BY CabinetAssumption DEF Idle, Process
<1>2. run \in [Sessions -> Process]
  BY <1>1 DEF CabinetInit
<1>3. NextInv
  BY DEF CabinetInit, NextInv, Idle
<1>4. newest \in [Pages -> Fates]
  BY DEF CabinetInit, Fates
<1>5. /\ page \in [Pages -> {"new", "open", "left"}] /\ short \in [Pages -> SUBSET TableRows]
      /\ globalloc \in [Pages -> Seq(Locations)] /\ posts \in [Pages -> Seq(Request)]
  BY DEF CabinetInit
<1>6. /\ lit \subseteq 0..(Blocks * BlockSize - 1) /\ changes \in 0..MaxChanges
      /\ shown \in Seq(Locations)
  BY CabinetAssumption DEF CabinetInit
<1>7. cut \in BOOLEAN
  BY DEF CabinetInit
<1>8. CabinetTypeOK
  BY <1>2, <1>4, <1>5, <1>6, <1>7, Zenon DEF CabinetTypeOK
<1> QED BY <1>3, <1>8 DEF CabinetTypes

\* A post of a page.
LEMMA Posted ==
    ASSUME CabinetTypeOK, NEW p \in Pages, NEW request \in Request, Post(p, request)
    PROVE  posts' \in [Pages -> Seq(Request)] /\ newest' \in [Pages -> Fates]
<1>1. posts \in [Pages -> Seq(Request)] /\ newest \in [Pages -> Fates]
  BY DEF CabinetTypeOK
<1>2. Append(posts[p], request) \in Seq(Request)
  BY <1>1
<1> QED BY <1>1, <1>2 DEF Post, Fates

\* A step of the process of one session.
LEMMA RunStep ==
    ASSUME CabinetTypes, NEW s \in Sessions, NEW r \in Process,
           r.next \in 1..(Len(r.asked) + 1), run' = [run EXCEPT ![s] = r]
    PROVE  /\ run' \in [Sessions -> Process] /\ NextInv'
           /\ run'[s] = r /\ \A t \in Sessions \ {s} : run'[t] = run[t]
  BY DEF CabinetTypes, CabinetTypeOK, NextInv

LEMMA CabinetTypesNext == CabinetTypes /\ [CabinetNext]_vars => CabinetTypes'
<1> SUFFICES ASSUME CabinetTypeOK, NextInv, CabinetTypes, [CabinetNext]_vars
             PROVE  CabinetTypeOK' /\ NextInv'
  BY DEF CabinetTypes
<1>0. posts \in [Pages -> Seq(Request)]
  BY DEF CabinetTypeOK
<1>1. ASSUME NEW p \in Pages, OpenPage(p) \/ LeavePage(p)
      PROVE  CabinetTypeOK' /\ NextInv'
  <2>1. AllOff \in Request
    BY DEF AllOff, Request
  <2>3. posts' \in [Pages -> Seq(Request)] /\ newest' \in [Pages -> Fates]
    BY <1>1, <2>1, Posted DEF OpenPage, LeavePage
  <2>4. page' \in [Pages -> {"new", "open", "left"}]
    BY <1>1 DEF OpenPage, LeavePage, CabinetTypeOK
  <2> QED BY <1>1, <2>3, <2>4 DEF OpenPage, LeavePage, CabinetTypeOK, NextInv
<1>2. ASSUME NEW p \in Pages, NEW rows \in SUBSET TableRows, ChangeShort(p, rows)
      PROVE  CabinetTypeOK' /\ NextInv'
  <2>1. short' \in [Pages -> SUBSET TableRows]
    BY <1>2 DEF ChangeShort, CabinetTypeOK
  <2>2. changes' \in 0..MaxChanges
    BY <1>2, CabinetAssumption DEF ChangeShort, CabinetTypeOK
  <2> QED BY <1>2, <2>1, <2>2 DEF ChangeShort, CabinetTypeOK, NextInv
<1>3. ASSUME NEW p \in Pages, ToggleLED(p)
      PROVE  CabinetTypeOK' /\ NextInv'
  <2>1. LocListOf(p) \in Request
    BY LocListType DEF Request
  <2>3. posts' \in [Pages -> Seq(Request)] /\ newest' \in [Pages -> Fates]
    BY <1>3, <2>1, Posted DEF ToggleLED
  <2>4. globalloc' \in [Pages -> Seq(Locations)]
    BY <1>3, LocListType DEF ToggleLED, CabinetTypeOK
  <2> QED BY <1>3, <2>3, <2>4 DEF ToggleLED, CabinetTypeOK, NextInv
<1>4. ASSUME NEW p \in Pages, NEW i \in DOMAIN posts[p], StartLed(p, i)
      PROVE  CabinetTypeOK' /\ NextInv'
  <2> DEFINE r == [on |-> TRUE, block |-> 0, asked |-> posts[p][i], next |-> 1]
  <2>1. posts[p] \in Seq(Request) /\ posts[p][i] \in Request
    BY <1>0
  <2>2. r \in Process /\ r.next \in 1..(Len(r.asked) + 1)
    BY <2>1, CabinetAssumption DEF Process, Request
  <2>3. SessionOf[p] \in Sessions /\ run' = [run EXCEPT ![SessionOf[p]] = r]
    BY <1>4, CabinetAssumption DEF StartLed
  <2> HIDE DEF r
  <2>4. run' \in [Sessions -> Process] /\ NextInv'
    BY <2>2, <2>3, RunStep
  <2>5. RemoveAt(posts[p], i) \in Seq(Request)
    BY <2>1, Removed
  <2>6. posts' \in [Pages -> Seq(Request)]
    BY <1>0, <1>4, <2>5 DEF StartLed
  <2>7. \A q \in Pages : FateAfter(p, i, q) \in Fates
    BY DEF FateAfter, CabinetTypeOK, Fates
  <2>8. newest' \in [Pages -> Fates]
    BY <1>4, <2>7 DEF StartLed
  <2> QED BY <1>4, <2>4, <2>6, <2>8 DEF StartLed, CabinetTypeOK
<1>5. ASSUME NEW s \in Sessions, TurnOff(s)
      PROVE  CabinetTypeOK' /\ NextInv'
  <2> DEFINE r == [run[s] EXCEPT !.block = @ + 1]
  <2>1. run[s] \in Process /\ run[s].block \in 0..Blocks /\ run[s].block < Blocks
    BY <1>5, ProcessFields DEF TurnOff
  <2>2. run[s].block + 1 \in 0..Blocks
    BY <2>1, CabinetAssumption
  <2>3. r \in Process /\ r.next = run[s].next /\ r.asked = run[s].asked
    BY <2>1, <2>2 DEF Process
  <2>4. run' = [run EXCEPT ![s] = r]
    BY <1>5 DEF TurnOff
  <2> HIDE DEF r
  <2>5. run' \in [Sessions -> Process] /\ NextInv'
    BY <2>3, <2>4, RunStep DEF NextInv
  <2>6. lit' \subseteq Strip
    BY <1>5 DEF TurnOff, CabinetTypeOK, Strip
  <2> QED BY <1>5, <2>5, <2>6 DEF TurnOff, CabinetTypeOK, Strip
<1>6. ASSUME NEW s \in Sessions, Light(s)
      PROVE  CabinetTypeOK' /\ NextInv'
  <2> DEFINE r == [run[s] EXCEPT !.next = @ + 1]
  <2>1. /\ run[s] \in Process /\ run[s].asked \in Seq(Locations)
        /\ run[s].next \in DOMAIN run[s].asked
    BY <1>6, ProcessFields DEF Light, Lighting
  <2>2. run[s].next + 1 \in 1..(Len(run[s].asked) + 1)
    BY <2>1
  <2>3. r \in Process /\ r.next = run[s].next + 1 /\ r.asked = run[s].asked
    BY <2>1, <2>2 DEF Process
  <2>4. run' = [run EXCEPT ![s] = r]
    BY <1>6 DEF Light
  <2>5. Location(s) \in Locations
    BY <2>1 DEF Location
  <2> HIDE DEF r
  <2>6. run' \in [Sessions -> Process] /\ NextInv'
    BY <2>2, <2>3, <2>4, RunStep
  <2>7. LocLeds(Location(s)) \subseteq Strip
    BY <1>6, <2>5, LocLedsOnStrip DEF Light
  <2>8. lit' \subseteq Strip
    BY <1>6, <2>7 DEF Light, CabinetTypeOK, Strip
  <2> QED BY <1>6, <2>6, <2>8 DEF Light, CabinetTypeOK, Strip
<1>7. ASSUME NEW s \in Sessions, EndLed(s)
      PROVE  CabinetTypeOK' /\ NextInv'
  <2>1. Idle \in Process /\ Idle.next \in 1..(Len(Idle.asked) + 1)
    BY CabinetAssumption DEF Idle, Process
  <2>2. run' \in [Sessions -> Process] /\ NextInv'
    BY <1>7, <2>1, RunStep DEF EndLed
  <2>3. run[s].asked \in Seq(Locations) /\ run[s].next \in 1..(Len(run[s].asked) + 1)
    BY ProcessFields DEF NextInv
  <2>4. SubSeq(run[s].asked, 1, run[s].next - 1) \in Seq(Locations)
    BY <2>3, SubSeqProperties
  <2> QED BY <1>7, <2>2, <2>4 DEF EndLed, CabinetTypeOK
<1>8. ASSUME NEW p \in Pages, NEW i \in DOMAIN posts[p], Unserved(p, i)
      PROVE  CabinetTypeOK' /\ NextInv'
  <2>1. RemoveAt(posts[p], i) \in Seq(Request)
    BY <1>0, Removed
  <2>2. posts' \in [Pages -> Seq(Request)]
    BY <1>0, <1>8, <2>1 DEF Unserved
  <2>3. newest' \in [Pages -> Fates]
    BY <1>8 DEF Unserved, CabinetTypeOK, Fates
  <2> QED BY <1>8, <2>2, <2>3 DEF Unserved, CabinetTypeOK, NextInv
<1>9. ASSUME NEW s \in Sessions, BreakOff(s)
      PROVE  CabinetTypeOK' /\ NextInv'
  <2>1. Idle \in Process /\ Idle.next \in 1..(Len(Idle.asked) + 1)
    BY CabinetAssumption DEF Idle, Process
  <2>2. run' \in [Sessions -> Process] /\ NextInv'
    BY <1>9, <2>1, RunStep DEF BreakOff
  <2>3. newest' \in [Pages -> Fates]
    BY <1>9 DEF BreakOff, CabinetTypeOK, Fates
  <2> QED BY <1>9, <2>2, <2>3 DEF BreakOff, CabinetTypeOK
<1>10. CASE UNCHANGED vars
  BY <1>10 DEF vars, CabinetTypeOK, NextInv
<1> QED
  BY <1>1, <1>2, <1>3, <1>4, <1>5, <1>6, <1>7, <1>8, <1>9, <1>10
  DEF CabinetNext, Arrives, ConnectFails, LosePost, LedStep, Finish, UnknownLocation

\* In any number of sessions led.py stays on the strip: it darkens its blocks
\* and lights the LEDs of its table only (led.py lines 25 to 55), and a page
\* sends nothing but locations of its table (kitstatus.js lines 147 to 172).
THEOREM CabinetTypeCorrect == CabinetSpec => []CabinetTypeOK
<1>1. CabinetTypes => CabinetTypeOK
  BY DEF CabinetTypes
<1> QED BY <1>1, CabinetTypesInit, CabinetTypesNext, PTL DEF CabinetSpec
-----------------------------------------------------------------------------
(* What the strip shows.                                                     *)

\* What the first n locations light.
LitBy(locs, n) == UNION {LocLeds(locs[i]) : i \in 1..n}

\* How far a process is: it has darkened the blocks before the next one, and
\* once all are dark the strip shows the locations before the next one, all of
\* which are in the table.
Progress(s) ==
    LET r == run[s] IN
    r.on =>
        /\ \A i \in 1..(r.next - 1) : Known(r.asked[i])
        /\ r.block # Blocks => r.next = 1 /\ \A x \in lit : x >= r.block * BlockSize
        /\ r.block = Blocks => lit = LitBy(r.asked, r.next - 1)

StripInv == (\A s \in Sessions : Progress(s)) /\ RewritesAll

\* A list of locations that are all in the table lights all of them.
LEMMA LedsOfKnown ==
    ASSUME NEW locs \in Seq(Locations), \A i \in DOMAIN locs : Known(locs[i])
    PROVE  Leds(locs) = LitBy(locs, Len(locs))
<1>1. DOMAIN locs = 1..Len(locs) /\ Len(locs) \in Nat
  OBVIOUS
<1>2. {j \in DOMAIN locs : \A k \in 1..j : Known(locs[k])} = 1..Len(locs)
  <2>1. ASSUME NEW j \in 1..Len(locs), NEW k \in 1..j PROVE Known(locs[k])
    <3>1. k \in DOMAIN locs
      BY <1>1
    <3> QED BY <3>1
  <2> QED BY <1>1, <2>1
<1> QED BY <1>2 DEF Leds, LitBy

\* One more location.
LEMMA LitByNext ==
    ASSUME NEW locs, NEW n \in Nat
    PROVE  LitBy(locs, n + 1) = LitBy(locs, n) \cup LocLeds(locs[n + 1])
<1>1. \A i : i \in 1..(n + 1) <=> i \in 1..n \/ i = n + 1
  OBVIOUS
<1>2. ASSUME NEW x PROVE x \in LitBy(locs, n + 1) <=> \E i \in 1..(n + 1) : x \in LocLeds(locs[i])
  BY DEF LitBy
<1>3. ASSUME NEW x PROVE x \in LitBy(locs, n) <=> \E i \in 1..n : x \in LocLeds(locs[i])
  BY DEF LitBy
<1> HIDE DEF LocLeds
<1>4. ASSUME NEW x
      PROVE  x \in LitBy(locs, n + 1) <=> x \in LitBy(locs, n) \cup LocLeds(locs[n + 1])
  BY <1>1, <1>2, <1>3
<1> QED BY <1>4

LEMMA StripInvNext ==
    ASSUME OneSession
    PROVE  CabinetTypes /\ StripInv /\ [CabinetNext]_vars => StripInv'
<1> SUFFICES ASSUME CabinetTypes, CabinetTypeOK, NextInv, StripInv, [CabinetNext]_vars
             PROVE  StripInv'
  BY DEF CabinetTypes
<1>0. Blocks \in Nat /\ BlockSize \in Nat /\ lit \subseteq Strip
  BY CabinetAssumption DEF CabinetTypeOK, Strip
<1>1. ASSUME NEW p \in Pages, NEW i \in DOMAIN posts[p], StartLed(p, i)
      PROVE  StripInv'
  <2> DEFINE s == SessionOf[p]
             r == [on |-> TRUE, block |-> 0, asked |-> posts[p][i], next |-> 1]
  <2>1. s \in Sessions /\ run' = [run EXCEPT ![s] = r] /\ UNCHANGED lit
    BY <1>1, CabinetAssumption DEF StartLed
  <2>2. run'[s] = r
    BY <2>1 DEF CabinetTypeOK
  <2>3. \A x \in lit : x >= 0 * BlockSize
    BY <1>0 DEF Strip
  <2>4. Blocks = 0 => lit = LitBy(posts[p][i], 0)
    <3>1. LitBy(posts[p][i], 0) = {}
      BY DEF LitBy
    <3>2. Blocks = 0 => lit = {}
      BY <1>0 DEF Strip
    <3> QED BY <3>1, <3>2
  <2>5. Progress(s)'
    BY <2>1, <2>2, <2>3, <2>4 DEF Progress, LitBy
  <2> HIDE DEF s, r
  <2>6. \A t \in Sessions : t = s
    BY <2>1 DEF OneSession
  <2>7. run'[s].on
    BY <2>2 DEF r
  <2> QED BY <2>1, <2>5, <2>6, <2>7 DEF StripInv, RewritesAll
<1>2. ASSUME NEW s \in Sessions, TurnOff(s)
      PROVE  StripInv'
  <2> DEFINE b == run[s].block
             r == [run[s] EXCEPT !.block = @ + 1]
  <2>1. /\ run[s].on /\ b < Blocks /\ run' = [run EXCEPT ![s] = r]
        /\ lit' = lit \ BlockLeds(b)
    BY <1>2 DEF TurnOff
  <2>2. b \in 0..Blocks /\ run[s] \in Process
    BY ProcessFields
  <2>3. /\ run'[s] = r /\ r.on = run[s].on /\ r.block = b + 1
        /\ r.next = run[s].next /\ r.asked = run[s].asked
    BY <2>1, <2>2 DEF Process, CabinetTypeOK
  <2>4. run[s].next = 1 /\ \A x \in lit : x >= b * BlockSize
    BY <1>0, <2>1, <2>2 DEF StripInv, Progress
  <2>5. (b + 1) * BlockSize = b * BlockSize + BlockSize /\ b * BlockSize \in Nat
    BY <1>0, <2>2
  <2> HIDE DEF r, b
  <2>6. \A x \in lit' : x >= (b + 1) * BlockSize
    BY <1>0, <2>1, <2>4, <2>5 DEF BlockLeds, Strip
  <2>7. b + 1 = Blocks => lit' = {}
    <3> SUFFICES ASSUME b + 1 = Blocks, NEW x \in lit' PROVE FALSE
      OBVIOUS
    <3>1. x \in Strip /\ x >= Blocks * BlockSize
      BY <1>0, <2>1, <2>6
    <3>2. Blocks * BlockSize \in Nat
      BY <1>0
    <3> QED BY <3>1, <3>2 DEF Strip
  <2>8. LitBy(run[s].asked, 0) = {}
    BY DEF LitBy
  <2>9. Progress(s)'
    BY <2>3, <2>4, <2>6, <2>7, <2>8 DEF Progress, LitBy
  <2>10. \A t \in Sessions : t = s
    BY DEF OneSession
  <2>11. run'[s].on
    BY <2>1, <2>3
  <2> QED BY <2>9, <2>10, <2>11 DEF StripInv, RewritesAll
<1>3. ASSUME NEW s \in Sessions, Light(s)
      PROVE  StripInv'
  <2> DEFINE n == run[s].next
             a == run[s].asked
             r == [run[s] EXCEPT !.next = @ + 1]
  <2>1. /\ run[s].on /\ run[s].block = Blocks /\ n \in DOMAIN a /\ Known(a[n])
        /\ lit' = lit \cup LocLeds(a[n]) /\ run' = [run EXCEPT ![s] = r]
    BY <1>3 DEF Light, Lighting, Location
  <2>2. run[s] \in Process /\ n \in Nat /\ a \in Seq(Locations) /\ n \in 1..(Len(a) + 1)
    BY ProcessFields DEF NextInv
  <2>3. /\ run'[s] = r /\ r.on = run[s].on /\ r.block = run[s].block
        /\ r.next = n + 1 /\ r.asked = a
    BY <2>1, <2>2 DEF Process, CabinetTypeOK
  <2>4. lit = LitBy(a, n - 1) /\ \A i \in 1..(n - 1) : Known(a[i])
    BY <2>1 DEF StripInv, Progress
  <2> HIDE DEF r, n, a
  <2>5. n - 1 \in Nat /\ (n - 1) + 1 = n /\ (n + 1) - 1 = n
    BY <2>2
  <2>6. LitBy(a, n) = LitBy(a, n - 1) \cup LocLeds(a[n])
    BY <2>5, LitByNext
  <2>7. \A i \in 1..n : Known(a[i])
    BY <2>1, <2>2, <2>4
  <2>8. Progress(s)'
    <3>1. lit' = LitBy(a, n)
      BY <2>1, <2>4, <2>6
    <3>2. LitBy(a, n) = LitBy(a, (n + 1) - 1)
      BY <2>5
    <3>3. \A i \in 1..((n + 1) - 1) : Known(a[i])
      BY <2>5, <2>7
    <3> QED BY <2>1, <2>3, <3>1, <3>2, <3>3 DEF Progress, LitBy
  <2>9. \A t \in Sessions : t = s
    BY DEF OneSession
  <2>10. run'[s].on
    BY <2>1, <2>3
  <2> QED BY <2>8, <2>9, <2>10 DEF StripInv, RewritesAll
<1>4. ASSUME NEW s \in Sessions, run[s].on, run[s].block = Blocks, EndLed(s)
      PROVE  StripInv'
  <2> DEFINE n == run[s].next
             a == run[s].asked
             z == SubSeq(a, 1, n - 1)
  <2>1. shown' = z /\ run' = [run EXCEPT ![s] = Idle] /\ UNCHANGED lit
    BY <1>4 DEF EndLed
  <2>2. n \in Nat /\ a \in Seq(Locations) /\ n \in 1..(Len(a) + 1)
    BY ProcessFields DEF NextInv
  <2>3. lit = LitBy(a, n - 1) /\ \A i \in 1..(n - 1) : Known(a[i])
    BY <1>4 DEF StripInv, Progress
  <2> HIDE DEF n, a
  <2>4. z \in Seq(Locations) /\ Len(z) = n - 1 /\ \A i \in 1..(n - 1) : z[i] = a[i]
    BY <2>2, SubSeqProperties
  <2> HIDE DEF z
  <2>5. DOMAIN z = 1..(n - 1)
    BY <2>4
  <2>6. \A i \in DOMAIN z : Known(z[i])
    BY <2>3, <2>4, <2>5
  <2>7. Leds(z) = LitBy(z, n - 1)
    BY <2>4, <2>6, LedsOfKnown
  <2>8. LitBy(z, n - 1) = LitBy(a, n - 1)
    BY <2>4 DEF LitBy
  <2>9. lit' = Leds(z)
    BY <2>1, <2>3, <2>7, <2>8
  <2>10. lit' = Leds(shown')
    BY <2>1, <2>9
  <2>11. \A t \in Sessions : t = s
    BY DEF OneSession
  <2>12. ~run'[s].on
    BY <2>1 DEF CabinetTypeOK, Idle
  <2>13. Progress(s)'
    BY <2>12 DEF Progress
  <2> QED BY <2>10, <2>11, <2>13 DEF StripInv, RewritesAll, Leds
<1>5. ASSUME NEW s \in Sessions, BreakOff(s)
      PROVE  StripInv'
  <2>1. cut' /\ run' = [run EXCEPT ![s] = Idle]
    BY <1>5 DEF BreakOff
  <2>2. \A t \in Sessions : t = s
    BY DEF OneSession
  <2>3. ~run'[s].on
    BY <2>1 DEF CabinetTypeOK, Idle
  <2> QED BY <2>1, <2>2, <2>3 DEF StripInv, Progress, RewritesAll
<1>6. CASE UNCHANGED <<run, lit, shown, cut>>
  BY <1>6 DEF StripInv, Progress, RewritesAll, Leds, LitBy
<1> QED
  BY <1>1, <1>2, <1>3, <1>4, <1>5, <1>6 DEF CabinetNext, OpenPage, LeavePage, ChangeShort,
     ToggleLED, Arrives, ConnectFails, LosePost, Unserved, LedStep, Finish, UnknownLocation,
     Lighting, vars

\* In a single session the strip shows, whenever no led.py runs and the last one
\* kept its connection, exactly the locations that it handled: nothing of an earlier list is left
\* (`will rewrite all previous location data', led.py line 74) and nothing of
\* its own list is missing, also when the page changes its list while the
\* process runs or an unknown location ends it.
THEOREM StripRewritten ==
    ASSUME OneSession
    PROVE  CabinetSpec => []RewritesAll
<1>1. CabinetInit => StripInv
  BY DEF CabinetInit, StripInv, Progress, RewritesAll, Idle, Leds
<1>2. StripInv => RewritesAll
  BY DEF StripInv
<1> QED
  BY <1>1, <1>2, CabinetTypesInit, CabinetTypesNext, StripInvNext, PTL DEF CabinetSpec
=============================================================================
