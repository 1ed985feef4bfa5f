---------------------------- MODULE MCInitScript ------------------------------
(***************************************************************************)
(* InitScript on all short scripts over a few lines.  `nut-1' and `nut-2'  *)
(* are cut to `nut' by create_class( ).                                    *)
(***************************************************************************)
EXTENDS InitScript, TLC

MCPrefix == ("nut" :> "nut") @@ ("nut-1" :> "nut") @@ ("nut-2" :> "nut")
            @@ ("bolt" :> "bolt") @@ ("t1" :> "t1")

Section(n) == [kind |-> "section", name |-> n]
Item(c, n, t) == [kind |-> "item", text |-> c, class |-> c, target |-> n, count |-> 0,
                  tag |-> t, archived |-> FALSE]
Pair(c, n) == [kind |-> "pair", text |-> c, class |-> c, amount |-> n]
Blank == [kind |-> "text", text |-> EMPTY]

Start == <<Section("ORDER"), Section("KIT"), Section("ITEMS"), Item("nut-1", 1, "t1")>>

\* What follows the first item, or nothing before it: all sequences of lines.
Tails(lines, n) == UNION {[1..k -> lines] : k \in 0..n}

AllLines == {Section("ORDER"), Section("KIT"), Section("ITEMS"), Section("STOCK"),
             Item("nut-2", 2, EMPTY), Item("bolt", 3, EMPTY), Pair("nut", 7), Pair("nut-1", 9)}

OtherLines == {Section("TAGS"), Section("USERS"), Section("INVENTORY"), [kind |-> "comment"],
               Blank, Item("bolt", 3, "t1")}

OneScript == Tails(AllLines, 3) \cup {Start \o t : t \in Tails(AllLines, 4)}
             \cup {Start \o t : t \in Tails(OtherLines, 3)}

TwoScripts == {Start, Start \o <<Section("KIT"), Section("ITEMS"), Item("bolt", 2, EMPTY)>>,
               <<Section("ORDER")>> \o Start}

\* One session posts any script alone, or two sessions post one each.
MCPosts == {("r1" :> sc) @@ ("r2" :> NULL) : sc \in OneScript}
           \cup {("r1" :> a) @@ ("r2" :> b) : a, b \in TwoScripts}
=============================================================================
