----------------------------- MODULE StockLedger ------------------------------
(***************************************************************************)
(* What kit synchronisation promises about material: the stock of a class  *)
(* and the counts of the kit positions that draw on it change together, in *)
(* one step, and never by more than is in stock.  This is the `atomic'     *)
(* form that the TODO above the two UPDATE statements of include/ajax.php  *)
(* asks for.                                                               *)
(***************************************************************************)
EXTENDS Integers

CONSTANTS Groups, Classes, Quantities, ClassOf, Stock, FirstCount

VARIABLES inventory, count

ledgerVars == <<inventory, count>>

LedgerInit ==
    /\ inventory = Stock
    /\ count = FirstCount

\* Position g is set to v units; the difference leaves or returns to stock.
Move(g, v) ==
    /\ inventory[ClassOf[g]] >= v - count[g]
    /\ inventory' = [inventory EXCEPT ![ClassOf[g]] = @ - (v - count[g])]
    /\ count' = [count EXCEPT ![g] = v]

LedgerNext == \E g \in Groups, v \in Quantities : Move(g, v)

LedgerSpec == LedgerInit /\ [][LedgerNext]_ledgerVars
=============================================================================
