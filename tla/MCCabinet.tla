------------------------------- MODULE MCCabinet ------------------------------
(***************************************************************************)
(* Cabinet on a strip of three blocks of two LEDs.  A location lights two  *)
(* LEDs and, like position 58 of led.py, straddles two blocks.  The last   *)
(* row has a location that is not in the table.                            *)
(***************************************************************************)
EXTENDS Cabinet, TLC

MCRowOrder == <<"nut", "bolt", "cap">>
MCLocationOf ==
    ("nut" :> [row |-> 1, col |-> "A"]) @@ ("bolt" :> [row |-> 0, col |-> "B"])
    @@ ("cap" :> [row |-> 3, col |-> "A"])
MCLocList == ("A" :> <<1>>) @@ ("B" :> <<4, 3>>)

OnePage == "p1" :> "s1"
=============================================================================
