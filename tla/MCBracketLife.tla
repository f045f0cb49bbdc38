---------------------------- MODULE MCBracketLife ----------------------------
(* Instances of BracketLife for TLC. *)
EXTENDS BracketLife

Good == [coid |-> "c", side |-> "BUY", qty |-> 1, conid |-> 1]
MCParents ==
    {Good} \cup [coid : {"c", None}, side : {"BUY", None}, qty : {2, NaN, Absent}, conid : {1, Absent}]
GoodKid == [parentId |-> "c", coid |-> None, side |-> "SELL", qty |-> 1, conid |-> 1, type |-> "LMT"]
MCKids ==
    [parentId : {"c", "d", None}, coid : {None, "e"}, side : {"SELL", "BUY", None},
     qty : {1, 2, NaN, Absent}, conid : {1, 2, Absent}, type : {"LMT"}]
MCMore ==
    {GoodKid, [GoodKid EXCEPT !.type = "STP", !.qty = 2], [GoodKid EXCEPT !.side = "BUY"],
     [GoodKid EXCEPT !.qty = Absent]}
=============================================================================
