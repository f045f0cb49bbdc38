------------------------------ MODULE MCToolDesk ------------------------------
(***************************************************************************)
(* Values for the nine services of ToolDesk, for TLC.                      *)
(***************************************************************************)
EXTENDS ToolDesk

\* Two bar sizes: the step table is the smaller limit; a day is more than an answer holds.
Coarse == [perDay |-> 1, step |-> 2]
Fine == [perDay |-> 4, step |-> 1]

Absent == -1
NaN == -2
BracketParents ==
    {[coid |-> "c", side |-> "BUY", qty |-> 1, conid |-> 1]} \cup
    [coid : {"c", None}, side : {"BUY", None}, qty : {2, NaN, Absent}, conid : {1, Absent}]
GoodKid == [parentId |-> "c", coid |-> None, side |-> "SELL", qty |-> 1, conid |-> 1, type |-> "LMT"]
BracketKids ==
    [parentId : {"c", "d", None}, coid : {None, "e"}, side : {"SELL", "BUY", None},
     qty : {1, 2, NaN, Absent}, conid : {1, 2, Absent}, type : {"LMT"}]
MoreKids ==
    {GoodKid, [GoodKid EXCEPT !.type = "STP", !.qty = 2], [GoodKid EXCEPT !.side = "BUY"],
     [GoodKid EXCEPT !.qty = Absent]}

\* Two sites with one saved login and two pages that get one name.
WebSlug == ("r1" :> "r1") @@ ("r2" :> "r2") @@ ("lo" :> "lo") @@ ("p" :> "s") @@ ("q" :> "s")
WebProfile == ("r1" :> "dir") @@ ("r2" :> "dir") @@ ("lo" :> None)
Page(u, s) == [url |-> u, size |-> s]
WebCrawls ==
    {<< >>, <<Page("p", 2), Page("q", 2)>>, <<Page("q", 2), Page("p", 2), Page("p", 1)>>,
     <<Page("p", 1)>>, <<Page("q", 1), Page("p", 2)>>}

Row(c, l, e, r) == [conid |-> c, ltd |-> l, expires |-> e, root |-> r]
Chain ==
    {Row(1, 1, 2, "ES"), Row(2, 3, 3, "ES"), Row(3, 2, 3, "ES"), Row(4, 0, 0, "ES"),
     Row(6, 0, 2, "ES"), Row(5, 2, 2, "NQ")}
Listing(c, e, u) == [conid |-> c, exchange |-> e, us |-> u]
Listed ==
    {Listing(11, "BATS", TRUE), Listing(12, "NYSE", TRUE), Listing(13, "MEXI", FALSE),
     Listing(14, "MEXI", FALSE), Listing(0, "NYSE", TRUE)}

Condition(v) == [operator |-> ">=", value |-> v]
PhoneAlerts ==
    {[name |-> "m", tif |-> "GTC", expire |-> None, conds |-> <<Condition(10)>>, active |-> TRUE],
     [name |-> "n", tif |-> "GTD", expire |-> "e", conds |-> <<Condition(10), Condition(20)>>, active |-> FALSE]}
TwoSizes == {Coarse, Fine}
===============================================================================
