---------------------------- MODULE MCFlexArchive ----------------------------
(* Instances of FlexArchive for TLC. *)
EXTENDS FlexArchive

Lot1 == {"lot"}
Row(t, e, ok, price, pnl) == [tid |-> t, exec |-> e, ok |-> ok, price |-> price, pnl |-> pnl]
Doc(name, source, when, rows, n) ==
    [name |-> name, when |-> when, from |-> when, kind |-> "statement", source |-> source,
     drift |-> FALSE, trades |-> rows, lots |-> [l \in Lot1 |-> n]]

\* An old statement pulled by hand, where one trade has no execution id; a
\* report of the same trades generated later, without the P&L of one.
Old == Doc(1, "manual", 1, {Row("t1", "a", TRUE, 1, 1), Row("t2", None, TRUE, 1, 2)}, 2)
Late == Doc(2, "auto", 3, {Row("t1", "a", TRUE, 2, None), Row("t3", "b", TRUE, 2, 2)}, 1)
\* Five trades, one of them without a symbol, generated in between.
Holed == Doc(3, "auto", 2, {Row("t1", "a", TRUE, 3, 3), Row("t5", None, FALSE, 0, None)}
                             \cup {Row(t, t, TRUE, 1, None) : t \in {"t6", "t7", "t8"}}, 3)
\* "Statement generation in progress", saved as a file; a new attribute; the
\* trade of Old with the execution id it lacked.
NotReady == [Doc(4, "auto", 4, {}, 0) EXCEPT !.kind = "response"]
Drifted == [Doc(5, "auto", 5, {Row("t1", "a", TRUE, 5, 5)}, 1) EXCEPT !.drift = TRUE]
Second == Doc(6, "auto", 4, {Row("t2", "b", TRUE, 4, None)}, 0)

ManyDocs == {Old, Late, Holed, NotReady, Drifted, Second}
HoledDocs == {Old, Holed}
SomeFills == {"a"}
=============================================================================
