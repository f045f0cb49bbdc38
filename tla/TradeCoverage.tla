---------------------------- MODULE TradeCoverage -----------------------------
(***************************************************************************)
(* The activity report over the stored trades and its staleness flag       *)
(* (store.py get_trade_date_coverage), while days pass, fills are captured *)
(* live or missed, and statements, which end the day before, are imported. *)
(* The report reads every row; the flag, only what a statement settled.    *)
(***************************************************************************)
EXTENDS Integers, FiniteSets, FiniteSetsExt

CONSTANTS
    None,
    TradingDays,  \* the exchange calendar
    MaxDay,       \* bound: days
    Threshold     \* gap_threshold_days

VARIABLES
    clock,      \* [day, closed]: whether the market of the day has closed
    fills,      \* days on which the account traded
    rows,       \* the trades table: [day, form], form "iso", "compact" or "other"
    dataset,    \* flex_trade: None, or the days of its rows, by source
    report      \* the last report

vars == <<clock, fills, rows, dataset, report>>

NoReport == [gaps |-> {}, known |-> {}, stale |-> None, due |-> FALSE]

Init ==
    /\ clock = [day |-> 1, closed |-> FALSE] /\ fills = {} /\ rows = {}
    /\ dataset \in {None, [flex |-> {}, live |-> {}]} /\ report = NoReport

TypeOK ==
    /\ clock.day \in 1..MaxDay /\ clock.closed \in BOOLEAN /\ fills \subseteq TradingDays
    /\ rows \subseteq [day : TradingDays, form : {"iso", "compact", "other"}]
    /\ dataset # None => dataset.flex \cup dataset.live \subseteq fills
    /\ report.stale \in {None, TRUE, FALSE}

\* _TRADE_DATE_SQL: both forms of a time; any other has no date.
DaysOf(table) == {r.day : r \in {x \in table : x.form # "other"}}

\* Mutant: a fill that is not settled counts.
SettledNewestAny == Max(dataset.flex \cup dataset.live \cup {0})

\* _settled_newest_date: of a statement's rows; 0 when there is none.
SettledNewest == Max(dataset.flex \cup {0})

Closes == {d \in TradingDays : d < clock.day \/ (d = clock.day /\ clock.closed)}
LastTradingDay == Max(Closes)
Penultimate == Max({d \in TradingDays : d < LastTradingDay})

Gaps(days) ==
    {gap \in days \X days :
        gap[2] - gap[1] > Threshold /\ \A d \in days : d <= gap[1] \/ d >= gap[2]}

\* Two trading days behind; without a calendar, more than two days.
Behind(settled, calendar) ==
    IF calendar THEN settled < Penultimate ELSE clock.day - settled > 2

Stale(calendar) ==
    IF dataset = None THEN Behind(Max(DaysOf(rows)), calendar)
    ELSE SettledNewest = 0 \/ Behind(SettledNewest, calendar)

(* Witnesses for the properties: a statement is out that would settle a fill *)
(* newer than any settled one and two trading days old; days with a row.     *)
Due == \E d \in fills : d <= Penultimate /\ \A s \in dataset.flex : s < d
Known == {d \in TradingDays : \E r \in rows : r.day = d /\ r.form \in {"iso", "compact"}}

\* get_trade_date_coverage.
Coverage ==
    /\ Cardinality(Closes) >= 2
    /\ \E calendar \in BOOLEAN :
         report' = IF DaysOf(rows) = {} THEN NoReport
                   ELSE [gaps |-> Gaps(DaysOf(rows)), known |-> Known, stale |-> Stale(calendar),
                         due |-> calendar /\ dataset # None /\ Due]
    /\ UNCHANGED <<clock, fills, rows, dataset>>

(********************************* the world *******************************)

Live(form) ==
    /\ rows' = rows \cup {[day |-> clock.day, form |-> form]}
    /\ dataset' = IF dataset = None THEN None ELSE [dataset EXCEPT !.live = @ \cup {clock.day}]

\* A fill, captured by the stream or a tool, or by nobody.
Fill ==
    /\ clock.day \in TradingDays \ fills /\ ~clock.closed /\ fills' = fills \cup {clock.day}
    /\ Live("compact") \/ Live("other") \/ UNCHANGED <<rows, dataset>>
    /\ UNCHANGED <<clock, report>>

\* A statement holds the fills of its period, up to the day before, and settles them.
Import ==
    /\ \E from \in TradingDays :
         LET out == {d \in fills : from <= d /\ d < clock.day}
             old == IF dataset = None THEN [flex |-> {}, live |-> {}] ELSE dataset
         IN  /\ out # {}
             /\ rows' = rows \cup {[day |-> d, form |-> "iso"] : d \in out}
             /\ dataset' = [flex |-> old.flex \cup out, live |-> old.live \ out]
    /\ UNCHANGED <<clock, fills, report>>

\* A rebuild that finds no statement.
Emptied ==
    /\ dataset # None /\ dataset' = [flex |-> {}, live |-> {}]
    /\ UNCHANGED <<clock, fills, rows, report>>

TimePasses ==
    /\ clock' = IF clock.closed THEN [day |-> clock.day + 1, closed |-> FALSE] ELSE [clock EXCEPT !.closed = TRUE]
    /\ clock'.day <= MaxDay
    /\ UNCHANGED <<fills, rows, dataset, report>>

Next == Coverage \/ Fill \/ Import \/ Emptied \/ TimePasses
Spec == Init /\ [][Next]_vars

(******************************** properties *******************************)

(* GapsAreEmpty: a reported gap holds no trade that is stored, whoever      *)
(* stored it in whatever form of its time, so that the window to request is *)
(* missing as a whole; and every such window is reported                    *)
(* (get_trade_date_coverage: "a fabricated gap").                           *)
GapsAreEmpty ==
    report.stale # None =>
        report.gaps = {gap \in report.known \X report.known :
            gap[2] > gap[1] + Threshold /\ \A d \in gap[1] + 1 .. gap[2] - 1 : d \notin report.known}

(* DueIsStale: the dataset is not called current while a statement is out   *)
(* that would settle a fill newer than all that is settled and two trading  *)
(* days old, even if the fill itself is stored (get_trade_date_coverage).   *)
DueIsStale == report.due => report.stale
=============================================================================
