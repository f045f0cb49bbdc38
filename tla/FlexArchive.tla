----------------------------- MODULE FlexArchive -----------------------------
(***************************************************************************)
(* The trade archive: Flex statements fetched from IBKR or read from       *)
(* files, stored in SQLite and archived on Drive (flex_query.py,           *)
(* flex_import.py, flex_store.py, store.py, cache.py), the tools over it   *)
(* (claude_tools.py) and the scripts that rebuild it (scripts/).           *)
(*                                                                         *)
(* Two tables hold trades.  "trades" is keyed by tradeID for statements    *)
(* and by execId for live fills; "flex_trade" by the execution id for      *)
(* both.  Other elements of a statement (lots) have a content key.  A      *)
(* transaction of SQLite is one step; so is a request to IBKR or Drive.    *)
(* The server works on one call at a time; a script and the stream run     *)
(* beside it.                                                              *)
(***************************************************************************)
EXTENDS Integers, FiniteSets

CONSTANTS
    Docs,       \* the documents there can be: statements and other answers
    Fills,      \* live fills the Client Portal reports
    Lots,       \* contents of a Lot element
    None,       \* no value: NULL, a missing attribute, nothing under way
    MaxPolls,   \* _MAX_POLL_RETRIES
    MaxCalls,   \* bound: tool calls and scripts started
    MaxFails,   \* bound: failed uploads, failed log entries and crashes
    MaxEdits    \* bound: files the user puts or replaces on Drive

Manual(d) == d.source = "manual"
ExecKey(e) == <<"exec", e>>
TradeKey(t) == <<"tid", t>>

\* execution_key_for: what the two views of a fill share, else the tradeID.
KeyOf(r) == IF r.exec # None THEN ExecKey(r.exec) ELSE TradeKey(r.tid)

(* A document: its name on Drive, the root element, whenGenerated and       *)
(* fromDate, whether an attribute is unknown to the schema, its Trade rows  *)
(* and how often each Lot occurs.  A row that is not ok lacks a symbol, a   *)
(* side or a date.                                                          *)
ASSUME FlexConstants ==
    /\ MaxPolls \in Nat \ {0} /\ MaxCalls \in Nat /\ MaxFails \in Nat /\ MaxEdits \in Nat
    /\ \A d \in Docs :
        /\ d.name \in Nat /\ d.when \in Nat \ {0} /\ d.from \in Nat
        /\ d.kind \in {"statement", "response", "broken"}
        /\ d.source \in {"manual", "auto"} /\ d.drift \in BOOLEAN
        /\ d.lots \in [Lots -> Nat]
        /\ d.kind # "statement" => d.trades = {} /\ \A l \in Lots : d.lots[l] = 0
        /\ IsFiniteSet(d.trades)
        /\ \A r, s \in d.trades : KeyOf(r) = KeyOf(s) => r = s
        /\ \A r, s \in d.trades : r.tid = s.tid /\ r.tid # None => r = s
    /\ \A d, e \in Docs : d.name = e.name => d = e

VARIABLES
    trades,      \* table trades
    flexTrade,   \* table flex_trade
    lots,        \* table flex_lot: (content, occurrence)
    stored,      \* history: statements stored in full since the last drop
    drive,       \* account_data/ on Drive: name -> document
    log,         \* flex_import_log: name -> entry
    local,       \* the local copy the scripts work on: name -> document
    srv,         \* the server's call
    script,      \* the script that runs
    report,      \* the last answer of verify_flex_import
    calls, fails, edits

db == <<trades, flexTrade, lots, stored>>
count == <<calls, fails, edits>>
vars == <<db, drive, log, local, srv, script, report, count>>

Entries(f) == {f[n] : n \in DOMAIN f}
First(names) == CHOOSE n \in names : \A m \in names : n <= m
Set(f, n, v) == [m \in DOMAIN f \cup {n} |-> IF m = n THEN v ELSE f[m]]

Ops == {"fetch", "archive", "import", "verify", "live"}
Steps == {"idle", "send", "poll", "next", "trades", "full", "upload", "log", "check",
          "live trades", "live flex"}

\* files: what was downloaded and is still to be handled.  ids, seen, issues
\* and late belong to verify: execution ids in the table when it began, tradeIDs
\* found in files, whether a file was not in order.
Call == [at : Steps, op : Ops \cup {None}, doc : Docs \cup {None}, polls : 0..MaxPolls]
Idle == [at |-> "idle", op |-> None, doc |-> None, polls |-> 0, files |-> <<>>,
         ids |-> {}, seen |-> {}, issues |-> FALSE]
NoScript == [at |-> "idle", todo |-> {}, drop |-> FALSE]

Init ==
    /\ trades = <<>> /\ flexTrade = <<>> /\ lots = {} /\ stored = {}
    /\ drive = <<>> /\ log = <<>> /\ local = <<>>
    /\ srv = Idle /\ script = NoScript
    /\ report = [result |-> None, missing |-> {}]
    /\ calls = 0 /\ fails = 0 /\ edits = 0

(***************************** reading a document **************************)

\* _parse_trades skips a row without tradeID, symbol, side or date ...
ValidTrades(d) == {r \in d.trades : r.tid # None /\ r.ok}

\* ... and raises when more than a fifth was skipped.
Corrupt(d) == 5 * Cardinality(d.trades \ ValidTrades(d)) > Cardinality(d.trades)

ParseRaises(d) == d.kind = "broken" \/ Corrupt(d)

\* extract_execution_ids reads the tradeID of every row, valid or not.
TradeIds(d) == {TradeKey(r.tid) : r \in {x \in d.trades : x.tid # None}}

\* parse_statement refuses what is not a statement, an unknown attribute, and
\* a Trade without any id.
Refused(d) == \/ d.kind # "statement"
              \/ d.drift
              \/ \E r \in d.trades : r.exec = None /\ r.tid = None

FlexKeys(d) == {KeyOf(r) : r \in d.trades}
RowAt(d, k) == CHOOSE r \in d.trades : KeyOf(r) = k
FlexRow(d, k) == [tid |-> RowAt(d, k).tid, pnl |-> RowAt(d, k).pnl, when |-> d.when]
LotRows(d) == UNION {{l} \X (1..d.lots[l]) : l \in Lots}

(******************************* the two tables ****************************)

\* Mutant: P&L is overwritten like the price.
MergedTradeLatest(old, new) == [new EXCEPT !.first = old.first]

\* upsert_trades: price (and commission) of the newcomer, asset class and
\* P&L unless it has none, everything else as first seen.
MergedTrade(old, new) ==
    [first |-> old.first, price |-> new.price,
     pnl |-> IF new.pnl = None THEN old.pnl ELSE new.pnl]

UpsertTrades(rows) ==
    trades' = [k \in DOMAIN trades \cup DOMAIN rows |->
                 IF k \notin DOMAIN rows THEN trades[k]
                 ELSE IF k \in DOMAIN trades THEN MergedTrade(trades[k], rows[k])
                 ELSE rows[k]]

StatementRows(d) ==
    [k \in {TradeKey(r.tid) : r \in ValidTrades(d)} |->
        LET r == CHOOSE x \in ValidTrades(d) : TradeKey(x.tid) = k
        IN  [first |-> d.when, price |-> r.price, pnl |-> r.pnl]]

LiveRows(fills) == [k \in {ExecKey(e) : e \in fills} |-> [first |-> 0, price |-> 0, pnl |-> None]]

\* Mutant: the last import wins.
ReplacesAlways(new, old) == TRUE

\* upsert_flex_rows: a later-generated statement wins; when is 0 (NULL) in a
\* live row, which therefore never replaces another.
Replaces(new, old) == new.when # 0 /\ new.when >= old.when

UpsertFlex(rows) ==
    flexTrade' = [k \in DOMAIN flexTrade \cup DOMAIN rows |->
                    IF /\ k \in DOMAIN rows
                       /\ k \in DOMAIN flexTrade => Replaces(rows[k], flexTrade[k])
                    THEN rows[k] ELSE flexTrade[k]]

\* The unique index on trade_id: two keys claim one tradeID.
Conflict(d) ==
    \E k \in FlexKeys(d), m \in DOMAIN flexTrade :
        k # m /\ RowAt(d, k).tid # None /\ flexTrade[m].tid = RowAt(d, k).tid

\* upsert_flex_statement: one transaction.
StoreStatement(d) ==
    /\ UpsertFlex([k \in FlexKeys(d) |-> FlexRow(d, k)])
    /\ lots' = lots \cup LotRows(d)
    /\ stored' = stored \cup {d}

(******************************** one call *********************************)

Going(at) == srv' = [srv EXCEPT !.at = at]
Return == srv' = Idle
Start(op, at, doc, files) ==
    /\ srv.at = "idle" /\ calls < MaxCalls
    /\ srv' = [Idle EXCEPT !.op = op, !.at = at, !.doc = doc, !.files = files]
    /\ calls' = calls + 1
    /\ UNCHANGED <<db, drive, log, local, script, report, fails, edits>>

BeginFetch == Start("fetch", "send", None, <<>>)
BeginArchive == Start("archive", "next", None, drive)
BeginImport == \E d \in Docs : Start("import", "trades", d, <<>>)
BeginLive == Start("live", "live trades", None, <<>>)

BeginVerify ==
    /\ srv.at = "idle" /\ calls < MaxCalls /\ drive # <<>>
    /\ srv' = [Idle EXCEPT !.op = "verify", !.at = "check", !.files = drive, !.ids = DOMAIN trades]
    /\ calls' = calls + 1
    /\ UNCHANGED <<db, drive, log, local, script, report, fails, edits>>

\* _send_request: a reference code for one statement, or an error.
SendRequest ==
    /\ srv.at = "send"
    /\ \/ Return
       \/ \E d \in Docs : ~Manual(d) /\ srv' = [srv EXCEPT !.at = "poll", !.doc = d]
    /\ UNCHANGED <<db, drive, log, local, script, report, count>>

\* Mutant: the number of attempts is not limited.
GeneratingForEver == srv' = [srv EXCEPT !.polls = @ + 1]

\* _get_statement: not ready yet, an error, a document without a statement,
\* or the statement.
Generating ==
    IF srv.polls < MaxPolls - 1 THEN srv' = [srv EXCEPT !.polls = @ + 1] ELSE Return

\* Mutant: the statement is archived before it is stored.
PollArchivingFirst ==
    /\ srv.at = "poll"
    /\ Generating \/ Return \/ (srv.doc.kind = "statement" /\ Going("upload"))
    /\ UNCHANGED <<db, drive, log, local, script, report, count>>

Poll ==
    /\ srv.at = "poll"
    /\ \/ Generating
       \/ Return
       \/ srv.doc.kind = "statement" /\ Going("trades")
    /\ UNCHANGED <<db, drive, log, local, script, report, count>>

\* Mutant: a file stays on the list when it is taken from it.
NextFileKept ==
    /\ srv.at = "next"
    /\ IF srv.files = <<>> THEN Return
       ELSE srv' = [srv EXCEPT !.at = "trades", !.doc = srv.files[First(DOMAIN srv.files)]]
    /\ UNCHANGED <<db, drive, log, local, script, report, count>>

\* sync_archive_from_drive: the files in the order of their names.
NextFile ==
    /\ srv.at = "next"
    /\ IF srv.files = <<>> THEN Return
       ELSE LET n == First(DOMAIN srv.files)
            IN  srv' = [srv EXCEPT !.at = "trades", !.doc = srv.files[n],
                                   !.files = [m \in DOMAIN @ \ {n} |-> @[m]]]
    /\ UNCHANGED <<db, drive, log, local, script, report, count>>

\* _parse_trades and upsert_trades; an error ends the whole call.
StoreTrades ==
    /\ srv.at = "trades"
    /\ IF ParseRaises(srv.doc) THEN Return /\ UNCHANGED trades
       ELSE UpsertTrades(StatementRows(srv.doc)) /\ Going("full")
    /\ UNCHANGED <<flexTrade, lots, stored, drive, log, local, script, report, count>>

AfterFull == CASE srv.op = "fetch" -> Going("upload")
               [] srv.op = "archive" -> Going("next")
               [] OTHER -> Return

\* _store_full_statement: a failure is kept in last_archive_result only.
StoreFull ==
    /\ srv.at = "full"
    /\ IF Refused(srv.doc) \/ Conflict(srv.doc) THEN UNCHANGED <<flexTrade, lots, stored>>
       ELSE StoreStatement(srv.doc)
    /\ AfterFull
    /\ UNCHANGED <<trades, drive, log, local, script, report, count>>

\* _archive_and_log: an error of either step is swallowed by fetch_trades.
Upload ==
    /\ srv.at = "upload"
    /\ \/ drive' = Set(drive, srv.doc.name, srv.doc) /\ Going("log") /\ UNCHANGED fails
       \/ fails < MaxFails /\ fails' = fails + 1 /\ Return /\ UNCHANGED drive
    /\ UNCHANGED <<db, log, local, script, report, calls, edits>>

Logged(n, d, source) == log' = Set(log, n, [sha |-> d, source |-> source])

WriteLog ==
    /\ srv.at = "log"
    /\ \/ Logged(srv.doc.name, srv.doc, "auto") /\ UNCHANGED fails
       \/ fails < MaxFails /\ fails' = fails + 1 /\ UNCHANGED log
    /\ Return
    /\ UNCHANGED <<db, drive, local, script, report, calls, edits>>

\* get_trades, source "live": two transactions, each error only noted.
LiveTrades ==
    /\ srv.at = "live trades"
    /\ \/ UpsertTrades(LiveRows(Fills)) /\ UNCHANGED fails
       \/ fails < MaxFails /\ fails' = fails + 1 /\ UNCHANGED trades
    /\ Going("live flex")
    /\ UNCHANGED <<flexTrade, lots, stored, drive, log, local, script, report, calls, edits>>

LiveFlex ==
    /\ srv.at = "live flex"
    /\ \/ UpsertFlex([k \in {ExecKey(e) : e \in Fills} |->
                         [tid |-> None, pnl |-> None, when |-> 0]]) /\ UNCHANGED fails
       \/ fails < MaxFails /\ fails' = fails + 1 /\ UNCHANGED flexTrade
    /\ Return
    /\ UNCHANGED <<trades, lots, stored, drive, log, local, script, report, calls, edits>>

\* run_stream, topic "trades": the fill goes into the table trades only.
StreamFill ==
    /\ calls < MaxCalls /\ calls' = calls + 1
    /\ \E e \in Fills : UpsertTrades(LiveRows({e}))
    /\ UNCHANGED <<flexTrade, lots, stored, drive, log, local, srv, script, report, fails, edits>>

\* verify_flex_import, one file.  A manual file is registered unread; the hash
\* of an automatic one vouches for it; else its tradeIDs are looked up.
VerifyFile ==
    /\ srv.at = "check" /\ srv.files # <<>>
    /\ LET n == First(DOMAIN srv.files)
           d == srv.files[n]
           unread == d.kind = "broken"
           manual == \E x \in Docs : x.name = n /\ Manual(x)
           known == n \in DOMAIN log /\ log[n].sha = d
           absent == TradeIds(d) \ srv.ids
       IN  /\ srv' = [srv EXCEPT
                        !.files = [m \in DOMAIN @ \ {n} |-> @[m]],
                        !.seen = IF unread THEN @ ELSE @ \cup TradeIds(d),
                        !.issues = @ \/ unread \/ (~manual /\ ~known /\ absent # {})]
           /\ CASE unread -> UNCHANGED log
                [] ~unread /\ manual ->
                     IF n \in DOMAIN log THEN UNCHANGED log ELSE Logged(n, d, "manual")
                [] OTHER ->
                     IF known \/ absent # {} THEN UNCHANGED log
                     ELSE Logged(n, d, IF n \in DOMAIN log THEN log[n].source ELSE "auto")
    /\ UNCHANGED <<db, drive, local, script, report, count>>

VerifyReport ==
    /\ srv.at = "check" /\ srv.files = <<>>
    /\ report' = [result |-> IF srv.issues THEN "import again" ELSE "all present",
                  missing |-> srv.seen \ srv.ids]
    /\ Return
    /\ UNCHANGED <<db, drive, log, local, script, count>>

(********************************* scripts *********************************)

\* fetch_flex_archive: every statement on Drive that has no local copy yet, or
\* all of them when forced; what is not a statement stays out.
FetchArchive ==
    /\ script.at = "idle" /\ calls < MaxCalls /\ drive # <<>> /\ calls' = calls + 1
    /\ \E force \in BOOLEAN :
        LET kept(n) == n \in DOMAIN local /\ ~force
            good == {n \in DOMAIN drive : drive[n].kind = "statement" /\ ~kept(n)}
        IN  local' = [n \in DOMAIN local \cup good |-> IF n \in good THEN drive[n] ELSE local[n]]
    /\ UNCHANGED <<db, drive, log, srv, script, report, fails, edits>>

\* check_preflight: an empty archive, a file that cannot be parsed, or live
\* rows that no statement can restore stop the rebuild before anything is lost.
LiveKeys == {k \in DOMAIN flexTrade : flexTrade[k].when = 0}
Rebuildable(drop, dropLive) ==
    /\ local # <<>>
    /\ \A d \in Entries(local) : ~Refused(d)
    /\ drop /\ ~dropLive => LiveKeys = {}

Preflight ==
    /\ script.at = "idle" /\ calls < MaxCalls /\ calls' = calls + 1
    /\ \E drop, dropLive \in BOOLEAN :
        /\ Rebuildable(drop, dropLive)
        /\ script' = [at |-> IF drop THEN "drop" ELSE "load", todo |-> Entries(local), drop |-> drop]
    /\ UNCHANGED <<db, drive, log, local, srv, report, fails, edits>>

DropTables ==
    /\ script.at = "drop"
    /\ flexTrade' = <<>> /\ lots' = {} /\ stored' = {}
    /\ script' = [script EXCEPT !.at = "load"]
    /\ UNCHANGED <<trades, drive, log, local, srv, report, count>>

Before(d, e) == d.from < e.from \/ (d.from = e.from /\ d.when <= e.when)

\* One statement and one commit at a time, oldest first.
LoadStatement ==
    /\ script.at = "load"
    /\ IF script.todo = {} THEN script' = NoScript /\ UNCHANGED <<flexTrade, lots, stored>>
       ELSE LET d == CHOOSE x \in script.todo : \A y \in script.todo : Before(x, y)
            IN  IF Conflict(d)
                THEN script' = NoScript /\ UNCHANGED <<flexTrade, lots, stored>>
                ELSE StoreStatement(d) /\ script' = [script EXCEPT !.todo = @ \ {d}]
    /\ UNCHANGED <<trades, drive, log, local, srv, report, count>>

(******************************* environment *******************************)

\* The user files a manual statement, or replaces a file on Drive by another.
UserEdits ==
    /\ edits < MaxEdits /\ edits' = edits + 1
    /\ \E d, name \in Docs :
        /\ \/ Manual(name) /\ d = name
           \/ name.name \in DOMAIN drive
        /\ drive' = Set(drive, name.name, d)
    /\ UNCHANGED <<db, log, local, srv, script, report, calls, fails>>

Crash ==
    /\ fails < MaxFails /\ fails' = fails + 1
    /\ \/ srv.at # "idle" /\ srv' = Idle /\ UNCHANGED script
       \/ script.at # "idle" /\ script' = NoScript /\ UNCHANGED srv
    /\ UNCHANGED <<db, drive, log, local, report, calls, edits>>

ServerStep ==
    \/ SendRequest \/ Poll \/ NextFile \/ StoreTrades \/ StoreFull \/ Upload \/ WriteLog
    \/ LiveTrades \/ LiveFlex \/ VerifyFile \/ VerifyReport
ScriptStep == DropTables \/ LoadStatement
Next ==
    \/ BeginFetch \/ BeginArchive \/ BeginImport \/ BeginLive \/ BeginVerify
    \/ ServerStep \/ StreamFill \/ FetchArchive \/ Preflight \/ ScriptStep
    \/ UserEdits \/ Crash

\* A call and a script that were started go on; nothing makes a user start one.
Spec == Init /\ [][Next]_vars /\ WF_vars(ServerStep) /\ WF_vars(ScriptStep)

(******************************** properties *******************************)

TypeOK ==
    /\ DOMAIN trades \subseteq {ExecKey(e) : e \in Fills} \cup UNION {TradeIds(d) : d \in Docs}
    /\ \A k \in DOMAIN trades : DOMAIN trades[k] = {"first", "price", "pnl"}
    /\ DOMAIN flexTrade \subseteq {ExecKey(e) : e \in Fills} \cup UNION {FlexKeys(d) : d \in Docs}
    /\ lots \in SUBSET (Lots \X (Nat \ {0})) /\ stored \subseteq Docs
    /\ Entries(drive) \subseteq Docs /\ Entries(local) \subseteq Docs
    /\ DOMAIN log \subseteq {d.name : d \in Docs}
    /\ [at |-> srv.at, op |-> srv.op, doc |-> srv.doc, polls |-> srv.polls] \in Call
    /\ script.at \in {"idle", "drop", "load"} /\ script.todo \subseteq Docs

(* ArchiveIsImports: whatever the order in which statements, older reports  *)
(* and live fills arrive, the flex_* tables are a function of what was      *)
(* stored: a trade is the row of the latest-generated statement that        *)
(* reports it, or a live row if none does, and a Lot occurs as often as in  *)
(* the statement where it occurs most ("import order cannot change the      *)
(* outcome", flex_store.py; _row_uid).                                      *)
ArchiveIsImports ==
    /\ \A k \in DOMAIN flexTrade : flexTrade[k].when # 0 =>
          \E d \in stored : k \in FlexKeys(d) /\ flexTrade[k] = FlexRow(d, k)
    /\ \A d \in stored : \A k \in FlexKeys(d) :
          k \in DOMAIN flexTrade /\ flexTrade[k].when >= d.when
    /\ lots = UNION {LotRows(d) : d \in stored}

(* LoggedIsStored: an entry of the import log made by a sync or by a check  *)
(* stands for trades that are in the table, every one that could be read,   *)
(* and the file it names is on Drive (fetch_trades stores, then archives,   *)
(* then logs; verify_flex_import logs what it has looked up).               *)
LoggedIsStored ==
    \A n \in DOMAIN log :
        /\ n \in DOMAIN drive
        /\ log[n].source = "auto" => DOMAIN StatementRows(log[n].sha) \subseteq DOMAIN trades

(* FirstSeenKept: no order of imports and live fills makes a trade vanish   *)
(* from the table trades, changes what is kept of its first sight (time,    *)
(* size, side), or forgets a P&L that was known (upsert_trades).            *)
FirstSeenKept ==
    [][\A k \in DOMAIN trades :
          /\ k \in DOMAIN trades' /\ trades'[k].first = trades[k].first
          /\ trades[k].pnl # None => trades'[k].pnl # None]_trades

(* EveryCallEnds: a call ends, however long IBKR says that the statement is *)
(* not ready (_get_statement polls _MAX_POLL_RETRIES times).                *)
EveryCallEnds == srv.at # "idle" ~> srv.at = "idle"

(* VerifiedMeansPresent: verify_flex_import says "all source tradeIDs       *)
(* confirmed present in SQLite" only when none is missing.  False: a row    *)
(* that _parse_trades skipped, and a manual file that was never imported,   *)
(* are vouched for without a look.                                          *)
VerifiedMeansPresent == report.result = "all present" => report.missing = {}
=============================================================================
