------------------------------- MODULE ToolDesk -------------------------------
(***************************************************************************)
(* The services behind the tools: nine modules that share no state, so     *)
(* that a behaviour of all of them is a behaviour of each.  The first      *)
(* state chooses the one that moves; the others stay where they begin.     *)
(***************************************************************************)
EXTENDS Integers, Sequences, TLC

CONSTANTS
    None,
    Conids, Entitled, MaxPolls, MaxSessionCalls, MaxEvents,         \* GatewaySession
    BarSizes, Lookbacks, Span, Cap, MaxChunks, MaxWidenings,        \* MarketHistory
    Attempts, MaxEmpty, MaxFetches, PageSize, Held, MaxPages,
    Parents, Kids, More, MaxLots, MaxModifies,                      \* BracketLife
    Restated,
    Platforms, Sides, MaxDialogs,                                   \* ConfirmDialog
    Callers, Archivers, Roots, Private, Pages, Slug, Profile,       \* WebArchive
    Crawls, MaxAge, MaxTime, MaxWebCalls,
    DataBars, MaxRuns,                                              \* BacktestRun
    Futures, Listings, MaxRows, MaxContractDay, MaxContractCalls,   \* ContractChoice
    Ids, Names, Expiries, Prices, Operators, Phoned,                \* ServerAlerts
    MaxTries, MaxAlertCalls, MaxEdits,
    TradingDays, LastDay, Threshold                                 \* TradeCoverage

VARIABLES
    part,   \* the service that moves
    docker, container, gw, warm, book, sessionTraded, startup, read, sessionAnswer, sessionCalls, events,
    historyTraded, walk, stored, historySaid, pages, empty, fetches,
    pair, screen, entries, problems, lots, fill, size, change, modifies,
    dialogCall, proc, banner, presses, verdict, shows,
    job, holder, files, index, webSaid, now, webCalls,
    caller, child, pipe, dog, received, fired, result, saved, runs,
    today, contractCall, contractAnswer, contractCalls,
    alerts, alertsCall, says, alertsCalls, edits,
    clock, fills, rows, dataset, report

sessionState == <<docker, container, gw, warm, book, sessionTraded, startup, read, sessionAnswer, sessionCalls, events>>
historyState == <<historyTraded, walk, stored, historySaid, pages, empty, fetches>>
bracketState == <<pair, screen, entries, problems, lots, fill, size, change, modifies>>
dialogState == <<dialogCall, proc, banner, presses, verdict, shows>>
webState == <<job, holder, files, index, webSaid, now, webCalls>>
backtestState == <<caller, child, pipe, dog, received, fired, result, saved, runs>>
contractState == <<today, contractCall, contractAnswer, contractCalls>>
alertsState == <<alerts, alertsCall, says, alertsCalls, edits>>
coverageState == <<clock, fills, rows, dataset, report>>

S == INSTANCE GatewaySession WITH
    MaxCalls <- MaxSessionCalls, traded <- sessionTraded, answer <- sessionAnswer, calls <- sessionCalls
H == INSTANCE MarketHistory WITH
    Bars <- BarSizes, traded <- historyTraded, said <- historySaid
B == INSTANCE BracketLife
D == INSTANCE ConfirmDialog WITH call <- dialogCall
W == INSTANCE WebArchive WITH MaxCalls <- MaxWebCalls, said <- webSaid, calls <- webCalls
T == INSTANCE BacktestRun WITH Bars <- DataBars
C == INSTANCE ContractChoice WITH
    MaxDay <- MaxContractDay, MaxCalls <- MaxContractCalls,
    call <- contractCall, answer <- contractAnswer, calls <- contractCalls
A == INSTANCE ServerAlerts WITH MaxCalls <- MaxAlertCalls, call <- alertsCall, calls <- alertsCalls
V == INSTANCE TradeCoverage WITH MaxDay <- LastDay

\* What the proofs need to know of the values.
ASSUME HistoryAssumption ==
    /\ \A b \in BarSizes : b.perDay \in Nat \ {0} /\ b.step \in Nat \ {0}
    /\ \A d \in Lookbacks : d \in Nat
    /\ Span \in Nat /\ Cap \in Nat \ {0} /\ PageSize \in Nat \ {0} /\ MaxWidenings \in Nat
    /\ None \notin {"fetched", "hit", "positions"}
ASSUME BracketAssumption ==
    /\ MaxLots \in Nat
    /\ \A p \in Parents : p.qty \in Int
    /\ \A k \in Kids \cup More : k.qty \in Int
ASSUME DialogAssumption == None \notin {"confirmed", "CONFIRMED", "CANCEL", "MODIFY", "BUY", "SELL"}
ASSUME WebAssumption ==
    /\ None \notin Callers /\ Roots \subseteq DOMAIN Profile
    /\ Crawls \subseteq Seq([url : Pages, size : 0..2])
ASSUME BacktestAssumption ==
    /\ None \notin T!Answers /\ None \notin {"timed_out", "exited"}
    /\ DataBars \in Nat
ASSUME ContractAssumption ==
    /\ None \notin {"root", "chain", "stock", "pair", "other", "contract"}
    /\ \A r \in Futures : r.ltd \in Nat /\ r.expires \in Nat /\ r.conid # 0
    /\ \A r, s \in Futures : r.conid = s.conid => r = s
ASSUME AlertsAssumption ==
    /\ 0 \notin Ids
    /\ \A a \in Phoned :
         /\ A!IsAlert(a) /\ DOMAIN a = {"name", "tif", "expire", "conds", "active"}
         /\ a.conds \in Seq(A!Conditions) /\ a.conds # << >>
         /\ a.tif = "GTD" => a.expire # None
ASSUME BoundsAssumption ==
    /\ MaxPolls \in Nat /\ MaxEvents \in Nat /\ Attempts \in Nat /\ Held \in Nat /\ MaxPages \in Nat
    /\ MaxModifies \in Nat /\ MaxDialogs \in Nat /\ MaxTime \in Nat /\ MaxWebCalls \in Nat
    /\ MaxRuns \in Nat /\ MaxContractCalls \in Nat
    /\ MaxChunks \in Nat \ {0} /\ MaxContractDay \in Nat \ {0} /\ LastDay \in Nat \ {0}
ASSUME CoverageAssumption == TradingDays \subseteq Nat \ {0} /\ Threshold \in Int

Parts == {"session", "history", "bracket", "dialog", "web", "backtest", "contract", "alerts", "coverage"}

Init ==
    /\ part \in Parts
    /\ S!Init /\ H!Init /\ B!Init /\ D!Init /\ W!Init /\ T!Init /\ C!Init /\ A!Init /\ V!Init
    /\ part # "history" => historyTraded = {}
    /\ part # "coverage" => dataset = None
    /\ part # "session" => container = "absent"

Next ==
    \/ /\ part = "session" /\ S!Next
       /\ UNCHANGED <<part, historyState, bracketState, dialogState, webState, backtestState, contractState, alertsState, coverageState>>
    \/ /\ part = "history" /\ H!Next
       /\ UNCHANGED <<part, sessionState, bracketState, dialogState, webState, backtestState, contractState, alertsState, coverageState>>
    \/ /\ part = "bracket" /\ B!Next
       /\ UNCHANGED <<part, sessionState, historyState, dialogState, webState, backtestState, contractState, alertsState, coverageState>>
    \/ /\ part = "dialog" /\ D!Next
       /\ UNCHANGED <<part, sessionState, historyState, bracketState, webState, backtestState, contractState, alertsState, coverageState>>
    \/ /\ part = "web" /\ W!Next
       /\ UNCHANGED <<part, sessionState, historyState, bracketState, dialogState, backtestState, contractState, alertsState, coverageState>>
    \/ /\ part = "backtest" /\ T!Next
       /\ UNCHANGED <<part, sessionState, historyState, bracketState, dialogState, webState, contractState, alertsState, coverageState>>
    \/ /\ part = "contract" /\ C!Next
       /\ UNCHANGED <<part, sessionState, historyState, bracketState, dialogState, webState, backtestState, alertsState, coverageState>>
    \/ /\ part = "alerts" /\ A!Next
       /\ UNCHANGED <<part, sessionState, historyState, bracketState, dialogState, webState, backtestState, contractState, coverageState>>
    \/ /\ part = "coverage" /\ V!Next
       /\ UNCHANGED <<part, sessionState, historyState, bracketState, dialogState, webState, backtestState, contractState, alertsState>>

everything == <<part, sessionState, historyState, bracketState, dialogState, webState, backtestState, contractState, alertsState, coverageState>>
Fairness ==
    /\ S!Fairness /\ H!Fairness /\ D!Fairness /\ W!Fairness /\ T!Fairness /\ C!Fairness /\ A!Fairness
Spec == Init /\ [][Next]_everything /\ Fairness

TypeOK ==
    /\ part \in Parts
    /\ S!TypeOK /\ H!TypeOK /\ B!TypeOK /\ D!TypeOK /\ W!TypeOK /\ T!TypeOK /\ C!TypeOK /\ A!TypeOK /\ V!TypeOK

(* CallsEnd: a call of a tool ends, or comes to a Docker command, a key to  *)
(* be pressed or the keychain, whatever the gateway, a browser, a dialog or *)
(* a strategy does or fails to do.                                          *)
Busy == S!Busy \/ H!Busy \/ D!Busy \/ W!Busy \/ T!Busy \/ C!Busy \/ A!Busy
CallsEnd == Busy ~> ~Busy

(* SessionKept: a startup never ends a session that is authenticated, even  *)
(* when the gateway's first status says there is none ("A RUNNING container *)
(* is left alone", GatewayManager.startup), unless docker inspect failed to *)
(* see the container that runs.                                             *)
SessionKept == S!SessionKept

(* AnswersAreTrue: what a read tells of orders, trades and the session is   *)
(* so, and a contract with a market data subscription is called "Not        *)
(* Subscribed" at most beside one that had a price (get_live_orders,        *)
(* get_trades, ping, _get_market_snapshot).                                 *)
AnswersAreTrue == S!EmptyMeansNone /\ S!NotSubscribedIsTrue

(* NothingLost: what is given out, or kept, without a warning holds every   *)
(* bar of the lookback asked for, whatever the sizes of the answers and the *)
(* holes in trading, back to the first hole that widening does not bridge,  *)
(* and every position, as long as no answer was empty or refused            *)
(* (get_market_history_paginated: "cannot lose data", get_all_positions).   *)
NothingLost == H!NothingLost

(* BracketAsShown: a bracket is refused alike before and behind Touch ID,   *)
(* is on the screen with every leg, and is called good only if every leg is *)
(* attached (_bracket_tickets, confirm_bracket_dialog,                      *)
(* pair_bracket_response).                                                  *)
BracketAsShown == B!RulesAgree /\ B!EveryLegShown /\ B!OkMeansAttached

(* WithinFillRead: however the parent fills while the dialog waits, a       *)
(* modify makes a child larger than the fill only where the dialog said     *)
(* that this was not checked, or where the parent had filled nothing when   *)
(* it was read (_refuse_child_larger_than_parent_fill).                     *)
WithinFillRead == B!WithinFillRead

(* DialogHonest: a yes of Gate 2 is the human's last word, and the banner   *)
(* over it names the act (_show_confirm_dialog, _banner).                   *)
DialogHonest == D!DialogHonest

(* OneBrowserPerProfile: no two browsers have one login profile open, by    *)
(* whatever URLs of however many hosts they came to it (_profile_in_use).   *)
OneBrowserPerProfile == W!OneBrowserPerProfile

(* SavedIsArchived: a crawl that is reported as saved has every page that   *)
(* it brought in the archive, each once, under a manifest entry that names  *)
(* the file with that page as it was just crawled, whatever earlier and     *)
(* failed crawls of the site left behind (save_crawl).                      *)
SavedIsArchived == W!SavedIsArchived

(* BacktestTrue: a backtest answers with what its child delivered, leaves   *)
(* no child behind, and its trades are the runs of the signal               *)
(* (run_backtest, _segment_trades).                                         *)
BacktestTrue == T!AnswerWins /\ T!TradesAreRuns

(* RightContract: a symbol means a contract that still trades; a bare       *)
(* ticker means its only listing in the United States, and one with an      *)
(* exchange the first listing that the gateway names on it, of however many *)
(* (_resolve_snapshot_conid, _resolve_stock_conid,                          *)
(* _sorted_with_front_month).                                               *)
RightContract == C!FrontMonthTrades /\ C!ListingAsked

(* PatchesKeepAlerts: a modify changes what its patch names and nothing     *)
(* else, and no sequence of them leaves a GTD alert without a date          *)
(* (_modify_price_alert).                                                   *)
PatchesKeepAlerts == A!ModifyPatches /\ []A!GtdHasExpiry

(* CoverageTrue: a gap in the report is one, and what is overdue is flagged *)
(* (get_trade_date_coverage).                                               *)
CoverageTrue == V!GapsAreEmpty /\ V!DueIsStale
===============================================================================
