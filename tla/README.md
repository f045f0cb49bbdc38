# Verification of ibkr_core_mcp

TLA+ models of `ibkr_core_mcp`, a Python client of the Interactive Brokers Client Portal gateway with tools
for a language model on top of it, the TLC runs that check them, and TLAPS proofs about them.
`PROJECT.json` lists, for every definition, the lines of the source it stands for, and the hazards the
properties are aimed at. Sources are named relative to `src/ibkr_core_mcp/`.

    tlc -workers 2 -config order_chains.cfg MCOrderWrite      # one run; the .cfg names are those of section 4
    tlapm OrderWriteProofs.tla                                # one proof module

## 1. The system

| part | source | state | operations | talks to |
|---|---|---|---|---|
| order writes | `client.py` 309-378, 2235-2994; `human_auth.py` | call frames, `_accounts_initialized`, one authorization per chain | place, modify, cancel, reply, three `*_and_confirm` chains | Touch ID, dialogs, gateway |
| confirmation dialogs | `order_confirm.py` 828-1299, `_order_dialog.py` | a process per dialog | show, answer, time out, fall back | the human |
| brackets | `client.py` 535-637, 2333-2540, 3028-3179; `order_confirm.py` 543-826 | none | build, disclose, pair the response, refuse an oversized child | order writes |
| retry and pacing | `rate_limiter.py` | one lock, a deque of send times per limit of an endpoint | `with_retry`, `EndpointPacer.acquire` | every request |
| price alerts, streaming | `streaming.py`, `mcp_server.py` 400-525, `store.py` 1000-1062 | alert table, subscriptions, the loop's variables | add an alert, reconcile subscriptions, check a quote, mark, report | gateway WebSocket, SQLite, other processes |
| server-side alerts | `claude_tools.py` 3680-3940, `client.py` | kept by IBKR | create, patch, switch, delete | gateway, the user's phone |
| gateway lifecycle | `gateway/manager.py` | Docker daemon, container, session | start, adopt, wait, restart | Docker, the user's login |
| orders, trades, P&L, snapshots | `client.py` 1571-1905, `claude_tools.py` | what the session has subscribed to | two-call priming, filters, ping | gateway |
| market history, positions | `client.py` 839-1117, 1571-1640 | none | backward windows, widening, pages | gateway, data cache |
| data cache | `cache.py`, four tools of `claude_tools.py` | manifest and files on Drive, a copy of the manifest, the folder id | check, load, save, delete | Drive, other processes |
| trade store, Flex import | `store.py`, `flex_query.py`, `flex_import.py`, `flex_store.py`, `scripts/` | two tables of trades, import log, archive on Drive, local copy | request, poll, upsert, archive, log, sync, verify, rebuild | Flex service, Drive, SQLite |
| activity report | `store.py` 480-660 | none | gaps, staleness flag | trade store |
| contracts | `claude_tools.py` 1491-1560, 3205-3520 | none | front month, listing of a ticker | gateway |
| browser, scraper | `local_browser.py`, `web_scraper.py`, `claude_tools.py` | profile locks, crawled pages and manifests | crawl, fetch, search | web, Drive |
| backtest | `backtest.py` | child process, pipe, watchdog | run, kill, measure, save | the user's strategy |
| tools, MCP server | `claude_tools.py`, `mcp_server.py` | none of their own | dispatch one tool call | everything above |

Hard behaviours: several calls on threads of their own share one client and one gateway session; every call can
stop at any prompt, dialog or request; an answer can be lost after the gateway has processed the request;
the gateway asks questions that must be answered in turn and withdraws them at will; the session and the container
end at any time, and what a session has not subscribed to it answers with nothing; the dict that
a caller handed in can change while the human looks at a dialog; an authorization runs out; threads sleep with a
lock in their hands; a stream reconnects between any two of its steps, and other processes write its tables; documents
reach the archive in any order, some of them damaged, and the process dies between storing and logging one; a dialog
or a strategy is a process that may hang, die or answer at the very moment it is killed.

What makes the parts correct:

* order writes: both human gates precede every write, for exactly what is sent and recently; a write is sent again only after a 503;
  every question is answered or refused; a refusal is final and reaches IBKR; the log tells what happened; every
  call ends; a yes is the human's last word, whatever happened to the dialog;
* brackets: the rules before Touch ID and behind it are the same, every leg is on the screen, "ok" means attached, and no
  child is made larger than its parent's fill once that fill was read;
* pacing: no more requests in a window than allowed unless the caller was warned, and no sleep longer than needed;
* alerts: each fires once, only for a trade, is reported, and fires although nobody watched its contract before; a patch
  changes what it names;
* session and reads: a startup ends no session; "nothing" is said only of nothing; a history has no silent hole;
* data cache: what a tool says was saved or deleted is so on Drive, a name has one file, the manifest lists no file that is not
  there, a deleted folder is found again;
* trade store: the order of imports does not matter, the log is true, nothing known is forgotten, a report is not called
  current when a statement is due;
* contracts, browser, backtest: the contract trades; one browser per login; what is reported as archived is; the
  child's answer wins over the deadline.

## 2. Modules

| module | what it is |
|---|---|
| `OrderWrite` | the order-write methods, their two gates and reply loops, retries, the gateway's questions |
| `TwoGates` | abstract specification of order writes: authorize, show, do |
| `EndpointPacer` | `acquire` and `with_retry` for many threads |
| `AlertStream` | alert table, stream loops, failures |
| `DriveCache` | processes with 60 s old manifests on one folder; check, load, save, delete, failures, the folder lost |
| `FlexArchive` | Flex statements from IBKR or from files: two tables, import log, archive, verify, rebuild scripts, live fills, crashes |
| `BracketLife` | bracket rules twice, the dialog's rows, pairing of the response, resizing of a child against fills |
| `ConfirmDialog` | one call of Gate 2 with the processes it shows dialogs with |
| `GatewaySession` | Docker, container and session; startup and restart; the reads that depend on a session's subscriptions |
| `MarketHistory` | the paginated walk, the tool's retries and its cache, pages of positions |
| `ContractChoice` | front month of a root, flag in a chain, listing of a ticker, currency pair |
| `ServerAlerts` | IBKR's alerts under tools and a phone |
| `TradeCoverage` | activity report and staleness flag while days pass |
| `WebArchive` | crawl, fetch and search, browsers with login profiles, the archive of pages |
| `BacktestRun` | caller, child, pipe, watchdog; trades from signals |
| `ToolDesk` | the last nine services (`BracketLife` to `BacktestRun`) side by side |
| `MC*` | instances for TLC |
| `OrderWriteProofs`, `EndpointPacerProofs`, `AlertProofs`, `DriveProofs`, `FlexProofs` | theorems about the module each is named after |
| `DeskProofs`, `DeskDataProofs`, `DeskTypeProofs` | theorems about the services of `ToolDesk`: first the ones with processes and files, then the ones about data and reports, then the types of all |

`OrderWrite` composes the methods, the human and the gateway in one module since one history relates them; it keeps
of `with_retry` what an order sees of it (retried on 429 and 503 whether or not the request took effect, never after a lost answer) and of a dialog its answer;
`EndpointPacer` models the whole of the one, `ConfirmDialog` of the other, `BracketLife` what the bracket methods do around the gates.
`ToolDesk` instantiates nine services that share no variable: in the code they are objects and functions that meet only in the
gateway, the store and Drive, and none reads another's state. Its first state chooses the one that moves, so that
one run checks each from all its own first states without the product of nine state spaces.

## 3. How the models correspond to the code

### OrderWrite

A call is one invocation of a method on a thread. `call[c]` is its frame: `op` the method, `pc` the point it is
at, `since` when it got there, `scope` what `_order_write_scope` computed, `auth` the `OrderWriteAuthorization`,
`queue`/`latest` the responses the reply loop holds, `answered` the ids `place_bracket_and_confirm` remembers, `log` the
`reply_log`. `ready` is `_accounts_initialized`; `up`, `primed`, `asked` and `raised` belong to the gateway.
`touches`, `confirms` and `wire` are histories: fingerprints, confirmed dialogs, requests the gateway processed.

| actions | code |
|---|---|
| `BeginWrite`, `BeginChain`, `BeginReply` | entry of the seven methods up to their first wait; `_and_confirm` of place and modify go to Touch ID first, everything else to the account query |
| `EnsureAccounts` | `_ensure_accounts_initialized`, then the private copy, its scope and the look at the authorization |
| `Authorize`, `TouchID`, `ReplyTouchID`, `TouchIDDenied` | `_authorize_order_write`, `require_touch_id` |
| `ReadOrder` | the reads of modify (which may refuse) and cancel between the gates |
| `Confirm`, `Decline` | the five dialogs of `order_confirm.py` |
| `SendWrite`, `SendReply`, `SendAnswer` | the requests; each is processed and answered, or processed and the answer lost |
| `SkipTerminal`, `NextRound`, `OpenReply`, `ConfirmReply`, `DeclineReply` | the loops over replies and `_resolve_one_reply` |
| `Retry`, `RequestFails` | `with_retry` on a 429/503 to a request that had no effect, every other failure |
| `WriteShed`, `ReplyShed` | `with_retry` on a 503 to a request that did take effect: the order is at IBKR, and the same request is sent again (`Unavailable`) |
| `CallerMutatesDict` | the caller still holds the dict |
| `QuestionLapses`, `SessionLost`, `LoggedInAgain`, `Tick` | gateway, user, clock |

Abstracted: a body is a model value, a dialog is what it shows, a question is its leg and number; argument validation
(raised before any effect), the wording of dialogs and what-if previews are left out. `GatewayAnswers`,
`NextQuestions` and `ReplyResponse` are external: they say what the code expects of IBKR, with `Restates` and `Resends`
for the two shapes its comments fear. A dialog lasts at most `DialogTime`, a request with its retries at most
`RequestTime`; the code between two waits takes no time.

### EndpointPacer

A thread makes one request with its retries. The deques of an endpoint receive the same moments, so they are suffixes of
one sequence, `grants[k]`; `first[k][l]` is where the deque of limit `l` starts. `Acquire` is `acquire` up to its
sleep (`_expire`, `_required_wait`, the warning branch), `Wake` is the rest after the sleep, which looks at no limit again;
`lock` is kept in between. `Respond` and `Resume` are `with_retry`'s branches on the status and its backoff.
The regular expressions that map a path to its limits are the choice of `key`.

### AlertStream

`alerts` is the table; per stream (process) there are `stage`, `subs` (subscribed contracts), `wanted` (the contracts as
last read), `item` (the frame at hand), `todo` and `fired` (the loop of `check_quote`). `ReadAlerts`, `Subscribe`,
`Unsubscribe` and `Synced` are `_reconcile_alert_subscriptions`, one action per await; `Check` is the read of `check_quote`, `Mark` each
of its transactions, `Report` its return and the log line; `Break` is an exception at any point, the reconnect of
`_stream_loop_with_retry`, or a restart of the process: everything but the table is gone. `Move`, `SendQuote`, `SendOther` are the market and
the gateway (external). Quotes carry what `check_quote` looks at: a last price or none, and IBKR's "C" prefix (previous close).
The local set of subscriptions and the gateway's are one variable: a message that cannot be sent ends both.

### DriveCache

`proc[c]` is a process: the tool call it is in (`tool`, `op` the method of `GDriveCache`, `at` the request it waits for, `key`, `found` the
ids of the last listing, `version` the bars it fetched, `result`) and what its cache object remembers: `folder`
(`_resolved_cache_folder`), `memory` (`_manifest`) and `loaded` (the copy is younger than 60 s). `folders` and `files` are Drive. A tool
asks `check`, then loads, fetches and saves, or deletes; each request to Drive is an action, so that processes interleave between
any two. `UseCopy` and `Reload` are the two outcomes of the age test: the copy may expire at any look, and an expired one stays so until it is loaded.
`Put` is create or update by the outcome of the listing; `Enter` is the change of the manifest in memory. `Fail` is a request without effect,
`AnswerOrLost` one with effect and without answer, `DriveError` the 404 for what is gone, `Raised` how `load` turns some of
them into `CacheMissError` and forgets the folder. A new folder id is larger than the older ones, as `orderBy createdTime` needs; a key is a
model value; the bars are their version. The age condition of `check` is left out: for an entry that `save` wrote, whose `end` is part of its key, it holds.
`add_indicators` stands for the tools that load after a check.

### FlexArchive

`trades` and `flexTrade` are the two tables that hold trades, `lots` stands for the elements without a natural key, `log` is
`flex_import_log`, `drive` and `local` the archive and its copy on disk; `stored` is a history. The server has one call (`srv`), since the stdio server
dispatches one at a time, beside one `script` and the stream. A SQLite transaction, a request to IBKR or an upload is one action: `SendRequest` and `Poll`
are `_send_request` and `_get_statement`, `StoreTrades` and `StoreFull` the two transactions of `fetch_trades`, `Upload` and `WriteLog`
are `_archive_and_log`, `NextFile` the loop of `sync_archive_from_drive`, `VerifyFile`/`VerifyReport` `verify_flex_import`, `LiveTrades`/`LiveFlex`
the live path of `get_trades`, `FetchArchive`, `Preflight`, `DropTables`, `LoadStatement` the scripts. `MergedTrade` and `Replaces` are the conflict clauses of
the two upserts. A document is its name, the facts the code branches on (is it a statement, an unknown attribute, skipped rows, `whenGenerated`)
and its rows; columns are one of each kind: first seen, overwritten, overwritten unless absent.

### BracketLife

`BuilderRefuses` and `DialogRefuses` are the two lists of rules, each translated from its own source; `Show` is `confirm_bracket_dialog`,
`FindsProblems` is `pair_bracket_response` over `entries`, what IBKR may answer (dropped legs, refused or wrongly linked ones). `Modify`, `ReadOrder`,
`ReadParent`, `Confirmed` are the modify of a child: two reads before the dialog, none after it; `Fills` runs at any time. `StatusUnread` is a read
that failed, which lets the modify go on with a note in the dialog (`told`). `held` records that the parent was read as filled by nothing, in which case the code compares nothing.

### ConfirmDialog

`call.at` is the process `_show_confirm_dialog` waits for, `proc` that process. `Appears`, `Presses`, `GivesUp`, `Quit`, `Exits`, `Fails` are the
process; `TimedOut` is the caller's kill; `ReadAppKit` and `ReadLast` read its output, the former with the fallback to osascript.
No clock is kept: any of them may come first.

### GatewaySession

`startup.at` is the point in `GatewayManager.startup`; each Docker command, HTTP request or poll is an action, the deadlines are `MaxPolls`. `EnsureDocker` and `WaitDocker` are
`ensure_docker_running`, once in `startup` and once more in `start`: without Docker the end at once (another system than macOS, a failed launch) or polls up to the deadline.
`is_running` and `container_exists` say no also when `docker inspect` fails (`Adopt`, `StartUnlessRunning`, `RemoveOld`); `startup.free` records that a start was decided although the container ran. `warm` holds
what the session has subscribed to; the reads (`get_live_orders`, `get_trades`, `_get_pnl`, `_get_market_snapshot`, `ping`) run beside the startup. `Login`,
`SessionEnds`, `ContainerDies`, `JavaUp`, `DockerReady`, `DockerStops`, `BookChanges`, `TradeHappens` are the environment. That the first status of a
session denies it (`asked`) is the comment at `client.py` 758. `answer` and `read` carry witnesses: whether something was there throughout the call.
An undocumented body raises in `get_live_orders`; `get_trades` and the snapshot read it as nothing (`"unread"`).

### MarketHistory

Time is counted in bars. `Window` is what one request answers: the newest `Cap` bars of it. `FastPath`, `FirstChunk`, `Chunk`, `EmptyBody`,
`ChunkRefused`, `NoAnswerYet` are the branches of `get_market_history_paginated` with the retries of `fetch_market_data`; `ChunkDays` and `FitsInOneCall` are
`_chunk_days_for_bar` and its neighbour. Holes in trading are any subset of the times. The cursor is
`Open` before the first bar, when no startTime is sent; `Bridged` are the bars with no hole between them and the present that is wider than the widest window (`Reach`), `Needed` those of them inside the
lookback. `BeginPositions` and `ReadPage` are `get_all_positions`.

### ContractChoice, ServerAlerts, TradeCoverage

`ContractChoice`: `GatewayAnswers` sends any sequence of the rows, `Midnight` may end the day before `Resolve` looks at it; `FrontMonth` is the futures branch of
`_resolve_snapshot_conid`, `Flagged` is `_sorted_with_front_month`, `Resolved` the five ways a symbol is read, `Pick` the choice among listings, `Pair` the CASH branch. A row with the conid 0 stands for one whose conid is missing or no number. `ServerAlerts`: a modify is `Read`, the translation (`Translated`), the patch, and `Write` with retries; the phone edits at
any time (`Edit`, `Discard`). `TradeCoverage`: `Coverage` is `get_trade_date_coverage`, the rest lets days pass, fills be captured or missed and statements arrive.

### WebArchive

A caller is a thread of the server. `Step` is its next step: the lookup in the archive, the lock of the login profile (or its time-out), the browser's session, one upload per page, the
manifest; each may fail and leave the rest as it is. `holder` is `_PROFILE_LOCKS`. `Gathered` is the loop of `crawl_site` over the results (the first result of a URL counts, empty ones
do not), `NameOf` the naming of pages with its suffixes.

### BacktestRun

`caller.at` follows `run_backtest` (recv, close, judge, reap, join, measure, save), `dog` the watchdog thread, `pipe` what the child has put into it, possibly in part. `SegmentTrades` is
`_segment_trades` over every signal of the bound, including holes (NaN); `Loop(sig)[i]` is the state of its loop after bar `i`.

## 4. Runs

| run | instance | properties | shows |
|---|---|---|---|
| `order_chains` | 1 call of any method, 2 bodies, up to 3 questions per leg, 2 retries, 503s after the effect, caller mutates, session lost once, answered questions of a bracket re-sent | `RepliesHonest`, `SentOnce`, `ShownAsSent`, `NoYesAfterNo`, `EveryCallEnds` | a chain that returns answered every question; a no reaches IBKR, is logged as no and is the last word; one write of what was shown, and another only after a 503; the call ends |
| `order_shared` | 2 calls of any methods, 2 accounts, responses that repeat the array, 1 retry, session lost once; calls and accounts symmetric | `TypeOK`, `WritesArePrimed`, `ImplementsGates` | no write before the account query; `OrderWrite` implements `TwoGates` |
| `order_window` | a chain and a placement handed its authorization; TTL 2, dialog 1, request 1, clock to 5, no retries; calls symmetric | `Authorized` | age of the fingerprint behind a write |
| `pacer_limits` | 2 threads, 1 retry each, 3 endpoints, one with two limits, one with a window beyond the longest wait, clock to 4 | `LimitsKept`, `AttemptsPaced`, `EveryCallEnds` | limits kept, no needless wait, every attempt paced, every call ends |
| `alerts_one_stream` | 2 alerts on 2 contracts, 2 prices, 1 failure, 1 move | `CannotRefire`, `FiresForATrade`, `MarkedIsReported`, `EveryCrossingFires`, `SubscriptionsReleased` | fires once, for a trade, reported, eventually; subscriptions released |
| `alerts_two_streams` (violated) | 2 streams, 1 alert | `CannotRefire` | one alert reported twice |
| `drive_one_writer` | a writer and a reader, 2 keys (symmetric), 2 histories, 1 failure or crash, the folder deleted once | `TypeOK`, `OneFilePerName`, `AnnouncedIsTrue`, `EntriesFollowFiles` | saved and deleted are true; no entry published without its file |
| `drive_folder` (violated) | 1 process, 1 key, the folder deleted once | `FolderRediscovered` | `check` raises for ever on the dead folder id |
| `flex_archive` | 6 documents, 1 live fill, 3 calls or scripts, 1 failure or crash, 1 file replaced on Drive | `TypeOK`, `ArchiveIsImports`, `LoggedIsStored`, `FirstSeenKept`, `EveryCallEnds` | the complete tables are a function of what was stored; the log is true; nothing known is forgotten |
| `flex_verified` (violated) | 2 documents, one with a skipped row | `VerifiedMeansPresent` | "all present" with trades missing |
| `tool_desk` | nine services, each by itself | `TypeOK`, `SessionKept`, `AnswersAreTrue`, `NothingLost`, `BracketAsShown`, `WithinFillRead`, `DialogHonest`, `OneBrowserPerProfile`, `SavedIsArchived`, `BacktestTrue`, `RightContract`, `PatchesKeepAlerts`, `CoverageTrue`, `CallsEnd` | one promise of each service, and that its calls end |
| `bracket_resized` (violated) | one bracket, two modifies of its child, fills at any time | `NeverBeyondFill` | a child larger than the position |

Several properties are conjunctions of named parts that answer one question: `RepliesHonest` (`EveryQuestionAnswered`, `DeclineReachesGateway`,
`ReplyLogHonest`), `AttemptsPaced` (`EveryAttemptPaced`, `NoNeedlessWait`), `AnswersAreTrue` (`EmptyMeansNone`, `NotSubscribedIsTrue`),
`BracketAsShown` (`RulesAgree`, `EveryLegShown`, `OkMeansAttached`), `DialogHonest` (`ConfirmedByHuman`, `BannerIsTheAct`), `BacktestTrue` (`AnswerWins`, `TradesAreRuns`),
`RightContract` (`FrontMonthTrades`, `ListingAsked`), `PatchesKeepAlerts` (`ModifyPatches`, `GtdHasExpiry`), `CoverageTrue` (`GapsAreEmpty`, `DueIsStale`).

**Why the bounds suffice.** Two calls are enough for every pair interaction of `OrderWrite`: they meet only in the account
flag, the gateway's questions and an authorization that is handed on. Three questions per leg let a chain go round after a
round that itself went round; two legs let an answer and a question of different legs meet. Questions are re-sent only in brackets there, since the place and modify
chains keep no set of answered ids (section 6). One loss of the session puts a client with its flag set before a new session, and a write between the two. The clock of
`order_window` reaches the bound of `Authorized` (TTL + 2 requests + dialog = 5) exactly; a retry takes no time of its own, since `RequestTime` covers a request with its retries. In `pacer_limits` four attempts fill
and overflow both kinds of limit (2 in 1, 3 in 4, 1 in 3 ticks), with the windows on either side of one another. One failure of a stream at
every point shows each crash between two steps; two would only repeat it, and the theorems allow any number. In `drive_one_writer`
two histories let a key be saved again, or a second key be published beside an orphan of the first. `EntriesFollowFiles` says
"after at most one failure" because two break it: a publication fails after the entry was set in memory, a deletion loses its answer, and the
next save publishes the entry of the removed file. Keys are symmetric, and no liveness is checked in that run.

In `flex_archive` the six documents are one of each kind the code tells apart: an old manual file, a later report of the same trades, one with a
row that cannot be read, one that is not ready, one with an unknown attribute, one that claims a tradeID under another key. Three calls
let a statement, an older one and a live fill come in each order, and a rebuild meet a store.

In `tool_desk` each service has what its hazards need. Session: 2 calls, 2 events, 1 poll: a session that begins or ends
within a startup or a read, and within one read after another; three contracts, two of them with market data, so that one of a snapshot may be warm, another cold and the third without data. History: every set of the seven times, answers of 3 bars, one bar size whose day fits an answer and one whose day
does not, lookbacks of 1 and 4 days, of which the second takes several windows, is reached by the larger bars and runs out of passes or of data with the smaller; one widening, one retry. Bracket: absent, unreadable, equal and exceeding sizes, right and wrong sides, links and contracts, up to two children; every answer of IBKR to them; fills at any point of two modifies. Dialog: two calls, so that one could see the answer of the other, on each platform. Web: two threads, two sites with one saved login, two pages with one
name, a manifest that gets too old. Backtest: every signal of four bars, two runs. Contract: answers of three rows with expired,
undated and equal dates, three days, and listings in the United States and abroad, two on each of two exchanges, one of them without a usable conid. Alerts: two of them, one retry, one edit on the phone. Coverage: five days with a weekend in them and a threshold of one day.
Every deadlock that is not checked is a service whose bounded calls are used up.

**Fairness.** `OrderWrite`: weak fairness of each call's steps. Prompts and dialogs have timeouts, requests have a timeout and
bounded retries, so a call never waits for ever (`human_auth.py`, `order_confirm.py`, `rate_limiter.py`); nothing is assumed of
the human, the gateway or the clock. `EndpointPacer`: threads are scheduled and the clock goes on. `AlertStream`: the loop is scheduled and connects
again, and the gateway goes on to send P&L frames and the quotes of a subscribed contract; strong fairness there says that
a frame is sent if again and again there is room for it. `DriveCache`: a call goes on, and a copy
of the manifest that is looked at again and again is found expired at some time (60 s). `FlexArchive`: a call and a script that were started go on.
`GatewaySession`: the waits for the gateway and for the login have a deadline and HTTP requests a timeout. Nothing is assumed of the user, who need neither log in nor press Enter, of Docker, whose
commands run without a timeout (`manager.py:90-98`, `155-178`), and of the cookie read of `_prime_pnl_subscription`, which the keychain may hold up (`claude_tools.py:3073-3077`): `CallsEnd` covers the two waits and the
reads but for that one point, and says nothing of the steps that run Docker. `ConfirmDialog`: the caller's timer and its read of an ended process; for tkinter, whose process is its own
timer, the window and its countdown. `WebArchive`: a browser session ends by its timeouts, a wait for a profile too. `BacktestRun`: the caller and the watchdog run; the child, which
is the user's code, need not. `MarketHistory`, `ContractChoice`, `ServerAlerts`: a request is answered or times out.
Nobody is assumed to make calls, and nothing about failures, beyond their bound.

## 5. Proofs

All for every value of the constants that meets the named assumptions: `ConstantsOK`, `NoneIsNoValue` (orders), `PacerConstants`, `AlertConstants`, `DriveConstants`, `FlexConstants`, and, in
`ToolDesk`, one per service whose proofs need any (`HistoryAssumption` to `CoverageAssumption`; `BoundsAssumption` for the bounds of the runs). They say what kind of value a constant is, that model values
differ, that what the phone creates is an alert, and that the rows of a contract are told apart by its id; TLC evaluates them in every run. Anything beyond that is a hypothesis in the statement of the theorem:

| theorem | hypothesis | why it is there |
|---|---|---|
| `OneStreamNeverRefires` | one stream | `alerts_two_streams` |
| `OneFileAlways`, `AnnouncedAlwaysTrue`, `EntriesAlwaysFollow` | one process that writes (`OneWriter`), any number that read | two writers lose and double entries (section 6) |
| `BracketIsAsShown` | IBKR's answer names each order once (`~Restated`) | a second entry for a leg can contradict the first, and pairing reads one of them |
| `SavedCrawlIsArchived` | one caller archives at a time (`OneArchiver`) | two crawls of one site write each other's files (section 6) |
| `DeskIsTyped` | a quantity that is a number is in `1..MaxLots` (`SizesInBounds`) | the type invariant says that what is bought and filled stays in that bound of the model; the code has none |

The theorems, with the property of a run that each states where there is one:

| module | theorem | says |
|---|---|---|
| `OrderWriteProofs` | `TypeCorrect` (`TypeOK`), `WrittenOnce` (`SentOnce`), `FramesInvariant` | types; a write is processed again only after a 503, at most `1 + MaxRetries` times |
| | `GatesInvariant`, `EveryWriteAuthorized` (`Authorized`), `EveryWriteShown` (`ShownAsSent`) | what stands behind every stage; the two gates |
| | `OrderWritesImplementGates` (`ImplementsGates`) | refinement of `TwoGates`: every step is one of its steps or a stutter |
| | `RepliesAlwaysHonest` (`RepliesHonest`), `NoIsFinal` (`NoYesAfterNo`) | every question answered, a no reaches IBKR and is the last word, the log is true |
| | `AlwaysPrimed` (`WritesArePrimed`) | the client's account query precedes every write, in its first session that session's |
| `EndpointPacerProofs` | `PacerTypes`, `PacerInvariant`, `LimitsAreKept` (`LimitsKept`) | limits of endpoints whose waits are all imposed |
| | `AttemptsArePaced` (`AttemptsPaced`) | every attempt is in the deques, once; no needless wait |
| `AlertProofs` | `AlertTypes`, `FiresOnlyForATrade` (`FiresForATrade`), `OneStreamNeverRefires` (`CannotRefire`), `MarkedAlwaysReported` (`MarkedIsReported`) | an alert fires only for a trade, with one stream once, and is not marked without being reported |
| `DriveProofs` | `DriveIsTyped` (`TypeOK`), `OneFileAlways` (`OneFilePerName`), `AnnouncedAlwaysTrue` (`AnnouncedIsTrue`), `EntriesAlwaysFollow` (`EntriesFollowFiles`) | one file per name, announcements are true, no entry without its file |
| `FlexProofs` | `FlexIsTyped` (`TypeOK`), `ArchiveIsAFunction` (`ArchiveIsImports`), `LogIsTrue` (`LoggedIsStored`), `FirstSightStays` (`FirstSeenKept`) | the order of imports does not matter, the log is true, nothing known is forgotten |
| `DeskProofs` | `StartupKeepsSession` (`SessionKept`), `AnswersTrue` (`AnswersAreTrue`) | no startup ends a session that docker inspect shows; "nothing" was true at some moment of the call |
| | `BrowserAlone` (`OneBrowserPerProfile`), `SavedCrawlIsArchived` (`SavedIsArchived`) | one browser per login; a saved crawl is all there |
| | `DialogIsHonest` (`DialogHonest`) | a yes is the human's last word; the banner names the act |
| | `AnswerAlwaysWins`, `BacktestIsTrue` (`BacktestTrue`) | the child's answer is the answer; the trades are the maximal runs of the signal, for data of any length |
| | `ContractIsRight` (`RightContract`) | the contract trades, the flag and the root agree; a bare ticker is its only US listing |
| `DeskDataProofs` | `BracketIsAsShown` (`BracketAsShown`), `ChildWithinFill` (`WithinFillRead`) | the rules of brackets; the size of a child against the fill that was read |
| | `PatchesKeep` (`PatchesKeepAlerts`) | a patch changes what it names |
| | `ReportIsTrue` (`CoverageTrue`) | gaps are empty of trade days, what is due is stale |
| | `HistoryIsComplete` (`NothingLost`) | a history without a warning has every bar back to a hole that widening does not bridge |
| `DeskTypeProofs` | `DeskIsTyped` (`TypeOK`) | the state of every service of `ToolDesk` |

### How the proofs go

Each theorem has an inductive invariant, one lemma per action or per kind of step, and a last step that puts them together. What the property lacks to be inductive:

*Orders.* `SentOnce` and the types need `FramesOK`: each stage has the fields it uses (a scope once begun, an authorization
behind Gate 1, a queue while replying), and `sent` is 0 before the one stage that sends; for `SentOnce` also `ShedOK`: every write that was answered 503 has used up an attempt. `Authorized` needs `IInv`: the gates leave
their proof in the history (`Backed`: a fingerprint for this scope, younger than the window plus the stages passed since; `WasShown`), `ClockOK`
bounds each stage, `IdentityOK` says that a call answers its own questions, and `AuthOK` that an authorization was earned. The
check before the dialog and the bounds of three stages then add up to the age that `Authorized` allows.

*Replies.* `RepliesHonest` looks at chains that have returned, `HonestInv` at every point of them: IBKR has one question open per leg, the last it asked (`Newest`), and each question
asked of a chain has had its yes, or waits in `queue` or `latest`, or is followed there by a later one of its leg (`FollowedUp`). A chain returns with nothing waiting. `Logged` says that the entry being resolved is in the
log before IBKR hears of it and that a chain which said no is on its way out; `NoIsFinal` is a corollary.

*Account query.* `QueryInv`: whoever is past `_ensure_accounts_initialized` has `ready`, and `ready` means `primed` as long as no session was lost.

*Pacer.* `LimitsKept` is not inductive: a thread that wakes does not look again. `Waited` (what it computed covers
every full deque), `LockHeld` (nobody records meanwhile), `NotOverfull` and `Expired` (a deque has lost only what is out of its window)
carry the proof over the sleep. For an endpoint with a window beyond the longest wait `NotOverfull` fails, and with it the limit (section 6). `PacedInv` counts: the acquisitions of an endpoint
are its requests and the threads between the two.

*Alerts.* `FiresForATrade`: every frame in flight and every alert in `todo` or `fired` has a witness in `crossed`. `CannotRefire`:
an alert that is marked, about to be reported or reported is not active. `MarkedIsReported` is inductive with the types.

*Drive.* `Typed` holds for any number of writers: which method runs where, what a call holds, ids given out once. `Single` says at each point of the one writer's call what its record is
worth: `FoundIs` (the ids of a listing, or their absence, are those of its name now), `SaveDone` and `DeleteDone` (what is behind it has happened), `Entered`. `EntriesFollowFiles` needs `Trust`: while there is one folder
and at most one request has failed, a key that the manifest in memory lists is listed on Drive or has its file, and before the first failure it is listed. This is where one failure is the limit: with a second, a key may be neither.

*Flex.* `ArchiveIsImports` is inductive with the types of the tables, because the conflict clause keeps the greatest `whenGenerated`, with 0 for a live row, which replaces nothing. `LoggedIsStored` needs
`CallKnown`: between its steps a call remembers a document whose rows are in the table and, before the log, whose file is on Drive.

*Session and reads.* A container is removed only at `"exists"`; `SessionInv` says that a startup is there, or at the two steps before it, only
while no container runs or with `free` set, and that a Java process and a session need one that does. `ReadInv`: the witnesses of a read are what was true since it began, and a first call has
subscribed the session that the second is asked of.

*Browser and archive.* `HolderKnown`: who browses with a profile stands in its place in the
table, and a place has one occupant. `ArchiveInv`: each page a crawl is done with has an entry, a name that no other URL of this crawl claims, and its file (`Progress`). That the naming always finds a free suffix is a pigeonhole argument
(`NameIsFree`); that each URL is gathered once is an induction over the loop of `crawl_site`.

*Dialog.* `DialogInv`: what the process has written, and the verdict, have the human's last press behind them; a fallback starts with nothing written, so
that no answer outlives its dialog.

*Backtest.* `BacktestInv` does not mention the watchdog: the caller trusts the pipe, which ends only when the child
has, and asks the watchdog only for the name of its error. The trades: `Segmented` is the loop's state after bar `i` (the open trade began where the signal last changed, the closed ones are the runs before it), by induction over the bars.

*Contracts.* `ContractInv`: the rows are of the kind that was asked for; the rest is about the operators: the front month of a root is the first of the earliest rows that still trade, and that is the row that is flagged.

*Brackets.* `PairInv`: what the builder let pass and the dialog disclosed is what IBKR answers to. *Alerts of IBKR.* `PatchInv`: a body about to be written is the alert as it is but for the patch, unless the phone edited it since or the
write was tried before. *Coverage.* `RowsInv` bounds the days, so that the last of them exists. *History.* `HistoryInv`: the walk has every bar from its cursor on, and the cursor stands on a bar or at `Open`; an empty window as wide as the widest means that nothing older is `Bridged`.

*Types of the services.* `TypeOK` says less of a call than its steps need. Each service has a `…Typed` invariant beside its own: a page or a chunk is read only below the bound of the loop; a crawl at
`"save"` has the page it is about to write; who holds a profile is a caller that browses with that profile, so that closing frees it and nothing else; of a login there is at most one per event. Where a
range rests on what the service means (rows of the kind asked for, an alert that exists, a bar under the cursor) the invariant of its main theorem is used.

*Numbers.* The least element of a set of numbers, which the naming, the runs, the dates and the reports need, comes from the library's well-foundedness of the strict subsets of finite sets (`BelowWF`, `LeastNat`). `Induction` states induction over a set of numbers
in place of a predicate, which the provers can instantiate, and unrolls the two recursive functions, `Loop` and `Gathered`.

### Only model-checked

Liveness (`EveryCallEnds`, `CallsEnd`, `EveryCrossingFires`, `SubscriptionsReleased`), since the prover handles neither fairness nor ENABLED. That the fairness of section 4 suffices is therefore shown on the instances only.

## 6. Where the code and its documentation part

* `alerts_two_streams`: "cannot re-fire" (`streaming.py:502`) holds for one process per database.
* `drive_folder`: `_reset_cache_folder` is there "to recover from a deleted market_data folder" (`cache.py:206`); it is called by `load` alone, and no tool reaches
  `load` without a `check`, which raises on the dead folder id once its copy of the manifest has expired.
* `flex_verified`: "all source tradeIDs confirmed present" (`claude_tools.py:2425`) is decided by the files that had an issue; a manual file, and a file whose hash is in the log, are never
  compared with the table.
* `bracket_resized`: "may never be larger than the position its parent actually created" (`client.py:2452`): a parent with no fill yet lets any size pass, and is not read again after the dialog. What the code does give is `WithinFillRead`, in `tool_desk`.

Seen while modelling and given no run of their own:

* orders: `with_retry` sends any POST again after a 503 (`rate_limiter.py:349-364`), also one that took effect; there is no idempotency key, so that one yes of the human may place `1 + MaxRetries` orders
  (`WriteShed`; `SentOnce` states the bound, and no document promises a better one); if the caller changes its dict during Touch ID, the reply dialogs of a chain are
  titled with the old order (`client.py:2787`), though what is sent was still shown and authorized (`EveryWriteShown`); the account flag belongs to the client
  object and outlives a gateway session (`client.py:3386-3392`), against "once per session" in its own docstring: after a new login the same client writes without the query (`WritesArePrimed` speaks of the client, and of the session only until the first loss); with responses that repeat the array, the second leg's question is found again and the chain
  raises "re-sent" (`client.py:2839`, `2919`); place and modify chains keep no answered ids, so that against a gateway that re-sends for ever only the human's no ends them; they
  ask for a fingerprint before the account query, against "so a dead session fails before the human is asked" (`client.py:48`; `FirstStage`);
* pacer: after a request over the limit was sent with a warning, later ones go out over it without (`rate_limiter.py:201`, `209`, `236`); its one lock makes a free
  endpoint wait for a sleeper on another (`rate_limiter.py:206`);
* dialogs: a side of None reads "NONE"; an AppKit process that crashes after an abandon is followed by osascript, which asks again;
* data cache: two writers of one folder lose and double entries (`cache.py:357`); a fetch whose entry lost its file raises instead of fetching (`claude_tools.py:1926`);
* trade store: a rebuild from a local copy that is older than Drive loses settled rows; where `flex_trade` does not exist the staleness falls back to the table `trades` otherwise than its
  docstring says (`store.py:562-571`, `616`);
* reads: a snapshot of several contracts, some new to the session, reports the new ones as "Not Subscribed" (`claude_tools.py:3618-3630`, `3653`), since it asks again
  only if none had a price: `NotSubscribedIsTrue` therefore excepts an answer in which another contract had one; a body that is no list is no trades, or no quotes (`client.py:1119`, `1900-1905`);
* gateway: a `docker inspect` that fails hides a running container, which a start may then remove with its session, against "A RUNNING container is left alone" (`manager.py:406`; `SessionKept` excepts it by `free`);
  a Docker command that hangs outlives every deadline;
* history: the argument `end` changes the cache key and nothing else; a stretch without bars that no widening bridges ends the walk (`NothingLost` says so);
* contracts: an explicit exchange with several listings takes the first sent (`claude_tools.py:3499-3512`), against "when exactly one listing is determined, else (0, question)" (`claude_tools.py:3458-3460`); `ListingAsked` says so;
* server-side alerts: a create whose 503 came after it took effect is sent again and doubles; a modify overwrites what the phone changed between its read and its write; it reads unscoped and writes to the first account;
* web: two crawls of one site at the same time (two MCP servers; one dispatches a call at a time) write each other's files, so that a crawl reported as saved may have
  pages of the other behind its entries: `SavedCrawlIsArchived` assumes one caller that archives (`OneArchiver`); the profile lock is one of a process, not of the machine; `get_cached_crawl` never compares the URL of a manifest; a re-crawl that fails half-way leaves new pages under an old manifest;
* backtest: a child that crashes just before the deadline is reported as timed out; a `result_df` without columns raises.

## 7. Not modelled

* `flex_schema.py`: a declarative table of fields, which a model would only repeat; what its parser refuses is a fact of a document in `FlexArchive`.
* `indicators.py`, `analytics.py`, the metrics of `backtest.py`: floating-point formulas over data frames, out of TLC's reach. The user's strategies.
* `models.py`, `config.py`, `exceptions.py`, `redaction.py`, `auth.py`, `pinescript.py`: records, text, cookies, validation without state.
* Single requests without a protocol (account summaries, ledgers, scanners, option chains), argument validation, wording, logging, the audit scripts.
* Ranking of search results, quality thresholds of pages, Firecrawl, creation of login profiles by the user.
* Holiday names and per-account breakdown of the activity report; the execution and P&L tables the stream writes.
