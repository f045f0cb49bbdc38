---------------------------- MODULE GatewaySession ----------------------------
(***************************************************************************)
(* The life of a gateway session and the reads that depend on its state:   *)
(* GatewayManager starts the container and waits for a login               *)
(* (gateway/manager.py); IBKRClient reads orders, trades, P&L and          *)
(* snapshots, each of which answers emptily until its subscription has     *)
(* been instantiated in the current session (client.py, claude_tools.py).  *)
(*                                                                         *)
(* A request to Docker or to the gateway is a step.  Between two of them   *)
(* the container may die, the session end, the user log in and orders and  *)
(* trades come and go.                                                     *)
(***************************************************************************)
EXTENDS Integers, FiniteSets

CONSTANTS
    Conids,     \* contracts asked for together in one snapshot
    Entitled,   \* those with a market data subscription
    None,
    MaxPolls,   \* bound: polls until a deadline passes
    MaxCalls,   \* bound: startups, restarts and reads
    MaxEvents   \* bound: what happens of itself

VARIABLES
    docker,     \* [up, image]: the daemon runs; the image is built
    container,  \* "absent", "stopped" or "running"
    gw,         \* [up, auth, asked, id]: the Java process and its session
    warm,       \* subscriptions instantiated in this session
    book,       \* statuses in the order book of the account
    traded,     \* whether there are executions in the window
    startup,    \* [at, polls, free]: the startup sequence under way
    read,       \* the read under way
    answer,     \* the answer of the last read
    calls, events

host == <<docker, container>>
market == <<book, traded>>
vars == <<host, gw, warm, market, startup, read, answer, calls, events>>

Down == [up |-> FALSE, auth |-> FALSE, asked |-> FALSE, id |-> 0]

(* read: op, step, and a witness for the properties: the session in which it *)
(* began, and whether an order worked, or a trade was there, all the time.   *)
(* startup.free, another one: the startup may end a session, since the user  *)
(* asked for a clean one or docker inspect did not see the one that runs.    *)
NoRead == [op |-> None, at |-> "idle", id |-> 0, working |-> FALSE, traded |-> FALSE, auth |-> FALSE]
NoAnswer == [op |-> None, says |-> None, id |-> 0, working |-> FALSE, traded |-> FALSE,
             auth |-> FALSE, dead |-> {}]

\* Nothing runs, or a gateway that somebody else started does.
Init ==
    /\ \/ docker = [up |-> FALSE, image |-> FALSE] /\ container = "absent" /\ gw = Down
       \/ /\ docker = [up |-> TRUE, image |-> TRUE] /\ container = "running"
          /\ gw \in [up : {TRUE}, auth : BOOLEAN, asked : {FALSE}, id : {0}]
    /\ warm = {}
    /\ book = {} /\ traded = FALSE
    /\ startup = [at |-> "idle", polls |-> 0, free |-> FALSE] /\ read = NoRead /\ answer = NoAnswer
    /\ calls = 0 /\ events = 0

\* A row has a status that is in _TERMINAL_STATUSES, one that is not, or none.
Statuses == {"Submitted", "Filled", "no_status"}
Working(b) == "Submitted" \in b

TypeOK ==
    /\ docker \in [up : BOOLEAN, image : BOOLEAN] /\ container \in {"absent", "stopped", "running"}
    /\ gw \in [up : BOOLEAN, auth : BOOLEAN, asked : BOOLEAN, id : 0..MaxEvents]
    /\ gw.auth => gw.up /\ container = "running"
    /\ warm \subseteq {"orders", "trades", "pnl"} \cup Conids
    /\ book \subseteq Statuses /\ traded \in BOOLEAN
    /\ startup.polls \in 0..MaxPolls /\ startup.free \in BOOLEAN
    /\ startup.at \in {"idle", "docker", "launch", "adopt", "adopt_auth", "run", "start", "relaunch",
                       "exists", "build", "create", "reach", "login", "verify", "again", "ready", "failed"}
    /\ read.at \in {"idle", "first", "prime", "second", "status", "tickle"}

(***************************** GatewayManager ******************************)

Goes(at) == startup' = [startup EXCEPT !.at = at, !.polls = 0]
Manager == UNCHANGED <<warm, market, read, answer, calls, events>>
Begins(at, free) ==
    /\ calls < MaxCalls /\ calls' = calls + 1
    /\ startup' = [at |-> at, polls |-> 0, free |-> free]

\* stop: the session in the container is gone, and the container, if docker rm works.
NoSession == warm' = {} /\ read' = [read EXCEPT !.auth = FALSE]
Removed ==
    /\ docker.up /\ container # "absent" /\ container' \in {"absent", "stopped"}
    /\ gw' = [Down EXCEPT !.id = gw.id] /\ NoSession
NotRemoved == UNCHANGED <<container, gw, warm, read>>

BeginStartup ==
    /\ startup.at \in {"idle", "ready", "failed"} /\ Begins("docker", FALSE)
    /\ UNCHANGED <<host, gw, warm, market, read, answer, events>>

\* ensure_docker_running: on macOS it is launched and waited for up to a deadline;
\* elsewhere, and where the launch fails, that is the end.
EnsureDocker(at, launch, next) ==
    /\ startup.at = at
    /\ \/ docker.up /\ Goes(next)
       \/ ~docker.up /\ (Goes(launch) \/ Goes("failed"))
    /\ UNCHANGED <<host, gw>> /\ Manager

WaitDocker(launch, next) ==
    /\ startup.at = launch
    /\ \/ docker.up /\ Goes(next)
       \/ ~docker.up /\ startup.polls < MaxPolls /\ startup' = [startup EXCEPT !.polls = @ + 1]
       \/ ~docker.up /\ startup.polls >= MaxPolls /\ Goes("failed")
    /\ UNCHANGED <<host, gw>> /\ Manager

\* startup: a container that runs is asked for its session.  is_running says no
\* also when docker inspect fails.
Adopt ==
    /\ startup.at = "adopt"
    /\ \/ container = "running" /\ Goes("adopt_auth")
       \/ Goes("run")
    /\ UNCHANGED <<host, gw>> /\ Manager

\* The first status of a session says "not authenticated".
StatusSays == gw.auth /\ gw.asked
Asked == gw' = IF gw.auth THEN [gw EXCEPT !.asked = TRUE] ELSE gw

AdoptAuth ==
    /\ startup.at = "adopt_auth"
    /\ Goes(IF StatusSays THEN "ready" ELSE "run") /\ Asked
    /\ UNCHANGED host /\ Manager

\* Mutant: whatever is not authenticated is started anew.
StartUnlessRunningAlways ==
    /\ startup.at = "run" /\ Goes("start")
    /\ UNCHANGED <<host, gw>> /\ Manager

\* Only what does not run is started; what runs is left alone even without a session.
StartUnlessRunning ==
    /\ startup.at = "run"
    /\ \/ container = "running" /\ Goes("reach")
       \/ startup' = [at |-> "start", polls |-> 0, free |-> container = "running"]
    /\ UNCHANGED <<host, gw>> /\ Manager

\* start: an old container that docker inspect sees is removed, the image built
\* if it is not there; the name of a container that is still there is taken.
RemoveOld ==
    /\ startup.at = "exists"
    /\ Removed \/ NotRemoved
    /\ (docker.up /\ docker.image /\ Goes("create")) \/ Goes("build")
    /\ UNCHANGED <<docker, market, answer, calls, events>>

BuildImage ==
    /\ startup.at = "build"
    /\ \/ docker.up /\ docker' = [docker EXCEPT !.image = TRUE] /\ Goes("create")
       \/ UNCHANGED docker /\ Goes("failed")
    /\ UNCHANGED <<container, gw>> /\ Manager

RunContainer ==
    /\ startup.at = "create"
    /\ \/ docker.up /\ container = "absent" /\ container' = "running" /\ Goes("reach")
       \/ UNCHANGED container /\ Goes("failed")
    /\ UNCHANGED <<docker, gw>> /\ Manager

\* Mutants of PollUntil: one poll too many; the deadline is not looked at.
PollUntilTooLong(at, ready, yes, no) ==
    /\ startup.at = at
    /\ IF ready THEN Goes(yes)
       ELSE IF startup.polls <= MaxPolls THEN startup' = [startup EXCEPT !.polls = @ + 1]
       ELSE Goes(no)

PollUntilForEver(at, ready, yes, no) ==
    /\ startup.at = at
    /\ IF ready THEN Goes(yes) ELSE startup' = [startup EXCEPT !.polls = 1 - @]

\* _poll_until: until the check is true or the deadline passes.
PollUntil(at, ready, yes, no) ==
    /\ startup.at = at
    /\ IF ready THEN Goes(yes)
       ELSE IF startup.polls < MaxPolls THEN startup' = [startup EXCEPT !.polls = @ + 1]
       ELSE Goes(no)

\* wait_for_gateway: any HTTP answer will do; wait_for_auth: the status says so.
WaitGateway == PollUntil("reach", gw.up, "login", "failed") /\ UNCHANGED <<host, gw>> /\ Manager
WaitAuth == PollUntil("verify", StatusSays, "ready", "again") /\ Asked /\ UNCHANGED host /\ Manager

\* input(): the user comes back from the login page; a second time, one check.
EnterPressed ==
    /\ startup.at = "login" /\ Goes("verify")
    /\ UNCHANGED <<host, gw>> /\ Manager
EnterAgain ==
    /\ startup.at = "again" /\ Goes(IF StatusSays THEN "ready" ELSE "failed") /\ Asked
    /\ UNCHANGED host /\ Manager

StartupStep ==
    \/ EnsureDocker("docker", "launch", "adopt") \/ WaitDocker("launch", "adopt")
    \/ Adopt \/ AdoptAuth \/ StartUnlessRunning
    \/ EnsureDocker("start", "relaunch", "exists") \/ WaitDocker("relaunch", "exists")
    \/ RemoveOld \/ BuildImage \/ RunContainer
    \/ WaitGateway \/ WaitAuth \/ EnterPressed \/ EnterAgain

\* restart(): asked for by the user, to get a clean session.
Restart ==
    /\ startup.at \in {"ready", "failed"} /\ Begins("start", TRUE)
    /\ Removed \/ NotRemoved
    /\ UNCHANGED <<docker, market, answer, events>>

(******************************** the reads ********************************)

BeginRead(op, at) ==
    /\ read.at = "idle" /\ calls < MaxCalls /\ calls' = calls + 1
    /\ read' = [op |-> op, at |-> at, id |-> gw.id, working |-> Working(book),
                traded |-> traded, auth |-> gw.auth]
    /\ UNCHANGED <<host, gw, warm, market, startup, answer, events>>
BeginOrders == BeginRead("orders", "first")
BeginTrades == BeginRead("trades", "first")
BeginPnl == BeginRead("pnl", "first")
BeginSnapshot == BeginRead("snapshot", "first")
BeginPing == BeginRead("ping", "status")

Reply(says, dead) ==
    /\ answer' = [op |-> read.op, says |-> says, id |-> read.id, working |-> read.working,
                  traded |-> read.traded, auth |-> read.auth, dead |-> dead]
    /\ read' = NoRead
Then(at) == read' = [read EXCEPT !.at = at] /\ UNCHANGED answer
Client == UNCHANGED <<host, market, startup, calls, events>>

\* No session (401) or another HTTP error raises, and so does a body without the
\* orders array; what primes the P&L swallows its errors.
Raises(op) ==
    /\ read.op = op /\ read.at \in {"first", "second"} \cup (IF op = "orders" THEN {"prime"} ELSE {})
    /\ Reply("raised", {})
    /\ UNCHANGED <<gw, warm>> /\ Client

\* Mutant: an empty first answer is the answer.
AfterFirstOrdersTrusted(list) == Reply(IF Working(list) THEN "some" ELSE "none", {})

\* get_live_orders: an empty list may come from a subscription not primed.
AfterFirstOrders(list) ==
    IF list = {} THEN Then("prime") ELSE Reply(IF Working(list) THEN "some" ELSE "none", {})

OrdersFirst ==
    /\ read.op = "orders" /\ read.at = "first" /\ gw.auth
    /\ AfterFirstOrders(IF "orders" \in warm THEN book ELSE {})
    /\ UNCHANGED <<gw, warm>> /\ Client
OrdersPrime ==
    /\ read.op = "orders" /\ read.at = "prime" /\ gw.auth
    /\ warm' = warm \cup {"orders"} /\ Then("second")
    /\ UNCHANGED gw /\ Client
OrdersSecond ==
    /\ read.op = "orders" /\ read.at = "second" /\ gw.auth
    /\ Reply(IF "orders" \in warm /\ Working(book) THEN "some" ELSE "none", {})
    /\ UNCHANGED <<gw, warm>> /\ Client

\* get_trades: the first call instantiates the subscription itself.  A body that is
\* no list is read as no trades, which is what the caller is told ("unread").
TradesFirst ==
    /\ read.op = "trades" /\ read.at = "first" /\ gw.auth
    /\ warm' = warm \cup {"trades"}
    /\ ("trades" \in warm /\ traded /\ Reply("some", {})) \/ Then("second")
    /\ UNCHANGED gw /\ Client
TradesSecond ==
    /\ read.op = "trades" /\ read.at = "second" /\ gw.auth
    /\ warm' = warm \cup {"trades"}
    /\ Reply(IF "trades" \in warm /\ traded THEN "some" ELSE "none", {}) \/ Reply("unread", {})
    /\ UNCHANGED gw /\ Client

\* _get_pnl: no rows until something subscribed to spl; priming may fail, or hang on
\* the keychain, and the answer of a failure is "no data", not "no P&L".
PnlRead(at, next) ==
    /\ read.op = "pnl" /\ read.at = at /\ gw.auth
    /\ IF "pnl" \in warm THEN Reply("some", {}) ELSE next
    /\ UNCHANGED <<gw, warm>> /\ Client
PnlFirst == PnlRead("first", Then("prime"))
PnlPrime ==
    /\ read.op = "pnl" /\ read.at = "prime" /\ Then("second")
    /\ warm' = IF gw.auth THEN warm \cup {"pnl"} ELSE warm
    /\ UNCHANGED gw /\ Client
PnlPrimeFails ==
    /\ read.op = "pnl" /\ read.at = "prime" /\ Then("second")
    /\ UNCHANGED <<gw, warm>> /\ Client
PnlSecond == PnlRead("second", Reply("no_data", {}))

\* _get_market_snapshot: a contract new to the session has neither price nor
\* availability in its first answer.
Priced == {c \in Conids \cap warm : c \in Entitled}
NoData == Conids \ Priced     \* availability N, or none and no price

\* Mutant: the first answer is the answer.
AfterFirstSnapshotTrusted == Reply("quotes", NoData)

\* _has_prices: asks again only if no contract at all had a price.
AfterFirstSnapshot == IF Priced = {} THEN Then("second") ELSE Reply("quotes", NoData)

SnapshotFirst ==
    /\ read.op = "snapshot" /\ read.at = "first" /\ gw.auth
    /\ warm' = warm \cup Conids /\ (AfterFirstSnapshot \/ Reply("unread", {}))
    /\ UNCHANGED gw /\ Client
SnapshotSecond ==
    /\ read.op = "snapshot" /\ read.at = "second" /\ gw.auth
    /\ warm' = warm \cup Conids /\ (Reply("quotes", NoData) \/ Reply("unread", {}))
    /\ UNCHANGED gw /\ Client

\* A snapshot of one contract, by whatever tool.
WarmOne ==
    /\ read.at = "idle" /\ gw.auth /\ calls < MaxCalls /\ calls' = calls + 1
    /\ \E c \in Conids : warm' = warm \cup {c}
    /\ UNCHANGED <<host, gw, market, startup, read, answer, events>>

\* ping: after a first "no" one tickle, then the status once more.
PingLooks ==
    IF StatusSays THEN Reply("yes", {})
    ELSE IF read.at = "status" /\ gw.up THEN Then("tickle")
    ELSE Reply("no", {})

Ping ==
    /\ read.op = "ping" /\ read.at \in {"status", "tickle"}
    /\ PingLooks /\ Asked
    /\ UNCHANGED warm /\ Client

OrdersStep == OrdersFirst \/ OrdersPrime \/ OrdersSecond \/ Raises("orders")
TradesStep == TradesFirst \/ TradesSecond \/ Raises("trades")
PnlStep == PnlFirst \/ PnlPrime \/ PnlPrimeFails \/ PnlSecond \/ Raises("pnl")
SnapshotStep == SnapshotFirst \/ SnapshotSecond \/ Raises("snapshot")
ReadStep == OrdersStep \/ TradesStep \/ PnlStep \/ SnapshotStep \/ Ping

(******************************* environment *******************************)

Event == events < MaxEvents /\ events' = events + 1 /\ UNCHANGED <<startup, answer, calls>>

DockerReady ==
    /\ Event /\ ~docker.up /\ docker' = [docker EXCEPT !.up = TRUE]
    /\ UNCHANGED <<container, gw, warm, market, read>>

\* Docker Desktop quits, and the container with it.
DockerStops ==
    /\ Event /\ docker.up /\ docker' = [docker EXCEPT !.up = FALSE]
    /\ container' = IF container = "absent" THEN "absent" ELSE "stopped"
    /\ gw' = [Down EXCEPT !.id = gw.id] /\ NoSession
    /\ UNCHANGED market

JavaUp ==
    /\ Event /\ container = "running" /\ ~gw.up /\ gw' = [gw EXCEPT !.up = TRUE]
    /\ UNCHANGED <<host, warm, market, read>>

\* A login makes a session in which no subscription exists yet.
Login ==
    /\ Event /\ gw.up /\ ~gw.auth
    /\ gw' = [gw EXCEPT !.auth = TRUE, !.asked = FALSE, !.id = @ + 1] /\ warm' = {}
    /\ UNCHANGED <<host, market, read>>

SessionEnds ==
    /\ Event /\ gw.auth
    /\ gw' = [gw EXCEPT !.auth = FALSE] /\ NoSession
    /\ UNCHANGED <<host, market>>

ContainerDies ==
    /\ Event /\ container = "running" /\ container' = "stopped"
    /\ gw' = [Down EXCEPT !.id = gw.id] /\ NoSession
    /\ UNCHANGED <<docker, market>>

BookChanges ==
    /\ Event /\ \E b \in SUBSET Statuses : b # book /\ book' = b
    /\ read' = [read EXCEPT !.working = @ /\ Working(book')]
    /\ UNCHANGED <<host, gw, warm, traded>>

TradeHappens ==
    /\ Event /\ ~traded /\ traded' = TRUE
    /\ UNCHANGED <<host, gw, warm, book, read>>

Environment ==
    \/ DockerReady \/ DockerStops \/ JavaUp \/ Login \/ SessionEnds \/ ContainerDies \/ BookChanges \/ TradeHappens

Next ==
    \/ BeginStartup \/ StartupStep \/ Restart
    \/ BeginOrders \/ BeginTrades \/ BeginPnl \/ BeginSnapshot \/ BeginPing
    \/ ReadStep \/ WarmOne \/ Environment

\* Docker's commands (subprocess.run without a timeout) and the cookie read of
\* the P&L's priming (the keychain) may hang for ever.
Priming == read.op = "pnl" /\ read.at = "prime"

\* A wait for the gateway, or a read, that waits for neither of these nor for a key.
Busy == startup.at \in {"reach", "verify"} \/ (read.at # "idle" /\ ~Priming)

\* Requests over HTTP have timeouts; the user, Docker and the keychain need not act.
Fairness == WF_vars(WaitGateway \/ WaitAuth) /\ WF_vars(ReadStep /\ ~Priming)
Spec == Init /\ [][Next]_vars /\ Fairness

(******************************** properties *******************************)

(* SessionKept: a startup never ends a session that is authenticated, even  *)
(* when the gateway's first status says there is none ("A RUNNING container *)
(* is left alone", GatewayManager.startup), unless docker inspect failed to *)
(* see the container that runs.                                             *)
SessionKept == [][StartupStep /\ gw.auth /\ ~startup.free => gw'.auth /\ gw'.id = gw.id]_vars

(* EmptyMeansNone: "no open orders" and "no trades" are said only if there  *)
(* was a moment during the call with none that had a working status, or     *)
(* none at all, and ping says no only if the session was not there all the  *)
(* time, whatever the warm-up state of the subscriptions, unless the        *)
(* session was replaced by another meanwhile (get_live_orders, get_trades   *)
(* of a list, ping).                                                        *)
EmptyMeansNone ==
    answer.id = gw.id =>
        /\ answer.op = "orders" /\ answer.says = "none" => ~answer.working
        /\ answer.op = "trades" /\ answer.says = "none" => ~answer.traded
        /\ answer.op = "ping" /\ answer.says = "no" => ~answer.auth

(* NotSubscribedIsTrue: a contract the account has market data for is       *)
(* reported as "Not Subscribed" only beside one of the same answer that had *)
(* a price: unless there was such a one the snapshot is asked for again     *)
(* (_get_market_snapshot, _has_prices).                                     *)
NotSubscribedIsTrue ==
    answer.op = "snapshot" /\ answer.says = "quotes" /\ answer.id = gw.id
        => answer.dead \cap Entitled = {} \/ Conids \ answer.dead # {}
=============================================================================
