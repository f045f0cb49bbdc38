----------------------------- MODULE AlertStream -----------------------------
(***************************************************************************)
(* Local price alerts: AlertManager (ibkr_core_mcp/streaming.py), the      *)
(* alert table (store.py) and the stream loop that feeds it                *)
(* (mcp_server.py, --stream).  A stream is one process with one WebSocket; *)
(* all of them share one database.  A stream subscribes to the contracts   *)
(* that have active alerts, compares each quote with the alerts, marks     *)
(* those it hits in the table and then reports them.                       *)
(*                                                                         *)
(* The local set of subscriptions and the gateway's are one variable: the  *)
(* set changes directly after the message is sent, and a message that      *)
(* cannot be sent breaks the connection, which ends both.                  *)
(***************************************************************************)
EXTENDS Integers, Sequences, FiniteSets

CONSTANTS
    Streams,     \* processes that run the stream loop
    Alerts,      \* rows of price_alerts, as far as they will ever be inserted
    Conids,      \* contracts
    Conid,       \* the contract of an alert
    Direction,   \* "above" or "below"
    Threshold,   \* its price
    Prices,      \* prices that are traded
    NoPrice,     \* a tick without a last price (LiveQuote.last is None)
    Nothing,     \* no item at hand
    MaxInbox,    \* bound: frames on their way on one WebSocket
    MaxBreaks,   \* bound: how often connections and processes fail
    MaxMoves     \* bound: how often the market moves

ASSUME AlertConstants ==
    /\ Conid \in [Alerts -> Conids]
    /\ Direction \in [Alerts -> {"above", "below"}]
    /\ Threshold \in [Alerts -> Int] /\ Prices \subseteq Int
    /\ NoPrice \notin Prices
    /\ MaxInbox \in Nat /\ MaxBreaks \in Nat /\ MaxMoves \in Nat

VARIABLES
    alerts,    \* the table: none, active or triggered
    market,    \* what the gateway would quote for a contract
    stage,     \* where each stream is
    inbox,     \* frames that the gateway has sent
    subs,      \* subscribed contracts
    wanted,    \* contracts with active alerts, as the stream last read them
    item,      \* the frame it is working on
    todo,      \* alerts that the quote hits and that are not marked yet
    fired,     \* alerts it has marked for this quote
    breaks,    \* failures so far
    moves,     \* market moves so far
    reports,   \* history: how often each alert was reported
    crossed    \* history: alerts whose threshold a trade has reached

loop == <<stage, subs, wanted, item, todo, fired>>
history == <<reports, crossed>>
vars == <<alerts, market, inbox, loop, breaks, moves, history>>

\* Field 31: a price with IBKR's prefix; "C" is the previous day's close.  "H" (halted) is
\* only logged and stands with "none".
Quotes == [last : Prices \cup {NoPrice}, qualifier : {"none", "C"}]
Other == [kind |-> "other"]
QuoteFrame(c, q) == [kind |-> "quote", conid |-> c, last |-> q.last, qualifier |-> q.qualifier]
Frames == {Other} \cup {QuoteFrame(c, q) : c \in Conids, q \in Quotes}
Stages == {"connecting", "reading", "syncing", "waiting", "checking", "marking"}

\* The comparison of check_quote.
Hit(a, last) ==
    \/ Direction[a] = "above" /\ last >= Threshold[a]
    \/ Direction[a] = "below" /\ last <= Threshold[a]

\* Mutant: the previous close counts as a price.
UsableWithClose(q) == q.last # NoPrice

Usable(q) == q.last # NoPrice /\ q.qualifier # "C"

Active == {a \in Alerts : alerts[a] = "active"}

\* The threshold of a has been reached by a trade of today.
Reached(a, q) == q.last # NoPrice /\ q.qualifier # "C" /\ Hit(a, q.last)

Init ==
    /\ alerts = [a \in Alerts |-> "none"]
    /\ market \in [Conids -> Quotes]
    /\ stage = [s \in Streams |-> "connecting"]
    /\ inbox = [s \in Streams |-> <<>>]
    /\ subs = [s \in Streams |-> {}] /\ wanted = [s \in Streams |-> {}]
    /\ item = [s \in Streams |-> Nothing]
    /\ todo = [s \in Streams |-> {}] /\ fired = [s \in Streams |-> {}]
    /\ breaks = 0 /\ moves = 0
    /\ reports = [a \in Alerts |-> 0]
    /\ crossed = {a \in Alerts : Reached(a, market[Conid[a]])}

-----------------------------------------------------------------------------
(* The world around a stream. *)

\* add_price_alert, from a tool call or from any other process.
Add(a) ==
    /\ alerts[a] = "none"
    /\ alerts' = [alerts EXCEPT ![a] = "active"]
    /\ UNCHANGED <<market, inbox, loop, breaks, moves, history>>

Move(c, q) ==
    /\ moves < MaxMoves /\ q # market[c]
    /\ market' = [market EXCEPT ![c] = q]
    /\ moves' = moves + 1
    /\ crossed' = crossed \cup {a \in Alerts : Conid[a] = c /\ Reached(a, q)}
    /\ UNCHANGED <<alerts, inbox, loop, breaks, reports>>

Send(s, frame) ==
    /\ stage[s] # "connecting" /\ Len(inbox[s]) < MaxInbox
    /\ inbox' = [inbox EXCEPT ![s] = Append(@, frame)]
    /\ UNCHANGED <<alerts, market, loop, breaks, moves, history>>

\* The gateway sends smd+ frames only for a subscription.
SendQuote(s, c) == c \in subs[s] /\ Send(s, QuoteFrame(c, market[c]))

\* Executions and P&L, subscribed at the start of every connection.
SendOther(s) == Send(s, Other)

-----------------------------------------------------------------------------
(* _stream_loop. *)

\* Mutant: the subscriptions are looked at when a quote comes in.
OnReceiveQuotesOnly(frame) == IF frame.kind = "quote" THEN "reading" ELSE "checking"

\* "On every message, whatever its type".
OnReceive(frame) == "reading"

\* The alerts are read "before the loop, not inside it" only.
Connect(s) ==
    /\ stage[s] = "connecting"
    /\ stage' = [stage EXCEPT ![s] = "reading"]
    /\ UNCHANGED <<alerts, market, inbox, subs, wanted, item, todo, fired, breaks, moves, history>>

\* _reconcile_alert_subscriptions: the active alerts are read once,
ReadAlerts(s) ==
    /\ stage[s] = "reading"
    /\ wanted' = [wanted EXCEPT ![s] = {Conid[a] : a \in Active}]
    /\ stage' = [stage EXCEPT ![s] = "syncing"]
    /\ UNCHANGED <<alerts, market, inbox, subs, item, todo, fired, breaks, moves, history>>

\* then every send is awaited, first the new contracts,
Subscribe(s) ==
    /\ stage[s] = "syncing"
    /\ \E c \in wanted[s] \ subs[s] : subs' = [subs EXCEPT ![s] = @ \cup {c}]
    /\ UNCHANGED <<alerts, market, inbox, stage, wanted, item, todo, fired, breaks, moves, history>>

\* Mutant: nothing is ever unsubscribed.
SurplusNone(s) == {}

Surplus(s) == subs[s] \ wanted[s]

\* and then the others.
Unsubscribe(s) ==
    /\ stage[s] = "syncing" /\ wanted[s] \subseteq subs[s]
    /\ \E c \in Surplus(s) : subs' = [subs EXCEPT ![s] = @ \ {c}]
    /\ UNCHANGED <<alerts, market, inbox, stage, wanted, item, todo, fired, breaks, moves, history>>

AfterSync(s) == IF item[s] = Nothing THEN "waiting" ELSE "checking"

Synced(s) ==
    /\ stage[s] = "syncing" /\ wanted[s] \subseteq subs[s] /\ Surplus(s) = {}
    /\ stage' = [stage EXCEPT ![s] = AfterSync(s)]
    /\ UNCHANGED <<alerts, market, inbox, subs, wanted, item, todo, fired, breaks, moves, history>>

Receive(s) ==
    /\ stage[s] = "waiting" /\ inbox[s] # <<>>
    /\ item' = [item EXCEPT ![s] = Head(inbox[s])]
    /\ inbox' = [inbox EXCEPT ![s] = Tail(@)]
    /\ stage' = [stage EXCEPT ![s] = OnReceive(Head(inbox[s]))]
    /\ UNCHANGED <<alerts, market, subs, wanted, todo, fired, breaks, moves, history>>

\* Executions and P&L go to tables of their own.
HandleOther(s) ==
    /\ stage[s] = "checking" /\ item[s].kind = "other"
    /\ item' = [item EXCEPT ![s] = Nothing]
    /\ stage' = [stage EXCEPT ![s] = "waiting"]
    /\ UNCHANGED <<alerts, market, inbox, subs, wanted, todo, fired, breaks, moves, history>>

\* check_quote: the alerts that the quote hits, as the table is now.
Check(s) ==
    /\ stage[s] = "checking" /\ item[s].kind = "quote"
    /\ todo' = [todo EXCEPT ![s] =
           {a \in Active : Usable(item[s]) /\ Conid[a] = item[s].conid /\ Hit(a, item[s].last)}]
    /\ stage' = [stage EXCEPT ![s] = "marking"]
    /\ UNCHANGED <<alerts, market, inbox, subs, wanted, item, fired, breaks, moves, history>>

\* Mutants: the table is not written; the alert is not handed to the caller.
MarkMemoryOnly(s, a) ==
    /\ stage[s] = "marking" /\ a \in todo[s]
    /\ todo' = [todo EXCEPT ![s] = @ \ {a}]
    /\ fired' = [fired EXCEPT ![s] = @ \cup {a}]
    /\ UNCHANGED <<alerts, market, inbox, stage, subs, wanted, item, breaks, moves, history>>
MarkSilently(s, a) ==
    /\ stage[s] = "marking" /\ a \in todo[s]
    /\ alerts' = [alerts EXCEPT ![a] = "triggered"]
    /\ todo' = [todo EXCEPT ![s] = @ \ {a}]
    /\ UNCHANGED <<market, inbox, stage, subs, wanted, item, fired, breaks, moves, history>>

\* check_quote marks the alerts one by one, each in a transaction of its own.
Mark(s, a) ==
    /\ stage[s] = "marking" /\ a \in todo[s]
    /\ alerts' = [alerts EXCEPT ![a] = "triggered"]
    /\ todo' = [todo EXCEPT ![s] = @ \ {a}]
    /\ fired' = [fired EXCEPT ![s] = @ \cup {a}]
    /\ UNCHANGED <<market, inbox, stage, subs, wanted, item, breaks, moves, history>>

\* check_quote returns the alerts and the loop logs them.
Report(s) ==
    /\ stage[s] = "marking" /\ todo[s] = {}
    /\ reports' = [a \in Alerts |-> reports[a] + (IF a \in fired[s] THEN 1 ELSE 0)]
    /\ fired' = [fired EXCEPT ![s] = {}]
    /\ item' = [item EXCEPT ![s] = Nothing]
    /\ stage' = [stage EXCEPT ![s] = "waiting"]
    /\ UNCHANGED <<alerts, market, inbox, subs, wanted, todo, breaks, moves, crossed>>

\* The socket closes, a read or write of the database raises, or the process ends and is
\* started again: the connection and the variables of the loop are gone, the table is not.
Break(s) ==
    /\ stage[s] # "connecting" /\ breaks < MaxBreaks
    /\ breaks' = breaks + 1
    /\ stage' = [stage EXCEPT ![s] = "connecting"]
    /\ inbox' = [inbox EXCEPT ![s] = <<>>]
    /\ subs' = [subs EXCEPT ![s] = {}] /\ wanted' = [wanted EXCEPT ![s] = {}]
    /\ item' = [item EXCEPT ![s] = Nothing]
    /\ todo' = [todo EXCEPT ![s] = {}] /\ fired' = [fired EXCEPT ![s] = {}]
    /\ UNCHANGED <<alerts, market, moves, history>>

Step(s) ==
    \/ Connect(s) \/ ReadAlerts(s) \/ Subscribe(s) \/ Unsubscribe(s) \/ Synced(s)
    \/ Receive(s) \/ HandleOther(s) \/ Check(s) \/ Report(s)
    \/ \E a \in Alerts : Mark(s, a)

Next ==
    \/ \E a \in Alerts : Add(a)
    \/ \E c \in Conids, q \in Quotes : Move(c, q)
    \/ \E s \in Streams : Step(s) \/ Break(s) \/ SendOther(s) \/ \E c \in Conids : SendQuote(s, c)

Spec == Init /\ [][Next]_vars

\* The loop is scheduled and connects again; the gateway goes on to send P&L and the
\* quotes of a subscribed contract.
FairSpec ==
    /\ Spec
    /\ \A s \in Streams : WF_vars(Step(s)) /\ SF_vars(SendOther(s))
    /\ \A s \in Streams, c \in Conids : SF_vars(SendQuote(s, c))

-----------------------------------------------------------------------------
(* Properties. *)

TypeOK ==
    /\ alerts \in [Alerts -> {"none", "active", "triggered"}]
    /\ market \in [Conids -> Quotes]
    /\ stage \in [Streams -> Stages]
    /\ inbox \in [Streams -> Seq(Frames)] /\ item \in [Streams -> Frames \cup {Nothing}]
    /\ subs \in [Streams -> SUBSET Conids] /\ wanted \in [Streams -> SUBSET Conids]
    /\ todo \in [Streams -> SUBSET Alerts] /\ fired \in [Streams -> SUBSET Alerts]
    /\ breaks \in Nat /\ moves \in Nat
    /\ reports \in [Alerts -> Nat] /\ crossed \subseteq Alerts
    \* The loop works on an item exactly while it says so.
    /\ \A s \in Streams :
         /\ stage[s] \in {"checking", "marking"} => item[s] # Nothing
         /\ stage[s] = "waiting" => item[s] = Nothing

\* AlertManager: "so a trigger survives a restart and cannot re-fire": an alert is reported
\* at most once, whatever breaks and however the market moves.
CannotRefire == \A a \in Alerts : reports[a] <= 1

\* check_quote: an alert fires only after a trade of today has reached its threshold; the
\* previous day's close and ticks without a price never fire it.
FiresForATrade ==
    \A a \in Alerts : alerts[a] = "triggered" \/ reports[a] > 0 => a \in crossed

\* check_quote returns "the alert rows that newly triggered, already marked": unless
\* something broke, a marked alert has been reported or is about to be.
MarkedIsReported ==
    \A a \in Alerts : alerts[a] = "triggered" /\ breaks = 0 =>
        reports[a] > 0 \/ \E s \in Streams : a \in fired[s]

\* _stream_loop: an alert whose threshold the market stays beyond does not stay active,
\* also when it was added after the loop started, on a contract nobody watches.
EveryCrossingFires ==
    \A a \in Alerts : []<>(alerts[a] # "active" \/ ~Reached(a, market[Conid[a]]))

\* _reconcile_alert_subscriptions: a contract without an active alert does not stay subscribed.
SubscriptionsReleased ==
    \A s \in Streams, c \in Conids :
        []<>(c \notin subs[s] \/ \E a \in Active : Conid[a] = c)
=============================================================================
