---------------------------- MODULE ContractChoice ----------------------------
(***************************************************************************)
(* Which contract a symbol means: _resolve_snapshot_conid and              *)
(* _resolve_stock_conid, and the chain of futures get_futures shows with   *)
(* one row of each root flagged as its front month (claude_tools.py).      *)
(*                                                                         *)
(* The gateway sends any rows in any order, keeps sending a contract that  *)
(* has expired, and a day may end between its answer and the look at the   *)
(* calendar.                                                               *)
(***************************************************************************)
EXTENDS Integers, SequencesExt

CONSTANTS
    None,
    Futures,     \* rows of a chain: [conid, ltd, expires, root]; 0 is no date
    Listings,    \* rows of one ticker, or of one currency: [conid, exchange, us];
                 \* `exchange` is a currency's pair, conid 0 none that can be read
    MaxRows,     \* bound: rows of an answer
    MaxDay,      \* bound: days
    MaxCalls     \* bound: calls

VARIABLES
    today,
    call,        \* [op, exchange, at, rows]: what is asked (of a currency, the pair),
                 \* and what the gateway sent
    answer,      \* [op, exchange, rows, day, says, conid, front] of the last call
    calls

vars == <<today, call, answer, calls>>

Exchanges == {r.exchange : r \in Listings}
Ops == {"root", "chain", "stock", "pair", "other"}
Idle == [op |-> None, exchange |-> None, at |-> "idle", rows |-> << >>]
NoAnswer == [op |-> None, exchange |-> None, rows |-> << >>, day |-> 0,
             says |-> None, conid |-> 0, front |-> {}]

Init == today = 1 /\ call = Idle /\ answer = NoAnswer /\ calls = 0

TypeOK ==
    /\ today \in 1..MaxDay /\ calls \in 0..MaxCalls
    /\ call.op \in Ops \cup {None} /\ call.at \in {"idle", "asked", "answered"}
    /\ call.exchange \in Exchanges \cup {None}
    /\ answer.says \in {None, "contract", "none", "expired", "ask", "chain"}
    /\ answer.conid # 0 <=> answer.says = "contract"
    /\ answer.front \subseteq {r.conid : r \in Futures}

Says(what) == [says |-> what, conid |-> 0]

\* A row whose conid is missing or no number names no contract.
Contract(row) ==
    IF row.conid = 0 THEN Says("none") ELSE [says |-> "contract", conid |-> row.conid]

(********************************* futures *********************************)

\* _last_trade_key: the last trading day, else the expiry, else unknown.
LastTrade(row) == IF row.ltd # 0 THEN row.ltd ELSE row.expires
Dated(row) == LastTrade(row) > 0

\* _still_tradeable: an unknown date is no claim that it expired.
StillTradeable(rows, of, day) == {i \in of : ~Dated(rows[i]) \/ LastTrade(rows[i]) >= day}

\* Mutant: the earliest expiry, an unknown one first.
EarliestExpiry(rows, of) ==
    rows[CHOOSE i \in of : \A j \in of : rows[i].expires <= rows[j].expires]

\* Down the rows by date; of equal dates, as they came.
Before(rows, i, j) ==
    \/ LastTrade(rows[i]) < LastTrade(rows[j])
    \/ LastTrade(rows[i]) = LastTrade(rows[j]) /\ i < j

\* min(..., key=_last_trade_key): of equal rows the first.
Earliest(rows, of) == rows[CHOOSE i \in of : \A j \in of : ~Before(rows, j, i)]

First(rows, of) == rows[CHOOSE i \in of : \A j \in of : i <= j]

\* The FUT branch of _resolve_snapshot_conid, for the rows `of` one root.
FrontMonth(rows, of, day) ==
    LET live == StillTradeable(rows, of, day)
        dated == {i \in live : Dated(rows[i])}
    IN  IF of = {} THEN Says("none")
        ELSE IF live = {} THEN Says("expired")
        ELSE Contract(IF dated # {} THEN Earliest(rows, dated) ELSE First(rows, live))

\* _sorted_with_front_month: down the rows in the order of their dates, the first
\* row of a root that has a date and still trades is its front month.
Flagged(rows, day) ==
    LET Candidate(i) == Dated(rows[i]) /\ LastTrade(rows[i]) >= day
        Leads(i) == \A j \in DOMAIN rows :
                       Candidate(j) /\ rows[j].root = rows[i].root => ~Before(rows, j, i)
    IN  {rows[i].conid : i \in {k \in DOMAIN rows : Candidate(k) /\ Leads(k)}}

(********************************* stocks **********************************)

Pick(rows, of) == IF of = {} THEN Says("ask") ELSE Contract(First(rows, of))

\* Mutant: whatever listing came first, as the resolver once did.
FirstSent(rows, exchange) ==
    IF rows = << >> THEN Says("none") ELSE Contract(First(rows, DOMAIN rows))

\* _resolve_stock_conid: the first listing on an exchange that is named, else the
\* US listing if there is one and only one; anything else is a question.
Stock(rows, exchange) ==
    LET matches == {i \in DOMAIN rows : rows[i].exchange = exchange}
        us == {i \in DOMAIN rows : rows[i].us}
    IN  IF rows = << >> THEN Says("none")
        ELSE IF exchange # None THEN Pick(rows, matches)
        ELSE IF \E i \in us : us = {i} THEN Pick(rows, us) ELSE Says("ask")

\* The CASH branch: the pair that was named, among those of its base currency.
Pair(rows, name) ==
    LET matches == {i \in DOMAIN rows : rows[i].exchange = name}
    IN  IF matches = {} THEN Says("none") ELSE Contract(First(rows, matches))

\* Indices and bonds: the search tells the exchange and nothing else.
Other(rows, exchange) ==
    IF rows = << >> THEN Says("none")
    ELSE Pick(rows, {i \in DOMAIN rows : exchange \in {None, rows[i].exchange}})

(********************************* a call **********************************)

Ask ==
    /\ call.at = "idle" /\ calls < MaxCalls /\ calls' = calls + 1
    /\ \E op \in Ops, e \in Exchanges \cup {None} :
         /\ op \in {"root", "chain"} => e = None
         /\ op = "pair" => e # None
         /\ call' = [Idle EXCEPT !.op = op, !.exchange = e, !.at = "asked"]
    /\ UNCHANGED <<today, answer>>

\* get_futures, get_stocks, get_currency_pairs, search_contract: the rows as they come.
GatewayAnswers ==
    /\ call.at = "asked"
    /\ \E rows \in BoundedSeq(IF call.op \in {"root", "chain"} THEN Futures ELSE Listings, MaxRows) :
         /\ call.op = "root" => \A i, j \in DOMAIN rows : rows[i].root = rows[j].root
         /\ call' = [call EXCEPT !.at = "answered", !.rows = rows]
    /\ UNCHANGED <<today, answer, calls>>

Resolved ==
    CASE call.op = "root"  -> FrontMonth(call.rows, DOMAIN call.rows, today)
      [] call.op = "chain" -> Says(IF call.rows = << >> THEN "none" ELSE "chain")
      [] call.op = "stock" -> Stock(call.rows, call.exchange)
      [] call.op = "pair"  -> Pair(call.rows, call.exchange)
      [] call.op = "other" -> Other(call.rows, call.exchange)

Resolve ==
    /\ call.at = "answered" /\ call' = Idle
    /\ answer' = [op |-> call.op, exchange |-> call.exchange, rows |-> call.rows, day |-> today,
                  says |-> Resolved.says, conid |-> Resolved.conid,
                  front |-> IF call.op = "chain" THEN Flagged(call.rows, today) ELSE {}]
    /\ UNCHANGED <<today, calls>>

\* The request fails and its error is the answer.
RequestFails ==
    /\ call.at = "asked" /\ call' = Idle /\ answer' = NoAnswer
    /\ UNCHANGED <<today, calls>>

Midnight == today < MaxDay /\ today' = today + 1 /\ UNCHANGED <<call, answer, calls>>

Next == Ask \/ GatewayAnswers \/ Resolve \/ RequestFails \/ Midnight

Busy == call.at # "idle"
Fairness == WF_vars(GatewayAnswers \/ Resolve \/ RequestFails)
Spec == Init /\ [][Next]_vars /\ Fairness

(******************************** properties *******************************)

(* FrontMonthTrades: neither a root that was resolved nor a row that was    *)
(* flagged is a contract whose last trading day had passed at the answer;   *)
(* no dated contract that still trades ends earlier; and what the chain     *)
(* flags is what the root resolves to (_sorted_with_front_month: "one rule  *)
(* cannot have two definitions").                                           *)
FrontMonthTrades ==
    LET row(c) == CHOOSE r \in Futures : r.conid = c
        chosen == answer.front \cup (IF answer.op = "root" THEN {answer.conid} \ {0} ELSE {})
        Of(root) == {i \in DOMAIN answer.rows : answer.rows[i].root = root}
        Known(root) == {i \in Of(root) : answer.rows[i].ltd >= answer.day}
    IN  /\ \A c \in chosen :
             /\ row(c).ltd # 0 => row(c).ltd >= answer.day
             /\ \A i \in Known(row(c).root) : answer.rows[i].ltd >= row(c).ltd
        /\ answer.op = "chain" =>
             \A root \in {r.root : r \in Range(answer.rows)} :
                Known(root) # {} =>
                   FrontMonth(answer.rows, Of(root), answer.day).conid \in answer.front

(* ListingAsked: a bare ticker resolves to a contract only when exactly one *)
(* of its listings is in the United States, and to that one, in whatever    *)
(* order the gateway sends them.  With an exchange it resolves to a listing *)
(* on that exchange, and of several to the first that was sent: there the   *)
(* order decides, and the docstring's "when exactly one listing is          *)
(* determined" does not hold of the code (_resolve_stock_conid).            *)
ListingAsked ==
    answer.op = "stock" /\ answer.says = "contract" =>
        \E k \in DOMAIN answer.rows :
            /\ answer.rows[k].conid = answer.conid
            /\ IF answer.exchange # None
               THEN /\ answer.rows[k].exchange = answer.exchange
                    /\ \A j \in DOMAIN answer.rows :
                          j < k => answer.rows[j].exchange # answer.exchange
               ELSE \A j \in DOMAIN answer.rows : answer.rows[j].us <=> j = k
=============================================================================
