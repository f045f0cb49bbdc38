----------------------------- MODULE AlertProofs -----------------------------
(***************************************************************************)
(* Facts about the local price alerts, for every table of alerts and every *)
(* number of contracts, frames and failures:                               *)
(*   - with one stream on the database, an alert is reported at most once; *)
(*   - with any number of streams, it fires only for a trade, and once it  *)
(*     is marked it is reported, unless something breaks.                  *)
(* The first needs that nobody else marks an alert between the stream's    *)
(* check and its mark, which is why it asks for one stream.                *)
(***************************************************************************)
EXTENDS AlertStream, SequenceTheorems, TLAPS

\* A quote with a price of today comes from a trade: every alert it hits was reached.
Witnessed(f) ==
    f.kind = "quote" /\ Usable(f) =>
        \A a \in Alerts : Conid[a] = f.conid /\ Hit(a, f.last) => a \in crossed

QuotesWitnessed ==
    /\ \A a \in Alerts : Reached(a, market[Conid[a]]) => a \in crossed
    /\ \A s \in Streams : \A i \in DOMAIN inbox[s] : Witnessed(inbox[s][i])
    /\ \A s \in Streams : item[s] # Nothing => Witnessed(item[s])

\* Whatever the loop is about to mark or has marked was reached.
FiringWitnessed ==
    /\ \A s \in Streams : todo[s] \subseteq crossed /\ fired[s] \subseteq crossed
    /\ \A a \in Alerts : alerts[a] = "triggered" \/ reports[a] > 0 => a \in crossed

TradeInv == QuotesWitnessed /\ FiringWitnessed

\* One stream: what it is about to mark is active, what it has marked is marked in the
\* table and has not been reported, and only marked alerts have been.
OnceInv ==
    /\ \A s \in Streams : \A a \in todo[s] : alerts[a] = "active"
    /\ \A s \in Streams : \A a \in fired[s] : alerts[a] = "triggered" /\ reports[a] = 0
    /\ \A a \in Alerts : reports[a] > 0 => alerts[a] = "triggered"
    /\ \A a \in Alerts : reports[a] <= 1

-----------------------------------------------------------------------------
(* Types. *)

LEMMA TypeInit == Init => TypeOK
  BY AlertConstants DEF Init, TypeOK, Stages

LEMMA FrameTypes ==
    /\ Other \in Frames
    /\ \A c \in Conids, q \in Quotes : QuoteFrame(c, q) \in Frames
  BY DEF Frames

LEMMA TypeStep == TypeOK /\ [Next]_vars => TypeOK'
<1> SUFFICES ASSUME TypeOK, [Next]_vars PROVE TypeOK'
  OBVIOUS
<1>1. ASSUME NEW a \in Alerts, Add(a) PROVE TypeOK'
  BY <1>1 DEF Add, TypeOK, loop, history
<1>2. ASSUME NEW c \in Conids, NEW q \in Quotes, Move(c, q) PROVE TypeOK'
  BY <1>2 DEF Move, TypeOK, loop
<1>3. ASSUME NEW s \in Streams, NEW f \in Frames, Send(s, f) PROVE TypeOK'
  <2>1. Append(inbox[s], f) \in Seq(Frames)
    BY DEF TypeOK
  <2>2. inbox' \in [Streams -> Seq(Frames)]
    BY <1>3, <2>1 DEF Send, TypeOK
  <2> QED BY <1>3, <2>2 DEF Send, TypeOK, loop, history
<1>4. ASSUME NEW s \in Streams, Connect(s) PROVE TypeOK'
  BY <1>4 DEF Connect, TypeOK, Stages, history
<1>5. ASSUME NEW s \in Streams, ReadAlerts(s) PROVE TypeOK'
  <2>1. {Conid[a] : a \in Active} \subseteq Conids
    BY AlertConstants DEF Active
  <2> QED BY <1>5, <2>1 DEF ReadAlerts, TypeOK, Stages, history
<1>6. ASSUME NEW s \in Streams, Subscribe(s) \/ Unsubscribe(s) PROVE TypeOK'
  <2>1. subs' \in [Streams -> SUBSET Conids]
    <3>1. PICK c \in Conids : subs' = [subs EXCEPT ![s] = @ \cup {c}] \/ subs' = [subs EXCEPT ![s] = @ \ {c}]
      BY <1>6 DEF Subscribe, Unsubscribe, Surplus, TypeOK
    <3>2. subs[s] \cup {c} \in SUBSET Conids /\ subs[s] \ {c} \in SUBSET Conids
      BY DEF TypeOK
    <3> QED BY <3>1, <3>2 DEF TypeOK
  <2>2. UNCHANGED <<alerts, market, inbox, stage, wanted, item, todo, fired, breaks, moves, history>>
    BY <1>6 DEF Subscribe, Unsubscribe
  <2> QED BY <2>1, <2>2 DEF TypeOK, history
<1>7. ASSUME NEW s \in Streams, Synced(s) PROVE TypeOK'
  BY <1>7 DEF Synced, AfterSync, TypeOK, Stages, history
<1>8. ASSUME NEW s \in Streams, Receive(s) PROVE TypeOK'
  <2>1. inbox[s] \in Seq(Frames) /\ inbox[s] # <<>>
    BY <1>8 DEF Receive, TypeOK
  <2>2. Head(inbox[s]) \in Frames /\ Tail(inbox[s]) \in Seq(Frames)
    BY <2>1
  <2>3. /\ item' \in [Streams -> Frames \cup {Nothing}]
        /\ inbox' \in [Streams -> Seq(Frames)]
        /\ stage' \in [Streams -> Stages]
    BY <1>8, <2>2 DEF Receive, OnReceive, TypeOK, Stages
  <2>4. \A t \in Streams : /\ stage'[t] \in {"checking", "marking"} => item'[t] # Nothing
                           /\ stage'[t] = "waiting" => item'[t] = Nothing
    BY <1>8 DEF Receive, OnReceive, TypeOK
  <2> QED BY <1>8, <2>3, <2>4 DEF Receive, TypeOK, history
<1>9. ASSUME NEW s \in Streams, HandleOther(s) PROVE TypeOK'
  BY <1>9 DEF HandleOther, TypeOK, Stages, history
<1>10. ASSUME NEW s \in Streams, Check(s) PROVE TypeOK'
  BY <1>10 DEF Check, Active, TypeOK, Stages, history
<1>11. ASSUME NEW s \in Streams, NEW a \in Alerts, Mark(s, a) PROVE TypeOK'
  BY <1>11 DEF Mark, TypeOK, history
<1>12. ASSUME NEW s \in Streams, Report(s) PROVE TypeOK'
  <2>1. reports' \in [Alerts -> Nat]
    BY <1>12 DEF Report, TypeOK
  <2> QED BY <1>12, <2>1 DEF Report, TypeOK, Stages
<1>13. ASSUME NEW s \in Streams, Break(s) PROVE TypeOK'
  BY <1>13 DEF Break, TypeOK, Stages, history
<1>14. CASE UNCHANGED vars
  BY <1>14 DEF vars, loop, history, TypeOK
<1> QED BY <1>1, <1>2, <1>3, <1>4, <1>5, <1>6, <1>7, <1>8, <1>9, <1>10, <1>11, <1>12, <1>13,
           <1>14, FrameTypes DEF Next, Step, SendQuote, SendOther, TypeOK

\* The stream loop: every reachable state has its types, and the loop works on an item
\* exactly at the stages that have one.
THEOREM AlertTypes == Spec => []TypeOK
  BY TypeInit, TypeStep, PTL DEF Spec

-----------------------------------------------------------------------------
(* An alert fires only for a trade. *)

LEMMA TradeInit == Init => TradeInv
  BY AlertConstants DEF Init, TradeInv, QuotesWitnessed, FiringWitnessed, Witnessed

\* What the gateway sends is what the market is.
LEMMA SentWitnessed ==
    ASSUME QuotesWitnessed, NEW c \in Conids
    PROVE  Witnessed(QuoteFrame(c, market[c]))
  BY DEF QuotesWitnessed, Witnessed, QuoteFrame, Usable, Reached

LEMMA TradeStep == TypeOK /\ TradeInv /\ [Next]_vars => TradeInv'
<1> SUFFICES ASSUME TypeOK, TradeInv, [Next]_vars PROVE TradeInv'
  OBVIOUS
<1> USE DEF TradeInv
<1>1. ASSUME NEW a \in Alerts, Add(a) PROVE TradeInv'
  BY <1>1 DEF Add, TypeOK, loop, history, QuotesWitnessed, FiringWitnessed, Witnessed
<1>2. ASSUME NEW c \in Conids, NEW q \in Quotes, Move(c, q) PROVE TradeInv'
  <2>1. crossed' = crossed \cup {a \in Alerts : Conid[a] = c /\ Reached(a, q)}
        /\ market' = [market EXCEPT ![c] = q]
        /\ UNCHANGED <<alerts, inbox, item, todo, fired, reports>>
    BY <1>2 DEF Move, loop
  <2>2. \A a \in Alerts : Reached(a, market'[Conid[a]]) => a \in crossed'
    BY <2>1, AlertConstants DEF QuotesWitnessed, TypeOK
  <2>3. (\A s \in Streams : \A i \in DOMAIN inbox[s] : Witnessed(inbox[s][i]))'
    BY <2>1 DEF QuotesWitnessed, Witnessed
  <2>4. (\A s \in Streams : item[s] # Nothing => Witnessed(item[s]))'
    BY <2>1 DEF QuotesWitnessed, Witnessed
  <2>5. FiringWitnessed'
    BY <2>1 DEF FiringWitnessed
  <2>6. (\A a \in Alerts : Reached(a, market[Conid[a]]) => a \in crossed)'
    BY <2>2 DEF Reached
  <2> QED BY <2>3, <2>4, <2>5, <2>6 DEF QuotesWitnessed
<1>3. ASSUME NEW s \in Streams, NEW f \in Frames, Witnessed(f), Send(s, f) PROVE TradeInv'
  <2>1. /\ inbox' = [inbox EXCEPT ![s] = Append(@, f)]
        /\ UNCHANGED <<alerts, market, item, todo, fired, reports, crossed>>
    BY <1>3 DEF Send, loop, history
  <2>2. ASSUME NEW t \in Streams, NEW i \in DOMAIN inbox'[t] PROVE Witnessed(inbox'[t][i])
    <3>1. inbox[s] \in Seq(Frames)
      BY DEF TypeOK
    <3>2. \A j \in DOMAIN Append(inbox[s], f) : Witnessed(Append(inbox[s], f)[j])
      BY <1>3, <3>1 DEF QuotesWitnessed
    <3> QED BY <2>1, <2>2, <3>2 DEF QuotesWitnessed, TypeOK
  <2>3. QuotesWitnessed'
    BY <2>1, <2>2 DEF QuotesWitnessed, Witnessed
  <2> QED BY <2>1, <2>3 DEF FiringWitnessed
<1>4. ASSUME NEW s \in Streams, Connect(s) \/ ReadAlerts(s) \/ Subscribe(s) \/ Unsubscribe(s) \/ Synced(s)
      PROVE  TradeInv'
  <2>1. UNCHANGED <<alerts, market, inbox, item, todo, fired, reports, crossed>>
    BY <1>4 DEF Connect, ReadAlerts, Subscribe, Unsubscribe, Synced, history
  <2> QED BY <2>1 DEF QuotesWitnessed, FiringWitnessed, Witnessed
<1>5. ASSUME NEW s \in Streams, Receive(s) PROVE TradeInv'
  <2>1. /\ item' = [item EXCEPT ![s] = Head(inbox[s])]
        /\ inbox' = [inbox EXCEPT ![s] = Tail(@)]
        /\ UNCHANGED <<alerts, market, todo, fired, reports, crossed>>
        /\ inbox[s] # <<>>
    BY <1>5 DEF Receive, history
  <2>2. inbox[s] \in Seq(Frames) /\ \A i \in DOMAIN inbox[s] : Witnessed(inbox[s][i])
    BY DEF TypeOK, QuotesWitnessed
  <2>3. Witnessed(Head(inbox[s]))
    <3>1. Head(inbox[s]) = inbox[s][1] /\ 1 \in DOMAIN inbox[s]
      BY <2>1, <2>2
    <3> QED BY <2>2, <3>1
  <2>4. \A i \in DOMAIN Tail(inbox[s]) : Witnessed(Tail(inbox[s])[i])
    <3>1. \A i \in DOMAIN Tail(inbox[s]) :
             i + 1 \in DOMAIN inbox[s] /\ Tail(inbox[s])[i] = inbox[s][i + 1]
      BY <2>1, <2>2
    <3> QED BY <2>2, <3>1
  <2>5. \A t \in Streams : \A i \in DOMAIN inbox'[t] : Witnessed(inbox'[t][i])
    BY <2>1, <2>4 DEF QuotesWitnessed, TypeOK
  <2>6. \A t \in Streams : item'[t] # Nothing => Witnessed(item'[t])
    BY <2>1, <2>3 DEF QuotesWitnessed, TypeOK
  <2>7. QuotesWitnessed'
    BY <2>1, <2>5, <2>6 DEF QuotesWitnessed, Witnessed
  <2> QED BY <2>1, <2>7 DEF FiringWitnessed
<1>6. ASSUME NEW s \in Streams, HandleOther(s) PROVE TradeInv'
  <2>1. /\ item' = [item EXCEPT ![s] = Nothing]
        /\ UNCHANGED <<alerts, market, inbox, todo, fired, reports, crossed>>
    BY <1>6 DEF HandleOther, history
  <2> QED BY <2>1 DEF QuotesWitnessed, FiringWitnessed, Witnessed, TypeOK
<1>7. ASSUME NEW s \in Streams, Check(s) PROVE TradeInv'
  <2> DEFINE hits == {a \in Active : Usable(item[s]) /\ Conid[a] = item[s].conid /\ Hit(a, item[s].last)}
  <2>1. /\ todo' = [todo EXCEPT ![s] = hits]
        /\ UNCHANGED <<alerts, market, inbox, item, fired, reports, crossed>>
        /\ item[s].kind = "quote" /\ stage[s] = "checking"
    BY <1>7 DEF Check, history
  <2>2. Witnessed(item[s])
    BY <2>1 DEF QuotesWitnessed, TypeOK
  <2>3. hits \subseteq crossed
    BY <2>1, <2>2 DEF Witnessed, Active
  <2> HIDE DEF hits
  <2>4. FiringWitnessed'
    BY <2>1, <2>3 DEF FiringWitnessed, TypeOK
  <2> QED BY <2>1, <2>4 DEF QuotesWitnessed, Witnessed
<1>8. ASSUME NEW s \in Streams, NEW a \in Alerts, Mark(s, a) PROVE TradeInv'
  <2>1. /\ alerts' = [alerts EXCEPT ![a] = "triggered"]
        /\ todo' = [todo EXCEPT ![s] = @ \ {a}] /\ fired' = [fired EXCEPT ![s] = @ \cup {a}]
        /\ UNCHANGED <<market, inbox, item, reports, crossed>> /\ a \in todo[s]
    BY <1>8 DEF Mark, history
  <2>2. a \in crossed
    BY <2>1 DEF FiringWitnessed
  <2>3. FiringWitnessed'
    BY <2>1, <2>2 DEF FiringWitnessed, TypeOK
  <2> QED BY <2>1, <2>3 DEF QuotesWitnessed, Witnessed
<1>9. ASSUME NEW s \in Streams, Report(s) PROVE TradeInv'
  <2>1. /\ reports' = [a \in Alerts |-> reports[a] + (IF a \in fired[s] THEN 1 ELSE 0)]
        /\ fired' = [fired EXCEPT ![s] = {}] /\ item' = [item EXCEPT ![s] = Nothing]
        /\ UNCHANGED <<alerts, market, inbox, todo, crossed>>
    BY <1>9 DEF Report
  <2>2. \A a \in Alerts : reports'[a] > 0 => a \in crossed
    BY <2>1 DEF FiringWitnessed, TypeOK
  <2>3. FiringWitnessed'
    BY <2>1, <2>2 DEF FiringWitnessed, TypeOK
  <2>4. QuotesWitnessed'
    BY <2>1 DEF QuotesWitnessed, Witnessed, TypeOK
  <2> QED BY <2>3, <2>4
<1>10. ASSUME NEW s \in Streams, Break(s) PROVE TradeInv'
  <2>1. /\ inbox' = [inbox EXCEPT ![s] = <<>>] /\ item' = [item EXCEPT ![s] = Nothing]
        /\ todo' = [todo EXCEPT ![s] = {}] /\ fired' = [fired EXCEPT ![s] = {}]
        /\ UNCHANGED <<alerts, market, reports, crossed>>
    BY <1>10 DEF Break, history
  <2>2. FiringWitnessed'
    BY <2>1 DEF FiringWitnessed, TypeOK
  <2>3. QuotesWitnessed'
    BY <2>1 DEF QuotesWitnessed, Witnessed, TypeOK
  <2> QED BY <2>2, <2>3
<1>11. CASE UNCHANGED vars
  BY <1>11 DEF vars, loop, history, QuotesWitnessed, FiringWitnessed, Witnessed
<1>12. Witnessed(Other)
  BY DEF Witnessed, Other
<1>13. ASSUME NEW s \in Streams, SendOther(s) PROVE TradeInv'
  BY <1>3, <1>12, <1>13, FrameTypes DEF SendOther
<1>14. ASSUME NEW s \in Streams, NEW c \in Conids, SendQuote(s, c) PROVE TradeInv'
  <2>1. market[c] \in Quotes
    BY DEF TypeOK
  <2>2. QuoteFrame(c, market[c]) \in Frames /\ Witnessed(QuoteFrame(c, market[c]))
    BY <2>1, FrameTypes, SentWitnessed
  <2> QED BY <1>3, <1>14, <2>2 DEF SendQuote
<1> QED BY <1>1, <1>2, <1>4, <1>5, <1>6, <1>7, <1>8, <1>9, <1>10, <1>11, <1>13, <1>14
        DEF Next, Step

\* check_quote: no alert fires for a previous day's close, for a tick without a price or for
\* another contract's quote, with any number of streams and failures.
THEOREM FiresOnlyForATrade == Spec => []FiresForATrade
<1>1. TradeInv => FiresForATrade
  BY DEF TradeInv, FiringWitnessed, FiresForATrade
<1> QED BY <1>1, AlertTypes, TradeInit, TradeStep, PTL DEF Spec

-----------------------------------------------------------------------------
(* An alert is reported once. *)

LEMMA OnceInit == Init => OnceInv
  BY DEF Init, OnceInv

LEMMA OnceStep ==
    ASSUME \A s, t \in Streams : s = t
    PROVE  TypeOK /\ OnceInv /\ [Next]_vars => OnceInv'
<1> SUFFICES ASSUME TypeOK, OnceInv, [Next]_vars PROVE OnceInv'
  OBVIOUS
<1>1. ASSUME NEW a \in Alerts, Add(a) PROVE OnceInv'
  BY <1>1 DEF Add, OnceInv, TypeOK, loop, history
<1>2. ASSUME UNCHANGED <<alerts, todo, fired, reports>> PROVE OnceInv'
  BY <1>2 DEF OnceInv
<1>3. ASSUME NEW s \in Streams, Check(s) PROVE OnceInv'
  <2>1. todo' = [todo EXCEPT ![s] = todo'[s]] /\ todo'[s] \subseteq Active
        /\ UNCHANGED <<alerts, fired, reports>>
    BY <1>3 DEF Check, history, TypeOK
  <2> QED BY <2>1 DEF OnceInv, Active, TypeOK
<1>4. ASSUME NEW s \in Streams, NEW a \in Alerts, Mark(s, a) PROVE OnceInv'
  <2>1. /\ alerts' = [alerts EXCEPT ![a] = "triggered"]
        /\ todo'[s] = todo[s] \ {a} /\ fired'[s] = fired[s] \cup {a}
        /\ reports' = reports /\ a \in todo[s]
    BY <1>4 DEF Mark, history, TypeOK
  <2>2. alerts[a] = "active" /\ reports[a] = 0
    <3>1. alerts[a] = "active"
      BY <2>1 DEF OnceInv
    <3>2. ~(reports[a] > 0) /\ reports[a] \in Nat
      BY <3>1 DEF OnceInv, TypeOK
    <3> QED BY <3>1, <3>2
  <2>3. \A t \in Streams : t = s
    OBVIOUS
  <2>4. \A b \in Alerts : alerts'[b] = IF b = a THEN "triggered" ELSE alerts[b]
    BY <2>1 DEF TypeOK
  <2>5. \A b \in todo'[s] : alerts'[b] = "active"
    BY <2>1, <2>4 DEF OnceInv, TypeOK
  <2>6. \A b \in fired'[s] : alerts'[b] = "triggered" /\ reports'[b] = 0
    BY <2>1, <2>2, <2>4 DEF OnceInv, TypeOK
  <2>7. \A b \in Alerts : (reports'[b] > 0 => alerts'[b] = "triggered") /\ reports'[b] <= 1
    BY <2>1, <2>4 DEF OnceInv
  <2> QED BY <2>3, <2>5, <2>6, <2>7 DEF OnceInv
<1>5. ASSUME NEW s \in Streams, Report(s) PROVE OnceInv'
  <2>1. /\ reports' = [a \in Alerts |-> reports[a] + (IF a \in fired[s] THEN 1 ELSE 0)]
        /\ fired'[s] = {} /\ todo' = todo /\ alerts' = alerts
    BY <1>5 DEF Report, TypeOK
  <2>2. \A t \in Streams : t = s
    OBVIOUS
  <2>3. ASSUME NEW a \in Alerts
        PROVE  (reports'[a] > 0 => alerts'[a] = "triggered") /\ reports'[a] <= 1
    <3>1. CASE a \in fired[s]
      BY <2>1, <3>1 DEF OnceInv
    <3>2. CASE a \notin fired[s]
      BY <2>1, <3>2 DEF OnceInv, TypeOK
    <3> QED BY <3>1, <3>2
  <2> QED BY <2>1, <2>2, <2>3 DEF OnceInv
<1>6. ASSUME NEW s \in Streams, Break(s) PROVE OnceInv'
  <2>1. /\ todo' = [todo EXCEPT ![s] = {}] /\ fired' = [fired EXCEPT ![s] = {}]
        /\ UNCHANGED <<alerts, reports>>
    BY <1>6 DEF Break, history
  <2> QED BY <2>1 DEF OnceInv, TypeOK
<1>7. ASSUME NEW s \in Streams,
             \/ Connect(s) \/ ReadAlerts(s) \/ Subscribe(s) \/ Unsubscribe(s) \/ Synced(s)
             \/ Receive(s) \/ HandleOther(s) \/ SendOther(s) \/ \E c \in Conids : SendQuote(s, c)
      PROVE  UNCHANGED <<alerts, todo, fired, reports>>
  BY <1>7 DEF Connect, ReadAlerts, Subscribe, Unsubscribe, Synced, Receive, HandleOther,
      SendOther, SendQuote, Send, loop, history
<1>8. ASSUME NEW c \in Conids, NEW q \in Quotes, Move(c, q)
      PROVE  UNCHANGED <<alerts, todo, fired, reports>>
  BY <1>8 DEF Move, loop
<1>9. CASE UNCHANGED vars
  BY <1>2, <1>9 DEF vars, loop, history
<1> QED BY <1>1, <1>2, <1>3, <1>4, <1>5, <1>6, <1>7, <1>8, <1>9 DEF Next, Step

\* AlertManager: with one stream on the database, an alert is reported at most once, whatever
\* fails and however often the stream is started again.
THEOREM OneStreamNeverRefires ==
    ASSUME \A s, t \in Streams : s = t
    PROVE  Spec => []CannotRefire
<1>1. OnceInv => CannotRefire
  BY DEF OnceInv, CannotRefire
<1>2. TypeOK /\ OnceInv /\ [Next]_vars => OnceInv'
  BY OnceStep
<1> QED BY <1>1, <1>2, AlertTypes, OnceInit, PTL DEF Spec

-----------------------------------------------------------------------------
(* A marked alert is reported. *)

LEMMA MarkedInit == Init => MarkedIsReported
  BY DEF Init, MarkedIsReported

LEMMA MarkedStep == TypeOK /\ MarkedIsReported /\ [Next]_vars => MarkedIsReported'
<1> SUFFICES ASSUME TypeOK, MarkedIsReported, [Next]_vars, NEW a \in Alerts,
                    alerts'[a] = "triggered", breaks' = 0
             PROVE  reports'[a] > 0 \/ \E s \in Streams : a \in fired'[s]
  BY DEF MarkedIsReported
<1>1. ASSUME NEW b \in Alerts, Add(b)
      PROVE  alerts[a] = "triggered" /\ UNCHANGED <<fired, reports, breaks>>
  BY <1>1 DEF Add, TypeOK, loop, history
<1>2. ASSUME UNCHANGED <<alerts, fired, reports, breaks>>
      PROVE  alerts[a] = "triggered" /\ UNCHANGED <<fired, reports, breaks>>
  BY <1>2
<1>3. ASSUME alerts[a] = "triggered" /\ UNCHANGED <<fired, reports, breaks>>
      PROVE  reports'[a] > 0 \/ \E s \in Streams : a \in fired'[s]
  BY <1>3 DEF MarkedIsReported
<1>4. ASSUME NEW s \in Streams, NEW b \in Alerts, Mark(s, b)
      PROVE  reports'[a] > 0 \/ \E t \in Streams : a \in fired'[t]
  <2>1. /\ alerts' = [alerts EXCEPT ![b] = "triggered"] /\ fired' = [fired EXCEPT ![s] = @ \cup {b}]
        /\ UNCHANGED <<breaks, reports>>
    BY <1>4 DEF Mark, history
  <2>2. \A t \in Streams : fired[t] \subseteq fired'[t]
    BY <2>1 DEF TypeOK
  <2>3. CASE a = b
    BY <2>1, <2>3 DEF TypeOK
  <2>4. CASE a # b
    BY <2>1, <2>2, <2>4 DEF MarkedIsReported, TypeOK
  <2> QED BY <2>3, <2>4
<1>5. ASSUME NEW s \in Streams, Report(s)
      PROVE  reports'[a] > 0 \/ \E t \in Streams : a \in fired'[t]
  <2>1. /\ reports' = [b \in Alerts |-> reports[b] + (IF b \in fired[s] THEN 1 ELSE 0)]
        /\ fired' = [fired EXCEPT ![s] = {}] /\ UNCHANGED <<alerts, breaks>>
    BY <1>5 DEF Report
  <2>2. reports[a] \in Nat
    BY DEF TypeOK
  <2>3. CASE a \in fired[s] \/ reports[a] > 0
    BY <2>1, <2>2, <2>3
  <2>4. CASE ~(a \in fired[s] \/ reports[a] > 0)
    <3>1. PICK t \in Streams : a \in fired[t]
      BY <2>1, <2>4 DEF MarkedIsReported
    <3>2. fired'[t] = fired[t]
      BY <2>1, <2>4, <3>1 DEF TypeOK
    <3> QED BY <3>1, <3>2
  <2> QED BY <2>3, <2>4
<1>6. ASSUME NEW s \in Streams, Break(s) PROVE FALSE
  BY <1>6 DEF Break, TypeOK
<1>7. ASSUME NEW s \in Streams,
             \/ Connect(s) \/ ReadAlerts(s) \/ Subscribe(s) \/ Unsubscribe(s) \/ Synced(s)
             \/ Receive(s) \/ HandleOther(s) \/ Check(s) \/ SendOther(s)
             \/ \E c \in Conids : SendQuote(s, c)
      PROVE  UNCHANGED <<alerts, fired, reports, breaks>>
  BY <1>7 DEF Connect, ReadAlerts, Subscribe, Unsubscribe, Synced, Receive, HandleOther, Check,
      SendOther, SendQuote, Send, loop, history
<1>8. ASSUME NEW c \in Conids, NEW q \in Quotes, Move(c, q)
      PROVE  UNCHANGED <<alerts, fired, reports, breaks>>
  BY <1>8 DEF Move, loop
<1>9. CASE UNCHANGED vars
  BY <1>2, <1>3, <1>9 DEF vars, loop, history
<1> QED BY <1>1, <1>2, <1>3, <1>4, <1>5, <1>6, <1>7, <1>8, <1>9 DEF Next, Step

\* check_quote and the loop: until something breaks, an alert that is marked in the table has
\* been reported or is in the hands of the stream that is going to, whoever else marked it too.
THEOREM MarkedAlwaysReported == Spec => []MarkedIsReported
  BY AlertTypes, MarkedInit, MarkedStep, PTL DEF Spec
==============================================================================
