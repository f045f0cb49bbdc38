------------------------------ MODULE FlexProofs ------------------------------
(***************************************************************************)
(* Theorems of FlexArchive, for any documents, fills and lots, and however *)
(* often calls, scripts, edits on Drive, failures and crashes happen: the  *)
(* tables are a function of what was stored, the import log tells the      *)
(* truth, and a trade keeps what was first seen of it (flex_store.py,      *)
(* flex_import.py, store.py).                                              *)
(*                                                                         *)
(* The invariant has a part for each thing that moves: the two tables, the *)
(* files, the call of the server and the script.  What ties them together: *)
(* a call at "full" or later has the trades of its document in the table,  *)
(* one at "log" has its file on Drive, and neither is ever taken away.     *)
(***************************************************************************)
EXTENDS FlexArchive, FiniteSetTheorems, WellFoundedInduction, TLAPS

(************************** the least of some names *************************)

Below == {p \in Nat \X Nat : p[1] < p[2]}

\* The order of the naturals, seen as that of the intervals 1..n.
LEMMA BelowWF == IsWellFoundedOn(Below, Nat)
<1> SUFFICES ASSUME NEW f \in [Nat -> Nat], \A n \in Nat : <<f[n + 1], f[n]>> \in Below PROVE FALSE
  BY DEF IsWellFoundedOn
<1> DEFINE g == [n \in Nat |-> 1..f[n]]
<1>1. \A n \in Nat : 1..f[n] \in FiniteSubsetsOf(Nat)
  <2> TAKE n \in Nat
  <2>1. IsFiniteSet(1..f[n])
    BY FS_Interval
  <2>2. 1..f[n] \in SUBSET Nat
    OBVIOUS
  <2> QED BY <2>1, <2>2 DEF FiniteSubsetsOf
<1>2. g \in [Nat -> FiniteSubsetsOf(Nat)]
  BY <1>1
<1>3. \A n \in Nat : <<g[n + 1], g[n]>> \in StrictSubsetOrdering(Nat)
  <2> TAKE n \in Nat
  <2>1. f[n + 1] \in Nat /\ f[n] \in Nat /\ f[n + 1] < f[n]
    BY DEF Below
  <2>2. f[n] \in 1..f[n] /\ f[n] \notin 1..f[n + 1] /\ 1..f[n + 1] \subseteq 1..f[n]
    BY <2>1
  <2>3. g[n] = 1..f[n] /\ g[n + 1] = 1..f[n + 1]
    OBVIOUS
  <2>4. g[n] \subseteq Nat
    BY <2>3
  <2> HIDE DEF g
  <2> QED BY <2>2, <2>3, <2>4 DEF StrictSubsetOrdering
<1> HIDE DEF g
<1>4. ~IsWellFoundedOn(StrictSubsetOrdering(Nat), FiniteSubsetsOf(Nat))
  BY <1>2, <1>3 DEF IsWellFoundedOn
<1> QED BY <1>4, FS_StrictSubsetOrderingWellFounded

LEMMA LeastNat ==
    ASSUME NEW nats \in SUBSET Nat, nats # {}
    PROVE  \E n \in nats : \A m \in nats : n <= m
<1>1. PICK n \in nats : \A m \in nats : <<m, n>> \notin Below
  BY BelowWF, WFMin
<1>2. ASSUME NEW m \in nats PROVE n <= m
  <2>1. <<m, n>> \in Nat \X Nat /\ ~(<<m, n>>[1] < <<m, n>>[2])
    BY <1>1 DEF Below
  <2> QED BY <2>1
<1> QED BY <1>2

Names == {d.name : d \in Docs}
LEMMA NamesNat == Names \subseteq Nat
  BY FlexConstants DEF Names

Files(f) == f \in [DOMAIN f -> Docs] /\ DOMAIN f \subseteq Names

\* The next file of a list that is not empty is a document of it.
LEMMA FirstIs ==
    ASSUME NEW f, Files(f), f # << >>
    PROVE  First(DOMAIN f) \in DOMAIN f /\ f[First(DOMAIN f)] \in Docs
<1>1. DOMAIN f # {}
  <2> SUFFICES ASSUME DOMAIN f = {} PROVE f = << >>
    OBVIOUS
  <2>1. f = [n \in DOMAIN f |-> f[n]]
    BY DEF Files
  <2>2. \A g : g = [n \in {} |-> f[n]] => g = << >>
    OBVIOUS
  <2> QED BY <2>1, <2>2
<1>2. \A n \in DOMAIN f : n \in Nat
  BY NamesNat DEF Files
<1>3. \E n \in DOMAIN f : \A m \in DOMAIN f : n <= m
  BY <1>1, <1>2, LeastNat
<1>4. First(DOMAIN f) \in DOMAIN f
  BY <1>3 DEF First
<1> QED BY <1>4 DEF Files

\* The oldest of some statements: the least "from", and of those the least "when".
LEMMA OldestIs ==
    ASSUME NEW todo \in SUBSET Docs, todo # {}
    PROVE  (CHOOSE x \in todo : \A y \in todo : Before(x, y)) \in todo
<1> DEFINE froms == {d.from : d \in todo}
<1>1. \A d \in todo : d.from \in Nat /\ d.when \in Nat
  BY FlexConstants
<1>2. PICK a \in froms : \A m \in froms : a <= m
  BY <1>1, LeastNat
<1> DEFINE first == {d \in todo : d.from = a}
           whens == {d.when : d \in first}
<1>3. first # {}
  BY <1>2
<1>4. whens # {} /\ whens \in SUBSET Nat
  BY <1>1, <1>3
<1> HIDE DEF whens
<1>5. PICK b \in whens : \A m \in whens : b <= m
  BY <1>4, LeastNat
<1> USE DEF whens
<1>6. PICK x \in first : x.when = b
  BY <1>5
<1>7. ASSUME NEW y \in todo PROVE Before(x, y)
  <2>1. x.from = a /\ a <= y.from /\ x.from \in Nat /\ y.from \in Nat
    BY <1>1, <1>2, <1>6
  <2>2. y.from = a => b <= y.when
    BY <1>5
  <2> QED BY <1>6, <2>1, <2>2 DEF Before
<1> QED BY <1>6, <1>7

(******************************** invariants *******************************)

TradesOK ==
    /\ DOMAIN trades \subseteq {ExecKey(e) : e \in Fills} \cup UNION {TradeIds(d) : d \in Docs}
    /\ \A k \in DOMAIN trades : DOMAIN trades[k] = {"first", "price", "pnl"}

FlexOK ==
    /\ DOMAIN flexTrade \subseteq {ExecKey(e) : e \in Fills} \cup UNION {FlexKeys(d) : d \in Docs}
    /\ \A k \in DOMAIN flexTrade : flexTrade[k].when \in Nat
    /\ stored \subseteq Docs
    /\ ArchiveIsImports

FilesOK == Files(drive) /\ Files(local) /\ DOMAIN log \subseteq DOMAIN drive

Shape == DOMAIN srv = {"at", "op", "doc", "polls", "files", "ids", "seen", "issues"}

CallTyped == [at |-> srv.at, op |-> srv.op, doc |-> srv.doc, polls |-> srv.polls] \in Call

\* What the call under way has done for its document, and can rely on.
CallKnown ==
    /\ srv.at \in {"poll", "trades", "full", "upload", "log"} => srv.doc \in Docs
    /\ srv.at \in {"full", "upload", "log"} => DOMAIN StatementRows(srv.doc) \subseteq DOMAIN trades
    /\ srv.at = "log" => srv.doc.name \in DOMAIN drive
    /\ Files(srv.files) /\ DOMAIN srv.files \subseteq DOMAIN drive
    /\ srv.ids \subseteq DOMAIN trades

CallOK == Shape /\ CallTyped /\ CallKnown

ScriptOK ==
    /\ DOMAIN script = {"at", "todo", "drop"}
    /\ script.at \in {"idle", "drop", "load"} /\ script.todo \subseteq Docs

FlexInv == TradesOK /\ FlexOK /\ FilesOK /\ CallOK /\ ScriptOK /\ LoggedIsStored

\* Nothing that a call relies on is taken from it.
Grows == DOMAIN trades \subseteq DOMAIN trades' /\ DOMAIN drive \subseteq DOMAIN drive'

LEMMA NoFiles == Files(<< >>) /\ DOMAIN << >> = {}
  BY DEF Files

LEMMA IdleOK == Return => CallOK'
<1> SUFFICES ASSUME Return PROVE CallOK'
  OBVIOUS
<1>1. srv' = [at |-> "idle", op |-> None, doc |-> None, polls |-> 0, files |-> <<>>,
              ids |-> {}, seen |-> {}, issues |-> FALSE]
  BY DEF Return, Idle
<1>2. Shape'
  BY <1>1 DEF Shape
<1>3. CallTyped'
  BY <1>1, FlexConstants DEF CallTyped, Call, Steps
<1>4. CallKnown'
  BY <1>1, NoFiles DEF CallKnown
<1> QED BY <1>2, <1>3, <1>4 DEF CallOK

LEMMA FlexInit == Init => FlexInv
<1> SUFFICES ASSUME Init PROVE FlexInv
  OBVIOUS
<1>1. TradesOK
  BY DEF Init, TradesOK
<1>2. FlexOK
  BY DEF Init, FlexOK, ArchiveIsImports
<1>3. FilesOK /\ LoggedIsStored
  BY NoFiles DEF Init, FilesOK, LoggedIsStored
<1>4. CallOK
  <2>1. srv = [at |-> "idle", op |-> None, doc |-> None, polls |-> 0, files |-> <<>>,
               ids |-> {}, seen |-> {}, issues |-> FALSE]
    BY DEF Init, Idle
  <2>2. Shape
    BY <2>1 DEF Shape
  <2>3. CallTyped
    BY <2>1, FlexConstants DEF CallTyped, Call, Steps
  <2>4. CallKnown
    BY <2>1, NoFiles DEF CallKnown
  <2> QED BY <2>2, <2>3, <2>4 DEF CallOK
<1>5. ScriptOK
  BY DEF Init, NoScript, ScriptOK
<1> QED BY <1>1, <1>2, <1>3, <1>4, <1>5 DEF FlexInv

(******************************** the tables *******************************)

LEMMA StatementIds == ASSUME NEW d \in Docs PROVE DOMAIN StatementRows(d) \subseteq TradeIds(d)
  BY DEF StatementRows, ValidTrades, TradeIds

\* What upsert_trades does to the table, for rows of its columns.
LEMMA UpsertKeeps ==
    ASSUME TradesOK, NEW rows, UpsertTrades(rows),
           \A k \in DOMAIN rows : DOMAIN rows[k] = {"first", "price", "pnl"},
           DOMAIN rows \subseteq {ExecKey(e) : e \in Fills} \cup UNION {TradeIds(d) : d \in Docs}
    PROVE  /\ TradesOK' /\ DOMAIN trades' = DOMAIN trades \cup DOMAIN rows
           /\ \A k \in DOMAIN trades : /\ trades'[k].first = trades[k].first
                                       /\ trades[k].pnl # None => trades'[k].pnl # None
<1> DEFINE new == [k \in DOMAIN trades \cup DOMAIN rows |->
                     IF k \notin DOMAIN rows THEN trades[k]
                     ELSE IF k \in DOMAIN trades THEN MergedTrade(trades[k], rows[k])
                     ELSE rows[k]]
<1>1. trades' = new
  BY DEF UpsertTrades
<1>2. \A r, s : /\ DOMAIN MergedTrade(r, s) = {"first", "price", "pnl"}
                /\ MergedTrade(r, s).first = r.first
                /\ r.pnl # None => MergedTrade(r, s).pnl # None
  BY DEF MergedTrade
<1>3. DOMAIN new = DOMAIN trades \cup DOMAIN rows
  OBVIOUS
<1>4. ASSUME NEW k \in DOMAIN trades PROVE new[k].first = trades[k].first /\ (trades[k].pnl # None => new[k].pnl # None)
  BY <1>2
<1>5. ASSUME NEW k \in DOMAIN new PROVE DOMAIN new[k] = {"first", "price", "pnl"}
  BY <1>2 DEF TradesOK
<1> HIDE DEF new
<1> QED BY <1>1, <1>3, <1>4, <1>5 DEF TradesOK

LEMMA StatementUpserts ==
    ASSUME TradesOK, NEW d \in Docs, UpsertTrades(StatementRows(d))
    PROVE  /\ TradesOK' /\ DOMAIN trades' = DOMAIN trades \cup DOMAIN StatementRows(d)
           /\ \A k \in DOMAIN trades : /\ trades'[k].first = trades[k].first
                                       /\ trades[k].pnl # None => trades'[k].pnl # None
<1>1. \A k \in DOMAIN StatementRows(d) : DOMAIN StatementRows(d)[k] = {"first", "price", "pnl"}
  BY DEF StatementRows
<1>2. DOMAIN StatementRows(d) \subseteq {ExecKey(e) : e \in Fills} \cup UNION {TradeIds(x) : x \in Docs}
  BY StatementIds
<1> QED BY <1>1, <1>2, UpsertKeeps

LEMMA LiveUpserts ==
    ASSUME TradesOK, NEW fills \in SUBSET Fills, UpsertTrades(LiveRows(fills))
    PROVE  /\ TradesOK' /\ DOMAIN trades \subseteq DOMAIN trades'
           /\ \A k \in DOMAIN trades : /\ trades'[k].first = trades[k].first
                                       /\ trades[k].pnl # None => trades'[k].pnl # None
<1>1. \A k \in DOMAIN LiveRows(fills) : DOMAIN LiveRows(fills)[k] = {"first", "price", "pnl"}
  BY DEF LiveRows
<1>2. DOMAIN LiveRows(fills) \subseteq {ExecKey(e) : e \in Fills} \cup UNION {TradeIds(x) : x \in Docs}
  BY DEF LiveRows
<1> QED BY <1>1, <1>2, UpsertKeeps

\* A later-generated statement wins: the row of a trade is never generated before one
\* that was stored.
LEMMA StoreKeeps ==
    ASSUME FlexOK, NEW d \in Docs, StoreStatement(d)
    PROVE  FlexOK'
<1> DEFINE rows == [k \in FlexKeys(d) |-> FlexRow(d, k)]
           Newer(k) == k \in DOMAIN rows /\ (k \in DOMAIN flexTrade => Replaces(rows[k], flexTrade[k]))
           new == [k \in DOMAIN flexTrade \cup DOMAIN rows |-> IF Newer(k) THEN rows[k] ELSE flexTrade[k]]
<1>1. flexTrade' = new /\ lots' = lots \cup LotRows(d) /\ stored' = stored \cup {d}
  BY DEF StoreStatement, UpsertFlex
<1>2. d.when \in Nat \ {0} /\ \A x \in Docs : x.when \in Nat
  BY FlexConstants
<1>3. DOMAIN rows = FlexKeys(d) /\ \A k \in FlexKeys(d) : rows[k] = FlexRow(d, k) /\ rows[k].when = d.when
  BY DEF FlexRow
<1>4. DOMAIN new = DOMAIN flexTrade \cup FlexKeys(d)
  BY <1>3
<1>5. \A k \in DOMAIN new : \/ k \in FlexKeys(d) /\ new[k] = FlexRow(d, k) /\ new[k].when = d.when
                            \/ k \in DOMAIN flexTrade /\ new[k] = flexTrade[k]
  BY <1>3
<1>6. ASSUME NEW k \in FlexKeys(d) PROVE new[k].when >= d.when /\ new[k].when \in Nat
  <2>1. CASE Newer(k)
    BY <1>2, <1>3, <2>1
  <2>2. CASE ~Newer(k)
    <3>1. k \in DOMAIN flexTrade /\ ~Replaces(rows[k], flexTrade[k]) /\ new[k] = flexTrade[k]
      BY <1>3, <2>2
    <3>2. flexTrade[k].when \in Nat
      BY <3>1 DEF FlexOK
    <3>3. ~(d.when >= flexTrade[k].when)
      BY <1>2, <1>3, <3>1 DEF Replaces
    <3> HIDE DEF new, rows
    <3> QED BY <1>2, <3>1, <3>2, <3>3
  <2> QED BY <2>1, <2>2
<1>7. ASSUME NEW k \in DOMAIN flexTrade PROVE new[k].when >= flexTrade[k].when /\ new[k].when \in Nat
  <2>1. flexTrade[k].when \in Nat
    BY DEF FlexOK
  <2>2. CASE Newer(k)
    <3>1. new[k] = rows[k] /\ k \in FlexKeys(d) /\ Replaces(rows[k], flexTrade[k])
      BY <1>3, <2>2
    <3>2. new[k].when = d.when /\ d.when >= flexTrade[k].when
      BY <1>3, <3>1 DEF Replaces
    <3> HIDE DEF new, rows
    <3> QED BY <1>2, <3>2
  <2>3. CASE ~Newer(k)
    <3>1. new[k] = flexTrade[k]
      BY <2>3
    <3> HIDE DEF new
    <3> QED BY <2>1, <3>1
  <2> QED BY <2>2, <2>3
<1> HIDE DEF new, rows
<1>8. \A k \in DOMAIN flexTrade' : flexTrade'[k].when # 0 =>
        \E x \in stored' : k \in FlexKeys(x) /\ flexTrade'[k] = FlexRow(x, k)
  <2> SUFFICES ASSUME NEW k \in DOMAIN new, new[k].when # 0
               PROVE  \E x \in stored' : k \in FlexKeys(x) /\ new[k] = FlexRow(x, k)
    BY <1>1
  <2>1. CASE k \in FlexKeys(d) /\ new[k] = FlexRow(d, k)
    BY <1>1, <2>1
  <2>2. CASE k \in DOMAIN flexTrade /\ new[k] = flexTrade[k]
    BY <1>1, <2>2 DEF FlexOK, ArchiveIsImports
  <2> QED BY <1>5, <2>1, <2>2
<1>9. \A x \in stored' : \A k \in FlexKeys(x) : k \in DOMAIN flexTrade' /\ flexTrade'[k].when >= x.when
  <2> SUFFICES ASSUME NEW x \in stored', NEW k \in FlexKeys(x)
               PROVE  k \in DOMAIN new /\ new[k].when >= x.when
    BY <1>1
  <2>1. CASE x = d
    BY <1>4, <1>6, <2>1
  <2>2. CASE x \in stored
    <3>1. k \in DOMAIN flexTrade /\ flexTrade[k].when >= x.when /\ x.when \in Nat /\ flexTrade[k].when \in Nat
      BY <1>2, <2>2 DEF FlexOK, ArchiveIsImports
    <3> QED BY <1>4, <1>7, <3>1
  <2> QED BY <1>1, <2>1, <2>2
<1>10. lots' = UNION {LotRows(x) : x \in stored'}
  <2>1. lots = UNION {LotRows(x) : x \in stored}
    BY DEF FlexOK, ArchiveIsImports
  <2> QED BY <1>1, <2>1
<1>11. ArchiveIsImports'
  BY <1>8, <1>9, <1>10 DEF ArchiveIsImports
<1>12. \A k \in DOMAIN flexTrade' : flexTrade'[k].when \in Nat
  BY <1>1, <1>4, <1>6, <1>7
<1> QED BY <1>1, <1>4, <1>11, <1>12 DEF FlexOK

\* A live row goes in only where there is none.
LEMMA LiveFlexKeeps == ASSUME FlexOK, LiveFlex PROVE FlexOK'
<1> DEFINE rows == [k \in {ExecKey(e) : e \in Fills} |-> [tid |-> None, pnl |-> None, when |-> 0]]
           new == [k \in DOMAIN flexTrade \cup DOMAIN rows |->
                     IF k \in DOMAIN rows /\ (k \in DOMAIN flexTrade => Replaces(rows[k], flexTrade[k]))
                     THEN rows[k] ELSE flexTrade[k]]
<1>1. UNCHANGED <<lots, stored>> /\ (flexTrade' = new \/ flexTrade' = flexTrade)
  BY DEF LiveFlex, UpsertFlex
<1>2. \A k \in DOMAIN rows : rows[k].when = 0
  OBVIOUS
<1>3. \A k \in DOMAIN flexTrade : new[k] = flexTrade[k]
  BY <1>2 DEF Replaces
<1>4. \A k \in DOMAIN new : k \notin DOMAIN flexTrade => new[k].when = 0
  BY <1>2
<1>5. DOMAIN new = DOMAIN flexTrade \cup {ExecKey(e) : e \in Fills}
  OBVIOUS
<1> HIDE DEF new, rows
<1>6. CASE flexTrade' = new
  <2>1. ArchiveIsImports'
    BY <1>1, <1>3, <1>4, <1>5, <1>6 DEF FlexOK, ArchiveIsImports
  <2>2. \A k \in DOMAIN new : new[k].when \in Nat
    BY <1>3, <1>4 DEF FlexOK
  <2> QED BY <1>1, <1>5, <1>6, <2>1, <2>2 DEF FlexOK
<1>7. CASE flexTrade' = flexTrade
  BY <1>1, <1>7 DEF FlexOK, ArchiveIsImports
<1> QED BY <1>1, <1>6, <1>7

(******************************* the actions *******************************)

\* A step that leaves the call alone, and takes neither a trade nor a file away.
LEMMA CallStays ==
    ASSUME CallOK, UNCHANGED srv, Grows
    PROVE  CallOK'
<1>1. Shape' /\ CallTyped'
  BY DEF CallOK, Shape, CallTyped
<1>2. CallKnown'
  BY DEF CallOK, CallKnown, Grows
<1> QED BY <1>1, <1>2 DEF CallOK

\* A step of the call that changes only where it is, and can rely on as much.
LEMMA CallGoes ==
    ASSUME CallOK, Grows, NEW at \in Steps, Going(at),
           at \in {"poll", "trades", "full", "upload", "log"} => srv.doc \in Docs,
           at \in {"full", "upload", "log"} => DOMAIN StatementRows(srv.doc) \subseteq DOMAIN trades',
           at = "log" => srv.doc.name \in DOMAIN drive'
    PROVE  CallOK'
<1>1. srv' = [srv EXCEPT !.at = at]
  BY DEF Going
<1>2. Shape'
  BY <1>1 DEF CallOK, Shape
<1>3. /\ srv'.at = at /\ srv'.op = srv.op /\ srv'.doc = srv.doc /\ srv'.polls = srv.polls
      /\ srv'.files = srv.files /\ srv'.ids = srv.ids
  BY <1>1 DEF CallOK, Shape
<1>4. CallTyped'
  BY <1>3 DEF CallOK, CallTyped, Call
<1>5. CallKnown'
  BY <1>3 DEF CallOK, CallKnown, Grows
<1> QED BY <1>2, <1>4, <1>5 DEF CallOK

LEMMA PollsFromZero == 0 \in 0..MaxPolls
<1>1. MaxPolls \in Nat
  BY FlexConstants
<1> QED BY <1>1

LEMMA StartOK ==
    ASSUME FlexInv, NEW op \in Ops, NEW at \in {"send", "next", "trades", "live trades"}, NEW doc \in Docs \cup {None}, NEW files,
           Start(op, at, doc, files), Files(files), DOMAIN files \subseteq DOMAIN drive,
           at = "trades" => doc \in Docs
    PROVE  FlexInv'
<1>1. srv' = [at |-> at, op |-> op, doc |-> doc, polls |-> 0, files |-> files,
              ids |-> {}, seen |-> {}, issues |-> FALSE]
  BY DEF Start, Idle
<1>2. UNCHANGED <<trades, flexTrade, lots, stored, drive, log, local, script, report>>
  BY DEF Start, db
<1>3. Shape'
  BY <1>1 DEF Shape
<1>4. CallTyped'
  <2>1. at \in Steps
    BY DEF Steps
  <2>2. 0 \in 0..MaxPolls
    BY PollsFromZero
  <2>3. srv'.at = at /\ srv'.op = op /\ srv'.doc = doc /\ srv'.polls = 0
    BY <1>1
  <2> QED BY <2>1, <2>3, <2>2 DEF CallTyped, Call
<1>5. CallKnown'
  BY <1>1, <1>2 DEF CallKnown
<1>6. TradesOK' /\ FlexOK'
  BY <1>2 DEF FlexInv, TradesOK, FlexOK, ArchiveIsImports
<1>7. FilesOK' /\ ScriptOK' /\ LoggedIsStored'
  BY <1>2 DEF FlexInv, FilesOK, ScriptOK, LoggedIsStored
<1> QED BY <1>3, <1>4, <1>5, <1>6, <1>7 DEF FlexInv, CallOK

LEMMA BeginOK ==
    ASSUME FlexInv, BeginFetch \/ BeginArchive \/ BeginImport \/ BeginLive
    PROVE  FlexInv'
<1> USE NoFiles
<1> DEFINE At == {"send", "next", "trades", "live trades"}
<1>1. {"fetch", "archive", "import", "live"} \subseteq Ops
  BY DEF Ops
<1>2. CASE BeginFetch
  <2>1. Start("fetch", "send", None, << >>) /\ "send" \in At /\ "send" # "trades"
    BY <1>2 DEF BeginFetch
  <2> QED BY <1>1, <2>1, StartOK
<1>3. CASE BeginArchive
  <2>1. Start("archive", "next", None, drive) /\ "next" \in At /\ "next" # "trades"
    BY <1>3 DEF BeginArchive
  <2>2. Files(drive)
    BY DEF FlexInv, FilesOK
  <2> QED BY <1>1, <2>1, <2>2, StartOK
<1>4. CASE BeginImport
  <2>1. PICK d \in Docs : Start("import", "trades", d, << >>) /\ "trades" \in At
    BY <1>4 DEF BeginImport
  <2> QED BY <1>1, <2>1, StartOK
<1>5. CASE BeginLive
  <2>1. Start("live", "live trades", None, << >>) /\ "live trades" \in At /\ "live trades" # "trades"
    BY <1>5 DEF BeginLive
  <2> QED BY <1>1, <2>1, StartOK
<1> QED BY <1>2, <1>3, <1>4, <1>5

LEMMA BeginVerifyOK == ASSUME FlexInv, BeginVerify PROVE FlexInv'
<1>1. srv' = [at |-> "check", op |-> "verify", doc |-> None, polls |-> 0, files |-> drive,
              ids |-> DOMAIN trades, seen |-> {}, issues |-> FALSE]
  BY DEF BeginVerify, Idle
<1>2. UNCHANGED <<trades, flexTrade, lots, stored, drive, log, local, script, report>>
  BY DEF BeginVerify, db
<1>3. Shape'
  BY <1>1 DEF Shape
<1>4. CallTyped'
  BY <1>1, FlexConstants DEF CallTyped, Call, Steps, Ops
<1>5. CallKnown'
  BY <1>1, <1>2 DEF CallKnown, FlexInv, FilesOK
<1>6. TradesOK' /\ FlexOK'
  BY <1>2 DEF FlexInv, TradesOK, FlexOK, ArchiveIsImports
<1>7. FilesOK' /\ ScriptOK' /\ LoggedIsStored'
  BY <1>2 DEF FlexInv, FilesOK, ScriptOK, LoggedIsStored
<1> QED BY <1>3, <1>4, <1>5, <1>6, <1>7 DEF FlexInv, CallOK

\* The tables, the files and the script when a step leaves them alone.
Quiet == UNCHANGED <<trades, flexTrade, lots, stored, drive, log, local, script>>

LEMMA QuietKeeps ==
    ASSUME FlexInv, Quiet, CallOK'
    PROVE  FlexInv'
<1>1. TradesOK' /\ FlexOK'
  BY DEF Quiet, FlexInv, TradesOK, FlexOK, ArchiveIsImports
<1>2. FilesOK' /\ ScriptOK' /\ LoggedIsStored'
  BY DEF Quiet, FlexInv, FilesOK, ScriptOK, LoggedIsStored
<1> QED BY <1>1, <1>2 DEF FlexInv

LEMMA SendOK == ASSUME FlexInv, SendRequest PROVE FlexInv'
<1>1. Quiet
  BY DEF SendRequest, db, Quiet
<1>2. CASE Return
  BY <1>1, <1>2, IdleOK, QuietKeeps
<1>3. CASE \E d \in Docs : srv' = [srv EXCEPT !.at = "poll", !.doc = d]
  <2>1. PICK d \in Docs : srv' = [srv EXCEPT !.at = "poll", !.doc = d]
    BY <1>3
  <2>2. Shape'
    BY <2>1 DEF FlexInv, CallOK, Shape
  <2>3. /\ srv'.at = "poll" /\ srv'.op = srv.op /\ srv'.doc = d /\ srv'.polls = srv.polls
        /\ srv'.files = srv.files /\ srv'.ids = srv.ids
    BY <2>1 DEF FlexInv, CallOK, Shape
  <2>4. CallTyped'
    BY <2>3 DEF FlexInv, CallOK, CallTyped, Call, Steps
  <2>5. CallKnown'
    BY <1>1, <2>3 DEF FlexInv, CallOK, CallKnown, Quiet
  <2> QED BY <1>1, <2>2, <2>4, <2>5, QuietKeeps DEF CallOK
<1> QED BY <1>2, <1>3 DEF SendRequest

LEMMA PollOK == ASSUME FlexInv, Poll PROVE FlexInv'
<1>1. Quiet /\ Grows
  BY DEF Poll, db, Quiet, Grows
<1>2. CASE Return
  BY <1>1, <1>2, IdleOK, QuietKeeps
<1>3. CASE srv.polls < MaxPolls - 1 /\ srv' = [srv EXCEPT !.polls = srv.polls + 1]
  <2>1. srv.polls \in 0..MaxPolls /\ MaxPolls \in Nat
    BY FlexConstants DEF FlexInv, CallOK, CallTyped, Call
  <2>2. Shape'
    BY <1>3 DEF FlexInv, CallOK, Shape
  <2>3. /\ srv'.at = srv.at /\ srv'.op = srv.op /\ srv'.doc = srv.doc /\ srv'.polls = srv.polls + 1
        /\ srv'.files = srv.files /\ srv'.ids = srv.ids
    BY <1>3 DEF FlexInv, CallOK, Shape
  <2>4. srv'.polls \in 0..MaxPolls
    BY <1>3, <2>1, <2>3
  <2>5. CallTyped'
    BY <2>3, <2>4 DEF FlexInv, CallOK, CallTyped, Call
  <2>6. CallKnown'
    BY <1>1, <2>3 DEF FlexInv, CallOK, CallKnown, Quiet
  <2> QED BY <1>1, <2>2, <2>5, <2>6, QuietKeeps DEF CallOK
<1>4. CASE Going("trades")
  <2>1. srv.doc \in Docs
    BY DEF Poll, FlexInv, CallOK, CallKnown
  <2>2. CallOK'
    BY <1>1, <1>4, <2>1, CallGoes DEF Steps, FlexInv
  <2> QED BY <1>1, <2>2, QuietKeeps
<1> QED BY <1>2, <1>3, <1>4 DEF Poll, Generating

\* A list of files without its first is one still.
LEMMA FewerFiles ==
    ASSUME NEW f, NEW n, Files(f)
    PROVE  Files([m \in DOMAIN f \ {n} |-> f[m]])
  BY DEF Files

LEMMA NextFileOK == ASSUME FlexInv, NextFile PROVE FlexInv'
<1>1. Quiet
  BY DEF NextFile, db, Quiet
<1>2. CASE Return
  BY <1>1, <1>2, IdleOK, QuietKeeps
<1>3. CASE srv.files # << >> /\ ~Return
  <2> DEFINE n == First(DOMAIN srv.files)
             rest == [m \in DOMAIN srv.files \ {n} |-> srv.files[m]]
  <2>1. srv' = [srv EXCEPT !.at = "trades", !.doc = srv.files[n], !.files = rest]
    BY <1>3 DEF NextFile
  <2>2. Files(srv.files) /\ DOMAIN srv.files \subseteq DOMAIN drive
    BY DEF FlexInv, CallOK, CallKnown
  <2>3. srv.files[n] \in Docs
    BY <1>3, <2>2, FirstIs
  <2>4. Files(rest) /\ DOMAIN rest \subseteq DOMAIN drive
    BY <2>2, FewerFiles
  <2> HIDE DEF n, rest
  <2>5. Shape'
    BY <2>1 DEF FlexInv, CallOK, Shape
  <2>6. /\ srv'.at = "trades" /\ srv'.op = srv.op /\ srv'.doc = srv.files[n] /\ srv'.polls = srv.polls
        /\ srv'.files = rest /\ srv'.ids = srv.ids
    BY <2>1 DEF FlexInv, CallOK, Shape
  <2>7. CallTyped'
    BY <2>3, <2>6 DEF FlexInv, CallOK, CallTyped, Call, Steps
  <2>8. CallKnown'
    BY <1>1, <2>3, <2>4, <2>6 DEF FlexInv, CallOK, CallKnown, Quiet
  <2> QED BY <1>1, <2>5, <2>7, <2>8, QuietKeeps DEF CallOK
<1> QED BY <1>2, <1>3 DEF NextFile

LEMMA StoreTradesOK == ASSUME FlexInv, StoreTrades PROVE FlexInv'
<1>1. UNCHANGED <<flexTrade, lots, stored, drive, log, local, script>> /\ srv.doc \in Docs
  BY DEF StoreTrades, FlexInv, CallOK, CallKnown
<1>2. CASE Return /\ UNCHANGED trades
  BY <1>1, <1>2, IdleOK, QuietKeeps DEF Quiet
<1>3. CASE UpsertTrades(StatementRows(srv.doc)) /\ Going("full")
  <2>1. TradesOK' /\ DOMAIN trades' = DOMAIN trades \cup DOMAIN StatementRows(srv.doc)
    BY <1>1, <1>3, StatementUpserts DEF FlexInv
  <2>2. Grows
    BY <1>1, <2>1 DEF Grows
  <2>3. CallOK'
    BY <1>1, <1>3, <2>1, <2>2, CallGoes DEF FlexInv, Steps
  <2>4. FlexOK' /\ FilesOK' /\ ScriptOK'
    BY <1>1 DEF FlexInv, FlexOK, ArchiveIsImports, FilesOK, ScriptOK
  <2>5. LoggedIsStored'
    BY <1>1, <2>1 DEF FlexInv, LoggedIsStored
  <2> QED BY <2>1, <2>3, <2>4, <2>5 DEF FlexInv
<1> QED BY <1>2, <1>3 DEF StoreTrades

LEMMA StoreFullOK == ASSUME FlexInv, StoreFull PROVE FlexInv'
<1>1. UNCHANGED <<trades, drive, log, local, script>> /\ Grows /\ srv.doc \in Docs
  BY DEF StoreFull, FlexInv, CallOK, CallKnown, Grows
<1>2. DOMAIN StatementRows(srv.doc) \subseteq DOMAIN trades
  BY DEF StoreFull, FlexInv, CallOK, CallKnown
<1>3. FlexOK'
  <2>1. CASE UNCHANGED <<flexTrade, lots, stored>>
    BY <2>1 DEF FlexInv, FlexOK, ArchiveIsImports
  <2>2. CASE StoreStatement(srv.doc)
    BY <1>1, <2>2, StoreKeeps DEF FlexInv
  <2> QED BY <2>1, <2>2 DEF StoreFull
<1>4. CallOK'
  <2>1. CASE Going("upload")
    BY <1>1, <1>2, <2>1, CallGoes DEF FlexInv, Steps
  <2>2. CASE Going("next")
    BY <1>1, <2>2, CallGoes DEF FlexInv, Steps
  <2> QED BY <2>1, <2>2, IdleOK DEF StoreFull, AfterFull
<1>5. TradesOK' /\ FilesOK' /\ ScriptOK' /\ LoggedIsStored'
  BY <1>1 DEF FlexInv, TradesOK, FilesOK, ScriptOK, LoggedIsStored
<1> QED BY <1>3, <1>4, <1>5 DEF FlexInv

\* A file put on Drive takes none away.
LEMMA SetFile ==
    ASSUME NEW f, Files(f), NEW n \in Names, NEW d \in Docs
    PROVE  Files(Set(f, n, d)) /\ DOMAIN Set(f, n, d) = DOMAIN f \cup {n}
  BY DEF Files, Set

LEMMA UploadOK == ASSUME FlexInv, Upload PROVE FlexInv'
<1>1. UNCHANGED <<trades, flexTrade, lots, stored, log, local, script>>
  BY DEF Upload, db
<1>2. srv.doc \in Docs /\ DOMAIN StatementRows(srv.doc) \subseteq DOMAIN trades /\ srv.doc.name \in Names
  BY DEF Upload, FlexInv, CallOK, CallKnown, Names
<1>3. CASE Return /\ UNCHANGED drive
  BY <1>1, <1>3, IdleOK, QuietKeeps DEF Quiet
<1>4. CASE drive' = Set(drive, srv.doc.name, srv.doc) /\ Going("log")
  <2>1. Files(drive') /\ DOMAIN drive' = DOMAIN drive \cup {srv.doc.name}
    BY <1>2, <1>4, SetFile DEF FlexInv, FilesOK
  <2>2. Grows
    BY <1>1, <2>1 DEF Grows
  <2>3. CallOK'
    BY <1>1, <1>2, <1>4, <2>1, <2>2, CallGoes DEF FlexInv, Steps
  <2>4. FilesOK' /\ LoggedIsStored'
    BY <1>1, <2>1 DEF FlexInv, FilesOK, LoggedIsStored
  <2>5. TradesOK' /\ FlexOK' /\ ScriptOK'
    BY <1>1 DEF FlexInv, TradesOK, FlexOK, ArchiveIsImports, ScriptOK
  <2> QED BY <2>3, <2>4, <2>5 DEF FlexInv
<1> QED BY <1>3, <1>4 DEF Upload

\* An entry that is true keeps the log true.
LEMMA LogEntry ==
    ASSUME FilesOK, LoggedIsStored, UNCHANGED <<drive, local, trades>>,
           NEW n \in DOMAIN drive, NEW d, NEW source, Logged(n, d, source),
           source = "auto" => DOMAIN StatementRows(d) \subseteq DOMAIN trades
    PROVE  FilesOK' /\ LoggedIsStored'
<1>1. log' = Set(log, n, [sha |-> d, source |-> source])
  BY DEF Logged
<1>2. DOMAIN log' = DOMAIN log \cup {n} /\ log'[n] = [sha |-> d, source |-> source]
  BY <1>1 DEF Set
<1>3. \A m \in DOMAIN log : m # n => log'[m] = log[m]
  BY <1>1 DEF Set
<1>4. FilesOK'
  BY <1>2 DEF FilesOK
<1>5. LoggedIsStored'
  <2> SUFFICES ASSUME NEW m \in DOMAIN log'
               PROVE  /\ m \in DOMAIN drive
                      /\ log'[m].source = "auto" => DOMAIN StatementRows(log'[m].sha) \subseteq DOMAIN trades
    BY DEF LoggedIsStored
  <2>1. CASE m = n
    BY <1>2, <2>1
  <2>2. CASE m # n
    BY <1>2, <1>3, <2>2 DEF LoggedIsStored
  <2> QED BY <2>1, <2>2
<1> QED BY <1>4, <1>5

LEMMA WriteLogOK == ASSUME FlexInv, WriteLog PROVE FlexInv'
<1>1. UNCHANGED <<trades, flexTrade, lots, stored, drive, local, script>> /\ Return
  BY DEF WriteLog, db
<1>2. CASE UNCHANGED log
  BY <1>1, <1>2, IdleOK, QuietKeeps DEF Quiet
<1>3. CASE Logged(srv.doc.name, srv.doc, "auto")
  <2>1. srv.doc.name \in DOMAIN drive /\ DOMAIN StatementRows(srv.doc) \subseteq DOMAIN trades
    BY DEF WriteLog, FlexInv, CallOK, CallKnown
  <2>2. FilesOK' /\ LoggedIsStored'
    BY <1>1, <1>3, <2>1, LogEntry DEF FlexInv
  <2>3. TradesOK' /\ FlexOK' /\ ScriptOK'
    BY <1>1 DEF FlexInv, TradesOK, FlexOK, ArchiveIsImports, ScriptOK
  <2> QED BY <1>1, <2>2, <2>3, IdleOK DEF FlexInv
<1> QED BY <1>2, <1>3 DEF WriteLog

LEMMA LiveTradesOK == ASSUME FlexInv, LiveTrades PROVE FlexInv'
<1>1. UNCHANGED <<flexTrade, lots, stored, drive, log, local, script>> /\ Going("live flex")
  BY DEF LiveTrades
<1>2. TradesOK' /\ DOMAIN trades \subseteq DOMAIN trades'
  <2>1. CASE UpsertTrades(LiveRows(Fills))
    BY <2>1, LiveUpserts DEF FlexInv
  <2>2. CASE UNCHANGED trades
    BY <2>2 DEF FlexInv, TradesOK
  <2> QED BY <2>1, <2>2 DEF LiveTrades
<1>3. Grows
  BY <1>1, <1>2 DEF Grows
<1>4. CallOK'
  BY <1>1, <1>3, CallGoes DEF FlexInv, Steps
<1>5. LoggedIsStored'
  BY <1>1, <1>2 DEF FlexInv, LoggedIsStored
<1>6. FlexOK' /\ FilesOK' /\ ScriptOK'
  BY <1>1 DEF FlexInv, FlexOK, ArchiveIsImports, FilesOK, ScriptOK
<1> QED BY <1>2, <1>4, <1>5, <1>6 DEF FlexInv

LEMMA LiveFlexOK == ASSUME FlexInv, LiveFlex PROVE FlexInv'
<1>1. UNCHANGED <<trades, drive, log, local, script>> /\ Return
  BY DEF LiveFlex
<1>2. FlexOK'
  BY LiveFlexKeeps DEF FlexInv
<1>3. TradesOK' /\ FilesOK' /\ ScriptOK' /\ LoggedIsStored'
  BY <1>1 DEF FlexInv, TradesOK, FilesOK, ScriptOK, LoggedIsStored
<1> QED BY <1>1, <1>2, <1>3, IdleOK DEF FlexInv

LEMMA StreamFillOK == ASSUME FlexInv, StreamFill PROVE FlexInv'
<1>1. UNCHANGED <<flexTrade, lots, stored, drive, log, local, srv, script>>
  BY DEF StreamFill
<1>2. PICK e \in Fills : UpsertTrades(LiveRows({e}))
  BY DEF StreamFill
<1>3. TradesOK' /\ DOMAIN trades \subseteq DOMAIN trades'
  BY <1>2, LiveUpserts DEF FlexInv
<1>4. Grows
  BY <1>1, <1>3 DEF Grows
<1>5. CallOK'
  BY <1>1, <1>4, CallStays DEF FlexInv
<1>6. LoggedIsStored'
  BY <1>1, <1>3 DEF FlexInv, LoggedIsStored
<1>7. FlexOK' /\ FilesOK' /\ ScriptOK'
  BY <1>1 DEF FlexInv, FlexOK, ArchiveIsImports, FilesOK, ScriptOK
<1> QED BY <1>3, <1>5, <1>6, <1>7 DEF FlexInv

LEMMA VerifyFileOK == ASSUME FlexInv, VerifyFile PROVE FlexInv'
<1> DEFINE n == First(DOMAIN srv.files)
           d == srv.files[n]
           rest == [m \in DOMAIN srv.files \ {n} |-> srv.files[m]]
<1>1. UNCHANGED <<trades, flexTrade, lots, stored, drive, local, script>>
  BY DEF VerifyFile, db
<1>2. /\ Files(srv.files) /\ DOMAIN srv.files \subseteq DOMAIN drive
      /\ srv.ids \subseteq DOMAIN trades
  BY DEF FlexInv, CallOK, CallKnown
<1>3. n \in DOMAIN srv.files /\ d \in Docs
  BY <1>2, FirstIs DEF VerifyFile
<1>4. Files(rest) /\ DOMAIN rest \subseteq DOMAIN drive
  BY <1>2, FewerFiles
<1>5. PICK seen, issues : srv' = [srv EXCEPT !.files = rest, !.seen = seen, !.issues = issues]
  BY DEF VerifyFile
<1>6. \/ UNCHANGED log
      \/ Logged(n, d, "manual")
      \/ \E source : Logged(n, d, source) /\ TradeIds(d) \subseteq srv.ids
  BY DEF VerifyFile
<1> HIDE DEF n, d, rest
<1>7. FilesOK' /\ LoggedIsStored'
  <2>1. CASE UNCHANGED log
    BY <1>1, <2>1 DEF FlexInv, FilesOK, LoggedIsStored
  <2>2. CASE Logged(n, d, "manual")
    BY <1>1, <1>2, <1>3, <2>2, LogEntry DEF FlexInv
  <2>3. CASE \E source : Logged(n, d, source) /\ TradeIds(d) \subseteq srv.ids
    <3>1. PICK source : Logged(n, d, source) /\ TradeIds(d) \subseteq srv.ids
      BY <2>3
    <3>2. DOMAIN StatementRows(d) \subseteq DOMAIN trades
      BY <1>2, <1>3, <3>1, StatementIds
    <3> QED BY <1>1, <1>2, <1>3, <3>1, <3>2, LogEntry DEF FlexInv
  <2> QED BY <1>6, <2>1, <2>2, <2>3
<1>8. CallOK'
  <2>1. Shape'
    BY <1>5 DEF FlexInv, CallOK, Shape
  <2>2. /\ srv'.at = srv.at /\ srv'.op = srv.op /\ srv'.doc = srv.doc /\ srv'.polls = srv.polls
        /\ srv'.files = rest /\ srv'.ids = srv.ids
    BY <1>5 DEF FlexInv, CallOK, Shape
  <2>3. CallTyped'
    BY <2>2 DEF FlexInv, CallOK, CallTyped
  <2>4. CallKnown'
    BY <1>1, <1>4, <2>2 DEF FlexInv, CallOK, CallKnown
  <2> QED BY <2>1, <2>3, <2>4 DEF CallOK
<1>9. TradesOK' /\ FlexOK' /\ ScriptOK'
  BY <1>1 DEF FlexInv, TradesOK, FlexOK, ArchiveIsImports, ScriptOK
<1> QED BY <1>7, <1>8, <1>9 DEF FlexInv

LEMMA VerifyReportOK == ASSUME FlexInv, VerifyReport PROVE FlexInv'
<1>1. Quiet /\ Return
  BY DEF VerifyReport, db, Quiet
<1> QED BY <1>1, IdleOK, QuietKeeps

LEMMA FetchArchiveOK == ASSUME FlexInv, FetchArchive PROVE FlexInv'
<1>1. UNCHANGED <<trades, flexTrade, lots, stored, drive, log, srv, script>>
  BY DEF FetchArchive, db
<1>2. PICK good \in SUBSET DOMAIN drive :
        local' = [n \in DOMAIN local \cup good |-> IF n \in good THEN drive[n] ELSE local[n]]
  BY DEF FetchArchive
<1>3. FilesOK'
  BY <1>1, <1>2 DEF FlexInv, FilesOK, Files
<1>4. CallOK'
  BY <1>1, CallStays DEF FlexInv, Grows
<1>5. TradesOK' /\ FlexOK' /\ ScriptOK' /\ LoggedIsStored'
  BY <1>1 DEF FlexInv, TradesOK, FlexOK, ArchiveIsImports, ScriptOK, LoggedIsStored
<1> QED BY <1>3, <1>4, <1>5 DEF FlexInv

LEMMA EntriesAre == ASSUME NEW f, Files(f) PROVE Entries(f) \subseteq Docs
  BY DEF Files, Entries

LEMMA PreflightOK == ASSUME FlexInv, Preflight PROVE FlexInv'
<1>1. UNCHANGED <<trades, flexTrade, lots, stored, drive, log, local, srv>>
  BY DEF Preflight, db
<1>2. PICK drop \in BOOLEAN :
        script' = [at |-> IF drop THEN "drop" ELSE "load", todo |-> Entries(local), drop |-> drop]
  BY DEF Preflight
<1>3. ScriptOK'
  BY <1>2, EntriesAre DEF FlexInv, FilesOK, ScriptOK
<1>4. CallOK'
  BY <1>1, CallStays DEF FlexInv, Grows
<1>5. TradesOK' /\ FlexOK' /\ FilesOK' /\ LoggedIsStored'
  BY <1>1 DEF FlexInv, TradesOK, FlexOK, ArchiveIsImports, FilesOK, LoggedIsStored
<1> QED BY <1>3, <1>4, <1>5 DEF FlexInv

LEMMA DropTablesOK == ASSUME FlexInv, DropTables PROVE FlexInv'
<1>1. UNCHANGED <<trades, drive, log, local, srv>>
  BY DEF DropTables
<1>2. flexTrade' = << >> /\ lots' = {} /\ stored' = {} /\ script' = [script EXCEPT !.at = "load"]
  BY DEF DropTables
<1>3. FlexOK'
  BY <1>2 DEF FlexOK, ArchiveIsImports
<1>4. ScriptOK'
  BY <1>2 DEF FlexInv, ScriptOK
<1>5. CallOK'
  BY <1>1, CallStays DEF FlexInv, Grows
<1>6. TradesOK' /\ FilesOK' /\ LoggedIsStored'
  BY <1>1 DEF FlexInv, TradesOK, FilesOK, LoggedIsStored
<1> QED BY <1>3, <1>4, <1>5, <1>6 DEF FlexInv

LEMMA LoadStatementOK == ASSUME FlexInv, LoadStatement PROVE FlexInv'
<1>1. UNCHANGED <<trades, drive, log, local, srv>>
  BY DEF LoadStatement
<1>2. TradesOK' /\ FilesOK' /\ LoggedIsStored' /\ CallOK'
  BY <1>1, CallStays DEF FlexInv, TradesOK, FilesOK, LoggedIsStored, Grows
<1>3. FlexOK' /\ ScriptOK'
  <2>1. CASE script' = NoScript /\ UNCHANGED <<flexTrade, lots, stored>>
    BY <2>1 DEF FlexInv, FlexOK, ArchiveIsImports, ScriptOK, NoScript
  <2>2. CASE script.todo # {} /\ ~(script' = NoScript /\ UNCHANGED <<flexTrade, lots, stored>>)
    <3> DEFINE d == CHOOSE x \in script.todo : \A y \in script.todo : Before(x, y)
    <3>1. d \in Docs
      BY <2>2, OldestIs DEF FlexInv, ScriptOK
    <3>2. StoreStatement(d) /\ script' = [script EXCEPT !.todo = @ \ {d}]
      BY <2>2 DEF LoadStatement
    <3> HIDE DEF d
    <3>3. FlexOK'
      BY <3>1, <3>2, StoreKeeps DEF FlexInv
    <3>4. ScriptOK'
      BY <3>2 DEF FlexInv, ScriptOK
    <3> QED BY <3>3, <3>4
  <2> QED BY <2>1, <2>2 DEF LoadStatement
<1> QED BY <1>2, <1>3 DEF FlexInv

LEMMA UserEditsOK == ASSUME FlexInv, UserEdits PROVE FlexInv'
<1>1. UNCHANGED <<trades, flexTrade, lots, stored, log, local, srv, script>>
  BY DEF UserEdits, db
<1>2. PICK d \in Docs, name \in Docs : drive' = Set(drive, name.name, d)
  BY DEF UserEdits
<1>3. Files(drive') /\ DOMAIN drive \subseteq DOMAIN drive'
  <2>1. name.name \in Names /\ Files(drive)
    BY DEF Names, FlexInv, FilesOK
  <2>2. DOMAIN Set(drive, name.name, d) = DOMAIN drive \cup {name.name} /\ Files(Set(drive, name.name, d))
    BY <2>1, SetFile
  <2> QED BY <1>2, <2>2
<1>4. FilesOK' /\ LoggedIsStored'
  BY <1>1, <1>3 DEF FlexInv, FilesOK, LoggedIsStored
<1>5. CallOK'
  BY <1>1, <1>3, CallStays DEF FlexInv, Grows
<1>6. TradesOK' /\ FlexOK' /\ ScriptOK'
  BY <1>1 DEF FlexInv, TradesOK, FlexOK, ArchiveIsImports, ScriptOK
<1> QED BY <1>4, <1>5, <1>6 DEF FlexInv

LEMMA CrashOK == ASSUME FlexInv, Crash PROVE FlexInv'
<1>1. UNCHANGED <<trades, flexTrade, lots, stored, drive, log, local>>
  BY DEF Crash, db
<1>2. CASE Return /\ UNCHANGED script
  BY <1>1, <1>2, IdleOK, QuietKeeps DEF Quiet
<1>3. CASE script' = NoScript /\ UNCHANGED srv
  <2>1. CallOK'
    BY <1>1, <1>3, CallStays DEF FlexInv, Grows
  <2>2. ScriptOK'
    BY <1>3 DEF ScriptOK, NoScript
  <2>3. TradesOK' /\ FlexOK' /\ FilesOK' /\ LoggedIsStored'
    BY <1>1 DEF FlexInv, TradesOK, FlexOK, ArchiveIsImports, FilesOK, LoggedIsStored
  <2> QED BY <2>1, <2>2, <2>3 DEF FlexInv
<1> QED BY <1>2, <1>3 DEF Crash, Return

LEMMA FlexStep == FlexInv /\ [Next]_vars => FlexInv'
<1> SUFFICES ASSUME FlexInv, [Next]_vars PROVE FlexInv'
  OBVIOUS
<1>1. CASE BeginFetch \/ BeginArchive \/ BeginImport \/ BeginLive \/ BeginVerify
  BY <1>1, BeginOK, BeginVerifyOK
<1>2. CASE SendRequest \/ Poll \/ NextFile \/ StoreTrades \/ StoreFull \/ Upload \/ WriteLog
  BY <1>2, SendOK, PollOK, NextFileOK, StoreTradesOK, StoreFullOK, UploadOK, WriteLogOK
<1>3. CASE LiveTrades \/ LiveFlex \/ VerifyFile \/ VerifyReport \/ StreamFill
  BY <1>3, LiveTradesOK, LiveFlexOK, VerifyFileOK, VerifyReportOK, StreamFillOK
<1>4. CASE FetchArchive \/ Preflight \/ DropTables \/ LoadStatement \/ UserEdits \/ Crash
  BY <1>4, FetchArchiveOK, PreflightOK, DropTablesOK, LoadStatementOK, UserEditsOK, CrashOK
<1>5. CASE UNCHANGED vars
  <2>1. Quiet /\ UNCHANGED srv /\ Grows
    BY <1>5 DEF vars, db, Quiet, Grows
  <2>2. CallOK'
    BY <2>1, CallStays DEF FlexInv
  <2> QED BY <2>1, <2>2, QuietKeeps
<1> QED BY <1>1, <1>2, <1>3, <1>4, <1>5 DEF Next, ServerStep, ScriptStep

LEMMA FlexAlways == Spec => []FlexInv
  BY FlexInit, FlexStep, PTL DEF Spec

\* What the parts of the invariant say of the types.
LEMMA FlexTypes == FlexInv => TypeOK
<1> SUFFICES ASSUME FlexInv PROVE TypeOK
  OBVIOUS
<1>1. lots \in SUBSET (Lots \X (Nat \ {0}))
  <2>1. \A d \in Docs, l \in Lots : d.lots[l] \in Nat
    BY FlexConstants
  <2>2. ASSUME NEW d \in Docs PROVE LotRows(d) \subseteq Lots \X (Nat \ {0})
    <3> SUFFICES ASSUME NEW l \in Lots PROVE {l} \X (1..d.lots[l]) \subseteq Lots \X (Nat \ {0})
      BY DEF LotRows
    <3> QED BY <2>1
  <2>3. lots = UNION {LotRows(d) : d \in stored} /\ stored \subseteq Docs
    BY DEF FlexInv, FlexOK, ArchiveIsImports
  <2> QED BY <2>2, <2>3
<1>2. Entries(drive) \subseteq Docs /\ Entries(local) \subseteq Docs
  BY EntriesAre DEF FlexInv, FilesOK
<1>3. DOMAIN log \subseteq {d.name : d \in Docs}
  BY DEF FlexInv, FilesOK, Files, Names
<1>4. [at |-> srv.at, op |-> srv.op, doc |-> srv.doc, polls |-> srv.polls] \in Call
  BY DEF FlexInv, CallOK, CallTyped
<1> QED BY <1>1, <1>2, <1>3, <1>4 DEF FlexInv, TradesOK, FlexOK, ScriptOK, TypeOK

\* What a step does to the table trades.
LEMMA TradesStep ==
    ASSUME FlexInv, [Next]_vars, NEW k \in DOMAIN trades
    PROVE  /\ k \in DOMAIN trades' /\ trades'[k].first = trades[k].first
           /\ trades[k].pnl # None => trades'[k].pnl # None
<1>1. TradesOK
  BY DEF FlexInv
<1>2. CASE StoreTrades
  <2>1. srv.doc \in Docs
    BY <1>2 DEF StoreTrades, FlexInv, CallOK, CallKnown
  <2>2. CASE UNCHANGED trades
    BY <2>2
  <2>3. CASE UpsertTrades(StatementRows(srv.doc))
    BY <1>1, <2>1, <2>3, StatementUpserts
  <2> QED BY <1>2, <2>2, <2>3 DEF StoreTrades
<1>3. CASE LiveTrades
  <2>1. CASE UNCHANGED trades
    BY <2>1
  <2>2. CASE UpsertTrades(LiveRows(Fills))
    BY <1>1, <2>2, LiveUpserts
  <2> QED BY <1>3, <2>1, <2>2 DEF LiveTrades
<1>4. CASE StreamFill
  <2>1. PICK e \in Fills : UpsertTrades(LiveRows({e}))
    BY <1>4 DEF StreamFill
  <2> QED BY <1>1, <2>1, LiveUpserts
<1>5. CASE UNCHANGED trades
  BY <1>5
<1>6. CASE BeginFetch \/ BeginArchive \/ BeginImport \/ BeginLive \/ BeginVerify
  <2>1. UNCHANGED trades
    BY <1>6 DEF BeginFetch, BeginArchive, BeginImport, BeginLive, BeginVerify, Start, db
  <2> QED BY <1>5, <2>1
<1>7. CASE SendRequest \/ Poll \/ NextFile \/ StoreFull \/ Upload \/ WriteLog
  <2>1. UNCHANGED trades
    BY <1>7 DEF SendRequest, Poll, NextFile, StoreFull, Upload, WriteLog, db
  <2> QED BY <1>5, <2>1
<1>8. CASE LiveFlex \/ VerifyFile \/ VerifyReport
  <2>1. UNCHANGED trades
    BY <1>8 DEF LiveFlex, VerifyFile, VerifyReport, db
  <2> QED BY <1>5, <2>1
<1>9. CASE FetchArchive \/ Preflight \/ DropTables \/ LoadStatement \/ UserEdits \/ Crash
  <2>1. UNCHANGED trades
    BY <1>9 DEF FetchArchive, Preflight, DropTables, LoadStatement, UserEdits, Crash, db
  <2> QED BY <1>5, <2>1
<1>10. CASE UNCHANGED vars
  BY <1>5, <1>10 DEF vars, db
<1> QED BY <1>2, <1>3, <1>4, <1>6, <1>7, <1>8, <1>9, <1>10 DEF Next, ServerStep, ScriptStep

(******************************** theorems *********************************)

(* What the tables, the files, the call and the script hold has its type,  *)
(* however many statements, calls, failures and crashes there are.         *)
THEOREM FlexIsTyped == Spec => []TypeOK
  BY FlexAlways, FlexTypes, PTL

(* The flex_* tables are a function of the statements stored since the     *)
(* last drop: the order of the imports cannot change the outcome           *)
(* (upsert_flex_rows: a later-generated statement wins; _row_uid: the      *)
(* occurrences of a Lot).                                                  *)
THEOREM ArchiveIsAFunction == Spec => []ArchiveIsImports
<1>1. FlexInv => ArchiveIsImports
  BY DEF FlexInv, FlexOK
<1> QED BY <1>1, FlexAlways, PTL

(* An entry of flex_import_log made by a sync or by a check stands for     *)
(* trades that are in the table, and its file is on Drive (fetch_trades,   *)
(* _archive_and_log, verify_flex_import).                                  *)
THEOREM LogIsTrue == Spec => []LoggedIsStored
<1>1. FlexInv => LoggedIsStored
  BY DEF FlexInv
<1> QED BY <1>1, FlexAlways, PTL

(* No order of imports and live fills makes a trade vanish from the table  *)
(* trades, changes what was first seen of it or forgets a known P&L        *)
(* (upsert_trades).                                                        *)
THEOREM FirstSightStays == Spec => FirstSeenKept
<1>1. FlexInv /\ [Next]_vars =>
        [\A k \in DOMAIN trades :
           /\ k \in DOMAIN trades' /\ trades'[k].first = trades[k].first
           /\ trades[k].pnl # None => trades'[k].pnl # None]_trades
  BY TradesStep
<1> QED BY <1>1, FlexAlways, PTL DEF Spec, FirstSeenKept
===============================================================================
