---------------------------- MODULE MarketHistory ----------------------------
(***************************************************************************)
(* Bars and positions in pages: get_market_history_paginated assembles a   *)
(* long lookback from windows of at most Cap bars (client.py),             *)
(* fetch_market_data retries it and keeps the result in the Drive cache    *)
(* (claude_tools.py), get_all_positions reads pages until one comes short. *)
(*                                                                         *)
(* Time is counted in bars of the size asked for, back from the present.   *)
(***************************************************************************)
EXTENDS Integers, FiniteSetsExt

CONSTANTS
    Bars,         \* bar sizes: [perDay |-> bars a day at most, step |-> days allowed in one request]
    Lookbacks,    \* periods, in days
    Span,         \* bound: how far back bars exist
    Cap,          \* bars one answer holds (_MAX_POINTS)
    MaxChunks, MaxWidenings,
    Attempts,     \* of the tool
    MaxEmpty,     \* bound: answers with nothing in them where there is something
    MaxFetches,   \* bound: calls of the tool
    PageSize,     \* positions on a page
    Held,         \* bound: positions of the account
    MaxPages,
    None

VARIABLES
    traded,   \* the times at which a bar exists
    walk,     \* the fetch under way
    stored,   \* the Drive cache: key -> times of its bars
    said,     \* what the last call answered
    pages,    \* the positions read under way
    empty, fetches

vars == <<traded, walk, stored, said, pages, empty, fetches>>

Now == 0                 \* times are negative: -t is t bars ago
Open == Now + 1          \* the cursor before the first bar: no startTime is sent
Least(a, b) == IF a < b THEN a ELSE b
Most(a, b) == IF a > b THEN a ELSE b

\* _chunk_days_for_bar: 80 % of the cap, inside the step table, at least a day.
ChunkDays(b) == Most(1, Least((4 * Cap) \div (5 * b.perDay), b.step))

\* _fits_in_one_call: a day of small bars alone may be more than the cap.
FitsInOneCall(days, b) == 5 * days * b.perDay <= 4 * Cap

\* Only the newest Cap bars of a window are answered, and no error if there
\* are more.  The window ends before its anchor, and without one at the present.
Newest(s) == {t \in s : Cardinality({u \in s : u > t}) < Cap}
Window(anchor, width) ==
    Newest({t \in traded : t >= Least(anchor, Now) - width /\ t < anchor})

NoWalk == [at |-> "idle", days |-> 1, bar |-> CHOOSE b \in Bars : TRUE, attempt |-> 0,
           anchor |-> Open, widen |-> 0, chunk |-> 0, got |-> {}]
NoPages == [at |-> "idle", held |-> 0, page |-> 0, previous |-> -1, got |-> {}]

\* The longest time without a bar that a window can be widened over, and the bars
\* with no longer one between them and the present.
Reach(b) == ChunkDays(b) * b.perDay * 2^MaxWidenings
Bridged(b, t) ==
    \A u \in traded \cup {Now} : u > t => \E v \in traded : v < u /\ v >= u - Reach(b)

Init ==
    /\ \E s \in SUBSET (-Span..Now) : traded = s
    /\ walk = NoWalk /\ stored = << >> /\ pages = NoPages
    /\ said = [what |-> None, got |-> {}, need |-> {}]
    /\ empty = 0 /\ fetches = 0

\* The server handles one call at a time.
Busy == walk.at # "idle" \/ pages.at # "idle"

Key(w) == <<w.days, w.bar>>
Target(w) == -(w.days * w.bar.perDay)
Needed(days, b) == {t \in traded : t >= -(days * b.perDay) /\ Bridged(b, t)}

TypeOK ==
    /\ walk.at \in {"idle", "ask", "chunk"} /\ walk.attempt \in 0..Attempts
    /\ walk.got \subseteq traded /\ walk.anchor \in -Span..Open
    /\ walk.chunk \in 0..MaxChunks /\ walk.widen \in 0..MaxWidenings
    /\ \A k \in DOMAIN stored : stored[k] \subseteq traded /\ stored[k] # {}
    /\ pages.at \in {"idle", "read"} /\ pages.page \in 0..MaxPages /\ pages.got \subseteq 1..Held

(*************************** fetch_market_data *****************************)

Says(what, got) ==
    /\ said' = [what |-> what, got |-> got, need |-> Needed(walk.days, walk.bar)]
    /\ walk' = NoWalk

\* The cache is asked first.  Its key also holds the argument `end`, which nothing
\* else looks at.
Fetch ==
    /\ ~Busy /\ fetches < MaxFetches /\ fetches' = fetches + 1
    /\ \E d \in Lookbacks, b \in Bars :
         LET w == [NoWalk EXCEPT !.at = "ask", !.days = d, !.bar = b]
         IN  IF Key(w) \in DOMAIN stored
             THEN /\ said' = [what |-> "hit", got |-> stored[Key(w)], need |-> Needed(d, b)]
                  /\ UNCHANGED walk
             ELSE walk' = w /\ UNCHANGED said
    /\ UNCHANGED <<traded, stored, pages, empty>>

\* What an attempt came to.  No data, or an error: again, up to three times; a
\* result with a warning is told and not kept.
AfterWalk(got, warn) ==
    IF got # {}
    THEN /\ stored' = IF warn THEN stored
                      ELSE [k \in DOMAIN stored \cup {Key(walk)} |-> IF k = Key(walk) THEN got ELSE stored[k]]
         /\ Says(IF warn THEN "incomplete" ELSE "fetched", got)
    ELSE IF walk.attempt + 1 < Attempts
    THEN walk' = [walk EXCEPT !.attempt = @ + 1, !.at = "ask"] /\ UNCHANGED <<stored, said>>
    ELSE Says("no_data", {}) /\ UNCHANGED stored

(********************** get_market_history_paginated ***********************)

OneCall == walk.days <= ChunkDays(walk.bar) /\ FitsInOneCall(walk.days, walk.bar)

\* The first call for a contract may fail or be empty while IBKR subscribes.
Empty == empty < MaxEmpty /\ empty' = empty + 1 /\ UNCHANGED <<traded, fetches, pages>>
Answered == UNCHANGED <<traded, empty, fetches, pages>>

FastPath ==
    /\ walk.at = "ask" /\ OneCall
    /\ AfterWalk(Window(Open, walk.days * walk.bar.perDay), FALSE)
    /\ Answered

FirstChunk ==
    /\ walk.at = "ask" /\ ~OneCall
    /\ walk' = [walk EXCEPT !.at = "chunk", !.anchor = Open, !.widen = 0, !.chunk = 0, !.got = {}]
    /\ UNCHANGED <<stored, said>> /\ Answered

NoAnswerYet ==
    /\ walk.at = "ask" /\ AfterWalk({}, FALSE)
    /\ Empty

\* Mutant: the next window begins where this one was asked to end.
NextAnchorAsked(win, width) == walk.anchor - width

\* The cursor advances to the oldest bar that arrived, never by the width asked.
NextAnchor(win, width) == Min(win)

\* Mutant: an empty window is taken for the end of the data.
WidensNever == FALSE

\* An empty window is asked for again, twice as wide.
Widens == walk.widen < MaxWidenings

\* One pass of the loop.  Its else branch, and with it the warning, belongs to
\* the passes running out only, not to any of the ways to break.
Chunk ==
    /\ walk.at = "chunk"
    /\ LET width == ChunkDays(walk.bar) * walk.bar.perDay * 2^walk.widen
           win == Window(walk.anchor, width)
           got == walk.got \cup win
           anchor == IF win = {} THEN walk.anchor ELSE NextAnchor(win, width)
           last == walk.chunk + 1 = MaxChunks
           stalled == win # {} /\ walk.anchor # Open /\ anchor >= walk.anchor
           reached == win # {} /\ anchor <= Target(walk)
           next == [walk EXCEPT !.got = got, !.chunk = @ + 1, !.anchor = Most(anchor, -Span),
                                !.widen = IF win = {} THEN @ + 1 ELSE 0]
       IN  IF stalled \/ reached \/ (win = {} /\ ~Widens) THEN AfterWalk(got, FALSE)
           ELSE IF last THEN AfterWalk(got, TRUE)
           ELSE walk' = next /\ UNCHANGED <<stored, said>>
    /\ Answered

\* An empty body, or a list without bars, ends the walk with what it has.
EmptyBody ==
    /\ walk.at = "chunk" /\ AfterWalk(walk.got, FALSE)
    /\ Empty

\* The gateway refuses a chunk: the attempt ends, what it got is lost.
ChunkRefused ==
    /\ walk.at = "chunk" /\ AfterWalk({}, FALSE)
    /\ Empty

(**************************** get_all_positions ****************************)

Page(n) == {i \in 1..pages.held : i > n * PageSize /\ i <= (n + 1) * PageSize}

BeginPositions ==
    /\ ~Busy /\ fetches < MaxFetches /\ fetches' = fetches + 1
    /\ \E h \in 0..Held : pages' = [NoPages EXCEPT !.at = "read", !.held = h]
    /\ UNCHANGED <<traded, walk, stored, said, empty>>

Returned(what, got) ==
    /\ said' = [what |-> what, got |-> got, need |-> 1..pages.held] /\ pages' = NoPages

\* A page shorter than the one before it is the last.
LastPage(rows) == pages.previous >= 0 /\ Cardinality(rows) < pages.previous

ReadPage ==
    /\ pages.at = "read"
    /\ LET rows == Page(pages.page)
           got == pages.got \cup rows
       IN  IF pages.page = MaxPages THEN Returned("raised", {})
           ELSE IF rows = {} \/ LastPage(rows) THEN Returned("positions", got)
           ELSE /\ pages' = [pages EXCEPT !.page = @ + 1, !.previous = Cardinality(rows), !.got = got]
                /\ UNCHANGED said
    /\ UNCHANGED <<traded, walk, stored, empty, fetches>>

Next ==
    \/ Fetch \/ FastPath \/ FirstChunk \/ NoAnswerYet \/ Chunk \/ EmptyBody \/ ChunkRefused
    \/ BeginPositions \/ ReadPage

Fairness == WF_vars(FastPath \/ FirstChunk \/ Chunk \/ ReadPage)
Spec == Init /\ [][Next]_vars /\ Fairness

(******************************** properties *******************************)

(* NothingLost: what is given out, or kept, without a warning holds every   *)
(* bar of the lookback asked for, whatever the sizes of the answers and the *)
(* holes in trading, back to the first hole that widening does not bridge,  *)
(* and every position, as long as no answer was empty or refused            *)
(* (get_market_history_paginated: "cannot lose data", get_all_positions).   *)
NothingLost ==
    empty = 0 =>
        /\ said.what \in {"fetched", "hit", "positions"} => said.need \subseteq said.got
        /\ \A k \in DOMAIN stored : Needed(k[1], k[2]) \subseteq stored[k]
=============================================================================
