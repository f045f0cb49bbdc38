------------------------------ MODULE BacktestRun ------------------------------
(***************************************************************************)
(* One backtest (backtest.py): the strategy runs in a child process that   *)
(* answers through a pipe, a watchdog thread kills the child at the        *)
(* deadline, and the caller reads the pipe, which has no time-out.         *)
(*                                                                         *)
(* The child may answer, stall before, within or after its answer, or die  *)
(* of itself.  The deadline may pass at any moment.                        *)
(***************************************************************************)
EXTENDS Integers, SequencesExt

CONSTANTS
    None,
    Bars,      \* bound: bars of the data
    MaxRuns    \* bound: backtests

VARIABLES
    caller,    \* [at, status]: run_backtest
    child,     \* "none", "runs", "sends", "sent", "dead"
    pipe,      \* what the pipe holds: None, "part", or the whole answer
    dog,       \* the watchdog: "none", "waits", "fired", "termed", "done"
    received,  \* recv_done
    fired,     \* watchdog_fired
    result,    \* [says, sig, trades]: what the tool answers
    saved,     \* backtests in the store
    runs

vars == <<caller, child, pipe, dog, received, fired, result, saved, runs>>

Answers == {"ok", "syntax", "runtime"}
NoResult == [says |-> None, sig |-> << >>, trades |-> << >>]
Idle == [at |-> "idle", status |-> None]

Init ==
    /\ caller = Idle /\ child = "none" /\ pipe = None
    /\ dog = "none" /\ received = FALSE /\ fired = FALSE
    /\ result = NoResult /\ saved = 0 /\ runs = 0

TypeOK ==
    /\ caller.at \in {"idle", "recv", "close", "judge", "reap", "reap_hard", "join", "measure", "save"}
    /\ caller.status \in Answers \cup {None}
    /\ child \in {"none", "runs", "sends", "sent", "dead"}
    /\ pipe \in Answers \cup {None, "part"}
    /\ dog \in {"none", "waits", "fired", "termed", "done"}
    /\ result.says \in {None, "refused", "timed_out", "exited", "failed", "no_signal", "metrics"}
    /\ saved \in 0..MaxRuns /\ runs \in 0..MaxRuns

Alive == child \in {"runs", "sends", "sent"}
Goes(at) == caller' = [caller EXCEPT !.at = at]
Says(what) == result' = [NoResult EXCEPT !.says = what] /\ caller' = Idle

(********************************* trades **********************************)

\* _compute_metrics: a bar trades on the signal of the bar before; NaN is flat.
Shifted(signal) ==
    [i \in DOMAIN signal |-> IF i = 1 \/ signal[i - 1] = None THEN 0 ELSE signal[i - 1]]

Open(s) == s.start # 0
Closed(s, i) == Append(s.trades, <<s.start, i - 1>>)

\* _segment_trades: one turn of its loop, at bar i; start 0 is None.
TradeStep(sig, s, i) ==
    IF Open(s) /\ sig[i] # sig[s.start]
    THEN [start |-> IF sig[i] # 0 THEN i ELSE 0, trades |-> Closed(s, i)]
    ELSE IF ~Open(s) /\ sig[i] # 0 THEN [s EXCEPT !.start = i]
    ELSE s

\* Its state after each bar.
Loop(sig) ==
    LET s[i \in 0..Len(sig)] ==
          IF i = 0 THEN [start |-> 0, trades |-> << >>] ELSE TradeStep(sig, s[i - 1], i)
    IN  s

SegmentTrades(sig) ==
    LET end == Loop(sig)[Len(sig)]
    IN  IF Open(end) THEN Closed(end, Len(sig) + 1) ELSE end.trades

(******************************* the caller ********************************)

\* _run_backtest, run_backtest: no data, no rows, too long a strategy.
Refuse ==
    /\ caller.at = "idle" /\ runs < MaxRuns /\ runs' = runs + 1
    /\ Says("refused")
    /\ UNCHANGED <<child, pipe, dog, received, fired, saved>>

Start ==
    /\ caller.at = "idle" /\ runs < MaxRuns /\ runs' = runs + 1
    /\ Goes("recv") /\ child' = "runs" /\ pipe' = None
    /\ dog' = "waits" /\ received' = FALSE /\ fired' = FALSE /\ result' = NoResult
    /\ UNCHANGED saved

\* reader.recv: all of the answer, or the end of the file: the caller has closed
\* its own end, so that nothing holds the pipe open but the child.
Recv ==
    /\ caller.at = "recv"
    /\ \/ pipe \in Answers /\ caller' = [at |-> "close", status |-> pipe]
       \/ pipe \notin Answers /\ ~Alive /\ Goes("close")
    /\ UNCHANGED <<child, pipe, dog, received, fired, result, saved, runs>>

\* recv_done.set, then watchdog.join.
Close ==
    /\ caller.at = "close" /\ received' = TRUE
    /\ Goes("judge")
    /\ UNCHANGED <<child, pipe, dog, fired, result, saved, runs>>

\* Mutant: a watchdog that fired is a time-out.
TimedOutFired == fired

TimedOut == caller.status = None /\ fired

Judge ==
    /\ caller.at = "judge" /\ dog = "done"
    /\ IF TimedOut THEN Says("timed_out")
       ELSE Goes(IF caller.status = None THEN "join" ELSE "reap") /\ UNCHANGED result
    /\ UNCHANGED <<child, pipe, dog, received, fired, saved, runs>>

\* process.join: the child ended by itself.
JoinDead ==
    /\ caller.at = "join" /\ ~Alive
    /\ Says("exited")
    /\ UNCHANGED <<child, pipe, dog, received, fired, saved, runs>>

\* _terminate_then_kill: SIGTERM need not end a process that is stuck; SIGKILL does.
Killed == child' = "dead"

Reap ==
    /\ caller.at = "reap"
    /\ \/ ~Alive /\ Goes("measure") /\ UNCHANGED child
       \/ Alive /\ (Killed \/ UNCHANGED child) /\ Goes("reap_hard")
    /\ UNCHANGED <<pipe, dog, received, fired, result, saved, runs>>

ReapHard ==
    /\ caller.at = "reap_hard" /\ Killed /\ Goes("measure")
    /\ UNCHANGED <<pipe, dog, received, fired, result, saved, runs>>

\* The answer is an error, a frame without a signal, or one to measure.
Measure ==
    /\ caller.at = "measure"
    /\ \/ caller.status # "ok" /\ Says("failed")
       \/ caller.status = "ok" /\ Says("no_signal")
       \/ /\ caller.status = "ok" /\ Goes("save")
          /\ \E signal \in [1..Bars -> {-1, 0, 1, None}] :
               result' = [says |-> "metrics", sig |-> Shifted(signal),
                          trades |-> SegmentTrades(Shifted(signal))]
    /\ UNCHANGED <<child, pipe, dog, received, fired, saved, runs>>

\* save_backtest: the answer does not depend on it.
Save ==
    /\ caller.at = "save" /\ caller' = Idle
    /\ saved' \in {saved, saved + 1}
    /\ UNCHANGED <<child, pipe, dog, received, fired, result, runs>>

(******************************* the watchdog ******************************)

Dog(at) == dog' = at /\ UNCHANGED <<caller, pipe, received, result, saved, runs>>

DogGoesHome ==
    /\ dog = "waits" /\ received /\ Dog("done")
    /\ UNCHANGED <<child, fired>>
Deadline ==
    /\ dog = "waits" /\ ~received /\ fired' = TRUE /\ Dog("fired")
    /\ UNCHANGED child
Terminate ==
    /\ dog = "fired" /\ Dog(IF Alive THEN "termed" ELSE "done")
    /\ Killed \/ UNCHANGED child
    /\ UNCHANGED fired
KillAfterGrace ==
    /\ dog = "termed" /\ Dog("done") /\ Killed
    /\ UNCHANGED fired

(******************************** the child ********************************)

Child == UNCHANGED <<caller, dog, received, fired, result, saved, runs>>

\* Connection.send: the answer is longer than the pipe, or not.
BeginSend ==
    /\ child = "runs" /\ child' = "sends" /\ pipe' = "part"
    /\ Child
EndSend ==
    /\ child = "sends" /\ child' = "sent" /\ pipe' \in Answers
    /\ Child
Dies ==
    /\ Alive /\ child' = "dead"
    /\ UNCHANGED pipe /\ Child

CallerStep == Recv \/ Close \/ Judge \/ JoinDead \/ Reap \/ ReapHard \/ Measure \/ Save
DogStep == DogGoesHome \/ Deadline \/ Terminate \/ KillAfterGrace
Next == Refuse \/ Start \/ CallerStep \/ DogStep \/ BeginSend \/ EndSend \/ Dies

Busy == caller.at # "idle"

\* The caller and the watchdog run, and time passes; the child need not.
Fairness == WF_vars(CallerStep) /\ WF_vars(DogStep)
Spec == Init /\ [][Next]_vars /\ Fairness

(******************************** properties *******************************)

(* AnswerWins: an answer the child delivered whole is the answer, however   *)
(* the deadline raced it; without one the run never counts as measured.     *)
(* When the call has returned no child is left running (run_backtest).      *)
AnswerWins ==
    /\ caller.at \in {"measure", "save"} => caller.status = pipe
    /\ result.says \in {"timed_out", "exited"} => pipe \notin Answers
    /\ ~Busy => ~Alive

(* TradesAreRuns: the trades are exactly the maximal runs of bars with one  *)
(* non-zero signal: each such bar is in one trade, and a reversal makes two *)
(* (_segment_trades).                                                       *)
TradesAreRuns ==
    LET sig == result.sig
        Run(i, j) ==
            /\ i <= j /\ sig[i] # 0
            /\ \A k \in i..j : sig[k] = sig[i]
            /\ i = 1 \/ sig[i - 1] # sig[i]
            /\ j = Len(sig) \/ sig[j + 1] # sig[i]
    IN  Range(result.trades) = {r \in (DOMAIN sig) \X (DOMAIN sig) : Run(r[1], r[2])}
=============================================================================
