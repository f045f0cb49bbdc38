---------------------------- MODULE EndpointPacer ----------------------------
(***************************************************************************)
(* EndpointPacer and with_retry (ibkr_core_mcp/rate_limiter.py): the       *)
(* threads of one process send requests to endpoints whose request rate    *)
(* IBKR limits.  Before every attempt a thread acquires the pacer: under   *)
(* one lock, which it keeps while it sleeps, it waits until no limit of    *)
(* the endpoint would be exceeded; a wait of more than MaxWait is not      *)
(* imposed, the request goes out with a warning.                           *)
(*                                                                         *)
(* Every acquisition appends the same moment to the deque of each limit of *)
(* the endpoint, so the deques of an endpoint are suffixes of one sequence *)
(* (grants), each from an index of its own (first).                        *)
(***************************************************************************)
EXTENDS Integers, Sequences, FiniteSets

CONSTANTS
    Threads,      \* threads, each making one request with its retries
    NoThread,     \* nobody holds the lock
    Keys,         \* endpoints, as the pacer tells them apart
    Limits,       \* the limits of each endpoint: <<requests, window>>
    MaxWait,      \* _MAX_PACING_WAIT
    MaxRetries,   \* _DEFAULT_MAX_RETRIES
    Backoff,      \* the delay after each attempt: 1 s, 2 s, 4 s
    MaxTime       \* bound: no call starts at or after this time

ASSUME PacerConstants ==
    /\ Limits \in [Keys -> SUBSET ((Nat \ {0}) \X (Nat \ {0}))]
    /\ MaxWait \in Nat /\ MaxRetries \in Nat /\ MaxTime \in Nat
    /\ Backoff \in [0..MaxRetries -> Nat]
    /\ NoThread \notin Threads

VARIABLES
    stage,    \* where each thread is
    key,      \* the endpoint of its request
    attempt,  \* with_retry's attempt
    until,    \* when its sleep ends
    lock,     \* the thread that holds the pacer's lock
    now,      \* the clock
    grants,   \* per endpoint, the acquisitions recorded: when, and warned or not
    first,    \* per endpoint and limit, the index of the head of the deque
    sent      \* history: per endpoint, the requests sent

thread == <<stage, key, attempt, until>>
pacer == <<lock, grants, first>>
vars == <<thread, pacer, now, sent>>

Stages == {"idle", "pacing", "sleeping", "sending", "backoff", "returned", "raised"}
Grant == [at : Nat, warned : BOOLEAN]

Requests(l) == l[1]
Window(l) == l[2]

Init ==
    /\ stage = [t \in Threads |-> "idle"]
    /\ key \in [Threads -> Keys]
    /\ attempt = [t \in Threads |-> 0] /\ until = [t \in Threads |-> 0]
    /\ lock = NoThread /\ now = 0
    /\ grants = [k \in Keys |-> <<>>]
    /\ first = [k \in Keys |-> [l \in Limits[k] |-> 1]]
    /\ sent = [k \in Keys |-> 0]

\* with_retry is called.
Call(t) ==
    /\ stage[t] = "idle" /\ now < MaxTime
    /\ stage' = [stage EXCEPT ![t] = "pacing"]
    /\ UNCHANGED <<key, attempt, until, pacer, now, sent>>

-----------------------------------------------------------------------------
(* The pacer. *)

\* len(history), for a deque of k that starts at index i.
Length(k, i) == Len(grants[k]) + 1 - i

\* Mutant: an entry that is exactly one window old is still in the way.
ExpireLate(k, l, i) ==
    /\ i >= first[k][l]
    /\ \A j \in first[k][l]..(i - 1) : grants[k][j].at < now - Window(l)
    /\ i <= Len(grants[k]) => grants[k][i].at >= now - Window(l)

\* _expire: the head is popped while it is at least one window old.
Expire(k, l, i) ==
    /\ i >= first[k][l]
    /\ \A j \in first[k][l]..(i - 1) : grants[k][j].at <= now - Window(l)
    /\ i <= Len(grants[k]) => grants[k][i].at > now - Window(l)

\* The heads of the deques of k.
Heads(k) == [Limits[k] -> 1..(Len(grants[k]) + 1)]

\* Mutant: one request too many.
NeededOffByOne(k, l, i) ==
    IF Length(k, i) > Requests(l) THEN grants[k][i].at + Window(l) - now ELSE 0
\* What one limit demands, by the oldest entry of its deque.
Needed(k, l, i) ==
    IF Length(k, i) >= Requests(l) THEN grants[k][i].at + Window(l) - now ELSE 0

\* _required_wait: the longest wait that a limit demands.
RequiredWait(k, heads, wait) ==
    /\ wait \in {0} \cup {Needed(k, l, heads[l]) : l \in Limits[k]}
    /\ \A l \in Limits[k] : Needed(k, l, heads[l]) <= wait

\* Mutant: the lock is not released.
RecordAndKeepLock(t, warned) ==
    /\ grants' = [grants EXCEPT ![key[t]] = Append(@, [at |-> now, warned |-> warned])]
    /\ stage' = [stage EXCEPT ![t] = "sending"]
    /\ UNCHANGED <<lock, until>>

\* The request is recorded and the lock released.
Record(t, warned) ==
    /\ grants' = [grants EXCEPT ![key[t]] = Append(@, [at |-> now, warned |-> warned])]
    /\ stage' = [stage EXCEPT ![t] = "sending"]
    /\ lock' = NoThread
    /\ UNCHANGED until

\* acquire, up to the sleep or, without one, to its end.
Acquire(t) ==
    LET k == key[t] IN
    /\ stage[t] = "pacing" /\ lock = NoThread
    /\ \E heads \in Heads(k) :
         /\ \A l \in Limits[k] : Expire(k, l, heads[l])
         /\ first' = [first EXCEPT ![k] = heads]
         /\ \E wait \in {0} \cup {Needed(k, l, heads[l]) : l \in Limits[k]} :
              /\ RequiredWait(k, heads, wait)
              /\ \/ wait \in 1..MaxWait
                    /\ stage' = [stage EXCEPT ![t] = "sleeping"]
                    /\ until' = [until EXCEPT ![t] = now + wait]
                    /\ lock' = t
                    /\ UNCHANGED grants
                 \/ wait \notin 1..MaxWait
                    /\ Record(t, wait > MaxWait)
    /\ UNCHANGED <<key, attempt, now, sent>>

\* acquire, after the sleep.
Wake(t) ==
    LET k == key[t] IN
    /\ stage[t] = "sleeping" /\ now >= until[t]
    /\ \E heads \in Heads(k) :
         /\ \A l \in Limits[k] : Expire(k, l, heads[l])
         /\ first' = [first EXCEPT ![k] = heads]
    /\ Record(t, FALSE)
    /\ UNCHANGED <<key, attempt, now, sent>>

-----------------------------------------------------------------------------
(* with_retry. *)

Finish(t, end) ==
    /\ stage' = [stage EXCEPT ![t] = end]
    /\ UNCHANGED <<attempt, until>>

\* Mutant: the attempts after the first are not paced.
AfterBackoffUnpaced == "sending"

\* The loop goes round by way of pace(path).
AfterBackoff == "pacing"

MayRetry(t) == attempt[t] < MaxRetries

\* 2xx returns; 401 and the other errors raise; 429 and 503 are tried again after
\* a backoff that doubles, until the retries are used up.
Respond(t) ==
    /\ stage[t] = "sending"
    /\ sent' = [sent EXCEPT ![key[t]] = @ + 1]
    /\ \/ Finish(t, "returned")
       \/ Finish(t, "raised")
       \/ /\ MayRetry(t)
          /\ stage' = [stage EXCEPT ![t] = "backoff"]
          /\ until' = [until EXCEPT ![t] = now + Backoff[attempt[t]]]
          /\ attempt' = [attempt EXCEPT ![t] = @ + 1]
    /\ UNCHANGED <<key, pacer, now>>

Resume(t) ==
    /\ stage[t] = "backoff" /\ now >= until[t]
    /\ stage' = [stage EXCEPT ![t] = AfterBackoff]
    /\ UNCHANGED <<key, attempt, until, pacer, now, sent>>

\* Somebody sleeps, and not yet long enough.
Asleep == \E t \in Threads : stage[t] \in {"sleeping", "backoff"} /\ now < until[t]

\* Time passes; from MaxTime on only while somebody sleeps.
Tick ==
    /\ now < MaxTime \/ Asleep
    /\ now' = now + 1
    /\ UNCHANGED <<thread, pacer, sent>>

\* The bound on time is reached: the process lives on.  That no thread is stuck
\* for ever is a property (EveryCallEnds).
Quiet ==
    /\ now >= MaxTime /\ ~Asleep
    /\ UNCHANGED vars

Step(t) == Acquire(t) \/ Wake(t) \/ Respond(t) \/ Resume(t)

Next == \/ \E t \in Threads : Call(t) \/ Step(t)
        \/ Tick
        \/ Quiet

Spec == Init /\ [][Next]_vars

\* Threads are scheduled, requests have a timeout, and the clock goes on.
FairSpec == Spec /\ WF_vars(Tick) /\ \A t \in Threads : WF_vars(Step(t))

-----------------------------------------------------------------------------
(* Properties. *)

\* Every deque is a suffix of the acquisitions of its endpoint, perhaps the empty one.
Suffixes ==
    /\ first = [k \in Keys |-> [l \in Limits[k] |-> first[k][l]]]
    /\ \A k \in Keys : \A l \in Limits[k] : first[k][l] \in 1..(Len(grants[k]) + 1)

TypeOK ==
    /\ stage \in [Threads -> Stages] /\ key \in [Threads -> Keys]
    /\ attempt \in [Threads -> 0..MaxRetries] /\ until \in [Threads -> Nat]
    /\ lock \in Threads \cup {NoThread}
    /\ now \in Nat
    /\ grants \in [Keys -> Seq(Grant)]
    /\ sent \in [Keys -> Nat]
    /\ Suffixes

\* The acquisitions of k keep a limit: no window has more of them than it allows.
Keeps(k, l) ==
    \A i \in DOMAIN grants[k] : i > Requests(l) =>
        grants[k][i - Requests(l)].at + Window(l) <= grants[k][i].at

\* An endpoint with no window beyond the longest wait.
Paceable(k) == \A l \in Limits[k] : Window(l) <= MaxWait

\* EndpointPacer: whatever the threads do, the requests to an endpoint whose waits
\* are all imposed never exceed any of its limits.
LimitsKept == \A k \in Keys : Paceable(k) => \A l \in Limits[k] : Keeps(k, l)

\* "a request that falls outside the window costs nothing": a thread that sleeps
\* would break a limit if it sent its request a moment before its sleep ends.
NoNeedlessWait ==
    \A t \in Threads : stage[t] = "sleeping" =>
        LET k == key[t] IN
        \E l \in Limits[k] :
            /\ Len(grants[k]) >= Requests(l)
            /\ grants[k][Length(k, Requests(l))].at + Window(l) > until[t] - 1

\* with_retry: every attempt, the first and each retry, is paced and recorded.
EveryAttemptPaced ==
    \A k \in Keys :
        Len(grants[k]) =
            sent[k] + Cardinality({t \in Threads : stage[t] = "sending" /\ key[t] = k})

\* Both of them: every attempt is paced, and none for longer than its limits ask.
AttemptsPaced == EveryAttemptPaced /\ NoNeedlessWait

\* Every call of with_retry ends, although one lock is kept across the sleeps.
EveryCallEnds ==
    \A t \in Threads : stage[t] = "pacing" ~> stage[t] \in {"returned", "raised"}
=============================================================================
