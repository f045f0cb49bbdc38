------------------------- MODULE EndpointPacerProofs -------------------------
(***************************************************************************)
(* For every set of threads and endpoints, every table of limits and every *)
(* pattern of answers: an endpoint whose windows are not longer than the   *)
(* longest wait never has more acquisitions in a window than it allows.    *)
(*                                                                         *)
(* LimitsKept alone is not inductive.  A thread that wakes does not look   *)
(* at the limits again: that it may go on follows from what it computed    *)
(* before it slept (Waited), from the lock it kept meanwhile (LockHeld)    *)
(* and from the deques, which hold at most as many entries as the limit    *)
(* (NotOverfull) and have lost only entries out of the window (Expired).   *)
(* Then the attempts: each is recorded once, and no sleep is needless.     *)
(***************************************************************************)
EXTENDS EndpointPacer, SequenceTheorems, FiniteSetTheorems, TLAPS

\* The acquisitions of an endpoint are in order, and none is in the future.
InOrder ==
    \A k \in Keys :
        /\ \A i \in DOMAIN grants[k] : grants[k][i].at <= now
        /\ \A i, j \in DOMAIN grants[k] : i <= j => grants[k][i].at <= grants[k][j].at

\* What a deque has lost is out of its window.
Expired ==
    \A k \in Keys : \A l \in Limits[k] : \A i \in 1..(first[k][l] - 1) :
        grants[k][i].at + Window(l) <= now

NotOverfull ==
    \A k \in Keys : Paceable(k) => \A l \in Limits[k] : Length(k, first[k][l]) <= Requests(l)

\* Only the holder of the lock sleeps in the pacer.
LockHeld == \A t \in Threads : stage[t] = "sleeping" => lock = t

\* A full deque loses its head before the sleep ends.
Waited ==
    \A t \in Threads : stage[t] = "sleeping" =>
        \A l \in Limits[key[t]] : Length(key[t], first[key[t]][l]) >= Requests(l) =>
            grants[key[t]][first[key[t]][l]].at + Window(l) <= until[t]

PacerInv == InOrder /\ Expired /\ NotOverfull /\ LockHeld /\ Waited /\ LimitsKept

\* The limits are pairs of positive numbers.
LEMMA LimitTypes ==
    ASSUME NEW k \in Keys, NEW l \in Limits[k]
    PROVE  Requests(l) \in Nat \ {0} /\ Window(l) \in Nat \ {0}
  BY PacerConstants DEF Requests, Window

\* What an acquisition appends: the earlier entries stay, the new one is the last.
LEMMA Appended ==
    ASSUME NEW s \in Seq(Grant), NEW g \in Grant
    PROVE  /\ Append(s, g) \in Seq(Grant)
           /\ Len(Append(s, g)) = Len(s) + 1
           /\ \A i \in 1..Len(s) : Append(s, g)[i] = s[i]
           /\ Append(s, g)[Len(s) + 1] = g
  BY SMT

LEMMA GrantTypes ==
    ASSUME NEW s \in Seq(Grant), NEW i \in 1..Len(s)
    PROVE  s[i] \in Grant /\ s[i].at \in Nat
<1>1. s[i] \in Grant
  OBVIOUS
<1> QED BY <1>1 DEF Grant

LEMMA DequeTypes ==
    ASSUME TypeOK, NEW k \in Keys, NEW l \in Limits[k]
    PROVE  /\ grants[k] \in Seq(Grant) /\ Len(grants[k]) \in Nat /\ now \in Nat
           /\ first[k][l] \in 1..(Len(grants[k]) + 1) /\ first[k][l] \in Nat
<1>1. grants[k] \in Seq(Grant) /\ now \in Nat
  BY DEF TypeOK
<1>2. \A q \in Keys : \A m \in Limits[q] : first[q][m] \in 1..(Len(grants[q]) + 1)
  BY DEF TypeOK, Suffixes
<1>3. first[k][l] \in 1..(Len(grants[k]) + 1)
  BY <1>2
<1> QED BY <1>1, <1>3

LEMMA SuffixesStay == Suffixes /\ UNCHANGED <<first, grants>> => Suffixes'
  BY DEF Suffixes

\* Arithmetic of windows and of suffixes.
LEMMA DueAfterWait ==
    ASSUME NEW a \in Int, NEW W \in Int, NEW n \in Int, NEW w \in Int, a + W - n <= w
    PROVE  a + W <= n + w
  OBVIOUS

LEMMA LessOrNot ==
    ASSUME NEW x \in Int, NEW y \in Int
    PROVE  x < y \/ x >= y
  OBVIOUS

LEMMA NotBothInAndOut ==
    ASSUME NEW a \in Int, NEW W \in Int, NEW n \in Int, NEW u \in Int,
           a > n - W, a + W <= u, n >= u
    PROVE  FALSE
  OBVIOUS

LEMMA NonemptySuffix ==
    ASSUME NEW n \in Nat, NEW i \in 1..(n + 1), NEW r \in Nat \ {0}, n + 1 - i >= r
    PROVE  i \in 1..n
  OBVIOUS

LEMMA SuffixLength ==
    ASSUME NEW n \in Int, NEW i \in Int
    PROVE  n + 1 - i \in Int
  OBVIOUS

LEMMA LaterIsEnough ==
    ASSUME NEW a \in Int, NEW b \in Int, NEW W \in Int, NEW n \in Int, NEW w \in Int,
           w = a + W - n, a <= b
    PROVE  b + W > (n + w) - 1
  OBVIOUS

LEMMA ShorterSuffix ==
    ASSUME NEW n \in Int, NEW i \in Int, NEW h \in Int, NEW r \in Int, h >= i,
           n + 1 - i < r \/ (n + 1 - i <= r /\ h # i)
    PROVE  n + 1 - h < r
  OBVIOUS

-----------------------------------------------------------------------------
(* Types. *)

LEMMA TypeInit == Init => TypeOK
  BY PacerConstants DEF Init, TypeOK, Suffixes, Stages, Grant

\* A deque with new heads stays inside the acquisitions, as they are or with one more.
LEMMA HeadsInside ==
    ASSUME TypeOK, NEW k \in Keys, NEW heads \in Heads(k),
           first' = [first EXCEPT ![k] = heads],
           grants' \in [Keys -> Seq(Grant)],
           \A q \in Keys : Len(grants'[q]) \in Nat /\ Len(grants'[q]) >= Len(grants[q])
    PROVE  Suffixes'
<1>1. \A q \in Keys : Len(grants[q]) \in Nat
  BY DEF TypeOK, Suffixes
<1>2. first'[k] = heads /\ \A q \in Keys : q # k => first'[q] = first[q]
  BY DEF TypeOK, Suffixes
<1>3. \A l \in Limits[k] : heads[l] \in 1..(Len(grants[k]) + 1)
  BY DEF Heads
<1>4. heads = [l \in Limits[k] |-> heads[l]]
  BY DEF Heads
<1>5. \A q \in Keys : first'[q] = [l \in Limits[q] |-> first'[q][l]]
  <2>1. \A q \in Keys : first[q] = [l \in Limits[q] |-> first[q][l]]
    BY DEF TypeOK, Suffixes
  <2> QED BY <1>2, <1>4, <2>1
<1>6. first' = [q \in Keys |-> first'[q]]
  BY DEF TypeOK, Suffixes
<1>7. first' = [q \in Keys |-> [l \in Limits[q] |-> first'[q][l]]]
  BY <1>5, <1>6, Zenon
<1>8. ASSUME NEW q \in Keys, NEW l \in Limits[q]
      PROVE  first'[q][l] \in 1..(Len(grants'[q]) + 1)
  <2>1. first'[q][l] \in 1..(Len(grants[q]) + 1)
    BY <1>2, <1>3 DEF TypeOK, Suffixes
  <2> QED BY <2>1, <1>1
<1> QED BY <1>7, <1>8 DEF Suffixes

LEMMA NeededType ==
    ASSUME TypeOK, NEW k \in Keys, NEW l \in Limits[k], NEW i \in 1..(Len(grants[k]) + 1)
    PROVE  Needed(k, l, i) \in Int
<1>1. Requests(l) \in Nat \ {0} /\ Window(l) \in Nat \ {0}
  BY LimitTypes
<1>2. grants[k] \in Seq(Grant) /\ Len(grants[k]) \in Nat /\ now \in Nat
  BY DEF TypeOK
<1>3. CASE Length(k, i) >= Requests(l)
  <2>1. i \in 1..Len(grants[k])
    BY <1>1, <1>2, <1>3 DEF Length
  <2>2. grants[k][i].at \in Nat
    BY <1>2, <2>1, GrantTypes
  <2> QED BY <1>1, <1>2, <1>3, <2>2 DEF Needed
<1>4. CASE ~(Length(k, i) >= Requests(l))
  BY <1>4 DEF Needed
<1> QED BY <1>3, <1>4

LEMMA RecordTypes ==
    ASSUME TypeOK, NEW t \in Threads, NEW w \in BOOLEAN, Record(t, w)
    PROVE  /\ grants' \in [Keys -> Seq(Grant)]
           /\ \A q \in Keys : Len(grants'[q]) \in Nat /\ Len(grants'[q]) >= Len(grants[q])
           /\ stage' \in [Threads -> Stages] /\ until' \in [Threads -> Nat]
           /\ lock' \in Threads \cup {NoThread}
<1>1. key[t] \in Keys /\ grants[key[t]] \in Seq(Grant) /\ now \in Nat
  BY DEF TypeOK
<1>2. [at |-> now, warned |-> w] \in Grant
  BY <1>1 DEF Grant
<1> DEFINE g == [at |-> now, warned |-> w]
<1>3. /\ Append(grants[key[t]], g) \in Seq(Grant)
      /\ Len(Append(grants[key[t]], g)) = Len(grants[key[t]]) + 1
  BY <1>1, <1>2, Appended
<1>4. grants' = [grants EXCEPT ![key[t]] = Append(grants[key[t]], g)]
  BY DEF Record
<1>5. grants' \in [Keys -> Seq(Grant)]
  BY <1>1, <1>3, <1>4 DEF TypeOK
<1>6. ASSUME NEW q \in Keys
      PROVE  Len(grants'[q]) \in Nat /\ Len(grants'[q]) >= Len(grants[q])
  <2>1. Len(grants[q]) \in Nat
    BY DEF TypeOK
  <2>2. CASE q = key[t]
    <3>1. grants'[q] = Append(grants[key[t]], g)
      BY <1>4, <2>2 DEF TypeOK
    <3> QED BY <3>1, <1>3, <2>1, <2>2
  <2>3. CASE q # key[t]
    <3>1. grants'[q] = grants[q]
      BY <1>4, <2>3 DEF TypeOK
    <3> QED BY <3>1, <2>1
  <2> QED BY <2>2, <2>3
<1> QED BY <1>5, <1>6 DEF Record, TypeOK, Stages

LEMMA TypeStep == TypeOK /\ [Next]_vars => TypeOK'
<1> SUFFICES ASSUME TypeOK, [Next]_vars PROVE TypeOK'
  OBVIOUS
<1>1. ASSUME NEW t \in Threads, Call(t) PROVE TypeOK'
  BY <1>1, SuffixesStay DEF Call, TypeOK, Stages, pacer
<1>2. ASSUME NEW t \in Threads, Acquire(t) PROVE TypeOK'
  <2> DEFINE k == key[t]
  <2>1. k \in Keys
    BY DEF TypeOK
  <2>2. PICK heads \in Heads(k) :
          /\ first' = [first EXCEPT ![k] = heads]
          /\ \E wait \in {0} \cup {Needed(k, l, heads[l]) : l \in Limits[k]} :
              \/ wait \in 1..MaxWait
                    /\ stage' = [stage EXCEPT ![t] = "sleeping"]
                    /\ until' = [until EXCEPT ![t] = now + wait]
                    /\ lock' = t
                    /\ UNCHANGED grants
              \/ Record(t, wait > MaxWait)
    BY <1>2 DEF Acquire
  <2>3. /\ grants' \in [Keys -> Seq(Grant)]
        /\ \A q \in Keys : Len(grants'[q]) \in Nat /\ Len(grants'[q]) >= Len(grants[q])
        /\ stage' \in [Threads -> Stages] /\ until' \in [Threads -> Nat]
        /\ lock' \in Threads \cup {NoThread}
    <3> PICK wait \in {0} \cup {Needed(k, l, heads[l]) : l \in Limits[k]} :
                    \/ wait \in 1..MaxWait
                       /\ stage' = [stage EXCEPT ![t] = "sleeping"]
                       /\ until' = [until EXCEPT ![t] = now + wait]
                       /\ lock' = t
                       /\ UNCHANGED grants
                    \/ Record(t, wait > MaxWait)
      BY <2>2
    <3>1. CASE Record(t, wait > MaxWait)
      <4>1. \A l \in Limits[k] : heads[l] \in 1..(Len(grants[k]) + 1)
        BY DEF Heads
      <4>2. wait \in Int
        BY <2>1, <4>1, NeededType
      <4>3. (wait > MaxWait) \in BOOLEAN
        BY <4>2, PacerConstants
      <4> QED BY <3>1, <4>3, RecordTypes
    <3>2. CASE /\ wait \in 1..MaxWait
               /\ stage' = [stage EXCEPT ![t] = "sleeping"]
               /\ until' = [until EXCEPT ![t] = now + wait]
               /\ lock' = t
               /\ UNCHANGED grants
      <4>1. now + wait \in Nat
        <5>1. wait \in 1..MaxWait /\ MaxWait \in Nat /\ now \in Nat
          BY <3>2, PacerConstants DEF TypeOK
        <5> QED BY <5>1
      <4> QED BY <3>2, <4>1 DEF TypeOK, Stages
    <3> QED BY <3>1, <3>2
  <2>4. Suffixes'
    BY <2>1, <2>2, <2>3, HeadsInside
  <2> QED BY <1>2, <2>3, <2>4 DEF Acquire, TypeOK
<1>3. ASSUME NEW t \in Threads, Wake(t) PROVE TypeOK'
  <2> DEFINE k == key[t]
  <2>1. k \in Keys
    BY DEF TypeOK
  <2>2. PICK heads \in Heads(k) : first' = [first EXCEPT ![k] = heads]
    BY <1>3 DEF Wake
  <2>3. /\ grants' \in [Keys -> Seq(Grant)]
        /\ \A q \in Keys : Len(grants'[q]) \in Nat /\ Len(grants'[q]) >= Len(grants[q])
        /\ stage' \in [Threads -> Stages] /\ until' \in [Threads -> Nat]
        /\ lock' \in Threads \cup {NoThread}
    BY <1>3, RecordTypes DEF Wake
  <2>4. Suffixes'
    BY <2>1, <2>2, <2>3, HeadsInside
  <2> QED BY <1>3, <2>3, <2>4 DEF Wake, TypeOK
<1>4. ASSUME NEW t \in Threads, Respond(t) PROVE TypeOK'
  <2>1. /\ sent' \in [Keys -> Nat]
        /\ UNCHANGED <<key, pacer, now>>
    BY <1>4 DEF Respond, TypeOK
  <2>2. stage' \in [Threads -> Stages] /\ attempt' \in [Threads -> 0..MaxRetries]
        /\ until' \in [Threads -> Nat]
    <3>1. CASE Finish(t, "returned") \/ Finish(t, "raised")
      BY <3>1 DEF Finish, TypeOK, Stages
    <3>2. CASE /\ MayRetry(t)
               /\ stage' = [stage EXCEPT ![t] = "backoff"]
               /\ until' = [until EXCEPT ![t] = now + Backoff[attempt[t]]]
               /\ attempt' = [attempt EXCEPT ![t] = @ + 1]
      <4>1. attempt[t] \in 0..MaxRetries /\ attempt[t] + 1 \in 0..MaxRetries
        <5>1. attempt[t] \in 0..MaxRetries /\ MaxRetries \in Nat
          BY PacerConstants DEF TypeOK
        <5>2. attempt[t] < MaxRetries
          BY <3>2 DEF MayRetry
        <5> QED BY <5>1, <5>2
      <4>2. now + Backoff[attempt[t]] \in Nat
        <5>1. Backoff[attempt[t]] \in Nat /\ now \in Nat
          BY <4>1, PacerConstants DEF TypeOK
        <5> QED BY <5>1
      <4> QED BY <3>2, <4>1, <4>2 DEF TypeOK, Stages
    <3> QED BY <1>4, <3>1, <3>2 DEF Respond
  <2> QED BY <2>1, <2>2, SuffixesStay DEF TypeOK, pacer
<1>5. ASSUME NEW t \in Threads, Resume(t) PROVE TypeOK'
  BY <1>5, SuffixesStay DEF Resume, AfterBackoff, TypeOK, Stages, pacer
<1>6. CASE Tick
  BY <1>6, SuffixesStay DEF Tick, TypeOK, thread, pacer
<1>7. CASE UNCHANGED vars
  BY <1>7, SuffixesStay DEF vars, thread, pacer, TypeOK
<1> QED BY <1>1, <1>2, <1>3, <1>4, <1>5, <1>6, <1>7 DEF Next, Step, Quiet

\* EndpointPacer: the deques of an endpoint are suffixes of its acquisitions, and no
\* thread makes more attempts than with_retry allows.
THEOREM PacerTypes == Spec => []TypeOK
  BY TypeInit, TypeStep, PTL DEF Spec

-----------------------------------------------------------------------------
(* The limits. *)

\* One limit and one more acquisition: if fewer than n entries are left in the deque,
\* the n-th before the new one is out of the window.
LEMMA OneMoreKept ==
    ASSUME NEW s \in Seq(Grant), NEW g \in Grant, NEW n \in Nat \ {0}, NEW W \in Nat,
           NEW h \in 1..(Len(s) + 1), Len(s) + 1 - h < n,
           \A i \in 1..(h - 1) : s[i].at + W <= g.at,
           \A i \in DOMAIN s : i > n => s[i - n].at + W <= s[i].at
    PROVE  \A i \in DOMAIN Append(s, g) :
               i > n => Append(s, g)[i - n].at + W <= Append(s, g)[i].at
<1> DEFINE r == Append(s, g)
<1>1. /\ r \in Seq(Grant) /\ Len(r) = Len(s) + 1
      /\ \A i \in 1..Len(s) : r[i] = s[i]
      /\ r[Len(s) + 1] = g
  BY Appended
<1>2. Len(s) \in Nat /\ DOMAIN s = 1..Len(s) /\ DOMAIN r = 1..(Len(s) + 1)
  BY <1>1
<1> HIDE DEF r
<1>3. ASSUME NEW i \in DOMAIN r, i > n
      PROVE  r[i - n].at + W <= r[i].at
  <2>1. CASE i = Len(s) + 1
    <3>1. i - n \in 1..(h - 1) /\ i - n \in 1..Len(s)
      BY <1>2, <1>3, <2>1
    <3>2. r[i - n] = s[i - n] /\ r[i] = g
      BY <1>1, <2>1, <3>1
    <3>3. s[i - n].at + W <= g.at
      BY <3>1
    <3> QED BY <3>2, <3>3
  <2>2. CASE i \in 1..Len(s)
    <3>1. i - n \in 1..Len(s)
      BY <1>2, <1>3, <2>2
    <3>2. r[i - n] = s[i - n] /\ r[i] = s[i]
      BY <1>1, <2>2, <3>1
    <3>3. s[i - n].at + W <= s[i].at
      BY <1>2, <1>3, <2>2
    <3> QED BY <3>2, <3>3
  <2> QED BY <1>2, <2>1, <2>2
<1> QED BY <1>3 DEF r

\* One more acquisition, now, keeps the order.
LEMMA OneMoreInOrder ==
    ASSUME NEW s \in Seq(Grant), NEW g \in Grant,
           \A i \in DOMAIN s : s[i].at <= g.at,
           \A i, j \in DOMAIN s : i <= j => s[i].at <= s[j].at
    PROVE  /\ \A i \in DOMAIN Append(s, g) : Append(s, g)[i].at <= g.at
           /\ \A i, j \in DOMAIN Append(s, g) :
                  i <= j => Append(s, g)[i].at <= Append(s, g)[j].at
<1> DEFINE r == Append(s, g)
<1>1. /\ r \in Seq(Grant) /\ Len(r) = Len(s) + 1
      /\ \A i \in 1..Len(s) : r[i] = s[i]
      /\ r[Len(s) + 1] = g
  BY Appended
<1>2. Len(s) \in Nat /\ DOMAIN s = 1..Len(s) /\ DOMAIN r = 1..(Len(s) + 1)
  BY <1>1
<1>3. g.at \in Nat
  BY DEF Grant
<1> HIDE DEF r
<1>4. ASSUME NEW i \in DOMAIN r PROVE r[i].at <= g.at
  <2>1. CASE i = Len(s) + 1
    BY <1>1, <1>3, <2>1
  <2>2. CASE i \in 1..Len(s)
    BY <1>1, <1>2, <2>2
  <2> QED BY <1>2, <2>1, <2>2
<1>5. ASSUME NEW i \in DOMAIN r, NEW j \in DOMAIN r, i <= j PROVE r[i].at <= r[j].at
  <2>1. CASE j = Len(s) + 1
    BY <1>1, <1>4, <2>1
  <2>2. CASE j \in 1..Len(s)
    <3>1. i \in 1..Len(s)
      BY <1>2, <1>5, <2>2
    <3> QED BY <1>1, <1>2, <1>5, <2>2, <3>1
  <2> QED BY <1>2, <2>1, <2>2
<1> QED BY <1>4, <1>5 DEF r

\* What _expire leaves: every entry before the new head is out of the window, and the
\* deque is not longer than it was.
LEMMA AfterExpire ==
    ASSUME TypeOK, Expired, NEW k \in Keys, NEW l \in Limits[k],
           NEW h \in 1..(Len(grants[k]) + 1), Expire(k, l, h)
    PROVE  /\ \A i \in 1..(h - 1) : grants[k][i].at + Window(l) <= now
           /\ Length(k, h) <= Length(k, first[k][l])
           /\ h <= Len(grants[k]) => grants[k][h].at + Window(l) > now
<1>1. /\ grants[k] \in Seq(Grant) /\ Len(grants[k]) \in Nat /\ now \in Nat
      /\ first[k][l] \in 1..(Len(grants[k]) + 1)
  BY DequeTypes
<1>2. Window(l) \in Nat
  BY LimitTypes
<1>3. h >= first[k][l]
  BY DEF Expire
<1>4. ASSUME NEW i \in 1..(h - 1) PROVE grants[k][i].at + Window(l) <= now
  <2>1. i \in 1..Len(grants[k])
    BY <1>1
  <2>2. grants[k][i].at \in Nat
    BY <1>1, <2>1, GrantTypes
  <2>3. CASE i < first[k][l]
    <3>1. i \in 1..(first[k][l] - 1)
      BY <1>1, <2>3
    <3> QED BY <3>1 DEF Expired
  <2>4. CASE i >= first[k][l]
    <3>1. i \in first[k][l]..(h - 1)
      BY <1>1, <2>4
    <3>2. grants[k][i].at <= now - Window(l)
      BY <3>1 DEF Expire
    <3> QED BY <1>1, <1>2, <2>2, <3>2
  <2> QED BY <1>1, <2>3, <2>4
<1>5. Length(k, h) <= Length(k, first[k][l])
  BY <1>1, <1>3 DEF Length
<1>6. ASSUME h <= Len(grants[k]) PROVE grants[k][h].at + Window(l) > now
  <2>1. h \in 1..Len(grants[k])
    BY <1>1, <1>6
  <2>2. grants[k][h].at \in Nat
    BY <1>1, <2>1, GrantTypes
  <2>3. grants[k][h].at > now - Window(l)
    BY <1>6 DEF Expire
  <2> QED BY <1>1, <1>2, <2>2, <2>3
<1> QED BY <1>4, <1>5, <1>6

\* The deques of k get new heads; what was lost is out of the window.
LEMMA HeadsExpired ==
    ASSUME TypeOK, Expired, NotOverfull, NEW k \in Keys, NEW heads \in Heads(k),
           \A l \in Limits[k] : Expire(k, l, heads[l]),
           first' = [first EXCEPT ![k] = heads], grants' = grants, now' = now
    PROVE  Expired' /\ NotOverfull'
<1>1. \A l \in Limits[k] : heads[l] \in 1..(Len(grants[k]) + 1)
  BY DEF Heads
<1>2. first'[k] = heads /\ \A q \in Keys : q # k => first'[q] = first[q]
  BY DEF TypeOK, Suffixes
<1>3. \A l \in Limits[k] :
         /\ \A i \in 1..(heads[l] - 1) : grants[k][i].at + Window(l) <= now
         /\ Length(k, heads[l]) <= Length(k, first[k][l])
  BY <1>1, AfterExpire
<1>4. Expired'
  BY <1>2, <1>3 DEF Expired
<1>5. ASSUME NEW q \in Keys, Paceable(q), NEW l \in Limits[q]
      PROVE  Len(grants[q]) + 1 - first'[q][l] <= Requests(l)
  <2>1. Len(grants[q]) + 1 - first[q][l] <= Requests(l)
    BY <1>5 DEF NotOverfull, Length
  <2>2. CASE q # k
    BY <1>2, <2>1, <2>2
  <2>3. CASE q = k
    <3>1. Len(grants[k]) + 1 - heads[l] <= Len(grants[k]) + 1 - first[k][l]
      BY <1>3, <2>3 DEF Length
    <3>2. /\ Len(grants[k]) \in Nat /\ first[k][l] \in Int /\ heads[l] \in Int
          /\ Requests(l) \in Nat
      BY <1>1, <2>3, LimitTypes, DequeTypes
    <3> QED BY <1>2, <2>1, <2>3, <3>1, <3>2
  <2> QED BY <2>2, <2>3
<1>6. NotOverfull'
  BY <1>5 DEF NotOverfull, Length, Paceable
<1> QED BY <1>4, <1>6

\* The end of an acquisition, with and without a sleep: the deques lose what is out of
\* the window and, if the endpoint is paceable, have room for one more.
LEMMA OneMore ==
    ASSUME TypeOK, TypeOK', InOrder, Expired, NotOverfull, LimitsKept,
           NEW t \in Threads, NEW w \in BOOLEAN, Record(t, w), now' = now,
           NEW heads \in Heads(key[t]),
           \A l \in Limits[key[t]] : Expire(key[t], l, heads[l]),
           first' = [first EXCEPT ![key[t]] = heads],
           Paceable(key[t]) =>
               \A l \in Limits[key[t]] : Length(key[t], heads[l]) < Requests(l)
    PROVE  InOrder' /\ Expired' /\ NotOverfull' /\ LimitsKept'
<1> DEFINE k == key[t]
           g == [at |-> now, warned |-> w]
<1>1. k \in Keys /\ now \in Nat
  BY DEF TypeOK
<1>2. g \in Grant /\ g.at = now
  BY <1>1 DEF Grant
<1>3. grants'[k] = Append(grants[k], g) /\ \A q \in Keys : q # k => grants'[q] = grants[q]
  BY <1>1 DEF Record, TypeOK
<1>4. first'[k] = heads /\ \A q \in Keys : q # k => first'[q] = first[q]
  BY <1>1 DEF TypeOK, Suffixes
<1>5. \A q \in Keys : grants[q] \in Seq(Grant) /\ Len(grants[q]) \in Nat
  BY DEF TypeOK
<1>6. \A l \in Limits[k] : heads[l] \in 1..(Len(grants[k]) + 1)
  BY DEF Heads
<1>7. \A l \in Limits[k] : \A i \in 1..(heads[l] - 1) : grants[k][i].at + Window(l) <= now
  BY <1>1, <1>6, AfterExpire
<1>8. /\ Append(grants[k], g) \in Seq(Grant)
      /\ Len(Append(grants[k], g)) = Len(grants[k]) + 1
      /\ \A i \in 1..Len(grants[k]) : Append(grants[k], g)[i] = grants[k][i]
  BY <1>1, <1>2, <1>5, Appended
<1> HIDE DEF k, g
<1>9. InOrder'
  <2>1. ASSUME NEW q \in Keys, q # k
        PROVE  /\ \A i \in DOMAIN grants'[q] : grants'[q][i].at <= now'
               /\ \A i, j \in DOMAIN grants'[q] : i <= j => grants'[q][i].at <= grants'[q][j].at
    BY <1>3, <2>1 DEF InOrder
  <2>2. /\ \A i \in DOMAIN grants'[k] : grants'[k][i].at <= now'
        /\ \A i, j \in DOMAIN grants'[k] : i <= j => grants'[k][i].at <= grants'[k][j].at
    <3>1. /\ \A i \in DOMAIN grants[k] : grants[k][i].at <= g.at
          /\ \A i, j \in DOMAIN grants[k] : i <= j => grants[k][i].at <= grants[k][j].at
      BY <1>1, <1>2 DEF InOrder
    <3>2. /\ \A i \in DOMAIN Append(grants[k], g) : Append(grants[k], g)[i].at <= g.at
          /\ \A i, j \in DOMAIN Append(grants[k], g) :
                 i <= j => Append(grants[k], g)[i].at <= Append(grants[k], g)[j].at
      BY <1>1, <1>2, <1>5, <3>1, OneMoreInOrder
    <3> QED BY <1>2, <1>3, <3>2
  <2> QED BY <2>1, <2>2 DEF InOrder
<1>10. Expired'
  <2>1. ASSUME NEW q \in Keys, NEW l \in Limits[q], NEW i \in 1..(first'[q][l] - 1)
        PROVE  grants'[q][i].at + Window(l) <= now'
    <3>1. CASE q # k
      BY <1>3, <1>4, <2>1, <3>1 DEF Expired
    <3>2. CASE q = k
      <4>1. first'[k][l] = heads[l] /\ heads[l] \in 1..(Len(grants[k]) + 1)
        BY <1>4, <1>6, <3>2
      <4>2. i \in 1..(heads[l] - 1) /\ i \in 1..Len(grants[k])
        BY <1>1, <1>5, <2>1, <3>2, <4>1
      <4>3. grants'[q][i] = grants[k][i]
        BY <1>3, <1>8, <3>2, <4>2
      <4> QED BY <1>7, <3>2, <4>2, <4>3
    <3> QED BY <3>1, <3>2
  <2> QED BY <2>1 DEF Expired
<1>11. ASSUME NEW q \in Keys, Paceable(q), NEW l \in Limits[q]
       PROVE  /\ Len(grants'[q]) + 1 - first'[q][l] <= Requests(l)
              /\ \A i \in DOMAIN grants'[q] : i > Requests(l) =>
                     grants'[q][i - Requests(l)].at + Window(l) <= grants'[q][i].at
  <2>1. CASE q # k
    BY <1>3, <1>4, <1>11, <2>1 DEF NotOverfull, LimitsKept, Keeps, Length
  <2>2. CASE q = k
    <3>1. /\ heads[l] \in 1..(Len(grants[k]) + 1) /\ first'[k][l] = heads[l]
          /\ Requests(l) \in Nat \ {0} /\ Window(l) \in Nat
          /\ Len(grants[k]) \in Nat /\ grants[k] \in Seq(Grant)
      BY <1>1, <1>4, <1>5, <1>6, <2>2, LimitTypes
    <3>2. Len(grants[k]) + 1 - heads[l] < Requests(l)
      BY <1>11, <2>2 DEF Length, k
    <3>3. Len(grants'[k]) = Len(grants[k]) + 1
      BY <1>3, <1>8
    <3>4. Len(grants'[k]) + 1 - first'[k][l] <= Requests(l)
      BY <3>1, <3>2, <3>3
    <3>5. \A i \in 1..(heads[l] - 1) : grants[k][i].at + Window(l) <= g.at
      BY <1>2, <1>7, <2>2
    <3>6. \A i \in DOMAIN grants[k] : i > Requests(l) =>
              grants[k][i - Requests(l)].at + Window(l) <= grants[k][i].at
      BY <1>11, <2>2 DEF LimitsKept, Keeps
    <3>7. \A i \in DOMAIN Append(grants[k], g) : i > Requests(l) =>
              Append(grants[k], g)[i - Requests(l)].at + Window(l)
                  <= Append(grants[k], g)[i].at
      BY <1>2, <3>1, <3>2, <3>5, <3>6, OneMoreKept
    <3> QED BY <1>3, <2>2, <3>4, <3>7
  <2> QED BY <2>1, <2>2
<1>12. NotOverfull' /\ LimitsKept'
  BY <1>11 DEF NotOverfull, LimitsKept, Keeps, Length, Paceable
<1> QED BY <1>9, <1>10, <1>12

\* What an acquisition of a paceable endpoint waits for is never more than the longest
\* wait, so it is imposed; a full deque demands a wait.
LEMMA WaitImposed ==
    ASSUME TypeOK, InOrder, Expired, NEW k \in Keys, NEW heads \in Heads(k), Paceable(k),
           \A l \in Limits[k] : Expire(k, l, heads[l]),
           NEW wait \in {0} \cup {Needed(k, l, heads[l]) : l \in Limits[k]},
           RequiredWait(k, heads, wait), wait \notin 1..MaxWait
    PROVE  \A l \in Limits[k] : Length(k, heads[l]) < Requests(l)
<1>1. ASSUME NEW l \in Limits[k]
      PROVE  /\ Needed(k, l, heads[l]) \in Int /\ Needed(k, l, heads[l]) <= MaxWait
             /\ Length(k, heads[l]) >= Requests(l) => Needed(k, l, heads[l]) > 0
             /\ Length(k, heads[l]) \in Int /\ Requests(l) \in Int
  <2>1. /\ Requests(l) \in Nat \ {0} /\ Window(l) \in Nat
        /\ Window(l) <= MaxWait /\ MaxWait \in Nat
    BY LimitTypes, PacerConstants DEF Paceable
  <2>2. heads[l] \in 1..(Len(grants[k]) + 1) /\ Len(grants[k]) \in Nat
    BY <1>1, DequeTypes DEF Heads
  <2>3. Length(k, heads[l]) \in Int
    BY <2>2 DEF Length
  <2>4. CASE Length(k, heads[l]) >= Requests(l)
    <3>1. heads[l] \in 1..Len(grants[k])
      BY <2>1, <2>2, <2>4 DEF Length
    <3>2. grants[k][heads[l]].at \in Nat /\ now \in Nat
      BY <1>1, <3>1, GrantTypes, DequeTypes
    <3>3. grants[k][heads[l]].at <= now
      BY <3>1, DequeTypes DEF InOrder
    <3>4. grants[k][heads[l]].at + Window(l) > now
      BY <2>2, <3>1, AfterExpire
    <3>5. Needed(k, l, heads[l]) = grants[k][heads[l]].at + Window(l) - now
      BY <2>4 DEF Needed
    <3> HIDE DEF Needed
    <3> QED BY <2>1, <2>3, <3>2, <3>3, <3>4, <3>5
  <2>5. CASE ~(Length(k, heads[l]) >= Requests(l))
    BY <2>1, <2>3, <2>5 DEF Needed
  <2> QED BY <2>4, <2>5
<1>2. wait \in Int /\ wait <= MaxWait /\ MaxWait \in Nat
  BY <1>1, PacerConstants
<1>3. wait <= 0
  BY <1>2
<1>4. \A l \in Limits[k] : Needed(k, l, heads[l]) <= 0
  <2>1. ASSUME NEW l \in Limits[k] PROVE Needed(k, l, heads[l]) <= 0
    <3>1. Needed(k, l, heads[l]) <= wait
      BY DEF RequiredWait
    <3> QED BY <1>1, <1>2, <1>3, <3>1
  <2> QED BY <2>1
<1> QED BY <1>1, <1>4

-----------------------------------------------------------------------------
(* The invariant. *)

LEMMA PacerInit == TypeOK /\ Init => PacerInv
<1> SUFFICES ASSUME TypeOK, Init PROVE PacerInv
  OBVIOUS
<1>1. \A k \in Keys : grants[k] = <<>> /\ Len(grants[k]) = 0 /\ DOMAIN grants[k] = {}
  BY DEF Init
<1>2. \A k \in Keys : \A l \in Limits[k] : first[k][l] = 1
  BY DEF Init
<1>3. InOrder /\ LimitsKept
  BY <1>1 DEF InOrder, LimitsKept, Keeps
<1>4. Expired
  BY <1>2 DEF Expired
<1>5. NotOverfull
  BY <1>1, <1>2, LimitTypes DEF NotOverfull, Length
<1>6. LockHeld /\ Waited
  BY DEF Init, LockHeld, Waited
<1> QED BY <1>3, <1>4, <1>5, <1>6 DEF PacerInv

\* A step of nobody's in the pacer keeps the invariant.
LEMMA PacerUntouched ==
    ASSUME TypeOK, PacerInv, TypeOK', UNCHANGED <<pacer, key>>, now' >= now,
           \A t \in Threads : stage'[t] = "sleeping" =>
               stage[t] = "sleeping" /\ until'[t] = until[t]
    PROVE  PacerInv'
<1>1. lock' = lock /\ grants' = grants /\ first' = first /\ key' = key
      /\ now \in Nat /\ now' \in Nat
  BY DEF pacer, TypeOK
<1>2. ASSUME NEW k \in Keys, NEW i \in DOMAIN grants[k]
      PROVE  grants[k][i].at <= now' 
  <2>1. grants[k] \in Seq(Grant)
    BY DEF TypeOK
  <2>2. grants[k][i].at \in Nat
    BY <2>1, GrantTypes
  <2>3. grants[k][i].at <= now
    BY DEF PacerInv, InOrder
  <2> QED BY <1>1, <2>2, <2>3
<1>3. InOrder'
  BY <1>1, <1>2 DEF PacerInv, InOrder
<1>4. ASSUME NEW k \in Keys, NEW l \in Limits[k], NEW i \in 1..(first[k][l] - 1)
      PROVE  grants[k][i].at + Window(l) <= now'
  <2>1. /\ grants[k] \in Seq(Grant) /\ Len(grants[k]) \in Nat
        /\ first[k][l] \in 1..(Len(grants[k]) + 1)
    BY DequeTypes
  <2>2. i \in 1..Len(grants[k])
    BY <2>1
  <2>3. grants[k][i].at \in Nat /\ Window(l) \in Nat
    BY <2>1, <2>2, GrantTypes, LimitTypes
  <2>4. grants[k][i].at + Window(l) <= now
    BY DEF PacerInv, Expired
  <2> QED BY <1>1, <2>3, <2>4
<1>5. Expired'
  BY <1>1, <1>4 DEF Expired
<1>6. NotOverfull' /\ LimitsKept'
  BY <1>1 DEF PacerInv, NotOverfull, LimitsKept, Keeps, Length
<1>7. LockHeld' /\ Waited'
  BY <1>1 DEF PacerInv, LockHeld, Waited, Length
<1> QED BY <1>3, <1>5, <1>6, <1>7 DEF PacerInv

LEMMA AcquireKeeps ==
    ASSUME TypeOK, PacerInv, TypeOK', NEW t \in Threads, Acquire(t)
    PROVE  PacerInv'
<1> DEFINE k == key[t]
<1>1. k \in Keys /\ now \in Nat /\ key' = key /\ now' = now
  BY DEF Acquire, TypeOK
<1>2. PICK heads \in Heads(k) :
        /\ \A l \in Limits[k] : Expire(k, l, heads[l])
        /\ first' = [first EXCEPT ![k] = heads]
        /\ \E wait \in {0} \cup {Needed(k, l, heads[l]) : l \in Limits[k]} :
             /\ RequiredWait(k, heads, wait)
             /\ \/ wait \in 1..MaxWait
                   /\ stage' = [stage EXCEPT ![t] = "sleeping"]
                   /\ until' = [until EXCEPT ![t] = now + wait]
                   /\ lock' = t
                   /\ UNCHANGED grants
                \/ wait \notin 1..MaxWait
                   /\ Record(t, wait > MaxWait)
  BY DEF Acquire
<1>3. PICK wait \in {0} \cup {Needed(k, l, heads[l]) : l \in Limits[k]} :
             /\ RequiredWait(k, heads, wait)
             /\ \/ wait \in 1..MaxWait
                   /\ stage' = [stage EXCEPT ![t] = "sleeping"]
                   /\ until' = [until EXCEPT ![t] = now + wait]
                   /\ lock' = t
                   /\ UNCHANGED grants
                \/ wait \notin 1..MaxWait
                   /\ Record(t, wait > MaxWait)
  BY <1>2
<1>4. \A l \in Limits[k] : heads[l] \in 1..(Len(grants[k]) + 1)
  BY DEF Heads
<1>5. \A u \in Threads : stage[u] # "sleeping"
  BY PacerConstants DEF Acquire, PacerInv, LockHeld
<1>6. CASE /\ wait \in 1..MaxWait
           /\ stage' = [stage EXCEPT ![t] = "sleeping"]
           /\ until' = [until EXCEPT ![t] = now + wait]
           /\ lock' = t
           /\ UNCHANGED grants
  <2>1. Expired' /\ NotOverfull'
    BY <1>1, <1>2, <1>6, HeadsExpired DEF PacerInv
  <2>2. InOrder' /\ LimitsKept'
    BY <1>1, <1>6 DEF PacerInv, InOrder, LimitsKept, Keeps
  <2>3. \A u \in Threads : stage'[u] = "sleeping" => u = t
    BY <1>5, <1>6 DEF TypeOK
  <2>4. LockHeld'
    BY <1>6, <2>3 DEF LockHeld
  <2>5. ASSUME NEW l \in Limits[k], Len(grants[k]) + 1 - heads[l] >= Requests(l)
        PROVE  grants[k][heads[l]].at + Window(l) <= now + wait
    <3>1. /\ Len(grants[k]) \in Nat /\ heads[l] \in 1..(Len(grants[k]) + 1)
          /\ Requests(l) \in Nat \ {0} /\ Window(l) \in Nat /\ grants[k] \in Seq(Grant)
      BY <1>1, <1>4, LimitTypes, DequeTypes
    <3>2. heads[l] \in 1..Len(grants[k])
      BY <2>5, <3>1
    <3>3. grants[k][heads[l]].at \in Nat
      BY <3>1, <3>2, GrantTypes
    <3>4. Needed(k, l, heads[l]) = grants[k][heads[l]].at + Window(l) - now
      BY <2>5 DEF Needed, Length
    <3>5. Needed(k, l, heads[l]) <= wait
      BY <1>3 DEF RequiredWait
    <3>6. wait \in Int
      BY <1>6
    <3>7. grants[k][heads[l]].at + Window(l) - now <= wait
      BY <3>4, <3>5
    <3>8. grants[k][heads[l]].at \in Int /\ Window(l) \in Int /\ now \in Int
      BY <1>1, <3>1, <3>3
    <3> QED BY <3>6, <3>7, <3>8, DueAfterWait
  <2>6. first'[k] = heads /\ until'[t] = now + wait
    BY <1>1, <1>2, <1>6 DEF TypeOK, Suffixes
  <2>7. Waited'
    BY <1>1, <1>6, <2>3, <2>5, <2>6 DEF Waited, Length
  <2> QED BY <2>1, <2>2, <2>4, <2>7 DEF PacerInv
<1>7. CASE wait \notin 1..MaxWait /\ Record(t, wait > MaxWait)
  <2>1. wait \in Int
    BY <1>1, <1>4, NeededType
  <2>2. (wait > MaxWait) \in BOOLEAN
    BY <2>1, PacerConstants
  <2>3. Paceable(k) => \A l \in Limits[k] : Length(k, heads[l]) < Requests(l)
    BY <1>1, <1>2, <1>3, <1>7, WaitImposed DEF PacerInv
  <2>4. InOrder' /\ Expired' /\ NotOverfull' /\ LimitsKept'
    BY <1>1, <1>2, <1>7, <2>2, <2>3, OneMore DEF PacerInv
  <2>5. \A u \in Threads : stage'[u] # "sleeping"
    BY <1>5, <1>7 DEF Record, TypeOK
  <2> QED BY <2>4, <2>5 DEF PacerInv, LockHeld, Waited
<1> QED BY <1>3, <1>6, <1>7

LEMMA WakeKeeps ==
    ASSUME TypeOK, PacerInv, TypeOK', NEW t \in Threads, Wake(t)
    PROVE  PacerInv'
<1> DEFINE k == key[t]
<1>1. k \in Keys /\ now \in Nat /\ key' = key /\ now' = now /\ until[t] \in Nat
  BY DEF Wake, TypeOK
<1>2. PICK heads \in Heads(k) :
        /\ \A l \in Limits[k] : Expire(k, l, heads[l])
        /\ first' = [first EXCEPT ![k] = heads]
  BY DEF Wake
<1>3. stage[t] = "sleeping" /\ now >= until[t] /\ Record(t, FALSE)
  BY DEF Wake
<1>4. ASSUME Paceable(k), NEW l \in Limits[k]
      PROVE  Length(k, heads[l]) < Requests(l)
  <2>1. /\ grants[k] \in Seq(Grant) /\ Len(grants[k]) \in Nat
        /\ first[k][l] \in 1..(Len(grants[k]) + 1)
        /\ heads[l] \in 1..(Len(grants[k]) + 1)
        /\ Requests(l) \in Nat \ {0} /\ Window(l) \in Nat
    BY <1>1, DequeTypes, LimitTypes DEF Heads
  <2>ints. /\ Len(grants[k]) \in Int /\ first[k][l] \in Int /\ heads[l] \in Int
        /\ Requests(l) \in Int /\ Window(l) \in Int
    BY <2>1
  <2>2. Length(k, first[k][l]) <= Requests(l)
    BY <1>1, <1>4 DEF PacerInv, NotOverfull
  <2>3. heads[l] >= first[k][l]
    BY <1>2 DEF Expire
  <2>4. CASE Length(k, first[k][l]) < Requests(l)
    <3>1. Len(grants[k]) + 1 - first[k][l] < Requests(l)
      BY <2>4 DEF Length
    <3>2. Len(grants[k]) + 1 - heads[l] < Requests(l)
      BY <2>3, <2>ints, <3>1, ShorterSuffix
    <3> QED BY <3>2 DEF Length
  <2>5. CASE Length(k, first[k][l]) >= Requests(l)
    <3>1. first[k][l] \in 1..Len(grants[k])
      <4>1. Len(grants[k]) + 1 - first[k][l] >= Requests(l)
        BY <2>5 DEF Length
      <4> QED BY <2>1, <4>1, NonemptySuffix
    <3>2. grants[k][first[k][l]].at \in Nat
      BY <2>1, <3>1, GrantTypes
    <3>3. grants[k][first[k][l]].at + Window(l) <= until[t]
      BY <1>3, <2>5 DEF PacerInv, Waited
    <3>4. heads[l] # first[k][l]
      <4>1. SUFFICES ASSUME heads[l] = first[k][l] PROVE FALSE
        OBVIOUS
      <4>2. heads[l] <= Len(grants[k])
        BY <2>1, <3>1, <4>1
      <4>3. grants[k][first[k][l]].at > now - Window(l)
        BY <1>2, <4>1, <4>2 DEF Expire
      <4>4. grants[k][first[k][l]].at \in Int /\ now \in Int /\ until[t] \in Int
        BY <1>1, <3>2
      <4> QED BY <1>3, <2>ints, <3>3, <4>3, <4>4, NotBothInAndOut
    <3>5. Len(grants[k]) + 1 - first[k][l] <= Requests(l)
      BY <2>2 DEF Length
    <3>6. Len(grants[k]) + 1 - heads[l] < Requests(l)
      BY <2>3, <2>ints, <3>4, <3>5, ShorterSuffix
    <3> QED BY <3>6 DEF Length
  <2>6. Length(k, first[k][l]) \in Int
    <3>1. Len(grants[k]) + 1 - first[k][l] \in Int
      BY <2>ints, SuffixLength
    <3> QED BY <3>1 DEF Length
  <2>7. Length(k, first[k][l]) < Requests(l) \/ Length(k, first[k][l]) >= Requests(l)
    BY <2>ints, <2>6, LessOrNot
  <2> QED BY <2>4, <2>5, <2>7
<1>5. InOrder' /\ Expired' /\ NotOverfull' /\ LimitsKept'
  BY <1>1, <1>2, <1>3, <1>4, OneMore DEF PacerInv
<1>6. \A u \in Threads : stage'[u] # "sleeping"
  <2>1. \A u \in Threads : stage[u] = "sleeping" => u = t
    BY <1>3 DEF PacerInv, LockHeld
  <2> QED BY <1>3, <2>1 DEF Record, TypeOK
<1> QED BY <1>5, <1>6 DEF PacerInv, LockHeld, Waited

LEMMA PacerStep == TypeOK /\ PacerInv /\ TypeOK' /\ [Next]_vars => PacerInv'
<1> SUFFICES ASSUME TypeOK, PacerInv, TypeOK', [Next]_vars PROVE PacerInv'
  OBVIOUS
<1>1. now \in Nat
  BY DEF TypeOK
<1>2. ASSUME NEW t \in Threads, Call(t) PROVE PacerInv'
  <2>1. \A u \in Threads : stage'[u] = "sleeping" =>
            stage[u] = "sleeping" /\ until'[u] = until[u]
    BY <1>2 DEF Call, TypeOK
  <2>2. UNCHANGED <<pacer, key>> /\ now' >= now
    BY <1>1, <1>2 DEF Call
  <2> QED BY <2>1, <2>2, PacerUntouched
<1>3. ASSUME NEW t \in Threads, Acquire(t) PROVE PacerInv'
  BY <1>3, AcquireKeeps
<1>4. ASSUME NEW t \in Threads, Wake(t) PROVE PacerInv'
  BY <1>4, WakeKeeps
<1>5. ASSUME NEW t \in Threads, Respond(t) PROVE PacerInv'
  <2>1. \A u \in Threads : stage'[u] = "sleeping" =>
            stage[u] = "sleeping" /\ until'[u] = until[u]
    BY <1>5 DEF Respond, Finish, TypeOK
  <2> QED BY <1>1, <1>5, <2>1, PacerUntouched DEF Respond
<1>6. ASSUME NEW t \in Threads, Resume(t) PROVE PacerInv'
  <2>1. \A u \in Threads : stage'[u] = "sleeping" =>
            stage[u] = "sleeping" /\ until'[u] = until[u]
    BY <1>6 DEF Resume, AfterBackoff, TypeOK
  <2>2. UNCHANGED <<pacer, key>> /\ now' >= now
    BY <1>1, <1>6 DEF Resume
  <2> QED BY <2>1, <2>2, PacerUntouched
<1>7. CASE Tick
  BY <1>1, <1>7, PacerUntouched DEF Tick, thread
<1>8. CASE UNCHANGED vars
  BY <1>1, <1>8, PacerUntouched DEF vars, thread
<1> QED BY <1>2, <1>3, <1>4, <1>5, <1>6, <1>7, <1>8 DEF Next, Step, Quiet

\* The acquisitions are in order, the deques hold what is left of the windows, and
\* the sleeping thread holds the lock and sleeps long enough.
THEOREM PacerInvariant == Spec => []PacerInv
<1>1. Init => PacerInv
  BY TypeInit, PacerInit
<1>2. TypeOK /\ TypeOK' /\ PacerInv /\ [Next]_vars => PacerInv'
  BY PacerStep
<1> QED BY <1>1, <1>2, PacerTypes, PTL DEF Spec

\* EndpointPacer: no window of a paceable endpoint ever has more acquisitions than
\* IBKR's limit allows, whatever the threads do.
THEOREM LimitsAreKept == Spec => []LimitsKept
<1>1. PacerInv => LimitsKept
  BY DEF PacerInv
<1> QED BY <1>1, PacerInvariant, PTL
-----------------------------------------------------------------------------
(* The attempts. *)

\* The threads that have acquired the pacer for k and not yet sent their request.
Sending(k) == {t \in Threads : stage[t] = "sending" /\ key[t] = k}

\* Every acquisition is a request that was sent or is going to be.
Counted(k) ==
    /\ IsFiniteSet(Sending(k))
    /\ Len(grants[k]) = sent[k] + Cardinality(Sending(k))

PacedInv == NoNeedlessWait /\ \A k \in Keys : Counted(k)

LEMMA CountedStays ==
    ASSUME NEW k \in Keys, Counted(k), Sending(k)' = Sending(k),
           grants'[k] = grants[k], sent'[k] = sent[k]
    PROVE  Counted(k)'
  BY DEF Counted

\* A thread that neither starts nor stops sending leaves the senders as they are.
LEMMA SameSenders ==
    ASSUME TypeOK, NEW t \in Threads, NEW s, NEW k \in Keys,
           stage' = [stage EXCEPT ![t] = s], key' = key,
           (stage[t] = "sending" /\ s = "sending") \/ (stage[t] # "sending" /\ s # "sending")
               \/ key[t] # k
    PROVE  Sending(k)' = Sending(k)
<1>1. /\ stage'[t] = s /\ key'[t] = key[t]
      /\ \A u \in Threads \ {t} : stage'[u] = stage[u] /\ key'[u] = key[u]
  BY DEF TypeOK
<1> QED BY <1>1 DEF Sending

\* A recorded acquisition is one more thread that sends.
LEMMA RecordCounts ==
    ASSUME TypeOK, PacedInv, NEW t \in Threads, NEW w \in BOOLEAN, Record(t, w),
           stage[t] # "sending", key' = key, sent' = sent
    PROVE  \A k \in Keys : Counted(k)'
<1> DEFINE g == [at |-> now, warned |-> w]
<1>1. key[t] \in Keys /\ g \in Grant /\ grants \in [Keys -> Seq(Grant)]
  BY DEF TypeOK, Grant
<1>2. /\ stage' = [stage EXCEPT ![t] = "sending"]
      /\ grants' = [grants EXCEPT ![key[t]] = Append(grants[key[t]], g)]
  BY DEF Record
<1>3. ASSUME NEW k \in Keys, k # key[t] PROVE Counted(k)'
  <2>1. grants'[k] = grants[k] /\ Counted(k)
    BY <1>1, <1>2, <1>3 DEF PacedInv
  <2>2. Sending(k)' = Sending(k)
    BY <1>2, <1>3, SameSenders
  <2> QED BY <2>1, <2>2, CountedStays
<1>4. Counted(key[t])'
  <2> DEFINE k == key[t]
             S == Sending(k)
  <2>1. /\ IsFiniteSet(S) /\ t \notin S
        /\ Len(grants[k]) = sent[k] + Cardinality(S)
    BY <1>1 DEF PacedInv, Counted, Sending
  <2>2. Sending(k)' = S \cup {t}
    <3>1. /\ stage'[t] = "sending" /\ key'[t] = key[t]
          /\ \A u \in Threads \ {t} : stage'[u] = stage[u] /\ key'[u] = key[u]
      BY <1>2 DEF TypeOK
    <3> QED BY <3>1 DEF Sending
  <2>3. Len(grants'[k]) = Len(grants[k]) + 1
    <3>1. grants'[k] = Append(grants[k], g)
      BY <1>1, <1>2
    <3> QED BY <1>1, <3>1, Appended
  <2>4. /\ IsFiniteSet(S \cup {t}) /\ Cardinality(S \cup {t}) = Cardinality(S) + 1
        /\ Cardinality(S) \in Nat
    BY <2>1, FS_AddElement, FS_CardinalityType
  <2>5. sent[k] \in Nat /\ sent'[k] = sent[k] /\ Len(grants[k]) \in Nat
    BY <1>1 DEF TypeOK
  <2> HIDE DEF S
  <2>6. Len(grants'[k]) = sent'[k] + Cardinality(S \cup {t})
    BY <2>1, <2>3, <2>4, <2>5
  <2>7. key'[t] = key[t]
    OBVIOUS
  <2>8. IsFiniteSet(Sending(k)') /\ Len(grants'[k]) = sent'[k] + Cardinality(Sending(k)')
    BY <2>2, <2>4, <2>6
  <2> QED BY <2>7, <2>8 DEF Counted, Sending
<1> QED BY <1>3, <1>4

\* A thread that sleeps waits for the newest entries of one deque to leave their window.
LEMMA SleepsForALimit ==
    ASSUME TypeOK, PacerInv, NEW k \in Keys, NEW heads \in Heads(k),
           NEW wait \in {0} \cup {Needed(k, l, heads[l]) : l \in Limits[k]}, wait \in 1..MaxWait
    PROVE  \E l \in Limits[k] :
              /\ Len(grants[k]) >= Requests(l)
              /\ grants[k][Length(k, Requests(l))].at + Window(l) > (now + wait) - 1
<1>1. wait \in Int /\ wait > 0
  BY PacerConstants
<1>2. PICK l \in Limits[k] : wait = Needed(k, l, heads[l])
  BY <1>1
<1>3. /\ grants[k] \in Seq(Grant) /\ Len(grants[k]) \in Nat /\ now \in Nat
      /\ heads[l] \in 1..(Len(grants[k]) + 1)
      /\ Requests(l) \in Nat \ {0} /\ Window(l) \in Nat \ {0}
  BY DequeTypes, LimitTypes DEF Heads
<1>4. /\ Length(k, heads[l]) >= Requests(l)
      /\ wait = grants[k][heads[l]].at + Window(l) - now
  BY <1>1, <1>2 DEF Needed
<1> DEFINE n == Len(grants[k])
           i == heads[l]
           r == Requests(l)
           j == n + 1 - r
<1>5. /\ n \in Nat /\ i \in 1..(n + 1) /\ r \in Nat \ {0} /\ n + 1 - i >= r
      /\ DOMAIN grants[k] = 1..n
  BY <1>3, <1>4 DEF Length
<1> HIDE DEF n, i, r
<1>6. i \in 1..n /\ j \in 1..n /\ i <= j /\ n >= r
  BY <1>5
<1>7. grants[k][i].at <= grants[k][j].at
  BY <1>5, <1>6 DEF PacerInv, InOrder
<1>8. grants[k][i].at \in Nat /\ grants[k][j].at \in Nat
  <2>1. 1..n = 1..Len(grants[k])
    BY DEF n
  <2> HIDE DEF j
  <2> QED BY <1>3, <1>6, <2>1, GrantTypes
<1>9. wait = grants[k][i].at + Window(l) - now
  BY <1>4 DEF i
<1>10. grants[k][j].at + Window(l) > (now + wait) - 1
  <2>1. /\ grants[k][i].at \in Int /\ grants[k][j].at \in Int
        /\ Window(l) \in Int /\ now \in Int /\ wait \in Int
    BY <1>1, <1>3, <1>8
  <2> HIDE DEF j
  <2> QED BY <1>7, <1>9, <2>1, LaterIsEnough
<1>11. Length(k, Requests(l)) = j /\ Len(grants[k]) >= Requests(l)
  BY <1>6 DEF Length, n, r
<1> QED BY <1>10, <1>11

\* Nobody starts to sleep, and no acquisition is recorded.
LEMMA SleepersStay ==
    ASSUME NoNeedlessWait, UNCHANGED <<grants, key>>,
           \A t \in Threads : stage'[t] = "sleeping" =>
               stage[t] = "sleeping" /\ until'[t] = until[t]
    PROVE  NoNeedlessWait'
  BY DEF NoNeedlessWait, Length

LEMMA PacedAcquire ==
    ASSUME TypeOK, PacerInv, PacedInv, NEW t \in Threads, Acquire(t) PROVE PacedInv'
<1> DEFINE k == key[t]
<1>1. k \in Keys /\ key' = key /\ sent' = sent /\ stage[t] = "pacing"
  BY DEF Acquire, TypeOK
<1>2. PICK heads \in Heads(k) :
        \E wait \in {0} \cup {Needed(k, l, heads[l]) : l \in Limits[k]} :
           \/ wait \in 1..MaxWait
              /\ stage' = [stage EXCEPT ![t] = "sleeping"]
              /\ until' = [until EXCEPT ![t] = now + wait]
              /\ UNCHANGED grants
           \/ wait \notin 1..MaxWait
              /\ Record(t, wait > MaxWait)
  BY DEF Acquire
<1>3. PICK wait \in {0} \cup {Needed(k, l, heads[l]) : l \in Limits[k]} :
           \/ wait \in 1..MaxWait
              /\ stage' = [stage EXCEPT ![t] = "sleeping"]
              /\ until' = [until EXCEPT ![t] = now + wait]
              /\ UNCHANGED grants
           \/ wait \notin 1..MaxWait
              /\ Record(t, wait > MaxWait)
  BY <1>2
<1>4. \A u \in Threads : stage[u] # "sleeping"
  BY PacerConstants DEF Acquire, PacerInv, LockHeld
<1>5. CASE /\ wait \in 1..MaxWait
           /\ stage' = [stage EXCEPT ![t] = "sleeping"]
           /\ until' = [until EXCEPT ![t] = now + wait]
           /\ UNCHANGED grants
  <2>1. \A q \in Keys : Counted(q)'
    BY <1>1, <1>5, SameSenders, CountedStays DEF PacedInv
  <2>2. \A u \in Threads : stage'[u] = "sleeping" => u = t
    BY <1>4, <1>5 DEF TypeOK
  <2>3. until'[t] = now + wait
    BY <1>5 DEF TypeOK
  <2>4. \E l \in Limits[k] :
              /\ Len(grants[k]) >= Requests(l)
              /\ grants[k][Length(k, Requests(l))].at + Window(l) > (now + wait) - 1
    BY <1>1, <1>5, SleepsForALimit
  <2>5. NoNeedlessWait'
    BY <1>1, <1>5, <2>2, <2>3, <2>4 DEF NoNeedlessWait, Length
  <2> QED BY <2>1, <2>5 DEF PacedInv
<1>6. CASE wait \notin 1..MaxWait /\ Record(t, wait > MaxWait)
  <2>1. wait \in Int
    <3>1. \A l \in Limits[k] : heads[l] \in 1..(Len(grants[k]) + 1)
      BY DEF Heads
    <3> QED BY <1>1, <3>1, NeededType
  <2>2. (wait > MaxWait) \in BOOLEAN
    BY <2>1, PacerConstants
  <2>3. \A q \in Keys : Counted(q)'
    BY <1>1, <1>6, <2>2, RecordCounts
  <2>4. \A u \in Threads : stage'[u] # "sleeping"
    BY <1>4, <1>6 DEF Record, TypeOK
  <2> QED BY <2>3, <2>4 DEF PacedInv, NoNeedlessWait
<1> QED BY <1>3, <1>5, <1>6

LEMMA PacedWake ==
    ASSUME TypeOK, PacerInv, PacedInv, NEW t \in Threads, Wake(t) PROVE PacedInv'
<1>1. stage[t] = "sleeping" /\ Record(t, FALSE) /\ key' = key /\ sent' = sent
  BY DEF Wake
<1>2. \A q \in Keys : Counted(q)'
  BY <1>1, RecordCounts
<1>3. \A u \in Threads : stage'[u] # "sleeping"
  <2>1. \A u \in Threads : stage[u] = "sleeping" => u = t
    BY <1>1 DEF PacerInv, LockHeld
  <2> QED BY <1>1, <2>1 DEF Record, TypeOK
<1> QED BY <1>2, <1>3 DEF PacedInv, NoNeedlessWait

\* A response is one request more that was sent, and one thread less that sends.
LEMMA PacedRespond ==
    ASSUME TypeOK, PacedInv, NEW t \in Threads, Respond(t) PROVE PacedInv'
<1>1. /\ key' = key /\ grants' = grants /\ key[t] \in Keys /\ stage[t] = "sending"
      /\ sent' = [sent EXCEPT ![key[t]] = sent[key[t]] + 1]
  BY DEF Respond, pacer, TypeOK
<1>2. PICK s \in {"returned", "raised", "backoff"} : stage' = [stage EXCEPT ![t] = s]
  BY DEF Respond, Finish
<1>3. \A u \in Threads : stage'[u] = "sleeping" =>
          stage[u] = "sleeping" /\ until'[u] = until[u]
  BY DEF Respond, Finish, TypeOK
<1>4. NoNeedlessWait'
  BY <1>1, <1>3, SleepersStay DEF PacedInv
<1>5. ASSUME NEW k \in Keys, k # key[t] PROVE Counted(k)'
  <2>1. sent'[k] = sent[k] /\ Counted(k)
    BY <1>1, <1>5 DEF TypeOK, PacedInv
  <2>2. Sending(k)' = Sending(k)
    BY <1>1, <1>2, <1>5, SameSenders
  <2> QED BY <1>1, <2>1, <2>2, CountedStays
<1>6. Counted(key[t])'
  <2> DEFINE k == key[t]
             S == Sending(k)
  <2>1. /\ IsFiniteSet(S) /\ t \in S
        /\ Len(grants[k]) = sent[k] + Cardinality(S)
    BY <1>1 DEF PacedInv, Counted, Sending
  <2>2. Sending(k)' = S \ {t}
    <3>1. /\ stage'[t] # "sending" /\ key'[t] = key[t]
          /\ \A u \in Threads \ {t} : stage'[u] = stage[u] /\ key'[u] = key[u]
      BY <1>1, <1>2 DEF TypeOK
    <3> QED BY <3>1 DEF Sending
  <2>3. /\ IsFiniteSet(S \ {t}) /\ Cardinality(S \ {t}) = Cardinality(S) - 1
        /\ Cardinality(S) \in Nat
    BY <2>1, FS_RemoveElement, FS_CardinalityType
  <2>4. sent[k] \in Nat /\ sent'[k] = sent[k] + 1 /\ grants'[k] = grants[k]
    BY <1>1 DEF TypeOK
  <2> HIDE DEF S
  <2>5. Len(grants'[k]) = sent'[k] + Cardinality(S \ {t})
    BY <2>1, <2>3, <2>4
  <2>6. IsFiniteSet(Sending(k)') /\ Len(grants'[k]) = sent'[k] + Cardinality(Sending(k)')
    BY <2>2, <2>3, <2>5
  <2> QED BY <1>1, <2>6 DEF Counted, Sending
<1>7. ASSUME NEW k \in Keys, k = key[t] PROVE Counted(k)'
  <2>1. key'[t] = k
    BY <1>1, <1>7
  <2>2. Counted(key[t])'
    BY <1>6
  <2> QED BY <2>1, <2>2 DEF Counted, Sending
<1> QED BY <1>4, <1>5, <1>7 DEF PacedInv

\* A step that neither acquires nor sends.
LEMMA PacedElsewhere ==
    ASSUME TypeOK, PacedInv, UNCHANGED <<grants, key, sent>>,
           \A k \in Keys : Sending(k)' = Sending(k),
           \A t \in Threads : stage'[t] = "sleeping" =>
               stage[t] = "sleeping" /\ until'[t] = until[t]
    PROVE  PacedInv'
<1>1. NoNeedlessWait'
  BY SleepersStay DEF PacedInv
<1>2. \A k \in Keys : Counted(k)'
  BY CountedStays DEF PacedInv
<1> QED BY <1>1, <1>2 DEF PacedInv

LEMMA PacedStep == TypeOK /\ PacerInv /\ PacedInv /\ [Next]_vars => PacedInv'
<1> SUFFICES ASSUME TypeOK, PacerInv, PacedInv, [Next]_vars PROVE PacedInv'
  OBVIOUS
<1>1. ASSUME NEW t \in Threads, Call(t) \/ Resume(t) PROVE PacedInv'
  <2>1. /\ stage' = [stage EXCEPT ![t] = "pacing"] /\ stage[t] # "sending"
        /\ until' = until /\ UNCHANGED <<grants, key, sent>>
    BY <1>1 DEF Call, Resume, AfterBackoff, pacer
  <2>2. \A k \in Keys : Sending(k)' = Sending(k)
    BY <2>1, SameSenders
  <2>3. \A u \in Threads : stage'[u] = "sleeping" => stage[u] = "sleeping"
    BY <2>1 DEF TypeOK
  <2> QED BY <2>1, <2>2, <2>3, PacedElsewhere
<1>2. CASE Tick \/ UNCHANGED vars
  <2>1. UNCHANGED <<stage, key, until, grants, sent>>
    BY <1>2 DEF Tick, vars, thread, pacer
  <2>2. \A k \in Keys : Sending(k)' = Sending(k)
    BY <2>1 DEF Sending
  <2> QED BY <2>1, <2>2, PacedElsewhere
<1> QED BY <1>1, <1>2, PacedAcquire, PacedWake, PacedRespond DEF Next, Step, Quiet

LEMMA PacedInit == TypeOK /\ Init => PacedInv
<1> SUFFICES ASSUME TypeOK, Init PROVE PacedInv
  OBVIOUS
<1>1. ASSUME NEW k \in Keys PROVE Counted(k)
  <2>1. Sending(k) = {} /\ Len(grants[k]) = 0 /\ sent[k] = 0
    BY DEF Init, Sending
  <2> QED BY <2>1, FS_EmptySet DEF Counted
<1> QED BY <1>1 DEF PacedInv, Init, NoNeedlessWait

\* with_retry and EndpointPacer: every attempt, the first and each retry, is
\* recorded in its endpoint's deques, and a thread that sleeps would break a limit
\* if it sent its request a moment earlier; for any number of threads.
THEOREM AttemptsArePaced == Spec => []AttemptsPaced
<1>1. Init => TypeOK /\ PacedInv
  BY TypeInit, PacedInit
<1>2. TypeOK /\ PacerInv /\ PacedInv /\ [Next]_vars => PacedInv'
  BY PacedStep
<1>3. PacedInv => AttemptsPaced
  BY DEF PacedInv, Counted, Sending, AttemptsPaced, EveryAttemptPaced
<1> QED BY <1>1, <1>2, <1>3, PacerTypes, PacerInvariant, PTL DEF Spec
==============================================================================
