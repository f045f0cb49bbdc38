----------------------------- MODULE OrderWrite -----------------------------
(***************************************************************************)
(* The order-write methods of IBKRClient (ibkr_core_mcp/client.py):        *)
(* place_order, modify_order, cancel_order, reply_order and the three      *)
(* *_and_confirm chains, with the two human gates in front of every write  *)
(* (Gate 1: Touch ID, Gate 2: a dialog), the authorization that lets one   *)
(* fingerprint cover a whole chain, the retries of with_retry, and the     *)
(* gateway that answers a write with questions ("replies").                *)
(*                                                                         *)
(* A call is one invocation of one method on a thread of its own.  All     *)
(* calls share one IBKRClient and one gateway session.  A body is an       *)
(* abstract order body; for a bracket it stands for the whole ticket       *)
(* array.  A reply id is <<call, leg, n>>: the n-th question IBKR asks     *)
(* about a leg of the order that the call placed.  <<call, leg, 0>> is the *)
(* terminal entry of that leg, and <<call, 0, 0>> names the write itself.  *)
(***************************************************************************)
EXTENDS Integers, Sequences, FiniteSets

CONSTANTS
    Calls,          \* invocations of order-write methods
    Accounts,       \* account ids
    Orders,         \* ids of live orders that may be modified or cancelled
    Bodies,         \* order bodies
    NoOrder,        \* the order id of a placement
    NoBody,         \* the body of a cancellation
    NoScope,        \* no scope computed yet
    NoAuth,         \* no authorization passed
    Ops,            \* the methods that are invoked
    TTL,            \* ORDER_WRITE_AUTHORIZATION_TTL_S
    DialogTime,     \* a prompt or a dialog gives up after this long
    RequestTime,    \* a request with all its retries takes at most this long
    MaxTime,        \* bound on the clock
    MaxRetries,     \* _DEFAULT_MAX_RETRIES
    MaxQuestions,   \* bound on the questions IBKR asks about one leg
    MaxDrops,       \* bound on the number of times the session is lost
    CallerMutates,  \* may the caller change its dict while the call runs?
    Restates,       \* does a reply's response repeat the whole ticket array?
    Resends         \* methods whose questions IBKR may ask again once answered

Methods == {"place", "modify", "cancel", "reply",
            "place_and_confirm", "modify_and_confirm", "place_bracket"}

ASSUME ConstantsOK ==
    /\ Ops \subseteq Methods
    /\ TTL \in Nat \ {0} /\ DialogTime \in Nat /\ RequestTime \in Nat
    /\ MaxTime \in Nat /\ MaxRetries \in Nat /\ MaxQuestions \in Nat
    /\ MaxDrops \in Nat
    /\ CallerMutates \in BOOLEAN /\ Restates \in BOOLEAN /\ Resends \subseteq Methods
    /\ NoOrder \notin Orders /\ NoBody \notin Bodies

VARIABLES
    call,       \* the frame of each call
    now,        \* time.monotonic()
    ready,      \* IBKRClient._accounts_initialized
    up,         \* is the gateway session authenticated?
    primed,     \* has this session seen GET /iserver/accounts?
    drops,      \* how often the session was lost
    asked,      \* gateway: reply ids waiting for an answer
    raised,     \* history: every reply id ever sent
    touches,    \* history: fingerprints given, with what they were given for
    confirms,   \* history: dialogs confirmed, with what they showed
    wire        \* history: order-write requests the gateway processed

session == <<ready, up, primed, drops>>
vars == <<call, now, session, asked, raised, touches, confirms, wire>>

-----------------------------------------------------------------------------
(* Data. *)

Chained == {"place_and_confirm", "modify_and_confirm", "place_bracket"}
Single  == {"place", "place_and_confirm", "modify", "modify_and_confirm"}

Kind(op) == CASE op \in {"place", "place_and_confirm"}   -> "place"
              [] op \in {"modify", "modify_and_confirm"} -> "modify"
              [] OTHER                                   -> op

NLegs(op) == IF op = "place_bracket" THEN 2 ELSE 1

Kinds == {"place", "modify", "cancel", "reply", "place_bracket"}
Scope == [kind : Kinds, account : Accounts,
          order : Orders \cup {NoOrder}, body : Bodies \cup {NoBody}]
ReplyId == Calls \X (0..2) \X Nat
Authorization == [scope : Scope, at : Nat]

\* "None", where the code has an Optional.
ASSUME NoneIsNoValue == NoScope \notin Scope /\ NoAuth \notin Authorization

\* What one Gate 1 is bound to: kind, account, order id and the body to be sent.
OrderWriteScope(kind, account, order, body) ==
    [kind |-> kind, account |-> account, order |-> order, body |-> body]

Itself(c) == <<c, 0, 0>>
IsQuestion(rid) == rid[3] > 0

\* Mutants of Covers: the window is not looked at; the account (or the body) is
\* not part of what is compared.
CoversForEver(auth, scope) == auth # NoAuth /\ auth.scope = scope
CoversAnyAccount(auth, scope) ==
    /\ auth # NoAuth
    /\ auth.scope = [scope EXCEPT !.account = auth.scope.account]
    /\ now - auth.at < TTL
CoversAnyBody(auth, scope) ==
    /\ auth # NoAuth
    /\ auth.scope = [scope EXCEPT !.body = auth.scope.body]
    /\ now - auth.at < TTL

\* OrderWriteAuthorization.covers: the same transaction, inside the window.
Covers(auth, scope) ==
    /\ auth # NoAuth
    /\ auth.scope = scope
    /\ now - auth.at < TTL

-----------------------------------------------------------------------------
(* The frame of a call. *)

Asking     == {"authorize", "gate1", "reply gate1"}     \* Touch ID prompt open
Showing    == {"dialog", "reply dialog"}                \* Gate 2 dialog open
Requesting == {"accounts", "send", "confirming", "declining"}
Internal   == {"reply"}
Ended      == {"returned", "raised"}
Stages     == {"idle", "read"} \cup Asking \cup Showing \cup Requesting
                 \cup Internal \cup Ended
Reasons    == {"", "denied", "declined", "refused", "failed", "lost", "resent"}

Frame == [op       : Methods,
          pc       : Stages,
          why      : Reasons,
          since    : Nat,
          tries    : Nat,
          dict     : Bodies \cup {NoBody},
          scope    : Scope \cup {NoScope},
          chain    : Scope \cup {NoScope},
          auth     : Authorization \cup {NoAuth},
          rid      : ReplyId,
          yes      : BOOLEAN,
          queue    : Seq(ReplyId),
          latest   : Seq(ReplyId),
          answered : SUBSET ReplyId,
          log      : SUBSET (ReplyId \X BOOLEAN),
          sent     : Nat,       \* processed, and not answered 503
          shed     : Nat]       \* processed, and answered 503 all the same

Idle(c) == [op |-> "place", pc |-> "idle", why |-> "", since |-> 0, tries |-> 0,
            dict |-> NoBody, scope |-> NoScope, chain |-> NoScope,
            auth |-> NoAuth, rid |-> Itself(c), yes |-> TRUE,
            queue |-> <<>>, latest |-> <<>>, answered |-> {}, log |-> {},
            sent |-> 0, shed |-> 0]

Goto(f, stage) == [f EXCEPT !.pc = stage, !.since = now, !.tries = 0]
Raise(f, reason) == [Goto(f, "raised") EXCEPT !.why = reason]

\* Where a call goes once Gate 1 is behind it: a modify reads the order it
\* changes (H1), a cancel reads the order it will show.
AfterGate1(f) == Goto(f, IF Kind(f.op) \in {"modify", "cancel"} THEN "read"
                                                               ELSE "dialog")

\* The time a stage may last: the prompts and dialogs time out, a request runs
\* out of retries, and the code between two of them takes no time.
Limit(stage) == CASE stage \in Asking \cup Showing          -> DialogTime
                  [] stage \in Requesting \cup {"read"}     -> RequestTime
                  [] OTHER                                  -> 0

\* An authorization a caller may pass: one that some chain earned.
Granted == {call[c].auth : c \in Calls} \ {NoAuth}

Init ==
    /\ call = [c \in Calls |-> Idle(c)]
    /\ now = 0
    /\ ready = FALSE /\ up = TRUE /\ primed = FALSE /\ drops = 0
    /\ asked = {} /\ raised = {}
    /\ touches = {} /\ confirms = {} /\ wire = {}

human == <<touches, confirms>>
gateway == <<asked, raised, wire>>

-----------------------------------------------------------------------------
(* Entering a method. *)

FirstStage(op) ==
    IF op \in Chained \ {"place_bracket"} THEN "authorize" ELSE "accounts"

\* place_order, modify_order and cancel_order, called on their own; the first two
\* may be handed an authorization.  The account query comes first.
BeginWrite(c) ==
    /\ call[c].pc = "idle"
    /\ \E op \in Ops \ (Chained \cup {"reply"}), a \in Accounts :
       \E o \in IF op = "place" THEN {NoOrder} ELSE Orders,
          b \in IF op = "cancel" THEN {NoBody} ELSE Bodies,
          auth \in IF op = "cancel" THEN {NoAuth} ELSE Granted \cup {NoAuth} :
         call' = [call EXCEPT ![c] =
                    [Goto(@, FirstStage(op)) EXCEPT
                       !.op = op, !.dict = b, !.auth = auth,
                       !.scope = OrderWriteScope(Kind(op), a, o, b)]]
    /\ UNCHANGED <<now, session, human, gateway>>

\* place_order_and_confirm and modify_order_and_confirm go to Gate 1 at once,
\* with the scope of the caller's own dict; place_bracket_and_confirm asks for
\* the accounts first.
BeginChain(c) ==
    /\ call[c].pc = "idle"
    /\ \E op \in Ops \cap Chained, a \in Accounts, b \in Bodies :
       \E o \in IF Kind(op) = "modify" THEN Orders ELSE {NoOrder} :
         LET s == OrderWriteScope(Kind(op), a, o, b)
         IN  call' = [call EXCEPT ![c] =
                 [Goto(@, FirstStage(op)) EXCEPT
                    !.op = op, !.dict = b, !.scope = s, !.chain = s]]
    /\ UNCHANGED <<now, session, human, gateway>>

\* reply_order: the caller answers a question that it holds the id of.
BeginReply(c) ==
    /\ call[c].pc = "idle"
    /\ "reply" \in Ops
    /\ \E r \in raised, yes \in BOOLEAN :
         call' = [call EXCEPT ![c] =
                    [Goto(@, FirstStage("reply")) EXCEPT
                       !.op = "reply", !.rid = r, !.yes = yes,
                       !.scope = call[r[1]].scope]]
    /\ UNCHANGED <<now, session, human, gateway>>

\* The code that holds the dict changes it: the dict is the caller's, the
\* methods only ever copy it.
CallerMutatesDict(c) ==
    /\ CallerMutates
    /\ call[c].pc \notin {"idle"} \cup Ended
    /\ call[c].op \notin {"cancel", "reply"}
    /\ \E b \in Bodies \ {call[c].dict} : call' = [call EXCEPT ![c].dict = b]
    /\ UNCHANGED <<now, session, human, gateway>>

-----------------------------------------------------------------------------
(* Gate 1, the reads and Gate 2. *)

\* _authorize_order_write: Touch ID, then the authorization it grants.
Authorize(c) ==
    LET f == call[c] IN
    /\ f.pc = "authorize"
    /\ touches' = touches \cup {[scope |-> f.chain, rid |-> Itself(c), at |-> now]}
    /\ call' = [call EXCEPT ![c] =
                  [Goto(f, IF f.op = "place_bracket" THEN "dialog" ELSE "accounts")
                     EXCEPT !.auth = [scope |-> f.chain, at |-> now]]]
    /\ UNCHANGED <<now, session, confirms, gateway>>

\* What a method does between the account query and its first gate: take the
\* private copy, compute its scope, look whether an authorization covers it.
AfterAccounts(f) ==
    LET scope == IF f.op \in {"cancel", "reply"}
                 THEN f.scope
                 ELSE [f.scope EXCEPT !.body = f.dict]
        g == [f EXCEPT !.scope = scope]
    IN  IF f.op = "place_bracket"
        THEN [Goto(g, "authorize") EXCEPT !.chain = scope]
        ELSE IF f.op \in Single /\ Covers(f.auth, scope)
             THEN AfterGate1(g)
             ELSE Goto(g, "gate1")

\* Mutant: the flag is set before the query has succeeded.
EnsureAccountsFlagFirst(c) ==
    /\ call[c].pc = "accounts"
    /\ ready' = TRUE
    /\ \/ /\ ready \/ up
          /\ primed' = (primed \/ ~ready)
          /\ call' = [call EXCEPT ![c] = AfterAccounts(@)]
       \/ /\ ~ready /\ UNCHANGED primed
          /\ call' = [call EXCEPT ![c] = Raise(@, "failed")]
    /\ UNCHANGED <<now, up, drops, human, gateway>>

\* _ensure_accounts_initialized, once per client, and the step after it.
EnsureAccounts(c) ==
    /\ call[c].pc = "accounts"
    /\ \/ ready /\ UNCHANGED session
       \/ ~ready /\ up /\ ready' = TRUE /\ primed' = TRUE /\ UNCHANGED <<up, drops>>
    /\ call' = [call EXCEPT ![c] = AfterAccounts(@)]
    /\ UNCHANGED <<now, human, gateway>>

\* require_touch_id of a method whose write no authorization covers.
TouchID(c) ==
    LET f == call[c] IN
    /\ f.pc = "gate1"
    /\ touches' = touches \cup {[scope |-> f.scope, rid |-> f.rid, at |-> now]}
    /\ call' = [call EXCEPT ![c] = AfterGate1(f)]
    /\ UNCHANGED <<now, session, confirms, gateway>>

\* Touch ID denied, or no finger within the timeout: nothing is sent.
TouchIDDenied(c) ==
    /\ call[c].pc \in Asking
    /\ call' = [call EXCEPT ![c] = Raise(@, "denied")]
    /\ UNCHANGED <<now, session, human, gateway>>

\* _cancel_dialog_details never raises; _refuse_child_larger_than_parent_fill
\* may refuse a modify.
ReadOrder(c) ==
    /\ call[c].pc = "read"
    /\ \/ call' = [call EXCEPT ![c] = Goto(@, "dialog")]
       \/ /\ Kind(call[c].op) = "modify" /\ up
          /\ call' = [call EXCEPT ![c] = Raise(@, "refused")]
    /\ UNCHANGED <<now, session, human, gateway>>

\* confirm_order_dialog, confirm_modify_dialog, confirm_cancel_dialog,
\* confirm_bracket_dialog or confirm_reply_dialog, confirmed.
Confirm(c) ==
    LET f == call[c] IN
    /\ f.pc = "dialog"
    /\ confirms' = confirms \cup
         {[by |-> c, scope |-> f.scope, rid |-> f.rid, label |-> f.scope]}
    /\ call' = [call EXCEPT ![c] = Goto(f, "send")]
    /\ UNCHANGED <<now, session, touches, gateway>>

\* Gate 2 cancelled or timed out: nothing is sent.
Decline(c) ==
    /\ call[c].pc = "dialog"
    /\ call' = [call EXCEPT ![c] = Raise(@, "declined")]
    /\ UNCHANGED <<now, session, human, gateway>>

-----------------------------------------------------------------------------
(* The write and the loop over the replies. *)

\* A single order has one entry to look at.
FirstEntry(response) == IF response = <<>> THEN <<>> ELSE <<Head(response)>>

\* The loop head of a chain.  A bracket resolves every question of a response;
\* the other two look at the first entry only.  No question: the call returns.
StartRound(f, response) ==
    LET queue == IF f.op = "place_bracket" THEN response
                                           ELSE FirstEntry(response)
    IN  IF \E i \in DOMAIN queue : IsQuestion(queue[i])
        THEN [Goto(f, "reply") EXCEPT !.queue = queue, !.latest = <<>>]
        ELSE Goto(f, "returned")

Receive(f, response) ==
    IF f.op \in Chained THEN StartRound(f, response) ELSE Goto(f, "returned")

\* with_retry on a 429 or a 503: the same request once more, or an exception.
Unavailable(f) ==
    IF f.tries < MaxRetries THEN [f EXCEPT !.tries = @ + 1] ELSE Raise(f, "failed")

\* Mutant: a lost answer is retried like a 503.
AnswerLostRetried(f) ==
    IF f.tries < MaxRetries THEN [f EXCEPT !.tries = @ + 1] ELSE Raise(f, "lost")

\* An answer that does not arrive is an exception of the HTTP library: with_retry
\* retries status codes only, so the call ends, not knowing what became of it.
AnswerLost(f) == Raise(f, "lost")

\* Mutant: what is sent is the caller's dict, not the copy the dialog showed.
TheDictNow(f) == [f.scope EXCEPT !.body = IF f.op = "cancel" THEN @ ELSE f.dict]

\* What a write sends: the private copy, without its display-only keys.
Sent(f) == f.scope

\* What the gateway processes of a write.
Write(c, f) ==
    [by |-> c, scope |-> Sent(f), rid |-> f.rid, yes |-> TRUE, at |-> now]

\* POST /iserver/account/{id}/orders, POST or DELETE .../order/{id}: the gateway
\* processes the write and answers per leg with a question or a terminal entry;
\* the answer arrives or is lost.
SendWrite(c) ==
    LET f == [call[c] EXCEPT !.sent = @ + 1] IN
    /\ f.pc = "send" /\ f.op # "reply" /\ up
    /\ \E q \in [1..NLegs(f.op) -> IF f.op = "cancel" \/ MaxQuestions = 0
                                   THEN {0} ELSE {0, 1}] :
         LET response == [i \in 1..NLegs(f.op) |-> <<c, i, q[i]>>]
             questions == {<<c, i, q[i]>> : i \in {j \in 1..NLegs(f.op) : q[j] > 0}}
         IN  /\ asked' = asked \cup questions
             /\ raised' = raised \cup questions
             /\ \/ call' = [call EXCEPT ![c] = Receive(f, response)]
                \/ call' = [call EXCEPT ![c] = AnswerLost(f)]
    /\ wire' = wire \cup {Write(c, f)}
    /\ UNCHANGED <<now, session, human>>

\* The gateway processes the write and answers 503 all the same: with_retry takes
\* it for one that had no effect and sends it again.  What IBKR asks about that
\* order is left out: nobody ever has the ids.
WriteShed(c) ==
    LET f == call[c] IN
    /\ f.pc = "send" /\ f.op # "reply" /\ up
    /\ call' = [call EXCEPT ![c] = Unavailable([f EXCEPT !.shed = @ + 1])]
    /\ wire' = wire \cup {Write(c, f)}
    /\ UNCHANGED <<now, session, human, asked, raised>>

\* What IBKR asks next on the leg of an answered question; 0 is "nothing".
NextQuestions(r, yes) ==
    {0} \cup IF yes THEN {n \in {r[3] + 1} : n <= MaxQuestions}
                            \cup {n \in {r[3]} : call[r[1]].op \in Resends}
                    ELSE {}

Follows(r, n) == {<<r[1], r[2], k>> : k \in {n} \ {0}}
Answer(c, r, yes) ==
    [by |-> c, scope |-> call[r[1]].scope, rid |-> r, yes |-> yes, at |-> now]

\* POST /iserver/reply/{replyId}, processed by the gateway while the question is
\* still open (afterwards it is a 503).
GatewayAnswers(c, r, yes, n) ==
    /\ up /\ r \in asked
    /\ asked' = (asked \ {r}) \cup Follows(r, n)
    /\ raised' = raised \cup Follows(r, n)
    /\ wire' = wire \cup {Answer(c, r, yes)}

\* The response to a reply: the entry of its own leg, or of every leg.
CurrentEntry(c, i) ==
    IF \E k \in 1..MaxQuestions : <<c, i, k>> \in asked
    THEN <<c, i, CHOOSE k \in 1..MaxQuestions : <<c, i, k>> \in asked>>
    ELSE <<c, i, 0>>

ReplyResponse(r, n) ==
    IF Restates
    THEN [i \in 1..NLegs(call[r[1]].op) |->
            IF i = r[2] THEN <<r[1], i, n>> ELSE CurrentEntry(r[1], i)]
    ELSE << <<r[1], r[2], n>> >>

\* The standalone reply_order sends the caller's own verdict and returns.
SendReply(c) ==
    LET f == call[c] IN
    /\ f.pc = "send" /\ f.op = "reply"
    /\ \E n \in NextQuestions(f.rid, f.yes) : GatewayAnswers(c, f.rid, f.yes, n)
    /\ \/ call' = [call EXCEPT ![c] = Goto(f, "returned")]
       \/ call' = [call EXCEPT ![c] = AnswerLost(f)]
    /\ UNCHANGED <<now, session, human>>

\* for entry in pending: entries that are not questions are passed over.
SkipTerminal(c) ==
    LET f == call[c] IN
    /\ f.pc = "reply" /\ f.queue # <<>> /\ ~IsQuestion(Head(f.queue))
    /\ call' = [call EXCEPT ![c].queue = Tail(f.queue)]
    /\ UNCHANGED <<now, session, human, gateway>>

\* response = latest, and round again.
NextRound(c) ==
    LET f == call[c] IN
    /\ f.pc = "reply" /\ f.queue = <<>>
    /\ call' = [call EXCEPT ![c] = StartRound(f, f.latest)]
    /\ UNCHANGED <<now, session, human, gateway>>

\* reply_log.append(record): not confirmed until the human has confirmed it.
NewRecord(log, r) == log \cup {<<r, FALSE>>}

\* Mutant: no set of answered reply ids.
RefusesResentNever(f, r) == FALSE

\* place_bracket_and_confirm: answering the same question twice is not a chain.
RefusesResent(f, r) == f.op = "place_bracket" /\ r \in f.answered

\* A bracket refuses a reply id it has answered; otherwise _resolve_one_reply
\* starts: the record is logged, and Gate 1 runs unless the chain's
\* authorization covers the chain's scope.
OpenReply(c) ==
    LET f == call[c]
        r == Head(f.queue)
    IN
    /\ f.pc = "reply" /\ f.queue # <<>> /\ IsQuestion(r)
    /\ call' = [call EXCEPT ![c] =
         IF RefusesResent(f, r)
         THEN Raise(f, "resent")
         ELSE [Goto(f, IF Covers(f.auth, f.chain) THEN "reply dialog"
                                                  ELSE "reply gate1")
                 EXCEPT !.log = NewRecord(@, r),
                        !.answered = IF f.op = "place_bracket" THEN @ \cup {r}
                                                               ELSE @]]
    /\ UNCHANGED <<now, session, human, gateway>>

ReplyTouchID(c) ==
    LET f == call[c] IN
    /\ f.pc = "reply gate1"
    /\ touches' = touches \cup
         {[scope |-> f.scope, rid |-> Head(f.queue), at |-> now]}
    /\ call' = [call EXCEPT ![c] = Goto(f, "reply dialog")]
    /\ UNCHANGED <<now, session, confirms, gateway>>

\* confirm_reply_dialog, titled with the authorization's label, confirmed: the
\* record is flipped, then the confirmation is sent.
ConfirmReply(c) ==
    LET f == call[c]
        r == Head(f.queue)
    IN
    /\ f.pc = "reply dialog"
    /\ confirms' = confirms \cup
         {[by |-> c, scope |-> f.scope, rid |-> r, label |-> f.auth.scope]}
    /\ call' = [call EXCEPT ![c] =
                  [Goto(f, "confirming") EXCEPT
                     !.log = (@ \ {<<r, FALSE>>}) \cup {<<r, TRUE>>}]]
    /\ UNCHANGED <<now, session, touches, gateway>>

\* Mutant: a declined dialog raises at once, as reply_order does.
DeclineReplyRaising(c) ==
    /\ call[c].pc = "reply dialog"
    /\ call' = [call EXCEPT ![c] = Raise(@, "declined")]
    /\ UNCHANGED <<now, session, human, gateway>>

\* The dialog is declined: IBKR is told so before the exception.
DeclineReply(c) ==
    /\ call[c].pc = "reply dialog"
    /\ call' = [call EXCEPT ![c] = Goto(@, "declining")]
    /\ UNCHANGED <<now, session, human, gateway>>

\* Mutant: after a no, the chain goes on with the next entry.
AfterNoNextEntry(f) == [Goto(f, "reply") EXCEPT !.queue = Tail(@)]

AfterNo(f) == Raise(f, "declined")

SendAnswer(c) ==
    LET f == call[c]
        r == Head(f.queue)
        yes == f.pc = "confirming"
    IN
    /\ f.pc \in {"confirming", "declining"}
    /\ \E n \in NextQuestions(r, yes) :
         /\ GatewayAnswers(c, r, yes, n)
         /\ \/ call' = [call EXCEPT ![c] =
                 IF yes THEN [Goto(f, "reply") EXCEPT
                                !.queue = Tail(@),
                                !.latest = @ \o ReplyResponse(r, n)]
                        ELSE AfterNo(f)]
            \/ call' = [call EXCEPT ![c] = AnswerLost(f)]
    /\ UNCHANGED <<now, session, human>>

\* A reply, too, may be processed and answered 503: it is then sent to an id that
\* is open no more, unless IBKR has asked the same question again.
ReplyShed(c) ==
    LET f == call[c]
        r == IF f.pc = "send" THEN f.rid ELSE Head(f.queue)
        yes == IF f.pc = "send" THEN f.yes ELSE f.pc = "confirming"
    IN
    /\ \/ f.pc = "send" /\ f.op = "reply"
       \/ f.pc \in {"confirming", "declining"}
    /\ \E n \in NextQuestions(r, yes) : GatewayAnswers(c, r, yes, n)
    /\ call' = [call EXCEPT ![c] = Unavailable(f)]
    /\ UNCHANGED <<now, session, human>>

-----------------------------------------------------------------------------
(* Requests that are not processed, and the environment. *)

AwaitsGateway(c) ==
    /\ call[c].pc \in Requesting
    /\ call[c].pc = "accounts" => ~ready

\* Mutant: the attempts left run down past 0.
RetryCountingDown(c) ==
    /\ AwaitsGateway(c)
    /\ call[c].tries < MaxRetries
    /\ call' = [call EXCEPT ![c].tries = @ - 1]
    /\ UNCHANGED <<now, session, human, gateway>>

\* with_retry: a 429 or a 503 to a request that had no effect is tried again ...
Retry(c) ==
    /\ AwaitsGateway(c)
    /\ call[c].tries < MaxRetries
    /\ call' = [call EXCEPT ![c].tries = @ + 1]
    /\ UNCHANGED <<now, session, human, gateway>>

\* ... and then raised, as is every other error status and a broken connection.
RequestFails(c) ==
    /\ AwaitsGateway(c)
    /\ call' = [call EXCEPT ![c] = Raise(@, "failed")]
    /\ UNCHANGED <<now, session, human, gateway>>

Tick ==
    /\ now < MaxTime
    /\ \A c \in Calls : call[c].pc \notin {"idle"} \cup Ended =>
                          now - call[c].since < Limit(call[c].pc)
    /\ now' = now + 1
    /\ UNCHANGED <<call, session, human, gateway>>

\* IBKR drops a question: other requests on the session, from this process or
\* another one, or its own timeout.
QuestionLapses ==
    /\ \E r \in asked : asked' = asked \ {r}
    /\ UNCHANGED <<call, now, session, human, raised, wire>>

SessionLost ==
    /\ up /\ drops < MaxDrops
    /\ up' = FALSE /\ primed' = FALSE /\ drops' = drops + 1
    /\ asked' = {}
    /\ UNCHANGED <<call, now, ready, human, raised, wire>>

LoggedInAgain ==
    /\ ~up
    /\ up' = TRUE
    /\ UNCHANGED <<call, now, ready, primed, drops, human, gateway>>

\* Every call has ended: the rest of the program is elsewhere.
AllEnded ==
    /\ \A c \in Calls : call[c].pc \in Ended
    /\ UNCHANGED vars

Begin(c) == BeginWrite(c) \/ BeginChain(c) \/ BeginReply(c)

Step(c) ==
    \/ Authorize(c) \/ EnsureAccounts(c) \/ TouchID(c) \/ TouchIDDenied(c)
    \/ ReadOrder(c) \/ Confirm(c) \/ Decline(c)
    \/ SendWrite(c) \/ SendReply(c)
    \/ SkipTerminal(c) \/ NextRound(c) \/ OpenReply(c) \/ ReplyTouchID(c)
    \/ ConfirmReply(c) \/ DeclineReply(c) \/ SendAnswer(c)
    \/ WriteShed(c) \/ ReplyShed(c) \/ Retry(c) \/ RequestFails(c)

Next ==
    \/ \E c \in Calls : Begin(c) \/ Step(c) \/ CallerMutatesDict(c)
    \/ Tick \/ QuestionLapses \/ SessionLost \/ LoggedInAgain
    \/ AllEnded

Spec == Init /\ [][Next]_vars

\* A call never waits for ever: prompts and dialogs time out, requests have a
\* timeout and a bounded number of retries, the rest is straight-line code.
FairSpec == Spec /\ \A c \in Calls : WF_vars(Step(c))

-----------------------------------------------------------------------------
(* Properties. *)

\* The records of the history: a fingerprint, a confirmed dialog, a request.
Touch   == [scope : Scope, rid : ReplyId, at : Nat]
Shown   == [by : Calls, scope : Scope, rid : ReplyId, label : Scope \cup {NoScope}]
Request == [by : Calls, scope : Scope, rid : ReplyId, yes : BOOLEAN, at : Nat]

\* Type correctness of the frames, the session, the gateway and the history.
TypeOK ==
    /\ call \in [Calls -> Frame]
    /\ now \in Nat /\ drops \in Nat
    /\ ready \in BOOLEAN /\ up \in BOOLEAN /\ primed \in BOOLEAN
    /\ asked \subseteq raised /\ raised \subseteq ReplyId
    /\ touches \subseteq Touch /\ confirms \subseteq Shown /\ wire \subseteq Request

\* A fingerprint stands behind a request: it was given for this very request, or
\* for the write (kind, account, order id and body) that the request belongs to.
StandsBehind(t, w) ==
    /\ t.scope = w.scope
    /\ t.rid = w.rid \/ ~IsQuestion(t.rid)

\* Gate 1 (_authorize_order_write, OrderWriteAuthorization.covers): whatever the
\* gateway was told to do, a human gave a fingerprint for exactly this account,
\* order and body, and gave it less than the window plus one read, one dialog
\* and one request before the gateway got it - the window is checked before the
\* dialog opens and never again.
Authorized ==
    \A w \in wire : w.yes =>
        \E t \in touches : /\ StandsBehind(t, w)
                           /\ t.at <= w.at
                           /\ w.at - t.at < TTL + 2 * RequestTime + DialogTime

\* Gate 2: the call that sent a request had that request's own dialog confirmed,
\* and the dialog showed the body that was sent, whatever the caller did to its
\* dict in the meantime.
ShownAsSent ==
    \A w \in wire : w.yes =>
        \E d \in confirms : d.by = w.by /\ d.rid = w.rid /\ d.scope = w.scope

\* with_retry around the POST of a write: the gateway processes a write again only
\* after it has answered the one before 503 itself (shed), never after an answer
\* that arrived or was lost (sent); and however often it does so, at most
\* 1 + MaxRetries orders stand behind the human's one yes.  There is no
\* idempotency key, so that a 503 which comes after the write took effect does
\* double the order.
SentOnce == \A c \in Calls : /\ call[c].sent <= 1
                             /\ call[c].sent + call[c].shed <= MaxRetries + 1

\* The reply loops: a chain that returns has answered every question that IBKR
\* asked about any of its legs, of the write whose answer it was given.
EveryQuestionAnswered ==
    \A c \in Calls : call[c].op \in Chained /\ call[c].pc = "returned" =>
        \A r \in raised : r[1] = c =>
            \E w \in wire : w.by = c /\ w.rid = r /\ w.yes

\* _resolve_one_reply: a chain that ended because a reply was declined has told
\* IBKR so, and the log has no confirmed record of that reply.
DeclineReachesGateway ==
    \A c \in Calls :
        call[c].why = "declined" /\ call[c].queue # <<>> =>
            \E w \in wire : /\ w.by = c /\ w.rid = Head(call[c].queue) /\ ~w.yes
                            /\ <<w.rid, FALSE>> \in call[c].log

\* A chain that said no to IBKR once never says yes again: no leg of a bracket is
\* confirmed after the human declined another one.
NoYesAfterNo ==
    [][\A w \in wire' \ wire :
          w.yes /\ call[w.by].op \in Chained =>
              ~ \E v \in wire : v.by = w.by /\ ~v.yes]_vars

\* reply_log: a record says "confirmed" exactly when the human confirmed that
\* dialog, and everything the chain answered is in the log as it was answered.
ReplyLogHonest ==
    \A c \in Calls : call[c].op \in Chained =>
        /\ \A d \in confirms : d.by = c /\ IsQuestion(d.rid) =>
               <<d.rid, TRUE>> \in call[c].log
        /\ \A e \in call[c].log : e[2] =>
               \E d \in confirms : d.by = c /\ d.rid = e[1]
        /\ \A w \in wire : w.by = c /\ IsQuestion(w.rid) =>
               <<w.rid, w.yes>> \in call[c].log

\* The three: what IBKR was told, what the log says and what the human answered are one.
RepliesHonest == EveryQuestionAnswered /\ DeclineReachesGateway /\ ReplyLogHonest

\* _ensure_accounts_initialized: IBKR's order prerequisite, GET /iserver/accounts,
\* has succeeded for this client before any order write of it, whatever the other
\* threads are at; and in the client's first gateway session it has reached the
\* session that the write goes to.  The flag is one of the client object: a later
\* session of the same client is written to without the query.
WritesArePrimed == [][wire' # wire => ready /\ (drops = 0 => primed)]_vars

\* What the two gates promise, as an abstract specification (TwoGates): nothing is
\* done that was not shown to the human by the call that does it, nothing is
\* shown whose write the human has not authorized.
DeedOf(scope, rid) ==
    [scope |-> scope, reply |-> IF IsQuestion(rid) THEN rid ELSE <<>>]

Gates == INSTANCE TwoGates WITH
    Callers    <- Calls,
    Scopes     <- Scope,
    Replies    <- ReplyId,
    NoReply    <- <<>>,
    authorized <- {DeedOf(t.scope, t.rid) : t \in touches},
    shown      <- {<<d.by, DeedOf(d.scope, d.rid)>> : d \in confirms},
    done       <- {<<w.by, DeedOf(w.scope, w.rid)>> : w \in {v \in wire : v.yes}}

ImplementsGates == Gates!Spec

\* Every call ends: with a result or with an exception.
EveryCallEnds ==
    \A c \in Calls : call[c].pc # "idle" ~> call[c].pc \in Ended

-----------------------------------------------------------------------------
(* The inductive invariants behind TypeOK, SentOnce, ShownAsSent and          *)
(* Authorized, by frame.                                                     *)

ReplyStages == {"reply gate1", "reply dialog", "confirming", "declining"}
BeforeSend  == {"idle", "authorize", "accounts", "gate1", "read", "dialog", "send"}

\* What every stage of a method relies on: a scope is there once the method has
\* begun, an authorization once a chain is past its Gate 1, an entry to answer
\* while a reply is being resolved; and the write is sent in one stage only.
FrameOK(f) ==
    /\ IF f.pc = "idle" THEN f.op # "reply" ELSE f.scope \in Scope
    /\ f.pc = "authorize" => f.op \in Chained /\ f.chain = f.scope
    /\ f.op \in Chained /\ f.auth = NoAuth =>
          \/ f.pc \in {"idle", "authorize", "raised"}
          \/ f.pc = "accounts" /\ f.op = "place_bracket"
    /\ f.pc \in ReplyStages \cup {"reply"} => f.op \in Chained
    /\ f.pc \in ReplyStages => f.queue # <<>>
    /\ f.sent <= 1
    /\ f.pc \in BeforeSend => f.sent = 0

\* What was processed and answered 503 has used up one of the attempts.
ShedOK(f) ==
    /\ f.tries <= MaxRetries
    /\ f.pc \in BeforeSend \ {"send"} => f.shed = 0
    /\ f.pc = "send" => f.shed <= f.tries
    /\ f.sent + f.shed <= MaxRetries + 1

\* The inductive invariant behind TypeOK and, with ShedOK of every frame, SentOnce.
FramesOK ==
    /\ TypeOK
    /\ \A c \in Calls : FrameOK(call[c])
    /\ \A r \in raised : call[r[1]].pc \notin BeforeSend

PastGate1 == {"read", "dialog", "send", "reply"} \cup ReplyStages

\* A fingerprint for rid, or for the write it belongs to, less than age older than
\* the moment the call entered its stage.
Backed(f, rid, age) ==
    \E t \in touches : /\ t.scope = f.scope
                       /\ t.rid = rid \/ ~IsQuestion(t.rid)
                       /\ t.at <= f.since /\ f.since - t.at < age

\* c had the dialog of rid confirmed, for the scope it sends.
WasShown(c, f, rid) ==
    \E d \in confirms : d.by = c /\ d.rid = rid /\ d.scope = f.scope

\* No stage lasts longer than its limit.
ClockOK(f) ==
    /\ f.since <= now
    /\ f.pc \notin {"idle"} \cup Ended => now - f.since <= Limit(f.pc)

\* A call works on its own questions; a standalone reply carries the scope of the
\* call that it answers for, whose write has been sent.
IdentityOK(c, f) ==
    /\ f.op # "reply" => f.rid = Itself(c)
    /\ f.op = "reply" => f.rid \in raised /\ f.scope = call[f.rid[1]].scope
    /\ \A i \in DOMAIN f.queue : f.queue[i][1] = c
    /\ \A i \in DOMAIN f.latest : f.latest[i][1] = c

\* Behind every authorization is a fingerprint; once a chain is past Gate 1, there
\* is a fingerprint for what it sends, not older than its authorization.
AuthOK(f) ==
    /\ f.auth # NoAuth => \E t \in touches : /\ t.scope = f.auth.scope
                                             /\ t.at = f.auth.at
                                             /\ ~IsQuestion(t.rid)
    /\ f.op \in Chained /\ f.pc \in PastGate1 =>
          \E t \in touches : /\ t.scope = f.scope /\ ~IsQuestion(t.rid)
                             /\ f.auth.at <= t.at

\* What each stage behind a gate owes to the gate.
GateOK(c, f) ==
    /\ f.pc = "read"   => Backed(f, f.rid, TTL)
    /\ f.pc = "dialog" => Backed(f, f.rid, TTL + RequestTime)
    /\ f.pc = "send"   => /\ Backed(f, f.rid, TTL + RequestTime + DialogTime)
                          /\ WasShown(c, f, f.rid)
    /\ f.pc = "reply dialog" => Backed(f, Head(f.queue), TTL)
    /\ f.pc = "confirming"   => /\ Backed(f, Head(f.queue), TTL + DialogTime)
                                /\ WasShown(c, f, Head(f.queue))

CallOK(c, f) == ClockOK(f) /\ IdentityOK(c, f) /\ AuthOK(f) /\ GateOK(c, f)

\* The inductive invariant behind Authorized, ShownAsSent and ImplementsGates.
IInv ==
    /\ FramesOK
    /\ \A t \in touches : t.at <= now
    /\ \A c \in Calls : CallOK(c, call[c])
    /\ Authorized /\ ShownAsSent
=============================================================================
