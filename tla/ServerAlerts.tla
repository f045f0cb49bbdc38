----------------------------- MODULE ServerAlerts -----------------------------
(***************************************************************************)
(* The price alerts IBKR keeps for an account and the tools that create,   *)
(* patch, switch and delete them (claude_tools.py, client.py).  One        *)
(* endpoint creates and modifies, and its vocabulary is not the one an     *)
(* alert is read in; the user edits the same alerts on a phone.            *)
(***************************************************************************)
EXTENDS Integers, SequencesExt

CONSTANTS
    None,
    Ids,        \* bound: the numbers alerts get
    Names, Expiries, Prices, Operators,
    Phoned,     \* alerts as the phone may leave them
    MaxTries,   \* retries of a request answered 429 or 503
    MaxCalls,   \* bound: calls of the tools
    MaxEdits    \* bound: edits on the phone

VARIABLES
    alerts,     \* number -> alert or None
    call,       \* [op, at, id, patch, body, tries]: the tool under way, and whether the
                \* alert is as it was read (fresh), a witness for the properties
    says,       \* the answer of the last call
    calls, edits

vars == <<alerts, call, says, calls, edits>>

Conditions == [operator : Operators, value : Prices]
Idle == [op |-> None, at |-> "idle", id |-> None, patch |-> << >>, body |-> << >>, tries |-> 0, fresh |-> TRUE]
Alive == {i \in Ids : alerts[i] # None}

Init ==
    /\ alerts = [i \in Ids |-> None] /\ call = Idle /\ says = None
    /\ calls = 0 /\ edits = 0

IsAlert(a) ==
    /\ a.name \in Names /\ a.tif \in {"GTC", "GTD"} /\ a.expire \in Expiries \cup {None}
    /\ a.active \in BOOLEAN /\ a.conds # << >> /\ Range(a.conds) \subseteq Conditions

TypeOK ==
    /\ \A i \in Alive : IsAlert(alerts[i])
    /\ call.op \in {None, "create", "modify", "delete", "activate"} /\ call.at \in {"idle", "read", "write"}
    /\ says \in {None, "done", "not_found", "needs_expiry", "blocked", "error"}

(***************************** the translation *****************************)

\* Mutant: the body is what was read, in the words it was read in.
TranslatedAsRead(id, a) == [name |-> a.name, tif |-> a.tif, expire |-> a.expire, conds |-> a.conds, orderId |-> 0]

\* _alert_detail_to_request: with the number, which makes it a change.
Translated(id, a) == [name |-> a.name, tif |-> a.tif, expire |-> a.expire, conds |-> a.conds, orderId |-> id]

\* _modify_price_alert: the fields of the patch over the translated ones, price
\* and operator in the first condition.
Patched(body, patch) ==
    LET Field(f) == IF f \in DOMAIN patch THEN patch[f] ELSE body[f]
        first == [f \in {"operator", "value"} |->
                    IF f \in DOMAIN patch THEN patch[f] ELSE body.conds[1][f]]
    IN  [name |-> Field("name"), tif |-> Field("tif"), expire |-> Field("expire"),
         conds |-> ReplaceAt(body.conds, 1, first), orderId |-> body.orderId]

\* tif GTD is of no use without an expiry, whoever set it.
LacksExpiry(body) == body.tif = "GTD" /\ body.expire = None

(********************************** tools **********************************)

Begin(op, at, id, patch) ==
    /\ call.at = "idle" /\ calls < MaxCalls /\ calls' = calls + 1
    /\ call' = [Idle EXCEPT !.op = op, !.at = at, !.id = id, !.patch = patch]
    /\ says' = None
    /\ UNCHANGED <<alerts, edits>>

Answers(what) == says' = what /\ call' = Idle
Tool == UNCHANGED <<calls, edits>>

\* _create_price_alert: refused, or one condition and no number.
BeginCreate ==
    \E n \in Names, t \in {"GTC", "GTD"}, e \in Expiries \cup {None}, c \in Conditions :
        LET body == [name |-> n, tif |-> t, expire |-> e, conds |-> <<c>>, orderId |-> 0]
        IN  /\ call.at = "idle" /\ calls < MaxCalls /\ calls' = calls + 1
            /\ IF LacksExpiry(body) THEN Answers("needs_expiry")
               ELSE call' = [Idle EXCEPT !.op = "create", !.at = "write", !.body = body] /\ says' = None
            /\ UNCHANGED <<alerts, edits>>

Patches ==
    {[name |-> n] : n \in Names} \cup {[tif |-> t] : t \in {"GTC", "GTD"}} \cup
    {[expire |-> e] : e \in Expiries \cup {None}} \cup {[value |-> p] : p \in Prices} \cup
    {[operator |-> o, tif |-> "GTD"] : o \in Operators}

BeginModify == \E i \in Ids, p \in Patches : Begin("modify", "read", i, p)
BeginDelete == \E i \in Ids : Begin("delete", "write", i, << >>)
BeginActivate == \E i \in Ids, on \in BOOLEAN : Begin("activate", "write", i, [active |-> on])

\* get_alert, the translation, the patch and the check.
Read ==
    /\ call.op = "modify" /\ call.at = "read"
    /\ IF alerts[call.id] = None THEN Answers("not_found")
       ELSE LET body == Patched(Translated(call.id, alerts[call.id]), call.patch)
            IN  IF LacksExpiry(body) THEN Answers("needs_expiry")
                ELSE call' = [call EXCEPT !.at = "write", !.body = body, !.fresh = TRUE] /\ UNCHANGED says
    /\ UNCHANGED alerts /\ Tool

\* A 403 to a create or a modify is told apart, by its status alone.
Blocked ==
    /\ call.at = "write" /\ call.op \in {"create", "modify"} /\ Answers("blocked")
    /\ UNCHANGED alerts /\ Tool
Fails ==
    /\ call.at \in {"read", "write"} /\ Answers("error")
    /\ UNCHANGED alerts /\ Tool

\* The request took effect, and its answer is lost, or is a 503 and sent again.
Answered ==
    \/ Answers("done") \/ Answers("error")
    \/ call.tries < MaxTries /\ call' = [call EXCEPT !.tries = @ + 1] /\ UNCHANGED says

\* The alert endpoint: number 0 creates, any other changes that alert, as a whole.
Stored(b) == [name |-> b.name, tif |-> b.tif, expire |-> b.expire, conds |-> b.conds, active |-> TRUE]

Write ==
    /\ call.at = "write" /\ call.op \in {"create", "modify"} /\ Answered
    /\ LET b == call.body
       IN  IF b.orderId = 0
           THEN \E i \in Ids \ Alive : alerts' = [alerts EXCEPT ![i] = Stored(b)]
           ELSE IF b.orderId \in Alive
           THEN alerts' = [alerts EXCEPT ![b.orderId] = [Stored(b) EXCEPT !.active = alerts[b.orderId].active]]
           ELSE UNCHANGED alerts
    /\ Tool

Delete ==
    /\ call.at = "write" /\ call.op = "delete" /\ Answered
    /\ alerts' = [alerts EXCEPT ![call.id] = None]
    /\ Tool

Activate ==
    /\ call.at = "write" /\ call.op = "activate" /\ Answered
    /\ alerts' = IF call.id \in Alive THEN [alerts EXCEPT ![call.id].active = call.patch.active] ELSE alerts
    /\ Tool

(********************************* the phone *******************************)

Edit ==
    /\ edits < MaxEdits /\ edits' = edits + 1
    /\ \E i \in Ids, a \in Phoned :
         /\ alerts' = [alerts EXCEPT ![i] = a]
         /\ call' = [call EXCEPT !.fresh = @ /\ i # call.id]
    /\ UNCHANGED <<says, calls>>

Discard ==
    /\ edits < MaxEdits /\ edits' = edits + 1
    /\ \E i \in Alive :
         /\ alerts' = [alerts EXCEPT ![i] = None]
         /\ call' = [call EXCEPT !.fresh = @ /\ i # call.id]
    /\ UNCHANGED <<says, calls>>

ToolStep == Read \/ Blocked \/ Fails \/ Write \/ Delete \/ Activate
Next ==
    \/ BeginCreate \/ BeginModify \/ BeginDelete \/ BeginActivate
    \/ ToolStep \/ Edit \/ Discard

Busy == call.at # "idle"
Fairness == WF_vars(ToolStep)
Spec == Init /\ [][Next]_vars /\ Fairness

(******************************** properties *******************************)

(* GtdHasExpiry: no sequence of patches, by tools or the phone, leaves an   *)
(* alert good till a date that has no date (_modify_price_alert).           *)
GtdHasExpiry == \A i \in Alive : alerts[i].tif = "GTD" => alerts[i].expire # None

(* ModifyPatches: a modify changes no alert but the one it names, never     *)
(* adds one, and leaves the fields that are not in its patch as they are,   *)
(* unless the phone edited the alert after it was read.                     *)
ModifyPatches ==
    [][call.op = "modify" /\ Write =>
         /\ \A i \in Ids \ {call.id} : alerts'[i] = alerts[i]
         /\ alerts[call.id] = None => alerts'[call.id] = None
         /\ call.id \in Alive /\ call.fresh /\ call.tries = 0 =>
              /\ \A f \in {"name", "tif", "expire", "active"} \ DOMAIN call.patch :
                    alerts'[call.id][f] = alerts[call.id][f]
              /\ Tail(alerts'[call.id].conds) = Tail(alerts[call.id].conds)]_vars
=============================================================================
