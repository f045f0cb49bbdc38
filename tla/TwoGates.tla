------------------------------ MODULE TwoGates ------------------------------
(***************************************************************************)
(* What the security model of ibkr_core_mcp promises of every order write, *)
(* without how: two human gates, Touch ID and then a dialog, in front of   *)
(* whatever changes something at IBKR.                                     *)
(*                                                                         *)
(* A deed is a write (a scope: kind, account, order id, body), or the      *)
(* confirmation of one question IBKR asked about such a write.  The human  *)
(* may authorize a deed at any time.  A deed is shown only once it, or the *)
(* write it belongs to, is authorized; it is done only by a caller that    *)
(* has shown it.                                                           *)
(***************************************************************************)
CONSTANTS Callers, Scopes, Replies, NoReply

VARIABLES authorized,   \* deeds the human gave a fingerprint for
          shown,        \* <<caller, deed>>: the dialogs that were confirmed
          done          \* <<caller, deed>>: what reached IBKR

vars == <<authorized, shown, done>>

Deed == [scope : Scopes, reply : Replies \cup {NoReply}]
WriteOf(d) == [scope |-> d.scope, reply |-> NoReply]

Init == authorized = {} /\ shown = {} /\ done = {}

Fingerprint(d) ==
    /\ authorized' = authorized \cup {d}
    /\ UNCHANGED <<shown, done>>

Show(c, d) ==
    /\ d \in authorized \/ WriteOf(d) \in authorized
    /\ shown' = shown \cup {<<c, d>>}
    /\ UNCHANGED <<authorized, done>>

Do(c, d) ==
    /\ <<c, d>> \in shown
    /\ done' = done \cup {<<c, d>>}
    /\ UNCHANGED <<authorized, shown>>

\* The deed of a step is among the new authorized, shown or done ones.
Next ==
    \/ \E d \in authorized' : d \in Deed /\ Fingerprint(d)
    \/ \E s \in shown' : s \in Callers \X Deed /\ Show(s[1], s[2])
    \/ \E s \in done'  : s \in Callers \X Deed /\ Do(s[1], s[2])

Spec == Init /\ [][Next]_vars
=============================================================================
