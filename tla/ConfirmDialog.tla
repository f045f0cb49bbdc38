----------------------------- MODULE ConfirmDialog -----------------------------
(***************************************************************************)
(* Gate 2 itself: one call of _show_confirm_dialog (order_confirm.py) and  *)
(* the processes it puts a dialog on the screen with: the AppKit runner    *)
(* (_order_dialog.py), osascript when that fails, tkinter elsewhere.       *)
(*                                                                         *)
(* A dialog is a process of its own.  It may fail before, while or after   *)
(* the human answers, be quit without an answer, or hang until its caller  *)
(* kills it.  Which of these happens first is left open: no clock is kept. *)
(***************************************************************************)
EXTENDS Integers, Sequences

CONSTANTS
    Platforms,    \* of "darwin", "tk" and "none"
    Sides,        \* what a row of the details may say of the side
    MaxDialogs,   \* bound: calls
    None

VARIABLES
    call,     \* [at, action, rows]: the caller
    proc,     \* [at, out, ok]: the process of the dialog
    banner,   \* what the coloured banner on the screen says
    presses,  \* what the human answered in this call, in order
    verdict,  \* of the last call
    shows

vars == <<call, proc, banner, presses, verdict, shows>>

Actions == {None, "CANCEL", "MODIFY"}
NoProc == [at |-> "none", out |-> None, ok |-> TRUE]
Idle == [at |-> "idle", action |-> None, rows |-> << >>]
OnScreen == proc.at = "shown"

Init ==
    /\ call = Idle /\ proc = NoProc /\ banner = None
    /\ presses = << >> /\ verdict = None /\ shows = 0

TypeOK ==
    /\ call.at \in {"idle", "appkit", "osascript", "tk"} /\ call.action \in Actions
    /\ call.rows \in {<< >>} \cup [{"Action", "side", "Side"} -> Sides \cup {None}]
    /\ proc.at \in {"none", "starting", "shown", "decided", "exited"}
    /\ proc.out \in {None, "CONFIRMED", "CANCELLED"} /\ proc.ok \in BOOLEAN
    /\ verdict \in {None, "confirmed", "refused"} /\ shows \in 0..MaxDialogs
    /\ \A i \in DOMAIN presses : presses[i] \in {"confirm", "abandon"}
    /\ Len(presses) <= 2
    /\ call.at = "idle" <=> proc.at = "none"

(****************************** what is shown ******************************)

\* _extract_side: the first key that says something.
Said(rows) == {k \in {"Action", "side", "Side"} : rows[k] # None}
ExtractSide(rows) ==
    IF Said(rows) = {} THEN None
    ELSE rows[CHOOSE k \in Said(rows) :
                \A j \in Said(rows) : k = "Action" \/ j = k \/ (k = "side" /\ j = "Side")]

SideWord(side) ==
    IF side = "SELL" THEN "SELL ORDER" ELSE IF side = "BUY" THEN "BUY ORDER" ELSE "REVIEW ORDER"

\* _banner: the act that is authorised before the side of the order.
Banner(side, action) ==
    IF action = "CANCEL" THEN "CANCEL ORDER"
    ELSE IF action = "MODIFY" THEN "MODIFY ORDER"
    ELSE SideWord(side)

(******************************* the caller ********************************)

Goes(at) == call' = [call EXCEPT !.at = at]
Starting == proc' = [NoProc EXCEPT !.at = "starting"]

Returns(v) == verdict' = v /\ call' = Idle /\ proc' = NoProc /\ banner' = None

\* _show_confirm_dialog: no platform without a dialog, no dialog without a yes.
Show ==
    /\ call.at = "idle" /\ shows < MaxDialogs /\ shows' = shows + 1
    /\ presses' = << >>
    /\ \E p \in Platforms, a \in Actions, r \in [{"Action", "side", "Side"} -> Sides \cup {None}] :
         IF p = "none" THEN Returns("refused")
         ELSE /\ call' = [at |-> IF p = "tk" THEN "tk" ELSE "appkit", action |-> a, rows |-> r]
              /\ Starting /\ verdict' = None
              /\ UNCHANGED banner

\* subprocess.run(timeout=...): the process is killed, and nothing is asked again.
TimedOut ==
    /\ call.at \in {"appkit", "osascript"} /\ proc.at # "exited" /\ Returns("refused")
    /\ UNCHANGED <<presses, shows>>

\* Mutant: whatever is not a no is a yes.
SaysYesUnlessNo == proc.out # "CANCELLED"

SaysYes == proc.out = "CONFIRMED"

\* _show_appkit_dialog: an exit code is a failure and falls back; a process that
\* says anything but yes is a no.
ReadAppKit ==
    /\ call.at = "appkit" /\ proc.at = "exited"
    /\ IF proc.ok THEN Returns(IF SaysYes THEN "confirmed" ELSE "refused")
       ELSE Goes("osascript") /\ Starting /\ UNCHANGED <<verdict, banner>>
    /\ UNCHANGED <<presses, shows>>

\* _show_osascript_dialog, _show_tkinter_dialog: there is nothing to fall back to.
ReadLast ==
    /\ call.at \in {"osascript", "tk"} /\ proc.at = "exited"
    /\ Returns(IF proc.ok /\ SaysYes THEN "confirmed" ELSE "refused")
    /\ UNCHANGED <<presses, shows>>

(******************************* the dialog ********************************)

Process == UNCHANGED <<call, verdict, shows>>

\* _run_alert, up to runModal; the other dialogs have no banner.
Appears ==
    /\ proc.at = "starting" /\ proc' = [proc EXCEPT !.at = "shown"]
    /\ banner' = IF call.at = "appkit" THEN Banner(ExtractSide(call.rows), call.action) ELSE None
    /\ UNCHANGED presses /\ Process

Decided(out) == proc' = [proc EXCEPT !.at = "decided", !.out = out] /\ banner' = None

Presses ==
    /\ OnScreen
    /\ \E b \in {"confirm", "abandon"} :
         /\ presses' = Append(presses, b)
         /\ Decided(IF b = "confirm" THEN "CONFIRMED" ELSE "CANCELLED")
    /\ Process

\* The timer, the countdown, "giving up".
GivesUp == OnScreen /\ Decided("CANCELLED") /\ UNCHANGED presses /\ Process

\* The application is quit: it ends well and says nothing.
Quit ==
    /\ OnScreen /\ proc' = [proc EXCEPT !.at = "exited"] /\ banner' = None
    /\ UNCHANGED presses /\ Process

Exits ==
    /\ proc.at = "decided" /\ proc' = [proc EXCEPT !.at = "exited"]
    /\ UNCHANGED <<banner, presses>> /\ Process

\* No AppKit, no osascript, an exception, a crash at the very end.
Fails ==
    /\ proc.at \in {"starting", "shown", "decided"}
    /\ proc' = [proc EXCEPT !.at = "exited", !.ok = FALSE] /\ banner' = None
    /\ UNCHANGED presses /\ Process

Next ==
    \/ Show \/ TimedOut \/ ReadAppKit \/ ReadLast
    \/ Appears \/ Presses \/ GivesUp \/ Quit \/ Exits \/ Fails

Busy == call.at # "idle"

\* The caller's own timer, and the countdown of tkinter, which has none.
TkRuns == call.at = "tk" /\ (Appears \/ GivesUp \/ Exits)
Fairness == WF_vars(TimedOut) /\ WF_vars(ReadAppKit \/ ReadLast) /\ WF_vars(TkRuns)
Spec == Init /\ [][Next]_vars /\ Fairness

(******************************** properties *******************************)

(* ConfirmedByHuman: a call passes Gate 2 only if the last thing the human  *)
(* did in it was to press the confirm button: no failure, fallback, kill,   *)
(* quit or time-out of a dialog is a yes (_show_confirm_dialog).            *)
ConfirmedByHuman ==
    verdict = "confirmed" => presses # << >> /\ presses[Len(presses)] = "confirm"

(* BannerIsTheAct: the banner over a pending confirmation names the act     *)
(* that is authorised, and a side only if a row states it (_banner).        *)
BannerIsTheAct ==
    OnScreen /\ call.at = "appkit" =>
        /\ call.action = "CANCEL" => banner = "CANCEL ORDER"
        /\ banner = "BUY ORDER" => call.action = None /\ "BUY" \in {call.rows[k] : k \in Said(call.rows)}
        /\ banner = "SELL ORDER" => call.action = None /\ "SELL" \in {call.rows[k] : k \in Said(call.rows)}

\* Both of them.
DialogHonest == ConfirmedByHuman /\ BannerIsTheAct
=============================================================================
