----------------------------- MODULE BracketLife -----------------------------
(***************************************************************************)
(* A bracket from its tickets to its exits: the rules that a pair must     *)
(* meet, once before Touch ID (IBKRClient._bracket_tickets, client.py) and *)
(* once more in the dialog, which is public API (confirm_bracket_dialog,   *)
(* order_confirm.py), the reading of IBKR's entries                        *)
(* (pair_bracket_response), and the resizing of a child afterwards         *)
(* (_refuse_child_larger_than_parent_fill).  The gates and the questions   *)
(* IBKR asks in between are in OrderWrite.                                 *)
(***************************************************************************)
EXTENDS Integers, Sequences, FiniteSets, Functions

CONSTANTS
    Parents,      \* parent tickets: [coid, side, qty, conid]
    Kids,         \* child tickets: [parentId, coid, side, qty, conid, type]
    More,         \* child tickets that may follow the first
    MaxLots,      \* bound: sizes asked for later
    MaxModifies,  \* bound: modifies of a child
    Restated,     \* whether IBKR may state a leg twice, with other words
    None

Absent == -1      \* the key is not in the ticket; NaN: not a number to compare
NaN == -2

VARIABLES
    pair,     \* the bracket asked for, and where it stands
    screen,   \* what Gate 2 shows: [labels, disclosed]
    entries,  \* IBKR's terminal entries: [leg, n, link]
    problems, \* whether pair_bracket_response found any
    lots,     \* what the parent ordered
    fill,     \* what it has filled at IBKR
    size,     \* quantity of the child that is resized later
    change,   \* the modify under way; `held`: the parent read as filled by nothing
    modifies

asked == <<pair, screen, entries, problems>>
later == <<lots, fill, size, change, modifies>>
vars == <<asked, later>>

NoPair == [at |-> "idle", parent |-> None, kids |-> << >>, alone |-> FALSE]
NoScreen == [labels |-> {}, disclosed |-> FALSE]
NoChange == [at |-> "idle", qty |-> 0, told |-> FALSE, held |-> FALSE]

Init ==
    /\ pair = NoPair /\ screen = NoScreen /\ entries = {} /\ problems = FALSE
    /\ lots = 0 /\ fill = 0 /\ size = 0 /\ change = NoChange /\ modifies = 0

TypeOK ==
    /\ pair.at \in {"idle", "tickets", "gate2", "shown", "sent", "answered", "read", "live", "refused"}
    /\ pair.alone => pair.at \in {"shown", "refused"}
    /\ screen.disclosed \in BOOLEAN /\ problems \in BOOLEAN
    /\ size \in 0..MaxLots /\ fill \in 0..lots /\ lots \in 0..MaxLots /\ modifies \in 0..MaxModifies
    /\ change.at \in {"idle", "order", "parent", "gate2"} /\ change.qty \in 0..MaxLots
    /\ size > 0 <=> pair.at = "live"

(******************************** the rules ********************************)

Number(q) == q \notin {Absent, NaN}
OtherContract(p, k) == p.conid # Absent /\ k.conid # Absent /\ k.conid # p.conid

\* _bracket_tickets.
BuilderOversized(p, k) ==
    k.qty # Absent /\ (~Number(k.qty) \/ ~Number(p.qty) \/ k.qty > p.qty)
BuilderRefuses(p, kids) ==
    \/ p.coid = None \/ kids = << >> \/ p.side = None
    \/ \E k \in Range(kids) :
         \/ k.parentId # p.coid \/ k.coid # None
         \/ k.side \in {None, p.side}
         \/ OtherContract(p, k) \/ BuilderOversized(p, k)

\* Mutant: a parent without a quantity is compared with nothing.
DialogOversizedIfStated(p, k) ==
    k.qty # Absent /\ p.qty # Absent /\ (~Number(k.qty) \/ ~Number(p.qty) \/ k.qty > p.qty)

\* confirm_bracket_dialog.
DialogOversized(p, k) ==
    k.qty # Absent /\ (p.qty = Absent \/ ~Number(k.qty) \/ ~Number(p.qty) \/ k.qty > p.qty)
DialogRefuses(p, kids) ==
    \/ kids = << >> \/ p.side = None \/ p.coid = None
    \/ \E k \in Range(kids) :
         \/ k.side \in {None, p.side}
         \/ k.parentId = None \/ k.parentId # p.coid \/ k.coid # None
         \/ OtherContract(p, k) \/ DialogOversized(p, k)

\* The rows of a leg are keyed by its kind, numbered from the second one on.
Kind(k) == IF k.type = "LMT" THEN "Profit taker" ELSE "Stop loss"

Labels(kids) ==
    {<<Kind(kids[i]), Cardinality({j \in 1..i : Kind(kids[j]) = Kind(kids[i])})>> : i \in DOMAIN kids}

\* _multi_child_disclosure: said unless the children are known to total no
\* more than the parent.  A child without a quantity counts as the parent.
KidQty(p, k) == IF Number(k.qty) THEN k.qty ELSE p.qty
Total(p, kids) == FoldFunction(LAMBDA k, t : KidQty(p, k) + t, 0, kids)
Discloses(p, kids) == Len(kids) > 1 /\ (~Number(p.qty) \/ Total(p, kids) > p.qty)

(************************ place_bracket_and_confirm ************************)

\* The rules come before any gate.
Tickets ==
    /\ pair.at = "idle"
    /\ \E p \in Parents, k \in Kids, n \in 0..2, m \in More :
         LET kids == SubSeq(<<k, m>>, 1, n)
         IN  pair' = [at |-> IF BuilderRefuses(p, kids) THEN "refused" ELSE "tickets",
                      parent |-> p, kids |-> kids, alone |-> FALSE]
    /\ UNCHANGED <<screen, entries, problems, later>>

TouchID ==
    /\ pair.at = "tickets"
    /\ \E granted \in BOOLEAN : pair' = IF granted THEN [pair EXCEPT !.at = "gate2"] ELSE NoPair
    /\ UNCHANGED <<screen, entries, problems, later>>

Show(p, kids, alone) ==
    IF DialogRefuses(p, kids)
    THEN pair' = [at |-> "refused", parent |-> p, kids |-> kids, alone |-> alone] /\ UNCHANGED screen
    ELSE /\ pair' = [at |-> "shown", parent |-> p, kids |-> kids, alone |-> alone]
         /\ screen' = [labels |-> Labels(kids), disclosed |-> Discloses(p, kids)]

Gate2 ==
    /\ pair.at = "gate2" /\ Show(pair.parent, pair.kids, FALSE)
    /\ UNCHANGED <<entries, problems, later>>

\* The dialog called by itself.
Gate2Alone ==
    /\ pair.at = "idle"
    /\ \E p \in Parents, k \in Kids, n \in 0..2, m \in More : Show(p, SubSeq(<<k, m>>, 1, n), TRUE)
    /\ UNCHANGED <<entries, problems, later>>

Decides ==
    /\ pair.at = "shown" /\ screen' = NoScreen
    /\ \E yes \in BOOLEAN : pair' = IF yes /\ ~pair.alone THEN [pair EXCEPT !.at = "sent"] ELSE NoPair
    /\ UNCHANGED <<entries, problems, later>>

(* An entry is the parent's (leg 0), which echoes its cOID, or a child's,   *)
(* which carries nothing of ours but a link: to this parent, to another     *)
(* order, or none for a leg that was refused.  A leg may be dropped; the    *)
(* order of the entries does not matter.                                    *)
Legs == 0..Len(pair.kids)
Copies == IF Restated THEN 2 ELSE 1

IbkrAnswers ==
    /\ pair.at = "sent" /\ pair' = [pair EXCEPT !.at = "answered"]
    /\ \E times \in [Legs -> 0..Copies], link \in [Legs -> {"none", "parent", "other"}] :
         /\ link[0] = "none"
         /\ entries' = {[leg |-> l, n |-> n, link |-> link[l]] : l \in Legs, n \in 1..Copies}
                         \cap UNION {[leg : {l}, n : 1..times[l], link : {link[l]}] : l \in Legs}
    /\ UNCHANGED <<screen, problems, later>>

\* pair_bracket_response: what links to this parent is a child of it.
IsChild(e) == e.link = "parent"

ParentEntry == {e \in entries : e.leg = 0 /\ e.n = 1}
Others == entries \ ParentEntry
FindsProblems ==
    \/ ParentEntry = {}
    \/ Cardinality({e \in Others : IsChild(e)}) # Len(pair.kids)
    \/ Cardinality(entries) # Len(pair.kids) + 1
    \/ \E e \in Others : ~IsChild(e)

Attached ==
    /\ ParentEntry # {}
    /\ \A l \in Legs \ {0} : \E e \in entries : e.leg = l /\ e.link = "parent"

ReadBack ==
    /\ pair.at = "answered" /\ pair' = [pair EXCEPT !.at = "read"]
    /\ problems' = FindsProblems
    /\ UNCHANGED <<screen, entries, later>>

(************************** the child, afterwards **************************)

Lots(q) == IF Number(q) THEN q ELSE MaxLots

\* The bracket works: the size of its first child is what is followed.
Live ==
    /\ pair.at = "read" /\ Attached
    /\ lots' = Lots(pair.parent.qty) /\ size' = Lots(KidQty(pair.parent, pair.kids[1]))
    /\ pair' = [NoPair EXCEPT !.at = "live"] /\ entries' = {} /\ problems' = FALSE
    /\ UNCHANGED <<screen, fill, change, modifies>>

Fills ==
    /\ pair.at = "live" /\ fill < lots
    /\ fill' = fill + 1
    /\ UNCHANGED <<asked, lots, size, change, modifies>>

Changing == UNCHANGED <<asked, lots, fill, modifies>>

\* modify_order, after Gate 1, with a quantity in its body.
Modify ==
    /\ pair.at = "live" /\ change.at = "idle" /\ modifies < MaxModifies /\ modifies' = modifies + 1
    /\ \E q \in 1..MaxLots : change' = [NoChange EXCEPT !.at = "order", !.qty = q]
    /\ UNCHANGED <<asked, lots, fill, size>>

\* A status that cannot be read is told in the dialog and does not refuse.
StatusUnread ==
    /\ change.at \in {"order", "parent"}
    /\ change' = [change EXCEPT !.at = "gate2", !.told = TRUE]
    /\ UNCHANGED size /\ Changing

ReadOrder ==
    /\ change.at = "order" /\ change' = [change EXCEPT !.at = "parent"]
    /\ UNCHANGED size /\ Changing

\* Mutant: compared with what the parent ordered, not with what it filled.
TooLargeForOrder == change.qty > lots

\* Nothing filled: the child is held and, so says the code, IBKR ignores its quantity.
TooLarge == fill > 0 /\ change.qty > fill

ReadParent ==
    /\ change.at = "parent"
    /\ change' = IF TooLarge THEN NoChange ELSE [change EXCEPT !.at = "gate2", !.held = fill = 0]
    /\ UNCHANGED size /\ Changing

Confirmed ==
    /\ change.at = "gate2" /\ change' = NoChange
    /\ \E yes \in BOOLEAN : size' = IF yes /\ fill > 0 THEN change.qty ELSE size
    /\ Changing

Next ==
    \/ Tickets \/ TouchID \/ Gate2 \/ Gate2Alone \/ Decides \/ IbkrAnswers \/ ReadBack
    \/ Live \/ Fills \/ Modify \/ StatusUnread \/ ReadOrder \/ ReadParent \/ Confirmed

Spec == Init /\ [][Next]_vars

(******************************** properties *******************************)

(* RulesAgree: the dialog refuses exactly what the ticket builder refuses:  *)
(* a pair that passed before Touch ID is not refused after it, and the      *)
(* dialog called by itself shows no pair that could not be sent             *)
(* (confirm_bracket_dialog: "The two lists are kept identical").            *)
RulesAgree ==
    /\ pair.at = "shown" => ~BuilderRefuses(pair.parent, pair.kids)
    /\ pair.at = "refused" => BuilderRefuses(pair.parent, pair.kids)

(* EveryLegShown: the screen has rows of its own for every leg, and tells   *)
(* of children that together may be more than the parent.                   *)
EveryLegShown ==
    pair.at = "shown" =>
        /\ Cardinality(screen.labels) = Len(pair.kids)
        /\ Len(pair.kids) = 2 /\ Number(pair.parent.qty)
             /\ KidQty(pair.parent, pair.kids[1]) + KidQty(pair.parent, pair.kids[2]) > pair.parent.qty
           => screen.disclosed

(* OkMeansAttached: a response read without a problem has an entry of every *)
(* leg, with every child attached to this parent (BracketPairing.ok).       *)
OkMeansAttached ==
    pair.at = "read" /\ ~problems =>
        /\ Attached
        /\ \A e \in entries : e.leg # 0 => e.link = "parent"

(* NeverBeyondFill: no modify makes a child larger than what its parent has *)
(* filled, except where the dialog said that this was not checked           *)
(* (_refuse_child_larger_than_parent_fill: "may never be larger than the    *)
(* position its parent actually created").                                  *)
NeverBeyondFill == [][Confirmed /\ size' > size => size' <= fill \/ change.told]_vars

(* WithinFillRead: what the check does give.  However the parent fills      *)
(* while the dialog waits, a modify makes a child larger than the fill only *)
(* where the dialog said that this was not checked, or where the parent had *)
(* filled nothing when it was read and the check let every size pass.       *)
WithinFillRead ==
    [][Confirmed /\ size' > size => size' <= fill \/ change.told \/ change.held]_vars
=============================================================================
