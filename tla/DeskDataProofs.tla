---------------------------- MODULE DeskDataProofs ----------------------------
(***************************************************************************)
(* Theorems of ToolDesk about the services that put data together: the     *)
(* bracket and its children, the alerts kept by IBKR, the coverage report  *)
(* and the assembly of bars and positions in pages.  As in DeskProofs each *)
(* has an inductive invariant of its own.                                  *)
(***************************************************************************)
EXTENDS DeskProofs, TLAPS

(* What a behaviour of the desk is to one of its services.                 *)
LEMMA BracketPart == (Init => B!Init) /\ ([Next]_everything => [B!Next]_(B!vars))
  BY DEF Init, Next, everything, bracketState, B!vars, B!asked, B!later

LEMMA AlertsPart == (Init => A!Init) /\ ([Next]_everything => [A!Next]_(A!vars))
  BY DEF Init, Next, everything, alertsState, A!vars

LEMMA CoveragePart == (Init => V!Init) /\ ([Next]_everything => [V!Next]_(V!vars))
  BY DEF Init, Next, everything, coverageState, V!vars

LEMMA HistoryPart == (Init => H!Init) /\ ([Next]_everything => [H!Next]_(H!vars))
  BY DEF Init, Next, everything, historyState, H!vars

\* The instances count as the library does.
LEMMA SameCount == \A s : /\ B!Cardinality(s) = Cardinality(s)
                          /\ V!Cardinality(s) = Cardinality(s)
                          /\ H!Cardinality(s) = Cardinality(s)
<1> TAKE s
<1>1. B!Cardinality(s) = Cardinality(s)
  BY Zenon DEF B!Cardinality, Cardinality
<1>2. V!Cardinality(s) = Cardinality(s)
  BY Zenon DEF V!Cardinality, Cardinality
<1>3. H!Cardinality(s) = Cardinality(s)
  BY Zenon DEF H!Cardinality, Cardinality
<1> QED BY <1>1, <1>2, <1>3

(***************************************************************************)
(* A bracket order (BracketLife; claude_tools.py, order_confirm.py,        *)
(* pairing of IBKR's response).                                            *)
(***************************************************************************)
FillInv ==
    /\ fill \in Nat
    /\ change \in [at : {"idle", "order", "parent", "gate2"}, qty : 0..MaxLots,
                    told : BOOLEAN, held : BOOLEAN]
    /\ change.at = "gate2" /\ ~change.told /\ ~change.held => change.qty <= fill

LEMMA FillInit == B!Init => FillInv
  BY BracketAssumption DEF B!Init, FillInv, B!NoChange

LEMMA FillStep == FillInv /\ [B!Next]_(B!vars) => FillInv'
<1> SUFFICES ASSUME FillInv, [B!Next]_(B!vars) PROVE FillInv'
  OBVIOUS
<1> USE BracketAssumption DEF FillInv
<1>1. CASE B!Tickets \/ B!TouchID \/ B!Gate2 \/ B!Gate2Alone \/ B!Decides \/ B!IbkrAnswers \/ B!ReadBack
  <2>1. UNCHANGED <<fill, change>>
    <3>1. CASE B!Tickets
      BY <3>1 DEF B!Tickets, B!later
    <3>2. CASE B!TouchID \/ B!Gate2 \/ B!Decides \/ B!ReadBack
      BY <3>2 DEF B!TouchID, B!Gate2, B!Decides, B!ReadBack, B!later
    <3>3. CASE B!Gate2Alone
      BY <3>3 DEF B!Gate2Alone, B!later
    <3>4. CASE B!IbkrAnswers
      BY <3>4 DEF B!IbkrAnswers, B!later
    <3> QED BY <1>1, <3>1, <3>2, <3>3, <3>4
  <2> QED BY <2>1
<1>2. CASE B!Live
  BY <1>2 DEF B!Live
<1>3. CASE B!Fills
  BY <1>3 DEF B!Fills
<1>4. CASE B!Modify
  <2>1. fill' = fill /\ \E q \in 1..MaxLots : change' = [at |-> "order", qty |-> q, told |-> FALSE, held |-> FALSE]
    BY <1>4 DEF B!Modify, B!NoChange
  <2> QED BY <2>1
<1>5. CASE B!StatusUnread \/ B!ReadOrder
  BY <1>5 DEF B!StatusUnread, B!ReadOrder, B!Changing
<1>6. CASE B!ReadParent
  <2>1. fill' = fill
    BY <1>6 DEF B!ReadParent, B!Changing
  <2>2. CASE B!TooLarge
    <3>1. change' = [at |-> "idle", qty |-> 0, told |-> FALSE, held |-> FALSE]
      BY <1>6, <2>2 DEF B!ReadParent, B!NoChange
    <3> QED BY <2>1, <3>1
  <2>3. CASE ~B!TooLarge
    <3>1. change' = [change EXCEPT !.at = "gate2", !.held = fill = 0]
      BY <1>6, <2>3 DEF B!ReadParent
    <3>2. change' = [at |-> "gate2", qty |-> change.qty, told |-> change.told, held |-> fill = 0]
      BY <3>1
    <3>3. fill \in Nat /\ change.qty \in Nat
      OBVIOUS
    <3>4. fill # 0 => change.qty <= fill
      BY <2>3, <3>3 DEF B!TooLarge
    <3>5. change'.qty = change.qty /\ (~change'.held => fill # 0)
      BY <3>2
    <3>6. ~change'.held => change'.qty <= fill
      BY <3>4, <3>5
    <3> QED BY <2>1, <3>2, <3>6
  <2> QED BY <2>2, <2>3
<1>7. CASE B!Confirmed
  BY <1>7 DEF B!Confirmed, B!Changing, B!NoChange
<1>8. CASE UNCHANGED B!vars
  BY <1>8 DEF B!vars, B!later
<1> QED BY <1>1, <1>2, <1>3, <1>4, <1>5, <1>6, <1>7, <1>8 DEF B!Next

LEMMA GrowsToFill ==
    FillInv => (B!Confirmed /\ size' > size => size' <= fill \/ change.told \/ change.held)
<1> SUFFICES ASSUME FillInv, B!Confirmed, size' > size
             PROVE  size' <= fill \/ change.told \/ change.held
  OBVIOUS
<1>1. fill > 0 /\ size' = change.qty
  BY DEF B!Confirmed, FillInv
<1> QED BY <1>1 DEF B!Confirmed, FillInv

LEMMA RulesAlike == ASSUME NEW p, NEW kids PROVE B!DialogRefuses(p, kids) <=> B!BuilderRefuses(p, kids)
  BY DEF B!DialogRefuses, B!BuilderRefuses, B!DialogOversized, B!BuilderOversized, B!Number, B!Absent

KidLists == {SubSeq(<<k, m>>, 1, n) : k \in Kids, m \in More, n \in 0..2}

LEMMA KidListIs ==
    ASSUME NEW kids \in KidLists
    PROVE  \/ kids = << >>
           \/ \E k \in Kids : kids = <<k>>
           \/ \E k \in Kids, m \in More : kids = <<k, m>>
<1>1. PICK k \in Kids, m \in More, n \in 0..2 : kids = SubSeq(<<k, m>>, 1, n)
  BY DEF KidLists
<1>2. CASE n = 0
  BY <1>1, <1>2, SubSeqProperties
<1>3. CASE n = 1
  <2>1. kids = [i \in 1..1 |-> k]
    BY <1>1, <1>3
  <2>2. <<k>> = [i \in 1..1 |-> k]
    OBVIOUS
  <2> QED BY <2>1, <2>2
<1>4. CASE n = 2
  <2> DEFINE both == [i \in 1..2 |-> IF i = 1 THEN k ELSE m]
  <2>1. <<k, m>> = both
    OBVIOUS
  <2>2. SubSeq(both, 1, 2) = [i \in 1..2 |-> both[i]]
    OBVIOUS
  <2>3. [i \in 1..2 |-> both[i]] = both
    OBVIOUS
  <2> HIDE DEF both
  <2> QED BY <1>1, <1>4, <2>1, <2>2, <2>3
<1> QED BY <1>1, <1>2, <1>3, <1>4

LEMMA OneLabel == ASSUME NEW k PROVE Cardinality(B!Labels(<<k>>)) = 1
<1>1. B!Labels(<<k>>) = {<<B!Kind(k), Cardinality({j \in 1..1 : B!Kind(<<k>>[j]) = B!Kind(k)})>>}
  BY SameCount DEF B!Labels
<1> QED BY <1>1, FS_Singleton

LEMMA TwoLabels == ASSUME NEW k, NEW m PROVE Cardinality(B!Labels(<<k, m>>)) = 2
<1> DEFINE one == {j \in 1..1 : B!Kind(<<k, m>>[j]) = B!Kind(k)}
           two == {j \in 1..2 : B!Kind(<<k, m>>[j]) = B!Kind(m)}
           a == <<B!Kind(k), Cardinality(one)>>
           b == <<B!Kind(m), Cardinality(two)>>
<1>1. B!Labels(<<k, m>>) = {a, b}
  BY SameCount DEF B!Labels
<1>2. a # b
  <2>1. CASE B!Kind(k) = B!Kind(m)
    <3>1. one = {1} /\ two = {1} \cup {2}
      BY <2>1
    <3>2. Cardinality(one) = 1
      BY <3>1, FS_Singleton
    <3>3. Cardinality(two) = 2
      <4>1. IsFiniteSet({1}) /\ Cardinality({1}) = 1 /\ 2 \notin {1}
        BY FS_Singleton
      <4>2. Cardinality({1} \cup {2}) = 2
        BY <4>1, FS_AddElement
      <4> QED BY <3>1, <4>2
    <3> HIDE DEF one, two
    <3> QED BY <3>2, <3>3
  <2>2. CASE B!Kind(k) # B!Kind(m)
    BY <2>2
  <2> QED BY <2>1, <2>2
<1>3. {a, b} = {a} \cup {b} /\ IsFiniteSet({a}) /\ Cardinality({a}) = 1
  BY FS_Singleton
<1> HIDE DEF a, b
<1>4. Cardinality({a} \cup {b}) = 2
  BY <1>2, <1>3, FS_AddElement
<1> QED BY <1>1, <1>3, <1>4

LEMMA TotalOfTwo ==
    ASSUME NEW p, NEW k, NEW m, B!KidQty(p, k) \in Int, B!KidQty(p, m) \in Int
    PROVE  B!Total(p, <<k, m>>) = B!KidQty(p, k) + B!KidQty(p, m)
<1> DEFINE kids == <<k, m>>
           Step(f, s) == IF s = {} THEN 0
                         ELSE LET x == CHOOSE y \in s : TRUE IN B!KidQty(p, kids[x]) + f[s \ {x}]
           iter == CHOOSE f : f = [s \in SUBSET DOMAIN kids |-> Step(f, s)]
<1>1. B!Total(p, kids) = iter[DOMAIN kids]
  BY Zenon DEF B!Total, B!FoldFunction, B!FoldFunctionOnSet, B!MapThenFoldSet
<1>2. DOMAIN kids = {1, 2} /\ kids[1] = k /\ kids[2] = m
  OBVIOUS
<1> DEFINE g == [s \in SUBSET {1, 2} |->
                   IF s = {} THEN 0 ELSE IF s = {1} THEN B!KidQty(p, k)
                   ELSE IF s = {2} THEN B!KidQty(p, m) ELSE B!KidQty(p, k) + B!KidQty(p, m)]
<1> HIDE DEF kids
<1>3. \A s \in SUBSET {1, 2} : s = {} \/ s = {1} \/ s = {2} \/ s = {1, 2}
  OBVIOUS
<1>4. ASSUME NEW s \in SUBSET {1, 2} PROVE g[s] = Step(g, s)
  <2>1. CASE s = {}
    BY <2>1
  <2>2. CASE s # {}
    <3> DEFINE x == CHOOSE y \in s : TRUE
    <3>1. x \in s
      BY <2>2
    <3> HIDE DEF x
    <3>2. g[s] = B!KidQty(p, kids[x]) + g[s \ {x}]
      <4>1. CASE s = {1}
        BY <3>1, <4>1, <1>2
      <4>2. CASE s = {2}
        BY <3>1, <4>2, <1>2
      <4>3. CASE s = {1, 2} /\ x = 1
        <5>1. s \ {x} = {2}
          BY <4>3
        <5> QED BY <4>3, <5>1, <1>2
      <4>4. CASE s = {1, 2} /\ x = 2
        <5>1. s \ {x} = {1}
          BY <4>4
        <5> QED BY <4>4, <5>1, <1>2
      <4> QED BY <1>3, <2>2, <3>1, <4>1, <4>2, <4>3, <4>4
    <3> QED BY <2>2, <3>2 DEF x
  <2> QED BY <2>1, <2>2
<1>5. g = [s \in SUBSET DOMAIN kids |-> Step(g, s)]
  BY <1>2, <1>4
<1> HIDE DEF g
<1>6. iter = [s \in SUBSET DOMAIN kids |-> Step(iter, s)]
  BY <1>5
<1> HIDE DEF iter
<1>7. \A s \in SUBSET {1, 2} : iter[s] = Step(iter, s)
  BY <1>2, <1>6
<1>8. iter[{}] = 0
  BY <1>7
<1>9. iter[{1}] = B!KidQty(p, k)
  <2>1. (CHOOSE y \in {1} : TRUE) = 1 /\ {1} \ {1} = {}
    OBVIOUS
  <2> QED BY <1>2, <1>7, <1>8, <2>1
<1>10. iter[{2}] = B!KidQty(p, m)
  <2>1. (CHOOSE y \in {2} : TRUE) = 2 /\ {2} \ {2} = {}
    OBVIOUS
  <2>2. iter[{2}] = B!KidQty(p, kids[2]) + iter[{}]
    BY <1>7, <2>1
  <2> QED BY <1>2, <1>8, <2>2
<1>11. iter[{1, 2}] = B!KidQty(p, k) + B!KidQty(p, m)
  <2> DEFINE x == CHOOSE y \in {1, 2} : TRUE
  <2>1. x \in {1, 2}
    OBVIOUS
  <2>2. iter[{1, 2}] = B!KidQty(p, kids[x]) + iter[{1, 2} \ {x}]
    BY <1>7
  <2> HIDE DEF x
  <2>3. CASE x = 1
    <3>1. {1, 2} \ {x} = {2}
      BY <2>3
    <3> QED BY <1>2, <1>10, <2>2, <2>3, <3>1
  <2>4. CASE x = 2
    <3>1. {1, 2} \ {x} = {1}
      BY <2>4
    <3>2. iter[{1, 2}] = B!KidQty(p, m) + B!KidQty(p, k)
      BY <1>2, <1>9, <2>2, <2>4, <3>1
    <3> QED BY <3>2
  <2> QED BY <2>1, <2>3, <2>4
<1>12. iter[DOMAIN kids] = B!KidQty(p, k) + B!KidQty(p, m)
  BY <1>2, <1>11
<1> QED BY <1>1, <1>12 DEF kids

LEMMA KidQtyType ==
    ASSUME NEW p \in Parents, NEW k \in Kids \cup More PROVE B!KidQty(p, k) \in Int
  BY BracketAssumption DEF B!KidQty

LEMMA LegsShown ==
    ASSUME NEW p \in Parents, NEW kids \in KidLists, kids # << >>
    PROVE  /\ Cardinality(B!Labels(kids)) = Len(kids)
           /\ Len(kids) = 2 /\ B!Number(p.qty) /\ B!KidQty(p, kids[1]) + B!KidQty(p, kids[2]) > p.qty
                => B!Discloses(p, kids)
<1>1. CASE \E k \in Kids : kids = <<k>>
  BY <1>1, OneLabel
<1>2. CASE \E k \in Kids, m \in More : kids = <<k, m>>
  <2>1. PICK k \in Kids, m \in More : kids = <<k, m>>
    BY <1>2
  <2>2. B!Total(p, kids) = B!KidQty(p, k) + B!KidQty(p, m)
    BY <2>1, TotalOfTwo, KidQtyType
  <2>3. Len(kids) = 2 /\ kids[1] = k /\ kids[2] = m
    BY <2>1
  <2>4. Cardinality(B!Labels(kids)) = 2
    BY <2>1, TwoLabels
  <2> QED BY <2>2, <2>3, <2>4 DEF B!Discloses
<1> QED BY <1>1, <1>2, KidListIs

LEMMA KidListType == ASSUME NEW kids \in KidLists PROVE Len(kids) \in Nat
<1>1. CASE \E k \in Kids : kids = <<k>>
  BY <1>1
<1>2. CASE \E k \in Kids, m \in More : kids = <<k, m>>
  BY <1>2
<1> QED BY <1>1, <1>2, KidListIs

PairShape ==
    /\ DOMAIN pair = {"at", "parent", "kids", "alone"}
    /\ pair.at \notin {"idle", "live"} => pair.parent \in Parents /\ pair.kids \in KidLists

RulesMet ==
    /\ pair.at \in {"tickets", "gate2", "shown"} => ~B!BuilderRefuses(pair.parent, pair.kids)
    /\ pair.at = "refused" => B!BuilderRefuses(pair.parent, pair.kids)

ScreenKnown ==
    pair.at = "shown" =>
        /\ pair.kids # << >>
        /\ screen.labels = B!Labels(pair.kids) /\ screen.disclosed = B!Discloses(pair.parent, pair.kids)

OneEntryPerLeg ==
    pair.at \in {"answered", "read"} =>
        /\ \A e \in entries : e.leg \in B!Legs /\ e.n = 1 /\ (e.leg = 0 => e.link = "none")
        /\ \A d, e \in entries : d.leg = e.leg => d = e

ProblemsKnown == pair.at = "read" => problems = B!FindsProblems

PairInv == PairShape /\ RulesMet /\ ScreenKnown /\ OneEntryPerLeg /\ ProblemsKnown

LEMMA PairInit == B!Init => PairInv
  BY DEF B!Init, B!NoPair, PairInv, PairShape, RulesMet, ScreenKnown, OneEntryPerLeg, ProblemsKnown

LEMMA ShowKeeps ==
    ASSUME NEW p \in Parents, NEW kids \in KidLists, NEW alone, B!Show(p, kids, alone)
    PROVE  PairInv'
<1> USE DEF PairInv, PairShape, RulesMet, ScreenKnown, OneEntryPerLeg, ProblemsKnown
<1>1. CASE B!DialogRefuses(p, kids)
  <2>1. pair' = [at |-> "refused", parent |-> p, kids |-> kids, alone |-> alone]
    BY <1>1 DEF B!Show
  <2>2. B!BuilderRefuses(p, kids)
    BY <1>1, RulesAlike
  <2> QED BY <2>1, <2>2
<1>2. CASE ~B!DialogRefuses(p, kids)
  <2>1. /\ pair' = [at |-> "shown", parent |-> p, kids |-> kids, alone |-> alone]
        /\ screen' = [labels |-> B!Labels(kids), disclosed |-> B!Discloses(p, kids)]
    BY <1>2 DEF B!Show
  <2>2. ~B!BuilderRefuses(p, kids) /\ kids # << >>
    BY <1>2, RulesAlike DEF B!DialogRefuses
  <2> QED BY <2>1, <2>2
<1> QED BY <1>1, <1>2

LEMMA PairStep == ~Restated /\ PairInv /\ [B!Next]_(B!vars) => PairInv'
<1> SUFFICES ASSUME ~Restated, PairInv, [B!Next]_(B!vars) PROVE PairInv'
  OBVIOUS
<1> USE DEF PairInv, PairShape, RulesMet, ScreenKnown, OneEntryPerLeg, ProblemsKnown
<1>1. CASE B!Tickets
  <2>1. PICK p \in Parents, k \in Kids, n \in 0..2, m \in More :
          pair' = [at |-> IF B!BuilderRefuses(p, SubSeq(<<k, m>>, 1, n)) THEN "refused" ELSE "tickets",
                   parent |-> p, kids |-> SubSeq(<<k, m>>, 1, n), alone |-> FALSE]
    BY <1>1 DEF B!Tickets
  <2> DEFINE kids == SubSeq(<<k, m>>, 1, n)
  <2>2. kids \in KidLists
    BY DEF KidLists
  <2> HIDE DEF kids
  <2>3. pair' = [at |-> IF B!BuilderRefuses(p, kids) THEN "refused" ELSE "tickets",
                 parent |-> p, kids |-> kids, alone |-> FALSE]
    BY <2>1 DEF kids
  <2> QED BY <2>2, <2>3
<1>2. CASE B!TouchID
  BY <1>2 DEF B!TouchID, B!NoPair
<1>3. CASE B!Gate2
  BY <1>3, ShowKeeps DEF B!Gate2
<1>4. CASE B!Gate2Alone
  <2>1. PICK p \in Parents, k \in Kids, n \in 0..2, m \in More : B!Show(p, SubSeq(<<k, m>>, 1, n), TRUE)
    BY <1>4 DEF B!Gate2Alone
  <2>2. SubSeq(<<k, m>>, 1, n) \in KidLists
    BY DEF KidLists
  <2> QED BY <2>1, <2>2, ShowKeeps
<1>5. CASE B!Decides
  BY <1>5 DEF B!Decides, B!NoPair
<1>6. CASE B!IbkrAnswers
  <2>1. pair' = [pair EXCEPT !.at = "answered"] /\ pair.at = "sent"
    BY <1>6 DEF B!IbkrAnswers
  <2>2. PICK times \in [B!Legs -> 0..B!Copies], link \in [B!Legs -> {"none", "parent", "other"}] :
          /\ link[0] = "none"
          /\ entries' \subseteq {[leg |-> l, n |-> n, link |-> link[l]] : l \in B!Legs, n \in 1..B!Copies}
    BY <1>6 DEF B!IbkrAnswers
  <2>3. B!Copies = 1 /\ B!Legs' = B!Legs
    BY <2>1 DEF B!Copies, B!Legs
  <2>4. \A e \in entries' : e.leg \in B!Legs /\ e = [leg |-> e.leg, n |-> 1, link |-> link[e.leg]]
    BY <2>2, <2>3
  <2> QED BY <2>1, <2>2, <2>3, <2>4
<1>7. CASE B!ReadBack
  <2>1. pair' = [pair EXCEPT !.at = "read"] /\ pair.at = "answered" /\ entries' = entries /\ problems' = B!FindsProblems
    BY <1>7 DEF B!ReadBack
  <2>2. B!FindsProblems' = B!FindsProblems /\ B!Legs' = B!Legs
    BY <2>1 DEF B!FindsProblems, B!Others, B!ParentEntry, B!Legs
  <2> QED BY <2>1, <2>2
<1>8. CASE B!Live
  BY <1>8 DEF B!Live, B!NoPair
<1>9. CASE B!Fills \/ B!Modify \/ B!StatusUnread \/ B!ReadOrder \/ B!ReadParent \/ B!Confirmed \/ UNCHANGED B!vars
  <2>1. UNCHANGED B!asked
    BY <1>9 DEF B!Fills, B!Modify, B!StatusUnread, B!ReadOrder, B!ReadParent, B!Confirmed, B!Changing, B!vars
  <2> QED BY <2>1 DEF B!asked, B!FindsProblems, B!Others, B!ParentEntry, B!Legs
<1> QED BY <1>1, <1>2, <1>3, <1>4, <1>5, <1>6, <1>7, <1>8, <1>9 DEF B!Next

\* As many attached entries as children, one for a leg at most: one for each.
LEMMA AllAttached ==
    ASSUME PairInv, pair.at = "read", ~problems
    PROVE  B!Attached /\ \A e \in entries : e.leg # 0 => e.link = "parent"
<1> DEFINE children == {e \in B!Others : B!IsChild(e)}
           N == Len(pair.kids)
           f == [e \in children |-> e.leg]
<1>1. ~B!FindsProblems /\ N \in Nat
  BY KidListType DEF PairInv, PairShape, ProblemsKnown
<1>2. /\ B!ParentEntry # {} /\ Cardinality(children) = N
      /\ \A e \in B!Others : B!IsChild(e)
  BY <1>1, SameCount DEF B!FindsProblems
<1>3. \A e \in entries : e.leg # 0 => e.link = "parent"
  BY <1>2 DEF B!Others, B!ParentEntry, B!IsChild
<1>4. \A e \in children : e.leg \in 1..N
  BY <1>1 DEF PairInv, OneEntryPerLeg, B!Others, B!ParentEntry, B!IsChild, B!Legs
<1>5. f \in Injection(children, 1..N)
  <2>1. \A d, e \in children : f[d] = f[e] => d = e
    BY DEF PairInv, OneEntryPerLeg, B!Others
  <2>2. f \in [children -> 1..N]
    BY <1>4
  <2> HIDE DEF f, children
  <2> QED BY <2>1, <2>2 DEF Injection, IsInjective
<1>6. IsFiniteSet(1..N) /\ Cardinality(1..N) = N
  BY <1>1, FS_Interval
<1> HIDE DEF f, children, N
<1>7. f \in Surjection(children, 1..N)
  BY <1>2, <1>5, <1>6, FS_Injection
<1>8. \A l \in 1..N : \E e \in children : e.leg = l
  BY <1>7 DEF Surjection, f
<1>9. \A l \in B!Legs \ {0} : \E e \in entries : e.leg = l /\ e.link = "parent"
  BY <1>1, <1>8 DEF children, B!Others, B!IsChild, B!Legs, N
<1> QED BY <1>2, <1>3, <1>9 DEF B!Attached

LEMMA BracketHonest == PairInv => B!RulesAgree /\ B!EveryLegShown /\ B!OkMeansAttached
<1> SUFFICES ASSUME PairInv PROVE B!RulesAgree /\ B!EveryLegShown /\ B!OkMeansAttached
  OBVIOUS
<1>1. B!RulesAgree
  BY DEF PairInv, RulesMet, B!RulesAgree
<1>2. B!EveryLegShown
  BY LegsShown, SameCount DEF PairInv, PairShape, ScreenKnown, B!EveryLegShown
<1>3. B!OkMeansAttached
  BY AllAttached DEF B!OkMeansAttached
<1> QED BY <1>1, <1>2, <1>3

(* A bracket is refused alike before and behind Touch ID, every leg of it   *)
(* is on the screen, and it is called good only if every leg is attached    *)
(* (_bracket_tickets, confirm_bracket_dialog, pair_bracket_response), if    *)
(* IBKR's answer names each order once.                                     *)
THEOREM BracketIsAsShown == ~Restated => (Spec => []BracketAsShown)
<1> SUFFICES ASSUME ~Restated PROVE Spec => []BracketAsShown
  OBVIOUS
<1>1. PairInv /\ [B!Next]_(B!vars) => PairInv'
  BY PairStep
<1>2. PairInv => BracketAsShown
  BY BracketHonest DEF BracketAsShown
<1> QED BY PairInit, BracketPart, <1>1, <1>2, PTL DEF Spec

(* However the parent fills while the dialog waits, a modify makes a child  *)
(* larger than the fill only where the dialog said that this was not        *)
(* checked, or where the parent had filled nothing when it was read         *)
(* (_refuse_child_larger_than_parent_fill).                                 *)
THEOREM ChildWithinFill == Spec => WithinFillRead
<1>1. FillInv /\ [B!Next]_(B!vars) =>
        [B!Confirmed /\ size' > size => size' <= fill \/ change.told \/ change.held]_(B!vars)
  BY GrowsToFill
<1> QED BY FillInit, FillStep, BracketPart, <1>1, PTL DEF Spec, WithinFillRead, B!WithinFillRead

(***************************************************************************)
(* The alerts that IBKR keeps (ServerAlerts, claude_tools.py).             *)
(***************************************************************************)
ConditionLike == [{"operator", "value"} -> Operators \cup Prices]

\* What the endpoint stores and what a body holds, so far as the properties tell.
AlertLike(a) ==
    /\ DOMAIN a = {"name", "tif", "expire", "conds", "active"}
    /\ a.conds \in Seq(ConditionLike) /\ a.conds # << >>
    /\ a.tif = "GTD" => a.expire # None

BodyLike(b) ==
    /\ b.conds \in Seq(ConditionLike) /\ b.conds # << >>
    /\ ~A!LacksExpiry(b)

CallShape ==
    /\ DOMAIN alerts = Ids /\ \A i \in A!Alive : AlertLike(alerts[i])
    /\ DOMAIN alertsCall = {"op", "at", "id", "patch", "body", "tries", "fresh"} /\ alertsCall.tries \in Nat
    /\ alertsCall.at \in {"idle", "read", "write"}
    /\ alertsCall.at = "read" => alertsCall.op = "modify"
    /\ alertsCall.op = "modify" /\ alertsCall.at # "idle" => alertsCall.id \in Ids /\ alertsCall.patch \in A!Patches
    /\ alertsCall.op \in {"create", "modify"} /\ alertsCall.at = "write" => BodyLike(alertsCall.body)

\* What is about to be written is the alert as it is, but for the patch.
BodyIsPatched ==
    alertsCall.op = "modify" /\ alertsCall.at = "write" =>
        /\ alertsCall.body.orderId = alertsCall.id
        /\ alertsCall.fresh /\ alertsCall.tries = 0 /\ alertsCall.id \in A!Alive =>
             alertsCall.body = A!Patched(A!Translated(alertsCall.id, alerts[alertsCall.id]), alertsCall.patch)

PatchInv == CallShape /\ BodyIsPatched

LEMMA PatchInit == A!Init => PatchInv
  BY DEF A!Init, A!Idle, PatchInv, CallShape, BodyIsPatched, A!Alive

LEMMA PatchType == \A p \in A!Patches :
    /\ "value" \in DOMAIN p => p["value"] \in Prices
    /\ "operator" \in DOMAIN p => p["operator"] \in Operators
  BY DEF A!Patches

LEMMA ReplaceFirst ==
    ASSUME NEW Elems, NEW s \in Seq(Elems), s # << >>, NEW e \in Elems
    PROVE  /\ A!ReplaceAt(s, 1, e) \in Seq(Elems) /\ A!ReplaceAt(s, 1, e) # << >>
           /\ Tail(A!ReplaceAt(s, 1, e)) = Tail(s)
<1> DEFINE r == [s EXCEPT ![1] = e]
<1>1. A!ReplaceAt(s, 1, e) = r
  BY DEF A!ReplaceAt
<1>2. r \in Seq(Elems) /\ Len(r) = Len(s)
  BY ExceptSeq
<1>3. Len(s) \in Nat /\ Len(s) # 0
  OBVIOUS
<1>4. r # << >>
  BY <1>2, <1>3
<1>5. /\ Tail(r) \in Seq(Elems) /\ Len(Tail(r)) = Len(s) - 1
      /\ \A i \in 1..Len(s) - 1 : Tail(r)[i] = r[i + 1]
      /\ Tail(s) \in Seq(Elems) /\ Len(Tail(s)) = Len(s) - 1
      /\ \A i \in 1..Len(s) - 1 : Tail(s)[i] = s[i + 1]
  BY <1>2, <1>3, <1>4, HeadTailProperties
<1>6. \A i \in 1..Len(s) - 1 : r[i + 1] = s[i + 1]
  BY <1>3
<1>7. Tail(r) = Tail(s)
  BY <1>5, <1>6, SeqEqual
<1> QED BY <1>1, <1>2, <1>4, <1>7

LEMMA PatchedKeeps ==
    ASSUME NEW b, b.conds \in Seq(ConditionLike), b.conds # << >>, NEW p \in A!Patches
    PROVE  /\ A!Patched(b, p).conds \in Seq(ConditionLike) /\ A!Patched(b, p).conds # << >>
           /\ Tail(A!Patched(b, p).conds) = Tail(b.conds)
           /\ A!Patched(b, p).orderId = b.orderId
           /\ "name" \notin DOMAIN p => A!Patched(b, p).name = b.name
           /\ "tif" \notin DOMAIN p => A!Patched(b, p).tif = b.tif
           /\ "expire" \notin DOMAIN p => A!Patched(b, p).expire = b.expire
<1> DEFINE first == [f \in {"operator", "value"} |-> IF f \in DOMAIN p THEN p[f] ELSE b.conds[1][f]]
           Field(f) == IF f \in DOMAIN p THEN p[f] ELSE b[f]
<1>1. A!Patched(b, p) = [name |-> Field("name"), tif |-> Field("tif"), expire |-> Field("expire"),
                       conds |-> A!ReplaceAt(b.conds, 1, first), orderId |-> b.orderId]
  BY DEF A!Patched
<1>2. first \in ConditionLike
  <2>1. b.conds[1] \in ConditionLike
    OBVIOUS
  <2> QED BY <2>1, PatchType DEF ConditionLike
<1> HIDE DEF first
<1>3. /\ A!ReplaceAt(b.conds, 1, first) \in Seq(ConditionLike) /\ A!ReplaceAt(b.conds, 1, first) # << >>
      /\ Tail(A!ReplaceAt(b.conds, 1, first)) = Tail(b.conds)
  BY <1>2, ReplaceFirst
<1> QED BY <1>1, <1>3

LEMMA TranslatedIs ==
    ASSUME NEW i, NEW a
    PROVE  /\ A!Translated(i, a).conds = a.conds /\ A!Translated(i, a).orderId = i
           /\ A!Translated(i, a).name = a.name /\ A!Translated(i, a).tif = a.tif /\ A!Translated(i, a).expire = a.expire
  BY DEF A!Translated

LEMMA ConditionsAlike == Seq(A!Conditions) \subseteq Seq(ConditionLike)
<1>1. A!Conditions \subseteq ConditionLike
  BY DEF A!Conditions, ConditionLike
<1> QED BY <1>1

LEMMA IdleCall == A!Idle.at = "idle" /\ DOMAIN A!Idle = {"op", "at", "id", "patch", "body", "tries", "fresh"} /\ A!Idle.tries = 0
  BY DEF A!Idle

LEMMA AnswersKeep ==
    ASSUME NEW what, A!Answers(what), DOMAIN alerts' = Ids, \A i \in A!Alive' : AlertLike(alerts'[i])
    PROVE  PatchInv'
  BY IdleCall DEF A!Answers, PatchInv, CallShape, BodyIsPatched

LEMMA BeginKeeps ==
    ASSUME PatchInv, NEW op \in {"modify", "delete", "activate"}, NEW at \in {"read", "write"}, NEW i \in Ids, NEW p,
           op = "modify" => at = "read" /\ p \in A!Patches, at = "read" => op = "modify", A!Begin(op, at, i, p)
    PROVE  PatchInv'
<1>1. /\ alertsCall'.op = op /\ alertsCall'.at = at /\ alertsCall'.id = i /\ alertsCall'.patch = p /\ alertsCall'.tries = 0
      /\ DOMAIN alertsCall' = {"op", "at", "id", "patch", "body", "tries", "fresh"} /\ alerts' = alerts
  BY DEF A!Begin, A!Idle
<1> QED BY <1>1 DEF PatchInv, CallShape, BodyIsPatched, A!Alive

LEMMA CreateKeeps == ASSUME PatchInv, A!BeginCreate PROVE PatchInv'
<1>1. PICK n \in Names, t \in {"GTC", "GTD"}, e \in Expiries \cup {None}, c \in A!Conditions :
        LET body == [name |-> n, tif |-> t, expire |-> e, conds |-> <<c>>, orderId |-> 0]
        IN  /\ IF A!LacksExpiry(body) THEN A!Answers("needs_expiry")
               ELSE alertsCall' = [A!Idle EXCEPT !.op = "create", !.at = "write", !.body = body]
            /\ alerts' = alerts
  BY DEF A!BeginCreate
<1> DEFINE body == [name |-> n, tif |-> t, expire |-> e, conds |-> <<c>>, orderId |-> 0]
<1>2. CASE A!LacksExpiry(body)
  BY <1>1, <1>2, AnswersKeep DEF PatchInv, CallShape, A!Alive
<1>3. CASE ~A!LacksExpiry(body)
  <2>1. BodyLike(body)
    <3>1. <<c>> \in Seq(ConditionLike) /\ <<c>> # << >>
      BY DEF A!Conditions, ConditionLike
    <3> QED BY <1>3, <3>1 DEF BodyLike
  <2>2. alertsCall' = [A!Idle EXCEPT !.op = "create", !.at = "write", !.body = body]
    BY <1>1, <1>3
  <2> HIDE DEF body
  <2>3. /\ alertsCall'.op = "create" /\ alertsCall'.at = "write" /\ alertsCall'.body = body /\ alertsCall'.tries = 0
        /\ DOMAIN alertsCall' = {"op", "at", "id", "patch", "body", "tries", "fresh"}
    BY <2>2 DEF A!Idle
  <2>4. alerts' = alerts
    BY <1>1
  <2> QED BY <2>1, <2>3, <2>4 DEF PatchInv, CallShape, BodyIsPatched, A!Alive
<1> QED BY <1>2, <1>3

LEMMA ReadKeeps == ASSUME PatchInv, A!Read PROVE PatchInv'
<1>1. alerts' = alerts /\ alertsCall.id \in Ids /\ alertsCall.patch \in A!Patches
  BY DEF A!Read, PatchInv, CallShape
<1> DEFINE body == A!Patched(A!Translated(alertsCall.id, alerts[alertsCall.id]), alertsCall.patch)
<1>2. CASE alerts[alertsCall.id] = None \/ A!LacksExpiry(body)
  BY <1>1, <1>2, AnswersKeep DEF A!Read, PatchInv, CallShape, A!Alive
<1>3. CASE alerts[alertsCall.id] # None /\ ~A!LacksExpiry(body)
  <2>1. alertsCall' = [alertsCall EXCEPT !.at = "write", !.body = body, !.fresh = TRUE]
    BY <1>3 DEF A!Read
  <2>2. AlertLike(alerts[alertsCall.id])
    BY <1>1, <1>3 DEF PatchInv, CallShape, A!Alive
  <2>3. BodyLike(body) /\ body.orderId = alertsCall.id
    BY <1>1, <1>3, <2>2, PatchedKeeps, TranslatedIs DEF AlertLike, BodyLike
  <2> HIDE DEF body
  <2>4. /\ alertsCall'.op = alertsCall.op /\ alertsCall'.at = "write" /\ alertsCall'.id = alertsCall.id /\ alertsCall'.patch = alertsCall.patch
        /\ alertsCall'.body = body /\ alertsCall'.tries = alertsCall.tries
        /\ DOMAIN alertsCall' = {"op", "at", "id", "patch", "body", "tries", "fresh"}
    BY <2>1 DEF PatchInv, CallShape
  <2>5. BodyIsPatched'
    BY <1>1, <2>3, <2>4 DEF BodyIsPatched, body
  <2>6. CallShape'
    BY <1>1, <2>3, <2>4 DEF A!Read, PatchInv, CallShape, A!Alive
  <2> QED BY <2>5, <2>6 DEF PatchInv
<1> QED BY <1>2, <1>3

LEMMA AnsweredKeeps ==
    ASSUME PatchInv, alertsCall.at # "idle", A!Answered, DOMAIN alerts' = Ids, \A i \in A!Alive' : AlertLike(alerts'[i])
    PROVE  PatchInv'
<1>1. CASE A!Answers("done") \/ A!Answers("error")
  BY <1>1, AnswersKeep
<1>2. CASE alertsCall' = [alertsCall EXCEPT !.tries = @ + 1]
  <2>1. /\ alertsCall'.op = alertsCall.op /\ alertsCall'.at = alertsCall.at /\ alertsCall'.id = alertsCall.id /\ alertsCall'.patch = alertsCall.patch
        /\ alertsCall'.body = alertsCall.body /\ alertsCall'.tries \in Nat /\ alertsCall'.tries # 0
        /\ DOMAIN alertsCall' = {"op", "at", "id", "patch", "body", "tries", "fresh"}
    BY <1>2 DEF PatchInv, CallShape
  <2>2. BodyIsPatched'
    BY <2>1 DEF PatchInv, BodyIsPatched
  <2>3. CallShape'
    BY <2>1 DEF PatchInv, CallShape, A!Alive
  <2> QED BY <2>2, <2>3 DEF PatchInv
<1> QED BY <1>1, <1>2 DEF A!Answered

LEMMA StoredIs ==
    ASSUME NEW b, BodyLike(b), NEW on
    PROVE  /\ AlertLike(A!Stored(b)) /\ AlertLike([A!Stored(b) EXCEPT !.active = on])
           /\ [A!Stored(b) EXCEPT !.active = on].active = on
           /\ \A a \in {A!Stored(b), [A!Stored(b) EXCEPT !.active = on]} :
                a.name = b.name /\ a.tif = b.tif /\ a.expire = b.expire /\ a.conds = b.conds
  BY DEF A!Stored, AlertLike, BodyLike, A!LacksExpiry

LEMMA WriteKeeps == ASSUME PatchInv, A!Write PROVE PatchInv'
<1> DEFINE b == alertsCall.body
<1>1. BodyLike(b) /\ alertsCall.at = "write" /\ A!Answered
  BY DEF A!Write, PatchInv, CallShape
<1>2. DOMAIN alerts = Ids /\ \A i \in A!Alive : AlertLike(alerts[i])
  BY DEF PatchInv, CallShape
<1> HIDE DEF b
<1>3. DOMAIN alerts' = Ids /\ \A i \in A!Alive' : AlertLike(alerts'[i])
  <2>1. CASE \E i \in Ids \ A!Alive : alerts' = [alerts EXCEPT ![i] = A!Stored(b)]
    <3>1. AlertLike(A!Stored(b))
      BY <1>1, StoredIs
    <3> QED BY <1>2, <2>1, <3>1 DEF A!Alive
  <2>2. CASE b.orderId \in A!Alive /\ alerts' = [alerts EXCEPT ![b.orderId] = [A!Stored(b) EXCEPT !.active = alerts[b.orderId].active]]
    <3> DEFINE a == [A!Stored(b) EXCEPT !.active = alerts[b.orderId].active]
    <3>1. AlertLike(a)
      BY <1>1, StoredIs
    <3>2. alerts' = [alerts EXCEPT ![b.orderId] = a]
      BY <2>2
    <3> HIDE DEF a
    <3> QED BY <1>2, <2>2, <3>1, <3>2 DEF A!Alive
  <2>3. CASE UNCHANGED alerts
    BY <1>2, <2>3 DEF A!Alive
  <2> QED BY <2>1, <2>2, <2>3 DEF A!Write, b
<1> QED BY <1>1, <1>3, AnsweredKeeps

LEMMA SwitchKeeps == ASSUME PatchInv, A!Delete \/ A!Activate PROVE PatchInv'
<1>1. DOMAIN alerts = Ids /\ \A i \in A!Alive : AlertLike(alerts[i])
  BY DEF PatchInv, CallShape
<1>2. alertsCall.at # "idle" /\ A!Answered
  BY DEF A!Delete, A!Activate
<1>3. DOMAIN alerts' = Ids /\ \A i \in A!Alive' : AlertLike(alerts'[i])
  <2>1. CASE A!Delete
    BY <1>1, <2>1 DEF A!Delete, A!Alive
  <2>2. CASE A!Activate /\ alertsCall.id \notin A!Alive
    BY <1>1, <2>2 DEF A!Activate, A!Alive
  <2>3. CASE A!Activate /\ alertsCall.id \in A!Alive
    <3> DEFINE a == [alerts[alertsCall.id] EXCEPT !.active = alertsCall.patch.active]
    <3>1. alerts' = [alerts EXCEPT ![alertsCall.id] = a]
      BY <2>3 DEF A!Activate
    <3>2. AlertLike(a)
      BY <1>1, <2>3 DEF AlertLike
    <3> HIDE DEF a
    <3> QED BY <1>1, <2>3, <3>1, <3>2 DEF A!Alive
  <2> QED BY <2>1, <2>2, <2>3
<1> QED BY <1>2, <1>3, AnsweredKeeps

\* An edit on the phone of the alert that is about to be written makes it stale.
LEMMA PhoneKeeps == ASSUME PatchInv, A!Edit \/ A!Discard PROVE PatchInv'
<1>1. PICK i \in Ids, a \in Phoned \cup {None} :
        /\ alerts' = [alerts EXCEPT ![i] = a] /\ alertsCall' = [alertsCall EXCEPT !.fresh = @ /\ i # alertsCall.id]
        /\ a = None \/ AlertLike(a)
  <2>1. CASE A!Edit
    <3>1. \A a \in Phoned : AlertLike(a)
      BY AlertsAssumption, ConditionsAlike DEF AlertLike
    <3> QED BY <2>1, <3>1 DEF A!Edit
  <2>2. CASE A!Discard
    BY <2>2 DEF A!Discard, A!Alive
  <2> QED BY <2>1, <2>2
<1>2. /\ alertsCall'.op = alertsCall.op /\ alertsCall'.at = alertsCall.at /\ alertsCall'.id = alertsCall.id /\ alertsCall'.patch = alertsCall.patch
      /\ alertsCall'.body = alertsCall.body /\ alertsCall'.tries = alertsCall.tries /\ alertsCall'.fresh = (alertsCall.fresh /\ i # alertsCall.id)
      /\ DOMAIN alertsCall' = {"op", "at", "id", "patch", "body", "tries", "fresh"}
  BY <1>1 DEF PatchInv, CallShape
<1>3. CallShape'
  BY <1>1, <1>2 DEF PatchInv, CallShape, A!Alive
<1>4. BodyIsPatched'
  BY <1>1, <1>2 DEF PatchInv, CallShape, BodyIsPatched, A!Alive
<1> QED BY <1>3, <1>4 DEF PatchInv

LEMMA PatchStep == PatchInv /\ [A!Next]_(A!vars) => PatchInv'
<1> SUFFICES ASSUME PatchInv, [A!Next]_(A!vars) PROVE PatchInv'
  OBVIOUS
<1>1. CASE A!BeginModify
  <2>1. \E i \in Ids, p \in A!Patches : A!Begin("modify", "read", i, p)
    BY <1>1 DEF A!BeginModify
  <2> QED BY <2>1, BeginKeeps
<1>2. CASE A!BeginDelete \/ A!BeginActivate
  <2>1. CASE A!BeginDelete
    <3>1. \E i \in Ids : A!Begin("delete", "write", i, << >>)
      BY <2>1 DEF A!BeginDelete
    <3> QED BY <3>1, BeginKeeps
  <2>2. CASE A!BeginActivate
    <3>1. \E i \in Ids, on \in BOOLEAN : A!Begin("activate", "write", i, [active |-> on])
      BY <2>2 DEF A!BeginActivate
    <3> QED BY <3>1, BeginKeeps
  <2> QED BY <1>2, <2>1, <2>2
<1>3. CASE A!Blocked \/ A!Fails
  <2>1. alerts' = alerts /\ \E what : A!Answers(what)
    BY <1>3 DEF A!Blocked, A!Fails
  <2> QED BY <2>1, AnswersKeep DEF PatchInv, CallShape, A!Alive
<1>4. CASE UNCHANGED A!vars
  BY <1>4 DEF A!vars, PatchInv, CallShape, BodyIsPatched, A!Alive
<1> QED BY <1>1, <1>2, <1>3, <1>4, CreateKeeps, ReadKeeps, WriteKeeps, SwitchKeeps, PhoneKeeps DEF A!Next, A!ToolStep

LEMMA WritePatches ==
    ASSUME PatchInv, alertsCall.op = "modify", A!Write
    PROVE  /\ \A i \in Ids \ {alertsCall.id} : alerts'[i] = alerts[i]
           /\ alerts[alertsCall.id] = None => alerts'[alertsCall.id] = None
           /\ alertsCall.id \in A!Alive /\ alertsCall.fresh /\ alertsCall.tries = 0 =>
                /\ \A f \in {"name", "tif", "expire", "active"} \ DOMAIN alertsCall.patch :
                      alerts'[alertsCall.id][f] = alerts[alertsCall.id][f]
                /\ Tail(alerts'[alertsCall.id].conds) = Tail(alerts[alertsCall.id].conds)
<1>1. /\ alertsCall.id \in Ids /\ alertsCall.patch \in A!Patches /\ alertsCall.body.orderId = alertsCall.id /\ alertsCall.id # 0
      /\ DOMAIN alerts = Ids /\ BodyLike(alertsCall.body)
  BY AlertsAssumption DEF A!Write, PatchInv, CallShape, BodyIsPatched
<1>2. CASE alertsCall.id \notin A!Alive
  BY <1>1, <1>2 DEF A!Write
<1>3. CASE alertsCall.id \in A!Alive
  <2> DEFINE old == alerts[alertsCall.id]
             new == [A!Stored(alertsCall.body) EXCEPT !.active = old.active]
  <2>1. alerts' = [alerts EXCEPT ![alertsCall.id] = new]
    BY <1>1, <1>3 DEF A!Write
  <2>2. alerts'[alertsCall.id] = new /\ \A i \in Ids \ {alertsCall.id} : alerts'[i] = alerts[i]
    BY <1>1, <2>1
  <2>3. ASSUME alertsCall.fresh, alertsCall.tries = 0
        PROVE  /\ \A f \in {"name", "tif", "expire", "active"} \ DOMAIN alertsCall.patch : new[f] = old[f]
               /\ Tail(new.conds) = Tail(old.conds)
    <3>1. alertsCall.body = A!Patched(A!Translated(alertsCall.id, old), alertsCall.patch)
      BY <1>3, <2>3 DEF A!Write, PatchInv, BodyIsPatched
    <3>2. AlertLike(old)
      BY <1>3 DEF PatchInv, CallShape
    <3>3. /\ Tail(alertsCall.body.conds) = Tail(old.conds)
          /\ "name" \notin DOMAIN alertsCall.patch => alertsCall.body.name = old.name
          /\ "tif" \notin DOMAIN alertsCall.patch => alertsCall.body.tif = old.tif
          /\ "expire" \notin DOMAIN alertsCall.patch => alertsCall.body.expire = old.expire
      BY <1>1, <3>1, <3>2, PatchedKeeps, TranslatedIs DEF AlertLike
    <3> HIDE DEF old
    <3>4. /\ new.active = old.active /\ new.conds = alertsCall.body.conds
          /\ new.name = alertsCall.body.name /\ new.tif = alertsCall.body.tif /\ new.expire = alertsCall.body.expire
      BY DEF A!Stored
    <3> HIDE DEF new
    <3> QED BY <3>3, <3>4
  <2> HIDE DEF new
  <2> QED BY <1>3, <2>2, <2>3 DEF A!Alive
<1> QED BY <1>2, <1>3

(* A modify writes what it read, but for what the patch names, and no       *)
(* sequence of modifies and edits leaves a GTD alert without its date       *)
(* (_modify_price_alert).                                                   *)
THEOREM PatchesKeep == Spec => PatchesKeepAlerts
<1>1. PatchInv /\ [A!Next]_(A!vars) => PatchInv'
  BY PatchStep
<1>2. PatchInv /\ [A!Next]_(A!vars) =>
        [alertsCall.op = "modify" /\ A!Write =>
           /\ \A i \in Ids \ {alertsCall.id} : alerts'[i] = alerts[i]
           /\ alerts[alertsCall.id] = None => alerts'[alertsCall.id] = None
           /\ alertsCall.id \in A!Alive /\ alertsCall.fresh /\ alertsCall.tries = 0 =>
                /\ \A f \in {"name", "tif", "expire", "active"} \ DOMAIN alertsCall.patch :
                      alerts'[alertsCall.id][f] = alerts[alertsCall.id][f]
                /\ Tail(alerts'[alertsCall.id].conds) = Tail(alerts[alertsCall.id].conds)]_(A!vars)
  BY WritePatches
<1>3. PatchInv => A!GtdHasExpiry
  BY DEF PatchInv, CallShape, AlertLike, A!GtdHasExpiry
<1> QED BY PatchInit, AlertsPart, <1>1, <1>2, <1>3, PTL DEF Spec, PatchesKeepAlerts, A!ModifyPatches

(***************************************************************************)
(* The coverage report (TradeCoverage, store.py, claude_tools.py).         *)
(***************************************************************************)
LEMMA MaxIs ==
    ASSUME NEW nats \in SUBSET Nat, nats # {}, NEW b \in Nat, \A s \in nats : s <= b
    PROVE  V!Max(nats) \in nats /\ \A s \in nats : s <= V!Max(nats)
<1>1. \E n \in nats : \A m \in nats : n >= m
  BY GreatestNat
<1> QED BY <1>1 DEF V!Max

RowsInv ==
    /\ clock.day \in Nat /\ DOMAIN clock = {"day", "closed"}
    /\ \A d \in fills : d \in TradingDays /\ d <= clock.day
    /\ rows \subseteq [day : TradingDays, form : {"iso", "compact", "other"}]
    /\ dataset # None => DOMAIN dataset = {"flex", "live"} /\ dataset.flex \subseteq fills

ReportInv ==
    /\ DOMAIN report = {"gaps", "known", "stale", "due"}
    /\ V!GapsAreEmpty /\ V!DueIsStale

LEMMA CoverageInit == V!Init => RowsInv /\ ReportInv
<1> SUFFICES ASSUME V!Init PROVE RowsInv /\ ReportInv
  OBVIOUS
<1>1. RowsInv
  BY DEF V!Init, RowsInv
<1>2. report.stale = None /\ report.due = FALSE /\ DOMAIN report = {"gaps", "known", "stale", "due"}
  BY DEF V!Init, V!NoReport
<1> QED BY <1>1, <1>2 DEF ReportInv, V!GapsAreEmpty, V!DueIsStale

LEMMA RowsStep == RowsInv /\ [V!Next]_(V!vars) => RowsInv'
<1> SUFFICES ASSUME RowsInv, [V!Next]_(V!vars) PROVE RowsInv'
  OBVIOUS
<1> USE CoverageAssumption DEF RowsInv
<1>1. CASE V!Coverage
  BY <1>1 DEF V!Coverage
<1>2. CASE V!Fill
  <2>1. /\ clock' = clock /\ clock.day \in TradingDays /\ fills' = fills \cup {clock.day}
        /\ (\E f \in {"compact", "other"} : V!Live(f)) \/ UNCHANGED <<rows, dataset>>
    BY <1>2 DEF V!Fill
  <2>2. CASE UNCHANGED <<rows, dataset>>
    BY <2>1, <2>2
  <2>3. CASE \E f \in {"compact", "other"} : V!Live(f)
    <3>1. PICK f \in {"compact", "other"} : V!Live(f)
      BY <2>3
    <3>2. rows' = rows \cup {[day |-> clock.day, form |-> f]}
      BY <3>1 DEF V!Live
    <3>3. dataset' # None => dataset # None /\ DOMAIN dataset' = {"flex", "live"} /\ dataset'.flex = dataset.flex
      BY <3>1 DEF V!Live
    <3> QED BY <2>1, <3>2, <3>3
  <2> QED BY <2>1, <2>2, <2>3
<1>3. CASE V!Import
  <2>1. PICK from \in TradingDays :
          LET out == {d \in fills : from <= d /\ d < clock.day}
              old == IF dataset = None THEN [flex |-> {}, live |-> {}] ELSE dataset
          IN  /\ rows' = rows \cup {[day |-> d, form |-> "iso"] : d \in out}
              /\ dataset' = [flex |-> old.flex \cup out, live |-> old.live \ out]
    BY <1>3 DEF V!Import
  <2> DEFINE out == {d \in fills : from <= d /\ d < clock.day}
             old == IF dataset = None THEN [flex |-> {}, live |-> {}] ELSE dataset
  <2>2. UNCHANGED <<clock, fills>> /\ out \subseteq fills /\ old.flex \subseteq fills
    BY <1>3 DEF V!Import
  <2>3. rows' = rows \cup {[day |-> d, form |-> "iso"] : d \in out}
    BY <2>1
  <2>4. dataset' = [flex |-> old.flex \cup out, live |-> old.live \ out]
    BY <2>1
  <2> HIDE DEF out, old
  <2>5. DOMAIN dataset' = {"flex", "live"} /\ dataset'.flex \subseteq fills
    BY <2>2, <2>4
  <2> QED BY <2>2, <2>3, <2>5
<1>4. CASE V!Emptied
  BY <1>4 DEF V!Emptied
<1>5. CASE V!TimePasses
  <2>1. clock'.day \in {clock.day, clock.day + 1} /\ DOMAIN clock' = {"day", "closed"}
    BY <1>5 DEF V!TimePasses
  <2> QED BY <1>5, <2>1 DEF V!TimePasses
<1>6. CASE UNCHANGED V!vars
  BY <1>6 DEF V!vars
<1> QED BY <1>1, <1>2, <1>3, <1>4, <1>5, <1>6 DEF V!Next

LEMMA KnownIsDays == RowsInv => V!Known = V!DaysOf(rows) /\ V!Known \subseteq Int
<1> SUFFICES ASSUME RowsInv PROVE V!Known = V!DaysOf(rows) /\ V!Known \subseteq Int
  OBVIOUS
<1>1. \A r \in rows : r.day \in TradingDays /\ (r.form # "other" <=> r.form \in {"iso", "compact"})
  BY DEF RowsInv
<1>2. V!Known \subseteq Int
  <2>1. \A d \in TradingDays : d \in Int
    BY CoverageAssumption
  <2>2. V!Known \subseteq TradingDays
    BY DEF V!Known
  <2> QED BY <2>1, <2>2
<1>3. V!Known \subseteq V!DaysOf(rows)
  BY <1>1 DEF V!Known, V!DaysOf
<1>4. V!DaysOf(rows) \subseteq V!Known
  BY <1>1 DEF V!Known, V!DaysOf
<1> QED BY <1>2, <1>3, <1>4

LEMMA GapsMeanEmpty ==
    ASSUME NEW days \in SUBSET Int
    PROVE  V!Gaps(days) = {gap \in days \X days :
                            gap[2] > gap[1] + Threshold /\ \A d \in gap[1] + 1 .. gap[2] - 1 : d \notin days}
<1>1. ASSUME NEW a \in days, NEW b \in days
      PROVE  (b - a > Threshold /\ \A d \in days : d <= a \/ d >= b)
             <=> (b > a + Threshold /\ \A d \in a + 1 .. b - 1 : d \notin days)
  BY CoverageAssumption
<1> QED BY <1>1 DEF V!Gaps

\* Two closes are behind us: the last and the one before it are days.
LEMMA PenultimateIs ==
    ASSUME RowsInv, Cardinality(V!Closes) >= 2
    PROVE  V!Penultimate \in Nat
<1>1. V!Closes \subseteq Nat /\ \A d \in V!Closes : d <= clock.day
  <2>1. \A d \in TradingDays : d \in Nat
    BY CoverageAssumption
  <2>2. clock.day \in Nat
    BY DEF RowsInv
  <2> QED BY <2>1, <2>2 DEF V!Closes
<1>2. PICK a \in V!Closes, b \in V!Closes : a < b
  <2>1. V!Closes # {}
    BY FS_EmptySet
  <2>2. PICK a \in V!Closes : TRUE
    BY <2>1
  <2>3. V!Closes # {a}
    BY FS_Singleton
  <2>4. PICK b \in V!Closes : b # a
    BY <2>2, <2>3
  <2> QED BY <1>1, <2>4
<1>3. V!LastTradingDay \in V!Closes /\ \A d \in V!Closes : d <= V!LastTradingDay
  BY <1>1, <1>2, MaxIs DEF RowsInv, V!LastTradingDay
<1> DEFINE earlier == {d \in TradingDays : d < V!LastTradingDay}
<1>4. V!LastTradingDay \in Nat
  BY <1>1, <1>3
<1>5. earlier \subseteq Nat /\ a \in earlier /\ \A d \in earlier : d <= V!LastTradingDay
  <2>1. a \in TradingDays /\ a \in Nat /\ b \in Nat /\ b <= V!LastTradingDay
    BY <1>1, <1>2, <1>3 DEF V!Closes
  <2>2. \A d \in TradingDays : d \in Nat
    BY CoverageAssumption
  <2>3. a < V!LastTradingDay
    BY <1>2, <1>4, <2>1
  <2>4. earlier \subseteq Nat
    BY <2>2
  <2>5. a \in earlier
    BY <2>1, <2>3
  <2>6. \A d \in earlier : d <= V!LastTradingDay
    BY <1>4, <2>2
  <2> QED BY <2>4, <2>5, <2>6
<1> HIDE DEF earlier
<1>6. V!Max(earlier) \in earlier
  BY <1>5, <1>4, MaxIs
<1> QED BY <1>5, <1>6 DEF V!Penultimate, earlier

LEMMA DueMeansStale ==
    ASSUME RowsInv, Cardinality(V!Closes) >= 2, dataset # None, V!Due
    PROVE  V!Stale(TRUE)
<1>1. PICK d \in fills : d <= V!Penultimate /\ \A s \in dataset.flex : s < d
  BY DEF V!Due
<1>2. /\ dataset.flex \subseteq Nat /\ \A s \in dataset.flex \cup {0} : s <= clock.day
      /\ d \in Nat /\ clock.day \in Nat
  <2>1. \A t \in TradingDays : t \in Nat
    BY CoverageAssumption
  <2>2. \A t \in fills : t \in Nat /\ t <= clock.day
    BY <2>1 DEF RowsInv
  <2> QED BY <2>2 DEF RowsInv
<1>3. V!SettledNewest \in dataset.flex \cup {0}
  BY <1>2, MaxIs DEF V!SettledNewest
<1>4. V!SettledNewest = 0 \/ V!SettledNewest < V!Penultimate
  BY <1>1, <1>2, <1>3, PenultimateIs
<1> QED BY <1>4 DEF V!Stale, V!Behind

LEMMA ReportStep == RowsInv /\ ReportInv /\ [V!Next]_(V!vars) => ReportInv'
<1> SUFFICES ASSUME RowsInv, ReportInv, [V!Next]_(V!vars) PROVE ReportInv'
  OBVIOUS
<1>1. CASE V!Coverage
  <2>1. PICK calendar \in BOOLEAN :
         report' = IF V!DaysOf(rows) = {} THEN V!NoReport
                   ELSE [gaps |-> V!Gaps(V!DaysOf(rows)), known |-> V!Known, stale |-> V!Stale(calendar),
                         due |-> calendar /\ dataset # None /\ V!Due]
    BY <1>1 DEF V!Coverage
  <2>2. CASE V!DaysOf(rows) = {}
    <3>1. report'.stale = None /\ report'.due = FALSE /\ DOMAIN report' = {"gaps", "known", "stale", "due"}
      BY <2>1, <2>2 DEF V!NoReport
    <3> QED BY <3>1 DEF ReportInv, V!GapsAreEmpty, V!DueIsStale
  <2>3. CASE V!DaysOf(rows) # {}
    <3>1. /\ report'.gaps = V!Gaps(V!Known) /\ report'.known = V!Known
          /\ report'.stale = V!Stale(calendar) /\ report'.due = (calendar /\ dataset # None /\ V!Due)
          /\ DOMAIN report' = {"gaps", "known", "stale", "due"}
      BY <2>1, <2>3, KnownIsDays
    <3>2. V!GapsAreEmpty'
      <4>1. V!Known \subseteq Int
        BY KnownIsDays
      <4> HIDE DEF V!Known
      <4>2. report'.gaps = {gap \in report'.known \X report'.known :
              gap[2] > gap[1] + Threshold /\ \A d \in gap[1] + 1 .. gap[2] - 1 : d \notin report'.known}
        BY <3>1, <4>1, GapsMeanEmpty
      <4> QED BY <4>2 DEF V!GapsAreEmpty
    <3>3. V!DueIsStale'
      <4>1. Cardinality(V!Closes) >= 2
        BY <1>1, SameCount DEF V!Coverage
      <4>2. calendar /\ dataset # None /\ V!Due => V!Stale(calendar)
        BY <4>1, DueMeansStale
      <4> QED BY <3>1, <4>2 DEF V!DueIsStale
    <3> QED BY <3>1, <3>2, <3>3 DEF ReportInv
  <2> QED BY <2>2, <2>3
<1>2. CASE V!Fill \/ V!Import \/ V!Emptied \/ V!TimePasses \/ UNCHANGED V!vars
  <2>1. report' = report
    BY <1>2 DEF V!Fill, V!Import, V!Emptied, V!TimePasses, V!vars
  <2> QED BY <2>1 DEF ReportInv, V!GapsAreEmpty, V!DueIsStale
<1> QED BY <1>1, <1>2 DEF V!Next

(* A gap in the report has no trade day inside it, and a report that is due *)
(* for an import is flagged as stale (get_trade_date_coverage).             *)
THEOREM ReportIsTrue == Spec => []CoverageTrue
<1>1. ReportInv => CoverageTrue
  BY DEF ReportInv, CoverageTrue
<1> QED BY CoverageInit, CoveragePart, RowsStep, ReportStep, <1>1, PTL DEF Spec

(***************************************************************************)
(* Bars and positions in pages (MarketHistory, client.py).  A window keeps *)
(* the newest bars, so that what arrives is closed towards the present;    *)
(* the cursor stands on the oldest bar that arrived, and everything from   *)
(* it on is there.  A window that is empty at its widest means, if no gap  *)
(* in trading is wider, that nothing lies before the cursor.               *)
(***************************************************************************)
\* Sets of times have a first and a last one.
LEMMA FirstTime ==
    ASSUME NEW s \in SUBSET (-Span..H!Now), s # {}
    PROVE  H!Min(s) \in s /\ \A t \in s : H!Min(s) <= t
<1> USE HistoryAssumption DEF H!Now
<1> DEFINE nats == {t + Span : t \in s}
<1>1. nats \in SUBSET Nat /\ nats # {}
  OBVIOUS
<1>2. PICK n \in nats : \A m \in nats : n <= m
  BY <1>1, LeastNat
<1>3. PICK t \in s : n = t + Span
  OBVIOUS
<1>4. \A u \in s : t + Span <= u + Span
  BY <1>2, <1>3
<1>5. \A u \in s : t <= u
  BY <1>4
<1> QED BY <1>5 DEF H!Min

LEMMA LastTime ==
    ASSUME NEW s \in SUBSET (-Span..H!Now), s # {}
    PROVE  \E t \in s : \A u \in s : u <= t
<1> USE HistoryAssumption DEF H!Now
<1> DEFINE nats == {-t : t \in s}
<1>1. nats \in SUBSET Nat /\ nats # {}
  OBVIOUS
<1>2. PICK n \in nats : \A m \in nats : n <= m
  BY <1>1, LeastNat
<1>3. PICK t \in s : n = -t
  OBVIOUS
<1>4. \A u \in s : -t <= -u
  BY <1>2, <1>3
<1> QED BY <1>4

LEMMA TimesFinite == ASSUME NEW s \in SUBSET (-Span..H!Now) PROVE IsFiniteSet(s)
<1>1. IsFiniteSet(-Span..H!Now)
  BY HistoryAssumption, FS_Interval DEF H!Now
<1> QED BY <1>1, FS_Subset

\* What an answer holds of a window: something if there is something, and all of it from
\* its first bar on.
LEMMA NewestSome ==
    ASSUME NEW s \in SUBSET (-Span..H!Now), s # {}
    PROVE  H!Newest(s) # {}
<1>1. PICK t \in s : \A u \in s : u <= t
  BY LastTime
<1>2. t \in Int /\ \A u \in s : u \in Int
  BY HistoryAssumption DEF H!Now
<1>3. {u \in s : u > t} = {}
  <2>1. \A u \in s : ~(u > t)
    BY <1>1, <1>2
  <2> QED BY <2>1
<1>4. Cardinality({u \in s : u > t}) = 0
  BY <1>3, FS_EmptySet
<1> QED BY <1>4, HistoryAssumption, SameCount DEF H!Newest

LEMMA NewestClosed ==
    ASSUME NEW s \in SUBSET (-Span..H!Now), NEW m \in H!Newest(s), NEW t \in s, m <= t
    PROVE  t \in H!Newest(s)
<1> DEFINE after(x) == {u \in s : u > x}
<1>1. after(t) \subseteq after(m) /\ IsFiniteSet(after(m))
  <2>1. m \in Int /\ t \in Int /\ \A u \in s : u \in Int
    BY HistoryAssumption DEF H!Newest, H!Now
  <2>2. ASSUME NEW u \in s, u > t PROVE u > m
    BY <2>1, <2>2
  <2>3. IsFiniteSet(after(m))
    BY TimesFinite
  <2> QED BY <2>2, <2>3
<1>2. Cardinality(after(t)) <= Cardinality(after(m)) /\ Cardinality(after(m)) < Cap
  BY <1>1, FS_Subset, SameCount DEF H!Newest
<1>3. Cardinality(after(t)) \in Nat /\ Cardinality(after(m)) \in Nat
  BY <1>1, FS_CardinalityType, FS_Subset
<1>4. Cardinality(after(t)) < Cap
  BY <1>2, <1>3, HistoryAssumption
<1> QED BY <1>4, SameCount DEF H!Newest

\* A window with room for all its bars holds them all.
LEMMA NewestAll ==
    ASSUME NEW n \in Nat, n < Cap, NEW s \in SUBSET (-Span..H!Now), \A t \in s : t >= -n
    PROVE  H!Newest(s) = s
<1> SUFFICES ASSUME NEW t \in s PROVE Cardinality({u \in s : u > t}) < Cap
  BY SameCount DEF H!Newest
<1>1. t \in Int /\ t <= 0 /\ t >= -n /\ \A u \in s : u \in Int /\ u <= 0
  BY HistoryAssumption DEF H!Now
<1>2. PICK a \in Int : a = t + 1
  BY <1>1
<1>3. {u \in s : u > t} \subseteq a..0
  <2>1. ASSUME NEW u \in s, u > t PROVE u \in a..0
    BY <1>1, <1>2, <2>1
  <2> QED BY <2>1
<1>4. IsFiniteSet(a..0) /\ Cardinality(a..0) = 0 - t
  <2>1. IsFiniteSet(a..0) /\ Cardinality(a..0) = IF a > 0 THEN 0 ELSE 0 - a + 1
    BY FS_Interval
  <2> QED BY <1>1, <1>2, <2>1
<1>5. Cardinality({u \in s : u > t}) <= 0 - t /\ Cardinality({u \in s : u > t}) \in Nat
  BY <1>3, <1>4, FS_Subset, FS_CardinalityType
<1> QED BY <1>1, <1>5, HistoryAssumption

LEMMA WidthType ==
    ASSUME NEW b \in BarSizes, NEW n \in Nat
    PROVE  H!ChunkDays(b) * b.perDay * 2^n \in Int
<1>1. H!ChunkDays(b) \in Int /\ b.perDay \in Int
  <2>1. (4 * Cap) \div (5 * b.perDay) \in Int
    BY HistoryAssumption
  <2> QED BY <2>1, HistoryAssumption DEF H!ChunkDays, H!Most, H!Least
<1>2. 2^n \in Int
  OBVIOUS
<1> HIDE DEF H!ChunkDays
<1> QED BY <1>1, <1>2

(***************************************************************************)

HistoryShape ==
    /\ historyTraded \in SUBSET (-Span..H!Now)
    /\ DOMAIN walk = {"at", "days", "bar", "attempt", "anchor", "widen", "chunk", "got"}
    /\ walk.at \in {"idle", "ask", "chunk"}
    /\ walk.at # "idle" => walk.bar \in BarSizes /\ walk.days \in Lookbacks
    /\ walk.at = "chunk" => walk.widen \in 0..MaxWidenings /\ walk.anchor \in -Span..H!Open
    /\ DOMAIN historySaid = {"what", "got", "need"}
    /\ empty \in Nat

\* Without an empty answer.
Quiet == empty = 0

\* All bars from the cursor on are there; it stands on a bar as soon as one is.
WalkedAll ==
    walk.at = "chunk" =>
        /\ walk.got = {} => walk.anchor = H!Open
        /\ walk.got # {} => walk.anchor \in historyTraded /\ \A t \in historyTraded : t >= walk.anchor => t \in walk.got

SaidAll == historySaid.what \in {"fetched", "hit", "positions"} => historySaid.need \subseteq historySaid.got
StoredAll == \A k \in DOMAIN stored : H!Needed(k[1], k[2]) \subseteq stored[k]

LEMMA NeededKept == UNCHANGED historyTraded => \A d, b : H!Needed(d, b)' = H!Needed(d, b)
  BY DEF H!Needed, H!Bridged

LEMMA StoredKept ==
    ASSUME StoredAll, UNCHANGED <<historyTraded, stored>>
    PROVE  StoredAll'
<1> SUFFICES ASSUME NEW k \in DOMAIN stored PROVE H!Needed(k[1], k[2])' \subseteq stored[k]
  BY DEF StoredAll
<1>1. H!Needed(k[1], k[2])' = H!Needed(k[1], k[2])
  BY NeededKept
<1> QED BY <1>1 DEF StoredAll

PagesRead ==
    /\ DOMAIN pages = {"at", "held", "page", "previous", "got"}
    /\ pages.held \in Nat /\ pages.page \in Nat
    /\ pages.previous \in Int /\ pages.previous <= PageSize
    /\ pages.at = "read" => pages.got = {i \in 1..pages.held : i <= pages.page * PageSize}

HistoryInv == HistoryShape /\ PagesRead /\ (Quiet => WalkedAll /\ SaidAll /\ StoredAll)

LEMMA HistoryInit == H!Init => HistoryInv
<1> SUFFICES ASSUME H!Init PROVE HistoryInv
  OBVIOUS
<1>1. HistoryShape
  BY DEF H!Init, H!NoWalk, HistoryShape
<1>2. PagesRead
  BY HistoryAssumption DEF H!Init, H!NoPages, PagesRead
<1>3. WalkedAll /\ SaidAll /\ StoredAll
  <2>1. walk.at = "idle" /\ historySaid.what = None /\ DOMAIN stored = {}
    BY DEF H!Init, H!NoWalk
  <2> QED BY <2>1, HistoryAssumption DEF WalkedAll, SaidAll, StoredAll
<1> QED BY <1>1, <1>2, <1>3 DEF HistoryInv

LEMMA NoWalkIs ==
    H!NoWalk.at = "idle" /\ DOMAIN H!NoWalk = {"at", "days", "bar", "attempt", "anchor", "widen", "chunk", "got"}
  BY DEF H!NoWalk

\* An attempt ends: what it got, without a warning, is all that was asked for.
LEMMA AfterWalkKeeps ==
    ASSUME HistoryInv, walk.at # "idle", NEW got, NEW warn \in BOOLEAN, H!AfterWalk(got, warn),
           UNCHANGED <<historyTraded, pages>>, empty' \in Nat, empty' = 0 => empty = 0,
           Quiet /\ empty' = 0 /\ got # {} /\ ~warn => H!Needed(walk.days, walk.bar) \subseteq got
    PROVE  HistoryInv'
<1> USE DEF HistoryInv
<1>1. PagesRead'
  BY DEF PagesRead
<1>2. Quiet' => Quiet /\ empty' = 0
  BY DEF Quiet
<1>3. CASE got # {}
  <2>1. H!Says(IF warn THEN "incomplete" ELSE "fetched", got)
    BY <1>3 DEF H!AfterWalk
  <2>2. /\ walk' = H!NoWalk
        /\ historySaid' = [what |-> IF warn THEN "incomplete" ELSE "fetched", got |-> got, need |-> H!Needed(walk.days, walk.bar)]
    BY <2>1 DEF H!Says
  <2>3. HistoryShape'
    BY <2>2, NoWalkIs DEF HistoryShape
  <2>4. WalkedAll'
    BY <2>2, NoWalkIs DEF WalkedAll
  <2>5. Quiet' => SaidAll'
    BY <1>2, <1>3, <2>2 DEF SaidAll
  <2>6. Quiet' => StoredAll'
    <3>1. CASE warn
      BY <1>2, <1>3, <3>1, StoredKept DEF H!AfterWalk
    <3>2. CASE ~warn
      <4> SUFFICES ASSUME Quiet', NEW k \in DOMAIN stored'
                   PROVE  H!Needed(k[1], k[2]) \subseteq stored'[k]
        BY NeededKept DEF StoredAll
      <4>1. stored' = [j \in DOMAIN stored \cup {H!Key(walk)} |-> IF j = H!Key(walk) THEN got ELSE stored[j]]
        BY <1>3, <3>2 DEF H!AfterWalk
      <4>2. \/ k = H!Key(walk) /\ stored'[k] = got
            \/ k \in DOMAIN stored /\ stored'[k] = stored[k]
        BY <4>1
      <4>3. CASE k = H!Key(walk) /\ stored'[k] = got
        <5>1. H!Needed(walk.days, walk.bar) = H!Needed(k[1], k[2])
          BY <4>3 DEF H!Key
        <5> QED BY <1>2, <1>3, <3>2, <4>3, <5>1
      <4>4. CASE k \in DOMAIN stored /\ stored'[k] = stored[k]
        BY <1>2, <4>4 DEF StoredAll
      <4> QED BY <4>2, <4>3, <4>4
    <3> QED BY <3>1, <3>2
  <2> QED BY <1>1, <2>3, <2>4, <2>5, <2>6
<1>4. CASE got = {} /\ walk.attempt + 1 < Attempts
  <2>1. walk' = [walk EXCEPT !.attempt = @ + 1, !.at = "ask"] /\ UNCHANGED <<stored, historySaid>>
    BY <1>4 DEF H!AfterWalk
  <2>2. HistoryShape' /\ WalkedAll'
    BY <2>1 DEF HistoryShape, WalkedAll
  <2> QED BY <1>1, <1>2, <2>1, <2>2, StoredKept DEF SaidAll
<1>5. CASE got = {} /\ ~(walk.attempt + 1 < Attempts)
  <2>1. H!Says("no_data", {}) /\ UNCHANGED stored
    BY <1>5 DEF H!AfterWalk
  <2>2. walk' = H!NoWalk /\ historySaid' = [what |-> "no_data", got |-> {}, need |-> H!Needed(walk.days, walk.bar)]
    BY <2>1 DEF H!Says
  <2>3. HistoryShape' /\ WalkedAll' /\ SaidAll'
    BY <2>2, NoWalkIs DEF HistoryShape, WalkedAll, SaidAll
  <2> QED BY <1>1, <1>2, <2>1, <2>3, StoredKept
<1> QED BY <1>3, <1>4, <1>5

LEMMA FastPathKeeps == HistoryInv /\ H!FastPath => HistoryInv'
<1> SUFFICES ASSUME HistoryInv, H!FastPath PROVE HistoryInv'
  OBVIOUS
<1> DEFINE n == walk.days * walk.bar.perDay
           win == H!Window(H!Open, n)
<1>1. /\ walk.at = "ask" /\ H!OneCall /\ H!AfterWalk(win, FALSE)
      /\ UNCHANGED <<historyTraded, pages, empty>> /\ historyTraded \in SUBSET (-Span..H!Now)
      /\ walk.bar \in BarSizes /\ walk.days \in Lookbacks /\ empty \in Nat
  BY DEF H!FastPath, H!Answered, HistoryInv, HistoryShape
<1>2. n \in Nat /\ n < Cap
  <2>1. walk.days \in Nat /\ walk.bar.perDay \in Nat /\ Cap \in Nat \ {0}
    BY <1>1, HistoryAssumption
  <2>2. 5 * walk.days * walk.bar.perDay <= 4 * Cap
    BY <1>1 DEF H!OneCall, H!FitsInOneCall
  <2>3. n \in Nat /\ 5 * walk.days * walk.bar.perDay = 5 * n
    BY <2>1
  <2> HIDE DEF n
  <2> QED BY <2>1, <2>2, <2>3
<1>3. H!Needed(walk.days, walk.bar) \subseteq {t \in historyTraded : t >= -n}
  BY DEF H!Needed
<1> HIDE DEF n
<1>4. {t \in historyTraded : t >= H!Least(H!Open, H!Now) - n /\ t < H!Open} = {t \in historyTraded : t >= -n}
  <2>1. H!Least(H!Open, H!Now) = 0 /\ H!Open = 1
    BY DEF H!Now, H!Open, H!Least
  <2>2. \A t \in historyTraded : t \in Int /\ t < 1
    BY <1>1, HistoryAssumption DEF H!Now
  <2> QED BY <1>2, <2>1, <2>2
<1>5. win = {t \in historyTraded : t >= -n}
  BY <1>1, <1>2, <1>4, NewestAll DEF H!Window
<1> HIDE DEF win
<1> QED BY <1>1, <1>3, <1>5, AfterWalkKeeps

\* One pass of the loop: either the cursor reaches the oldest bar of the window, and
\* everything from there on has arrived, or nothing lies within the width asked for.
LEMMA ChunkKeeps == HistoryInv /\ H!Chunk => HistoryInv'
<1> SUFFICES ASSUME HistoryInv, H!Chunk PROVE HistoryInv'
  OBVIOUS
<1> DEFINE width == H!ChunkDays(walk.bar) * walk.bar.perDay * 2^walk.widen
           base == {t \in historyTraded : t >= H!Least(walk.anchor, H!Now) - width /\ t < walk.anchor}
           win == H!Window(walk.anchor, width)
           got == walk.got \cup win
           anchor == IF win = {} THEN walk.anchor ELSE H!NextAnchor(win, width)
           last == walk.chunk + 1 = MaxChunks
           stalled == win # {} /\ walk.anchor # H!Open /\ anchor >= walk.anchor
           reached == win # {} /\ anchor <= H!Target(walk)
           next == [walk EXCEPT !.got = got, !.chunk = @ + 1, !.anchor = H!Most(anchor, -Span),
                                !.widen = IF win = {} THEN @ + 1 ELSE 0]
<1>1. /\ walk.at = "chunk" /\ UNCHANGED <<historyTraded, pages, empty>>
      /\ IF stalled \/ reached \/ (win = {} /\ ~H!Widens) THEN H!AfterWalk(got, FALSE)
         ELSE IF last THEN H!AfterWalk(got, TRUE)
         ELSE walk' = next /\ UNCHANGED <<stored, historySaid>>
  BY DEF H!Chunk, H!Answered
<1>2. /\ HistoryShape /\ PagesRead /\ historyTraded \in SUBSET (-Span..H!Now)
      /\ walk.bar \in BarSizes /\ walk.days \in Lookbacks /\ walk.widen \in 0..MaxWidenings
      /\ walk.anchor \in -Span..H!Open /\ empty \in Nat
      /\ DOMAIN walk = {"at", "days", "bar", "attempt", "anchor", "widen", "chunk", "got"}
  BY <1>1 DEF HistoryInv, HistoryShape
<1>3. width \in Int /\ walk.anchor \in Int /\ -Span \in Int /\ H!Now = 0 /\ H!Open = 1 /\ Span \in Nat
  BY <1>2, WidthType, HistoryAssumption DEF H!Now, H!Open
<1>4. win = H!Newest(base) /\ base \in SUBSET (-Span..H!Now) /\ win \in SUBSET base
  BY <1>2 DEF H!Window, H!Newest
<1>5. Quiet => WalkedAll
  BY DEF HistoryInv
<1>6. H!Target(walk) \in Int
  BY <1>2, HistoryAssumption DEF H!Target
<1>7. win = {} /\ ~H!Widens => width = H!Reach(walk.bar)
  BY <1>2, HistoryAssumption DEF H!Widens, H!Reach
<1> HIDE DEF width
<1>8. CASE win # {}
  <2>1. anchor \in win /\ \A t \in win : anchor <= t
    BY <1>4, <1>8, FirstTime DEF H!NextAnchor
  <2>2. anchor \in historyTraded /\ anchor \in Int /\ anchor >= -Span /\ anchor <= 0
    BY <1>2, <1>3, <1>4, <2>1
  <2>3. ASSUME Quiet, NEW t \in historyTraded, t >= anchor PROVE t \in got
    <3>1. t \in Int /\ t <= 0
      BY <1>2, <1>3
    <3>2. CASE t < walk.anchor
      <4>1. anchor >= H!Least(walk.anchor, H!Now) - width /\ H!Least(walk.anchor, H!Now) \in Int
        BY <1>3, <1>4, <2>1 DEF H!Least
      <4>2. t \in base
        BY <1>3, <2>2, <2>3, <3>1, <3>2, <4>1
      <4> HIDE DEF base, anchor, win
      <4>3. t \in H!Newest(base)
        BY <1>4, <2>1, <2>3, <4>2, NewestClosed
      <4> QED BY <1>4, <4>3
    <3>3. CASE t >= walk.anchor
      BY <1>1, <1>3, <1>5, <2>3, <3>1, <3>3 DEF WalkedAll
    <3> QED BY <1>3, <3>1, <3>2, <3>3
  <2>4. ~stalled
    <3>1. anchor < walk.anchor
      BY <1>4, <2>1
    <3> QED BY <1>3, <2>2, <3>1
  <2>5. Quiet /\ reached => H!Needed(walk.days, walk.bar) \subseteq got
    <3> SUFFICES ASSUME Quiet, reached, NEW t \in historyTraded, t >= H!Target(walk) PROVE t \in got
      BY DEF H!Needed, H!Target
    <3>1. t \in Int /\ anchor <= H!Target(walk)
      BY <1>2, <1>3
    <3> HIDE DEF anchor, win, got, stalled, reached, base
    <3>2. t >= anchor
      BY <1>6, <2>2, <3>1
    <3> QED BY <2>3, <3>2
  <2>6. CASE reached
    <3>1. H!AfterWalk(got, FALSE)
      BY <1>1, <2>6
    <3> HIDE DEF got, reached, win, anchor, stalled
    <3> QED BY <1>1, <1>2, <2>5, <2>6, <3>1, AfterWalkKeeps
  <2>7. CASE ~reached /\ last
    <3>1. H!AfterWalk(got, TRUE)
      BY <1>1, <1>8, <2>4, <2>7
    <3> HIDE DEF got, reached, win, anchor, stalled
    <3> QED BY <1>1, <1>2, <3>1, AfterWalkKeeps
  <2>8. CASE ~reached /\ ~last
    <3>1. walk' = next /\ UNCHANGED <<stored, historySaid>>
      BY <1>1, <1>8, <2>4, <2>8
    <3>2. H!Most(anchor, -Span) = anchor
      BY <1>3, <2>2 DEF H!Most
    <3>3. got # {}
      BY <1>8
    <3> HIDE DEF got, reached, anchor, stalled, last, win
    <3>4. /\ walk'.at = "chunk" /\ walk'.bar = walk.bar /\ walk'.days = walk.days
          /\ walk'.got = got /\ walk'.anchor = anchor /\ walk'.widen = 0
          /\ DOMAIN walk' = {"at", "days", "bar", "attempt", "anchor", "widen", "chunk", "got"}
      BY <1>1, <1>2, <1>8, <3>1, <3>2
    <3>5. HistoryShape'
      BY <1>1, <1>2, <1>3, <2>2, <3>1, <3>4, HistoryAssumption DEF HistoryShape
    <3>6. PagesRead' /\ (Quiet' => Quiet)
      BY <1>1, <1>2 DEF PagesRead, Quiet
    <3>7. Quiet => WalkedAll'
      BY <1>1, <2>2, <2>3, <3>3, <3>4 DEF WalkedAll
    <3>8. Quiet => SaidAll' /\ StoredAll'
      BY <1>1, <3>1, StoredKept DEF HistoryInv, SaidAll
    <3> QED BY <3>5, <3>6, <3>7, <3>8 DEF HistoryInv
  <2> QED BY <2>6, <2>7, <2>8
<1>9. CASE win = {}
  <2>1. base = {}
    BY <1>4, <1>9, NewestSome
  <2>2. got = walk.got /\ anchor = walk.anchor /\ ~stalled /\ ~reached
    BY <1>9
  <2>3. CASE ~H!Widens
    <3>1. H!AfterWalk(got, FALSE)
      BY <1>1, <1>9, <2>3
    <3>2. ASSUME Quiet, got # {} PROVE H!Needed(walk.days, walk.bar) \subseteq got
      <4>1. walk.anchor \in historyTraded /\ \A t \in historyTraded : t >= walk.anchor => t \in walk.got
        BY <1>1, <1>5, <2>2, <3>2 DEF WalkedAll
      <4>2. H!Least(walk.anchor, H!Now) = walk.anchor
        BY <1>2, <1>3, <4>1 DEF H!Least
      <4>3. \A u \in historyTraded : ~(u < walk.anchor /\ u >= walk.anchor - H!Reach(walk.bar))
        BY <1>9, <1>7, <2>1, <2>3, <4>2
      <4>4. ASSUME NEW t \in historyTraded, H!Bridged(walk.bar, t) PROVE t >= walk.anchor
        BY <1>2, <1>3, <4>1, <4>3, <4>4 DEF H!Bridged
      <4> QED BY <2>2, <4>1, <4>4 DEF H!Needed
    <3> HIDE DEF got, reached, win, anchor, stalled
    <3> QED BY <1>1, <1>2, <3>1, <3>2, AfterWalkKeeps
  <2>4. CASE H!Widens /\ last
    <3>1. H!AfterWalk(got, TRUE)
      BY <1>1, <1>9, <2>2, <2>4
    <3> HIDE DEF got, reached, win, anchor, stalled
    <3> QED BY <1>1, <1>2, <3>1, AfterWalkKeeps
  <2>5. CASE H!Widens /\ ~last
    <3>1. walk' = next /\ UNCHANGED <<stored, historySaid>>
      BY <1>1, <1>9, <2>2, <2>5
    <3>2. H!Most(anchor, -Span) = walk.anchor
      BY <1>2, <1>3, <2>2 DEF H!Most
    <3> HIDE DEF got, reached, anchor, stalled, last, win
    <3>3. /\ walk'.at = "chunk" /\ walk'.bar = walk.bar /\ walk'.days = walk.days
          /\ walk'.got = walk.got /\ walk'.anchor = walk.anchor /\ walk'.widen = walk.widen + 1
          /\ DOMAIN walk' = {"at", "days", "bar", "attempt", "anchor", "widen", "chunk", "got"}
      BY <1>1, <1>2, <1>9, <2>2, <3>1, <3>2
    <3>4. HistoryShape'
      BY <1>1, <1>2, <1>3, <2>5, <3>1, <3>3, HistoryAssumption DEF HistoryShape, H!Widens
    <3>5. PagesRead' /\ (Quiet' => Quiet)
      BY <1>1, <1>2 DEF PagesRead, Quiet
    <3>6. Quiet => WalkedAll'
      BY <1>1, <1>5, <3>3 DEF WalkedAll
    <3>7. Quiet => SaidAll' /\ StoredAll'
      BY <1>1, <3>1, StoredKept DEF HistoryInv, SaidAll
    <3> QED BY <3>4, <3>5, <3>6, <3>7 DEF HistoryInv
  <2> QED BY <2>3, <2>4, <2>5
<1> QED BY <1>8, <1>9

LEMMA WalkKeeps == HistoryInv /\ (H!Fetch \/ H!FirstChunk \/ H!NoAnswerYet \/ H!EmptyBody \/ H!ChunkRefused) => HistoryInv'
<1> SUFFICES ASSUME HistoryInv, H!Fetch \/ H!FirstChunk \/ H!NoAnswerYet \/ H!EmptyBody \/ H!ChunkRefused PROVE HistoryInv'
  OBVIOUS
<1>1. CASE H!Fetch
  <2>1. PICK d \in Lookbacks, b \in BarSizes :
          LET w == [H!NoWalk EXCEPT !.at = "ask", !.days = d, !.bar = b]
          IN  IF H!Key(w) \in DOMAIN stored
              THEN /\ historySaid' = [what |-> "hit", got |-> stored[H!Key(w)], need |-> H!Needed(d, b)]
                   /\ UNCHANGED walk
              ELSE walk' = w /\ UNCHANGED historySaid
    BY <1>1 DEF H!Fetch
  <2> DEFINE w == [H!NoWalk EXCEPT !.at = "ask", !.days = d, !.bar = b]
  <2>2. /\ w.at = "ask" /\ w.days = d /\ w.bar = b
        /\ DOMAIN w = {"at", "days", "bar", "attempt", "anchor", "widen", "chunk", "got"}
    BY NoWalkIs
  <2>3. UNCHANGED <<historyTraded, stored, pages, empty>>
    BY <1>1 DEF H!Fetch
  <2>4. PagesRead' /\ (Quiet' => Quiet)
    BY <2>3 DEF HistoryInv, PagesRead, Quiet
  <2>5. CASE H!Key(w) \in DOMAIN stored
    <3>1. historySaid' = [what |-> "hit", got |-> stored[H!Key(w)], need |-> H!Needed(d, b)] /\ walk' = walk
      BY <2>1, <2>5
    <3> HIDE DEF w
    <3>2. HistoryShape'
      BY <2>3, <3>1 DEF HistoryInv, HistoryShape
    <3>3. Quiet => WalkedAll' /\ StoredAll'
      BY <2>3, <3>1, StoredKept DEF HistoryInv, WalkedAll
    <3>4. Quiet => SaidAll'
      <4>1. H!Needed(d, b) = H!Needed(H!Key(w)[1], H!Key(w)[2])
        BY <2>2 DEF H!Key
      <4> HIDE DEF H!Key
      <4>2. Quiet => H!Needed(d, b) \subseteq stored[H!Key(w)]
        BY <2>5, <4>1 DEF HistoryInv, StoredAll
      <4> QED BY <3>1, <4>2 DEF SaidAll
    <3> QED BY <2>4, <3>2, <3>3, <3>4 DEF HistoryInv
  <2>6. CASE H!Key(w) \notin DOMAIN stored
    <3>1. walk' = w /\ UNCHANGED historySaid
      BY <2>1, <2>6
    <3> HIDE DEF w
    <3> QED BY <2>2, <2>3, <2>4, <3>1, StoredKept DEF HistoryInv, HistoryShape, WalkedAll, SaidAll
  <2> QED BY <2>5, <2>6
<1>2. CASE H!FirstChunk
  <2>1. /\ walk.at = "ask"
        /\ walk' = [walk EXCEPT !.at = "chunk", !.anchor = H!Open, !.widen = 0, !.chunk = 0, !.got = {}]
        /\ UNCHANGED <<historyTraded, stored, historySaid, pages, empty>>
    BY <1>2 DEF H!FirstChunk, H!Answered
  <2>2. H!Open \in -Span..H!Open /\ 0 \in 0..MaxWidenings
    BY HistoryAssumption DEF H!Now, H!Open
  <2> QED BY <2>1, <2>2, StoredKept DEF HistoryInv, HistoryShape, PagesRead, Quiet, WalkedAll, SaidAll
<1>3. CASE H!NoAnswerYet \/ H!EmptyBody \/ H!ChunkRefused
  <2>1. /\ walk.at # "idle" /\ \E got : H!AfterWalk(got, FALSE)
        /\ UNCHANGED <<historyTraded, pages>> /\ empty' = empty + 1 /\ empty \in Nat
    BY <1>3 DEF H!NoAnswerYet, H!EmptyBody, H!ChunkRefused, H!Empty, HistoryInv, HistoryShape
  <2>2. empty' \in Nat /\ empty' # 0
    BY <2>1
  <2> QED BY <2>1, <2>2, AfterWalkKeeps
<1> QED BY <1>1, <1>2, <1>3

\* How many positions a page holds.
LEMMA PageFull ==
    ASSUME PagesRead
    PROVE  LET n == pages.page * PageSize IN
           /\ n \in Nat /\ (pages.page + 1) * PageSize = n + PageSize
           /\ H!Page(pages.page) = {i \in 1..pages.held : i > n /\ i <= n + PageSize}
           /\ IsFiniteSet(H!Page(pages.page))
           /\ Cardinality(H!Page(pages.page)) \in Nat /\ Cardinality(H!Page(pages.page)) <= PageSize
           /\ pages.held >= n + PageSize => Cardinality(H!Page(pages.page)) = PageSize
<1> DEFINE n == pages.page * PageSize
           held == H!Page(pages.page)
<1>1. n \in Nat /\ (pages.page + 1) * PageSize = n + PageSize /\ pages.held \in Nat /\ PageSize \in Nat \ {0}
  BY HistoryAssumption DEF PagesRead
<1>2. held = {i \in 1..pages.held : i > n /\ i <= n + PageSize}
  BY <1>1 DEF H!Page
<1> HIDE DEF n
<1>3. IsFiniteSet(n + 1 .. n + PageSize) /\ Cardinality(n + 1 .. n + PageSize) = PageSize
  <2>1. PICK a \in Int, b \in Int : a = n + 1 /\ b = n + PageSize
    BY <1>1
  <2>2. IsFiniteSet(a..b) /\ Cardinality(a..b) = IF a > b THEN 0 ELSE b - a + 1
    BY FS_Interval
  <2> QED BY <1>1, <2>1, <2>2
<1>4. held \subseteq n + 1 .. n + PageSize
  BY <1>1, <1>2
<1>5. IsFiniteSet(held) /\ Cardinality(held) \in Nat /\ Cardinality(held) <= PageSize
  BY <1>3, <1>4, FS_Subset, FS_CardinalityType
<1>6. ASSUME pages.held >= n + PageSize PROVE held = n + 1 .. n + PageSize
  BY <1>1, <1>2, <1>6
<1> QED BY <1>1, <1>2, <1>3, <1>5, <1>6 DEF n

LEMMA PagesKeep == HistoryInv /\ (H!BeginPositions \/ H!ReadPage) => HistoryInv'
<1> SUFFICES ASSUME HistoryInv, H!BeginPositions \/ H!ReadPage PROVE HistoryInv'
  OBVIOUS
<1>1. UNCHANGED <<historyTraded, walk, stored, empty>>
  BY DEF H!BeginPositions, H!ReadPage
<1>2. (Quiet' => Quiet) /\ (Quiet => WalkedAll' /\ StoredAll') /\ PagesRead
  BY <1>1, StoredKept DEF HistoryInv, Quiet, WalkedAll
<1>3. CASE H!BeginPositions
  <2>1. /\ historySaid' = historySaid
        /\ \E h \in 0..Held : pages' = [at |-> "read", held |-> h, page |-> 0, previous |-> -1, got |-> {}]
    BY <1>3 DEF H!BeginPositions, H!NoPages
  <2>2. PagesRead'
    BY <2>1, HistoryAssumption DEF PagesRead
  <2> QED BY <1>1, <1>2, <2>1, <2>2 DEF HistoryInv, HistoryShape, SaidAll
<1>4. CASE H!ReadPage
  <2> DEFINE held == H!Page(pages.page)
             got == pages.got \cup held
             n == pages.page * PageSize
  <2>1. /\ pages.at = "read"
        /\ IF pages.page = MaxPages THEN H!Returned("raised", {})
           ELSE IF held = {} \/ H!LastPage(held) THEN H!Returned("positions", got)
           ELSE /\ pages' = [pages EXCEPT !.page = @ + 1, !.previous = Cardinality(held), !.got = got]
                /\ UNCHANGED historySaid
    BY <1>4, SameCount DEF H!ReadPage
  <2>2. /\ n \in Nat /\ (pages.page + 1) * PageSize = n + PageSize
        /\ held = {i \in 1..pages.held : i > n /\ i <= n + PageSize}
        /\ IsFiniteSet(held) /\ Cardinality(held) \in Nat /\ Cardinality(held) <= PageSize
        /\ pages.held >= n + PageSize => Cardinality(held) = PageSize
    BY <1>2, PageFull
  <2>3. /\ pages.held \in Nat /\ pages.page \in Nat /\ pages.previous \in Int /\ pages.previous <= PageSize
        /\ pages.got = {i \in 1..pages.held : i <= n} /\ PageSize \in Nat \ {0}
    BY <1>2, <2>1, HistoryAssumption DEF PagesRead
  <2> HIDE DEF held, n
  <2>4. got = {i \in 1..pages.held : i <= n + PageSize}
    <3>1. ASSUME NEW i \in 1..pages.held PROVE i \in got <=> i <= n + PageSize
      BY <2>2, <2>3
    <3>2. got \subseteq 1..pages.held
      BY <2>2, <2>3
    <3> QED BY <3>1, <3>2
  <2>5. ASSUME held = {} \/ H!LastPage(held) PROVE 1..pages.held \subseteq got
    <3>1. pages.held < n + PageSize
      <4>1. CASE held = {}
        BY <2>2, <2>3, <4>1, FS_EmptySet
      <4>2. CASE H!LastPage(held)
        BY <2>2, <2>3, <4>2, SameCount DEF H!LastPage
      <4> QED BY <2>5, <4>1, <4>2
    <3> HIDE DEF got
    <3> QED BY <2>2, <2>3, <2>4, <3>1
  <2> HIDE DEF got
  <2>6. CASE \E what \in {"raised", "positions"}, all \in {{}, got} : H!Returned(what, all) /\ (what = "positions" => 1..pages.held \subseteq all)
    <3>1. PICK what \in {"raised", "positions"}, all \in {{}, got} :
            H!Returned(what, all) /\ (what = "positions" => 1..pages.held \subseteq all)
      BY <2>6
    <3>2. pages' = H!NoPages /\ historySaid' = [what |-> what, got |-> all, need |-> 1..pages.held]
      BY <3>1 DEF H!Returned
    <3>3. PagesRead' /\ SaidAll'
      BY <3>1, <3>2, HistoryAssumption DEF PagesRead, SaidAll, H!NoPages
    <3> QED BY <1>1, <1>2, <3>2, <3>3 DEF HistoryInv, HistoryShape
  <2>7. CASE /\ pages' = [pages EXCEPT !.page = @ + 1, !.previous = Cardinality(held), !.got = got]
             /\ UNCHANGED historySaid
    <3>1. /\ pages'.held = pages.held /\ pages'.page = pages.page + 1 /\ pages'.previous = Cardinality(held)
          /\ pages'.got = got /\ DOMAIN pages' = {"at", "held", "page", "previous", "got"}
      BY <1>2, <2>7 DEF PagesRead
    <3>2. PagesRead'
      BY <2>2, <2>3, <2>4, <3>1 DEF PagesRead
    <3> QED BY <1>1, <1>2, <2>7, <3>2 DEF HistoryInv, HistoryShape, SaidAll
  <2> QED BY <2>1, <2>5, <2>6, <2>7
<1> QED BY <1>3, <1>4

LEMMA HistoryStep == HistoryInv /\ [H!Next]_(H!vars) => HistoryInv'
<1>1. HistoryInv /\ UNCHANGED H!vars => HistoryInv'
  BY StoredKept DEF H!vars, HistoryInv, HistoryShape, PagesRead, Quiet, WalkedAll, SaidAll
<1> QED BY <1>1, FastPathKeeps, ChunkKeeps, WalkKeeps, PagesKeep DEF H!Next

LEMMA HistoryHonest == HistoryInv => H!NothingLost
  BY DEF HistoryInv, Quiet, SaidAll, StoredAll, H!NothingLost

(* What is given out or kept without a warning holds every bar of the       *)
(* lookback and every position, for any cap, page size and bar sizes        *)
(* (get_market_history_paginated, get_all_positions).                       *)
THEOREM HistoryIsComplete == Spec => []NothingLost
<1>1. HistoryInv => NothingLost
  BY HistoryHonest DEF NothingLost
<1> QED BY HistoryInit, HistoryStep, HistoryPart, <1>1, PTL DEF Spec
===============================================================================
