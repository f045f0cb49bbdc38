---------------------------- MODULE MCOrderWrite ----------------------------
(* Constant values for checking OrderWrite with TLC. *)
EXTENDS OrderWrite, TLC

CONSTANTS c1, c2, a1, a2, o1, b1, b2

MCOneCall     == {c1}
MCTwoCalls    == {c1, c2}
MCOneAccount  == {a1}
MCTwoAccounts == {a1, a2}
MCOneOrder    == {o1}
MCOneBody     == {b1}
MCTwoBodies   == {b1, b2}

AllMethods    == Methods
BracketOnly   == {"place_bracket"}
\* Calls and accounts are interchangeable.
CallSymmetry == Permutations(MCTwoCalls)
Symmetry == CallSymmetry \cup Permutations(MCTwoAccounts)

PlaceAndConfirmThenPlace == {"place_and_confirm", "place"}

=============================================================================
