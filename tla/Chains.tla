------------------------------- MODULE Chains -------------------------------
\* Notation.  For code that tests one condition after another and returns at the
\* first that holds, a chain is a sequence of pairs <<result, condition>>; for code
\* that filters a list, the places of the elements it keeps.
EXTENDS Integers, Sequences, FiniteSets

\* The result of the first pair whose condition holds.
FirstOf(chain, otherwise) ==
    LET hits == {i \in DOMAIN chain : chain[i][2]}
    IN  IF hits = {} THEN otherwise
        ELSE chain[CHOOSE i \in hits : \A j \in hits : i <= j][1]

\* The element itself, for an optional value kept as a set of at most one.
TheOne(S) == CHOOSE e \in S : TRUE
None == {}
Some(e) == {e}

\* What is left of seq when only the elements at these places are kept: the n-th
\* is the one with n of the places up to its own.
Rank(places, i) == Cardinality({j \in places : j <= i})
Thinned(seq, places) ==
    [n \in 1..Cardinality(places) |-> seq[CHOOSE i \in places : Rank(places, i) = n]]
=============================================================================
