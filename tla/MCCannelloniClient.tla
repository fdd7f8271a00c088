------------------------- MODULE MCCannelloniClient -------------------------
(***************************************************************************)
(* The instances of CannelloniClient that TLC checks.  A cfg file picks    *)
(* the sets of inputs by name; an empty set switches the operation off.    *)
(***************************************************************************)
EXTENDS CannelloniClient, TLC

CONSTANTS c1, c2, p1, p2, p3, f1, f2

Symmetry == Permutations(Callers)

NoLists == {}

\* One frame, two different frames, and a datagram with count = 0.
MCBatches == {<<>>, <<f1>>, <<f1, f2>>}
OneFrame  == {<<f1>>}

\* Valid messages only, and an invalid one behind a valid one.
MCWriteLists == {<<"can">>, <<"can", "can">>, <<"can", "invalid", "can">>}

OneWrite     == {<<"can", "invalid">>}

\* One channel, two channels; the same channel twice.
MCSelectLists == {<<>>, <<p1>>, <<p1, p2>>}
OneSelect     == {<<p1>>}
SelfTwice     == {<<p1, p1>>}
=============================================================================
