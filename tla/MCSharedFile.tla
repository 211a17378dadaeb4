---------------------------- MODULE MCSharedFile ----------------------------
\* One file's anchors in two more settings, for TLC: two sessions at once, and batches
\* with an anchor to spare.  The constants are those of the first; `part` says which of
\* the two runs.
EXTENDS MCAnchorStore

VARIABLE part

\* One line at a time, or one more below it, over four anchors: the ranges are batch's.
FourAnchors == {a1, a2, a3, a4}
RoomyRequest ==
    {[op |-> o, from |-> a, to |-> a, lines |-> <<"b">>] :
        o \in {"replace", "ins"}, a \in FourAnchors}

Roomy == INSTANCE AnchorStore WITH
    Task <- {t1}, Session <- {s1}, SessionOf <- [t \in {t1} |-> s1],
    Anchor <- FourAnchors, Request <- RoomyRequest, MaxItems <- 2, MaxLine <- 4

allVars == <<part, vars>>

MCInit ==
    \/ part = "two" /\ Init
    \/ part = "roomy" /\ Roomy!Init

MCNext ==
    /\ \/ part = "two" /\ Next
       \/ part = "roomy" /\ Roomy!Next
    /\ UNCHANGED part

MCSpec == MCInit /\ [][MCNext]_allVars

RoomySymmetry == Permutations(FourAnchors)
-----------------------------------------------------------------------------
\* Two sessions: no anchor names two lines at rest.
SharedUnique == part = "two" => UniqueAtRest

\* Two sessions: an edit replaces only lines its own session was shown, though the other
\* may have been given an anchor this one holds for other content.
SharedEditsLand == [][part = "two" => LandsStep]_allVars

\* Batches that need not run out of anchors: what they do not touch keeps its line and
\* its anchor, what they drop is released at every place, and each item replaces only
\* lines served before the call.
RoomyBatches ==
    /\ [](part = "roomy" => Roomy!BatchKeepsUntouched /\ Roomy!ReleaseIsComplete)
    /\ [][part = "roomy" => Roomy!BatchLandsStep]_allVars
=============================================================================
