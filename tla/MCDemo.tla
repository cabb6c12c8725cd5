------------------------------- MODULE MCDemo -------------------------------
(***************************************************************************)
(* Two containers of which one may outlive the other, two pages, a         *)
(* scenario of two seed items and one live item.                           *)
(***************************************************************************)
EXTENDS DemoControl, TLC

TaskSymmetry == Permutations(Tasks)
PageSymmetry == Permutations(Operators)
Symmetry == TaskSymmetry \cup PageSymmetry

ScenarioMode ==
    control.mode = "SCENARIO" \/ \E w \in writes : w.item.mode = "SCENARIO"

\* What a disturbed reset leaves is not claimed.  Failures are explored apart
\* from resets, pages that load or race apart from the containers, which never
\* write the settings, and the mode no page shows apart from the pages.
Apart ==
    /\ ~disturbed
    /\ resets > 0 => faults = 0 /\ requests = {}
    /\ (\E t \in Tasks : Alive(t)) =>
        /\ Cardinality({o \in Operators : page[o].load # "closed"}) <= 1 /\ clicks <= 1
        /\ \A o \in Operators : page[o].load \in {"closed", "done"}
    /\ (\E o, p \in Operators : o # p /\ page[o].load # "closed" /\ page[p].load # "closed") =>
        tables = {} /\ requests = {} /\ desired = 1
    /\ ScenarioMode =>
        resets = 0 /\ asked = 0 /\ \A o \in Operators : page[o].load = "closed"
    /\ doubted => resets = 0 /\ asked = 0
=============================================================================
