----------------------------- MODULE MCPolicies -----------------------------
(***************************************************************************)
(* Two bounded instances of LastKnownGood in one run; the first state says *)
(* which.  The narrow one has two targets, capacities one and two, two     *)
(* clock values inside one millisecond, and the operator's clear; the wide *)
(* one more targets than places and a clock that is also set back; its     *)
(* behaviours end when a write is lost, for ReplayGivesIndex then says     *)
(* nothing.                                                                *)
(***************************************************************************)
EXTENDS MCLastKnownGood

CONSTANT FewTargets

\* The constants are those of the wide instance.
ASSUME WideAssumption == TicksPerMs = 1 /\ AllowClear = FALSE

VARIABLE part

Narrow == INSTANCE LastKnownGood WITH TicksPerMs <- 2, ClockSteps <- {1}, AllowClear <- TRUE

MCInit ==
    /\ part \in {"narrow", "wide"} /\ Init
    /\ part = "wide" => cap = 2
MCNext ==
    /\ UNCHANGED part
    /\ \/ /\ part = "narrow" /\ Narrow!Next
          /\ \A c \in Conns : dest'[c] \in FewTargets \cup {NoTarget}
       \/ part = "wide" /\ Next /\ cap' = 2 /\ NoLoss'
MCSpec == MCInit /\ [][MCNext]_<<part, vars>>

View == <<part, IF part = "narrow" THEN SeenView ELSE LiveView>>

-----------------------------------------------------------------------------

\* ReplayGivesIndex is about a clock in milliseconds: the wide instance.
ReplayIsExact == part = "wide" => ReplayGivesIndex
=============================================================================
