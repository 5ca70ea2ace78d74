---------------------------- MODULE RaceOutcome ----------------------------
(***************************************************************************)
(* What a candidate race promises its caller, with no goroutine, channel   *)
(* or timer in it: candidates open connections and give them up, the race  *)
(* ends once, with at most one choice made of a connection that was open   *)
(* or whose time ran out under it, and from then on only losers close,     *)
(* until no loser is left open.                                            *)
(***************************************************************************)
CONSTANT Candidates

VARIABLES
    open,     \* candidates that hold an open connection
    outcome,  \* "pending", "failed", or "won"
    chosen,   \* the set of chosen candidates, a singleton once "won"
    expired   \* the caller's context or the race deadline has ended

vars == <<open, outcome, chosen, expired>>

Init == open = {} /\ outcome = "pending" /\ chosen = {} /\ expired \in BOOLEAN

Open(c) ==
    /\ c \notin open \cup chosen
    /\ open' = open \cup {c}
    /\ UNCHANGED <<outcome, chosen, expired>>

\* Never the chosen connection: from the choice on it is the caller's.
Close(c) ==
    /\ c \in open \ chosen
    /\ open' = open \ {c}
    /\ UNCHANGED <<outcome, chosen, expired>>

Choose(c) ==
    /\ outcome = "pending"
    /\ c \in open \/ expired
    /\ outcome' = "won" /\ chosen' = {c}
    /\ UNCHANGED <<open, expired>>

Fail ==
    /\ outcome = "pending"
    /\ outcome' = "failed"
    /\ UNCHANGED <<open, chosen, expired>>

Expire ==
    /\ ~expired
    /\ expired' = TRUE
    /\ UNCHANGED <<open, outcome, chosen>>

Next == \/ \E c \in Candidates : Open(c) \/ Close(c) \/ Choose(c)
        \/ Fail \/ Expire

\* The race ends, and after it every loser is closed.
Liveness == /\ <>(outcome # "pending")
            /\ <>[](open \subseteq chosen)

Spec == Init /\ [][Next]_vars /\ Liveness
=============================================================================
