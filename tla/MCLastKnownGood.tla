-------------------------- MODULE MCLastKnownGood --------------------------
(***************************************************************************)
(* The views and properties of bounded instances of LastKnownGood: the     *)
(* properties need a fold over the pending writes, or quote the design     *)
(* documents.                                                              *)
(***************************************************************************)
EXTENDS LastKnownGood, TLC, SequencesExt

ConnSymmetry == Permutations(Conns)
BackAndForth == {1, -1}

\* States that differ only in what a finished handler had seen behave alike;
\* the second view also forgets what it won and the exact counts, which the
\* replay property does not look at.
Seen(c)  == IF pc[c] \in {"new", "done"} THEN {} ELSE <<fixed[c], failed[c]>>
SeenView == <<procVars, index, writerVars, db, pc, dest, winner, offer, now,
              [c \in Conns |-> Seen(c)]>>

Live(c)  == IF pc[c] \in {"new", "done"} THEN <<pc[c]>>
            ELSE <<pc[c], dest[c], winner[c], fixed[c], failed[c]>>
LiveView == <<procVars, index, queue, inflight, db, offer, now, NoLoss,
              [c \in Conns |-> Live(c)]>>

\* Replaying the pending writes, in order, on the table gives the index,
\* ages and evictions included: memory and disk evict the same targets as
\* long as no write is lost, none is cleared and the clock is in milliseconds.
Maybe(r)  == IF r = NoRequest THEN <<>> ELSE <<r>>
Pending   == Maybe(inflight) \o queue \o Maybe(offer)
Replayed  == FoldLeft(LAMBDA m, r : Put(m, cap, r.target, [path |-> r.path, at |-> r.at]),
                      db, Pending)
ReplayGivesIndex == proc \in Running /\ NoLoss => Replayed = index

\* ADR-0036: a mapping "changes only when the opposite path subsequently
\* reaches readiness after the remembered path fails before commit" (or by
\* eviction, clear or scope): whoever changes it has seen that path fail.
ChangesOnlyAfterFailure ==
    [][\A k \in Targets :
         proc \in Running /\ {index[k].path, index'[k].path} = Paths =>
            \E c \in Conns : pc[c] = "ready" /\ dest[c] = k /\ index[k].path \in failed[c]]_vars
=============================================================================
