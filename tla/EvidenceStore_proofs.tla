------------------------ MODULE EvidenceStore_proofs ------------------------
(***************************************************************************)
(* Proofs about the evidence table, for any number of processes, rows and  *)
(* clock readings: what trims keep, what writers owe, what assessments     *)
(* count and what the report adds up.                                      *)
(***************************************************************************)
EXTENDS EvidenceStore, FiniteSetTheorems, WellFoundedInduction, TLAPS

-----------------------------------------------------------------------------
(* Counting.                                                               *)

LEMMA SmallestNumber ==
    ASSUME NEW S, S \subseteq Nat, S # {}
    PROVE  \E x \in S : \A y \in S : x =< y
<1>1. PICK x \in S : \A y \in S : <<y, x>> \notin OpToRel(<, Nat)
      BY WFMin, NatLessThanWellFounded
<1>2. \A y \in S : y \in Nat /\ x \in Nat /\ ~(y < x)  BY <1>1 DEF OpToRel
<1> QED  BY <1>2

\* Two functions of the subsets of a finite set that are built up alike, one
\* element after the other, are equal there.
LEMMA FoldsAgree ==
    ASSUME NEW S, IsFiniteSet(S), NEW F, NEW G, F[{}] = G[{}],
           \A s \in SUBSET S : s # {} => \E x \in s : F[s \ {x}] = G[s \ {x}] => F[s] = G[s]
    PROVE  F[S] = G[S]
<1> DEFINE Bad == {s \in SUBSET S : F[s] # G[s]}
           Sizes == {Cardinality(s) : s \in Bad}
<1>1. \A s \in SUBSET S : IsFiniteSet(s) /\ Cardinality(s) \in Nat
      BY FS_Subset, FS_CardinalityType
<1>2. Bad = {}
  <2> SUFFICES ASSUME Bad # {} PROVE FALSE  OBVIOUS
  <2>1. Sizes \subseteq Nat /\ Sizes # {}  BY <1>1
  <2>2. PICK n \in Sizes : \A k \in Sizes : n =< k
    <3> HIDE DEF Sizes
    <3> QED  BY <2>1, SmallestNumber
  <2>3. PICK s \in Bad : n = Cardinality(s)  OBVIOUS
  <2>4. s \in SUBSET S /\ s # {} /\ F[s] # G[s]  OBVIOUS
  <2>5. PICK x \in s : F[s \ {x}] = G[s \ {x}] => F[s] = G[s]  BY <2>4
  <2>6. s \ {x} \in Bad  BY <2>4, <2>5
  <2>7. Cardinality(s \ {x}) = Cardinality(s) - 1  BY <1>1, <2>4, FS_RemoveElement
  <2>8. Cardinality(s \ {x}) \in Sizes  BY <2>6
  <2>9. n =< n - 1 /\ n \in Nat
    <3> HIDE DEF Sizes, Bad
    <3> QED  BY <1>1, <2>2, <2>3, <2>4, <2>7, <2>8
  <2> QED  BY <2>9
<1> QED  BY <1>2

\* What a number of writers owe together, each owing w[p].
Debts(w, S) == UNION {{p} \X (1 .. w[p]) : p \in S}
Owed(w, S)  == Cardinality(Debts(w, S))

LEMMA DebtsFinite ==
    ASSUME NEW S, IsFiniteSet(S), NEW w, \A p \in S : w[p] \in Nat
    PROVE  IsFiniteSet(Debts(w, S)) /\ Owed(w, S) \in Nat
<1> DEFINE T == {{p} \X (1 .. w[p]) : p \in S}
           f == [p \in S |-> {p} \X (1 .. w[p])]
<1>1. f \in Surjection(S, T)  BY DEF Surjection
<1>2. IsFiniteSet(T)
  <2> HIDE DEF f, T
  <2> QED  BY <1>1, FS_Surjection
<1>3. ASSUME NEW p \in S PROVE IsFiniteSet({p} \X (1 .. w[p]))
  <2>1. IsFiniteSet(1 .. w[p])  BY FS_Interval
  <2>2. IsFiniteSet({p})  BY FS_Singleton
  <2> QED  BY <2>1, <2>2, FS_Product
<1>4. \A t \in T : IsFiniteSet(t)  BY <1>3
<1>5. IsFiniteSet(UNION T)
  <2> HIDE DEF T
  <2> QED  BY <1>2, <1>4, FS_UNION
<1> QED  BY <1>5, FS_CardinalityType DEF Debts, Owed

\* What one of them owes is owed on top of what the others owe.
LEMMA DebtsApart ==
    ASSUME NEW S, IsFiniteSet(S), NEW w, \A p \in S : w[p] \in Nat, NEW x \in S
    PROVE  /\ Owed(w, S) = Owed(w, S \ {x}) + w[x]
           /\ Owed(w, S \ {x}) \in Nat
<1> DEFINE own == {x} \X (1 .. w[x])
           rest == Debts(w, S \ {x})
<1>1. IsFiniteSet(S \ {x})  BY FS_RemoveElement
<1>2. IsFiniteSet(rest) /\ Owed(w, S \ {x}) \in Nat  BY <1>1, DebtsFinite
<1>3. IsFiniteSet(own) /\ Cardinality(own) = w[x]
  <2>1. IsFiniteSet(1 .. w[x]) /\ Cardinality(1 .. w[x]) = w[x]  BY FS_Interval
  <2>2. IsFiniteSet({x}) /\ Cardinality({x}) = 1  BY FS_Singleton
  <2>3. IsFiniteSet(own) /\ Cardinality(own) = Cardinality({x}) * Cardinality(1 .. w[x])
    <3> HIDE DEF own
    <3>1. own = {x} \X (1 .. w[x])  BY DEF own
    <3> QED  BY ONLY <2>1, <2>2, <3>1, FS_Product
  <2>4. 1 * w[x] = w[x]  OBVIOUS
  <2> HIDE DEF own
  <2> QED  BY <2>1, <2>2, <2>3, <2>4
<1>4. Debts(w, S) = rest \cup own  BY DEF Debts
<1>5. rest \cap own = {}  BY DEF Debts
<1> HIDE DEF rest, own
<1>6. Cardinality(rest \cup own) = Cardinality(rest) + Cardinality(own) - Cardinality({})
      BY <1>2, <1>3, <1>5, FS_Union
<1>7. Cardinality({}) = 0  BY FS_EmptySet
<1>8. Owed(w, S \ {x}) = Cardinality(rest)  BY DEF Owed, rest
<1> QED  BY <1>2, <1>3, <1>4, <1>6, <1>7, <1>8 DEF Owed

\* The others owe what they owed.
LEMMA DebtsSame ==
    ASSUME NEW S, NEW v, NEW w, \A p \in S : v[p] = w[p]
    PROVE  Owed(v, S) = Owed(w, S)
<1>1. Debts(v, S) = Debts(w, S)  BY DEF Debts
<1> QED  BY <1>1 DEF Owed

\* The sum the property takes is the count of what is owed.
LEMMA SumOfWritten ==
    ASSUME \A p \in Procs : Written(p) \in Nat
    PROVE  MapThenSumSet(Written, Procs) = Owed([p \in Procs |-> Written(p)], Procs)
<1> DEFINE w == [p \in Procs |-> Written(p)]
           body(f, s) == IF s = {} THEN 0 ELSE LET x == CHOOSE y \in s : TRUE
                                               IN  Written(x) + f[s \ {x}]
           iter == CHOOSE f : f = [s \in SUBSET Procs |-> body(f, s)]
           owed == [s \in SUBSET Procs |-> Owed(w, s)]
<1>1. MapThenSumSet(Written, Procs) = iter[Procs]
      BY DEF MapThenSumSet, MapThenFoldSet
<1>2. IsFiniteSet(Procs)  BY EvidenceAssumption
<1>3. ASSUME NEW s \in SUBSET Procs PROVE owed[s] = body(owed, s)
  <2>1. CASE s = {}
    <3>1. Debts(w, s) = {}  BY <2>1 DEF Debts
    <3> QED  BY <2>1, <3>1, FS_EmptySet DEF Owed
  <2>2. CASE s # {}
    <3> DEFINE x == CHOOSE y \in s : TRUE
    <3>1. x \in s /\ x \in Procs /\ s \ {x} \in SUBSET Procs  BY <2>2
    <3> HIDE DEF x
    <3>2. IsFiniteSet(s) /\ \A p \in s : w[p] \in Nat  BY <1>2, FS_Subset
    <3>3. Owed(w, s) = Owed(w, s \ {x}) + w[x] /\ Owed(w, s \ {x}) \in Nat
      <4> HIDE DEF w
      <4> QED  BY <3>1, <3>2, DebtsApart
    <3>4. w[x] = Written(x) /\ Written(x) \in Nat  BY <3>1
    <3>5. owed[s] = Owed(w, s) /\ owed[s \ {x}] = Owed(w, s \ {x})  BY <3>1
    <3>6. body(owed, s) = Written(x) + owed[s \ {x}]  BY <2>2 DEF x
    <3> HIDE DEF w, body, owed
    <3> QED  BY <3>3, <3>4, <3>5, <3>6
  <2> QED  BY <2>1, <2>2
<1>4. owed = [s \in SUBSET Procs |-> body(owed, s)]
  <2> HIDE DEF body, w
  <2> QED  BY <1>3
<1>5. iter = [s \in SUBSET Procs |-> body(iter, s)]
  <2> HIDE DEF body, owed
  <2> QED  BY <1>4
<1>6. iter[{}] = owed[{}]
  <2>1. {} \in SUBSET Procs  OBVIOUS
  <2>2. iter[{}] = body(iter, {})
    <3> HIDE DEF body, iter
    <3> QED  BY <1>5, <2>1
  <2>3. owed[{}] = body(owed, {})
    <3> HIDE DEF body, owed
    <3> QED  BY <1>4, <2>1
  <2> HIDE DEF iter, owed
  <2> QED  BY <2>2, <2>3
<1>7. ASSUME NEW s \in SUBSET Procs, s # {}
      PROVE  \E x \in s : iter[s \ {x}] = owed[s \ {x}] => iter[s] = owed[s]
  <2> DEFINE x == CHOOSE y \in s : TRUE
  <2>1. x \in s  BY <1>7
  <2>2. iter[s] = body(iter, s)
    <3> HIDE DEF body, iter
    <3> QED  BY <1>5
  <2>3. owed[s] = body(owed, s)  BY <1>3
  <2>4. body(iter, s) = Written(x) + iter[s \ {x}] /\ body(owed, s) = Written(x) + owed[s \ {x}]
        BY <1>7
  <2> HIDE DEF iter, owed, body, x
  <2> QED  BY <2>1, <2>2, <2>3, <2>4
<1> HIDE DEF iter, owed
<1>8. iter[Procs] = owed[Procs]  BY <1>2, <1>6, <1>7, FoldsAgree
<1>9. owed[Procs] = Owed(w, Procs)  BY DEF owed
<1> QED  BY <1>1, <1>8, <1>9

-----------------------------------------------------------------------------
(* The order of the rows, and what a trim keeps.                           *)

\* Rows that time and id put in order.
Table(t) ==
    /\ IsFiniteSet(t)
    /\ \A r \in t : r.id \in Nat /\ r.at \in Nat
    /\ \A r, s \in t : r.id = s.id => r = s

LEMMA NewerOrder ==
    ASSUME NEW t, Table(t), NEW r \in t, NEW s \in t
    PROVE  /\ r = s \/ Newer(r, s) \/ Newer(s, r)
           /\ ~(Newer(r, s) /\ Newer(s, r)) /\ ~Newer(r, r)
           /\ \A x \in t : Newer(r, s) /\ Newer(s, x) => Newer(r, x)
<1>1. /\ r.id \in Nat /\ r.at \in Nat /\ s.id \in Nat /\ s.at \in Nat
      /\ \A x \in t : x.id \in Nat /\ x.at \in Nat
      BY DEF Table
<1>2. r.id = s.id => r = s  BY DEF Table
<1> QED  BY <1>1, <1>2 DEF Newer

Newers(S, x) == {y \in S : Newer(y, x)}
Olders(S, x) == {y \in S : Newer(x, y)}

LEMMA SubsetSizes ==
    ASSUME NEW t, Table(t), NEW S, S \subseteq t
    PROVE  /\ IsFiniteSet(S) /\ Cardinality(S) \in Nat
           /\ \A T : T \subseteq S => /\ IsFiniteSet(T) /\ Cardinality(T) \in Nat
                                      /\ Cardinality(T) <= Cardinality(S)
                                      /\ T # S => Cardinality(T) < Cardinality(S)
<1>1. IsFiniteSet(S) /\ Cardinality(S) \in Nat  BY FS_Subset, FS_CardinalityType DEF Table
<1>2. ASSUME NEW T, T \subseteq S
      PROVE  /\ IsFiniteSet(T) /\ Cardinality(T) \in Nat /\ Cardinality(T) <= Cardinality(S)
             /\ T # S => Cardinality(T) < Cardinality(S)
  <2>1. /\ IsFiniteSet(T) /\ Cardinality(T) <= Cardinality(S)
        /\ Cardinality(S) = Cardinality(T) => S = T
        BY <1>1, <1>2, FS_Subset
  <2>2. Cardinality(T) \in Nat  BY <2>1, FS_CardinalityType
  <2> QED  BY <1>1, <2>1, <2>2
<1> QED  BY <1>1, <1>2

LEMMA NewestRow ==
    ASSUME NEW t, Table(t), NEW S, S \subseteq t, S # {}
    PROVE  \E x \in S : \A y \in S : y # x => Newer(x, y)
<1> DEFINE Sizes == {Cardinality(Newers(S, x)) : x \in S}
<1>1. \A x \in S : Newers(S, x) \subseteq S /\ Cardinality(Newers(S, x)) \in Nat
      BY SubsetSizes DEF Newers
<1>2. PICK n \in Sizes : \A k \in Sizes : n =< k
  <2>1. Sizes \subseteq Nat /\ Sizes # {}  BY <1>1
  <2> HIDE DEF Sizes
  <2> QED  BY <2>1, SmallestNumber
<1>3. PICK x \in S : n = Cardinality(Newers(S, x))  OBVIOUS
<1>4. ASSUME NEW y \in S, Newer(y, x) PROVE FALSE
  <2>1. Newers(S, y) \subseteq Newers(S, x)  BY <1>4, NewerOrder DEF Newers
  <2>2. y \in Newers(S, x) /\ y \notin Newers(S, y)  BY <1>4, NewerOrder DEF Newers
  <2>3. Newers(S, x) \subseteq t  BY DEF Newers
  <2>4. Cardinality(Newers(S, y)) < Cardinality(Newers(S, x))
        BY <2>1, <2>2, <2>3, SubsetSizes
  <2>5. Cardinality(Newers(S, y)) \in Sizes  OBVIOUS
  <2> HIDE DEF Sizes
  <2> QED  BY <1>1, <1>2, <1>3, <2>4, <2>5
<1> QED  BY <1>4, NewerOrder

LEMMA OldestRow ==
    ASSUME NEW t, Table(t), NEW S, S \subseteq t, S # {}
    PROVE  \E x \in S : \A y \in S : y # x => Newer(y, x)
<1> DEFINE Sizes == {Cardinality(Olders(S, x)) : x \in S}
<1>1. \A x \in S : Olders(S, x) \subseteq S /\ Cardinality(Olders(S, x)) \in Nat
      BY SubsetSizes DEF Olders
<1>2. PICK n \in Sizes : \A k \in Sizes : n =< k
  <2>1. Sizes \subseteq Nat /\ Sizes # {}  BY <1>1
  <2> HIDE DEF Sizes
  <2> QED  BY <2>1, SmallestNumber
<1>3. PICK x \in S : n = Cardinality(Olders(S, x))  OBVIOUS
<1>4. ASSUME NEW y \in S, Newer(x, y) PROVE FALSE
  <2>1. Olders(S, y) \subseteq Olders(S, x)  BY <1>4, NewerOrder DEF Olders
  <2>2. y \in Olders(S, x) /\ y \notin Olders(S, y)  BY <1>4, NewerOrder DEF Olders
  <2>3. Olders(S, x) \subseteq t  BY DEF Olders
  <2>4. Cardinality(Olders(S, y)) < Cardinality(Olders(S, x))
        BY <2>1, <2>2, <2>3, SubsetSizes
  <2>5. Cardinality(Olders(S, y)) \in Sizes  OBVIOUS
  <2> HIDE DEF Sizes
  <2> QED  BY <1>1, <1>2, <1>3, <2>4, <2>5
<1> QED  BY <1>4, NewerOrder

LEMMA EvidenceBounds ==
    /\ MaxRows \in Nat \ {0} /\ TrimEvery \in Nat \ {0} /\ QueueSize \in Nat \ {0}
    /\ Retention \in Nat \ {0}
    /\ MaxClock \in Nat /\ MaxStarts \in Nat /\ MaxOffers \in Nat /\ MaxFaults \in Nat
<1>1. \A n \in {MaxRows, TrimEvery, QueueSize, Retention} : n \in Nat \ {0}  BY EvidenceAssumption
<1>2. \A n \in {MaxClock, MaxStarts, MaxOffers, MaxFaults} : n \in Nat  BY EvidenceAssumption
<1> QED  BY <1>1, <1>2

\* TrimEvidenceTo leaves no more than the ceiling, ...
LEMMA TrimFits ==
    ASSUME NEW t, Table(t)
    PROVE  Trimmed(t) \subseteq t /\ Cardinality(Trimmed(t)) <= MaxRows
<1>1. Trimmed(t) = {r \in t : Cardinality(Newers(t, r)) < MaxRows}  BY DEF Trimmed, Newers
<1>2. Trimmed(t) \subseteq t  BY <1>1
<1>3. IsFiniteSet(Trimmed(t)) /\ Cardinality(Trimmed(t)) \in Nat  BY <1>2, SubsetSizes
<1>4. CASE Trimmed(t) = {}  BY <1>2, <1>4, EvidenceBounds, FS_EmptySet
<1>5. CASE Trimmed(t) # {}
  <2>1. PICK x \in Trimmed(t) : \A y \in Trimmed(t) : y # x => Newer(y, x)
        BY <1>2, <1>5, OldestRow
  <2>2. Trimmed(t) \ {x} \subseteq Newers(t, x)  BY <1>2, <2>1 DEF Newers
  <2>3. Newers(t, x) \subseteq t  BY DEF Newers
  <2>4. /\ Cardinality(Trimmed(t) \ {x}) <= Cardinality(Newers(t, x))
        /\ Cardinality(Newers(t, x)) \in Nat
        BY <2>2, <2>3, SubsetSizes
  <2>5. Cardinality(Newers(t, x)) < MaxRows  BY <1>1
  <2>6. Cardinality(Trimmed(t) \ {x}) = Cardinality(Trimmed(t)) - 1  BY <1>3, FS_RemoveElement
  <2> QED  BY <1>2, <1>3, <2>4, <2>5, <2>6, EvidenceBounds
<1> QED  BY <1>4, <1>5

\* ... each row it deletes has as many newer ones that stay, ...
LEMMA TrimKeepsNewest ==
    ASSUME NEW t, Table(t), NEW r \in t \ Trimmed(t)
    PROVE  Cardinality(Newers(Trimmed(t), r)) >= MaxRows
<1> DEFINE N == Newers(t, r)
           K == Newers(Trimmed(t), r)
<1>1. Trimmed(t) = {s \in t : Cardinality(Newers(t, s)) < MaxRows}  BY DEF Trimmed, Newers
<1>2. N \subseteq t /\ K \subseteq N  BY <1>1 DEF Newers
<1>3. Cardinality(N) \in Nat /\ Cardinality(K) \in Nat  BY <1>2, SubsetSizes
<1>4. Cardinality(N) >= MaxRows  BY <1>1, <1>3, EvidenceBounds
<1> SUFFICES ASSUME Cardinality(K) < MaxRows PROVE FALSE  BY <1>3, EvidenceBounds
<1>5. N \ K # {}  BY <1>2, <1>3, <1>4, EvidenceBounds
<1>6. PICK x \in N \ K : \A y \in N \ K : y # x => Newer(x, y)
  <2>1. N \ K \subseteq t  BY <1>2
  <2> HIDE DEF N, K
  <2> QED  BY <1>5, <2>1, NewestRow
<1>7. x \in t /\ Newer(x, r)  BY DEF Newers
<1>8. Newers(t, x) \subseteq K
  <2> SUFFICES ASSUME NEW s \in t, Newer(s, x) PROVE s \in K  BY DEF Newers
  <2>1. Newer(s, r)  BY <1>7, NewerOrder
  <2>2. s \in N  BY <2>1 DEF Newers
  <2>3. s = x \/ ~Newer(x, s)  BY <1>7, NewerOrder
  <2>4. s # x  BY <1>7, NewerOrder
  <2> QED  BY <1>6, <2>2, <2>3, <2>4
<1>9. Cardinality(Newers(t, x)) <= Cardinality(K) /\ Cardinality(Newers(t, x)) \in Nat
      BY <1>2, <1>8, SubsetSizes
<1>10. x \in Trimmed(t)  BY <1>1, <1>3, <1>7, <1>9, EvidenceBounds
<1>11. x \in K  BY <1>7, <1>10 DEF Newers
<1> QED  BY <1>11

\* ... and the newest row is not deleted.
LEMMA TrimKeepsLast ==
    ASSUME NEW t, Table(t), NEW x \in t, \A y \in t : y # x => Newer(x, y)
    PROVE  x \in Trimmed(t)
<1>1. Newers(t, x) = {}  BY NewerOrder DEF Newers
<1>2. Cardinality(Newers(t, x)) = 0  BY <1>1, FS_EmptySet
<1> QED  BY <1>2, EvidenceBounds DEF Trimmed, Newers

-----------------------------------------------------------------------------
(* The inductive invariant of any number of processes.                     *)

Asks == [target : Targets, direction : Paths, at : 0 .. MaxClock]

\* A writer is at work only in a process that runs, which has a session ID.
Process(p) ==
    /\ Len(queue[p]) <= QueueSize
    /\ step[p] # "idle" => life[p] \in Writing /\ current[p] \in Asks
    /\ life[p] \in Alive => session[p] \in 1 .. starts

Actors ==
    /\ life \in [Procs -> Down \cup Alive] /\ session \in [Procs -> 0 .. starts]
    /\ queue \in [Procs -> Seq(Asks)] /\ current \in [Procs -> Asks \cup {NoRequest}]
    /\ step \in [Procs -> {"idle", "assess", "count"}] /\ since \in [Procs -> Nat]
    /\ verdict \in [Procs -> [target : Targets \cup {0},
                              state : Verdicts \cup {"none", "no_evidence"}]]
    /\ \A p \in Procs : Process(p)

Counters ==
    /\ now \in 0 .. MaxClock /\ untrimmed \in Nat
    /\ starts \in 0 .. MaxStarts /\ offers \in 0 .. MaxOffers /\ faults \in 0 .. MaxFaults

RowTyped(r) ==
    /\ r.target \in Targets /\ r.direction \in Paths
    /\ r.id \in 1 .. nextId /\ r.session \in 1 .. starts /\ r.at \in 0 .. MaxClock

Tables ==
    /\ sessions \subseteq 1 .. starts /\ nextId \in Nat
    /\ \A r \in rows : RowTyped(r)
    /\ Table(rows) /\ ReferencesHold

\* What is over the ceiling is owed by somebody.
Books == [p \in Procs |-> Written(p)]
Accounted == Cardinality(rows) <= MaxRows + untrimmed + Owed(Books, Procs)

EvidenceInv == Actors /\ Counters /\ Tables /\ Accounted

\* Of one process whose clock runs forward: requests are in the order of their
\* times, no row is newer than those, and the row just written is the newest.
JustWritten(p, r) ==
    /\ r.id = nextId /\ r.session = session[p] /\ r.at = current[p].at
    /\ r.target = current[p].target /\ r.direction = current[p].direction
InOrder(p) ==
    /\ \A i \in DOMAIN queue[p] :
          /\ queue[p][i].at <= now
          /\ \A j \in DOMAIN queue[p] : i < j => queue[p][i].at <= queue[p][j].at
          /\ \A r \in rows : r.at <= queue[p][i].at
    /\ \A r \in rows : r.at <= now
    /\ step[p] # "idle" => /\ \A r \in rows : r.at <= current[p].at
                           /\ \E r \in rows : JustWritten(p, r)
    /\ life[p] \in Writing => session[p] \in sessions

-----------------------------------------------------------------------------
(* Processes and counters.                                                 *)

LEMMA RequestTypes ==
    /\ Asks \subseteq Requests
    /\ \A a \in Asks : a.target \in Targets /\ a.direction \in Paths /\ a.at \in 0 .. MaxClock
    /\ \A a \in Asks : a.at \in Nat
BY EvidenceBounds DEF Asks, Requests

LEMMA Heads ==
    ASSUME NEW q \in Seq(Asks), q # <<>>
    PROVE  /\ Head(q) \in Asks /\ Tail(q) \in Seq(Asks) /\ Len(Tail(q)) = Len(q) - 1
           /\ Len(q) \in Nat \ {0} /\ Head(q) = q[1] /\ DOMAIN q = 1 .. Len(q)
           /\ DOMAIN Tail(q) = 1 .. Len(q) - 1
           /\ \A i \in DOMAIN Tail(q) : i + 1 \in DOMAIN q /\ Tail(q)[i] = q[i + 1]
OBVIOUS

\* Every state of a process and what it may come to, with the others as they
\* were.
Becomes(p, l, ss, q, st, c, n, v) ==
    /\ life' = [life EXCEPT ![p] = l] /\ session' = [session EXCEPT ![p] = ss]
    /\ queue' = [queue EXCEPT ![p] = q] /\ step' = [step EXCEPT ![p] = st]
    /\ current' = [current EXCEPT ![p] = c] /\ since' = [since EXCEPT ![p] = n]
    /\ verdict' = [verdict EXCEPT ![p] = v]
    /\ starts' \in Nat /\ starts <= starts'
    /\ l \in Down \cup Alive /\ ss \in 0 .. starts' /\ q \in Seq(Asks) /\ Len(q) <= QueueSize
    /\ st \in {"idle", "assess", "count"} /\ c \in Asks \cup {NoRequest} /\ n \in Nat
    /\ v \in [target : Targets \cup {0}, state : Verdicts \cup {"none", "no_evidence"}]
    /\ st # "idle" => l \in Writing /\ c \in Asks
    /\ l \in Alive => ss \in 1 .. starts'

\* What a process in such a state has written that no trim has seen.
WrittenIn(l, st, n) ==
    IF l \in Writing \cup {"finaltrim"} THEN n + (IF st = "idle" THEN 0 ELSE 1) ELSE 0

LEMMA ProcessBecomes ==
    ASSUME Actors, Counters, NEW p \in Procs, NEW l, NEW ss, NEW q, NEW st, NEW c, NEW n, NEW v,
           Becomes(p, l, ss, q, st, c, n, v)
    PROVE  /\ Actors'
           /\ \A x \in Procs \ {p} : Books'[x] = Books[x]
           /\ Books'[p] = WrittenIn(l, st, n) /\ \A x \in Procs : Books'[x] \in Nat
<1> USE DEF Becomes
<1>1. starts \in Nat  BY EvidenceBounds DEF Counters
<1>2. /\ life' \in [Procs -> Down \cup Alive] /\ queue' \in [Procs -> Seq(Asks)]
      /\ current' \in [Procs -> Asks \cup {NoRequest}]
      /\ step' \in [Procs -> {"idle", "assess", "count"}] /\ since' \in [Procs -> Nat]
      /\ verdict' \in [Procs -> [target : Targets \cup {0},
                                 state : Verdicts \cup {"none", "no_evidence"}]]
      BY DEF Actors
<1>3. session' \in [Procs -> 0 .. starts']  BY <1>1 DEF Actors
<1>4. /\ life'[p] = l /\ session'[p] = ss /\ queue'[p] = q /\ step'[p] = st /\ current'[p] = c
      /\ since'[p] = n
      BY DEF Actors
<1>5. \A x \in Procs \ {p} :
         /\ life'[x] = life[x] /\ session'[x] = session[x] /\ queue'[x] = queue[x]
         /\ step'[x] = step[x] /\ current'[x] = current[x] /\ since'[x] = since[x]
      BY DEF Actors
<1>6. ASSUME NEW x \in Procs PROVE Process(x)'
  <2>1. CASE x = p  BY <1>4, <2>1 DEF Process
  <2>2. CASE x # p
    <3>1. Process(x)  BY DEF Actors
    <3>2. \A k : k \in 1 .. starts => k \in 1 .. starts'  BY <1>1
    <3> QED  BY <1>5, <2>2, <3>1, <3>2 DEF Process
  <2> QED  BY <2>1, <2>2
<1>7. \A x \in Procs \ {p} : Books'[x] = Books[x]
      BY <1>5 DEF Books, Written
<1>8. Books'[p] = WrittenIn(l, st, n)  BY <1>4 DEF Books, Written, WrittenIn
<1>9. \A x \in Procs : Books'[x] \in Nat
  <2>1. \A x \in Procs : Books[x] \in Nat  BY DEF Actors, Books, Written
  <2>2. n \in Nat  OBVIOUS
  <2> HIDE DEF Becomes
  <2>3. WrittenIn(l, st, n) \in Nat  BY <2>2 DEF WrittenIn
  <2> QED  BY <1>7, <1>8, <2>1, <2>3
<1> QED  BY <1>2, <1>3, <1>6, <1>7, <1>8, <1>9 DEF Actors

\* What is owed after a step of one process.
LEMMA OneWrites ==
    ASSUME NEW p \in Procs, NEW v, NEW w, \A x \in Procs : v[x] \in Nat /\ w[x] \in Nat,
           \A x \in Procs \ {p} : w[x] = v[x]
    PROVE  \E rest \in Nat : Owed(v, Procs) = rest + v[p] /\ Owed(w, Procs) = rest + w[p]
<1>1. IsFiniteSet(Procs)  BY EvidenceAssumption
<1>2. Owed(v, Procs) = Owed(v, Procs \ {p}) + v[p] /\ Owed(v, Procs \ {p}) \in Nat
      BY <1>1, DebtsApart
<1>3. Owed(w, Procs) = Owed(w, Procs \ {p}) + w[p]  BY <1>1, DebtsApart
<1>4. Owed(w, Procs \ {p}) = Owed(v, Procs \ {p})  BY DebtsSame
<1> QED  BY <1>2, <1>3, <1>4

LEMMA BooksAreNumbers ==
    ASSUME Actors
    PROVE  \A x \in Procs : Books[x] \in Nat /\ Books[x] = Written(x) /\ Written(x) \in Nat
BY DEF Actors, Books, Written

LEMMA Balance ==
    ASSUME NEW m \in Nat, NEW rest \in Nat, NEW was \in Nat, NEW is \in Nat,
           NEW old \in Nat, NEW new \in Nat, NEW left \in Nat, NEW leaves \in Nat,
           was <= m + left + (rest + old), is <= m \/ is + left + old <= was + leaves + new
    PROVE  is <= m + leaves + (rest + new)
OBVIOUS

\* A step of one process that leaves no more rows than it books, or no more
\* than the ceiling.
LEMMA AccountedStep ==
    ASSUME Actors, Counters, Accounted, NEW p \in Procs,
           \A x \in Procs : Books'[x] \in Nat,
           \A x \in Procs \ {p} : Books'[x] = Books[x],
           Table(rows), Table(rows)', untrimmed' \in Nat,
           \/ Cardinality(rows') <= MaxRows
           \/ Cardinality(rows') + untrimmed + Books[p]
                 <= Cardinality(rows) + untrimmed' + Books'[p]
    PROVE  Accounted'
<1>1. \A x \in Procs : Books[x] \in Nat  BY BooksAreNumbers
<1>2. PICK rest \in Nat : /\ Owed(Books, Procs) = rest + Books[p]
                          /\ Owed(Books', Procs) = rest + Books'[p]
      BY <1>1, OneWrites
<1>3. Cardinality(rows) \in Nat /\ Cardinality(rows') \in Nat
      BY FS_CardinalityType DEF Table
<1>4. untrimmed \in Nat /\ MaxRows \in Nat  BY EvidenceBounds DEF Counters
<1>5. Books[p] \in Nat /\ Books'[p] \in Nat  BY <1>1
<1>6. Cardinality(rows) <= MaxRows + untrimmed + (rest + Books[p])  BY <1>2 DEF Accounted
<1>7. Cardinality(rows') <= MaxRows + untrimmed' + (rest + Books'[p])
      BY <1>3, <1>4, <1>5, <1>6, Balance
<1> QED  BY <1>2, <1>7 DEF Accounted

-----------------------------------------------------------------------------
(* The tables.                                                             *)

LEMMA TablesSame ==
    ASSUME Tables, Counters, UNCHANGED tables, starts' \in Nat, starts <= starts'
    PROVE  Tables'
<1>1. sessions' = sessions /\ rows' = rows /\ nextId' = nextId  BY DEF tables
<1>2. \A k : k \in 1 .. starts => k \in 1 .. starts'  BY EvidenceBounds DEF Counters
<1> QED  BY <1>1, <1>2 DEF Tables, RowTyped, ReferencesHold, Table

\* Deleting rows and the sessions that lost their last one.
LEMMA TablesKept ==
    ASSUME Tables, NEW kept, kept \subseteq rows, Keep(kept), starts' = starts
    PROVE  Tables' /\ Cardinality(rows') <= Cardinality(rows)
<1>1. rows' = kept /\ nextId' = nextId /\ rows' \subseteq rows /\ sessions' \subseteq sessions
      /\ sessions' = {s \in sessions : \E r \in kept : r.session = s}
      BY DEF Keep
<1>2. Table(rows)  BY DEF Tables
<1>3. IsFiniteSet(rows') /\ Cardinality(rows') <= Cardinality(rows)
      BY <1>1, <1>2, SubsetSizes
<1>4. Table(rows)'  BY <1>1, <1>2, <1>3 DEF Table
<1>5. ReferencesHold'  BY <1>1 DEF Tables, ReferencesHold
<1>6. \A r \in rows' : RowTyped(r)'  BY <1>1 DEF Tables, RowTyped
<1> QED  BY <1>1, <1>3, <1>4, <1>5, <1>6 DEF Tables

LEMMA TablesTrimmed ==
    ASSUME Tables, Trim, starts' = starts
    PROVE  Tables' /\ Cardinality(rows') <= MaxRows /\ untrimmed' = 0 /\ faults' = faults
<1>1. Keep(Trimmed(rows)) /\ untrimmed' = 0 /\ faults' = faults  BY DEF Trim
<1>2. Trimmed(rows) \subseteq rows /\ Cardinality(Trimmed(rows)) <= MaxRows
      BY TrimFits DEF Tables
<1>3. rows' = Trimmed(rows)  BY <1>1 DEF Keep
<1> QED  BY <1>1, <1>2, <1>3, TablesKept

LEMMA TablesAppended ==
    ASSUME Tables, NEW new, rows' = rows \cup {new}, nextId' = nextId + 1, sessions' = sessions,
           starts' = starts, new.id = nextId + 1, new.session \in sessions,
           new.target \in Targets, new.direction \in Paths, new.at \in 0 .. MaxClock
    PROVE  Tables' /\ Cardinality(rows') = Cardinality(rows) + 1
<1>1. nextId \in Nat /\ sessions \subseteq 1 .. starts /\ Table(rows)  BY DEF Tables
<1>2. \A r \in rows : r.id \in 1 .. nextId  BY DEF Tables, RowTyped
<1>3. new \notin rows  BY <1>1, <1>2
<1>4. IsFiniteSet(rows') /\ Cardinality(rows') = Cardinality(rows) + 1
      BY <1>1, <1>3, FS_AddElement DEF Table
<1>5. \A r \in rows' : RowTyped(r)'
  <2>1. \A k : k \in 1 .. nextId => k \in 1 .. nextId'  BY <1>1
  <2>2. \A r \in rows : RowTyped(r)'  BY <2>1 DEF Tables, RowTyped
  <2>3. new.id \in 1 .. nextId' /\ new.session \in 1 .. starts'
    <3>1. new.session \in 1 .. starts  BY <1>1
    <3>2. nextId + 1 \in 1 .. nextId + 1  BY <1>1
    <3>3. new.id \in 1 .. nextId'  BY <3>2
    <3> QED  BY <3>1, <3>3
  <2>4. RowTyped(new)'  BY <2>3 DEF RowTyped
  <2> QED  BY <2>2, <2>4
<1>6. Table(rows)'
  <2>1. new.id \in Nat /\ new.at \in Nat  BY <1>1, EvidenceBounds
  <2>2. \A r \in rows : r.id # new.id  BY <1>1, <1>2
  <2> QED  BY <1>1, <1>4, <2>1, <2>2 DEF Table
<1>7. ReferencesHold'  BY DEF Tables, ReferencesHold
<1> QED  BY <1>1, <1>4, <1>5, <1>6, <1>7 DEF Tables

-----------------------------------------------------------------------------
(* Every step keeps the invariant.                                         *)

LEMMA EvidenceInit == Init => EvidenceInv
<1> SUFFICES ASSUME Init PROVE EvidenceInv  OBVIOUS
<1> USE DEF Init
<1>1. Actors
  <2>1. NoVerdict \in [target : Targets \cup {0}, state : Verdicts \cup {"none", "no_evidence"}]
        BY DEF NoVerdict
  <2>2. <<>> \in Seq(Asks) /\ Len(<<>>) = 0  OBVIOUS
  <2>3. \A p \in Procs : Process(p)
    <3>1. "down" \notin Alive  BY DEF Alive, Opening, Writing
    <3> QED  BY <2>2, <3>1, EvidenceBounds DEF Process
  <2>4. 0 \in Nat /\ 0 \in 0 .. starts  OBVIOUS
  <2> QED  BY <2>1, <2>2, <2>3, <2>4 DEF Actors, Down
<1>2. Counters
  <2>1. 0 \in 0 .. MaxClock /\ 0 \in 0 .. MaxStarts /\ 0 \in 0 .. MaxOffers /\ 0 \in 0 .. MaxFaults
        BY EvidenceBounds
  <2> QED  BY <2>1 DEF Counters
<1>3. Tables  BY FS_EmptySet DEF Tables, Table, ReferencesHold
<1>4. Accounted
  <2>1. \A x \in Procs : Books[x] \in Nat  BY <1>1 DEF Actors, Books, Written
  <2>2. Owed(Books, Procs) \in Nat  BY <2>1, EvidenceAssumption, DebtsFinite
  <2>3. Cardinality(rows) = 0 /\ untrimmed = 0  BY FS_EmptySet
  <2> QED  BY <2>2, <2>3, EvidenceBounds DEF Accounted
<1> QED  BY <1>1, <1>2, <1>3, <1>4 DEF EvidenceInv

\* A process as it is.
LEMMA Present ==
    ASSUME Actors, Counters, NEW p \in Procs
    PROVE  /\ life = [life EXCEPT ![p] = life[p]] /\ session = [session EXCEPT ![p] = session[p]]
           /\ queue = [queue EXCEPT ![p] = queue[p]] /\ step = [step EXCEPT ![p] = step[p]]
           /\ current = [current EXCEPT ![p] = current[p]]
           /\ since = [since EXCEPT ![p] = since[p]]
           /\ verdict = [verdict EXCEPT ![p] = verdict[p]]
           /\ life[p] \in Down \cup Alive /\ session[p] \in 0 .. starts
           /\ queue[p] \in Seq(Asks) /\ Len(queue[p]) <= QueueSize
           /\ step[p] \in {"idle", "assess", "count"} /\ current[p] \in Asks \cup {NoRequest}
           /\ since[p] \in Nat
           /\ verdict[p] \in [target : Targets \cup {0},
                              state : Verdicts \cup {"none", "no_evidence"}]
           /\ step[p] # "idle" => life[p] \in Writing /\ current[p] \in Asks
           /\ life[p] \in Alive => session[p] \in 1 .. starts
           /\ starts \in Nat /\ untrimmed \in Nat
           /\ Books[p] = WrittenIn(life[p], step[p], since[p]) /\ Books[p] \in Nat
<1>1. Process(p)  BY DEF Actors
<1>2. Books[p] = WrittenIn(life[p], step[p], since[p]) /\ Books[p] \in Nat
      BY DEF Actors, Books, Written, WrittenIn
<1>3. starts \in Nat /\ untrimmed \in Nat  BY EvidenceBounds DEF Counters
<1> QED  BY <1>1, <1>2, <1>3 DEF Actors, Process

LEMMA ProcessSteps ==
    ASSUME EvidenceInv, NEW p \in Procs, NEW l, NEW ss, NEW q, NEW st, NEW c, NEW n, NEW v,
           Becomes(p, l, ss, q, st, c, n, v), Counters', Tables',
           \/ Cardinality(rows') <= MaxRows
           \/ Cardinality(rows') + untrimmed + Books[p]
                 <= Cardinality(rows) + untrimmed' + WrittenIn(l, st, n)
    PROVE  EvidenceInv'
<1>1. /\ Actors' /\ \A x \in Procs \ {p} : Books'[x] = Books[x]
      /\ Books'[p] = WrittenIn(l, st, n) /\ \A x \in Procs : Books'[x] \in Nat
      BY ProcessBecomes DEF EvidenceInv
<1>2. Table(rows) /\ Table(rows)' /\ untrimmed' \in Nat
      BY DEF EvidenceInv, Tables, Counters
<1>3. Accounted'  BY <1>1, <1>2, AccountedStep DEF EvidenceInv
<1> QED  BY <1>1, <1>3 DEF EvidenceInv

\* Steps that touch neither the tables nor what is counted since a trim.
LEMMA QuietSteps ==
    ASSUME EvidenceInv, NEW p \in Procs, NEW l, NEW ss, NEW q, NEW st, NEW c, NEW n, NEW v,
           Becomes(p, l, ss, q, st, c, n, v), Counters', UNCHANGED <<tables, untrimmed>>,
           Books[p] <= WrittenIn(l, st, n)
    PROVE  EvidenceInv'
<1>1. starts' \in Nat /\ starts <= starts'  BY DEF Becomes
<1>2. Tables'  BY <1>1, TablesSame DEF EvidenceInv
<1>3. rows' = rows /\ untrimmed' = untrimmed  BY DEF tables
<1>4. Cardinality(rows) \in Nat  BY FS_CardinalityType DEF EvidenceInv, Tables, Table
<1>5. Books[p] \in Nat /\ untrimmed \in Nat  BY Present DEF EvidenceInv
<1>6. n \in Nat  BY DEF Becomes
<1>7. WrittenIn(l, st, n) \in Nat  BY <1>6 DEF WrittenIn
<1>8. Cardinality(rows') + untrimmed + Books[p]
                 <= Cardinality(rows) + untrimmed' + WrittenIn(l, st, n)
      BY <1>3, <1>4, <1>5, <1>7
<1> QED  BY <1>2, <1>8, ProcessSteps

LEMMA LifeSets ==
    /\ Down \cap Alive = {} /\ Writing \subseteq Alive /\ Opening \subseteq Alive
    /\ Opening \cap (Writing \cup {"finaltrim"}) = {} /\ "finaltrim" \notin Writing
    /\ Opening = {"pruning", "trimming", "starting"} /\ Writing = {"up", "closing", "expired"}
    /\ Down = {"down", "clean"}
    /\ Alive = {"pruning", "trimming", "starting", "up", "closing", "expired", "finaltrim"}
BY DEF Down, Alive, Writing, Opening

LEMMA StartKeeps ==
    ASSUME EvidenceInv, NEW p \in Procs, Start(p) PROVE EvidenceInv'
<1> USE DEF Start, EvidenceInv
<1> DEFINE v == [target |-> 0, state |-> "none"]
<1>1. starts' = starts + 1 /\ starts < MaxStarts /\ UNCHANGED <<tables, untrimmed>>  OBVIOUS
<1>2. Counters'
  <2>1. starts' \in 0 .. MaxStarts  BY <1>1, EvidenceBounds DEF Counters
  <2> QED  BY <2>1 DEF Counters
<1>3. starts \in Nat /\ starts' \in Nat /\ starts' \in 1 .. starts' /\ starts' \in 0 .. starts'
      /\ starts <= starts'
      BY <1>1, Present
<1>4. step[p] = "idle"  BY Present, LifeSets
<1>5. Books[p] <= WrittenIn("pruning", step[p], since[p])  BY Present, LifeSets DEF WrittenIn
<1>6. v \in [target : Targets \cup {0}, state : Verdicts \cup {"none", "no_evidence"}]  OBVIOUS
<1>7. Becomes(p, "pruning", starts', queue[p], step[p], current[p], since[p], v)
  <2>1. /\ life' = [life EXCEPT ![p] = "pruning"] /\ session' = [session EXCEPT ![p] = starts']
        /\ verdict' = [verdict EXCEPT ![p] = v]
        BY DEF NoVerdict
  <2>2. queue' = queue /\ step' = step /\ current' = current /\ since' = since  BY DEF writer
  <2>3. "pruning" \in Down \cup Alive  BY LifeSets
  <2> QED  BY <1>3, <1>4, <1>6, <2>1, <2>2, <2>3, Present DEF Becomes
<1> QED  BY <1>1, <1>2, <1>5, <1>7, QuietSteps

LEMMA PruneKeeps ==
    ASSUME EvidenceInv, NEW p \in Procs, Prune(p) PROVE EvidenceInv'
<1> USE DEF Prune, Moves, EvidenceInv
<1>1. Counters'  BY DEF Counters
<1>2. Tables' /\ Cardinality(rows') <= Cardinality(rows)
  <2>1. Unexpired(rows, now - Retention) \subseteq rows  BY DEF Unexpired
  <2> QED  BY <2>1, TablesKept
<1>3. step[p] = "idle"  BY Present, LifeSets
<1>4. Books[p] = 0 /\ WrittenIn("trimming", step[p], since[p]) = 0
      BY Present, LifeSets DEF WrittenIn
<1>5. Becomes(p, "trimming", session[p], queue[p], step[p], current[p], since[p], verdict[p])
  <2>1. /\ life' = [life EXCEPT ![p] = "trimming"] /\ session' = session /\ verdict' = verdict
        /\ queue' = queue /\ step' = step /\ current' = current /\ since' = since
        /\ starts' = starts
        BY DEF writer
  <2>2. "trimming" \in Down \cup Alive /\ life[p] \in Alive  BY LifeSets
  <2> QED  BY <1>3, <2>1, <2>2, Present DEF Becomes
<1>6. Cardinality(rows') \in Nat /\ Cardinality(rows) \in Nat
      BY <1>2, FS_CardinalityType DEF Tables, Table
<1>7. Cardinality(rows') + untrimmed + Books[p]
                 <= Cardinality(rows) + untrimmed' + WrittenIn("trimming", step[p], since[p])
      BY <1>2, <1>4, <1>6, Present
<1> QED  BY <1>1, <1>2, <1>5, <1>7, ProcessSteps

LEMMA TrimAtStartKeeps ==
    ASSUME EvidenceInv, NEW p \in Procs, TrimAtStart(p) PROVE EvidenceInv'
<1> USE DEF TrimAtStart, Moves, EvidenceInv
<1>1. Tables' /\ Cardinality(rows') <= MaxRows /\ untrimmed' = 0 /\ faults' = faults
      BY TablesTrimmed
<1>2. Counters'  BY <1>1 DEF Counters
<1>3. step[p] = "idle"  BY Present, LifeSets
<1>4. Becomes(p, "starting", session[p], queue[p], step[p], current[p], since[p], verdict[p])
  <2>1. /\ life' = [life EXCEPT ![p] = "starting"] /\ session' = session /\ verdict' = verdict
        /\ queue' = queue /\ step' = step /\ current' = current /\ since' = since
        /\ starts' = starts
        BY DEF writer
  <2>2. "starting" \in Down \cup Alive /\ life[p] \in Alive  BY LifeSets
  <2> QED  BY <1>3, <2>1, <2>2, Present DEF Becomes
<1> QED  BY <1>1, <1>2, <1>4, ProcessSteps

LEMMA StartSessionKeeps ==
    ASSUME EvidenceInv, NEW p \in Procs, StartSession(p) PROVE EvidenceInv'
<1> USE DEF StartSession, Moves, EvidenceInv
<1>1. Counters'  BY DEF Counters
<1>2. Tables'
  <2>1. rows' = rows /\ nextId' = nextId /\ sessions' = sessions \cup {session[p]}
        /\ starts' = starts
        OBVIOUS
  <2>2. session[p] \in 1 .. starts  BY Present, LifeSets
  <2> QED  BY <2>1, <2>2 DEF Tables, RowTyped, Table, ReferencesHold
<1>3. Books[p] = 0  BY Present, LifeSets DEF WrittenIn
<1>4. Becomes(p, "up", session[p], <<>>, "idle", NoRequest, 0, verdict[p])
  <2>1. /\ life' = [life EXCEPT ![p] = "up"] /\ session' = session /\ verdict' = verdict
        /\ queue' = [queue EXCEPT ![p] = <<>>] /\ step' = [step EXCEPT ![p] = "idle"]
        /\ current' = [current EXCEPT ![p] = NoRequest] /\ since' = [since EXCEPT ![p] = 0]
        /\ starts' = starts
        OBVIOUS
  <2>2. "up" \in Down \cup Alive /\ life[p] \in Alive  BY LifeSets
  <2>3. <<>> \in Seq(Asks) /\ Len(<<>>) <= QueueSize  BY EvidenceBounds
  <2> QED  BY <2>1, <2>2, <2>3, Present DEF Becomes
<1>5. WrittenIn("up", "idle", 0) = 0  BY DEF WrittenIn
<1>6. Cardinality(rows) \in Nat /\ untrimmed \in Nat
      BY FS_CardinalityType, Present DEF Tables, Table
<1>7. Cardinality(rows') + untrimmed + Books[p]
                 <= Cardinality(rows) + untrimmed' + WrittenIn("up", "idle", 0)
      BY <1>3, <1>5, <1>6
<1> QED  BY <1>1, <1>2, <1>4, <1>7, ProcessSteps

LEMMA FaultCounts ==
    ASSUME Counters, Fault, starts' = starts, offers' = offers, now' = now
    PROVE  Counters' /\ UNCHANGED <<tables, untrimmed>>
<1>1. faults' \in 0 .. MaxFaults  BY EvidenceBounds DEF Counters, Fault
<1> QED  BY <1>1 DEF Counters, Fault

LEMMA OpenFailsKeeps ==
    ASSUME EvidenceInv, NEW p \in Procs, OpenFails(p) PROVE EvidenceInv'
<1> USE DEF OpenFails, EvidenceInv
<1>1. Counters' /\ UNCHANGED <<tables, untrimmed>>  BY FaultCounts
<1>2. step[p] = "idle"  BY Present, LifeSets
<1>3. Books[p] = 0 /\ WrittenIn("down", step[p], since[p]) = 0
      BY Present, LifeSets DEF WrittenIn
<1>4. Becomes(p, "down", session[p], queue[p], step[p], current[p], since[p], verdict[p])
  <2>1. /\ life' = [life EXCEPT ![p] = "down"] /\ session' = session /\ verdict' = verdict
        /\ queue' = queue /\ step' = step /\ current' = current /\ since' = since
        /\ starts' = starts
        BY DEF writer
  <2>2. "down" \in Down \cup Alive /\ "down" \notin Alive  BY LifeSets
  <2> QED  BY <1>2, <2>1, <2>2, Present DEF Becomes
<1> QED  BY <1>1, <1>3, <1>4, QuietSteps

LEMMA EnqueueKeeps ==
    ASSUME EvidenceInv, NEW p \in Procs, NEW t \in Targets, NEW path \in Paths, Enqueue(p, t, path)
    PROVE  EvidenceInv'
<1> USE DEF Enqueue, EvidenceInv
<1> DEFINE new == [target |-> t, direction |-> path, at |-> now]
           q == IF Len(queue[p]) < QueueSize THEN Append(queue[p], new) ELSE queue[p]
<1>1. Counters'
  <2>1. offers' \in 0 .. MaxOffers  BY EvidenceBounds DEF Counters
  <2> QED  BY <2>1 DEF Counters, tables
<1>2. new \in Asks  BY DEF Asks, Counters
<1>3. q \in Seq(Asks) /\ Len(q) <= QueueSize
  <2>1. queue[p] \in Seq(Asks) /\ Len(queue[p]) <= QueueSize /\ QueueSize \in Nat
        BY Present, EvidenceBounds
  <2> HIDE DEF new
  <2>2. Append(queue[p], new) \in Seq(Asks) /\ Len(Append(queue[p], new)) = Len(queue[p]) + 1
        BY <1>2, <2>1
  <2>3. Len(queue[p]) \in Nat  BY <2>1
  <2> QED  BY <2>1, <2>2, <2>3
<1>4. queue' = [queue EXCEPT ![p] = q]
  <2>1. CASE Len(queue[p]) < QueueSize  BY <2>1 DEF Actors
  <2>2. CASE ~(Len(queue[p]) < QueueSize)  BY <2>2, Present
  <2> QED  BY <2>1, <2>2
<1>5. Becomes(p, life[p], session[p], q, step[p], current[p], since[p], verdict[p])
  <2>1. /\ life' = life /\ session' = session /\ verdict' = verdict
        /\ step' = step /\ current' = current /\ since' = since /\ starts' = starts
        OBVIOUS
  <2> HIDE DEF q, new, Enqueue
  <2> QED  BY <1>3, <1>4, <2>1, Present DEF Becomes
<1>6. Books[p] <= WrittenIn(life[p], step[p], since[p])  BY Present
<1> HIDE DEF q
<1> QED  BY <1>1, <1>5, <1>6, QuietSteps

LEMMA Taking ==
    ASSUME Actors, Counters, NEW p \in Procs, Take(p)
    PROVE  /\ queue[p] \in Seq(Asks) /\ queue[p] # <<>> /\ Head(queue[p]) \in Asks
           /\ Tail(queue[p]) \in Seq(Asks) /\ Len(Tail(queue[p])) <= QueueSize
           /\ queue' = [queue EXCEPT ![p] = Tail(queue[p])]
           /\ life[p] \in Writing /\ step[p] = "idle" /\ session[p] \in 1 .. starts
           /\ Books[p] = since[p]
<1>1. queue[p] \in Seq(Asks) /\ queue[p] # <<>> /\ Len(queue[p]) <= QueueSize
      BY Present DEF Take
<1>2. Head(queue[p]) \in Asks /\ Tail(queue[p]) \in Seq(Asks)
      /\ Len(Tail(queue[p])) = Len(queue[p]) - 1 /\ Len(queue[p]) \in Nat \ {0}
      BY <1>1, Heads
<1>3. queue' = [queue EXCEPT ![p] = Tail(queue[p])]  BY DEF Take, Actors
<1>4. life[p] \in Writing /\ step[p] = "idle" /\ session[p] \in 1 .. starts
      BY Present, LifeSets DEF Take
<1>5. Books[p] = since[p]  BY <1>4, Present DEF WrittenIn
<1> QED  BY <1>1, <1>2, <1>3, <1>4, <1>5, EvidenceBounds

LEMMA AppendRowKeeps ==
    ASSUME EvidenceInv, NEW p \in Procs, AppendRow(p) PROVE EvidenceInv'
<1> USE DEF EvidenceInv
<1> DEFINE request == Head(queue[p])
           new == [id |-> nextId + 1, session |-> session[p], target |-> request.target,
                   direction |-> request.direction, at |-> request.at]
<1>1. /\ Take(p) /\ session[p] \in sessions /\ rows' = rows \cup {new}
      /\ current' = [current EXCEPT ![p] = request] /\ nextId' = nextId + 1
      /\ step' = [step EXCEPT ![p] = "assess"] /\ sessions' = sessions
      /\ UNCHANGED <<faults, untrimmed>>
      BY DEF AppendRow
<1>2. /\ now' = now /\ life' = life /\ session' = session /\ since' = since
      /\ verdict' = verdict /\ starts' = starts /\ offers' = offers
      BY <1>1 DEF Take
<1>3. Counters'  BY <1>1, <1>2 DEF Counters
<1>4. request \in Asks  BY <1>1, Taking
<1>5. Tables' /\ Cardinality(rows') = Cardinality(rows) + 1
  <2>1. request.target \in Targets /\ request.direction \in Paths /\ request.at \in 0 .. MaxClock
        BY <1>4, RequestTypes
  <2>2. /\ new.id = nextId + 1 /\ new.session \in sessions /\ new.target \in Targets
        /\ new.direction \in Paths /\ new.at \in 0 .. MaxClock
        BY <1>1, <2>1
  <2> HIDE DEF request, new
  <2> QED  BY <1>1, <1>2, <2>2, TablesAppended
<1> HIDE DEF request, new
<1>6. Becomes(p, life[p], session[p], Tail(queue[p]), "assess", request, since[p], verdict[p])
  <2>1. /\ queue' = [queue EXCEPT ![p] = Tail(queue[p])] /\ Tail(queue[p]) \in Seq(Asks)
        /\ Len(Tail(queue[p])) <= QueueSize /\ life[p] \in Writing
        BY <1>1, Taking
  <2> QED  BY <1>1, <1>2, <1>4, <2>1, Present DEF Becomes
<1>7. WrittenIn(life[p], "assess", since[p]) = since[p] + 1 /\ Books[p] = since[p]
      BY <1>1, Taking DEF WrittenIn
<1>8. Cardinality(rows) \in Nat /\ untrimmed \in Nat /\ since[p] \in Nat
      BY FS_CardinalityType, Present DEF Tables, Table
<1>9. Cardinality(rows') + untrimmed + Books[p]
                 <= Cardinality(rows) + untrimmed' + WrittenIn(life[p], "assess", since[p])
      BY <1>1, <1>5, <1>7, <1>8
<1> QED  BY <1>3, <1>5, <1>6, <1>9, ProcessSteps

LEMMA AppendFailsKeeps ==
    ASSUME EvidenceInv, NEW p \in Procs, AppendFails(p) PROVE EvidenceInv'
<1> USE DEF EvidenceInv
<1>1. /\ Take(p) /\ now' = now /\ life' = life /\ session' = session /\ since' = since
      /\ verdict' = verdict /\ starts' = starts /\ offers' = offers
      /\ step' = step /\ current' = current
      BY DEF AppendFails, Take
<1>2. Counters' /\ UNCHANGED <<tables, untrimmed>>
  <2>1. CASE Fault  BY <1>1, <2>1, FaultCounts
  <2>2. CASE UNCHANGED <<tables, faults, untrimmed>>  BY <1>1, <2>2 DEF Counters
  <2> QED  BY <2>1, <2>2 DEF AppendFails
<1>3. Becomes(p, life[p], session[p], Tail(queue[p]), step[p], current[p], since[p], verdict[p])
  <2>1. /\ queue' = [queue EXCEPT ![p] = Tail(queue[p])] /\ Tail(queue[p]) \in Seq(Asks)
        /\ Len(Tail(queue[p])) <= QueueSize
        BY <1>1, Taking
  <2> QED  BY <1>1, <2>1, Present DEF Becomes
<1>4. Books[p] <= WrittenIn(life[p], step[p], since[p])  BY Present
<1> QED  BY <1>2, <1>3, <1>4, QuietSteps

\* An assessment says one thing of each way the counts can be.
LEMMA VerdictOfCounts ==
    ASSUME NEW summary
    PROVE  /\ Evaluate(summary) \in Verdicts \cup {"no_evidence"}
           /\ Evaluate(summary) = "no_evidence" <=> \A path \in Paths : ~(summary.wins[path] > 0)
           /\ Evaluate(summary) \in Paths =>
                 /\ Supported(summary, Evaluate(summary))
                 /\ \A path \in Paths : summary.wins[path] > 0 => path = Evaluate(summary)
<1> DEFINE winners == {path \in Paths : summary.wins[path] > 0}
<1>1. winners \in {{}, Paths, {Direct}, {Proxy}}  BY DEF Paths
<1>2. Direct \in Paths /\ Proxy \in Paths /\ Direct # Proxy /\ Paths = {Direct, Proxy}
      BY DEF Paths, Direct, Proxy
<1>3. CASE winners = {}  BY <1>2, <1>3 DEF Evaluate, Verdicts, Paths, Direct, Proxy
<1>4. CASE winners = Paths
  <2>1. Evaluate(summary) = "conflicting"  BY <1>2, <1>4 DEF Evaluate
  <2> QED  BY <1>2, <1>4, <2>1 DEF Verdicts, Paths, Direct, Proxy
<1>5. CASE winners = {Direct}
  <2>1. Evaluate(summary) = IF Supported(summary, Direct) THEN Direct ELSE "insufficient"
        BY <1>2, <1>5 DEF Evaluate
  <2> QED  BY <1>2, <1>5, <2>1 DEF Verdicts, Paths, Direct, Proxy
<1>6. CASE winners = {Proxy}
  <2>1. Evaluate(summary) = IF Supported(summary, Proxy) THEN Proxy ELSE "insufficient"
        BY <1>2, <1>6 DEF Evaluate
  <2> QED  BY <1>2, <1>6, <2>1 DEF Verdicts, Paths, Direct, Proxy
<1> QED  BY <1>1, <1>3, <1>4, <1>5, <1>6

LEMMA AssessKeeps ==
    ASSUME EvidenceInv, NEW p \in Procs, Assess(p) PROVE EvidenceInv'
<1> USE DEF EvidenceInv
<1> DEFINE summary == Summarize(rows, current[p].target, Cutoff(p))
           new == [target |-> current[p].target, state |-> Evaluate(summary)]
           v == verdict'[p]
<1>1. /\ life[p] \in Writing /\ step[p] = "assess" /\ step' = [step EXCEPT ![p] = "count"]
      /\ UNCHANGED <<now, life, session, queue, current, since, starts, offers>>
      BY DEF Assess
<1>2. life[p] \in Writing /\ current[p] \in Asks  BY <1>1, Present
<1>3. new \in [target : Targets \cup {0}, state : Verdicts \cup {"none", "no_evidence"}]
  <2>1. current[p].target \in Targets  BY <1>2, RequestTypes
  <2>2. Evaluate(summary) \in Verdicts \cup {"no_evidence"}
    <3> HIDE DEF summary
    <3> QED  BY VerdictOfCounts
  <2> HIDE DEF summary
  <2> QED  BY <2>1, <2>2
<1>4. Counters' /\ UNCHANGED <<tables, untrimmed>>
  <2>1. CASE Fault  BY <1>1, <2>1, FaultCounts
  <2>2. CASE UNCHANGED <<tables, faults, untrimmed>>  BY <1>1, <2>2 DEF Counters
  <2> QED  BY <2>1, <2>2 DEF Assess
<1>5. /\ verdict' = [verdict EXCEPT ![p] = v]
      /\ v \in [target : Targets \cup {0}, state : Verdicts \cup {"none", "no_evidence"}]
  <2>1. CASE verdict' = verdict  BY <2>1, Present
  <2>2. CASE verdict' = [verdict EXCEPT ![p] = new]
    <3> HIDE DEF new
    <3>1. v = new  BY <2>2 DEF Actors
    <3> QED  BY <1>3, <2>2, <3>1
  <2> QED  BY <2>1, <2>2 DEF Assess
<1> HIDE DEF v
<1>6. Becomes(p, life[p], session[p], queue[p], "count", current[p], since[p], v)
      BY <1>1, <1>2, <1>5, Present DEF Becomes
<1>7. Books[p] <= WrittenIn(life[p], "count", since[p])  BY <1>1, Present DEF WrittenIn
<1> QED  BY <1>4, <1>6, <1>7, QuietSteps

LEMMA CountKeeps ==
    ASSUME EvidenceInv, NEW p \in Procs, Count(p) PROVE EvidenceInv'
<1> USE DEF EvidenceInv
<1>1. /\ life[p] \in Writing /\ step[p] = "count" /\ step' = [step EXCEPT ![p] = "idle"]
      /\ current' = [current EXCEPT ![p] = NoRequest]
      /\ UNCHANGED <<now, life, session, queue, verdict, starts, offers>>
      BY DEF Count
<1>2. Books[p] = since[p] + 1 /\ since[p] \in Nat
      /\ \A n : WrittenIn(life[p], "idle", n) = n + 0
      BY <1>1, Present DEF WrittenIn
<1>3. ASSUME NEW n \in Nat, since' = [since EXCEPT ![p] = n]
      PROVE  Becomes(p, life[p], session[p], queue[p], "idle", NoRequest, n, verdict[p])
      BY <1>1, <1>3, Present DEF Becomes
<1>4. CASE Trim /\ since' = [since EXCEPT ![p] = 0]
  <2>1. Tables' /\ Cardinality(rows') <= MaxRows /\ untrimmed' = 0 /\ faults' = faults
        BY <1>1, <1>4, TablesTrimmed
  <2>2. Counters'  BY <1>1, <2>1 DEF Counters
  <2>3. Becomes(p, life[p], session[p], queue[p], "idle", NoRequest, 0, verdict[p])
        BY <1>3, <1>4
  <2> QED  BY <2>1, <2>2, <2>3, ProcessSteps
<1>5. CASE since' = [since EXCEPT ![p] = @ + 1] /\ (Fault \/ UNCHANGED <<tables, faults, untrimmed>>)
  <2>1. Counters' /\ UNCHANGED <<tables, untrimmed>>
    <3>1. CASE Fault  BY <1>1, <3>1, FaultCounts
    <3>2. CASE UNCHANGED <<tables, faults, untrimmed>>  BY <1>1, <3>2 DEF Counters
    <3> QED  BY <1>5, <3>1, <3>2
  <2>2. since' = [since EXCEPT ![p] = since[p] + 1] /\ since[p] + 1 \in Nat
        BY <1>2, <1>5 DEF Actors
  <2>3. Becomes(p, life[p], session[p], queue[p], "idle", NoRequest, since[p] + 1, verdict[p])
        BY <1>3, <2>2
  <2>4. Books[p] <= WrittenIn(life[p], "idle", since[p] + 1)  BY <1>2
  <2> QED  BY <2>1, <2>3, <2>4, QuietSteps
<1> QED  BY <1>4, <1>5 DEF Count

\* Close, the drained queue and the missed deadline move the process only.
LEMMA MovesKeep ==
    ASSUME EvidenceInv, NEW p \in Procs, NEW from, NEW to, Moves(p, from, to),
           from \in Writing, to \in Writing \/ (to = "finaltrim" /\ step[p] = "idle"),
           UNCHANGED <<tables, now, session, writer, verdict, starts, offers, faults, untrimmed>>
    PROVE  EvidenceInv'
<1> USE DEF EvidenceInv
<1>1. /\ life' = [life EXCEPT ![p] = to] /\ session' = session /\ queue' = queue /\ step' = step
      /\ current' = current /\ since' = since /\ verdict' = verdict /\ starts' = starts
      /\ offers' = offers /\ faults' = faults /\ untrimmed' = untrimmed /\ now' = now
      /\ UNCHANGED tables
      BY DEF Moves, writer
<1>2. Counters'  BY <1>1 DEF Counters
<1>3. life[p] \in Alive /\ to \in Alive  BY LifeSets DEF Moves
<1>4. Becomes(p, to, session[p], queue[p], step[p], current[p], since[p], verdict[p])
      BY <1>1, <1>3, Present DEF Becomes
<1>5. Books[p] <= WrittenIn(to, step[p], since[p])  BY Present, LifeSets DEF WrittenIn, Moves
<1> QED  BY <1>1, <1>2, <1>4, <1>5, QuietSteps

LEMMA ClosingKeeps ==
    ASSUME EvidenceInv, NEW p \in Procs, Close(p) \/ Drained(p) \/ Deadline(p) PROVE EvidenceInv'
<1>1. CASE Close(p)  BY <1>1, MovesKeep, LifeSets DEF Close
<1>2. CASE Drained(p)  BY <1>2, MovesKeep, LifeSets DEF Drained
<1>3. CASE Deadline(p)  BY <1>3, MovesKeep, LifeSets DEF Deadline
<1> QED  BY <1>1, <1>2, <1>3

\* A process that ends, with its debt passed on or paid.
LEMMA GoneBecomes ==
    ASSUME Actors, Counters, NEW p \in Procs, NEW l \in Down, life' = [life EXCEPT ![p] = l],
           Gone(p), UNCHANGED <<session, verdict, starts>>
    PROVE  /\ Becomes(p, l, session[p], <<>>, "idle", NoRequest, 0, verdict[p])
           /\ WrittenIn(l, "idle", 0) = 0
<1>1. /\ queue' = [queue EXCEPT ![p] = <<>>] /\ step' = [step EXCEPT ![p] = "idle"]
      /\ current' = [current EXCEPT ![p] = NoRequest] /\ since' = [since EXCEPT ![p] = 0]
      BY DEF Gone
<1>2. l \notin Alive /\ l \in Down \cup Alive  BY LifeSets
<1>3. <<>> \in Seq(Asks) /\ Len(<<>>) <= QueueSize  BY EvidenceBounds
<1> QED  BY <1>1, <1>2, <1>3, Present DEF Becomes, WrittenIn

LEMMA EndingKeeps ==
    ASSUME EvidenceInv, NEW p \in Procs, NEW l \in Down, life' = [life EXCEPT ![p] = l], Gone(p),
           UNCHANGED <<session, verdict, starts, tables>>, Counters',
           untrimmed' = untrimmed + Written(p)
    PROVE  EvidenceInv'
<1> USE DEF EvidenceInv
<1>1. /\ Becomes(p, l, session[p], <<>>, "idle", NoRequest, 0, verdict[p])
      /\ WrittenIn(l, "idle", 0) = 0
      BY GoneBecomes
<1>2. starts' = starts /\ rows' = rows /\ starts \in Nat  BY Present DEF tables
<1>3. Tables'  BY <1>2, TablesSame
<1>4. Cardinality(rows) \in Nat  BY FS_CardinalityType DEF Tables, Table
<1>5. Books[p] = Written(p) /\ Books[p] \in Nat /\ untrimmed \in Nat
      BY BooksAreNumbers, Present
<1>6. Cardinality(rows') + untrimmed + Books[p]
                 <= Cardinality(rows) + untrimmed' + WrittenIn(l, "idle", 0)
      BY <1>1, <1>2, <1>4, <1>5
<1> QED  BY <1>1, <1>3, <1>6, ProcessSteps

LEMMA FinalTrimKeeps ==
    ASSUME EvidenceInv, NEW p \in Procs, FinalTrim(p) PROVE EvidenceInv'
<1> USE DEF EvidenceInv
<1>1. Gone(p) /\ UNCHANGED <<now, session, verdict, starts, offers>>  BY DEF FinalTrim
<1>2. "clean" \in Down /\ "down" \in Down  BY LifeSets
<1>3. CASE Moves(p, "finaltrim", "clean") /\ Trim
  <2>1. Tables' /\ Cardinality(rows') <= MaxRows /\ untrimmed' = 0 /\ faults' = faults
        BY <1>1, <1>3, TablesTrimmed
  <2>2. Counters'  BY <1>1, <2>1 DEF Counters
  <2>3. Becomes(p, "clean", session[p], <<>>, "idle", NoRequest, 0, verdict[p])
        BY <1>1, <1>2, <1>3, GoneBecomes DEF Moves
  <2> QED  BY <2>1, <2>2, <2>3, ProcessSteps
<1>4. CASE /\ Moves(p, "finaltrim", "down")
           /\ faults < MaxFaults /\ faults' = faults + 1
           /\ untrimmed' = untrimmed + Written(p)
           /\ UNCHANGED tables
  <2>1. faults' \in 0 .. MaxFaults  BY <1>4, EvidenceBounds DEF Counters
  <2>2. untrimmed' \in Nat  BY <1>4, BooksAreNumbers DEF Counters
  <2>3. Counters'  BY <1>1, <2>1, <2>2 DEF Counters
  <2> QED  BY <1>1, <1>2, <1>4, <2>3, EndingKeeps DEF Moves
<1> QED  BY <1>3, <1>4 DEF FinalTrim

LEMMA ExitKeeps ==
    ASSUME EvidenceInv, NEW p \in Procs, Exit(p) PROVE EvidenceInv'
<1> USE DEF EvidenceInv, Exit
<1>1. untrimmed' \in Nat  BY BooksAreNumbers DEF Counters
<1>2. Counters'  BY <1>1 DEF Counters
<1>3. "down" \in Down  BY LifeSets
<1> QED  BY <1>2, <1>3, EndingKeeps

LEMMA ClockKeeps ==
    ASSUME EvidenceInv, Clock PROVE EvidenceInv'
<1> USE DEF EvidenceInv, Clock
<1>1. Counters'
  <2>1. now' \in 0 .. MaxClock  BY EvidenceBounds DEF Counters
  <2> QED  BY <2>1 DEF Counters
<1>2. starts' = starts /\ starts \in Nat  BY EvidenceBounds DEF Counters
<1>3. Tables'  BY <1>2, TablesSame
<1>4. Actors'  BY DEF Actors, Process, writer
<1>5. Accounted'  BY DEF Accounted, Books, Written, writer, tables
<1> QED  BY <1>1, <1>3, <1>4, <1>5

LEMMA EvidenceStutters ==
    ASSUME EvidenceInv, UNCHANGED vars PROVE EvidenceInv'
<1> USE DEF EvidenceInv, vars, tables, writer
<1>1. Actors'  BY DEF Actors, Process
<1>2. Tables'  BY DEF Tables, Table, RowTyped, ReferencesHold
<1> QED  BY <1>1, <1>2 DEF Counters, Accounted, Books, Written

LEMMA EvidenceNext ==
    ASSUME EvidenceInv, [Next]_vars PROVE EvidenceInv'
<1>1. CASE UNCHANGED vars  BY <1>1, EvidenceStutters
<1>2. CASE Next
  BY <1>2, ClockKeeps, StartKeeps, PruneKeeps, TrimAtStartKeeps, StartSessionKeeps, OpenFailsKeeps,
     EnqueueKeeps, AppendRowKeeps, AppendFailsKeeps, AssessKeeps, CountKeeps, ClosingKeeps,
     FinalTrimKeeps, ExitKeeps
     DEF Next
<1> QED  BY <1>1, <1>2

-----------------------------------------------------------------------------
(* The numbers: what a writer owes, and where the ceiling is exact.        *)

AtRest(l) == \A p \in Procs : l[p] \in {"starting", "clean"}
CeilingInv ==
    /\ \A p \in Procs : since[p] =< TrimEvery - 1 + faults
    /\ AtRest(life) => Cardinality(rows) =< MaxRows

LEMMA CeilingInit == Init => CeilingInv
<1> SUFFICES ASSUME Init PROVE CeilingInv  OBVIOUS
<1>1. \A p \in Procs : since[p] =< TrimEvery - 1 + faults  BY EvidenceBounds DEF Init
<1>2. Cardinality(rows) = 0  BY FS_EmptySet DEF Init
<1> QED  BY <1>1, <1>2, EvidenceBounds DEF CeilingInv

\* A counter grows only where no trim is due, or by a failure that is counted.
LEMMA CounterSteps ==
    ASSUME EvidenceInv, \A p \in Procs : since[p] =< TrimEvery - 1 + faults, Next
    PROVE  \A p \in Procs : since'[p] =< TrimEvery - 1 + faults'
<1> USE EvidenceBounds DEF EvidenceInv, Actors, Counters
<1>1. CASE Clock  BY <1>1 DEF Clock, writer
<1>2. ASSUME NEW q \in Procs,
             \/ Start(q) \/ Prune(q) \/ TrimAtStart(q) \/ OpenFails(q) \/ Close(q) \/ Drained(q)
             \/ Deadline(q) \/ \E t \in Targets, path \in Paths : Enqueue(q, t, path)
      PROVE  \A p \in Procs : since'[p] =< TrimEvery - 1 + faults'
  <2>1. since' = since /\ (faults' = faults \/ faults' = faults + 1)
        BY <1>2 DEF Start, Prune, TrimAtStart, OpenFails, Close, Drained, Deadline, Enqueue, writer,
           Trim, Fault
  <2> QED  BY <2>1
<1>3. ASSUME NEW q \in Procs, AppendRow(q) \/ AppendFails(q) \/ Assess(q)
      PROVE  \A p \in Procs : since'[p] =< TrimEvery - 1 + faults'
  <2>1. since' = since /\ (faults' = faults \/ faults' = faults + 1)
        BY <1>3 DEF AppendRow, AppendFails, Assess, Take, Fault
  <2> QED  BY <2>1
<1>4. ASSUME NEW q \in Procs, StartSession(q) \/ FinalTrim(q) \/ Exit(q)
      PROVE  \A p \in Procs : since'[p] =< TrimEvery - 1 + faults'
  <2>1. since' = [since EXCEPT ![q] = 0] /\ (faults' = faults \/ faults' = faults + 1)
        BY <1>4 DEF StartSession, FinalTrim, Exit, Gone, Trim
  <2> QED  BY <2>1
<1>5. ASSUME NEW q \in Procs, Count(q)
      PROVE  \A p \in Procs : since'[p] =< TrimEvery - 1 + faults'
  <2>1. \/ since[q] + 1 < TrimEvery /\ since' = [since EXCEPT ![q] = @ + 1] /\ faults' = faults
        \/ since' = [since EXCEPT ![q] = 0] /\ faults' = faults
        \/ since' = [since EXCEPT ![q] = @ + 1] /\ faults' = faults + 1
        BY <1>5 DEF Count, Trim, Fault
  <2>2. /\ \A p \in Procs : since[p] \in Nat
        /\ faults \in Nat /\ TrimEvery \in Nat \ {0}
        OBVIOUS
  <2>3. ASSUME NEW p \in Procs PROVE since'[p] =< TrimEvery - 1 + faults'
    <3>1. since'[p] = IF p = q THEN since'[q] ELSE since[p]  BY <2>1
    <3>2. /\ since[p] =< TrimEvery - 1 + faults /\ since[q] =< TrimEvery - 1 + faults
          /\ since[p] \in Nat /\ since[q] \in Nat
          BY <2>2
    <3>3. \/ since[q] + 1 < TrimEvery /\ since'[q] = since[q] + 1 /\ faults' = faults
          \/ since'[q] = 0 /\ faults' = faults
          \/ since'[q] = since[q] + 1 /\ faults' = faults + 1
          BY <2>1
    <3> HIDE DEF EvidenceInv, Actors, Counters
    <3> QED  BY <2>2, <3>1, <3>2, <3>3
  <2> QED  BY <2>3
<1> QED  BY <1>1, <1>2, <1>3, <1>4, <1>5 DEF Next

\* Only a trim brings a process to rest.
LEMMA RestSteps ==
    ASSUME EvidenceInv, AtRest(life) => Cardinality(rows) =< MaxRows, Next
    PROVE  AtRest(life') => Cardinality(rows') =< MaxRows
<1> USE DEF EvidenceInv, Actors
<1>1. CASE Clock  BY <1>1 DEF Clock, tables
<1>2. ASSUME NEW p \in Procs, Trim PROVE Cardinality(rows') =< MaxRows
  <2>1. rows' = Trimmed(rows)  BY <1>2 DEF Trim, Keep
  <2> QED  BY <2>1, TrimFits DEF Tables
<1>3. ASSUME NEW p \in Procs, life'[p] \notin {"starting", "clean"} PROVE ~AtRest(life')
      BY <1>3 DEF AtRest
<1>4. ASSUME NEW p \in Procs,
             \/ Start(p) \/ Prune(p) \/ StartSession(p) \/ OpenFails(p)
             \/ Close(p) \/ Drained(p) \/ Deadline(p) \/ Exit(p)
      PROVE  life'[p] \notin {"starting", "clean"}
      BY <1>4 DEF Start, Prune, StartSession, OpenFails, Close, Drained, Deadline, Exit, Moves
<1>5. ASSUME NEW p \in Procs,
             \/ \E t \in Targets, path \in Paths : Enqueue(p, t, path)
             \/ AppendRow(p) \/ AppendFails(p) \/ Assess(p) \/ Count(p)
      PROVE  life'[p] \notin {"starting", "clean"}
      BY <1>5, LifeSets DEF Enqueue, AppendRow, AppendFails, Assess, Count, Take
<1>6. ASSUME NEW p \in Procs, TrimAtStart(p) PROVE Cardinality(rows') =< MaxRows
      BY <1>2, <1>6 DEF TrimAtStart
<1>7. ASSUME NEW p \in Procs, FinalTrim(p)
      PROVE  life'[p] = "down" \/ Cardinality(rows') =< MaxRows
  <2>1. CASE Moves(p, "finaltrim", "clean") /\ Trim  BY <1>2, <2>1
  <2>2. CASE Moves(p, "finaltrim", "down")  BY <2>2 DEF Moves
  <2> QED  BY <1>7, <2>1, <2>2 DEF FinalTrim
<1>8. ASSUME NEW p \in Procs,
             \/ Start(p) \/ Prune(p) \/ TrimAtStart(p) \/ StartSession(p) \/ OpenFails(p)
             \/ \E t \in Targets, path \in Paths : Enqueue(p, t, path)
             \/ AppendRow(p) \/ AppendFails(p) \/ Assess(p) \/ Count(p)
             \/ Close(p) \/ Drained(p) \/ Deadline(p) \/ FinalTrim(p) \/ Exit(p)
      PROVE  AtRest(life') => Cardinality(rows') =< MaxRows
      BY <1>3, <1>4, <1>5, <1>6, <1>7, <1>8
<1> QED  BY <1>1, <1>8 DEF Next

LEMMA CeilingNext ==
    ASSUME EvidenceInv, CeilingInv, [Next]_vars PROVE CeilingInv'
<1>1. CASE UNCHANGED vars  BY <1>1 DEF vars, tables, writer, CeilingInv, AtRest
<1>2. CASE Next  BY <1>2, CounterSteps, RestSteps DEF CeilingInv
<1> QED  BY <1>1, <1>2

LEMMA CeilingSafe ==
    ASSUME EvidenceInv, CeilingInv PROVE CeilingKept
<1>1. ASSUME NEW p \in Procs PROVE Written(p) =< TrimEvery + faults
      BY <1>1, EvidenceBounds DEF EvidenceInv, Actors, Counters, CeilingInv, Written
<1> QED  BY <1>1 DEF CeilingInv, AtRest, CeilingKept

-----------------------------------------------------------------------------
(* What the invariant says of every state, and of every step.              *)

LEMMA EvidenceSafe ==
    ASSUME EvidenceInv PROVE TypeOK /\ RowsAccounted /\ ReferencesHold
<1> USE DEF EvidenceInv
<1>1. TypeOK
  <2>1. \A r \in rows : /\ r.target \in Targets /\ r.direction \in Paths
                        /\ r.id \in 1..nextId /\ r.session \in 1..starts /\ r.at \in 0..MaxClock
        BY DEF Tables, RowTyped
  <2>2. \A q \in Seq(Asks) : q \in Seq(Requests)  BY RequestTypes
  <2>3. \A p \in Procs : /\ queue[p] \in Seq(Requests) /\ Len(queue[p]) =< QueueSize
                         /\ current[p] \in Requests \cup {NoRequest}
        BY <2>2, Present, RequestTypes
  <2> QED  BY <2>1, <2>3 DEF TypeOK, Actors, Counters, Tables
<1>2. RowsAccounted
  <2>1. MapThenSumSet(Written, Procs) = Owed(Books, Procs)
        BY BooksAreNumbers, SumOfWritten DEF Books
  <2> QED  BY <2>1 DEF RowsAccounted, Accounted
<1> QED  BY <1>1, <1>2 DEF Tables

\* A trim keeps the newest; the other transactions delete what has expired.
LEMMA StepKeepsNewest ==
    ASSUME EvidenceInv, [Next]_vars PROVE KeepsNewest
<1>1. /\ Table(rows) /\ \A r \in rows : r.at \in 0 .. MaxClock
      /\ now \in 0 .. MaxClock
      BY DEF EvidenceInv, Tables, RowTyped, Counters
<1>2. CASE rows \ rows' = {}  BY <1>2 DEF KeepsNewest
<1>3. ASSUME Trim PROVE KeepsNewest
  <2>1. rows' = Trimmed(rows)  BY <1>3 DEF Trim, Keep
  <2>2. \A r \in rows \ rows' : Cardinality(Newers(rows', r)) >= MaxRows
        BY <1>1, <2>1, TrimKeepsNewest
  <2> QED  BY <2>2 DEF KeepsNewest, Newers
<1>4. ASSUME NEW p \in Procs, Prune(p) PROVE KeepsNewest
  <2>1. rows' = Unexpired(rows, now - Retention)  BY <1>4 DEF Prune, Keep
  <2>2. \A r \in rows \ rows' : ~(r.at >= now - Retention)  BY <2>1 DEF Unexpired
  <2>3. \A r \in rows : r.at \in Int  BY <1>1
  <2>4. now - Retention \in Int  BY <1>1, EvidenceBounds
  <2>5. \A r \in rows \ rows' : r.at < now - Retention  BY <2>2, <2>3, <2>4
  <2> QED  BY <2>5 DEF KeepsNewest
<1>5. CASE UNCHANGED tables \/ UNCHANGED vars  BY <1>2, <1>5 DEF vars, tables
<1>6. ASSUME NEW p \in Procs, StartSession(p) \/ AppendRow(p) PROVE KeepsNewest
      BY <1>2, <1>6 DEF StartSession, AppendRow
<1>7. ASSUME NEW p \in Procs, Count(p) PROVE KeepsNewest
      BY <1>3, <1>5, <1>7 DEF Count, Fault
<1>8. ASSUME NEW p \in Procs, FinalTrim(p) PROVE KeepsNewest
      BY <1>3, <1>5, <1>8 DEF FinalTrim
<1>9. ASSUME NEW p \in Procs, TrimAtStart(p) PROVE KeepsNewest
      BY <1>3, <1>9 DEF TrimAtStart
<1>10. ASSUME NEW p \in Procs, \/ Start(p) \/ OpenFails(p) \/ AppendFails(p) \/ Assess(p)
                               \/ Close(p) \/ Drained(p) \/ Deadline(p) \/ Exit(p)
                               \/ \E t \in Targets, path \in Paths : Enqueue(p, t, path)
       PROVE  UNCHANGED tables
       BY <1>10 DEF Start, OpenFails, AppendFails, Assess, Close, Drained, Deadline, Exit, Enqueue,
                    Fault
<1>11. CASE Clock  BY <1>5, <1>11 DEF Clock
<1> QED  BY <1>4, <1>5, <1>6, <1>7, <1>8, <1>9, <1>10, <1>11 DEF Next

\* An assessment that suggests a path has counted rows of no other, in as
\* many sessions as it takes, and every session was some start's.
LEMMA StepSuggestsIndependently ==
    ASSUME EvidenceInv, [Next]_vars PROVE SuggestsIndependently
<1> SUFFICES ASSUME NEW p \in Procs, verdict'[p] # verdict[p], verdict'[p].state \in Paths
             PROVE  LET recent == {r \in rows : /\ r.target = verdict'[p].target
                                                /\ r.at >= current[p].at - Retention}
                    IN  /\ starts >= SessionsNeeded[verdict'[p].state]
                        /\ \A r \in recent : r.direction = verdict'[p].state
                        /\ Cardinality({r.session : r \in recent})
                              >= SessionsNeeded[verdict'[p].state]
    BY DEF SuggestsIndependently
<1>1. Assess(p) /\ verdict' # verdict
  <2>1. verdict' # verdict  OBVIOUS
  <2>2. ASSUME NEW x \in Procs, Start(x) PROVE x # p
    <3>1. verdict' = [verdict EXCEPT ![x] = NoVerdict] /\ verdict \in [Procs -> {verdict[y] : y \in Procs}]
          BY <2>2 DEF Start, EvidenceInv, Actors
    <3>2. x = p => verdict'[p].state = "none"  BY <3>1 DEF NoVerdict
    <3> QED  BY <3>2 DEF Paths, Direct, Proxy
  <2>3. ASSUME NEW x \in Procs, Start(x) PROVE FALSE
        BY <2>2, <2>3 DEF Start, EvidenceInv, Actors
  <2>4. ASSUME NEW x \in Procs, Assess(x) PROVE x = p
        BY <2>4 DEF Assess, EvidenceInv, Actors
  <2> QED  BY <2>1, <2>3, <2>4 DEF Next, vars, Clock, Prune, TrimAtStart, StartSession, OpenFails,
              Enqueue, AppendRow, AppendFails, Take, Count, Close, Drained, Deadline, FinalTrim, Exit
<1> DEFINE t == current[p].target
           state == verdict'[p].state
           summary == Summarize(rows, t, Cutoff(p))
           recent == {r \in rows : r.target = t /\ r.at >= current[p].at - Retention}
           of(path) == {r \in rows : r.target = t /\ r.direction = path /\ r.at >= Cutoff(p)}
<1>2. verdict'[p].target = t /\ state = Evaluate(summary)
      BY <1>1 DEF Assess, EvidenceInv, Actors
<1>3. /\ Supported(summary, state)
      /\ \A path \in Paths : summary.wins[path] > 0 => path = state
  <2> HIDE DEF summary
  <2> QED  BY <1>2, VerdictOfCounts
<1>4. \A path \in Paths : /\ summary.wins[path] = Cardinality(of(path))
                          /\ summary.sessions[path] = Cardinality({r.session : r \in of(path)})
      BY DEF Summarize
<1>5. Table(rows) /\ \A r \in rows : RowTyped(r)  BY DEF EvidenceInv, Tables
<1>6. \A r \in recent : r.direction = state
  <2> SUFFICES ASSUME NEW r \in recent PROVE r.direction = state  OBVIOUS
  <2>1. r.direction \in Paths /\ r \in of(r.direction)  BY <1>5 DEF RowTyped, Cutoff
  <2>2. of(r.direction) \subseteq rows  OBVIOUS
  <2> HIDE DEF of, summary
  <2>3. IsFiniteSet(of(r.direction)) /\ Cardinality(of(r.direction)) \in Nat
        BY <1>5, <2>2, SubsetSizes
  <2>4. Cardinality(of(r.direction)) > 0  BY <2>1, <2>3, FS_EmptySet
  <2> QED  BY <1>3, <1>4, <2>1, <2>4
<1>7. recent = of(state)
  <2> HIDE DEF state
  <2> QED  BY <1>6 DEF Cutoff
<1>8. Cardinality({r.session : r \in recent}) >= SessionsNeeded[state]
  <2>1. state \in Paths  OBVIOUS
  <2> HIDE DEF of, summary, recent, state
  <2> QED  BY <1>3, <1>4, <1>7, <2>1 DEF Supported
<1>9. starts >= SessionsNeeded[state]
  <2> DEFINE ss == {r.session : r \in recent}
  <2>1. starts \in Nat  BY Present DEF EvidenceInv
  <2>2. ss \subseteq 1 .. starts  BY <1>5 DEF RowTyped
  <2>3. IsFiniteSet(1 .. starts) /\ Cardinality(1 .. starts) = starts
        BY <2>1, FS_Interval
  <2> HIDE DEF ss
  <2>4. IsFiniteSet(ss) /\ Cardinality(ss) <= starts  BY <2>2, <2>3, FS_Subset
  <2>5. Cardinality(ss) \in Nat  BY <2>4, FS_CardinalityType
  <2>6. SessionsNeeded[state] \in Nat  BY ThresholdAssumption
  <2>7. Cardinality(ss) >= SessionsNeeded[state]  BY <1>8 DEF ss
  <2> QED  BY <2>1, <2>4, <2>5, <2>6, <2>7
<1> HIDE DEF state
<1> QED  BY <1>2, <1>6, <1>8, <1>9 DEF state

-----------------------------------------------------------------------------
(* The report of the operator.                                             *)

Recent      == Unexpired(rows, now - Retention)
Told        == {r.target : r \in Recent}
Of(t, path) == {r \in Recent : r.target = t /\ r.direction = path}
Found(t)    == Summarize(rows, t, now - Retention)

\* What the report has counted after the targets in s.
Tally(s) ==
    [targets  |-> Cardinality(s),
     rows     |-> Cardinality({r \in Recent : r.target \in s}),
     evidence |-> [path \in Paths |->
                     Cardinality({r \in Recent : r.target \in s /\ r.direction = path})],
     verdicts |-> [v \in Verdicts |-> Cardinality({t \in s : Evaluate(Found(t)) = v})]]

LEMMA RecentRows ==
    ASSUME Tables
    PROVE  /\ IsFiniteSet(Recent) /\ Recent \subseteq rows
           /\ \A r \in Recent : r.direction \in Paths
           /\ IsFiniteSet(Told) /\ Cardinality(Told) \in Nat
           /\ \A S : S \subseteq Recent => IsFiniteSet(S) /\ Cardinality(S) \in Nat
<1>1. Recent \subseteq rows /\ Table(rows)  BY DEF Recent, Unexpired, Tables
<1>2. IsFiniteSet(Recent)  BY <1>1, SubsetSizes
<1>3. \A r \in Recent : r.direction \in Paths  BY <1>1 DEF Tables, RowTyped
<1>4. IsFiniteSet(Told)
  <2> DEFINE f == [r \in Recent |-> r.target]
  <2>1. f \in Surjection(Recent, Told)  BY DEF Surjection, Told
  <2> HIDE DEF f
  <2> QED  BY <1>2, <2>1, FS_Surjection
<1>5. Cardinality(Told) \in Nat  BY <1>4, FS_CardinalityType
<1> QED  BY <1>1, <1>2, <1>3, <1>4, <1>5, FS_Subset, FS_CardinalityType

LEMMA DisjointSizes ==
    ASSUME NEW S, IsFiniteSet(S), NEW T, IsFiniteSet(T), S \cap T = {}
    PROVE  Cardinality(S \cup T) = Cardinality(S) + Cardinality(T)
<1>1. Cardinality(S \cup T) = Cardinality(S) + Cardinality(T) - Cardinality({})  BY FS_Union
<1>2. Cardinality(S) \in Nat /\ Cardinality(T) \in Nat /\ Cardinality({}) = 0
      BY FS_CardinalityType, FS_EmptySet
<1> QED  BY <1>1, <1>2

\* A target with a recent row has a verdict.
LEMMA ToldHaveVerdict ==
    ASSUME Tables, NEW t
    PROVE  /\ \A path \in Paths : Found(t).wins[path] = Cardinality(Of(t, path))
           /\ t \in Told => Evaluate(Found(t)) \in Verdicts
<1>1. \A path \in Paths : Found(t).wins[path] = Cardinality(Of(t, path))
  <2> SUFFICES ASSUME NEW path \in Paths PROVE Found(t).wins[path] = Cardinality(Of(t, path))
      OBVIOUS
  <2>1. Of(t, path) = {r \in rows : r.target = t /\ r.direction = path /\ r.at >= now - Retention}
        BY DEF Of, Recent, Unexpired
  <2> QED  BY <2>1 DEF Found, Summarize
<1>2. ASSUME t \in Told PROVE Evaluate(Found(t)) \in Verdicts
  <2>1. PICK r \in Recent : r.target = t  BY <1>2 DEF Told
  <2>2. r.direction \in Paths /\ r \in Of(t, r.direction) /\ Of(t, r.direction) \subseteq Recent
        BY <2>1, RecentRows DEF Of
  <2>3. IsFiniteSet(Of(t, r.direction)) /\ Cardinality(Of(t, r.direction)) \in Nat
        BY <2>2, RecentRows
  <2>4. Cardinality(Of(t, r.direction)) > 0  BY <2>2, <2>3, FS_EmptySet
  <2>5. Found(t).wins[r.direction] > 0  BY <1>1, <2>2, <2>4
  <2> QED  BY <2>2, <2>5, VerdictOfCounts
<1> QED  BY <1>1, <1>2

LEMMA TallyGrows ==
    ASSUME Tables, NEW s \in SUBSET Told, NEW x \in s
    PROVE  Counted(Found(x), Tally(s \ {x})) = Tally(s)
<1> DEFINE rest == s \ {x}
           all(S) == {r \in Recent : r.target \in S}
           on(S, path) == {r \in Recent : r.target \in S /\ r.direction = path}
           said(S, v) == {t \in S : Evaluate(Found(t)) = v}
<1>1. Direct \in Paths /\ Proxy \in Paths /\ Direct # Proxy /\ Paths = {Direct, Proxy}
      BY DEF Paths, Direct, Proxy
<1>2. IsFiniteSet(s) /\ IsFiniteSet(rest)  BY RecentRows, FS_Subset
<1>3. Cardinality(s) = Cardinality(rest) + 1
  <2>1. s = rest \cup {x} /\ x \notin rest  OBVIOUS
  <2> HIDE DEF rest
  <2> QED  BY <1>2, <2>1, FS_AddElement
<1>4. \A path \in Paths : Cardinality(on(s, path)) = Cardinality(on(rest, path)) + Found(x).wins[path]
  <2> SUFFICES ASSUME NEW path \in Paths
               PROVE  Cardinality(on(s, path)) = Cardinality(on(rest, path)) + Found(x).wins[path]
      OBVIOUS
  <2>1. /\ on(s, path) = on(rest, path) \cup Of(x, path) /\ on(rest, path) \cap Of(x, path) = {}
        /\ on(rest, path) \subseteq Recent /\ Of(x, path) \subseteq Recent
        BY DEF Of
  <2> HIDE DEF on, rest
  <2>2. Cardinality(on(s, path)) = Cardinality(on(rest, path)) + Cardinality(Of(x, path))
        BY <2>1, RecentRows, DisjointSizes
  <2> QED  BY <2>2, ToldHaveVerdict
<1>5. Cardinality(all(s)) = Cardinality(all(rest)) + Found(x).wins[Direct] + Found(x).wins[Proxy]
  <2> DEFINE own == Of(x, Direct) \cup Of(x, Proxy)
  <2>1. /\ all(s) = all(rest) \cup own /\ all(rest) \cap own = {}
        /\ Of(x, Direct) \cap Of(x, Proxy) = {}
        /\ all(rest) \subseteq Recent /\ own \subseteq Recent
        /\ Of(x, Direct) \subseteq Recent /\ Of(x, Proxy) \subseteq Recent
        BY <1>1, RecentRows DEF Of
  <2>2. Cardinality(own) = Cardinality(Of(x, Direct)) + Cardinality(Of(x, Proxy))
        BY <2>1, RecentRows, DisjointSizes
  <2> HIDE DEF all, rest, own
  <2>3. Cardinality(all(s)) = Cardinality(all(rest)) + Cardinality(own)
        BY <2>1, RecentRows, DisjointSizes
  <2>4. /\ Cardinality(all(rest)) \in Nat /\ Cardinality(Of(x, Direct)) \in Nat
        /\ Cardinality(Of(x, Proxy)) \in Nat
        BY <2>1, RecentRows
  <2>5. Found(x).wins[Direct] = Cardinality(Of(x, Direct))
        /\ Found(x).wins[Proxy] = Cardinality(Of(x, Proxy))
        BY <1>1, ToldHaveVerdict
  <2> QED  BY <2>2, <2>3, <2>4, <2>5
<1>6. Evaluate(Found(x)) \in Verdicts  BY ToldHaveVerdict
<1>7. \A v \in Verdicts : Cardinality(said(s, v)) =
            IF v = Evaluate(Found(x)) THEN Cardinality(said(rest, v)) + 1 ELSE Cardinality(said(rest, v))
  <2> SUFFICES ASSUME NEW v \in Verdicts
               PROVE  Cardinality(said(s, v)) = IF v = Evaluate(Found(x))
                                                THEN Cardinality(said(rest, v)) + 1
                                                ELSE Cardinality(said(rest, v))
      OBVIOUS
  <2>1. said(rest, v) \subseteq rest /\ x \notin said(rest, v)  OBVIOUS
  <2>2. IsFiniteSet(said(rest, v))  BY <1>2, <2>1, FS_Subset
  <2>3. CASE v = Evaluate(Found(x))
    <3>1. said(s, v) = said(rest, v) \cup {x}  BY <2>3
    <3> HIDE DEF said
    <3>2. Cardinality(said(rest, v) \cup {x}) = Cardinality(said(rest, v)) + 1
          BY ONLY <2>1, <2>2, FS_AddElement
    <3> QED  BY <2>3, <3>1, <3>2
  <2>4. CASE v # Evaluate(Found(x))
    <3>1. said(s, v) = said(rest, v)  BY <2>4
    <3> QED  BY <2>4, <3>1
  <2> QED  BY <2>3, <2>4
<1> DEFINE old == Tally(rest)
<1>8. /\ old.targets = Cardinality(rest) /\ old.rows = Cardinality(all(rest))
      /\ \A path \in Paths : old.evidence[path] = Cardinality(on(rest, path))
      /\ old.verdicts = [v \in Verdicts |-> Cardinality(said(rest, v))]
      BY DEF Tally
<1>9. Tally(s) = [targets |-> Cardinality(s), rows |-> Cardinality(all(s)),
                  evidence |-> [path \in Paths |-> Cardinality(on(s, path))],
                  verdicts |-> [v \in Verdicts |-> Cardinality(said(s, v))]]
      BY DEF Tally
<1> HIDE DEF old, all, on, said, rest
<1>10. [old.verdicts EXCEPT ![Evaluate(Found(x))] = @ + 1]
          = [v \in Verdicts |-> Cardinality(said(s, v))]
       BY <1>6, <1>7, <1>8
<1>11. [path \in Paths |-> old.evidence[path] + Found(x).wins[path]]
          = [path \in Paths |-> Cardinality(on(s, path))]
       BY <1>4, <1>8
<1>12. /\ old.targets + 1 = Cardinality(s)
       /\ old.rows + Found(x).wins[Direct] + Found(x).wins[Proxy] = Cardinality(all(s))
       BY <1>3, <1>5, <1>8
<1>13. Counted(Found(x), old) = Tally(s)  BY <1>9, <1>10, <1>11, <1>12 DEF Counted
<1> QED  BY <1>13 DEF old, rest

\* The fold of the report, whatever order it takes the targets in.
LEMMA ReportIsTally ==
    ASSUME Tables
    PROVE  Report(ListTargetSummaries(rows, now - Retention)) = Tally(Told)
<1> DEFINE summaries == ListTargetSummaries(rows, now - Retention)
           body(f, s) == IF s = {} THEN NoReport
                         ELSE LET x == CHOOSE y \in s : TRUE
                              IN  Counted(summaries[x], f[s \ {x}])
           iter == CHOOSE f : f = [s \in SUBSET Told |-> body(f, s)]
           tally == [s \in SUBSET Told |-> Tally(s)]
<1>1. summaries = [t \in Told |-> Found(t)]
      BY DEF ListTargetSummaries, Told, Recent, Unexpired, Found
<1>2. Report(summaries) = iter[Told]
  <2>1. DOMAIN summaries = Told  BY <1>1
  <2>2. Report(summaries) = FoldSet(LAMBDA t, report : Counted(summaries[t], report), NoReport, Told)
        BY <2>1 DEF Report
  <2> HIDE DEF summaries
  <2> QED  BY <2>2 DEF FoldSet, MapThenFoldSet
<1>3. ASSUME NEW s \in SUBSET Told PROVE tally[s] = body(tally, s)
  <2>1. CASE s = {}
    <3>1. /\ {r \in Recent : r.target \in s} = {}
          /\ \A path \in Paths : {r \in Recent : r.target \in s /\ r.direction = path} = {}
          /\ \A v \in Verdicts : {t \in s : Evaluate(Found(t)) = v} = {}
          BY <2>1
    <3>2. Tally(s) = NoReport  BY <2>1, <3>1, FS_EmptySet DEF Tally, NoReport
    <3> QED  BY <2>1, <3>2
  <2>2. CASE s # {}
    <3> DEFINE x == CHOOSE y \in s : TRUE
    <3>1. x \in s /\ x \in Told /\ s \ {x} \in SUBSET Told  BY <2>2
    <3>2. body(tally, s) = Counted(summaries[x], tally[s \ {x}])  BY <2>2
    <3> HIDE DEF x, summaries, body
    <3>3. summaries[x] = Found(x) /\ tally[s \ {x}] = Tally(s \ {x}) /\ tally[s] = Tally(s)
          BY <1>1, <3>1
    <3>4. Counted(Found(x), Tally(s \ {x})) = Tally(s)  BY <3>1, TallyGrows
    <3> QED  BY <3>2, <3>3, <3>4
  <2> QED  BY <2>1, <2>2
<1>4. tally = [s \in SUBSET Told |-> body(tally, s)]
  <2> HIDE DEF body
  <2> QED  BY <1>3
<1>5. iter = [s \in SUBSET Told |-> body(iter, s)]
  <2> HIDE DEF body, tally
  <2> QED  BY <1>4
<1>6. iter[{}] = tally[{}]
  <2>1. {} \in SUBSET Told  OBVIOUS
  <2>2. iter[{}] = body(iter, {})
    <3> HIDE DEF body, iter
    <3> QED  BY <1>5, <2>1
  <2>3. tally[{}] = body(tally, {})
    <3> HIDE DEF body, tally
    <3> QED  BY <1>4, <2>1
  <2> HIDE DEF iter, tally
  <2> QED  BY <2>2, <2>3
<1>7. ASSUME NEW s \in SUBSET Told, s # {}
      PROVE  \E x \in s : iter[s \ {x}] = tally[s \ {x}] => iter[s] = tally[s]
  <2> DEFINE x == CHOOSE y \in s : TRUE
  <2>1. x \in s  BY <1>7
  <2>2. iter[s] = body(iter, s)
    <3> HIDE DEF body, iter
    <3> QED  BY <1>5
  <2>3. tally[s] = body(tally, s)  BY <1>3
  <2>4. body(iter, s) = Counted(summaries[x], iter[s \ {x}])
        /\ body(tally, s) = Counted(summaries[x], tally[s \ {x}])
        BY <1>7
  <2> HIDE DEF iter, tally, body, x, summaries
  <2> QED  BY <2>1, <2>2, <2>3, <2>4
<1>8. IsFiniteSet(Told)  BY RecentRows
<1> HIDE DEF iter, tally
<1>9. iter[Told] = tally[Told]  BY <1>6, <1>7, <1>8, FoldsAgree
<1>10. tally[Told] = Tally(Told)  BY DEF tally
<1> QED  BY <1>2, <1>9, <1>10

\* Each target is in the count of one verdict.
LEMMA VerdictsShareTargets ==
    ASSUME Tables
    PROVE  MapThenSumSet(LAMBDA v : Tally(Told).verdicts[v], Verdicts) = Cardinality(Told)
<1> DEFINE said(v) == {t \in Told : Evaluate(Found(t)) = v}
           body(f, s) == IF s = {} THEN 0 ELSE LET x == CHOOSE y \in s : TRUE
                                               IN  Tally(Told).verdicts[x] + f[s \ {x}]
           iter == CHOOSE f : f = [s \in SUBSET Verdicts |-> body(f, s)]
           among(s) == {t \in Told : Evaluate(Found(t)) \in s}
           count == [s \in SUBSET Verdicts |-> Cardinality(among(s))]
<1>1. MapThenSumSet(LAMBDA v : Tally(Told).verdicts[v], Verdicts) = iter[Verdicts]
      BY DEF MapThenSumSet, MapThenFoldSet
<1>2. IsFiniteSet(Told) /\ \A S : S \subseteq Told => IsFiniteSet(S) /\ Cardinality(S) \in Nat
      BY RecentRows, FS_Subset, FS_CardinalityType
<1>3. ASSUME NEW s \in SUBSET Verdicts PROVE count[s] = body(count, s)
  <2>1. CASE s = {}
    <3>1. among(s) = {}  BY <2>1
    <3>2. count[s] = 0  BY <3>1, FS_EmptySet
    <3> QED  BY <2>1, <3>2
  <2>2. CASE s # {}
    <3> DEFINE x == CHOOSE y \in s : TRUE
    <3>1. x \in s /\ x \in Verdicts /\ s \ {x} \in SUBSET Verdicts  BY <2>2
    <3>2. body(count, s) = Tally(Told).verdicts[x] + count[s \ {x}]  BY <2>2
    <3> HIDE DEF x, body
    <3>3. Tally(Told).verdicts[x] = Cardinality(said(x))  BY <3>1 DEF Tally
    <3>4. /\ among(s) = said(x) \cup among(s \ {x}) /\ said(x) \cap among(s \ {x}) = {}
          /\ said(x) \subseteq Told /\ among(s \ {x}) \subseteq Told
          BY <3>1
    <3>5. count[s] = Cardinality(among(s)) /\ count[s \ {x}] = Cardinality(among(s \ {x}))
          BY <3>1
    <3> HIDE DEF among, said, count
    <3>6. Cardinality(among(s)) = Cardinality(said(x)) + Cardinality(among(s \ {x}))
          BY <1>2, <3>4, DisjointSizes
    <3> QED  BY <3>2, <3>3, <3>5, <3>6
  <2> QED  BY <2>1, <2>2
<1>4. count = [s \in SUBSET Verdicts |-> body(count, s)]
  <2> HIDE DEF body, among
  <2> QED  BY <1>3
<1>5. iter = [s \in SUBSET Verdicts |-> body(iter, s)]
  <2> HIDE DEF body, count
  <2> QED  BY <1>4
<1>6. iter[{}] = count[{}]
  <2>1. {} \in SUBSET Verdicts  OBVIOUS
  <2>2. iter[{}] = body(iter, {})
    <3> HIDE DEF body, iter
    <3> QED  BY <1>5, <2>1
  <2>3. count[{}] = body(count, {})
    <3> HIDE DEF body, count
    <3> QED  BY <1>4, <2>1
  <2> HIDE DEF iter, count
  <2> QED  BY <2>2, <2>3
<1>7. ASSUME NEW s \in SUBSET Verdicts, s # {}
      PROVE  \E x \in s : iter[s \ {x}] = count[s \ {x}] => iter[s] = count[s]
  <2> DEFINE x == CHOOSE y \in s : TRUE
  <2>1. x \in s  BY <1>7
  <2>2. iter[s] = body(iter, s)
    <3> HIDE DEF body, iter
    <3> QED  BY <1>5
  <2>3. count[s] = body(count, s)  BY <1>3
  <2>4. body(iter, s) = Tally(Told).verdicts[x] + iter[s \ {x}]
        /\ body(count, s) = Tally(Told).verdicts[x] + count[s \ {x}]
        BY <1>7
  <2> HIDE DEF iter, count, body, x
  <2> QED  BY <2>1, <2>2, <2>3, <2>4
<1>8. IsFiniteSet(Verdicts)
  <2> DEFINE two == {"insufficient"} \cup {"conflicting"}
             three == two \cup {Direct}
  <2>1. IsFiniteSet({"insufficient"})  BY FS_Singleton
  <2>2. IsFiniteSet(two)
    <3>1. IsFiniteSet({"insufficient"} \cup {"conflicting"})
      <4> DEFINE one == {"insufficient"}
      <4> HIDE DEF one
      <4>1. IsFiniteSet(one)  BY <2>1 DEF one
      <4>2. IsFiniteSet(one \cup {"conflicting"})  BY <4>1, FS_AddElement
      <4> QED  BY <4>2 DEF one
    <3> QED  BY <3>1
  <2>3. Verdicts = three \cup {Proxy}  BY DEF Verdicts, Paths
  <2> HIDE DEF two
  <2>4. IsFiniteSet(three)  BY <2>2, FS_AddElement
  <2> HIDE DEF three
  <2> QED  BY <2>3, <2>4, FS_AddElement
<1> HIDE DEF iter
<1>9. iter[Verdicts] = count[Verdicts]
  <2> HIDE DEF count
  <2> QED  BY <1>6, <1>7, <1>8, FoldsAgree
<1>10. count[Verdicts] = Cardinality(Told)
  <2>1. among(Verdicts) = Told  BY ToldHaveVerdict
  <2> QED  BY <2>1
<1> QED  BY <1>1, <1>9, <1>10

LEMMA ReportCounts ==
    ASSUME Tables PROVE ReportAddsUp
<1> DEFINE report == Report(ListTargetSummaries(rows, now - Retention))
<1>1. report = Tally(Told)  BY ReportIsTally
<1>2. \A r \in Recent : r.target \in Told  BY DEF Told
<1>3. report.rows = Cardinality(Recent)
  <2>1. {r \in Recent : r.target \in Told} = Recent  BY <1>2
  <2>2. Tally(Told).rows = Cardinality({r \in Recent : r.target \in Told})  BY DEF Tally
  <2> HIDE DEF report
  <2> QED  BY <1>1, <2>1, <2>2
<1>4. \A path \in Paths : report.evidence[path] = Cardinality({r \in Recent : r.direction = path})
  <2> SUFFICES ASSUME NEW path \in Paths
               PROVE  report.evidence[path] = Cardinality({r \in Recent : r.direction = path})
      OBVIOUS
  <2>1. {r \in Recent : r.target \in Told /\ r.direction = path}
           = {r \in Recent : r.direction = path}
        BY <1>2
  <2> QED  BY <1>1, <2>1 DEF Tally
<1>5. report.targets = Cardinality(Told)  BY <1>1 DEF Tally
<1>6. report.targets = MapThenSumSet(LAMBDA v : report.verdicts[v], Verdicts)
  <2> HIDE DEF report
  <2> QED  BY <1>1, <1>5, VerdictsShareTargets
<1> QED  BY <1>3, <1>4, <1>6 DEF ReportAddsUp, Recent

-----------------------------------------------------------------------------
(* One process whose clock runs forward.                                   *)

\* Requests are in order still when some are taken and rows are deleted.
LEMMA OrderTypes ==
    ASSUME EvidenceInv, NEW p \in Procs
    PROVE  /\ \A r \in rows : r.at \in Nat /\ r.id \in 1 .. nextId
           /\ now \in Nat /\ nextId \in Nat
           /\ queue[p] \in Seq(Asks) /\ DOMAIN queue[p] = 1 .. Len(queue[p])
           /\ Len(queue[p]) \in Nat
           /\ \A i \in DOMAIN queue[p] : queue[p][i] \in Asks /\ queue[p][i].at \in Nat
<1>1. queue[p] \in Seq(Asks)  BY Present DEF EvidenceInv
<1>2. DOMAIN queue[p] = 1 .. Len(queue[p]) /\ Len(queue[p]) \in Nat
      /\ \A i \in DOMAIN queue[p] : queue[p][i] \in Asks
      BY <1>1
<1>3. \A i \in DOMAIN queue[p] : queue[p][i].at \in Nat  BY <1>2, RequestTypes
<1>4. /\ \A r \in rows : r.at \in Nat /\ r.id \in 1 .. nextId
      /\ now \in Nat /\ nextId \in Nat
      BY EvidenceBounds DEF EvidenceInv, Tables, RowTyped, Counters
<1> QED  BY <1>1, <1>2, <1>3, <1>4

\* Nobody writes: rows are deleted, or nothing is.
LEMMA IdleInOrder ==
    ASSUME EvidenceInv, NEW p \in Procs, InOrder(p), rows' \subseteq rows, now' = now,
           queue'[p] = queue[p] \/ queue'[p] = <<>>, step'[p] = "idle",
           life'[p] \in Writing => session'[p] \in sessions'
    PROVE  InOrder(p)'
<1>1. DOMAIN <<>> = {}  OBVIOUS
<1>2. CASE queue'[p] = queue[p]  BY <1>2 DEF InOrder
<1>3. CASE queue'[p] = <<>>  BY <1>1, <1>3 DEF InOrder
<1> QED  BY <1>2, <1>3

LEMMA OpeningInOrder ==
    ASSUME EvidenceInv, NEW p \in Procs, InOrder(p),
           Start(p) \/ Prune(p) \/ TrimAtStart(p) \/ StartSession(p) \/ OpenFails(p)
    PROVE  InOrder(p)'
<1>1. life[p] \notin Writing  BY LifeSets DEF Start, Prune, TrimAtStart, StartSession, OpenFails, Moves
<1>2. step[p] = "idle"  BY <1>1, Present DEF EvidenceInv
<1>3. rows' \subseteq rows /\ now' = now
  <2>1. Trimmed(rows) \subseteq rows /\ Unexpired(rows, now - Retention) \subseteq rows
        BY DEF Trimmed, Unexpired
  <2> QED  BY <2>1 DEF Start, Prune, TrimAtStart, StartSession, OpenFails, Keep, Trim, Fault, tables
<1>4. CASE StartSession(p)
  <2>1. queue'[p] = <<>> /\ step'[p] = "idle" /\ session'[p] = session[p] /\ session[p] \in sessions'
        BY <1>4 DEF StartSession, EvidenceInv, Actors
  <2> QED  BY <1>3, <2>1, IdleInOrder
<1>5. CASE Start(p) \/ Prune(p) \/ TrimAtStart(p) \/ OpenFails(p)
  <2>1. queue' = queue /\ step' = step
        BY <1>5 DEF Start, Prune, TrimAtStart, OpenFails, writer
  <2>2. life'[p] \in {"pruning", "trimming", "starting", "down"}
        BY <1>5 DEF Start, Prune, TrimAtStart, OpenFails, Moves, EvidenceInv, Actors
  <2>3. life'[p] \notin Writing  BY <2>2, LifeSets
  <2> QED  BY <1>2, <1>3, <2>1, <2>3, IdleInOrder
<1> QED  BY <1>4, <1>5

LEMMA EnqueueInOrder ==
    ASSUME EvidenceInv, NEW p \in Procs, InOrder(p),
           NEW t \in Targets, NEW path \in Paths, Enqueue(p, t, path)
    PROVE  InOrder(p)'
<1> DEFINE new == [target |-> t, direction |-> path, at |-> now]
           n == Len(queue[p])
<1>1. /\ life' = life /\ session' = session /\ step' = step /\ current' = current /\ now' = now
      /\ sessions' = sessions /\ rows' = rows /\ nextId' = nextId
      BY DEF Enqueue, tables
<1>2. CASE ~(n < QueueSize)
  <2>1. queue' = queue  BY <1>2 DEF Enqueue
  <2> QED  BY <1>1, <2>1 DEF InOrder, JustWritten
<1>3. CASE n < QueueSize
  <2>1. queue'[p] = Append(queue[p], new)  BY <1>3 DEF Enqueue, EvidenceInv, Actors
  <2>2. new.at = now  OBVIOUS
  <2> HIDE DEF new
  <2>3. /\ DOMAIN queue'[p] = 1 .. n + 1 /\ queue'[p][n + 1] = new
        /\ \A i \in 1 .. n : queue'[p][i] = queue[p][i]
        /\ DOMAIN queue[p] = 1 .. n /\ n \in Nat
        BY <2>1, OrderTypes
  <2> HIDE DEF n
  <2>4. \A i \in 1 .. n + 1 : i \in 1 .. n \/ i = n + 1  BY <2>3
  <2>5. \A i \in 1 .. n : queue[p][i].at <= now /\ \A r \in rows : r.at <= queue[p][i].at
        BY <2>3 DEF InOrder
  <2>6. \A r \in rows : r.at <= now  BY DEF InOrder
  <2>7. now <= now  BY OrderTypes
  <2>8. \A i \in DOMAIN queue'[p] :
           queue'[p][i].at <= now /\ \A r \in rows : r.at <= queue'[p][i].at
        BY <2>2, <2>3, <2>4, <2>5, <2>6, <2>7
  <2>9. \A i, j \in DOMAIN queue'[p] : i < j => queue'[p][i].at <= queue'[p][j].at
    <3> SUFFICES ASSUME NEW i \in 1 .. n + 1, NEW j \in 1 .. n + 1, i < j
                 PROVE  queue'[p][i].at <= queue'[p][j].at
        BY <2>3
    <3>1. i \in 1 .. n  BY <2>3
    <3>2. CASE j = n + 1  BY <2>2, <2>3, <2>5, <3>1, <3>2
    <3>3. CASE j \in 1 .. n  BY <2>3, <3>1, <3>3 DEF InOrder
    <3> QED  BY <2>4, <3>2, <3>3
  <2>10. /\ step'[p] # "idle" => /\ \A r \in rows' : r.at <= current'[p].at
                                 /\ \E r \in rows' : JustWritten(p, r)'
         /\ life'[p] \in Writing => session'[p] \in sessions'
         BY <1>1 DEF InOrder, JustWritten
  <2> QED  BY <1>1, <2>6, <2>8, <2>9, <2>10 DEF InOrder
<1> QED  BY <1>2, <1>3

\* The request at the head is as old as any that wait, and as new as any row.
LEMMA TakeInOrder ==
    ASSUME EvidenceInv, NEW p \in Procs, InOrder(p), Take(p)
    PROVE  /\ queue'[p] = Tail(queue[p]) /\ Head(queue[p]).at <= now
           /\ \A r \in rows : r.at <= Head(queue[p]).at
           /\ \A i \in DOMAIN queue'[p] :
                 /\ queue'[p][i].at <= now /\ Head(queue[p]).at <= queue'[p][i].at
                 /\ \A j \in DOMAIN queue'[p] : i < j => queue'[p][i].at <= queue'[p][j].at
                 /\ \A r \in rows : r.at <= queue'[p][i].at
<1> DEFINE q == queue[p]
<1>1. q \in Seq(Asks) /\ q # <<>> /\ queue'[p] = Tail(q)
      BY Taking DEF EvidenceInv, Actors
<1>2. /\ Head(q) = q[1] /\ DOMAIN q = 1 .. Len(q) /\ Len(q) \in Nat \ {0}
      /\ DOMAIN Tail(q) = 1 .. Len(q) - 1
      /\ \A i \in DOMAIN Tail(q) : i + 1 \in DOMAIN q /\ Tail(q)[i] = q[i + 1]
      BY <1>1, Heads
<1>3. \A i \in DOMAIN q :
          /\ q[i].at <= now
          /\ \A j \in DOMAIN q : i < j => q[i].at <= q[j].at
          /\ \A r \in rows : r.at <= q[i].at
      BY DEF InOrder
<1>4. 1 \in DOMAIN q  BY <1>2
<1> HIDE DEF q
<1>5. \A i, j \in DOMAIN Tail(q) : 1 < i + 1 /\ (i < j => i + 1 < j + 1)  BY <1>2
<1>6. \A i \in DOMAIN Tail(q) :
          /\ Tail(q)[i].at <= now /\ q[1].at <= Tail(q)[i].at
          /\ \A j \in DOMAIN Tail(q) : i < j => Tail(q)[i].at <= Tail(q)[j].at
          /\ \A r \in rows : r.at <= Tail(q)[i].at
      BY <1>2, <1>3, <1>4, <1>5
<1> QED  BY <1>1, <1>2, <1>3, <1>4, <1>6 DEF q

LEMMA AppendRowInOrder ==
    ASSUME EvidenceInv, NEW p \in Procs, InOrder(p), AppendRow(p)
    PROVE  InOrder(p)'
<1> DEFINE request == Head(queue[p])
           new == [id |-> nextId + 1, session |-> session[p], target |-> request.target,
                   direction |-> request.direction, at |-> request.at]
<1>1. /\ Take(p) /\ session[p] \in sessions /\ rows' = rows \cup {new}
      /\ current' = [current EXCEPT ![p] = request] /\ nextId' = nextId + 1
      /\ step' = [step EXCEPT ![p] = "assess"] /\ sessions' = sessions
      BY DEF AppendRow
<1>2. now' = now /\ life' = life /\ session' = session  BY <1>1 DEF Take
<1>3. current'[p] = request  BY <1>1 DEF EvidenceInv, Actors
<1>row. PICK row \in rows' : row = new  BY <1>1
<1>4. /\ row.at = request.at /\ row.id = nextId' /\ row.session = session'[p]
      /\ row.target = request.target /\ row.direction = request.direction
      /\ rows' = rows \cup {row}
      BY <1>1, <1>2, <1>row
<1>5. request \in Asks  BY <1>1, Taking DEF EvidenceInv
<1>6. request.at \in Nat  BY <1>5, RequestTypes
<1> HIDE DEF new, request
<1>7. JustWritten(p, row)'  BY <1>3, <1>4 DEF JustWritten
<1>8. \A r \in rows' : r.at <= request.at
  <2>1. \A r \in rows : r.at <= request.at  BY <1>1, TakeInOrder DEF request
  <2> QED  BY <1>1, <1>4, <1>6, <2>1
<1>9. \A i \in DOMAIN queue'[p] :
          /\ queue'[p][i].at <= now /\ request.at <= queue'[p][i].at
          /\ \A j \in DOMAIN queue'[p] : i < j => queue'[p][i].at <= queue'[p][j].at
          /\ \A r \in rows : r.at <= queue'[p][i].at
      BY <1>1, TakeInOrder DEF request
<1>10. request.at <= now /\ \A r \in rows : r.at <= now
       BY <1>1, TakeInOrder DEF request, InOrder
<1>11. /\ \A i \in DOMAIN queue'[p] :
             /\ queue'[p][i].at <= now'
             /\ \A j \in DOMAIN queue'[p] : i < j => queue'[p][i].at <= queue'[p][j].at
             /\ \A r \in rows' : r.at <= queue'[p][i].at
       /\ \A r \in rows' : r.at <= now'
       BY <1>1, <1>2, <1>4, <1>9, <1>10
<1>12. \E r \in rows' : JustWritten(p, r)'  BY <1>1, <1>7
<1> QED  BY <1>1, <1>2, <1>3, <1>8, <1>11, <1>12 DEF InOrder

LEMMA AppendFailsInOrder ==
    ASSUME EvidenceInv, NEW p \in Procs, InOrder(p), AppendFails(p)
    PROVE  InOrder(p)'
<1>1. /\ Take(p) /\ UNCHANGED tables /\ now' = now /\ life' = life /\ session' = session
      /\ step' = step /\ step[p] = "idle"
      BY DEF AppendFails, Take, Fault
<1>2. \A i \in DOMAIN queue'[p] :
          /\ queue'[p][i].at <= now
          /\ \A j \in DOMAIN queue'[p] : i < j => queue'[p][i].at <= queue'[p][j].at
          /\ \A r \in rows : r.at <= queue'[p][i].at
      BY <1>1, TakeInOrder
<1>3. rows' = rows /\ sessions' = sessions  BY <1>1 DEF tables
<1> QED  BY <1>1, <1>2, <1>3 DEF InOrder

LEMMA AssessInOrder ==
    ASSUME EvidenceInv, NEW p \in Procs, InOrder(p), Assess(p)
    PROVE  InOrder(p)'
<1>1. /\ UNCHANGED tables /\ now' = now /\ life' = life /\ session' = session /\ queue' = queue
      /\ current' = current /\ step[p] = "assess"
      BY DEF Assess, Fault
<1>2. rows' = rows /\ sessions' = sessions /\ nextId' = nextId  BY <1>1 DEF tables
<1> QED  BY <1>1, <1>2 DEF InOrder, JustWritten

\* The row just written is the newest, so that a trim leaves it, and with it
\* its session.
LEMMA CountInOrder ==
    ASSUME EvidenceInv, NEW p \in Procs, InOrder(p), Count(p)
    PROVE  InOrder(p)'
<1>1. /\ life[p] \in Writing /\ step[p] = "count" /\ step'[p] = "idle"
      /\ now' = now /\ life' = life /\ session' = session /\ queue' = queue
      BY DEF Count, EvidenceInv, Actors
<1>2. CASE Trim
  <2>1. /\ rows' = Trimmed(rows)
        /\ sessions' = {s \in sessions : \E r \in Trimmed(rows) : r.session = s}
        BY <1>2 DEF Trim, Keep
  <2>2. PICK r \in rows : JustWritten(p, r)  BY <1>1 DEF InOrder
  <2>3. \A s \in rows : s # r => Newer(r, s)
    <3> SUFFICES ASSUME NEW s \in rows, s # r PROVE Newer(r, s)  OBVIOUS
    <3>1. s.at <= r.at  BY <1>1, <2>2 DEF InOrder, JustWritten
    <3>2. s.id \in 1 .. nextId /\ r.id = nextId /\ nextId \in Nat /\ s.at \in Nat /\ r.at \in Nat
          BY <2>2, OrderTypes DEF JustWritten
    <3>3. s.id # r.id  BY DEF EvidenceInv, Tables, Table
    <3> QED  BY <3>1, <3>2, <3>3 DEF Newer
  <2>4. r \in Trimmed(rows)  BY <2>3, TrimKeepsLast DEF EvidenceInv, Tables
  <2>5. session[p] \in sessions  BY <1>1 DEF InOrder
  <2>6. session'[p] \in sessions'  BY <1>1, <2>1, <2>2, <2>4, <2>5 DEF JustWritten
  <2>7. rows' \subseteq rows  BY <2>1 DEF Trimmed
  <2> QED  BY <1>1, <2>6, <2>7, IdleInOrder
<1>3. CASE UNCHANGED tables
  <2>1. rows' = rows /\ sessions' = sessions  BY <1>3 DEF tables
  <2>2. session'[p] \in sessions'  BY <1>1, <2>1 DEF InOrder
  <2> QED  BY <1>1, <2>1, <2>2, IdleInOrder
<1> QED  BY <1>2, <1>3 DEF Count, Fault

LEMMA ClosingInOrder ==
    ASSUME EvidenceInv, NEW p \in Procs, InOrder(p), Close(p) \/ Drained(p) \/ Deadline(p)
    PROVE  InOrder(p)'
<1>1. /\ UNCHANGED <<tables, now, session, writer>> /\ life[p] \in Writing
      BY LifeSets DEF Close, Drained, Deadline, Moves
<1>2. /\ rows' = rows /\ sessions' = sessions /\ nextId' = nextId /\ queue' = queue
      /\ step' = step /\ current' = current /\ now' = now /\ session' = session
      BY <1>1 DEF tables, writer
<1> QED  BY <1>1, <1>2 DEF InOrder, JustWritten

LEMMA EndingInOrder ==
    ASSUME EvidenceInv, NEW p \in Procs, InOrder(p), FinalTrim(p) \/ Exit(p)
    PROVE  InOrder(p)'
<1>1. Gone(p) /\ now' = now  BY DEF FinalTrim, Exit
<1>2. queue'[p] = <<>> /\ step'[p] = "idle"  BY <1>1 DEF Gone, EvidenceInv, Actors
<1>3. life'[p] \in Down  BY LifeSets DEF FinalTrim, Exit, Moves, EvidenceInv, Actors
<1>4. rows' \subseteq rows  BY DEF FinalTrim, Exit, Trim, Keep, Trimmed, tables
<1>5. life'[p] \notin Writing  BY <1>3, LifeSets
<1> QED  BY <1>1, <1>2, <1>4, <1>5, IdleInOrder

LEMMA ClockInOrder ==
    ASSUME EvidenceInv, NEW p \in Procs, InOrder(p), Clock, MayStepBack = FALSE
    PROVE  InOrder(p)'
<1>1. now' = now + 1 /\ UNCHANGED <<tables, life, session, writer>>  BY DEF Clock
<1>2. /\ rows' = rows /\ sessions' = sessions /\ nextId' = nextId /\ queue' = queue
      /\ step' = step /\ current' = current /\ life' = life /\ session' = session
      BY <1>1 DEF tables, writer
<1>3. \A k \in Nat : k <= now => k <= now'  BY <1>1, OrderTypes
<1>4. /\ \A i \in DOMAIN queue[p] : queue[p][i].at <= now'
      /\ \A r \in rows : r.at <= now'
      BY <1>3, OrderTypes DEF InOrder
<1>5. /\ \A i \in DOMAIN queue'[p] :
            /\ queue'[p][i].at <= now'
            /\ \A j \in DOMAIN queue'[p] : i < j => queue'[p][i].at <= queue'[p][j].at
            /\ \A r \in rows' : r.at <= queue'[p][i].at
      /\ \A r \in rows' : r.at <= now'
      BY <1>2, <1>4 DEF InOrder
<1>6. /\ step'[p] # "idle" => /\ \A r \in rows' : r.at <= current'[p].at
                              /\ \E r \in rows' : JustWritten(p, r)'
      /\ life'[p] \in Writing => session'[p] \in sessions'
      BY <1>2 DEF InOrder, JustWritten
<1> QED  BY <1>5, <1>6 DEF InOrder

LEMMA OneInOrder ==
    ASSUME EvidenceInv, NEW p, Procs = {p}, MayStepBack = FALSE, InOrder(p), [Next]_vars
    PROVE  InOrder(p)'
<1> p \in Procs  OBVIOUS
<1>1. CASE UNCHANGED vars  BY <1>1 DEF vars, tables, writer, InOrder, JustWritten
<1>2. CASE Next
  <2>1. CASE Clock  BY <2>1, ClockInOrder
  <2>2. CASE \E t \in Targets, path \in Paths : Enqueue(p, t, path)  BY <2>2, EnqueueInOrder
  <2> QED  BY <1>2, <2>1, <2>2, OpeningInOrder, AppendRowInOrder, AppendFailsInOrder,
              AssessInOrder, CountInOrder, ClosingInOrder, EndingInOrder
           DEF Next
<1> QED  BY <1>1, <1>2

LEMMA InitInOrder ==
    ASSUME Init, NEW p \in Procs PROVE InOrder(p)
<1>1. queue[p] = <<>> /\ rows = {} /\ step[p] = "idle" /\ life[p] = "down"  BY DEF Init
<1>2. "down" \notin Writing  BY DEF Writing
<1> QED  BY <1>1, <1>2 DEF InOrder

LEMMA OrderIsSafe ==
    ASSUME EvidenceInv, NEW p, Procs = {p}, InOrder(p)
    PROVE  SessionStaysRegistered /\ AssessmentSeesItsRow
<1> p \in Procs  OBVIOUS
<1>1. SessionStaysRegistered  BY DEF SessionStaysRegistered, InOrder
<1>2. ASSUME step[p] = "assess"
      PROVE  Summarize(rows, current[p].target, Cutoff(p)).wins[current[p].direction] >= 1
  <2>1. PICK r \in rows : JustWritten(p, r)  BY <1>2 DEF InOrder
  <2> DEFINE path == current[p].direction
             of == {s \in rows : s.target = current[p].target /\ s.direction = path
                                 /\ s.at >= Cutoff(p)}
  <2>2. r.at >= Cutoff(p)
    <3>1. r.at \in Nat /\ Retention \in Nat  BY OrderTypes, EvidenceBounds
    <3>2. Cutoff(p) = r.at - Retention  BY <2>1 DEF Cutoff, JustWritten
    <3> QED  BY <3>1, <3>2
  <2>3. r \in of /\ of \subseteq rows  BY <2>1, <2>2 DEF JustWritten
  <2>4. path \in Paths
    <3>1. current[p] \in Asks  BY <1>2, Present DEF EvidenceInv
    <3> QED  BY <3>1, RequestTypes
  <2>5. Summarize(rows, current[p].target, Cutoff(p)).wins[path] = Cardinality(of)
        BY <2>4 DEF Summarize
  <2> HIDE DEF of, path
  <2>6. IsFiniteSet(of) /\ Cardinality(of) \in Nat  BY <2>3, SubsetSizes DEF EvidenceInv, Tables
  <2>7. Cardinality(of) # 0  BY <2>3, <2>6, FS_EmptySet
  <2>8. Cardinality(of) >= 1  BY <2>6, <2>7
  <2> QED  BY <2>5, <2>8 DEF path
<1>3. AssessmentSeesItsRow  BY <1>2 DEF AssessmentSeesItsRow
<1> QED  BY <1>1, <1>3

-----------------------------------------------------------------------------
(* The theorems.                                                           *)

LEMMA EvidenceInvariant == Spec => []EvidenceInv
<1>1. Init => EvidenceInv  BY EvidenceInit
<1>2. EvidenceInv /\ [Next]_vars => EvidenceInv'  BY EvidenceNext
<1> QED  BY <1>1, <1>2, PTL DEF Spec

LEMMA CeilingInvariant == Spec => [](EvidenceInv /\ CeilingInv)
<1>1. Init => EvidenceInv /\ CeilingInv  BY EvidenceInit, CeilingInit
<1>2. EvidenceInv /\ CeilingInv /\ [Next]_vars => (EvidenceInv /\ CeilingInv)'
      BY EvidenceNext, CeilingNext
<1> QED  BY <1>1, <1>2, PTL DEF Spec

\* Of any number of processes, whose clock may be set back and whose trims may
\* fail: what is above the ceiling is owed, by no writer more than TrimEvery and
\* its failures, and nothing when all have just started or closed in time; no row
\* is without its session, and the report of the operator adds up
\* (internal/store, TrimEvidenceTo and ListTargetSummaries; main.go, OnProcessed;
\* internal/learning, DurableEvaluator.Report).
THEOREM TableOfManyProcesses ==
    Spec => [](TypeOK /\ RowsAccounted /\ CeilingKept /\ ReferencesHold /\ ReportAddsUp)
<1>1. EvidenceInv /\ CeilingInv =>
          TypeOK /\ RowsAccounted /\ CeilingKept /\ ReferencesHold /\ ReportAddsUp
      BY EvidenceSafe, CeilingSafe, ReportCounts DEF EvidenceInv
<1> QED  BY <1>1, CeilingInvariant, PTL

\* Of any number of processes: a row that is deleted within its retention has
\* max_evidence_rows newer ones that stay, and nothing is suggested on rows that
\* contradict it, or on fewer sessions than it takes.
THEOREM StepsOfManyProcesses == Spec => NewestKept /\ SuggestionIsIndependent
<1>1. EvidenceInv /\ [Next]_vars => [KeepsNewest]_vars /\ [SuggestsIndependently]_vars
      BY StepKeepsNewest, StepSuggestsIndependently
<1> QED  BY <1>1, EvidenceInvariant, PTL DEF Spec, NewestKept, SuggestionIsIndependent

\* Of one process whose clock runs forward: its session stays registered while
\* it writes, and each assessment counts the row just written.
THEOREM TableOfOneProcess ==
    ASSUME NEW p, Procs = {p}, MayStepBack = FALSE
    PROVE  Spec => [](SessionStaysRegistered /\ AssessmentSeesItsRow)
<1>1. Init => EvidenceInv /\ InOrder(p)  BY EvidenceInit, InitInOrder
<1>2. EvidenceInv /\ InOrder(p) /\ [Next]_vars => EvidenceInv' /\ InOrder(p)'
      BY EvidenceNext, OneInOrder
<1>3. EvidenceInv /\ InOrder(p) => SessionStaysRegistered /\ AssessmentSeesItsRow  BY OrderIsSafe
<1> QED  BY <1>1, <1>2, <1>3, PTL DEF Spec
=============================================================================
