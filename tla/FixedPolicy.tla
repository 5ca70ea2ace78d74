----------------------------- MODULE FixedPolicy -----------------------------
(***************************************************************************)
(* The table of manual route locks, and the short-lived commands that      *)
(* change it: smartroute policy lock and revoke.  A command reads the      *)
(* clock, opens the database, creating what is missing of its schema, and  *)
(* commits one immediate transaction; any of its steps may be its last.    *)
(* The clock has a finer unit than the table, which keeps milliseconds,    *)
(* and can be set back.                                                    *)
(***************************************************************************)
EXTENDS Naturals, Sequences

CONSTANTS Commands, Targets, Paths,
          Ttls,        \* of a lock, in ticks; 0 is a lock that does not expire
          TicksPerMs,
          MaxClock, MaxSetBacks  \* bounds

VARIABLES
    now,
    schema,   \* how many of the statements of initialize have been executed
    rules,    \* the rows, in the order of their commits; a rule's identifier is its place
    pc, cmd,  \* of each command: where it is; what it wants, and the time it has read
    stmt,     \* the statements of initialize it has executed itself
    setBacks

vars == <<now, schema, rules, pc, cmd, stmt, setBacks>>

Ms(t) == t \div TicksPerMs

\* The file, the metadata with its version, the table of rules, its index.
Complete == 4

Wants == [op : {"lock"}, at : 0 .. MaxClock] \cup [op : {"revoke"}, id : Nat, at : 0 .. MaxClock]
            \cup [op : {"lock"}, target : Targets, path : Paths, ttl : Ttls, at : 0 .. MaxClock]

TypeOK ==
    /\ now \in 0 .. MaxClock /\ schema \in 0 .. Complete /\ setBacks \in 0 .. MaxSetBacks
    /\ \A i \in DOMAIN rules : /\ rules[i].target \in Targets /\ rules[i].path \in Paths
                               /\ Len(rules[i].expires) <= 1 /\ Len(rules[i].revoked) <= 1
    /\ \A c \in Commands :
        /\ pc[c] \in {"new", "opening", "opened", "committing", "done", "not found", "refused", "over"}
        /\ pc[c] = "new" \/ cmd[c] \in Wants
        /\ stmt[c] \in 0 .. schema

Init ==
    /\ now = 0 /\ schema = 0 /\ rules = <<>> /\ setBacks = 0
    /\ pc = [c \in Commands |-> "new"] /\ cmd = [c \in Commands |-> <<>>]
    /\ stmt = [c \in Commands |-> 0]

Tick ==
    /\ now < MaxClock /\ now' = now + 1
    /\ UNCHANGED <<schema, rules, pc, cmd, stmt, setBacks>>
SetBack ==
    /\ setBacks < MaxSetBacks /\ setBacks' = setBacks + 1
    /\ now' \in 0 .. now /\ now' # now
    /\ UNCHANGED <<schema, rules, pc, cmd, stmt>>

-----------------------------------------------------------------------------
(* What the table is constrained to, and how a row is read back.           *)

Active(r) == r.revoked = <<>>

SameTarget(r, s) == r.target = s.target

\* Mutant: the expiry is checked before it is rounded.
ExpiryFits_Unrounded(r) == r.expires = <<>> \/ r.expires[1] >= r.created
ExpiryFits(r) == r.expires = <<>> \/ r.expires[1] > r.created
RevocationFits(r) == r.revoked = <<>> \/ r.revoked[1] >= r.created

\* Every CHECK, and the unique index over the rules that are not revoked.
Constrained(table) ==
    /\ \A i \in DOMAIN table : ExpiryFits(table[i]) /\ RevocationFits(table[i])
    /\ \A i, j \in DOMAIN table :
           i # j /\ Active(table[i]) /\ Active(table[j]) => ~SameTarget(table[i], table[j])

\* scanRule: its time of expiry must be after that of creation, and its
\* revocation not before it.
Readable(r) ==
    /\ r.expires = <<>> \/ r.expires[1] > r.created
    /\ r.revoked = <<>> \/ r.revoked[1] >= r.created

Listed(ms) == {i \in DOMAIN rules : Active(rules[i]) /\ (rules[i].expires = <<>> \/ rules[i].expires[1] > ms)}

-----------------------------------------------------------------------------
(* The commands.                                                           *)

Goes(c, from, to) == pc[c] = from /\ pc' = [pc EXCEPT ![c] = to]

\* The clock is read before the database is opened.
StartLock(c) ==
    /\ Goes(c, "new", "opening")
    /\ cmd' = [cmd EXCEPT ![c] = [op |-> "lock", at |-> now]]
    /\ UNCHANGED <<now, schema, rules, stmt, setBacks>>

\* Without a database file there is no rule, and none is created.
StartRevoke(c) ==
    /\ Goes(c, "new", IF schema = 0 THEN "not found" ELSE "opening")
    /\ \E id \in DOMAIN rules \cup {0} :
        cmd' = [cmd EXCEPT ![c] = [op |-> "revoke", id |-> id, at |-> 0]]
    /\ UNCHANGED <<now, schema, rules, stmt, setBacks>>

\* Each statement takes effect unless another process was first.
Initialize(c) ==
    /\ pc[c] = "opening"
    /\ stmt' = [stmt EXCEPT ![c] = @ + 1]
    /\ schema' = IF stmt[c] + 1 > schema THEN stmt[c] + 1 ELSE schema
    /\ pc' = [pc EXCEPT ![c] = IF stmt[c] + 1 = Complete THEN "opened" ELSE @]
    /\ UNCHANGED <<now, rules, cmd, setBacks>>

\* The revocation is timed after the database is open.
ReadClock(c) ==
    /\ Goes(c, "opened", "committing") /\ cmd[c].op = "revoke"
    /\ cmd' = [cmd EXCEPT ![c].at = now]
    /\ UNCHANGED <<now, schema, rules, stmt, setBacks>>

Lockings(t) == [op : {"lock"}, target : Targets, path : Paths, ttl : Ttls, at : {t}]

Rule(w) == [target |-> w.target, path |-> w.path, created |-> Ms(w.at),
            expires |-> IF w.ttl = 0 THEN <<>> ELSE <<Ms(w.at + w.ttl)>>, revoked |-> <<>>]

\* Mutant: a rule that has expired is left as it is.
Superseded_Live(r, s) == Active(r) /\ SameTarget(r, s) /\ (r.expires = <<>> \/ r.expires[1] > s.created)
Superseded(r, s) == Active(r) /\ SameTarget(r, s)

Supersede(table, s) ==
    [i \in DOMAIN table |->
        IF Superseded(table[i], s) THEN [table[i] EXCEPT !.revoked = <<s.created>>] ELSE table[i]]

\* What it locks, and for how long, matters here only and is chosen here.  A
\* statement that breaks a constraint rolls everything back.
Lock(c) ==
    /\ pc[c] = "opened" /\ cmd[c].op = "lock"
    /\ \E w \in Lockings(cmd[c].at) :
        LET table == Append(Supersede(rules, Rule(w)), Rule(w)) IN
        /\ cmd' = [cmd EXCEPT ![c] = w]
        /\ IF schema = Complete /\ Constrained(table)
           THEN rules' = table /\ Goes(c, "opened", "done")
           ELSE Goes(c, "opened", "refused") /\ UNCHANGED rules
    /\ UNCHANGED <<now, schema, stmt, setBacks>>

Revocable(id) == id \in DOMAIN rules /\ Active(rules[id])

Revoke(c) ==
    LET w == cmd[c] IN
    /\ pc[c] = "committing"
    /\ IF ~Revocable(w.id)
       THEN Goes(c, "committing", "not found") /\ UNCHANGED rules
       ELSE LET table == [rules EXCEPT ![w.id].revoked = <<Ms(w.at)>>] IN
            IF Constrained(table)
            THEN rules' = table /\ Goes(c, "committing", "done")
            ELSE Goes(c, "committing", "refused") /\ UNCHANGED rules
    /\ UNCHANGED <<now, schema, cmd, stmt, setBacks>>

\* An error of the database, or a crash.
Ends(c) ==
    /\ pc[c] \in {"opening", "opened", "committing"} /\ pc' = [pc EXCEPT ![c] = "over"]
    /\ UNCHANGED <<now, schema, rules, cmd, stmt, setBacks>>

Next ==
    \/ Tick \/ SetBack
    \/ \E c \in Commands :
        \/ StartLock(c) \/ StartRevoke(c) \/ Initialize(c) \/ ReadClock(c)
        \/ Lock(c) \/ Revoke(c) \/ Ends(c)

Spec == Init /\ [][Next]_vars

-----------------------------------------------------------------------------
(* Properties.                                                             *)

\* Whatever commands overlap and whatever the clock does, every row that was
\* stored can be read back: one that could not would make every list that
\* reaches it report a corrupt database.
StoredIsReadable == \A i \in DOMAIN rules : Readable(rules[i])

\* ADR-0035: an exact target has one lock.  The rules that a list shows as
\* being in force, at any time, are of different targets, and each is the last
\* that was committed for its target.
OneLockPerTarget ==
    /\ \A ms \in 0 .. Ms(MaxClock) : \A i, j \in Listed(ms) :
           i # j => rules[i].target # rules[j].target
    /\ \A i, j \in DOMAIN rules :
           i < j /\ rules[i].target = rules[j].target => ~Active(rules[i])

\* A lock is refused for two reasons only: a rule of its target that is in
\* force was created, by the clock of the machine, after this command had read
\* its own, or a time to live that is rounded to nothing.  An expired rule, a
\* first start that ended half way and a second command are none.
RefusedForItsTime == \A c \in Commands :
    pc[c] = "opened" /\ pc'[c] = "refused" =>
        \/ \E i \in DOMAIN rules : /\ rules[i].target = cmd'[c].target /\ Active(rules[i])
                                   /\ rules[i].created > Ms(cmd[c].at)
        \/ cmd'[c].ttl \in 1 .. TicksPerMs - 1

\* The table is a history: no row is removed or rewritten, but for being
\* revoked, once; and a command that failed has changed nothing.
KeepsHistory ==
    /\ \A i \in DOMAIN rules :
        /\ i \in DOMAIN rules'
        /\ [rules'[i] EXCEPT !.revoked = <<>>] = [rules[i] EXCEPT !.revoked = <<>>]
        /\ ~Active(rules[i]) => rules'[i] = rules[i]
    /\ rules' # rules => \E c \in Commands : pc[c] # "done" /\ pc'[c] = "done"
=============================================================================
