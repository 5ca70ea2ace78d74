-------------------------- MODULE PreflightInputs --------------------------
(* What preflight may find, and what it finds in the bounded instances. *)
EXTENDS Integers

\* What the checks read.  A lab report has the time zero when it has none.
Findings ==
    [sessionValid : BOOLEAN, window : Int, thresholds : Int \X Int \X Int, configValid : BOOLEAN,
     privacy : STRING, ackDirect : BOOLEAN, ackOriginal : BOOLEAN, recording : BOOLEAN,
     cleartext : BOOLEAN, ackCleartext : BOOLEAN, control : STRING, files : Nat,
     mode : STRING, ackEphemeral : BOOLEAN, persistence : BOOLEAN,
     database : {"absent", "regular", "irregular"}, key : {"absent", "regular", "irregular"},
     opens : BOOLEAN, backup : STRING,
     testlab : [proves : BOOLEAN, at : Nat], mihomo : [proves : BOOLEAN, at : Nat]]

Lab(proves, at) == [proves |-> proves, at |-> at]
Good == [sessionValid |-> TRUE, window |-> 2, thresholds |-> <<1, 1, 2>>, configValid |-> TRUE,
         privacy |-> "explicit-opt-in", ackDirect |-> TRUE, ackOriginal |-> TRUE, recording |-> TRUE,
         cleartext |-> FALSE, ackCleartext |-> FALSE, control |-> "paused", files |-> 0,
         mode |-> "auto", ackEphemeral |-> FALSE, persistence |-> TRUE, database |-> "absent",
         key |-> "absent", opens |-> TRUE, backup |-> "none", testlab |-> Lab(TRUE, 1), mihomo |-> Lab(TRUE, 1)]

\* A plan that is right, or wrong in one place.
Plans(i) ==
    {i} \cup {[i EXCEPT !.sessionValid = FALSE], [i EXCEPT !.window = 0], [i EXCEPT !.window = 3],
              [i EXCEPT !.thresholds = <<0, 1, 2>>], [i EXCEPT !.thresholds = <<1, 3, 2>>]}
Flags(i) ==
    {[i EXCEPT !.configValid = c, !.privacy = p, !.ackDirect = d, !.ackOriginal = o] :
        c \in BOOLEAN, d \in BOOLEAN, o \in BOOLEAN, p \in {"privacy-first", "explicit-opt-in", "other"}}
Observations(i) ==
    {[i EXCEPT !.recording = r, !.cleartext = c, !.ackCleartext = a, !.control = s, !.files = f] :
        r \in BOOLEAN, c \in BOOLEAN, a \in BOOLEAN, s \in {"unreadable", "paused", "recording"}, f \in 0 .. 1}
Modes(i) ==
    {[i EXCEPT !.mode = m, !.ackEphemeral = a] :
        a \in BOOLEAN, m \in {"auto", "shadow", "ephemeral-auto", "durable-auto", "other"}}
Stores(i) ==
    {[i EXCEPT !.persistence = p, !.database = d, !.key = k, !.opens = o, !.backup = b] :
        p \in BOOLEAN, d, k \in {"absent", "regular", "irregular"}, o \in BOOLEAN,
        b \in {"none", "broken", "other", "matching"}}
Labs(i) ==
    {[i EXCEPT !.testlab = Lab(t, a), !.mihomo = Lab(m, b)] : t, m \in BOOLEAN, a, b \in 0 .. 5}

\* Every combination within a group of checks, and several pairs of groups.
MCAll == UNION {Plans(i) : i \in Modes(Good) \cup Stores(Good)}
         \cup UNION {Flags(i) : i \in Modes(Good)} \cup UNION {Observations(i) : i \in Stores(Good)}
         \cup UNION {Modes(i) : i \in Stores(Good)} \cup Labs(Good)
MCFew == {Good, [Good EXCEPT !.window = 4], [Good EXCEPT !.ackOriginal = FALSE],
          [Good EXCEPT !.control = "recording", !.files = 1], [Good EXCEPT !.persistence = FALSE]}
=============================================================================
