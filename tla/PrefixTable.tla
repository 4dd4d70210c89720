---------------------------- MODULE PrefixTable -----------------------------
(***************************************************************************)
(* What a table of prefixes promises: a partial function from prefixes to  *)
(* values, and an answer to each operation.                                *)
(***************************************************************************)
EXTENDS Integers, FiniteSets

CONSTANTS Address, Prefix, Value, Covers(_, _), Before(_, _), None

VARIABLES
    table,      \* a function from the prefixes that are entries to their values
    answer      \* the last operation and what it returned: a bool, a prefix or None

Bind(f, p, v) == [q \in DOMAIN f \cup {p} |-> IF q = p THEN v ELSE f[q]]
Only(f, S) == [q \in S |-> f[q]]
Matches(f, a) == {p \in DOMAIN f : Covers(p, a)}
Longest(f, a) == CHOOSE p \in Matches(f, a) : \A q \in Matches(f, a) : q.len <= p.len
Done(call, b) == [call |-> call, ok |-> b, at |-> None]

Init == table = <<>> /\ answer = Done(<<>>, TRUE)

\* An entry that is there is kept, and this is said.
Insert(p, v) ==
    /\ answer' = Done(<<"insert", p, v>>, p \notin DOMAIN table)
    /\ table' = IF p \in DOMAIN table THEN table ELSE Bind(table, p, v)
Assign(p, v) == table' = Bind(table, p, v) /\ answer' = Done(<<"assign", p, v>>, TRUE)
Remove(p) ==
    /\ answer' = Done(<<"remove", p>>, p \in DOMAIN table)
    /\ table' = Only(table, DOMAIN table \ {p})

\* The answer is the entry that comes next.
Erase(p) ==
    LET after == {q \in DOMAIN table : Before(p, q)}
    IN  /\ p \in DOMAIN table
        /\ table' = Only(table, DOMAIN table \ {p})
        /\ answer' = [call |-> <<"erase", p>>, ok |-> TRUE,
                      at |-> IF after = {} THEN None
                             ELSE CHOOSE q \in after : ~\E r \in after : Before(r, q)]
Clear == table' = <<>> /\ answer' = Done(<<"clear">>, TRUE)

\* Written to a file and read again: some of it, if it is not said to be read.
Reload ==
    /\ DOMAIN table' \subseteq DOMAIN table
    /\ table' = Only(table, DOMAIN table')
    /\ \E b \in BOOLEAN : answer' = Done(<<"reload">>, b) /\ (b => DOMAIN table' = DOMAIN table)

\* The same addresses are covered, none by a value that it had no route to,
\* and by no more entries.
Aggregate ==
    /\ Cardinality(DOMAIN table') <= Cardinality(DOMAIN table)
    /\ \A a \in Address :
           /\ (Matches(table', a) = {}) <=> (Matches(table, a) = {})
           /\ {table'[p] : p \in Matches(table', a)} \subseteq {table[p] : p \in Matches(table, a)}
    /\ answer' = Done(<<"aggregate">>, TRUE)

Next ==
    \/ \E p \in Prefix, v \in Value : Insert(p, v) \/ Assign(p, v)
    \/ \E p \in Prefix : Remove(p) \/ Erase(p)
    \/ Clear \/ Reload \/ Aggregate

Step == [Next]_<<table, answer>>
Spec == Init /\ [][Step]_<<table, answer>>
=============================================================================
