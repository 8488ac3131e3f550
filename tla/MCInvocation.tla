---------------------------- MODULE MCInvocation ----------------------------
(***************************************************************************)
(* Invocations for TLC: every request whose options relate to each other,  *)
(* and joins of reports that differ in what the join looks at.             *)
(***************************************************************************)
EXTENDS Invocation, TLC

CONSTANT Names     \* the labels of reports

(* Every combination of the options that config.py relates to each other,  *)
(* and the ordinary ones with an option that is refused by itself.         *)
Related == {q \in Request : q.formed /\ q.allow /\ ~q.protected /\ q.axis = "clients"}
Ordinary == {q \in Related : q.init = "auto" /\ ~q.command /\ ~q.config /\ ~q.caches}
AnyRequest == Related \cup UNION {
    {[q EXCEPT !.formed = FALSE], [q EXCEPT !.allow = FALSE],
     [q EXCEPT !.protected = TRUE], [q EXCEPT !.axis = "time"]} : q \in Ordinary}

(* A typical report, those that differ from it in at most two ways, and a  *)
(* file that is no report.                                                 *)
Typical == [label |-> 0, schema |-> 1, values |-> [hash |-> 1, server |-> 1, settings |-> 1],
            series |-> 1, metric |-> TRUE, logs |-> TRUE, charts |-> TRUE, blocks |-> 1,
            storage |-> TRUE]
Variants == {[Typical EXCEPT !.schema = 2], [Typical EXCEPT !.values = [hash |-> 1, server |-> 1]],
             [Typical EXCEPT !.values.server = 2], [Typical EXCEPT !.values.hash = 2],
             [Typical EXCEPT !.values.settings = 2], [Typical EXCEPT !.series = 2],
             [Typical EXCEPT !.metric = FALSE], [Typical EXCEPT !.logs = FALSE],
             [Typical EXCEPT !.charts = FALSE, !.blocks = 0], [Typical EXCEPT !.blocks = 2],
             [Typical EXCEPT !.storage = FALSE],
             [Typical EXCEPT !.values.settings = 2, !.metric = FALSE],
             [Typical EXCEPT !.values.settings = 3, !.series = 2, !.storage = FALSE],
             [Typical EXCEPT !.metric = FALSE, !.series = 2, !.logs = FALSE]}
AnyReport == {[r EXCEPT !.label = l] : r \in {Typical} \cup Variants, l \in Names} \cup {[label |-> 0]}
NameSymmetry == Permutations(Names)
TaskPaths == {"hash", "server"}
StepPaths == {"server", "settings"}
=============================================================================
