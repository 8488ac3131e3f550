---------------------------- MODULE MCPreparation ----------------------------
(***************************************************************************)
(* Preparations of a point for TLC: every plan of three tasks on a plain   *)
(* host, every host and transport without replicas, and every option of    *)
(* the loader with replicas.                                               *)
(***************************************************************************)
EXTENDS Preparation

Situation(deps, fast, unlogged, schema, config) ==
    [deps |-> deps, fast |-> fast, unlogged |-> unlogged, schema |-> schema, config |-> config]
AnyPlan == {Situation(d, TRUE, FALSE, TRUE, FALSE) :
               d \in SUBSET (Tasks \X Tasks) \cup {{<<t, "unknown">>} : t \in Tasks}}
Full == {s \in {Situation({}, f, u, FALSE, c) : f, u, c \in BOOLEAN} : s.unlogged => s.fast}
AnySituation == AnyPlan \cup Full

PlainHost == [python |-> "fit", ours |-> 0, closed |-> FALSE, marker |-> FALSE]
AnyHost == {h \in [python : {"fit", "old", "none"}, ours : 0 .. 2, closed : BOOLEAN, marker : BOOLEAN] :
                h.ours > 0 => h.marker}

(* What is varied together: the plan; the host, its transport and the      *)
(* configuration; the options of the loader and the replicas.              *)
Plain == kind = "local" /\ host = PlainHost /\ proxied = FALSE
First == CHOOSE a \in Addresses : TRUE
One == CHOOSE r \in Replicas : TRUE
Alone == connected = {} /\ slots = {} /\ address = [r \in Replicas |-> First]
Focus ==
    \/ situation \in AnyPlan /\ Plain /\ Alone
    \/ situation \in {s \in Full : ~s.fast} /\ kind \in Kinds /\ host \in Hosts /\ Alone
    \/ situation \in {s \in Full : s.fast /\ ~s.config} /\ Plain
       /\ connected \in {{One}, Replicas}
       /\ \E a \in Addresses : address = [r \in Replicas |-> IF r = One THEN First ELSE a]

FocusedInit == Init /\ Focus
FocusedSpec == FocusedInit /\ [][Next]_vars /\ Fairness
=============================================================================
