------------------------- MODULE LoadSchedulerProofs -------------------------
(***************************************************************************)
(* Proofs about the load scheduler, for every plan, number of workers and  *)
(* batch size: types, no key loaded twice, dependencies loaded first, the  *)
(* implementation of LoadPhase, and no worker that waits for nobody.       *)
(***************************************************************************)
EXTENDS LoadScheduler, FiniteSetTheorems, TLAPS

-----------------------------------------------------------------------------
(* Arithmetic of batches and of the round robin.                           *)

\* A batch has at least one key.
LEMMA BatchKeysType ==
    ASSUME NEW t \in Task
    PROVE  BatchKeys(t) \in Nat \ {0}
<1>1. BatchRows \in Nat \ {0} /\ MaxRows[t] \in Nat \ {0}
  BY PlanAssumption
<1>2. \A a, b \in Nat \ {0} : a \div b \in Nat
  OBVIOUS
<1> QED
  BY <1>1, <1>2 DEF BatchKeys

\* The bounds of the next batch stay within the keys of a batched task.
LEMMA LastKeyRange ==
    ASSUME NEW t \in Task, NEW first \in Nat, 1 <= first, first <= Count[t]
    PROVE  LastKey(t, first) \in first .. Count[t]
<1>1. Count[t] \in Nat
  BY PlanAssumption
<1> QED
  BY <1>1, BatchKeysType DEF LastKey

LEMMA LastKeyType ==
    ASSUME NEW t \in Task, NEW first \in Nat
    PROVE  LastKey(t, first) \in Nat
<1>1. Count[t] \in Nat /\ BatchKeys(t) \in Nat \ {0}
  BY BatchKeysType, PlanAssumption
<1>2. first + BatchKeys(t) - 1 \in Nat
  BY <1>1
<1> QED
  BY <1>1, <1>2 DEF LastKey

LEMMA TaskFacts ==
    /\ N \in Nat \ {0}
    /\ Task = 0 .. N - 1
    /\ N \notin Task
    /\ \A i \in Nat : i % N \in Task
<1>1. N \in Nat \ {0}
  BY PlanAssumption
<1>2. \A i \in Nat : i % N \in 0 .. N - 1
  BY <1>1
<1> QED
  BY <1>1, <1>2 DEF Task

LEMMA KeyType ==
    ASSUME NEW t \in Task, NEW k \in Keys(t)
    PROVE  k \in Nat
<1>1. Count[t] \in Nat
  BY PlanAssumption
<1> QED
  BY <1>1 DEF Keys

LEMMA VisitedType ==
    ASSUME TypeOK
    PROVE  Visited \in Task
<1>1. cursor + offset \in Nat
  BY TaskFacts DEF TypeOK
<1> QED
  BY <1>1, TaskFacts DEF Visited

-----------------------------------------------------------------------------
(* The inductive invariant.                                                *)

\* Worker w holds a batch of t with the key k; who holds batches of t.
Covers(w, t, k) == job[w].task = t /\ k \in job[w].first .. job[w].last
Holders(t) == {w \in Workers : job[w].task = t}

\* A batch is held from its take to its record, or for good by a worker that
\* failed; it lies below next_key, and the dependencies of its task are done.
JobInv ==
    \A w \in Workers :
        /\ pc[w] \in {"execute", "record"} => job[w].task \in Task
        /\ pc[w] \notin {"execute", "record", "failed"} => job[w] = NoJob
        /\ job[w].task \in Task =>
               /\ DependsOn[job[w].task] \subseteq done
               /\ \A k \in job[w].first .. job[w].last :
                      k \in Keys(job[w].task) /\ k < next_key[job[w].task]

\* A key below next_key is committed once or covered by a worker that has not
\* committed it; no two workers cover one key.
KeyInv ==
    \A t \in Task :
        /\ t \in Single => next_key[t] <= 1
        /\ t \notin Single => 1 <= next_key[t] /\ next_key[t] <= Count[t] + 1
        /\ \A k \in Keys(t) :
               /\ copies[t][k] <= 1
               /\ copies[t][k] > 0 => k < next_key[t]
               /\ k < next_key[t] /\ copies[t][k] = 0 =>
                      \E w \in Workers : pc[w] # "record" /\ Covers(w, t, k)
               /\ \A w \in Workers : pc[w] = "execute" /\ Covers(w, t, k) => copies[t][k] = 0
               /\ \A v, w \in Workers : Covers(v, t, k) /\ Covers(w, t, k) => v = w

\* outstanding counts the held batches; a completed task has none.
DoneInv ==
    \A t \in Task :
        /\ outstanding[t] = Cardinality(Holders(t))
        /\ t \in done => Exhausted(t) /\ Holders(t) = {}

\* A worker leaves, and the phase returns, only when all tasks are complete;
\* nobody scans once the workers are cancelled.
PhaseInv ==
    /\ \A w \in Workers : /\ pc[w] \in {"exit", "ended"} => done = Task
                          /\ pc[w] = "scan" <=> holder = w
    /\ phase # "gather" => holder = Nobody
    /\ Ended => \A w \in Workers : pc[w] \in {"ended", "failed"}
    /\ phase = "returned" => done = Task

LoadInv == TypeOK /\ JobInv /\ KeyInv /\ DoneInv /\ PhaseInv

\* The sets of holders are finite.
LEMMA HoldersFinite ==
    ASSUME NEW t \in Task
    PROVE  IsFiniteSet(Holders(t))
<1>1. IsFiniteSet(Workers)
  BY PlanAssumption
<1> QED
  BY <1>1, FS_Subset DEF Holders

\* The batch that a worker records is counted in outstanding.
LEMMA RecordedIsOutstanding ==
    ASSUME TypeOK, DoneInv, NEW w \in Workers, job[w].task \in Task
    PROVE  /\ outstanding[job[w].task] \in Nat \ {0}
           /\ outstanding[job[w].task] = 1 <=> Holders(job[w].task) = {w}
<1> DEFINE t == job[w].task
           H == Holders(t)
<1>1. IsFiniteSet(H) /\ w \in H /\ outstanding[t] = Cardinality(H)
  BY HoldersFinite DEF DoneInv, Holders
<1>2. Cardinality(H) \in Nat
  BY <1>1, FS_CardinalityType
<1>3. Cardinality(H) # 0
  BY <1>1, FS_EmptySet
<1>4. H = {w} => Cardinality(H) = 1
  BY FS_Singleton
<1>5. ASSUME Cardinality(H) = 1
      PROVE  H = {w}
  <2>1. PICK x : H = {x}
    BY <1>1, <1>5, FS_Singleton
  <2> QED
    BY <1>1, <2>1
<1> QED
  BY <1>1, <1>2, <1>3, <1>4, <1>5

-----------------------------------------------------------------------------
(* Types.                                                                  *)

LEMMA TypeInductive ==
    ASSUME TypeOK, JobInv, DoneInv, [Next]_vars
    PROVE  TypeOK'
<1> USE DEF TypeOK
<1>0. N \in Nat \ {0} /\ N \notin Task
  BY TaskFacts
<1>1. ASSUME NEW w \in Workers, Connect(w)
      PROVE  TypeOK'
  BY <1>1 DEF Connect, Go, Goto, tasks, scan
<1>2. ASSUME NEW w \in Workers, EnterTake(w)
      PROVE  TypeOK'
  BY <1>0, <1>2 DEF EnterTake, Goto, tasks
<1>3. ASSUME NEW w \in Workers, Skip(w)
      PROVE  TypeOK'
  BY <1>0, <1>3 DEF Skip, tasks
<1>4. ASSUME NEW w \in Workers, CompleteEmpty(w)
      PROVE  TypeOK'
  BY <1>0, <1>4, VisitedType DEF CompleteEmpty, NotifyAll, tasks
<1>5. ASSUME NEW w \in Workers, Take(w)
      PROVE  TypeOK'
  <2> DEFINE t == Visited
             first == next_key[t]
             last == IF t \in Single THEN 0 ELSE LastKey(t, first)
  <2>1. t \in Task
    BY VisitedType
  <2>2. first \in Nat /\ Count[t] \in Nat
    BY <2>1, PlanAssumption
  <2>3. last \in Nat
    BY <2>1, <2>2, LastKeyType
  <2>4. (t + 1) % N \in Task
    <3> HIDE DEF t
    <3>1. t + 1 \in Nat
      BY <1>0, <2>1 DEF Task
    <3> QED
      BY <3>1, TaskFacts
  <2>5. /\ job' = [job EXCEPT ![w] = Job(t, first, last)]
        /\ next_key' = [next_key EXCEPT ![t] = last + 1]
        /\ outstanding' = [outstanding EXCEPT ![t] = @ + 1]
        /\ cursor' = (t + 1) % N
        /\ pc' = [pc EXCEPT ![w] = "execute"]
        /\ holder' = Nobody
        /\ UNCHANGED <<batches, done, offset, previous, phase, copies>>
    BY <1>5 DEF Take, Goto
  <2>6. Job(t, first, last) \in [task : 0 .. N, first : Nat, last : Nat]
    BY <2>1, <2>2, <2>3, TaskFacts DEF Job
  <2> HIDE DEF t, first, last
  <2> QED
    BY <2>1, <2>2, <2>3, <2>4, <2>5, <2>6
<1>6. ASSUME NEW w \in Workers, EndScan(w)
      PROVE  TypeOK'
  <2>1. CASE done # Task /\ done # previous
    BY <1>0, <1>6, <2>1 DEF EndScan, tasks
  <2>2. CASE ~(done # Task /\ done # previous)
    BY <1>0, <1>6, <2>2 DEF EndScan, Goto, tasks
  <2> QED
    BY <2>1, <2>2
<1>7. ASSUME NEW w \in Workers, Commit(w)
      PROVE  TypeOK'
  BY <1>7 DEF Commit, Go, Goto, tasks, scan
<1>8. ASSUME NEW w \in Workers, Record(w)
      PROVE  TypeOK'
  <2>1. job[w].task \in Task
    BY <1>8 DEF Record, Completes, JobInv
  <2>2. outstanding[job[w].task] \in Nat \ {0}
    BY <2>1, RecordedIsOutstanding
  <2>3. NoJob \in [task : 0 .. N, first : Nat, last : Nat]
    BY <1>0 DEF NoJob, Job
  <2> QED
    BY <1>8, <2>1, <2>2, <2>3 DEF Record, Completes, NotifyAll, scan
<1>9. ASSUME NEW w \in Workers, Leave(w) \/ Fail(w) \/ Cancelled(w)
      PROVE  TypeOK'
  BY <1>9 DEF Leave, Fail, Cancelled, Go, Goto, tasks, scan
<1>10. ASSUME CancelAll \/ EndPhase \/ UNCHANGED vars
       PROVE  TypeOK'
  BY <1>10 DEF CancelAll, EndPhase, vars, tasks, scan
<1> QED
  BY <1>1, <1>2, <1>3, <1>4, <1>5, <1>6, <1>7, <1>8, <1>9, <1>10
     DEF Next, Work, Scan, Terminated

-----------------------------------------------------------------------------
(* Take, Commit and Record move batches; every other step keeps them.      *)

Batched == {"execute", "record"}
Kept == {"execute", "record", "failed"}

BatchesKept ==
    /\ UNCHANGED <<job, next_key, outstanding, copies>>
    /\ \A v \in Workers : \/ pc'[v] = pc[v] /\ pc[v] \in Kept
                          \/ pc'[v] = "failed"
                          \/ pc'[v] \notin Kept /\ pc[v] \notin Kept

LEMMA KeepingSteps ==
    ASSUME TypeOK, PhaseInv, [Next]_vars,
           \A w \in Workers : ~Take(w) /\ ~Commit(w) /\ ~Record(w)
    PROVE  /\ BatchesKept
           /\ \/ done' = done
              \/ \E w \in Workers : CompleteEmpty(w)
<1> USE DEF BatchesKept, Kept
<1>1. ASSUME NEW w \in Workers, Connect(w) \/ Leave(w) \/ Fail(w) \/ Cancelled(w)
      PROVE  BatchesKept /\ done' = done
  BY <1>1 DEF Connect, Leave, Fail, Cancelled, Go, Goto, tasks, TypeOK
<1>2. ASSUME NEW w \in Workers, EnterTake(w)
      PROVE  BatchesKept /\ done' = done
  BY <1>2 DEF EnterTake, Goto, tasks, TypeOK
<1>3. ASSUME NEW w \in Workers, Skip(w)
      PROVE  BatchesKept /\ done' = done
  BY <1>3 DEF Skip, tasks, TypeOK
<1>4. ASSUME NEW w \in Workers, CompleteEmpty(w)
      PROVE  BatchesKept
  <2>1. pc[w] = "scan"
    BY <1>4 DEF CompleteEmpty, PhaseInv
  <2> QED
    BY <1>4, <2>1 DEF CompleteEmpty, NotifyAll, tasks, TypeOK
<1>5. ASSUME NEW w \in Workers, EndScan(w)
      PROVE  BatchesKept /\ done' = done
  <2>1. pc[w] = "scan"
    BY <1>5 DEF EndScan, PhaseInv
  <2> QED
    BY <1>5, <2>1 DEF EndScan, Goto, tasks, TypeOK
<1>6. ASSUME CancelAll \/ EndPhase \/ UNCHANGED vars
      PROVE  BatchesKept /\ done' = done
  BY <1>6 DEF CancelAll, EndPhase, vars, tasks
<1> QED
  BY <1>1, <1>2, <1>3, <1>4, <1>5, <1>6 DEF Next, Work, Scan, Terminated

\* What a take hands out: keys of a ready task, from next_key on.
LEMMA TakeFacts ==
    ASSUME TypeOK, KeyInv, NEW w \in Workers, Take(w)
    PROVE  \E t \in Task, last \in Nat :
               /\ t \notin done /\ DependsOn[t] \subseteq done
               /\ next_key[t] <= last
               /\ \A k \in next_key[t] .. last : k \in Keys(t)
               /\ t \in Single => last = 0
               /\ t \notin Single => last <= Count[t]
               /\ job' = [job EXCEPT ![w] = Job(t, next_key[t], last)]
               /\ next_key' = [next_key EXCEPT ![t] = last + 1]
               /\ outstanding' = [outstanding EXCEPT ![t] = @ + 1]
               /\ pc' = [pc EXCEPT ![w] = "execute"]
               /\ UNCHANGED <<batches, done, phase, copies>>
<1> DEFINE t == Visited
           first == next_key[t]
           last == IF t \in Single THEN 0 ELSE LastKey(t, first)
<1>1. t \in Task /\ t \notin done /\ DependsOn[t] \subseteq done /\ ~Exhausted(t)
  BY VisitedType DEF Take, Ready
<1>2. /\ job' = [job EXCEPT ![w] = Job(t, first, last)]
      /\ next_key' = [next_key EXCEPT ![t] = last + 1]
      /\ outstanding' = [outstanding EXCEPT ![t] = @ + 1]
      /\ pc' = [pc EXCEPT ![w] = "execute"]
      /\ UNCHANGED <<batches, done, phase, copies>>
  BY DEF Take, Goto
<1> HIDE DEF t
<1>3. first \in Nat /\ Count[t] \in Nat
  BY <1>1, PlanAssumption DEF TypeOK
<1>4. CASE t \in Single
  <2> HIDE DEF last
  <2>1. first = 0
    <3>1. first <= 1
      BY <1>1, <1>4 DEF KeyInv
    <3>2. first # 1
      BY <1>1, <1>4 DEF Exhausted
    <3> QED
      BY <1>3, <3>1, <3>2
  <2>2. last = 0
    BY <1>4 DEF last
  <2>3. \A k \in first .. last : k \in Keys(t)
    BY <1>4, <2>1, <2>2 DEF Keys
  <2>4. last \in Nat /\ first <= last
    BY <2>1, <2>2
  <2> QED
    BY <1>1, <1>2, <1>4, <2>2, <2>3, <2>4
<1>5. CASE t \notin Single
  <2>1. 1 <= first /\ first <= Count[t]
    BY <1>1, <1>3, <1>5 DEF KeyInv, Exhausted
  <2>2. last \in first .. Count[t]
    BY <1>1, <1>3, <1>5, <2>1, LastKeyRange
  <2>3. \A k \in first .. last : k \in Keys(t)
    BY <1>3, <1>5, <2>1, <2>2 DEF Keys
  <2>4. last \in Nat /\ first <= last /\ last <= Count[t]
    BY <1>3, <2>2
  <2> HIDE DEF last
  <2> QED
    BY <1>1, <1>2, <1>5, <2>3, <2>4
<1> QED
  BY <1>4, <1>5

-----------------------------------------------------------------------------
(* The four parts of the invariant.                                        *)

LEMMA DoneGrows ==
    ASSUME [Next]_vars
    PROVE  done \subseteq done'
BY DEF Next, Work, Scan, Terminated, Connect, EnterTake, Skip, CompleteEmpty,
       Take, EndScan, Commit, Record, Leave, Fail, CancelAll, Cancelled, EndPhase, vars

LEMMA JobInductive ==
    ASSUME LoadInv, [Next]_vars
    PROVE  JobInv'
<1>0. TypeOK /\ JobInv /\ KeyInv /\ PhaseInv /\ done \subseteq done'
  BY DoneGrows DEF LoadInv
<1>1. ASSUME BatchesKept
      PROVE  JobInv'
  BY <1>0, <1>1 DEF BatchesKept, Kept, JobInv
<1>2. ASSUME NEW w \in Workers, Take(w)
      PROVE  JobInv'
  <2>1. PICK t \in Task, last \in Nat :
            /\ DependsOn[t] \subseteq done
            /\ \A k \in next_key[t] .. last : k \in Keys(t)
            /\ next_key[t] <= last
            /\ job' = [job EXCEPT ![w] = Job(t, next_key[t], last)]
            /\ next_key' = [next_key EXCEPT ![t] = last + 1]
            /\ pc' = [pc EXCEPT ![w] = "execute"]
            /\ UNCHANGED done
    BY <1>0, <1>2, TakeFacts
  <2>2. job'[w] = Job(t, next_key[t], last) /\ next_key[t] \in Nat
    BY <1>0, <2>1 DEF TypeOK
  <2>3. \A u \in Task : next_key[u] \in Nat /\ next_key[u] <= next_key'[u]
    BY <1>0, <2>1 DEF TypeOK
  <2>4. next_key'[t] = last + 1
    BY <1>0, <2>1 DEF TypeOK
  <2> SUFFICES ASSUME NEW v \in Workers
               PROVE  /\ pc'[v] \in {"execute", "record"} => job'[v].task \in Task
                      /\ pc'[v] \notin {"execute", "record", "failed"} => job'[v] = NoJob
                      /\ job'[v].task \in Task =>
                             /\ DependsOn[job'[v].task] \subseteq done'
                             /\ \A k \in job'[v].first .. job'[v].last :
                                    /\ k \in Keys(job'[v].task)
                                    /\ k < next_key'[job'[v].task]
    BY DEF JobInv, Keys
  <2>5. CASE v = w
    <3>1. pc'[w] = "execute"
      BY <1>0, <2>1 DEF TypeOK
    <3>2. job'[w].task = t /\ job'[w].first = next_key[t] /\ job'[w].last = last
      BY <2>2 DEF Job
    <3> QED
      BY <2>1, <2>2, <2>4, <2>5, <3>1, <3>2
  <2>6. CASE v # w
    <3>1. pc'[v] = pc[v] /\ job'[v] = job[v]
      BY <1>0, <2>1, <2>6 DEF TypeOK
    <3>2. job[v].first \in Nat /\ job[v].last \in Nat
      BY <1>0 DEF TypeOK
    <3> QED
      BY <1>0, <2>1, <2>3, <3>1, <3>2 DEF JobInv
  <2> QED
    BY <2>5, <2>6
<1>3. ASSUME NEW w \in Workers, Commit(w)
      PROVE  JobInv'
  BY <1>0, <1>3 DEF Commit, Go, Goto, tasks, JobInv, TypeOK
<1>4. ASSUME NEW w \in Workers, Record(w)
      PROVE  JobInv'
  <2>1. NoJob.task \notin Task
    BY TaskFacts DEF NoJob, Job
  <2> QED
    BY <1>0, <1>4, <2>1 DEF Record, Completes, NotifyAll, JobInv, TypeOK
<1> QED
  BY <1>0, <1>1, <1>2, <1>3, <1>4, KeepingSteps

LEMMA KeyInductive ==
    ASSUME LoadInv, [Next]_vars
    PROVE  KeyInv'
<1>0. TypeOK /\ JobInv /\ KeyInv /\ PhaseInv
  BY DEF LoadInv
<1>1. ASSUME BatchesKept
      PROVE  KeyInv'
  BY <1>0, <1>1 DEF BatchesKept, Kept, KeyInv, Covers
<1>2. ASSUME NEW w \in Workers, Take(w)
      PROVE  KeyInv'
  <2>1. PICK t \in Task, last \in Nat :
            /\ next_key[t] <= last
            /\ t \in Single => last = 0
            /\ t \notin Single => last <= Count[t]
            /\ job' = [job EXCEPT ![w] = Job(t, next_key[t], last)]
            /\ next_key' = [next_key EXCEPT ![t] = last + 1]
            /\ pc' = [pc EXCEPT ![w] = "execute"]
            /\ UNCHANGED copies
    BY <1>0, <1>2, TakeFacts
  <2>2. job[w] = NoJob /\ pc'[w] = "execute"
    <3>1. pc[w] = "scan"
      BY <1>0, <1>2 DEF Take, PhaseInv
    <3> QED
      BY <1>0, <2>1, <3>1 DEF JobInv, TypeOK
  <2>3. \A u \in Task : \A k \in Keys(u) : ~Covers(w, u, k)
    BY <2>2, TaskFacts DEF Covers, NoJob, Job
  <2>4. \A u \in Task : \A k : Covers(w, u, k)' <=> u = t /\ k \in next_key[t] .. last
    <3>1. job'[w] = Job(t, next_key[t], last)
      BY <1>0, <2>1 DEF TypeOK
    <3> QED
      BY <3>1 DEF Covers, Job
  <2>5. \A v \in Workers \ {w} : \A u, k : Covers(v, u, k)' <=> Covers(v, u, k)
    BY <1>0, <2>1 DEF Covers, TypeOK
  <2>6. \A v \in Workers \ {w} : pc'[v] = pc[v]
    BY <1>0, <2>1 DEF TypeOK
  <2>7. \A u \in Task : \A k \in Keys(u) : \A v \in Workers : Covers(v, u, k) => k < next_key[u]
    BY <1>0 DEF JobInv, Covers
  <2>8. \A u \in Task : \A k \in Keys(u) : k \in Nat /\ copies[u][k] \in Nat
    BY <1>0, KeyType DEF TypeOK
  <2> SUFFICES ASSUME NEW u \in Task
               PROVE  /\ u \in Single => next_key'[u] <= 1
                      /\ u \notin Single => 1 <= next_key'[u] /\ next_key'[u] <= Count[u] + 1
                      /\ \A k \in Keys(u) :
                             /\ copies'[u][k] <= 1
                             /\ copies'[u][k] > 0 => k < next_key'[u]
                             /\ k < next_key'[u] /\ copies'[u][k] = 0 =>
                                    \E v \in Workers : pc'[v] # "record" /\ Covers(v, u, k)'
                             /\ \A v \in Workers :
                                    pc'[v] = "execute" /\ Covers(v, u, k)' => copies'[u][k] = 0
                             /\ \A v, x \in Workers :
                                    Covers(v, u, k)' /\ Covers(x, u, k)' => v = x
    BY DEF KeyInv, Keys
  <2>9. next_key[u] \in Nat /\ Count[u] \in Nat /\ next_key[t] \in Nat
    BY <1>0, PlanAssumption DEF TypeOK
  <2>10. next_key'[u] = IF u = t THEN last + 1 ELSE next_key[u]
    BY <1>0, <2>1 DEF TypeOK
  <2>11. /\ u \in Single => next_key'[u] <= 1
         /\ u \notin Single => 1 <= next_key'[u] /\ next_key'[u] <= Count[u] + 1
    BY <1>0, <2>1, <2>9, <2>10 DEF KeyInv
  <2>12. ASSUME NEW k \in Keys(u)
         PROVE  /\ copies'[u][k] <= 1
                /\ copies'[u][k] > 0 => k < next_key'[u]
    BY <1>0, <2>1, <2>8, <2>9, <2>10 DEF KeyInv
  <2>13. ASSUME NEW k \in Keys(u), k < next_key'[u], copies'[u][k] = 0
         PROVE  \E v \in Workers : pc'[v] # "record" /\ Covers(v, u, k)'
    <3>1. CASE k < next_key[u]
      <4>1. PICK v \in Workers : pc[v] # "record" /\ Covers(v, u, k)
        BY <1>0, <2>1, <2>13, <3>1 DEF KeyInv
      <4> QED
        BY <2>3, <2>5, <2>6, <4>1
    <3>2. CASE ~(k < next_key[u])
      <4>1. u = t /\ k \in next_key[t] .. last
        BY <2>1, <2>8, <2>9, <2>10, <2>13, <3>2
      <4> QED
        BY <2>2, <2>4, <4>1
    <3> QED
      BY <3>1, <3>2
  <2>14. ASSUME NEW k \in Keys(u), NEW v \in Workers, pc'[v] = "execute", Covers(v, u, k)'
         PROVE  copies'[u][k] = 0
    <3>1. CASE v = w
      <4>1. ~(k < next_key[u])
        BY <2>4, <2>8, <2>9, <2>14, <3>1
      <4> QED
        BY <1>0, <2>1, <2>8, <4>1 DEF KeyInv
    <3>2. CASE v # w
      BY <1>0, <2>1, <2>5, <2>6, <2>14, <3>2 DEF KeyInv
    <3> QED
      BY <3>1, <3>2
  <2>15. ASSUME NEW k \in Keys(u), NEW v \in Workers, NEW x \in Workers,
                Covers(v, u, k)', Covers(x, u, k)'
         PROVE  v = x
    <3>1. ASSUME NEW y \in Workers \ {w}, Covers(y, u, k)'
          PROVE  ~Covers(w, u, k)'
      BY <2>4, <2>5, <2>7, <2>8, <2>9, <3>1
    <3> QED
      BY <1>0, <2>5, <2>15, <3>1 DEF KeyInv
  <2> QED
    BY <2>11, <2>12, <2>13, <2>14, <2>15
<1>3. ASSUME NEW w \in Workers, Commit(w)
      PROVE  KeyInv'
  <2> DEFINE j == job[w]
  <2>1. pc[w] = "execute" /\ j.task \in Task
    BY <1>0, <1>3 DEF Commit, Go, JobInv
  <2>2. /\ UNCHANGED <<job, next_key>>
        /\ pc' = [pc EXCEPT ![w] = "record"]
    BY <1>3 DEF Commit, Go, Goto, tasks
  <2>3. \A u \in Task : \A k \in Keys(u) :
            copies'[u][k] = IF Covers(w, u, k) THEN copies[u][k] + 1 ELSE copies[u][k]
    BY <1>0, <1>3, <2>1 DEF Commit, Covers, TypeOK
  <2>4. \A u \in Task : \A k \in Keys(u) : Covers(w, u, k) => copies[u][k] = 0 /\ k < next_key[u]
    BY <1>0, <2>1 DEF KeyInv, JobInv, Covers
  <2>5. \A u \in Task : \A k \in Keys(u) : copies[u][k] \in Nat
    BY <1>0 DEF TypeOK
  <2>6. \A v \in Workers : \A u, k : Covers(v, u, k)' <=> Covers(v, u, k)
    BY <2>2 DEF Covers
  <2>7. \A v \in Workers : pc'[v] = IF v = w THEN "record" ELSE pc[v]
    BY <1>0, <2>2 DEF TypeOK
  <2> SUFFICES ASSUME NEW u \in Task, NEW k \in Keys(u)
               PROVE  /\ copies'[u][k] <= 1
                      /\ copies'[u][k] > 0 => k < next_key[u]
                      /\ k < next_key[u] /\ copies'[u][k] = 0 =>
                             \E v \in Workers : pc'[v] # "record" /\ Covers(v, u, k)
                      /\ \A v \in Workers :
                             pc'[v] = "execute" /\ Covers(v, u, k) => copies'[u][k] = 0
    BY <1>0, <2>2, <2>6 DEF KeyInv, Keys
  <2>8. CASE Covers(w, u, k)
    BY <1>0, <2>3, <2>4, <2>5, <2>7, <2>8 DEF KeyInv
  <2>9. CASE ~Covers(w, u, k)
    BY <1>0, <2>3, <2>5, <2>7, <2>9 DEF KeyInv
  <2> QED
    BY <2>8, <2>9
<1>4. ASSUME NEW w \in Workers, Record(w)
      PROVE  KeyInv'
  <2>1. /\ job' = [job EXCEPT ![w] = NoJob]
        /\ UNCHANGED <<next_key, copies>>
        /\ pc[w] = "record"
    BY <1>4 DEF Record, Completes
  <2>2. \A u \in Task : \A k \in Keys(u) : ~Covers(w, u, k)'
    <3>1. job'[w] = NoJob
      BY <1>0, <2>1 DEF TypeOK
    <3> QED
      BY <3>1, TaskFacts DEF Covers, NoJob, Job
  <2>3. \A v \in Workers \ {w} : \A u, k : Covers(v, u, k)' <=> Covers(v, u, k)
    BY <1>0, <2>1 DEF Covers, TypeOK
  <2>4. \A v \in Workers \ {w} : /\ pc[v] = "execute" <=> pc'[v] = "execute"
                                 /\ pc[v] = "record" <=> pc'[v] = "record"
    BY <1>0, <1>4 DEF Record, Completes, NotifyAll, TypeOK
  <2> SUFFICES ASSUME NEW u \in Task, NEW k \in Keys(u)
               PROVE  /\ k < next_key[u] /\ copies[u][k] = 0 =>
                             \E v \in Workers : pc'[v] # "record" /\ Covers(v, u, k)'
                      /\ \A v \in Workers :
                             pc'[v] = "execute" /\ Covers(v, u, k)' => copies[u][k] = 0
                      /\ \A v, x \in Workers :
                             Covers(v, u, k)' /\ Covers(x, u, k)' => v = x
    BY <1>0, <2>1 DEF KeyInv, Keys
  <2> QED
    BY <1>0, <2>1, <2>2, <2>3, <2>4 DEF KeyInv
<1> QED
  BY <1>0, <1>1, <1>2, <1>3, <1>4, KeepingSteps

\* Taking a batch adds its worker to the holders of the task, recording it
\* removes the worker.
LEMMA HoldersCount ==
    ASSUME NEW H, IsFiniteSet(H), NEW w
    PROVE  /\ w \notin H => Cardinality(H \cup {w}) = Cardinality(H) + 1
           /\ w \in H => Cardinality(H \ {w}) = Cardinality(H) - 1
BY FS_AddElement, FS_RemoveElement

LEMMA DoneInductive ==
    ASSUME LoadInv, [Next]_vars
    PROVE  DoneInv'
<1>0. TypeOK /\ JobInv /\ KeyInv /\ DoneInv /\ PhaseInv
  BY DEF LoadInv
<1>1. ASSUME BatchesKept, done' = done
      PROVE  DoneInv'
  BY <1>0, <1>1 DEF BatchesKept, DoneInv, Holders, Exhausted
<1>2. ASSUME BatchesKept, NEW w \in Workers, CompleteEmpty(w)
      PROVE  DoneInv'
  <2>1. /\ Visited \in Task /\ Exhausted(Visited) /\ outstanding[Visited] = 0
        /\ done' = done \cup {Visited}
    BY <1>0, <1>2, VisitedType DEF CompleteEmpty
  <2>2. Holders(Visited) = {}
    BY <1>0, <2>1, HoldersFinite, FS_EmptySet DEF DoneInv
  <2>3. UNCHANGED <<job, next_key, outstanding>>
    BY <1>2 DEF BatchesKept
  <2> HIDE DEF Visited
  <2> QED
    BY <1>0, <2>1, <2>2, <2>3 DEF DoneInv, Holders, Exhausted
<1>3. ASSUME NEW w \in Workers, Take(w)
      PROVE  DoneInv'
  <2>1. PICK t \in Task, last \in Nat :
            /\ t \notin done
            /\ job' = [job EXCEPT ![w] = Job(t, next_key[t], last)]
            /\ next_key' = [next_key EXCEPT ![t] = last + 1]
            /\ outstanding' = [outstanding EXCEPT ![t] = @ + 1]
            /\ UNCHANGED done
    BY <1>0, <1>3, TakeFacts
  <2>2. job[w].task = N
    <3>1. pc[w] = "scan"
      BY <1>0, <1>3 DEF Take, PhaseInv
    <3> QED
      BY <1>0, <3>1 DEF JobInv, NoJob, Job
  <2>3. job'[w].task = t
    BY <1>0, <2>1 DEF TypeOK, Job
  <2>4. \A v \in Workers \ {w} : job'[v] = job[v]
    BY <1>0, <2>1 DEF TypeOK
  <2>5. \A u \in Task : Holders(u)' = IF u = t THEN Holders(u) \cup {w} ELSE Holders(u)
    BY <2>2, <2>3, <2>4, TaskFacts DEF Holders
  <2>6. w \notin Holders(t)
    BY <2>2, TaskFacts DEF Holders
  <2>7. Cardinality(Holders(t) \cup {w}) = Cardinality(Holders(t)) + 1
    BY <2>6, HoldersFinite, HoldersCount
  <2>8. \A u \in Task : /\ outstanding'[u] = IF u = t THEN outstanding[u] + 1 ELSE outstanding[u]
                        /\ u # t => next_key'[u] = next_key[u]
    BY <1>0, <2>1 DEF TypeOK
  <2> QED
    BY <1>0, <2>1, <2>5, <2>7, <2>8 DEF DoneInv, Exhausted
<1>4. ASSUME NEW w \in Workers, Commit(w)
      PROVE  DoneInv'
  BY <1>0, <1>4 DEF Commit, tasks, DoneInv, Holders, Exhausted
<1>5. ASSUME NEW w \in Workers, Record(w)
      PROVE  DoneInv'
  <2> DEFINE t == job[w].task
  <2>1. t \in Task
    BY <1>0, <1>5 DEF Record, Completes, JobInv
  <2>2. /\ job' = [job EXCEPT ![w] = NoJob]
        /\ outstanding' = [outstanding EXCEPT ![t] = @ - 1]
        /\ done' = IF outstanding[t] = 1 /\ Exhausted(t) THEN done \cup {t} ELSE done
        /\ UNCHANGED next_key
    BY <1>5 DEF Record, Completes
  <2>3. \A u \in Task : Holders(u)' = IF u = t THEN Holders(u) \ {w} ELSE Holders(u)
    <3>1. job'[w].task = N
      BY <1>0, <2>2 DEF TypeOK, NoJob, Job
    <3>2. \A v \in Workers \ {w} : job'[v] = job[v]
      BY <1>0, <2>2 DEF TypeOK
    <3> QED
      BY <2>1, <3>1, <3>2, TaskFacts DEF Holders
  <2>4. /\ Cardinality(Holders(t) \ {w}) = Cardinality(Holders(t)) - 1
        /\ outstanding[t] = 1 <=> Holders(t) = {w}
    <3>1. w \in Holders(t)
      BY DEF Holders
    <3> QED
      BY <1>0, <2>1, <3>1, HoldersFinite, HoldersCount, RecordedIsOutstanding
  <2>5. \A u \in Task : outstanding'[u] = IF u = t THEN outstanding[u] - 1 ELSE outstanding[u]
    BY <1>0, <2>2 DEF TypeOK
  <2> HIDE DEF t
  <2> QED
    BY <1>0, <2>1, <2>2, <2>3, <2>4, <2>5 DEF DoneInv, Exhausted
<1> QED
  BY <1>0, <1>1, <1>2, <1>3, <1>4, <1>5, KeepingSteps

LEMMA PhaseInductive ==
    ASSUME LoadInv, [Next]_vars
    PROVE  PhaseInv'
<1>0. /\ TypeOK /\ PhaseInv
      /\ done \subseteq done' /\ done' \subseteq Task
      /\ Nobody \notin Workers /\ Workers # {}
  BY DoneGrows, TypeInductive, PlanAssumption DEF LoadInv, TypeOK
<1>1. ASSUME NEW w \in Workers, Connect(w) \/ Commit(w) \/ Leave(w) \/ Fail(w)
      PROVE  PhaseInv'
  BY <1>0, <1>1 DEF Connect, Commit, Leave, Fail, Go, Goto, scan, PhaseInv, TypeOK, Ended
<1>2. ASSUME NEW w \in Workers, Cancelled(w)
      PROVE  PhaseInv'
  BY <1>0, <1>2 DEF Cancelled, Goto, scan, PhaseInv, TypeOK, Ended
<1>3. ASSUME NEW w \in Workers, EnterTake(w)
      PROVE  PhaseInv'
  BY <1>0, <1>3 DEF EnterTake, Goto, PhaseInv, TypeOK, Ended
<1>4. ASSUME NEW w \in Workers, Skip(w)
      PROVE  PhaseInv'
  BY <1>0, <1>4 DEF Skip, PhaseInv, TypeOK, Ended
<1>5. ASSUME NEW w \in Workers, CompleteEmpty(w)
      PROVE  PhaseInv'
  BY <1>0, <1>5 DEF CompleteEmpty, NotifyAll, PhaseInv, TypeOK, Ended
<1>6. ASSUME NEW w \in Workers, Take(w)
      PROVE  PhaseInv'
  BY <1>0, <1>6 DEF Take, Goto, PhaseInv, TypeOK, Ended
<1>7. ASSUME NEW w \in Workers, EndScan(w)
      PROVE  PhaseInv'
  <2>1. CASE done # Task /\ done # previous
    BY <1>0, <1>7, <2>1 DEF EndScan, PhaseInv, TypeOK, Ended
  <2>2. CASE ~(done # Task /\ done # previous)
    BY <1>0, <1>7, <2>2 DEF EndScan, Goto, PhaseInv, TypeOK, Ended
  <2> QED
    BY <2>1, <2>2
<1>8. ASSUME NEW w \in Workers, Record(w)
      PROVE  PhaseInv'
  BY <1>0, <1>8 DEF Record, Completes, NotifyAll, scan, PhaseInv, TypeOK, Ended
<1>9. ASSUME CancelAll \/ EndPhase \/ UNCHANGED vars
      PROVE  PhaseInv'
  BY <1>0, <1>9 DEF CancelAll, EndPhase, vars, scan, PhaseInv, TypeOK, Ended
<1> QED
  BY <1>1, <1>2, <1>3, <1>4, <1>5, <1>6, <1>7, <1>8, <1>9 DEF Next, Work, Scan, Terminated

LEMMA LoadInvInit ==
    ASSUME Init
    PROVE  LoadInv
<1>1. Count \in [Task -> Nat] /\ N \in Nat \ {0} /\ Nobody \notin Workers
  BY PlanAssumption
<1>2. TypeOK
  BY <1>1, TaskFacts DEF Init, TypeOK, NoJob, Job
<1>3. \A w \in Workers : job[w].task \notin Task
  BY TaskFacts DEF Init, NoJob, Job
<1>4. JobInv /\ PhaseInv
  BY <1>1, <1>3 DEF Init, JobInv, PhaseInv, Ended
<1>5. KeyInv
  <2>1. ASSUME NEW t \in Task, NEW k \in Keys(t)
        PROVE  ~(k < next_key[t]) /\ copies[t][k] = 0
    BY <1>1, <2>1 DEF Init, Keys
  <2>2. \A t \in Task : t \notin Single => 1 <= Count[t] + 1
    BY <1>1
  <2> QED
    BY <1>3, <2>1, <2>2 DEF Init, KeyInv, Covers
<1>6. DoneInv
  <2>1. \A t \in Task : Holders(t) = {}
    BY <1>3 DEF Holders
  <2> QED
    BY <2>1, FS_EmptySet DEF Init, DoneInv
<1> QED
  BY <1>2, <1>4, <1>5, <1>6 DEF LoadInv

\* The invariant of the scheduler.
THEOREM LoadInvariant == Spec => []LoadInv
<1>1. LoadInv /\ [Next]_vars => LoadInv'
  BY TypeInductive, JobInductive, KeyInductive, DoneInductive, PhaseInductive DEF LoadInv
<1> QED
  BY LoadInvInit, <1>1, PTL DEF Spec

-----------------------------------------------------------------------------
(* Theorems.                                                               *)

\* Type correctness of the scheduler's state (run_tasks and _TaskState).
THEOREM TypeCorrect == Spec => []TypeOK
<1>1. LoadInv => TypeOK
  BY DEF LoadInv
<1> QED
  BY <1>1, LoadInvariant, PTL

\* No key is ever loaded by two transactions, for every plan, batch size and
\* number of workers: take() hands out each key once, and a failed batch is
\* never handed out again.
THEOREM LoadedOnceHolds == Spec => []LoadedOnce
<1>1. LoadInv => LoadedOnce
  BY DEF LoadInv, KeyInv, LoadedOnce
<1> QED
  BY <1>1, LoadInvariant, PTL

\* A completed task has all its keys committed.
LEMMA DoneIsLoaded ==
    ASSUME LoadInv, NEW t \in done
    PROVE  t \in Task /\ Loaded(t)
<1>1. t \in Task /\ Exhausted(t) /\ Holders(t) = {}
  BY DEF LoadInv, TypeOK, DoneInv
<1>2. \A w \in Workers : \A k : ~Covers(w, t, k)
  BY <1>1 DEF Holders, Covers
<1>3. ASSUME NEW k \in Keys(t)
      PROVE  k < next_key[t]
  <2>1. Count[t] \in Nat /\ next_key[t] \in Nat
    BY <1>1, PlanAssumption DEF LoadInv, TypeOK
  <2> QED
    BY <1>1, <2>1 DEF Exhausted, Keys
<1>4. \A k \in Keys(t) : copies[t][k] \in Nat
  BY <1>1 DEF LoadInv, TypeOK
<1>5. ASSUME NEW k \in Keys(t)
      PROVE  copies[t][k] = 1
  <2>1. copies[t][k] <= 1 /\ copies[t][k] # 0
    BY <1>1, <1>2, <1>3 DEF LoadInv, KeyInv
  <2> QED
    BY <1>4, <2>1
<1> QED
  BY <1>1, <1>5 DEF Loaded

\* A batch executes only when everything its task depends on is committed,
\* whatever the other workers do.
THEOREM DependenciesLoadedHolds == Spec => []DependenciesLoaded
<1>1. LoadInv => DependenciesLoaded
  <2> SUFFICES ASSUME LoadInv, NEW w \in Workers, pc[w] = "execute",
                      NEW d \in DependsOn[job[w].task]
               PROVE  Loaded(d)
    BY DEF DependenciesLoaded
  <2>1. d \in done
    BY DEF LoadInv, JobInv
  <2> QED
    BY <2>1, DoneIsLoaded
<1> QED
  BY <1>1, LoadInvariant, PTL

-----------------------------------------------------------------------------
(* The scheduler implements LoadPhase.                                     *)

LEMMA AbstractInit ==
    ASSUME Init
    PROVE  Abstract!Init
BY DEF Init, Abstract!Init, Ended

LEMMA CommitImplements ==
    ASSUME LoadInv, NEW w \in Workers, Commit(w)
    PROVE  \E t \in Task : \E K \in SUBSET Keys(t) : Abstract!Commit(t, K)
<1> DEFINE t == job[w].task
           K == {k \in Keys(t) : Covers(w, t, k)}
<1>0. TypeOK /\ JobInv /\ KeyInv /\ PhaseInv
  BY DEF LoadInv
<1>1. pc[w] = "execute" /\ t \in Task
  BY <1>0 DEF Commit, Go, JobInv
<1>2. ~Ended /\ phase' = phase
  BY <1>0, <1>1 DEF Commit, PhaseInv
<1>3. \A d \in DependsOn[t] : Abstract!Complete(d)
  <2>1. DependsOn[t] \subseteq done
    BY <1>0, <1>1 DEF JobInv
  <2> QED
    BY <2>1, DoneIsLoaded DEF Loaded, Abstract!Complete
<1>4. \A k \in K : copies[t][k] = 0
  BY <1>0, <1>1 DEF KeyInv
<1>5. copies' = [copies EXCEPT ![t] = [k \in Keys(t) |-> IF k \in K THEN 1 ELSE @[k]]]
  <2>1. copies' = [copies EXCEPT ![t] =
            [k \in Keys(t) |-> IF k \in job[w].first .. job[w].last
                               THEN copies[t][k] + 1 ELSE copies[t][k]]]
    BY <1>0, <1>1 DEF Commit, TypeOK
  <2>2. \A k \in Keys(t) : k \in job[w].first .. job[w].last <=> k \in K
    BY DEF Covers
  <2>3. [k \in Keys(t) |-> IF k \in job[w].first .. job[w].last
                           THEN copies[t][k] + 1 ELSE copies[t][k]]
        = [k \in Keys(t) |-> IF k \in K THEN 1 ELSE copies[t][k]]
    BY <1>4, <2>2
  <2> QED
    BY <1>0, <1>1, <2>1, <2>3 DEF TypeOK
<1>6. Abstract!Commit(t, K)
  BY <1>2, <1>3, <1>4, <1>5 DEF Abstract!Commit, Ended
<1> QED
  BY <1>1, <1>6

LEMMA EndImplements ==
    ASSUME LoadInv, EndPhase
    PROVE  Abstract!Return \/ Abstract!Raise
<1>1. copies' = copies /\ ~Ended /\ Ended'
  BY DEF EndPhase, Ended
<1>2. CASE phase' = "raised"
  BY <1>1, <1>2 DEF Abstract!Raise, Ended
<1>3. CASE phase' = "returned"
  <2>1. done = Task
    <3>1. PICK w \in Workers : TRUE
      BY PlanAssumption
    <3> QED
      BY <1>3, <3>1 DEF EndPhase, LoadInv, PhaseInv
  <2>2. \A t \in Task : Abstract!Complete(t)
    BY <2>1, DoneIsLoaded DEF Loaded, Abstract!Complete
  <2> QED
    BY <1>1, <1>3, <2>2 DEF Abstract!Return, Ended
<1> QED
  BY <1>2, <1>3 DEF EndPhase

\* Every step of the scheduler is a step of the abstract phase or leaves it
\* alone.
LEMMA StepImplements ==
    ASSUME LoadInv, [Next]_vars
    PROVE  [Abstract!Next]_<<copies, IF Ended THEN phase ELSE "running">>
<1>1. ASSUME NEW w \in Workers, Commit(w)
      PROVE  Abstract!Next
  BY <1>1, CommitImplements DEF Abstract!Next
<1>2. ASSUME EndPhase
      PROVE  Abstract!Next
  BY <1>2, EndImplements DEF Abstract!Next
<1>3. ASSUME ~EndPhase, \A w \in Workers : ~Commit(w)
      PROVE  UNCHANGED <<copies, IF Ended THEN phase ELSE "running">>
  <2>1. copies' = copies
    BY <1>3 DEF Next, Work, Scan, Terminated, Connect, EnterTake, Skip, CompleteEmpty,
                Take, EndScan, Record, Leave, Fail, CancelAll, Cancelled, vars
  <2>2. phase' = phase \/ CancelAll
    BY <1>3 DEF Next, Work, Scan, Terminated, Connect, EnterTake, Skip, CompleteEmpty,
                Take, EndScan, Record, Leave, Fail, Cancelled, vars
  <2> QED
    BY <2>1, <2>2 DEF CancelAll, Ended
<1> QED
  BY <1>1, <1>2, <1>3

\* The scheduler implements a load phase: no key twice, dependencies first,
\* nothing committed after the phase has ended, and a return only when all is
\* committed.
THEOREM SchedulerRefinement == Spec => ImplementsLoadPhase
<1>1. Init => Abstract!Init
  BY AbstractInit
<1>2. LoadInv /\ [Next]_vars => [Abstract!Next]_<<copies, IF Ended THEN phase ELSE "running">>
  BY StepImplements
<1> QED
  BY <1>1, <1>2, LoadInvariant, PTL DEF Spec, ImplementsLoadPhase, Abstract!Spec

-----------------------------------------------------------------------------
(* Nobody waits in vain.                                                   *)

\* A statement that was handed out and is not complete is still held.
SingleInv == \A t \in Single : t \notin done /\ Exhausted(t) => Holders(t) # {}

\* A task with nothing to do for the worker that scans; what a scan that has
\* completed no task itself has seen so far is idle.
Idle(t) == ~Ready(t) \/ (Exhausted(t) /\ Holders(t) # {})
Position(i) == (cursor + i) % N
ScanInv ==
    holder # Nobody =>
        /\ previous \subseteq done
        /\ done = previous => \A i \in 0 .. offset - 1 : Idle(Position(i))

WakeInv == SingleInv /\ ScanInv /\ WaiterHasWaker

\* The scan visits every task.
LEMMA EveryTaskVisited ==
    ASSUME TypeOK, NEW t \in Task
    PROVE  \E i \in 0 .. N - 1 : Position(i) = t
<1>1. N \in Nat \ {0} /\ cursor \in 0 .. N - 1 /\ t \in 0 .. N - 1
  BY TaskFacts DEF TypeOK
<1>2. CASE t >= cursor
  <2>1. t - cursor \in 0 .. N - 1 /\ cursor + (t - cursor) = t
    BY <1>1, <1>2
  <2>2. t % N = t
    BY <1>1
  <2> QED
    BY <2>1, <2>2 DEF Position
<1>3. CASE t < cursor
  <2>1. t + N - cursor \in 0 .. N - 1 /\ cursor + (t + N - cursor) = t + N
    BY <1>1, <1>3
  <2>2. (t + N) % N = t
    BY <1>1
  <2> QED
    BY <2>1, <2>2 DEF Position
<1> QED
  BY <1>1, <1>2, <1>3

LEMMA SingleInductive ==
    ASSUME LoadInv, SingleInv, [Next]_vars
    PROVE  SingleInv'
<1>0. TypeOK /\ JobInv /\ KeyInv /\ DoneInv /\ PhaseInv /\ Single \subseteq Task
  BY PlanAssumption DEF LoadInv
<1>1. ASSUME BatchesKept, done \subseteq done'
      PROVE  SingleInv'
  BY <1>0, <1>1 DEF BatchesKept, SingleInv, Holders, Exhausted
<1>2. ASSUME NEW w \in Workers, Take(w)
      PROVE  SingleInv'
  <2>1. PICK t \in Task, last \in Nat :
            /\ job' = [job EXCEPT ![w] = Job(t, next_key[t], last)]
            /\ next_key' = [next_key EXCEPT ![t] = last + 1]
            /\ UNCHANGED done
    BY <1>0, <1>2, TakeFacts
  <2>2. job[w].task = N
    <3>1. pc[w] = "scan"
      BY <1>0, <1>2 DEF Take, PhaseInv
    <3> QED
      BY <1>0, <3>1 DEF JobInv, NoJob, Job
  <2>3. job'[w].task = t /\ \A v \in Workers \ {w} : job'[v] = job[v]
    BY <1>0, <2>1 DEF TypeOK, Job
  <2>4. \A u \in Task : Holders(u)' = IF u = t THEN Holders(u) \cup {w} ELSE Holders(u)
    BY <2>2, <2>3, TaskFacts DEF Holders
  <2>5. \A u \in Task : u # t => next_key'[u] = next_key[u]
    BY <1>0, <2>1 DEF TypeOK
  <2> QED
    BY <1>0, <2>1, <2>4, <2>5 DEF SingleInv, Exhausted
<1>3. ASSUME NEW w \in Workers, Commit(w)
      PROVE  SingleInv'
  BY <1>0, <1>3 DEF Commit, tasks, SingleInv, Holders, Exhausted
<1>4. ASSUME NEW w \in Workers, Record(w)
      PROVE  SingleInv'
  <2> DEFINE t == job[w].task
  <2>1. t \in Task
    BY <1>0, <1>4 DEF Record, Completes, JobInv
  <2>2. /\ job' = [job EXCEPT ![w] = NoJob]
        /\ done' = IF outstanding[t] = 1 /\ Exhausted(t) THEN done \cup {t} ELSE done
        /\ UNCHANGED next_key
    BY <1>4 DEF Record, Completes
  <2>3. \A u \in Task : Holders(u)' = IF u = t THEN Holders(u) \ {w} ELSE Holders(u)
    <3>1. job'[w].task = N
      BY <1>0, <2>2 DEF TypeOK, NoJob, Job
    <3>2. \A v \in Workers \ {w} : job'[v] = job[v]
      BY <1>0, <2>2 DEF TypeOK
    <3> QED
      BY <2>1, <3>1, <3>2, TaskFacts DEF Holders
  <2>4. outstanding[t] = 1 <=> Holders(t) = {w}
    BY <1>0, <2>1, RecordedIsOutstanding
  <2>5. w \in Holders(t)
    BY DEF Holders
  <2> HIDE DEF t
  <2> QED
    BY <1>0, <2>1, <2>2, <2>3, <2>4, <2>5 DEF SingleInv, Exhausted
<1>5. \A w \in Workers : CompleteEmpty(w) => done \subseteq done'
  BY DEF CompleteEmpty
<1> QED
  BY <1>0, <1>1, <1>2, <1>3, <1>4, <1>5, KeepingSteps

\* A visit that takes no batch and completes no task finds an idle one.
LEMMA SkippedIsIdle ==
    ASSUME LoadInv, SingleInv, NEW w \in Workers, Skip(w)
    PROVE  Idle(Visited)
<1>0. Visited \in Task /\ outstanding[Visited] = Cardinality(Holders(Visited))
  BY VisitedType DEF LoadInv, DoneInv
<1>1. CASE Ready(Visited) /\ Visited \in Single
  BY <1>1 DEF Skip, SingleInv, Idle, Ready
<1>2. CASE Ready(Visited) /\ Visited \notin Single
  <2>1. Exhausted(Visited) /\ outstanding[Visited] > 0
    BY <1>2 DEF Skip
  <2>2. Holders(Visited) # {}
    BY <1>0, <2>1, FS_EmptySet
  <2> QED
    BY <2>1, <2>2 DEF Idle
<1> QED
  BY <1>1, <1>2 DEF Idle

LEMMA ScanInductive ==
    ASSUME LoadInv, SingleInv, ScanInv, [Next]_vars
    PROVE  ScanInv'
<1>0. TypeOK /\ JobInv /\ PhaseInv /\ Nobody \notin Workers
  BY PlanAssumption DEF LoadInv
<1>1. ASSUME UNCHANGED <<job, next_key, done, cursor, holder, offset, previous>>
      PROVE  ScanInv'
  BY <1>1 DEF ScanInv, Idle, Position, Ready, Exhausted, Holders
<1>2. ASSUME holder' = Nobody
      PROVE  ScanInv'
  BY <1>2 DEF ScanInv
<1>3. ASSUME NEW w \in Workers, EnterTake(w)
      PROVE  ScanInv'
  BY <1>2, <1>3 DEF EnterTake, ScanInv
<1>4. ASSUME NEW w \in Workers, Skip(w)
      PROVE  ScanInv'
  <2>1. UNCHANGED <<job, next_key, done, cursor, holder, previous>> /\ offset' = offset + 1
        /\ offset \in Nat /\ holder # Nobody
    BY <1>0, <1>4 DEF Skip, tasks, TypeOK
  <2>2. Idle(Position(offset))
    BY <1>4, SkippedIsIdle DEF Position, Visited
  <2>3. \A i : (Position(i)' = Position(i)) /\ (Idle(Position(i))' <=> Idle(Position(i)))
    BY <2>1 DEF Idle, Position, Ready, Exhausted, Holders
  <2> QED
    BY <2>1, <2>2, <2>3 DEF ScanInv
<1>5. ASSUME NEW w \in Workers, CompleteEmpty(w)
      PROVE  ScanInv'
  <2>1. Visited \notin done /\ done' = done \cup {Visited} /\ UNCHANGED <<holder, previous>>
        /\ holder # Nobody
    BY <1>0, <1>5 DEF CompleteEmpty, Ready
  <2> QED
    BY <2>1 DEF ScanInv
<1>6. ASSUME NEW w \in Workers, EndScan(w)
      PROVE  ScanInv'
  BY <1>2, <1>6 DEF EndScan, ScanInv
<1> QED
  BY <1>0, <1>1, <1>2, <1>3, <1>4, <1>5, <1>6
     DEF Next, Work, Scan, Terminated, Connect, Take, Commit, Record, Leave, Cancelled, Fail, CancelAll,
         EndPhase, vars, tasks, scan

\* A scan that ends without a batch leaves some worker with one.
LEMMA EndOfScan ==
    ASSUME LoadInv, WakeInv, NEW w \in Workers, EndScan(w), done # Task, done = previous
    PROVE  \E v \in Workers \ {w} : pc[v] \in {"execute", "record", "failed"}
<1>0. TypeOK /\ JobInv /\ PhaseInv /\ SingleInv /\ ScanInv /\ Nobody \notin Workers
  BY PlanAssumption DEF LoadInv, WakeInv
<1>1. PICK t \in Task \ done : DependsOn[t] \cap (Task \ done) = {}
  <2>1. Task \ done \in (SUBSET Task) \ {{}}
    BY <1>0 DEF TypeOK
  <2> QED
    BY <2>1, PlanAssumption
<1>2. Ready(t)
  BY <1>1, PlanAssumption DEF Ready
<1>3. holder = w /\ offset = N
  BY DEF EndScan
<1>4. Idle(t)
  BY <1>0, <1>1, <1>3, EveryTaskVisited DEF ScanInv
<1>5. PICK v \in Workers : job[v].task = t
  BY <1>2, <1>4 DEF Idle, Holders
<1>6. pc[v] \in {"execute", "record", "failed"}
  <2>1. t # N
    BY <1>1, TaskFacts
  <2>2. NoJob.task = N
    BY DEF NoJob, Job
  <2>3. job[v] # NoJob
    BY <1>5, <2>1, <2>2
  <2> QED
    BY <1>0, <2>3 DEF JobInv
<1>7. pc[w] = "scan"
  BY <1>0, <1>3 DEF PhaseInv
<1> QED
  BY <1>6, <1>7

LEMMA WakerInductive ==
    ASSUME LoadInv, WakeInv, [Next]_vars
    PROVE  WaiterHasWaker'
<1>0. TypeOK /\ PhaseInv /\ WaiterHasWaker
  BY DEF LoadInv, WakeInv
<1> DEFINE Wakers == {"execute", "record", "failed"}
<1>1. ASSUME phase' = "gather" => phase = "gather",
             \A v \in Workers : /\ pc'[v] = "waiting" => pc[v] = "waiting"
                                /\ pc[v] \in Wakers => pc'[v] \in Wakers
      PROVE  WaiterHasWaker'
  BY <1>0, <1>1 DEF WaiterHasWaker
<1>2. ASSUME NEW w \in Workers, Connect(w) \/ EnterTake(w) \/ Commit(w) \/ Leave(w) \/ Fail(w)
                                \/ Cancelled(w)
      PROVE  WaiterHasWaker'
  BY <1>0, <1>1, <1>2 DEF Connect, EnterTake, Commit, Leave, Fail, Cancelled, Go, Goto, TypeOK
<1>3. ASSUME NEW w \in Workers, Skip(w)
      PROVE  WaiterHasWaker'
  BY <1>1, <1>3 DEF Skip
<1>4. ASSUME NEW w \in Workers, CompleteEmpty(w) \/ Record(w)
      PROVE  WaiterHasWaker'
  <2>1. \A v \in Workers : pc'[v] # "waiting"
    BY <1>0, <1>4 DEF CompleteEmpty, Record, NotifyAll, TypeOK
  <2> QED
    BY <2>1 DEF WaiterHasWaker
<1>5. ASSUME NEW w \in Workers, Take(w)
      PROVE  WaiterHasWaker'
  <2>1. pc' = [pc EXCEPT ![w] = "execute"] /\ phase' = phase
    BY <1>5 DEF Take, Goto
  <2> QED
    BY <1>0, <1>1, <2>1 DEF TypeOK
<1>6. ASSUME NEW w \in Workers, EndScan(w)
      PROVE  WaiterHasWaker'
  <2>1. pc[w] = "scan"
    BY <1>0, <1>6 DEF EndScan, PhaseInv
  <2>2. CASE done # Task /\ done # previous
    BY <1>1, <1>6, <2>2 DEF EndScan
  <2>3. CASE done = Task
    BY <1>0, <1>1, <1>6, <2>1, <2>3 DEF EndScan, Goto, TypeOK
  <2>4. CASE done # Task /\ done = previous
    <3>1. PICK v \in Workers \ {w} : pc[v] \in Wakers
      BY <1>6, <2>4, EndOfScan
    <3>2. pc'[v] = pc[v]
      BY <1>0, <1>6, <2>4, <3>1 DEF EndScan, Goto, TypeOK
    <3> QED
      BY <3>1, <3>2 DEF WaiterHasWaker
  <2> QED
    BY <2>2, <2>3, <2>4
<1>7. ASSUME CancelAll \/ EndPhase \/ UNCHANGED vars
      PROVE  WaiterHasWaker'
  BY <1>1, <1>7 DEF CancelAll, EndPhase, vars
<1> QED
  BY <1>2, <1>3, <1>4, <1>5, <1>6, <1>7 DEF Next, Work, Scan, Terminated

\* No schedule leaves the workers waiting for each other, for every plan and
\* number of workers: a worker that would wait sees that another has a batch.
THEOREM WaiterHasWakerHolds == Spec => []WaiterHasWaker
<1>1. Init => WakeInv
  <2> SUFFICES ASSUME Init PROVE WakeInv
    OBVIOUS
  <2>1. \A t \in Single : ~Exhausted(t)
    BY PlanAssumption DEF Init, Exhausted
  <2> QED
    BY <2>1 DEF Init, WakeInv, SingleInv, ScanInv, WaiterHasWaker
<1>2. LoadInv /\ WakeInv /\ [Next]_vars => WakeInv'
  BY SingleInductive, ScanInductive, WakerInductive DEF WakeInv
<1>3. WakeInv => WaiterHasWaker
  BY DEF WakeInv
<1> QED
  BY <1>1, <1>2, <1>3, LoadInvariant, PTL DEF Spec
=============================================================================
