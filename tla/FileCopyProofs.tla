--------------------------- MODULE FileCopyProofs ---------------------------
(***************************************************************************)
(* Proofs about FileCopy, for every transport, each of its copies, and any *)
(* order of steps, failures, cancellations and losses of the connection.   *)
(* Collection and Preparation take their copies from here.                 *)
(***************************************************************************)
EXTENDS FileCopy, TLAPS

(* What the copy has left after each of its steps, on any transport and    *)
(* for any job; the connection, once lost, does not come back.             *)
CopyInv ==
    /\ kind \in {"local", "docker", "ssh"} /\ job \in {"config", "logs"}
    /\ phase \in {"steps", "cleanup", "done"} /\ at \in 1 .. 4
    /\ temp \in BOOLEAN /\ up \in BOOLEAN /\ caller \in {"await", "close", "closed"}
    /\ error \in {"no", "failed", "timeout", "cancelled"}
    /\ phase = "steps" => at <= Len(Steps) /\ error = "no"
    /\ phase = "steps" /\ at = 1 => ~temp
    /\ job = "logs" /\ kind # "ssh" => ~temp
    /\ phase # "steps" /\ error = "no" => dest = "new"
    /\ ConfigWhole
    /\ caller = "await" => outcome = "none"
    /\ outcome \in {"ok", "failed", "timeout"} => phase = "done"
    /\ outcome = "ok" => dest = "new"
    /\ caller = "await" /\ phase = "done" /\ error \in {"no", "failed"} /\ up
           /\ ~(kind = "docker" /\ at = 1) => ~temp
    /\ NoTemporaryLeft

\* The steps of each transport for each job.
LEMMA StepFacts ==
  ASSUME kind \in {"local", "docker", "ssh"}, job \in {"config", "logs"}, at \in 1 .. Len(Steps)
  PROVE  /\ Len(Steps) \in 1 .. 3
         /\ at = Len(Steps) => Step \in {"rename", "write"}
         /\ job = "config" /\ kind # "docker" => Step # "write"
         /\ job = "logs" /\ kind # "ssh" => Step = "write"
         /\ Step \in {"make", "put"} => at = 1
         /\ ~Covered => \/ Step = "make"
                        \/ job = "logs" /\ kind # "ssh"
                        \/ kind = "docker" /\ at = 1
<1> USE DEF Step, Covered
<1>1. CASE kind = "local" /\ job = "config"
  <2>1. Steps = <<"make", "fill", "rename">>
    BY <1>1 DEF Steps, LocalSteps
  <2> QED
    BY <1>1, <2>1
<1>2. CASE kind = "local" /\ job = "logs"
  <2>1. Steps = <<"write">>
    BY <1>2 DEF Steps, LocalSteps
  <2> QED
    BY <1>2, <2>1
<1>3. CASE kind = "docker" /\ job = "config"
  <2>1. Steps = <<"put", "write">>
    BY <1>3 DEF Steps, DockerSteps
  <2> QED
    BY <1>3, <2>1
<1>4. CASE kind = "docker" /\ job = "logs"
  <2>1. Steps = <<"write">>
    BY <1>4 DEF Steps, DockerSteps
  <2> QED
    BY <1>4, <2>1
<1>5. CASE kind = "ssh" /\ job = "config"
  <2>1. Steps = <<"put", "rename">>
    BY <1>5 DEF Steps, SSHSteps
  <2> QED
    BY <1>5, <2>1
<1>6. CASE kind = "ssh" /\ job = "logs"
  <2>1. Steps = <<"make", "fill", "write">>
    BY <1>6 DEF Steps, SSHSteps
  <2> QED
    BY <1>6, <2>1
<1> QED
  BY <1>1, <1>2, <1>3, <1>4, <1>5, <1>6

LEMMA CopyInvInitially ==
  ASSUME Init, Kinds \subseteq {"local", "docker", "ssh"}, Jobs \subseteq {"config", "logs"}
  PROVE  CopyInv
<1>1. kind \in {"local", "docker", "ssh"} /\ job \in {"config", "logs"} /\ at = 1 /\ at \in 1 .. 4
  BY DEF Init
<1>2. 1 <= Len(Steps)
  BY <1>1 DEF Steps, LocalSteps, DockerSteps, SSHSteps
<1> QED
  BY <1>1, <1>2 DEF Init, CopyInv, ConfigWhole, NoTemporaryLeft

LEMMA CopyBodyKeeps ==
  ASSUME CopyInv, Body PROVE CopyInv'
<1>0. /\ kind' = kind /\ job' = job /\ caller' = caller /\ outcome' = outcome /\ up' = up
      /\ Steps' = Steps
  BY DEF Body, StepDone, StepFails, Cleanup, input, Steps, LocalSteps,
         DockerSteps, SSHSteps
<1>f. phase # "done" /\ outcome \notin {"ok", "failed", "timeout"}
  BY DEF CopyInv, Body, StepDone, StepFails, Cleanup
<1> USE DEF CopyInv, ConfigWhole, NoTemporaryLeft
<1>1. CASE StepDone
  <2>1. at \in 1 .. Len(Steps) /\ phase = "steps"
    BY <1>1 DEF StepDone
  <2>f. /\ Len(Steps) \in 1 .. 3
        /\ at = Len(Steps) => Step \in {"rename", "write"}
        /\ job = "logs" /\ kind # "ssh" => Step = "write"
    BY <2>1, StepFacts
  <2>a. at' = at + 1 /\ error' = error
    BY <1>1 DEF StepDone
  <2>b. phase' = "steps" => at < Len(Steps)
    BY <1>1, Zenon DEF StepDone
  <2>c. at \in 1 .. 3
    <3> HIDE DEF CopyInv, ConfigWhole, NoTemporaryLeft
    <3> QED
      BY <2>1, <2>f
  <2>2. /\ temp' = IF Step = "rename" THEN FALSE ELSE temp \/ Step \in Creating
        /\ dest' = IF Step \in {"rename", "write"} THEN "new" ELSE dest
        /\ phase' = IF at < Len(Steps) THEN "steps" ELSE IF temp' THEN "cleanup" ELSE "done"
    BY <1>1 DEF StepDone
  <2>3. at' \in 1 .. 4 /\ (phase' = "steps" => at' <= Len(Steps)) /\ at' # 1
    BY <2>f, <2>a, <2>b, <2>c
  <2>4. temp' \in BOOLEAN
    BY <2>2
  <2>5. job = "logs" /\ kind # "ssh" => ~temp'
    BY <2>2, <2>f DEF Creating
  <2>6. phase' \in {"steps", "cleanup", "done"} /\ (phase' = "done" => ~temp')
    BY <2>2
  <2>7. dest' \in {dest, "new"} /\ (phase' # "steps" => dest' = "new")
    BY <2>1, <2>2, <2>f
  <2> QED
    BY <1>0, <1>f, <2>1, <2>a, <2>3, <2>4, <2>5, <2>6, <2>7
<1>2. CASE StepFails
  <2>1. at \in 1 .. Len(Steps) /\ phase = "steps"
    BY <1>2 DEF StepFails
  <2>f. /\ job = "config" /\ kind # "docker" => Step # "write"
        /\ job = "logs" /\ kind # "ssh" => Step = "write"
    BY <2>1, StepFacts
  <2>i. /\ temp' \in {temp, temp \/ Step \in Creating}
        /\ dest' \in {dest} \cup {d \in {"torn"} : Step = "write"}
                             \cup {d \in {"new"} : Step \in {"write", "rename"}}
    BY <1>2 DEF StepFails, Interrupted
  <2>a. temp' \in BOOLEAN /\ (job = "logs" /\ kind # "ssh" => ~temp')
    BY <2>f, <2>i DEF Creating
  <2>b. job = "config" /\ kind # "docker" => dest' # "torn"
    BY <2>f, <2>i
  <2>2. /\ temp' \in BOOLEAN /\ at' = at /\ error' \in {"failed", "timeout"}
        /\ phase' \in {"cleanup", "done"}
        /\ job = "logs" /\ kind # "ssh" => ~temp'
        /\ job = "config" /\ kind # "docker" => dest' # "torn"
    BY <1>2, <2>a, <2>b DEF StepFails
  <2>3. phase' = "done" /\ error' = "failed" /\ ~(kind = "docker" /\ at = 1) => ~temp'
    BY <1>2, <2>1, <2>2, StepFacts DEF StepFails
  <2> QED
    BY <1>0, <1>f, <2>1, <2>2, <2>3
<1>3. CASE Cleanup
  <2>1. /\ phase = "cleanup" /\ phase' = "done" /\ at' = at /\ dest' = dest
        /\ temp' \in BOOLEAN /\ error' \in {"no", "failed", "timeout", "cancelled"}
        /\ (error' = "no" => error = "no") /\ (~temp => ~temp')
        /\ up /\ caller = "await" => ~temp'
    BY <1>3 DEF Cleanup, Reachable
  <2> QED
    BY <1>0, <1>f, <2>1
<1> QED
  BY <1>1, <1>2, <1>3 DEF Body

LEMMA CopyInvInductive ==
  ASSUME CopyInv, [Next]_copyVars PROVE CopyInv'
<1> USE DEF CopyInv, ConfigWhole, NoTemporaryLeft
<1>s. UNCHANGED <<kind, job>> => Steps' = Steps
  BY DEF Steps, LocalSteps, DockerSteps, SSHSteps
<1>1. CASE UNCHANGED copyVars
  BY <1>1, <1>s DEF copyVars, input, body
<1>2. CASE Body
  BY <1>2, CopyBodyKeeps
<1>3. CASE Disconnect
  BY <1>3, <1>s DEF Disconnect, input, body
<1>4. CASE Return
  BY <1>4, <1>s DEF Return, input, body
<1>5. CASE Close
  BY <1>5, <1>s DEF Close, input, body
<1>6. CASE Cancel
  <2>1. caller = "await" /\ phase # "done" /\ UNCHANGED <<kind, job, up, at>>
    BY <1>6 DEF Cancel, input, body
  <2>2. CASE InThread
    BY <1>6, <1>s, <2>1, <2>2 DEF Cancel, body
  <2>3. CASE ~InThread
    <3>1. /\ UNCHANGED <<caller, outcome>> /\ error' = "cancelled" /\ phase' \in {"cleanup", "done"}
      BY <1>6, <2>1, <2>3 DEF Cancel
    <3>2. temp' \in BOOLEAN /\ (job = "config" /\ kind # "docker" => dest' # "torn") /\ kind = "ssh"
      <4>1. CASE phase = "steps"
        <5>1. at \in 1 .. Len(Steps)
          BY <4>1
        <5> QED
          BY <1>6, <2>1, <2>3, <4>1, <5>1, StepFacts DEF Cancel, Interrupted, InThread
      <4>2. CASE phase # "steps"
        BY <1>6, <2>1, <2>3, <4>2 DEF Cancel, InThread
      <4> QED
        BY <4>1, <4>2
    <3> QED
      BY <1>s, <2>1, <3>1, <3>2
  <2> QED
    BY <2>2, <2>3
<1> QED
  BY <1>1, <1>2, <1>3, <1>4, <1>5, <1>6 DEF Next, CopyRests

LEMMA CopyInvSettles ==
  ASSUME CopyInv PROVE CopySettled
BY DEF CopyInv, CopySettled, DoneMeansNew, QuietAfterReturn

(* A copy leaves the server as its answer says, over every transport,      *)
(* wherever it is cut (connections/local.py, ssh.py, docker.py).           *)
THEOREM CopySettles ==
  ASSUME Kinds \subseteq {"local", "docker", "ssh"}, Jobs \subseteq {"config", "logs"}
  PROVE  Spec => []CopySettled
BY CopyInvInitially, CopyInvInductive, CopyInvSettles, PTL DEF Spec
=============================================================================
