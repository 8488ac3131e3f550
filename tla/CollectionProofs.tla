-------------------------- MODULE CollectionProofs --------------------------
(***************************************************************************)
(* Proofs about Collection for any template, any number of cancellations   *)
(* and any of the transports: the process group of a shell item, the       *)
(* answer of the command and what it leaves behind.                        *)
(***************************************************************************)
EXTENDS Collection, TLAPS

\* What the processes of an item, the item itself and its child can be.
GroupInv ==
    /\ leader \in {"none", "runs", "zombie", "reaped"} /\ why \in {"no", "timeout", "cancelled"}
    /\ step = "new" => leader = "none"
    /\ step = "attach" => leader = "reaped"
    /\ step = "end" /\ ~cut => leader \in {"none", "reaped"}
    /\ step \in {"grace", "kill", "attach"} => late \/ told # {}
    /\ step \in {"new", "communicate"} => why = "no"
    /\ step = "end" /\ why # "no" => (late \/ told # {}) /\ ended = why
    /\ step \in {"stop", "grace", "kill", "attach"} => why # "no"
    /\ child = "early" /\ told # {} => "child" \in told

\* A step of the command is a step of the group of its item, or none.
LEMMA GroupSteps ==
  ASSUME [Next]_vars
  PROVE  \/ Group!Code \/ Group!System \/ Group!Interrupt
         \/ UNCHANGED <<step, leader, child, holds, stubborn, told, killed, late, cut, ended, why>>
  BY DEF Next, Code, System, Cancel, CopyGoesOn, Terminated, Open, Connect, Collect, EnterShell,
         RunShell, LeaveShell, EndItems, AskDirectory, RunCopy, LeaveCopy, Reset, CloseSession, Leave,
         LoseHost, LoseServer, group, vars

LEMMA GroupInvInitially ==
  ASSUME Init PROVE GroupInv
  BY DEF Init, Group!Init, GroupInv

\* Every step of the coroutine, of the processes and of a cancellation keeps it.
LEMMA GroupInvInductive ==
  ASSUME GroupInv, [Next]_vars PROVE GroupInv'
<1> USE DEF GroupInv
<1>1. CASE Group!Start
  BY <1>1 DEF Group!Start, Group!stop
<1>2. CASE Group!Return
  BY <1>2 DEF Group!Return, Group!Drained, Group!proc, Group!stop
<1>3. CASE Group!Expire
  BY <1>3 DEF Group!Expire, Group!proc, Group!stop
<1>4. CASE Group!Stop
  BY <1>4 DEF Group!Stop, Group!Signalled, Group!ChildRuns, Group!proc, Group!call
<1>5. CASE Group!Stopped
  BY <1>5 DEF Group!Stopped, Group!proc, Group!stop, Group!call
<1>6. CASE Group!GraceExpires
  BY <1>6 DEF Group!GraceExpires, Group!Signalled, Group!ChildRuns, Group!proc, Group!call
<1>7. CASE Group!Attach
  BY <1>7 DEF Group!Attach, Group!proc, Group!stop
<1>8. CASE Group!Fork
  BY <1>8 DEF Group!Fork, Group!stop, Group!call
<1>9. CASE Group!ExitLeader
  BY <1>9 DEF Group!ExitLeader, Group!stop, Group!call
<1>10. CASE Group!ExitChild
  BY <1>10 DEF Group!ExitChild, Group!ChildRuns, Group!stop, Group!call
<1>11. CASE Group!Reap
  BY <1>11 DEF Group!Reap, Group!stop, Group!call
<1>12. CASE Group!Interrupt
  BY <1>12 DEF Group!Interrupt, Group!proc
<1>13. CASE UNCHANGED <<step, leader, child, holds, stubborn, told, killed, late, cut, ended, why>>
  BY <1>13
<1> QED
  BY <1>1, <1>2, <1>3, <1>4, <1>5, <1>6, <1>7, <1>8, <1>9, <1>10, <1>11, <1>12, <1>13,
     GroupSteps DEF Group!Code, Group!System

\* A command that was interrupted left no leader running, and told its child
\* to stop, whatever the template and the number of cancellations.
THEOREM GroupStoppedHolds == Spec => []GroupStopped
<1>1. GroupInv => GroupStopped
  BY DEF GroupInv, GroupStopped, Group!GroupStopped, Group!LeaderStopped, Group!GroupAsked
<1> QED
  BY <1>1, GroupInvInitially, GroupInvInductive, PTL DEF Spec
-----------------------------------------------------------------------------
(* What a command owes: where it stands, what it has counted, and where a  *)
(* cancellation that reached it is.                                        *)
AnswerInv ==
    /\ failure \in {"no", "connect", "reset", "cancelled"} /\ warned \in BOOLEAN /\ cancels \in Nat
    /\ server \in {"answers", "silent", "closed"}
    /\ pc \in {"open", "connect"} => session = "none" /\ item = 1 /\ ~connected
    /\ pc \in {"open", "connect", "items", "shell", "ask", "copy", "returned"} => failure = "no"
    /\ pc \in {"hold", "raised"} => failure # "no"
    /\ session = "failed" => failure \in {"reset", "cancelled"}
    /\ session = "cut" => failure = "cancelled"
    /\ failure = "reset" => session = "failed"
    /\ failure = "connect" => pc \in {"leave", "raised"} /\ session = "none" /\ item = 1 /\ ~connected
    /\ pc \in {"open", "connect", "items", "shell", "ask", "copy"} => caller = "await"
    /\ pc # "shell" => step \in {"new", "end"}
    /\ cancels > 0 =>
           \/ failure \in {"reset", "cancelled"}
           \/ why = "timeout"
           \/ pc = "shell" /\ why = "cancelled"
           \/ pc = "copy" /\ error = "cancelled"
    /\ pc # "shell" /\ ended \in {"failed", "timeout"} => warned
    /\ outcome \in {"failed", "timeout"} => warned
    /\ phase = "steps" => error = "no"

LEMMA AnswerInvInitially ==
  ASSUME Init PROVE AnswerInv
<1>1. cancels = 0 /\ cancels \in Nat /\ ~(cancels > 0)
  BY DEF Init, Group!Init
<1> QED
  BY <1>1 DEF Init, Group!Init, Copy!Init, AnswerInv

\* The body of a copy keeps the error it has.
LEMMA BodyKeepsError ==
  ASSUME AnswerInv, Copy!Body
  PROVE  /\ phase' = "steps" => error' = "no"
         /\ error = "cancelled" => error' = "cancelled"
         /\ caller' = caller /\ outcome' = outcome
<1>1. CASE Copy!StepDone
  BY <1>1 DEF Copy!StepDone, Copy!input, AnswerInv
<1>2. CASE Copy!StepFails
  BY <1>2 DEF Copy!StepFails, Copy!input, AnswerInv
<1>3. CASE Copy!Cleanup
  BY <1>3 DEF Copy!Cleanup, Copy!input, AnswerInv
<1> QED
  BY <1>1, <1>2, <1>3 DEF Copy!Body

\* What an item or a copy settles with, a warning stays a warning.
LEMMA WarningsStay ==
  ASSUME warned \in BOOLEAN, NEW s
  PROVE  Note(s) => warned' \in BOOLEAN /\ (warned => warned') /\ (s = "error" => warned')
  BY DEF Note, Counted

LEMMA AnswerInvInductive ==
  ASSUME GroupInv, AnswerInv, [Next]_vars PROVE AnswerInv'
<1> USE DEF AnswerInv, group, copy
<1>1. CASE Open
  BY <1>1 DEF Open, Raise
<1>2. CASE Connect
  BY <1>2 DEF Connect, Raise
<1>3. CASE Collect
  <2>1. warned' \in BOOLEAN /\ (warned => warned')
    BY <1>3, WarningsStay DEF Collect, Settle
  <2> QED
    BY <1>3, <2>1 DEF Collect
<1>4. CASE EnterShell
  BY <1>4 DEF EnterShell
<1>5. CASE RunShell
  <2>1. UNCHANGED <<cancels, why>> \/ (UNCHANGED cancels /\ why' = "timeout")
    BY <1>5 DEF RunShell, Group!Code, Group!Start, Group!Return, Group!Expire, Group!Stop, Group!Stopped,
                Group!GraceExpires, Group!Attach, Group!call
  <2>2. why = "timeout" => why' = "timeout"
    BY <2>1
  <2>3. why = "cancelled" => why' = "cancelled"
    BY <1>5 DEF RunShell, GroupInv, Group!Code, Group!Start, Group!Return, Group!Expire, Group!Stop,
                Group!Stopped, Group!GraceExpires, Group!Attach, Group!call
  <2> QED
    BY <1>5, <2>1, <2>2, <2>3 DEF RunShell, own
<1>6. CASE LeaveShell
  <2>1. pc = "shell" /\ step = "end" /\ failure = "no"
    BY <1>6 DEF LeaveShell
  <2>2. CASE ended = "cancelled"
    BY <1>6, <2>1, <2>2 DEF LeaveShell, Raise
  <2>3. CASE ended # "cancelled"
    <3>1. pc' = "items" /\ UNCHANGED <<failure, database, session, connected, server, transport, group, copy>>
      BY <1>6, <2>3 DEF LeaveShell
    <3>2. warned' \in BOOLEAN /\ (warned => warned') /\ (ended # "ok" => warned')
      BY <1>6, <2>3, WarningsStay DEF LeaveShell, Settle
    <3>3. cancels > 0 => why = "timeout"
      BY <2>1, <2>3 DEF GroupInv
    <3> QED
      BY <2>1, <2>3, <3>1, <3>2, <3>3
  <2> QED
    BY <2>2, <2>3
<1>7. CASE EndItems
  BY <1>7 DEF EndItems
<1>17. CASE AskDirectory
  <2>1. warned' \in BOOLEAN /\ (warned => warned')
    BY <1>17, WarningsStay DEF AskDirectory
  <2> QED
    BY <1>17, <2>1 DEF AskDirectory
<1>8. CASE RunCopy
  BY <1>8, BodyKeepsError DEF RunCopy, own
<1>18. CASE LoseHost
  BY <1>18 DEF LoseHost, own, Copy!Disconnect, Copy!input, Copy!body
<1>19. CASE LoseServer
  BY <1>19 DEF LoseServer
<1>9. CASE LeaveCopy
  <2>1. pc = "copy" /\ failure = "no" /\ phase = "done" /\ caller' = "close"
        /\ outcome' = (IF error = "no" THEN "ok" ELSE error) /\ phase' = phase /\ error' = error
    BY <1>9 DEF LeaveCopy, Copy!Return, Copy!body
  <2>2. CASE error = "cancelled"
    BY <1>9, <2>1, <2>2 DEF LeaveCopy, Raise
  <2>3. CASE error # "cancelled"
    <3>1. warned' \in BOOLEAN /\ (warned => warned')
          /\ (error # "no" => warned') /\ UNCHANGED failure /\ pc' = "cleanup"
      BY <1>9, <2>3, WarningsStay DEF LeaveCopy
    <3> QED
      BY <1>9, <2>1, <2>3, <3>1 DEF LeaveCopy
  <2> QED
    BY <2>2, <2>3
<1>10. CASE Reset
  <2>1. session' \in {"reset", "failed", "gone"}
    BY <1>10 DEF Reset, Resets
  <2> QED
    BY <1>10, <2>1 DEF Reset
<1>11. CASE CloseSession
  BY <1>11 DEF CloseSession, Answer
<1>12. CASE Leave
  <2>1. phase' = phase /\ error' = error /\ outcome' = outcome
    BY <1>12 DEF Leave, CloseTransport, Copy!Close, Copy!body
  <2> QED
    BY <1>12, <2>1 DEF Leave, CloseTransport, Answer
<1>13. CASE System
  BY <1>13 DEF System, own, Group!System, Group!Fork, Group!ExitLeader, Group!ExitChild, Group!Reap,
               Group!stop, Group!call
<1>14. CASE CopyGoesOn
  BY <1>14, BodyKeepsError DEF CopyGoesOn, own
<1>15. CASE Cancel
  <2>1. CASE pc = "shell" /\ Group!Interrupt /\ UNCHANGED <<own, copy>>
    <3>1. cancels' \in Nat /\ why' \in {"timeout", "cancelled"}
      BY <2>1 DEF Group!Interrupt, GroupInv
    <3>2. pc' = "shell" /\ UNCHANGED <<own, copy>>
      BY <2>1 DEF own
    <3> QED
      BY <3>1, <3>2, <2>1 DEF own
  <2>2. CASE /\ pc = "copy" /\ cancels' = cancels + 1 /\ Copy!Cancel
             /\ IF caller' = "close" THEN Raise("cancelled") ELSE UNCHANGED <<pc, failure>>
             /\ UNCHANGED <<database, item, warned, session, connected, server, transport>>
             /\ UNCHANGED <<step, leader, child, holds, stubborn, told, killed, late, cut, ended, why>>
    <3>1. cancels' \in Nat /\ failure = "no"
      BY <2>2
    <3>2. CASE Copy!InThread
      <4>1. caller' = "close" /\ outcome' = "cancelled" /\ phase' = phase /\ error' = error
        BY <2>2, <3>2 DEF Copy!Cancel, Copy!body
      <4> QED
        BY <2>2, <3>1, <4>1 DEF Raise
    <3>3. CASE ~Copy!InThread
      <4>1. caller' = "await" /\ outcome' = outcome /\ phase' \in {"cleanup", "done"}
            /\ error' = "cancelled"
        BY <2>2, <3>3 DEF Copy!Cancel
      <4> QED
        BY <2>2, <3>1, <4>1
    <3> QED
      BY <3>2, <3>3
  <2>3. CASE /\ cancels' = cancels + 1
             /\ \/ /\ pc \in {"open", "connect", "items", "ask"} /\ Raise("cancelled")
                   /\ UNCHANGED <<session, transport, copy>>
                \/ pc \in {"cleanup", "hold"} /\ Shielded /\ UNCHANGED <<transport, copy>>
                \/ CancelClose
             /\ UNCHANGED <<database, item, warned, connected, server>>
             /\ UNCHANGED <<step, leader, child, holds, stubborn, told, killed, late, cut, ended, why>>
    <3>0. cancels' \in Nat /\ UNCHANGED <<warned, server, step, why, ended>>
      BY <2>3
    <3>1. CASE /\ pc \in {"open", "connect", "items", "ask"} /\ Raise("cancelled")
               /\ UNCHANGED <<session, transport, copy>>
      BY <2>3, <3>0, <3>1 DEF Raise
    <3>2. CASE pc \in {"cleanup", "hold"} /\ Shielded /\ UNCHANGED <<transport, copy>>
      <4>1. /\ failure' \in {"reset", "cancelled"} /\ pc' = "hold"
            /\ session' = session \/ (session' = "cut" /\ session = "set")
        BY <3>2 DEF Shielded
      <4>2. /\ session' = "cut" => failure' = "cancelled"
            /\ failure' = "reset" => session' = "failed"
            /\ session' = "failed" => failure' \in {"reset", "cancelled"}
        BY <3>2 DEF Shielded
      <4> QED
        BY <2>3, <3>0, <3>2, <4>1, <4>2
    <3>3. CASE CancelClose
      <4>1. phase' = phase /\ error' = error /\ outcome' = outcome
        BY <3>3 DEF CancelClose, CloseTransport, Copy!Close, Copy!body
      <4>2. failure' = "cancelled" /\ pc' \in {"cleanup", "raised"} /\ session' = session /\ pc = "leave"
        BY <3>3 DEF CancelClose
      <4> QED
        BY <2>3, <3>0, <4>1, <4>2
    <3> QED
      BY <2>3, <3>1, <3>2, <3>3
  <2> QED
    BY <1>15, <2>1, <2>2, <2>3 DEF Cancel
<1>16. CASE UNCHANGED vars
  BY <1>16 DEF vars, own
<1> QED
  BY <1>1, <1>2, <1>3, <1>4, <1>5, <1>6, <1>7, <1>8, <1>9, <1>10, <1>11, <1>12, <1>13, <1>14, <1>15,
     <1>16, <1>17, <1>18, <1>19 DEF Next, Code, Terminated

\* The answer hides nothing: no report is lost to an item, only to a lost
\* connection, a cancellation or a session that could not be reset; no failure
\* goes uncounted, and no cancellation is forgotten but the one swallowed.
THEOREM AnswerHonestHolds == Spec => []AnswerHonest
<1>1. GroupInv /\ AnswerInv => AnswerHonest
  BY DEF GroupInv, AnswerInv, AnswerHonest, ReportKept, FailuresCounted, CancellationEnds
<1> QED
  BY <1>1, GroupInvInitially, GroupInvInductive, AnswerInvInitially, AnswerInvInductive, PTL DEF Spec
-----------------------------------------------------------------------------
(* What is open: the transport and the session with its settings, and how  *)
(* many cancellations it takes to cut their reset short.                   *)
BackendInv ==
    /\ session = "set" => connected
    /\ session = "none" => ~connected
    /\ pc \in {"connect", "items", "shell", "ask", "copy", "leave"} => transport
    /\ pc = "open" => ~transport /\ ~connected
    /\ pc \in {"returned", "raised"} => ~transport /\ ~connected
    /\ pc = "hold" => cancels >= 1
    /\ session = "cut" => cancels > 1

LEMMA BackendInvInitially ==
  ASSUME Init PROVE BackendInv
  BY DEF Init, BackendInv

\* The cancellations of a command are counted, never forgotten.
LEMMA CancelsGrow ==
  ASSUME AnswerInv, AnswerInv', [Next]_vars PROVE cancels' \in Nat /\ cancels' >= cancels
<1>1. UNCHANGED cancels \/ cancels' = cancels + 1
  BY DEF Next, Code, System, Cancel, CopyGoesOn, Terminated, Open, Connect, Collect, EnterShell,
         RunShell, LeaveShell, EndItems, AskDirectory, RunCopy, LeaveCopy, Reset, CloseSession, Leave,
         LoseHost, LoseServer, group, vars, CancelClose,
         Group!Code, Group!Start, Group!Return, Group!Expire, Group!Stop, Group!Stopped,
         Group!GraceExpires, Group!Attach, Group!call, Group!System, Group!Fork, Group!ExitLeader,
         Group!ExitChild, Group!Reap, Group!Interrupt
<1> QED
  BY <1>1 DEF AnswerInv

LEMMA BackendInvInductive ==
  ASSUME AnswerInv, AnswerInv', BackendInv, [Next]_vars PROVE BackendInv'
<1>0. cancels \in Nat /\ cancels' \in Nat /\ cancels' >= cancels
  BY CancelsGrow DEF AnswerInv
<1>a. /\ cancels >= 1 => cancels' >= 1
      /\ cancels > 1 => cancels' > 1
  BY <1>0
<1> USE DEF BackendInv
<1>1. CASE Open
  BY <1>1, <1>a DEF Open, Raise, AnswerInv
<1>2. CASE Connect
  BY <1>2, <1>a DEF Connect, Raise, AnswerInv
<1>3. CASE Collect \/ EnterShell \/ LeaveShell \/ EndItems \/ AskDirectory \/ LeaveCopy \/ LoseServer
  BY <1>3, <1>a DEF Collect, EnterShell, LeaveShell, EndItems, AskDirectory, LeaveCopy, LoseServer, Raise
<1>4. CASE RunShell \/ RunCopy \/ System \/ CopyGoesOn \/ LoseHost \/ UNCHANGED vars
  BY <1>4, <1>a DEF RunShell, RunCopy, System, CopyGoesOn, LoseHost, vars, own
<1>5. CASE Reset
  <2>1. session' \in {"reset", "failed", "gone"}
    BY <1>5 DEF Reset, Resets, AnswerInv
  <2> QED
    BY <1>5, <1>a, <2>1 DEF Reset
<1>6. CASE CloseSession
  BY <1>6, <1>a DEF CloseSession, Answer
<1>7. CASE Leave
  BY <1>7, <1>a DEF Leave, CloseTransport, Answer
<1>8. CASE pc = "shell" /\ Group!Interrupt /\ UNCHANGED <<own, copy>>
  BY <1>8, <1>a DEF own
<1>9. CASE /\ pc = "copy" /\ IF caller' = "close" THEN Raise("cancelled") ELSE UNCHANGED <<pc, failure>>
           /\ UNCHANGED <<database, item, warned, session, connected, transport>>
  BY <1>9, <1>a DEF Raise
<1>10. CASE /\ cancels' = cancels + 1
            /\ \/ /\ pc \in {"open", "connect", "items", "ask"} /\ Raise("cancelled")
                  /\ UNCHANGED <<session, transport, copy>>
               \/ pc \in {"cleanup", "hold"} /\ Shielded /\ UNCHANGED <<transport, copy>>
               \/ CancelClose
            /\ UNCHANGED <<database, item, warned, connected, server>>
  <2>1. cancels' >= 1 /\ (cancels >= 1 => cancels' > 1) /\ connected' = connected
    BY <1>0, <1>10
  <2>2. CASE pc \in {"cleanup", "hold"} /\ Shielded /\ UNCHANGED <<transport, copy>>
    BY <1>a, <2>1, <2>2 DEF Shielded
  <2>3. CASE /\ pc \in {"open", "connect", "items", "ask"} /\ Raise("cancelled")
             /\ UNCHANGED <<session, transport, copy>>
    BY <1>a, <2>1, <2>3 DEF Raise
  <2>4. CASE CancelClose
    BY <1>a, <2>1, <2>4 DEF CancelClose, CloseTransport
  <2> QED
    BY <1>10, <2>2, <2>3, <2>4
<1> QED
  BY <1>1, <1>2, <1>3, <1>4, <1>5, <1>6, <1>7, <1>8, <1>9, <1>10 DEF Next, Code, Terminated, Cancel

\* Nothing stays open, and only a second cancellation or an error leaves the
\* settings of the command on a backend, never one that returns a report.
THEOREM BackendCleanHolds == Spec => []BackendClean
<1>1. AnswerInv /\ BackendInv => BackendClean
  BY DEF AnswerInv, BackendInv, BackendClean, Ended
<1> QED
  BY <1>1, GroupInvInitially, GroupInvInductive, AnswerInvInitially, AnswerInvInductive,
     BackendInvInitially, BackendInvInductive, PTL DEF Spec
-----------------------------------------------------------------------------
\* The copy of a command is a copy of FileCopy.
Files == INSTANCE FileCopyProofs

LEMMA CopySteps ==
  ASSUME [Next]_vars PROVE [Files!Next]_(Files!copyVars)
<1>1. UNCHANGED copy \/ Copy!Body \/ Copy!Disconnect \/ Copy!Return \/ Copy!Close \/ Copy!Cancel
  BY DEF Next, Code, System, Cancel, CopyGoesOn, Terminated, Open, Connect, Collect, EnterShell,
         RunShell, LeaveShell, EndItems, AskDirectory, RunCopy, LeaveCopy, Reset, CloseSession, Leave,
         CloseTransport, CancelClose, LoseHost, LoseServer, vars
<1> USE DEF Files!Next, Files!copyVars, Files!input, Files!body, Copy!input, Copy!body
<1>2. CASE UNCHANGED copy
  BY <1>2 DEF copy
<1> HIDE DEF Files!copyVars
<1>3. CASE Copy!StepDone
  BY <1>3 DEF Copy!StepDone, Files!StepDone, Files!Body, Copy!Step, Files!Step, Copy!Steps, Files!Steps,
     Copy!LocalSteps, Files!LocalSteps, Copy!DockerSteps, Files!DockerSteps, Copy!SSHSteps, Files!SSHSteps,
     Copy!Reachable, Files!Reachable, Copy!Creating, Files!Creating
<1>4. CASE Copy!StepFails
  BY <1>4 DEF Copy!StepFails, Files!StepFails, Files!Body, Copy!Step, Files!Step, Copy!Steps, Files!Steps,
     Copy!LocalSteps, Files!LocalSteps, Copy!DockerSteps, Files!DockerSteps, Copy!SSHSteps, Files!SSHSteps,
     Copy!Reachable, Files!Reachable, Copy!Creating, Files!Creating, Copy!Interrupted, Files!Interrupted,
     Copy!InThread, Files!InThread, Copy!Covered, Files!Covered
<1>5. CASE Copy!Cleanup
  BY <1>5 DEF Copy!Cleanup, Files!Cleanup, Files!Body, Copy!Reachable, Files!Reachable
<1>6. CASE Copy!Disconnect \/ Copy!Return \/ Copy!Close
  BY <1>6 DEF Copy!Disconnect, Files!Disconnect, Copy!Return, Files!Return, Copy!Close, Files!Close
<1>7. CASE Copy!Cancel
  BY <1>7 DEF Copy!Cancel, Files!Cancel, Copy!Step, Files!Step, Copy!Steps, Files!Steps,
     Copy!LocalSteps, Files!LocalSteps, Copy!DockerSteps, Files!DockerSteps, Copy!SSHSteps, Files!SSHSteps,
     Copy!Creating, Files!Creating, Copy!Interrupted, Files!Interrupted,
     Copy!InThread, Files!InThread, Copy!Covered, Files!Covered
<1> QED
  BY <1>1, <1>2, <1>3, <1>4, <1>5, <1>6, <1>7 DEF Copy!Body

\* Every behaviour of a command is one of its copy, with stuttering.
THEOREM CopyImplemented == Spec => Files!Spec
<1>1. Init => Files!Init
  BY DEF Init, Copy!Init, Files!Init
<1> QED
  BY <1>1, CopySteps, PTL DEF Spec, Files!Spec

\* A copy leaves the server as its answer says, over every transport.
THEOREM CopySettledHolds == Spec => []CopySettled
<1>1. Kinds \subseteq {"local", "docker", "ssh"} /\ Jobs \subseteq {"config", "logs"}
  BY CopyAssumption
<1>2. Files!Spec => []Files!CopySettled
  BY <1>1, Files!CopySettles
<1>3. Files!CopySettled => CopySettled
  BY DEF CopySettled, Copy!CopySettled, Files!CopySettled, Copy!ConfigWhole, Files!ConfigWhole,
     Copy!DoneMeansNew, Files!DoneMeansNew, Copy!NoTemporaryLeft, Files!NoTemporaryLeft,
     Copy!QuietAfterReturn, Files!QuietAfterReturn
<1> QED
  BY <1>2, <1>3, CopyImplemented, PTL
=============================================================================
