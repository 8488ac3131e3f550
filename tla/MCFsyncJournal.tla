--------------------------- MODULE MCFsyncJournal ---------------------------
(***************************************************************************)
(* Runs for TLC: two slots that load with fsync=off, one of them able to   *)
(* reach the second host only, and a slot of an unprivileged role.         *)
(***************************************************************************)
EXTENDS FsyncJournal

CONSTANTS first, second, plain, h1, h2

Pair == {first, second}
HomePair == [r \in Pair |-> h1]
Trio == {first, second, plain}
HomeTrio == [r \in Trio |-> IF r = second THEN h2 ELSE h1]

\* h1 has no override of its own, h2 has one.
OriginalOne == [h \in {h1} |-> "none"]
OriginalTwo == [h \in {h1, h2} |-> IF h = h1 THEN "none" ELSE "on"]

\* Losing the session elsewhere may be followed by work without the lock.
LossTolerated == Points \ {"load", "restore", "sync", "unlink"}
\* restore() waits for the host's sync without looking at the lock again.
OutsideSync == Points \ {"sync", "unlink"}
DuringLoad == {"load"}
=============================================================================
