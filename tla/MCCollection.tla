---------------------------- MODULE MCCollection ----------------------------
(***************************************************************************)
(* A command with four items for TLC, over each transport.                 *)
(***************************************************************************)
EXTENDS Collection

\* A database item on either side of the hardware inventory.
SmallTemplate == <<"sql", "shell", "python", "sql">>
=============================================================================
