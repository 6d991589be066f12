------------------------------ MODULE TestEnv ------------------------------
(***************************************************************************)
(* What Brain assumes of a test and its children: the steps Write, Fork,   *)
(* ExitMain and ExitKid of Brain, reduced to whether a process of either   *)
(* kind is alive and whether "test succeeded" was written.  A process may  *)
(* write while it ends (Brain takes two steps for that), and only a        *)
(* detached program ends before its children.                              *)
(***************************************************************************)

CONSTANT Detached     \* the programs that may end while a child of theirs runs on

VARIABLES prog, main, kids, said

envVars == <<prog, main, kids, said>>

EnvInit == main = TRUE /\ kids = FALSE /\ said = FALSE

LastWrite == said' = TRUE \/ UNCHANGED said

Write == (main \/ kids) /\ said' = TRUE /\ UNCHANGED <<prog, main, kids>>

Fork == main /\ kids' = TRUE /\ UNCHANGED <<prog, main, said>>

ExitMain ==
  /\ main /\ (kids => prog \in Detached)
  /\ main' = FALSE
  /\ LastWrite
  /\ UNCHANGED <<prog, kids>>

ExitKid ==
  /\ kids
  /\ kids' = FALSE
  /\ LastWrite
  /\ UNCHANGED <<prog, main>>

EnvNext == Write \/ Fork \/ ExitMain \/ ExitKid

EnvSafety == EnvInit /\ [][EnvNext]_envVars

\* What Brain calls TestsEnd.
EnvFair == SF_envVars(ExitMain) /\ WF_envVars(ExitKid)

=============================================================================
