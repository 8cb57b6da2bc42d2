----------------------------- MODULE MCScripts -----------------------------
(***************************************************************************)
(* Instances of the two scripts.  They share no state: a behaviour is one  *)
(* of the smoke test or one of the installer, and the other has not begun. *)
(***************************************************************************)
EXTENDS WriteSmoke, DevInstall

MCInit == SmokeInit /\ InstallInit

MCNext ==
  \/ InstallInit /\ SmokeNext /\ UNCHANGED installVars
  \/ SmokeInit /\ InstallNext /\ UNCHANGED smokeVars

MCSpec == MCInit /\ [][MCNext]_<<smokeVars, installVars>>

ScriptsTypeOK == SmokeTypeOK /\ InstallTypeOK
=============================================================================
