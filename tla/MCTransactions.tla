--------------------------- MODULE MCTransactions ---------------------------
(***************************************************************************)
(* Instances of the two drivers of TxnMachine.  A gateway and the command  *)
(* line share no state, so a behaviour is one of the gateway or one of the *)
(* command line, and the other stays as it was at first.                   *)
(***************************************************************************)
EXTENDS GatewayTxns, CliTxns, TLC

MCInit == GatewayInit /\ CliInit

MCNext ==
  \/ CliInit /\ GatewayNext /\ UNCHANGED cliVars
  \/ GatewayInit /\ CliNext /\ UNCHANGED gatewayVars

MCSpec == MCInit /\ [][MCNext]_<<gatewayVars, cliVars>>

Symmetry == Permutations(Hashes) \cup Permutations(Confirms) \cup Permutations(Runs)

TransactionsTypeOK == GatewayTypeOK /\ CliTypeOK
=============================================================================
