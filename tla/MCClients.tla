----------------------------- MODULE MCClients -----------------------------
(* Small instances of ClientManager. *)
EXTENDS ClientManager, TLC

CONSTANTS a1, a2, auth, scan

MCTwoAccounts == {a1, a2}
MCUsers       == {auth, scan}
MCJobUsers    == {scan}
=============================================================================
