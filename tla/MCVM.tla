-------------------------------- MODULE MCVM --------------------------------
(* Instances of VM for TLC.                                                *)
EXTENDS VM, TLC

CONSTANTS old, new, user

MCContracts == {old, new}
MCGenesis == {old}
MCCallers == {user}
MCHeights == 1..2
=============================================================================
