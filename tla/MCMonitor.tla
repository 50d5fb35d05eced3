------------------------------ MODULE MCMonitor ------------------------------
(* Instances of Monitor for TLC: two good siblings, a faulty one, and a    *)
(* child of the first that needs a challenge.                              *)
EXTENDS Monitor, TLC

CONSTANTS genesis, first, second, faulty, heir

Chain == first :> genesis @@ second :> genesis @@ faulty :> genesis @@ heir :> first
Heighted == genesis :> 0 @@ first :> 1 @@ second :> 1 @@ faulty :> 1 @@ heir :> 2
MCVerdict ==
    first :> "ok" @@ second :> "ok" @@ faulty :> "provable" @@ heir :> "challenge"
=============================================================================
