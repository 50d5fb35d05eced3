---------------------------- MODULE MCParentRelay ----------------------------
(* Instances of ParentRelay for TLC.                                       *)
EXTENDS ParentRelay, TLC

CONSTANTS u, c, p

ExitOf(from, to, value, bounty) ==
    [from |-> from, to |-> to, value |-> value, bounty |-> bounty]

(* An exit that calls a contract, one of a proxy with a bounty, and one to *)
(* the relay itself.                                                       *)
MCExits == {ExitOf(u, c, 0, 1), ExitOf(p, c, 1, 0), ExitOf(c, Relay, 1, 0)}
=============================================================================
