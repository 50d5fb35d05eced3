-------------------------- MODULE MCChallengeMonitor --------------------------
(* An instance of ChallengeMonitor for TLC: the last of three transactions *)
(* throws, the first two have witnesses.                                   *)
EXTENDS ChallengeMonitor

CONSTANTS b1

LastThrows == {<<b1, 3>>}
=============================================================================
