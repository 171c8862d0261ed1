-------------------------- MODULE MCStratumShares --------------------------
(* Two shares, two sessions, one retry.                                    *)
EXTENDS StratumShares

CONSTANTS a, b

=============================================================================
