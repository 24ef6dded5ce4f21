----------------------------- MODULE MCOverland -----------------------------
(* Small instances of Overland for TLC.                                    *)
EXTENDS Overland, TLC

CONSTANTS h1, h2, h3

Handlers == Permutations({h1, h2, h3})
=============================================================================
