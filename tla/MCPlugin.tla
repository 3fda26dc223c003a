------------------------------- MODULE MCPlugin -------------------------------
(* Finite instances of Plugin: numbers that cannot be used, that are missing,   *)
(* and the defaults.                                                            *)
EXTENDS Plugin

MCInterval == {-1, 0, 10}
MCCutOff == {0, 20}
===============================================================================
