---------------------------- MODULE MCConfiguration ----------------------------
(* A TLC instance of Configuration: four files, one of unknown class.        *)
EXTENDS Configuration

CONSTANTS a, f1, f2, f3, f4

InOrder == <<f1, f2, f3, f4>>
===============================================================================
