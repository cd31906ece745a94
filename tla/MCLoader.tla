------------------------------ MODULE MCLoader ------------------------------
(* Three plugins; the first of them has two sections where NumSections is 4. *)
EXTENDS Loader

CONSTANTS a, b, c

MCPluginOf == [s \in 1..NumSections |-> <<a, b, c, a>>[s]]
=============================================================================
