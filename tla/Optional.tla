------------------------------ MODULE Optional ------------------------------
(* A value that is not there: a nil pointer of the source. *)
EXTENDS Integers

CONSTANT NULL

ASSUME NullAssumption == NULL \notin Int

Opt(S) == S \cup {NULL}
=============================================================================
