---------------------------- MODULE MCNameResolver ----------------------------
(* Small instances of NameResolver: the identifier "global", alone or with *)
(* one other.                                                              *)
EXTENDS NameResolver

CONSTANTS g, a

MCOneName == {g}
MCTwoNames == {g, a}
MCNoPrimitives == {}
=============================================================================
