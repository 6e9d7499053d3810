------------------------------- MODULE MCAgent -------------------------------
(* Agent on small instances. *)
EXTENDS Agent

Root == [root |-> TRUE, interval |-> FALSE]
PacedRoot == [root |-> TRUE, interval |-> TRUE]
Child == [root |-> FALSE, interval |-> FALSE]

AllKinds == {Root, PacedRoot, Child}
ChildOnly == {Child}
RootOnly == {Root}
==============================================================================
