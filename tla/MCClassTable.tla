---------------------------- MODULE MCClassTable ----------------------------
(* Instances of ClassTable: Bar and its subclass Foo, which may pose as it, *)
(* a class Dup with the name of Foo, and a fast class.                      *)
EXTENDS ClassTable, TLC

Perms == Permutations(Thread)

MCSuper == [c \in Class \cap {"Foo"} |-> "Bar"]
MCNameOf == [c \in Class |-> IF c = "Dup" THEN "Foo" ELSE c]
MCFastIndex == [n \in Name \cap {"Fast"} |-> 1]
MCLookupId == {<<n, 0>> : n \in Name}
MCHash == [n \in Name |-> 0]

\* The instance meets what the theorem about TableIsSound assumes.
ASSUME PremiseAssumption == PosesOnce /\ FastFromOne /\ RoomToFill
=============================================================================
