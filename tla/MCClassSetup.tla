--------------------------- MODULE MCClassSetup ----------------------------
(* Instances of ClassSetup for TLC: a root, a subclass, a helper class, also a
   subclass of the root, and a mixin of root and subclass. *)
EXTENDS ClassSetup

CONSTANTS Root, Sub, Helper, Mixin

MCSuper == [c \in Class |-> IF c \in {Sub, Helper} THEN Root ELSE NoClass]

MCMixins == [c \in Class |-> IF c \in {Root, Sub} THEN <<Mixin>> ELSE <<>>]

\* +initialize of the subclass messages the helper, and the other way around
SendsAcross == [c \in Class |-> CASE c = Sub    -> {Helper}
                                   [] c = Helper -> {Sub}
                                   [] OTHER      -> {}]

MCRank == [c \in Class |-> CASE c = Mixin -> 0 [] c = Root -> 1 [] OTHER -> 2]
ASSUME RankAssumption == Descending(MCRank)
=============================================================================
