----------------------------- MODULE MCUniverse -----------------------------
(* Instances of Universe for TLC: a root, its subclass and a mixin. *)
EXTENDS Universe

CONSTANTS Root, Sub, Mix

MCClass == <<Root, Mix, Sub>>
MCSuper == [c \in {Sub} |-> Root]
=============================================================================
