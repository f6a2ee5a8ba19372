--------------------------- MODULE MCMessageCall ---------------------------
\* Sub inherits from Root, as does Odd, which never gets a cache.  All keys
\* collide; "new" is a fast method, "foo" is not understood at first.
EXTENDS MessageCall

MCSuper   == [c \in {"Sub", "Odd"} |-> "Root"]
MCSuperId == [s \in {"Sub;foo"} |-> <<"Sub", "foo">>]
MCHash    == [k \in {"foo", "new", "forward", "Sub;foo"} |-> 0]
MCIsaSlot == [c \in {"Root", "Sub", "Odd"} |-> IF c = "Odd" THEN 1 ELSE 0]
MCStartup == {<<"Root", "new", FALSE>>, <<"Root", "forward", FALSE>>}
MCDebug   == {{}, {"trace"}, {"tao"}}
=============================================================================
