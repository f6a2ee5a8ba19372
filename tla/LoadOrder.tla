----------------------------- MODULE LoadOrder -----------------------------
(***************************************************************************)
(* What the loader promises (dox/load/LOAD.md, "Rules of +load"), without  *)
(* wait queues: a loadable is installed only when everything it needs is   *)
(* provided by installed ones, its +load runs once and after the +load of  *)
(* what it needs, and when the loading of a loadinfo ends nothing is left  *)
(* that could be installed.  In which order loadinfos come does not matter.*)
(***************************************************************************)
CONSTANTS
    Loadable,   \* classes, mixins and categories
    Needs,      \* what a loadable needs, of the kind Provides gives
    Provides,   \* what a loadable provides once it is installed
    HasLoad     \* loadables with a +load method

VARIABLES
    busy,       \* a loadinfo is being loaded
    offered,    \* loadables handed to the loader so far
    installed,  \* loadables added to the runtime
    loaded      \* loadables whose +load was called

vars == <<busy, offered, installed, loaded>>

Provided == {Provides[x] : x \in installed}

Installable(x) == x \in offered \ installed /\ Needs[x] \subseteq Provided

Init == busy = FALSE /\ offered = {} /\ installed = {} /\ loaded = {}

Offer ==
    /\ ~ busy
    /\ busy' = TRUE
    /\ \E new \in SUBSET (Loadable \ offered) : offered' = offered \cup new
    /\ UNCHANGED <<installed, loaded>>

Install(x) ==
    /\ busy
    /\ Installable(x)
    /\ installed' = installed \cup {x}
    /\ UNCHANGED <<busy, offered, loaded>>

CallLoad(x) ==
    /\ busy
    /\ x \in (installed \cap HasLoad) \ loaded
    /\ \A y \in installed \cap HasLoad : Provides[y] \in Needs[x] => y \in loaded
    /\ loaded' = loaded \cup {x}
    /\ UNCHANGED <<busy, offered, installed>>

Finish ==
    /\ busy
    /\ \A x \in Loadable : ~ Installable(x)
    /\ installed \cap HasLoad \subseteq loaded
    /\ busy' = FALSE
    /\ UNCHANGED <<offered, installed, loaded>>

Next ==
    \/ Offer \/ Finish
    \/ \E x \in Loadable : Install(x) \/ CallLoad(x)

Spec == Init /\ [][Next]_vars
=============================================================================
