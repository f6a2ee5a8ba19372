---------------------------- MODULE Dependencies ----------------------------
(***************************************************************************)
(* The check of a started program (universe.c 1773-2024): its version, its  *)
(* wait queues, and that categories which override each other's methods     *)
(* declare it with +dependencies, so that the order in which categories are *)
(* installed, and with it the method that wins, is not left to the linker.  *)
(*                                                                         *)
(* A method list is a record: loadcategory, the category it comes from (or  *)
(* NoCategory), and methods, a set of methodids.  A category is a record:   *)
(* classid, categoryid and dependencies, what its +dependencies returns: a  *)
(* set of pairs <<classid, categoryid>>, NoDependencies, or NotImplemented if it has none.  *)
(***************************************************************************)
EXTENDS Integers, Sequences, SequencesExt, FiniteSets

CONSTANTS NoCategory, NoDependencies, NotImplemented

\* Methods whose overrides are expected
RuntimeMethods == {"load", "unload", "initializeSelf", "deinitializeSelf"}

\* The methods of a list the check looks at
checkedMethods(list, warn) ==
    {m \in list.methods : m # "dependencies" /\ (m \in RuntimeMethods => warn)}

declaresNothing(category) == category.dependencies \in {NotImplemented, NoDependencies}

declares(category, overridden) ==
    /\ ~declaresNothing(category)
    /\ <<overridden.classid, overridden.categoryid>> \in category.dependencies

\* Mutant: the map keeps the list that was first to implement a method
MutKeepFirst(map, list, methods) ==
    [m \in methods \ DOMAIN map |-> list] @@ map

\* The lists last seen with each method.  A list that declares nothing does not
\* replace the one it overrides.
remember(map, list, methods) ==
    [m \in {n \in methods : n \in DOMAIN map => ~declaresNothing(list.loadcategory)} |-> list]
        @@ map

check_list(state, list, warn) ==
    LET methods == checkedMethods(list, warn)
    IN  IF list.loadcategory = NoCategory THEN state
        ELSE [map |-> remember(state.map, list, methods),
              ok  |-> state.ok /\ \A m \in methods \cap DOMAIN state.map :
                          declares(list.loadcategory, state.map[m].loadcategory)]

\* The lists of a class, in the order they were added.  The first is its own.
check_class_category_dependencies(lists, warn) ==
    FoldLeft(LAMBDA state, list : check_list(state, list, warn),
             [map |-> [m \in {} |-> NoCategory], ok |-> TRUE],
             Tail(lists)).ok

\* Every class but mixins and MulleObjCDeps, with its metaclass
check_category_method_dependencies(classes, warn) ==
    IF \A class \in classes :
          \/ class.mixin
          \/ class.classid = "MulleObjCDeps"
          \/ /\ check_class_category_dependencies(class.infra, warn)
             /\ check_class_category_dependencies(class.meta, warn)
    THEN "ok" ELSE "inconsistent"

\* waitqueues: what check_waitqueues returns
universe_check(version, universe, waitqueues, classes, warn) ==
    CASE \/ version.major # universe.major
         \/ version.major = 0 /\ version.minor # universe.minor -> "wrong version"
      [] OTHER -> IF waitqueues # "ok" THEN waitqueues
                  ELSE check_category_method_dependencies(classes, warn)

\* NoDependencies: there is no universe of that name
global_check_universe(version, universe, waitqueues, classes, warn) ==
    IF universe = NoDependencies THEN "missing"
    ELSE universe_check(version, universe, waitqueues, classes, warn)

----------------------------------------------------------------------------
(* Reference                                                               *)

\* The loader installs a category behind the categories it depends on.
Installable(lists) ==
    \A i, j \in DOMAIN lists :
        /\ lists[i].loadcategory # NoCategory /\ lists[j].loadcategory # NoCategory
        /\ ~declaresNothing(lists[i].loadcategory)
        /\ <<lists[j].loadcategory.classid, lists[j].loadcategory.categoryid>>
               \in lists[i].loadcategory.dependencies
        => j < i

\* The category whose method is found: a search begins with the last list.
Winner(lists, m) ==
    LET with == SelectSeq(lists, LAMBDA l : l.loadcategory # NoCategory /\ m \in l.methods)
    IN  IF with = <<>> THEN NoCategory ELSE Last(with).loadcategory.categoryid
=============================================================================
