--------------------------- MODULE MCDependencies ---------------------------
(***************************************************************************)
(* A class C with three categories for Dependencies.                        *)
(***************************************************************************)
EXTENDS Dependencies

VARIABLE program

CategoryNames == <<"a", "b", "c">>
Methods == {"m", "load"}

Declarations(name) ==
    {NotImplemented, NoDependencies} \cup SUBSET {<<"C", o>> : o \in ToSet(CategoryNames) \ {name}}
        \cup {{<<"D", o>>} : o \in ToSet(CategoryNames) \ {name}}

Category(name, declared) == [classid |-> "C", categoryid |-> name, dependencies |-> declared]
List(category, methods) == [loadcategory |-> category, methods |-> methods]

DependenciesInit ==
    program \in [meta : BOOLEAN, warn : BOOLEAN, dynamic : BOOLEAN,
                 lists : {<<List(NoCategory, {"m"})>>}]

\* The next category is installed
Install ==
    /\ Len(program.lists) <= 3
    /\ LET name == CategoryNames[Len(program.lists)]
       IN  \E declared \in Declarations(name), methods \in SUBSET Methods :
              program' = [program EXCEPT !.lists =
                             Append(@, List(Category(name, declared), methods))]

----------------------------------------------------------------------------
\* The lists, with one that was added at run time behind the first category
Installed(lists) ==
    IF program.dynamic /\ Len(lists) > 1
    THEN InsertAt(lists, 3, List(NoCategory, Methods)) ELSE lists

Class(lists) ==
    [classid |-> "C", mixin |-> FALSE,
     infra |-> IF program.meta THEN <<List(NoCategory, {})>> ELSE lists,
     meta  |-> IF program.meta THEN lists ELSE <<List(NoCategory, {})>>]

Check(lists) ==
    global_check_universe([major |-> 0, minor |-> 1], [major |-> 0, minor |-> 1], "ok",
                          {Class(Installed(lists))}, program.warn)

\* "each class (infra and meta)" that passes the check (universe.c 1763-1771) has only one
\* outcome: in every order of its categories that +dependencies permit, the same
\* category's method is found, for each method that is checked.
DependenciesFixWinner ==
    LET own == Tail(program.lists)
        checked == Methods \ (IF program.warn THEN {} ELSE RuntimeMethods)
    IN  own # <<>> /\ Installable(own) /\ Check(program.lists) = "ok" =>
            \A p \in Permutations(DOMAIN own) :
                LET other == [i \in DOMAIN own |-> own[p[i]]]
                IN  Installable(other) =>
                      \A m \in checked : Winner(other, m) = Winner(own, m)
=============================================================================
