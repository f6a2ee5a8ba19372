--------------------------- MODULE MCMethodSearch ---------------------------
(***************************************************************************)
(* Hierarchies for MethodSearch: a root A, its subclass B, mixins X and Y, *)
(* and their metaclasses.  One methodid is implemented in up to three of   *)
(* the method lists; a method is named by its list.                        *)
(***************************************************************************)
EXTENDS MethodSearch

CONSTANT MaxMethods     \* bound: implementations of the method

VARIABLE case

Categories(name, kind) ==
    IF kind = "meta" THEN <<"">> ELSE IF name = "B" THEN <<"", "c", "d">> ELSE <<"", "c">>

Key == {"A", "B", "X", "Y"} \X {"infra", "meta"}

Slot == {<<"A", "infra", "">>, <<"A", "infra", "c">>, <<"B", "infra", "">>, <<"B", "infra", "c">>,
         <<"B", "infra", "d">>, <<"X", "infra", "">>, <<"X", "infra", "c">>, <<"Y", "infra", "">>,
         <<"A", "meta", "">>, <<"B", "meta", "">>, <<"X", "meta", "">>}

Root(name, h) == new_classpair(h, name, name, NoClass)

\* B is refused first, with an id that is not the one of its name
Pairs == new_classpair(new_classpair(Root("A", Root("X", Root("Y", << >>))), "b", "B", "A"),
                       "B", "B", "A")

Hierarchy(methods, mixinsOfA, mixinsOfB, inheritance) ==
    [k \in Key |->
        [name |-> k, classid |-> Pairs[k].classid, super |-> Pairs[k].super,
         meta |-> Pairs[k].meta, mixin |-> k[1] \in {"X", "Y"},
         mixins |-> CASE k[1] = "A" -> mixinsOfA [] k[1] = "B" -> mixinsOfB [] OTHER -> <<>>,
         inheritance |-> IF k[1] = "B" THEN inheritance ELSE Pairs[k].inheritance,
         lists |-> LET cats == Categories(k[1], k[2])
                   IN  [i \in DOMAIN cats |->
                          [cat |-> cats[i],
                           method |-> IF <<k[1], k[2], cats[i]>> \in methods
                                      THEN <<k[1], k[2], cats[i]>> ELSE NoMethod]]]]

Flags == {{}, {"categories"}, {"class"}, {"protocols"}, {"superclass"}, {"protocol categories"},
          {"protocol meta"}, {"categories", "class"}}

Shapes ==
    {x \in [methods : {{}}, a : {<<>>, <<"X">>}, b : {<<>>, <<"X">>, <<"X", "Y">>},
            flags : Flags, kind : {"infra", "meta"}] :
        x.kind = "meta" => x.flags \in {{}, {"protocols"}, {"protocol meta"}}}

SearchInit == case \in Shapes

\* The method lists that implement the method
Implement ==
    /\ case.methods = {}
    /\ \E m \in SUBSET Slot : /\ Cardinality(m) \in 1..MaxMethods
                              /\ case' = [case EXCEPT !.methods = m]

----------------------------------------------------------------------------
Search(h, c, search, fatal) ==
    LET r == search_method(h, c, search, c.inheritance, fatal)
    IN  IF Found(r) THEN r.method ELSE NoMethod

\* A search finds the first method in the order lists, mixins, superclass, and
\* refuses a method that was to be fatal if overridden and hides another
\* (class-search.c 346-773).
FindsFirst(h, c, order) ==
    \A q \in {[search |-> make_default, fatal |-> f, expect |-> ExpectedDefault(order, f)] :
                  f \in {{}, case.methods} \cup {{m} : m \in case.methods}}
        \cup {[search |-> make_imp(m), fatal |-> {},
               expect |-> First(SelectSeq(order, LAMBDA e : e.method = m))] : m \in case.methods}
        \cup {[search |-> set_stop_classid(make_default, id), fatal |-> {},
               expect |-> LET i == At(order, LAMBDA e : e.cat = NoClass /\ e.classid = id)
                          IN  First(IF i = 0 THEN order ELSE SubSeq(order, 1, i - 1))] :
                  id \in {"A", "X"}} :
        Search(h, c, q.search, q.fatal) = q.expect

\* A search behind a class or a category finds the first method behind it, a
\* search for a category finds its method.  (If a mixin has no such method, the
\* latter search goes on to other classes.)  (class-search.h 166-260)
FindsBehindAnchor(h, c, order) ==
    \A id \in {"A", "B", "X"}, cat \in {"", "c", "d"} :
        \A q \in {[search |-> make_super(id), expect |-> ExpectedSuper(order, id)],
                  [search |-> make_overridden(id, cat),
                   expect |-> ExpectedOverridden(order, id, cat)]}
                 \cup {[search |-> make_specific(id, cat), expect |-> e] :
                          e \in {ExpectedSpecific(order, id, cat)}
                                \ (IF id = "X" THEN {NoMethod} ELSE {})} :
            Search(h, c, q.search, {}) = q.expect

\* The search without a superclass finds what is first among the class's own, and
\* forward: is the universe's only if the class inherits none (class-search.c 957-1045).
FindsOwn(h, c, order) ==
    LET r == search_non_inherited_method(h, c)
        own == First(Order(h, c, c.inheritance \cup {"superclass"}))
    IN  /\ own = IF Found(r) THEN r.method ELSE NoMethod
        /\ search_forwardmethod(h, c, "forward") =
              IF First(order) = NoMethod THEN "forward" ELSE First(order)

SearchesFollow(h, c, order) ==
    FindsFirst(h, c, order) /\ FindsBehindAnchor(h, c, order) /\ FindsOwn(h, c, order)

\* Whatever is searched for, a search finds what comes first in the order of
\* inheritance (lists, mixins, superclass: class-search.c 346-773), behind its anchor if
\* it has one.
SearchFollowsOrder ==
    case.methods # {} =>
        LET h == Hierarchy(case.methods, case.a, case.b, case.flags)
            c == h[<<"B", case.kind>>]
        IN  SearchesFollow(h, c, Order(h, c, c.inheritance))

\* The chain of overridden methods has every implementation of a class once
\* (class-search.h 610-660), and the loop that calls +unload begins with it.
ChainIsComplete(h, c) ==
    LET own == SelectSeq(VisitedLists(c.lists, c.inheritance), LAMBDA l : l.method # NoMethod)
        all == [i \in DOMAIN own |-> own[i].method]
    IN  /\ clobberchain(h, c) = all
        /\ c.inheritance = {} => IsPrefix(call_unload(h, c), all)

\* A method that calls super, found through super, ..., never comes again, unless
\* its mixin is met twice on the way: in a class and its root, or in a root as a
\* class and as an instance (class-search.c 503-508).
SuperEnds(h, c) ==
    LET chain == SuperChain(h, c, defaultsearch_method(h, c), 12)
        root  == h[<<"A", "infra">>]
    IN  (root.mixins = <<>> \/ (c.mixins = <<>> /\ case.kind = "infra")) =>
            \A i, j \in DOMAIN chain : chain[i] = chain[j] => i = j

\* The walk over method lists "replicates mulle_objc_class_search traversal"
\* (class.c 787), for a class that inherits everything; coming from a root
\* metaclass it leaves the mixins of the root class out, which the search does
\* not.  The walk over methods visits the same lists, in another order.  A lookup
\* without inheritance finds what a search of the class finds.
WalkAgrees(h, c, order) ==
    /\ c.inheritance = {} =>
          LET entries == SelectSeq(order, LAMBDA e : e.cat # NoClass)
              lists == [i \in DOMAIN entries |->
                          [class |-> entries[i].class, cat |-> entries[i].cat,
                           method |-> entries[i].method]]
          IN  /\ ToSet(walk_methods(h, c, {})) = ToSet(lists)
              /\ case.kind = "infra" \/ case.a = <<>> => methodlist_walk(h, c, {}) = lists
    /\ LET r == search_method(h, c, make_default, {"protocols", "superclass"}, {})
       IN  lookup_method(h, c) = IF Found(r) THEN r.method ELSE NoMethod

WalksFollow(h, c, order) ==
    ChainIsComplete(h, c) /\ SuperEnds(h, c) /\ WalkAgrees(h, c, order)

\* The walks that do without the search, and the loops that repeat it, see the methods
\* the search sees: "replicates mulle_objc_class_search traversal" (class.c 787).
WalkFollowsSearch ==
    case.methods # {} =>
        LET h == Hierarchy(case.methods, case.a, case.b, case.flags)
            c == h[<<"B", case.kind>>]
        IN  WalksFollow(h, c, Order(h, c, c.inheritance))
=============================================================================
