---------------------------- MODULE MethodSearch ----------------------------
(***************************************************************************)
(* The search for a method: through the method lists of a class, last      *)
(* category first, then through its mixins, last one first, then through   *)
(* its superclass.  A search can start behind an anchor: behind a class    *)
(* (super), behind a category (overridden) or behind a method (previous).  *)
(* The recursion of the code carries the progress along in its mode.       *)
(*                                                                         *)
(* A hierarchy h maps classes, infra and meta, to records: classid, super, *)
(* lists (the methods of one methodid), mixins, whether it is a mixin or a *)
(* metaclass, and inheritance, a set of the DONT_INHERIT flags.            *)
(***************************************************************************)
EXTENDS Integers, Sequences, FiniteSets, SequencesExt

CONSTANTS NoMethod, NoClass

----------------------------------------------------------------------------
(* Classes *)

\* A class is empty and inherits what its superclass inherits
class_init(h, name, kind, super) ==
    [name |-> <<name, kind>>, classid |-> name, super |-> super, meta |-> kind = "meta",
     mixin |-> FALSE, mixins |-> <<>>, lists |-> <<>>,
     inheritance |-> IF super \in DOMAIN h THEN h[super].inheritance ELSE {}]

\* The metaclass of a root class has the root class as its superclass, others
\* the metaclass of the superclass.  The id must be the one of the name.
new_classpair(h, classid, name, superclass) ==
    IF classid # name THEN h
    ELSE LET root == superclass = NoClass
         IN  (<<name, "infra">> :> class_init(h, name, "infra",
                    IF root THEN NoClass ELSE <<superclass, "infra">>))
             @@ (<<name, "meta">> :> class_init(h, name, "meta",
                    IF root THEN <<name, "infra">> ELSE <<superclass, "meta">>))
             @@ h

----------------------------------------------------------------------------
(* Arguments and results *)

\* mulle_objc_searcharguments_make_default and its siblings
make_default     == [mode |-> "default", classid |-> NoClass, cat |-> "", method |-> NoMethod,
                     stop |-> NoClass]
make_imp(imp)    == [make_default EXCEPT !.mode = "imp", !.method = imp]
make_super(id)   == [make_default EXCEPT !.mode = "super", !.classid = id]
make_overridden(id, cat) ==
    [make_default EXCEPT !.mode = "overridden", !.classid = id, !.cat = cat]
make_specific(id, cat) ==
    [make_default EXCEPT !.mode = "specific", !.classid = id, !.cat = cat]
make_previous(m) == [make_default EXCEPT !.mode = "previous", !.method = m]
set_stop_classid(search, id) == [search EXCEPT !.stop = id]

\* A search on its way: what it found, where, and how far its mode got.  status
\* is "fail" for MULLE_OBJC_METHOD_SEARCH_FAIL, "null" for NULL and an error, and
\* "end" when a class has to be left at once.
Start(mode) == [status |-> "fail", method |-> NoMethod, class |-> NoClass, cat |-> "",
                mode |-> mode, error |-> "ENOENT"]

Found(r) == r.status = "found"
Null(r, error) == [r EXCEPT !.status = "null", !.error = error]

\* A result behind one that was found already, whose override is fatal
Merge(old, new) ==
    IF Found(old) /\ Found(new) THEN Null(new, "EEXIST")
    ELSE IF Found(old) /\ new.status = "fail" THEN [old EXCEPT !.mode = new.mode]
    ELSE new

\* Whether a search has to go on after a result: nothing yet, or a method whose
\* hidden override is fatal
GoesOn(r, fatal) == r.status = "fail" \/ (Found(r) /\ r.method \in fatal)

----------------------------------------------------------------------------
(* One class *)

\* The method lists a search visits: last category first.  The class itself
\* is first in the array.
VisitedLists(lists, inheritance) ==
    LET n == IF "categories" \in inheritance THEN 1 ELSE Len(lists)
        visited == Reverse(SubSeq(lists, 1, n))
    IN  IF "class" \in inheritance THEN SubSeq(visited, 1, n - 1) ELSE visited

\* One list, in the loop of _mulle_objc_class_search_method_internal
SearchList(r, list, c, search) ==
    LET hit == [r EXCEPT !.status = "found", !.method = list.method, !.class = c.name,
                         !.cat = list.cat]
        miss == list.method = NoMethod \/ (r.mode = "imp" /\ list.method # search.method)
        itself == r.mode = "overridden 3" /\ search.classid = c.classid /\ search.cat = list.cat
    IN  IF r.mode = "overridden 2"
        THEN IF list.cat = search.cat THEN [r EXCEPT !.mode = "overridden 3"] ELSE r
        ELSE IF r.mode = "specific 2" /\ list.cat # search.cat THEN r
        ELSE IF r.mode \in {"specific 2", "specific 3"}
        THEN [(IF miss THEN [r EXCEPT !.status = "end"] ELSE hit) EXCEPT !.mode = "specific 3"]
        ELSE IF miss \/ itself THEN r
        ELSE IF r.mode = "previous" /\ search.method = list.method
        THEN [r EXCEPT !.mode = "previous 2"]
        ELSE Merge(r, hit)

\* All lists of a class, up to the one that ends the search
SearchLists(r, c, search, inheritance, fatal) ==
    FoldLeft(LAMBDA s, list : IF GoesOn(s, fatal) THEN SearchList(s, list, c, search) ELSE s,
             r, VisitedLists(c.lists, inheritance))

\* The start of _mulle_objc_class_search_method_internal: does the class itself
\* have to be searched, and in which mode?
EnterClass(mode, c, search) ==
    CASE mode = "super" ->
            [skip |-> TRUE, mode |-> IF search.classid = c.classid THEN "super 2" ELSE mode]
      [] mode \in {"overridden", "specific"} ->
            IF search.classid # c.classid THEN [skip |-> TRUE, mode |-> mode]
            ELSE [skip |-> FALSE, mode |-> IF mode = "specific" THEN "specific 2"
                                                                ELSE "overridden 2"]
      [] OTHER -> [skip |-> FALSE, mode |-> mode]

----------------------------------------------------------------------------
(* The recursion *)

\* The inheritance a superclass is searched with
\* (_mulle_objc_class_search_method_super); a root metaclass, whose superclass
\* is its own infraclass, may keep the mixins out.
SuperInheritance(h, c, inheritance) ==
    LET s == h[c.super]
        meta == "protocol meta" \in inheritance /\ c.meta /\ ~s.meta
        inh == IF ~meta THEN inheritance
               ELSE {"protocols", "protocol meta"} \cup
                    IF "superclass inheritance" \in inheritance THEN inheritance
                    ELSE s.inheritance \cup {"superclass inheritance"}
    IN  IF "superclass inheritance" \in inh THEN inh ELSE s.inheritance

\* What a mixin is searched with
MixinInheritance(x, inheritance) ==
    {"superclass", "superclass inheritance", "protocols"} \cup x.inheritance
    \cup (IF "protocol categories" \in inheritance THEN {"categories"} ELSE {})

\* The mixins of a class in the order of the search, as metaclasses for one
Mixins(h, c) ==
    IF c.mixin THEN <<>>
    ELSE [i \in 1..Len(c.mixins) |->
             h[<<c.mixins[Len(c.mixins) + 1 - i], IF c.meta THEN "meta" ELSE "infra">>]]

RECURSIVE SearchClass(_, _, _, _, _, _)

\* _mulle_objc_class_protocol_search_method
SearchMixins(h, c, search, inheritance, mode, fatal) ==
    FoldLeft(LAMBDA r, x :
                IF GoesOn(r, fatal)
                THEN Merge(r, SearchClass(h, x, search, MixinInheritance(x, inheritance),
                                          r.mode, fatal))
                ELSE r,
             Start(mode), Mixins(h, c))

\* The superclass comes last
SearchSuper(h, c, search, inheritance, mixed, fatal) ==
    IF ~GoesOn(mixed, fatal) \/ c.super = NoClass \/ "superclass" \in inheritance THEN mixed
    ELSE Merge(mixed, SearchClass(h, h[c.super], search, SuperInheritance(h, c, inheritance),
                                  mixed.mode, fatal))

\* The mixins come behind what the lists of the class had
SearchRest(h, c, search, inheritance, own, fatal) ==
    IF own.mode \in {"overridden 2", "specific 2"} THEN Null(own, "EINVAL")
    ELSE IF own.status = "end" THEN [own EXCEPT !.status = "fail"]
    ELSE IF ~GoesOn(own, fatal) THEN own
    ELSE SearchSuper(h, c, search, inheritance,
             IF "protocols" \in inheritance THEN own
             ELSE Merge(own, SearchMixins(h, c, search, inheritance, own.mode, fatal)),
             fatal)

\* _mulle_objc_class_search_method_internal
MutSearchForgets(h, c, search, inheritance, mode, fatal) ==
    LET enter == EnterClass(mode, c, search)
        own == IF enter.skip THEN Start(mode)
               ELSE SearchLists(Start(enter.mode), c, search, inheritance, fatal)
        mixed == IF ~GoesOn(own, fatal) \/ "protocols" \in inheritance THEN own
                 ELSE Merge(own, SearchMixins(h, c, search, inheritance, own.mode, fatal))
    IN  IF ~GoesOn(mixed, fatal) \/ c.super = NoClass \/ "superclass" \in inheritance THEN mixed
        ELSE Merge(mixed, SearchClass(h, h[c.super], search,
                                      SuperInheritance(h, c, inheritance), mixed.mode, fatal))
SearchClass(h, c, search, inheritance, mode, fatal) ==
    LET enter == EnterClass(mode, c, search)
    IN  IF ~enter.skip /\ c.classid = search.stop
        THEN [Start(enter.mode) EXCEPT !.status = "null"]
        ELSE SearchRest(h, c, search, inheritance,
                 IF enter.skip THEN Start(enter.mode)
                 ELSE SearchLists(Start(enter.mode), c, search, inheritance, fatal),
                 fatal)

\* mulle_objc_class_search_method, for a class that is set up and with the
\* default method_is_missing, which changes nothing
search_method(h, c, search, inheritance, fatal) ==
    LET r == SearchClass(h, c, search, inheritance, search.mode, fatal)
    IN  IF r.mode \in {"previous", "super", "overridden"} THEN Null(r, "EINVAL")
        ELSE IF Found(r) THEN r ELSE [r EXCEPT !.status = "null"]

\* _mulle_objc_class_defaultsearch_method
defaultsearch_method(h, c) == search_method(h, c, make_default, c.inheritance, {})

\* mulle_objc_class_search_non_inherited_method
search_non_inherited_method(h, c) ==
    search_method(h, c, make_default, c.inheritance \cup {"superclass"}, {})

\* _mulle_objc_class_supersearch_method: [super foo] in a method of class id
supersearch_method(h, c, id) == search_method(h, c, make_super(id), c.inheritance, {})

\* _mulle_objc_class_search_forwardmethod: the class's own forward:, else the
\* universe's
search_forwardmethod(h, c, forwardmethod) ==
    LET r == defaultsearch_method(h, c) IN IF Found(r) THEN r.method ELSE forwardmethod

----------------------------------------------------------------------------
(* Loops over searches *)

\* The loops of _mulle_objc_infraclass_call_unload, ..._initialize_self and
\* ..._deinitialize_self: the method found, then the one it overrides, ...
RECURSIVE CallsFrom(_, _, _)
CallsFrom(h, c, search) ==
    LET r == search_method(h, c, search, {"superclass", "protocols"}, {})
    IN  IF Found(r) THEN <<r.method>> \o CallsFrom(h, c, make_previous(r.method)) ELSE <<>>

call_unload(h, c) == CallsFrom(h, c, make_default)

\* mulle_objc_class_clobberchain_for: every implementation in a class
RECURSIVE ClobberChain(_, _, _)
ClobberChain(h, c, search) ==
    LET r == search_method(h, c, search,
                           c.inheritance \cup {"superclass", "protocols", "protocol categories"},
                           {})
    IN  IF Found(r)
        THEN <<r.method>> \o ClobberChain(h, c, make_overridden(h[r.class].classid, r.cat))
        ELSE <<>>

clobberchain(h, c) == ClobberChain(h, c, make_default)

\* The methods reached by calling super in each method that is found, at most n.
\* A method of a root class has no super to call.
IsRoot(c) == c.super = NoClass /\ ~c.mixin
RECURSIVE SuperChain(_, _, _, _)
SuperChain(h, c, r, n) ==
    IF n = 0 \/ ~Found(r) THEN <<>>
    ELSE IF IsRoot(h[r.class]) THEN <<r.method>>
    ELSE <<r.method>> \o SuperChain(h, c, supersearch_method(h, c, h[r.class].classid), n - 1)

----------------------------------------------------------------------------
(* Walks over methods and method lists *)

Listed(c, lists) == [i \in DOMAIN lists |-> [class |-> c.name, cat |-> lists[i].cat,
                                              method |-> lists[i].method]]

\* _mulle_objc_class_walk_methods visits mixins first one first, unlike the
\* search, and takes the inheritance of the class along to its superclasses
RECURSIVE walk_methods(_, _, _)
walk_methods(h, c, inheritance) ==
    LET mixins == IF "protocols" \in inheritance THEN <<>> ELSE Reverse(Mixins(h, c))
        mixed(x) == x.inheritance \cup {"superclass"}
                    \cup (IF "protocol categories" \in inheritance THEN {"categories"} ELSE {})
    IN  Listed(c, VisitedLists(c.lists, inheritance))
        \o FlattenSeq([i \in DOMAIN mixins |-> walk_methods(h, mixins[i], mixed(mixins[i]))])
        \o (IF c.super = NoClass \/ "superclass" \in inheritance THEN <<>>
            ELSE walk_methods(h, h[c.super], inheritance))

\* _mulle_objc_class_lookup_method: the methods of the class itself
lookup_method(h, c) ==
    LET hits == SelectSeq(walk_methods(h, c, {"protocols", "superclass"}),
                          LAMBDA l : l.method # NoMethod)
    IN  IF hits = <<>> THEN NoMethod ELSE hits[1].method

\* _mulle_objc_class_protocol_walk_methodlists: all lists of the mixins, last
\* mixin first
WalkMixinLists(h, c) ==
    LET mixins == Mixins(h, c)
    IN  FlattenSeq([i \in DOMAIN mixins |-> Listed(mixins[i], Reverse(mixins[i].lists))])

\* The inheritance mulle_objc_class_methodlist_walk goes on with, from a root
\* metaclass to its infraclass
WalkInheritance(h, c, inheritance) ==
    IF ~c.meta \/ h[c.super].meta THEN inheritance
    ELSE {"protocols", "protocol meta"} \cup
         IF "superclass inheritance" \in inheritance THEN inheritance
         ELSE h[c.super].inheritance \cup {"superclass inheritance"}

\* mulle_objc_class_methodlist_walk
RECURSIVE methodlist_walk(_, _, _)
MutWalkForward(h, c, inheritance) ==
    Listed(c, SubSeq(c.lists, 1, IF "categories" \in inheritance THEN 1 ELSE Len(c.lists)))
    \o (IF "protocols" \in inheritance THEN <<>> ELSE WalkMixinLists(h, c))
    \o (IF c.super = NoClass \/ "superclass" \in inheritance THEN <<>>
        ELSE methodlist_walk(h, h[c.super], WalkInheritance(h, c, inheritance)))
methodlist_walk(h, c, inheritance) ==
    Listed(c, VisitedLists(c.lists, inheritance))
    \o (IF "protocols" \in inheritance THEN <<>> ELSE WalkMixinLists(h, c))
    \o (IF c.super = NoClass \/ "superclass" \in inheritance THEN <<>>
        ELSE methodlist_walk(h, h[c.super], WalkInheritance(h, c, inheritance)))

----------------------------------------------------------------------------
(* The order the documentation of the search gives, as one flat sequence *)

\* An entry for entering a class (cat is NoClass) and one for each of its lists
RECURSIVE Order(_, _, _)
Order(h, c, inheritance) ==
    LET mixins == IF "protocols" \in inheritance THEN <<>> ELSE Mixins(h, c)
        own == VisitedLists(c.lists, inheritance)
    IN  <<[class |-> c.name, classid |-> c.classid, cat |-> NoClass, method |-> NoMethod]>>
        \o [i \in DOMAIN own |-> [class |-> c.name, classid |-> c.classid, cat |-> own[i].cat,
                                  method |-> own[i].method]]
        \o FlattenSeq([i \in DOMAIN mixins |->
                          Order(h, mixins[i], MixinInheritance(mixins[i], inheritance))])
        \o (IF c.super = NoClass \/ "superclass" \in inheritance THEN <<>>
            ELSE Order(h, h[c.super], SuperInheritance(h, c, inheritance)))

\* The first entry with a method
First(s) == LET hits == SelectSeq(s, LAMBDA e : e.method # NoMethod)
            IN  IF hits = <<>> THEN NoMethod ELSE hits[1].method

\* The place of the first entry with P, 0 if there is none
At(s, P(_)) == SelectInSeq(s, P)

Rest(s, i) == SubSeq(s, i + 1, Len(s))

\* What each kind of search ought to find
ExpectedDefault(order, fatal) ==
    LET hits == SelectSeq(order, LAMBDA e : e.method # NoMethod)
    IN  IF Len(hits) > 1 /\ hits[1].method \in fatal THEN NoMethod ELSE First(order)

ExpectedSuper(order, id) ==
    LET i == At(order, LAMBDA e : e.cat = NoClass /\ e.classid = id)
        behind == Rest(order, i)
        j == At(behind, LAMBDA e : e.cat = NoClass)     \* the next class entered
    IN  IF i = 0 \/ j = 0 THEN NoMethod ELSE First(Rest(behind, j))

\* The place of a category in the first class entered with that id, 0 if none
CategoryAt(order, id, cat) ==
    LET i == At(order, LAMBDA e : e.cat = NoClass /\ e.classid = id)
        next == At(Rest(order, i), LAMBDA e : e.cat = NoClass)
        lists == SubSeq(order, i + 1, IF next = 0 THEN Len(order) ELSE i + next - 1)
        j == At(lists, LAMBDA e : e.cat = cat)
    IN  IF i = 0 \/ j = 0 THEN 0 ELSE i + j

ExpectedOverridden(order, id, cat) ==
    LET i == CategoryAt(order, id, cat)
    IN  IF i = 0 THEN NoMethod
        ELSE First(SelectSeq(Rest(order, i), LAMBDA e : ~(e.classid = id /\ e.cat = cat)))

ExpectedSpecific(order, id, cat) ==
    LET i == CategoryAt(order, id, cat) IN IF i = 0 THEN NoMethod ELSE order[i].method
=============================================================================
