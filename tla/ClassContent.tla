---------------------------- MODULE ClassContent ----------------------------
(***************************************************************************)
(* What a class pair holds besides its methods: ids of protocols and of    *)
(* categories in sorted arrays that are copied and exchanged without a     *)
(* lock, mixins, lists of properties with their accessors, and the cache   *)
(* for key value coding (kvc).  Threads add protocols and use the kvc cache*)
(* at any time; classes and categories are installed by one loader at a    *)
(* time, under the lock of the wait queues.  Freed memory is not reused    *)
(* while a thread may still look at it (abafree), so every array, cache and*)
(* kvcinfo has a number of its own here.                                   *)
(***************************************************************************)
EXTENDS Integers, Sequences, FiniteSets, SequencesExt, Bags, TLC

CONSTANTS Client, Loader,   \* threads
          Class, NoClass, Super,    \* infraclasses and the superclass of each
          ProtocolId,       \* class -> the id of the protocol of its name, or 0
          ProtocolLists,    \* sets of protocol ids that clients add
          Programs,         \* what may happen: operations of the loader, and how many of clients
          PropertyList, IvarList,   \* name -> sequence of properties, of instance variables
          Key, KeyId,       \* kvc keys, and the hash of each
          Adopters          \* the classes that clients add protocols to

\* Operations of the loader are records [op, class] and a list, an id or a mixin.
\* NoList is a NULL pointer, "empty" the universe's empty list.
NoList == ""
Thread == Client \cup {Loader}

ASSUME ClassAssumption ==
    /\ Super \in [Class -> Class \cup {NoClass}] /\ Adopters \subseteq Class /\ Loader \notin Client
    /\ {"empty"} \subseteq DOMAIN PropertyList \cap DOMAIN IvarList
ASSUME ProgramAssumption ==
    /\ KeyId \in [Key -> Nat]
    /\ \A p \in Programs : /\ p.ops \in Nat /\ p.todo \in Seq(ToSet(p.todo))
                          /\ \A o \in ToSet(p.todo) : o.class \in Class
ASSUME TreeAssumption ==
    /\ NoClass \notin Class
    /\ \A S \in (SUBSET Class) \ {{}} : \E c \in S : Super[c] \notin S
ASSUME IdAssumption ==
    /\ \A ps \in ProtocolLists : ps \subseteq Nat /\ IsFiniteSet(ps)
    /\ \A p \in Programs : \A o \in ToSet(p.todo) :
          /\ o.op = "protocols" => o.ids \subseteq Nat /\ IsFiniteSet(o.ids)
          /\ o.op = "category" => o.id \in Nat
    /\ IvarList["empty"] = <<>>
\* How the compiler has it: a mixin is a root class with the protocol of its own
\* name, which is added first; it has no instance variables and no other mixins
\* (_mulle_objc_loadmixin_enqueue).
ASSUME MixinAssumption ==
    \A p \in Programs : \A i \in DOMAIN p.todo : p.todo[i].op = "ismixin" =>
        LET x == p.todo[i].class
        IN  /\ Super[x] = NoClass
            /\ \E j \in 1..(i - 1) : /\ p.todo[j].op = "protocols" /\ p.todo[j].class = x
                                    /\ ProtocolId[x] \in p.todo[j].ids
            /\ \A o \in ToSet(p.todo) : o.class = x =>
                  /\ o.op # "mixin"
                  /\ o.op = "ivars" => o.list = NoList \/ IvarList[o.list] = <<>>

VARIABLES protocolids, categoryids, \* class -> array: its number and its ids
          ismixin,          \* classes with IS_MIXIN
          mixins,           \* class -> sequence of classes
          propertylists, ivarlists,     \* class -> sequence of lists
          classproperties, classvariables,  \* the same of the metaclass
          clearable,        \* classes with HAS_CLEARABLE_PROPERTY
          descriptors,      \* method ids with a descriptor
          propertyid,       \* universe->propertyidtable: method id -> property id
          caches, kvc,      \* all kvc caches by number, and the number of the current one
          gen,              \* method lists added to the class so far
          raced,            \* kvcinfos that were on their way into a cache that was dropped
          next,             \* the number of the next array or cache
          freed,            \* bag of the memory that was freed
          ops,              \* bound: operations that clients may yet begin
          todo,             \* what the loader has yet to do
          th,               \* thread -> its local variables
          state             \* "running", "failed", "done"

lists == <<propertylists, ivarlists, classproperties, classvariables, clearable, descriptors, propertyid>>
kvccache == <<caches, kvc, gen, raced>>
vars == <<protocolids, categoryids, ismixin, mixins, lists, kvccache, next, freed, ops, todo, th, state>>
content == <<categoryids, ismixin, mixins, lists, todo>>

NoInfo == [id |-> 0, key |-> "", gen |-> 0]
Idle == [pc |-> "idle", class |-> NoClass, ids |-> <<>>, array |-> 0, copy |-> <<>>,
         cache |-> 0, info |-> NoInfo]
empty_uniqueidarray == [at |-> 0, ids |-> <<>>]

----------------------------------------------------------------------------
(* Sorted arrays of ids *)

\* The binary search all sorted lists of the runtime share
\* (_mulle_objc_uniqueidarray_search)
bsearch(ids, id) ==
    LET search[r \in (1..(Len(ids) + 1)) \X (0..Len(ids))] ==
            LET middle == (r[1] + r[2]) \div 2
            IN  /\ r[1] <= r[2]
                /\ \/ ids[middle] = id
                   \/ ids[middle] < id /\ search[<<middle + 1, r[2]>>]
                   \/ ids[middle] > id /\ search[<<r[1], middle - 1>>]
    IN  search[<<1, Len(ids)>>]

\* qsort by counting: what is at i has less than i ids below it, and i that are not above
Below(s, x) == Cardinality({i \in DOMAIN s : s[i] < x})
UpTo(s, x) == Cardinality({i \in DOMAIN s : s[i] <= x})
qsort(s) == [i \in DOMAIN s |-> CHOOSE x \in ToSet(s) : Below(s, x) < i /\ i <= UpTo(s, x)]

\* _mulle_objc_uniqueidarray_by_adding_ids
MutAddUnsorted(ids, new) == ids \o new
by_adding_ids(ids, new) == qsort(ids \o new)

has_protocolid(c, p) == bsearch(protocolids[c].ids, p)
has_categoryid(c, p) == bsearch(categoryids[c].ids, p)

\* __mulle_objc_classpair_conformsto_protocolid and the walk over protocol ids
Lineage[c \in Class] == IF Super[c] = NoClass THEN <<c>> ELSE <<c>> \o Lineage[Super[c]]
conformsto_protocolid(c, p) == \E i \in DOMAIN Lineage[c] : has_protocolid(Lineage[c][i], p)
walk_protocolids(c) == FlattenSeq([i \in DOMAIN Lineage[c] |-> protocolids[Lineage[c][i]].ids])

Freeing(kind, n) == IF n = 0 THEN EmptyBag ELSE SetToBag({<<kind, n>>})

----------------------------------------------------------------------------
(* mulle_objc_classpair_add_protocollist_nofail, by any thread *)

Start(t) == state = "running" /\ th[t].pc = "idle" /\ ops > 0 /\ ops' = ops - 1
Load(op) == /\ state = "running" /\ th[Loader].pc = "idle"
            /\ todo # <<>> /\ Head(todo).op = op /\ todo' = Tail(todo)

\* Which protocols are new to the class?
NewProtocols(c, ps) ==
    [Idle EXCEPT !.pc = "copy", !.class = c,
        !.ids = SetToSeq({p \in ps : ~has_protocolid(c, p)})]
AddProtocols(t, c, ps) ==
    /\ Start(t)
    /\ th' = [th EXCEPT ![t] = NewProtocols(c, ps)]
    /\ UNCHANGED <<protocolids, kvccache, next, freed, state, content>>
LoadProtocols ==
    /\ Load("protocols")
    /\ th' = [th EXCEPT ![Loader] = NewProtocols(Head(todo).class, Head(todo).ids)]
    /\ UNCHANGED <<protocolids, categoryids, ismixin, mixins, lists, kvccache, next, freed, ops, state>>

\* _mulle_objc_classpair_add_uniqueidarray_ids: copy the array, then exchange it
\* unless another thread was faster
AddCopy(t) ==
    /\ th[t].pc = "copy"
    /\ LET a == protocolids[th[t].class]
       IN  th' = [th EXCEPT ![t].pc = "cas", ![t].array = a.at,
                            ![t].copy = by_adding_ids(a.ids, th[t].ids)]
    /\ UNCHANGED <<protocolids, kvccache, next, freed, ops, state, content>>

MutExchangeForgets(t) ==
    LET c == th[t].class
    IN  /\ th[t].pc = "cas"
        /\ IF protocolids[c].at = th[t].array
           THEN /\ protocolids' = [protocolids EXCEPT ![c] = [at |-> next, ids |-> th[t].copy]]
                /\ next' = next + 1
                /\ th' = [th EXCEPT ![t] = Idle]
           ELSE /\ th' = [th EXCEPT ![t].pc = "copy"]
                /\ UNCHANGED <<protocolids, next>>
        /\ UNCHANGED <<freed, kvccache, ops, state, content>>
AddExchange(t) ==
    LET c == th[t].class
    IN  /\ th[t].pc = "cas"
        /\ IF protocolids[c].at = th[t].array
           THEN /\ protocolids' = [protocolids EXCEPT ![c] = [at |-> next, ids |-> th[t].copy]]
                /\ freed' = freed (+) Freeing("array", th[t].array)
                /\ next' = next + 1
                /\ th' = [th EXCEPT ![t] = Idle]
           ELSE /\ th' = [th EXCEPT ![t].pc = "copy"]
                /\ UNCHANGED <<protocolids, next, freed>>
        /\ UNCHANGED <<kvccache, ops, state, content>>

----------------------------------------------------------------------------
(* The loader, under the lock of the wait queues *)

Installs == UNCHANGED <<protocolids, kvccache, ops, th>>

\* mulle_objc_classpair_add_categoryid_nofail; adding a category twice is fatal
AddCategory ==
    /\ Load("category")
    /\ LET c == Head(todo).class
           id == Head(todo).id
       IN  IF has_categoryid(c, id) THEN state' = "failed" /\ UNCHANGED <<categoryids, next, freed>>
           ELSE /\ categoryids' = [categoryids EXCEPT
                        ![c] = [at |-> next, ids |-> by_adding_ids(categoryids[c].ids, <<id>>)]]
                /\ freed' = freed (+) Freeing("array", categoryids[c].at)
                /\ next' = next + 1
                /\ UNCHANGED state
    /\ Installs /\ UNCHANGED <<ismixin, mixins, lists>>

\* The state bit of a class that was loaded as a mixin (mulle_objc_loadmixin_enqueue),
\* and what a mixin is to be: a root class without instance variables that adopts
\* its own protocol and no other mixins
SetMixin ==
    /\ Load("ismixin")
    /\ ismixin' = ismixin \cup {Head(todo).class}
    /\ Installs /\ UNCHANGED <<categoryids, mixins, lists, next, freed, state>>
has_ivars(c) == \E i \in DOMAIN ivarlists[c] : IvarList[ivarlists[c][i]] # <<>>
conforms_to_mixin(x) == Super[x] = NoClass /\ ~has_ivars(x) /\ conformsto_protocolid(x, ProtocolId[x])
                        /\ mixins[x] = <<>>

\* mulle_objc_classpair_add_mixinids_nofail; adding a mixin again is ignored
AddMixin ==
    /\ Load("mixin")
    /\ LET c == Head(todo).class
           x == Head(todo).mixin
       IN  IF x \notin ismixin THEN state' = "failed" /\ UNCHANGED mixins
           ELSE /\ mixins' = IF x \in ToSet(mixins[c]) THEN mixins
                             ELSE [mixins EXCEPT ![c] = Append(@, x)]
                /\ UNCHANGED state
    /\ Installs /\ UNCHANGED <<categoryids, ismixin, lists, next, freed>>

\* mulle_objc_infraclass_add_ivarlist: there is always a list, possibly an empty one
WithList(seq, list) == CASE list # NoList -> Append(seq, list)
                         [] list = NoList /\ seq = <<>> -> <<"empty">>
                         [] OTHER -> seq
AddIvarList ==
    /\ Load("ivars")
    /\ ivarlists' = [ivarlists EXCEPT ![Head(todo).class] = WithList(@, Head(todo).list)]
    /\ Installs /\ UNCHANGED <<categoryids, ismixin, mixins, propertylists, classproperties, classvariables,
                               clearable, descriptors, propertyid, next, freed, state>>

\* The accessors of a property
Accessors(p) == {p.getter, p.setter} \ {""}

\* _mulle_objc_universe_register_descriptors_for_property: a dynamic property gets
\* descriptors for the accessors that have none.  The one made for a getter has
\* the id of the property.
MadeDescriptors(p) ==
    IF ~p.dynamic THEN {}
    ELSE (IF p.getter \notin descriptors THEN {p.name} ELSE {})
         \cup ({p.setter} \ (descriptors \cup {""}))

\* mulle_objc_universe_register_propertyid_for_methodid_nofail
Clash(list) ==
    \E i \in DOMAIN list : \E m \in Accessors(list[i]) :
        \/ m \in DOMAIN propertyid /\ propertyid[m] # list[i].id
        \/ \E j \in DOMAIN list : list[j].id # list[i].id /\ m \in Accessors(list[j])
Sorted(list) == \A i, j \in DOMAIN list : i < j => list[i].id <= list[j].id

Distinct(list) == \A i, j \in DOMAIN list : list[i].id = list[j].id => i = j

\* What the compiler and the loader see to: no list has an id twice, which nothing
\* checks, and lists of instance variables are sorted (_mulle_objc_loadclass_sort_lists).
ASSUME ListAssumption ==
    /\ \A l \in DOMAIN PropertyList :
          /\ PropertyList[l] \in Seq(ToSet(PropertyList[l])) /\ Distinct(PropertyList[l])
          /\ \A p \in ToSet(PropertyList[l]) : p.id \in Nat
    /\ \A l \in DOMAIN IvarList :
          /\ IvarList[l] \in Seq(ToSet(IvarList[l])) /\ Distinct(IvarList[l]) /\ Sorted(IvarList[l])
          /\ \A v \in ToSet(IvarList[l]) : v.id \in Nat
    /\ PropertyList["empty"] = <<>>
    /\ \A p \in Programs : \A o \in ToSet(p.todo) :
          /\ o.op \in {"properties", "classproperties"} => o.list \in DOMAIN PropertyList \cup {NoList}
          /\ o.op \in {"ivars", "classvariables"} => o.list \in DOMAIN IvarList \cup {NoList}

MutRegistered(owner) == propertyid
Registered(owner) == [m \in DOMAIN propertyid \cup DOMAIN owner |->
                         IF m \in DOMAIN propertyid THEN propertyid[m] ELSE owner[m]]

\* mulle_objc_infraclass_add_propertylist_nofail and, in the class, the method
\* list that comes with it, if it has the accessors
AddPropertyList ==
    LET c == Head(todo).class
        list == PropertyList[Head(todo).list]
        accessors == UNION {Accessors(list[i]) : i \in DOMAIN list}
        owner == [m \in accessors |-> (CHOOSE p \in ToSet(list) : m \in Accessors(p)).id]
    IN  /\ Load("properties")
        /\ \/ /\ Head(todo).list = NoList
              /\ propertylists' = [propertylists EXCEPT ![c] = WithList(@, NoList)]
              /\ UNCHANGED <<state, clearable, descriptors, propertyid>>
           \/ /\ Head(todo).list # NoList /\ (~Sorted(list) \/ Clash(list))
              /\ state' = "failed"
              /\ UNCHANGED <<propertylists, clearable, descriptors, propertyid>>
           \/ /\ Head(todo).list # NoList /\ Sorted(list) /\ ~Clash(list)
              /\ clearable' = clearable \cup {d \in {c} : \E i \in DOMAIN list : list[i].clearable}
              /\ descriptors' = descriptors \cup UNION {MadeDescriptors(list[i]) : i \in DOMAIN list}
              /\ propertyid' = Registered(owner)
              /\ propertylists' = [propertylists EXCEPT ![c] = WithList(@, Head(todo).list)]
              /\ UNCHANGED state
        /\ Installs
        /\ UNCHANGED <<categoryids, ismixin, mixins, ivarlists, classproperties, classvariables, next, freed>>

\* mulle_objc_metaclass_add_propertylist and ..._add_ivarlist: only lists with
\* something in them are kept, and nothing is registered
AddClassProperties ==
    /\ Load("classproperties")
    /\ LET c == Head(todo).class
           list == Head(todo).list
       IN  \/ list = NoList /\ UNCHANGED <<classproperties, state>>
           \/ list # NoList /\ ~Sorted(PropertyList[list]) /\ state' = "failed" /\ UNCHANGED classproperties
           \/ /\ list # NoList /\ Sorted(PropertyList[list])
              /\ classproperties' = [classproperties EXCEPT ![c] = Append(@, list)]
              /\ UNCHANGED state
    /\ Installs
    /\ UNCHANGED <<categoryids, ismixin, mixins, ivarlists, propertylists, classvariables, clearable,
                   descriptors, propertyid, next, freed>>
AddClassVariables ==
    /\ Load("classvariables")
    /\ LET list == Head(todo).list
       IN  classvariables' = IF list = NoList \/ IvarList[list] = <<>> THEN classvariables
                             ELSE [classvariables EXCEPT ![Head(todo).class] = Append(@, list)]
    /\ Installs
    /\ UNCHANGED <<categoryids, ismixin, mixins, ivarlists, propertylists, classproperties, clearable,
                   descriptors, propertyid, next, freed, state>>

\* All the items of a class's lists, the last list first, then those of its
\* superclasses (_mulle_objc_infraclass_walk_properties, ..._walk_ivars)
Walk(c, lists_of, Items) ==
    LET names == FlattenSeq([i \in DOMAIN Lineage[c] |-> Reverse(lists_of[Lineage[c][i]])])
    IN  FlattenSeq([i \in DOMAIN names |-> Items[names[i]]])
walk_properties(c) == Walk(c, propertylists, PropertyList)
walk_ivars(c) == Walk(c, ivarlists, IvarList)
walk_categoryids(c) == FlattenSeq([i \in DOMAIN Lineage[c] |-> categoryids[Lineage[c][i]].ids])
walk_mixins(c) == FlattenSeq([i \in DOMAIN Lineage[c] |-> mixins[Lineage[c][i]]])

\* What is found, a sequence of one item or none, for the first of a sequence for
\* which anything is
FirstFound(seq, found) ==
    LET hits == {i \in DOMAIN seq : found[seq[i]] # <<>>}
    IN  IF hits = {} THEN <<>> ELSE found[seq[CHOOSE i \in hits : \A j \in hits : i <= j]]
FirstIn(seq, X) == FirstFound(seq, [x \in ToSet(seq) |-> IF x \in X THEN <<x>> ELSE <<>>])
WithId(list, id) == FirstIn(list, {x \in ToSet(list) : x.id = id})

\* A search looks into one list after the other, in each with a binary search
Ids(list) == [i \in DOMAIN list |-> list[i].id]
property_bsearch(list, id) == IF bsearch(Ids(list), id) THEN WithId(list, id) ELSE <<>>
ivar_bsearch(list, id) == IF bsearch(Ids(list), id) THEN WithId(list, id) ELSE <<>>
In_properties(seq, id) ==
    FirstFound(Reverse(seq), [l \in DOMAIN PropertyList |-> property_bsearch(PropertyList[l], id)])
In_ivars(seq, id) ==
    FirstFound(Reverse(seq), [l \in DOMAIN IvarList |-> ivar_bsearch(IvarList[l], id)])
search_property(c, id) == FirstFound(Lineage[c], [d \in Class |-> In_properties(propertylists[d], id)])
search_ivar(c, id) == FirstFound(Lineage[c], [d \in Class |-> In_ivars(ivarlists[d], id)])
metaclass_search_property(c, id) == In_properties(classproperties[c], id)
metaclass_search_ivar(c, id) == In_ivars(classvariables[c], id)
find_property_for_methodid(c, m) ==
    FirstIn(walk_properties(c), {p \in ToSet(walk_properties(c)) : m \in Accessors(p)})

----------------------------------------------------------------------------
(* The kvc cache *)

NewCache(size) == [size |-> size, n |-> 0,
                   slot |-> [i \in 0..(size - 1) |-> [key |-> 0, info |-> NoInfo]]]
empty_cache == 0    \* the number of universe->empty_cache

\* The slot a probe for a hash stops at
Probe(cache, hash) ==
    LET at(i) == (hash + i) % cache.size
        stops == {i \in 0..(cache.size - 1) : cache.slot[at(i)].key \in {hash, 0}}
    IN  at(CHOOSE i \in stops : \A j \in stops : i <= j)

\* _mulle_objc_class_lookup_kvcinfo.  On a miss the caller makes a kvcinfo out of
\* the methods of the class and sets it; an info for another key with the same
\* hash is a conflict.
Lookup(t, key) ==
    /\ Start(t)
    /\ LET hit == caches[kvc].slot[Probe(caches[kvc], KeyId[key])]
       IN  IF hit.key = KeyId[key] THEN UNCHANGED th
           ELSE th' = [th EXCEPT ![t] = [Idle EXCEPT !.pc = "set",
                                         !.info = [id |-> ops, key |-> key, gen |-> gen]]]
    /\ UNCHANGED <<protocolids, kvccache, next, freed, state, content>>

\* _mulle_objc_kvccachepivot_set_kvcinfo: replace a cache that is half full
SetRead(t) ==
    /\ th[t].pc = "set"
    /\ th' = [th EXCEPT ![t].cache = kvc,
                        ![t].pc = IF caches[kvc].n >= caches[kvc].size \div 2 THEN "swap" ELSE "claim"]
    /\ UNCHANGED <<protocolids, kvccache, next, freed, ops, state, content>>

\* _mulle_objc_kvccachepivot_add_cacheentry_by_swapping_caches
Swap(t) ==
    LET info == th[t].info
        new == NewCache(2 * caches[th[t].cache].size)
        filled == [new EXCEPT !.n = 1, !.slot[Probe(new, KeyId[info.key])] =
                                           [key |-> KeyId[info.key], info |-> info]]
    IN  /\ th[t].pc = "swap"
        /\ IF kvc # th[t].cache THEN th' = [th EXCEPT ![t].pc = "set"] /\ UNCHANGED <<caches, kvc, next>>
           ELSE /\ caches' = [n \in DOMAIN caches \cup {next} |-> IF n = next THEN filled ELSE caches[n]]
                /\ kvc' = next /\ next' = next + 1
                /\ th' = [th EXCEPT ![t] = IF @.cache = empty_cache THEN Idle
                                           ELSE [@ EXCEPT !.pc = "free", !.info = NoInfo]]
        /\ UNCHANGED <<protocolids, gen, raced, freed, ops, state, content>>

\* _mulle_objc_cache_add_pointer_entry: the value first, if the slot is free, then
\* the count and the key
Claim(t) ==
    LET info == th[t].info
        cache == caches[th[t].cache]
        i == Probe(cache, KeyId[info.key])
    IN  /\ th[t].pc = "claim"
        /\ IF cache.slot[i].info # NoInfo THEN th' = [th EXCEPT ![t] = Idle] /\ UNCHANGED caches
           ELSE /\ caches' = [caches EXCEPT ![th[t].cache].slot[i].info = info]
                /\ th' = [th EXCEPT ![t].pc = "key"]
        /\ UNCHANGED <<protocolids, kvc, gen, raced, next, freed, ops, state, content>>
SetKey(t) ==
    LET cache == caches[th[t].cache]
        i == CHOOSE j \in DOMAIN cache.slot : cache.slot[j].info = th[t].info
    IN  /\ th[t].pc = "key"
        /\ caches' = [caches EXCEPT ![th[t].cache].n = @ + 1,
                                    ![th[t].cache].slot[i].key = KeyId[th[t].info.key]]
        /\ th' = [th EXCEPT ![t] = Idle]
        /\ UNCHANGED <<protocolids, kvc, gen, raced, next, freed, ops, state, content>>

\* mulle_objc_class_add_methodlist, then the invalidation of the kvc cache
AddMethods(t) ==
    /\ Start(t)
    /\ gen' = gen + 1
    /\ th' = [th EXCEPT ![t] = [Idle EXCEPT !.pc = "invalidate"]]
    /\ UNCHANGED <<protocolids, caches, kvc, raced, next, freed, state, content>>

\* _mulle_objc_kvccachepivot_invalidate
InFlight == {th[t].info.id : t \in {u \in Thread : th[u].pc \in {"set", "swap", "claim", "key"}}}
MutInvalidateEmpty(t) ==
    /\ th[t].pc = "invalidate"
    /\ th' = [th EXCEPT ![t] = Idle]
    /\ raced' = raced \cup InFlight
    /\ UNCHANGED <<protocolids, caches, kvc, gen, next, freed, ops, state, content>>
Invalidate(t) ==
    /\ th[t].pc = "invalidate"
    /\ kvc' = empty_cache
    /\ th' = [th EXCEPT ![t] = IF kvc = empty_cache THEN Idle
                               ELSE [Idle EXCEPT !.pc = "free", !.cache = kvc]]
    /\ raced' = raced \cup InFlight
    /\ UNCHANGED <<protocolids, caches, gen, next, freed, ops, state, content>>

\* _mulle_objc_kvccache_abafree: a cache with the infos it has by now
Infos(n) == {caches[n].slot[i].info.id : i \in DOMAIN caches[n].slot} \ {0}
CacheMemory(n) == IF n = empty_cache THEN EmptyBag
                  ELSE SetToBag({<<"cache", n>>} \cup {<<"info", id>> : id \in Infos(n)})
Free(t) ==
    /\ th[t].pc = "free"
    /\ freed' = freed (+) CacheMemory(th[t].cache)
    /\ th' = [th EXCEPT ![t] = Idle]
    /\ UNCHANGED <<protocolids, kvccache, next, ops, state, content>>

\* _mulle_objc_classpair_free, when the universe is torn down and no thread is left
Done ==
    /\ \A t \in Thread : th[t] = Idle
    /\ ops = 0 /\ todo = <<>>
    /\ LET arrays == {protocolids[c].at : c \in Class} \cup {categoryids[c].at : c \in Class}
       IN  freed' = freed (+) SetToBag({<<"array", n>> : n \in arrays \ {0}}) (+) CacheMemory(kvc)
    /\ protocolids' = [c \in Class |-> empty_uniqueidarray]
    /\ categoryids' = [c \in Class |-> empty_uniqueidarray]
    /\ kvc' = empty_cache
    /\ state' = "done"
    /\ UNCHANGED <<ismixin, mixins, lists, caches, gen, raced, next, ops, todo, th>>

----------------------------------------------------------------------------
Init ==
    /\ protocolids = [c \in Class |-> empty_uniqueidarray]
    /\ categoryids = [c \in Class |-> empty_uniqueidarray]
    /\ ismixin = {} /\ mixins = [c \in Class |-> <<>>]
    /\ propertylists = [c \in Class |-> <<>>] /\ ivarlists = [c \in Class |-> <<>>]
    /\ classproperties = [c \in Class |-> <<>>] /\ classvariables = [c \in Class |-> <<>>]
    /\ clearable = {} /\ descriptors = {} /\ propertyid = << >>
    /\ caches = [n \in {empty_cache} |-> NewCache(1)] /\ kvc = empty_cache
    /\ gen = 0 /\ raced = {} /\ next = 1 /\ freed = EmptyBag
    /\ \E p \in Programs : todo = p.todo /\ ops = p.ops
    /\ th = [t \in Thread |-> Idle]
    /\ state = "running"

\* A failure ends the program
Next ==
    /\ state = "running"
    /\ \/ \E t \in Client :
            \/ \E c \in Adopters, ps \in ProtocolLists : AddProtocols(t, c, ps)
            \/ \E key \in Key : Lookup(t, key)
            \/ AddMethods(t)
            \/ SetRead(t) \/ Swap(t) \/ Claim(t) \/ SetKey(t)
            \/ Invalidate(t) \/ Free(t)
       \/ \E t \in Thread : AddCopy(t) \/ AddExchange(t)
       \/ LoadProtocols \/ AddCategory \/ SetMixin \/ AddMixin \/ AddIvarList \/ AddPropertyList
       \/ AddClassProperties \/ AddClassVariables
       \/ Done

Spec == Init /\ [][Next]_vars

----------------------------------------------------------------------------
\* However many threads add ids at the same time, what is in an array is found: the
\* binary search, a walk, and a check for conformance, also of a subclass, agree
\* (classpair.c 325-436, 641-711).  A class that others use as a mixin is what a
\* mixin is to be (infraclass.c 837-947).
IdsArrive ==
    state = "running" =>
        \A c \in Class :
            /\ \A p \in UNION ProtocolLists : conformsto_protocolid(c, p) <=> p \in ToSet(walk_protocolids(c))
            /\ \A id \in ToSet(walk_categoryids(c)) :
                  \E i \in DOMAIN Lineage[c] : has_categoryid(Lineage[c][i], id)
            /\ \A x \in ToSet(walk_mixins(c)) : conforms_to_mixin(x)

\* No memory is freed twice, none that a class still points to is freed, and in
\* the end all arrays and caches are freed.  Only a kvcinfo that comes too late
\* for its cache is lost (kvccache.c 60-200, classpair.c 325-363).
FreedOnce ==
    LET live == {<<"array", protocolids[c].at>> : c \in Class}
                \cup {<<"array", categoryids[c].at>> : c \in Class}
                \cup {<<"cache", kvc>>} \cup {<<"info", id>> : id \in Infos(kvc)}
    IN  /\ \A x \in BagToSet(freed) : freed[x] = 1
        /\ BagToSet(freed) \cap live = {}
        /\ state = "done" => \A n \in 1..(next - 1) :
              \E kind \in {"array", "cache"} : <<kind, n>> \in BagToSet(freed)

\* Outside of an invalidation, a kvcinfo that is older than the methods of the
\* class was on its way into the cache while methods were added, and stays there
\* (class.c 309-322).
StaleOnlyInFlight ==
    (\A t \in Thread : th[t].pc # "invalidate") =>
        \A i \in DOMAIN caches[kvc].slot :
            LET info == caches[kvc].slot[i].info
            IN  info = NoInfo \/ info.gen = gen \/ info.id \in raced

\* The table of accessors and the property lists agree: the property an accessor
\* is registered for is the one a class that has it finds, and the accessors of a
\* dynamic property have descriptors, unless its getter has a name of its own
\* (infraclass.c 405-485).  What a search by id finds, of a class or of its
\* metaclass, is what a walk comes across first (infraclass.c 134-171, 592-723).
PropertiesAgree ==
    \A c \in Class :
        /\ \A i \in DOMAIN propertylists[c] : \A p \in ToSet(PropertyList[propertylists[c][i]]) :
              /\ search_property(c, p.id)[1] = WithId(walk_properties(c), p.id)[1]
              /\ \A m \in Accessors(p) :
                    /\ m \in DOMAIN propertyid
                    /\ find_property_for_methodid(c, m)[1].id = propertyid[m]
                    /\ search_property(c, propertyid[m])[1].id = p.id
                    /\ p.dynamic /\ (m = p.getter => m = p.name) => m \in descriptors
              /\ p.clearable => c \in clearable
        /\ \A v \in ToSet(walk_ivars(c)) : search_ivar(c, v.id)[1] = WithId(walk_ivars(c), v.id)[1]
        /\ \A i \in DOMAIN classproperties[c] : \A p \in ToSet(PropertyList[classproperties[c][i]]) :
              metaclass_search_property(c, p.id) # <<>>
        /\ \A i \in DOMAIN classvariables[c] : \A v \in ToSet(IvarList[classvariables[c][i]]) :
              metaclass_search_ivar(c, v.id) # <<>>
=============================================================================
