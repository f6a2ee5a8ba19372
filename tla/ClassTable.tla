----------------------------- MODULE ClassTable -----------------------------
(***************************************************************************)
(* The classes of a universe: the class table, which owns them, the class  *)
(* cache in front of it, which every thread fills without a lock, the fast *)
(* classes, and what takes classes away again: removal and posing.         *)
(*                                                                         *)
(* A classid is <<name, depth>>: the hash of the name with depth many "%"  *)
(* in front, which posing makes up for the class posed away.  A step of a  *)
(* lookup or a registration is one access of shared memory.  A walk along  *)
(* the slots of a cache is one step: slots it passes are final.            *)
(***************************************************************************)
EXTENDS Integers, Sequences, FiniteSets

CONSTANTS
    Thread,
    Class,
    Name,           \* the names of classes
    NameOf,         \* the name of every class
    Super,          \* the superclass of every class that has one
    FastIndex,      \* the index of every name that is a fast class
    Hash,           \* the hash of every name
    MinCacheSize,   \* MULLE_OBJC_MIN_CACHE_SIZE
    LookupId,       \* the ids that are looked up
    MaxDepth,       \* how many "%" posing tries
    MaxLookups,     \* bound: lookups
    MaxPoses,       \* bound: classes posing
    MaxRemoves,     \* bound: classes removed
    NoClass

ASSUME ClassAssumption == /\ NoClass \notin Class /\ NameOf \in [Class -> Name]
                          /\ DOMAIN Super \subseteq Class
\* The loader finds a superclass under its name
ASSUME SuperAssumption ==
    \A c \in DOMAIN Super : /\ Super[c] \in Class
                            /\ \A d \in Class : NameOf[d] = NameOf[Super[c]] => d = Super[c]
ASSUME CacheAssumption == MinCacheSize \in Nat \ {0} /\ Hash \in [Name -> Nat]
ASSUME BoundAssumption == {MaxDepth, MaxLookups, MaxPoses, MaxRemoves} \subseteq Nat

VARIABLES
    classtable,     \* universe->classtable
    classindex,     \* universe->classindex
    indexof,        \* the classindex of every class pair
    fastclasstable, \* universe->fastclasstable
    caches,         \* every class cache there was; the first is empty_cache
    pivot,          \* universe->cachepivot, an index of caches
    freed,          \* class caches handed to the allocator
    pc, arg, infra, at, retry,  \* a thread: place, argument, class, cache slot, second turn
    result,         \* what its last lookup returned
    wanted,         \* history: who was registered when its last lookup began
    lookups, poses, removes,
    known,          \* history: classes handed to the universe
    victims,        \* history: <<classid, class posed away>>
    removed         \* history: classes taken back

locals  == <<pc, arg, infra, at, retry, result, wanted>>
classes == <<classtable, classindex, indexof, fastclasstable>>
cache   == <<caches, pivot, freed>>
history == <<lookups, poses, removes, known, victims, removed>>
vars    == <<classes, cache, locals, history>>

----------------------------------------------------------------------------
Id == Name \X (0..MaxDepth)

ASSUME LookupAssumption == LookupId \subseteq Id

classid(c) == <<NameOf[c], 0>>

FastId == {<<n, 0>> : n \in DOMAIN FastIndex}

NoSlot == [key |-> <<>>, value |-> NoClass]

\* mulle_objc_cache_new
NewCache(size) == [size |-> size, n |-> 0, entries |-> [i \in 0..(size - 1) |-> NoSlot]]

\* The cache a universe has from calloc: no size, room for one entry
empty_cache == [size |-> 0, n |-> 0, entries |-> [i \in {0} |-> NoSlot]]

\* _mulle_objc_cache_should_grow without a fill rate
should_grow(c) == c.n * 3 >= c.size

\* The slots of a cache in the order a walk for id meets them
Walk(c, id) ==
    LET m == Cardinality(DOMAIN c.entries)
    IN  [i \in 1..m |-> (Hash[id[1]] + id[2] + i - 1) % m]

HasNoKey(e) == e.key = <<>>
HasNoValue(e) == e.value = NoClass

\* Where a walk for id ends: at its key or at the first of the free slots
WalkTo(c, id, free) ==
    LET w == Walk(c, id)
        stops == {i \in DOMAIN w : c.entries[w[i]].key = id \/ w[i] \in free}
    IN  w[CHOOSE i \in stops : \A j \in stops : i <= j]

\* _mulle_objc_universe_probe_infraclass_inline_nofast
probe_infraclass(c, id) ==
    LET free == {i \in DOMAIN c.entries : HasNoKey(c.entries[i])}
        e == c.entries[WalkTo(c, id, free)]
    IN  IF e.key = id THEN e.value ELSE NoClass

\* _mulle_objc_cache_probe_entryoffset
probe_entryoffset(c, id) ==
    WalkTo(c, id, {i \in DOMAIN c.entries : HasNoValue(c.entries[i])})

Goto(t, label) == pc' = [pc EXCEPT ![t] = label]

\* A thread that is done has no use for its locals.
Leave(t) ==
    /\ infra' = [infra EXCEPT ![t] = NoClass]
    /\ at' = [at EXCEPT ![t] = <<>>]
    /\ retry' = [retry EXCEPT ![t] = FALSE]
    /\ Goto(t, "idle")

Return(t, c) == result' = [result EXCEPT ![t] = c] /\ Leave(t)

Stay(t, label) == Goto(t, label) /\ UNCHANGED <<infra, at, retry, result>>

----------------------------------------------------------------------------
(* Looking a class up *)

\* _mulle_objc_universe_lookup_infraclass_inline: fast classes are asked for in
\* their table only.
Lookup(t, id) ==
    /\ pc[t] = "idle"
    /\ lookups < MaxLookups /\ lookups' = lookups + 1
    /\ wanted' = [wanted EXCEPT ![t] = classtable[id]]
    /\ arg' = [arg EXCEPT ![t] = id]
    /\ IF id \in FastId
       THEN Return(t, fastclasstable[FastIndex[id[1]]])
       ELSE Stay(t, "probe")
    /\ UNCHANGED <<classes, cache, poses, removes, known, victims, removed>>

\* _mulle_objc_universe_lookup_infraclass_inline_nofast
Probe(t) ==
    /\ pc[t] = "probe"
    /\ LET c == probe_infraclass(caches[pivot], arg[t])
       IN  IF c # NoClass THEN Return(t, c) ELSE Stay(t, "table")
    /\ UNCHANGED <<classes, cache, arg, wanted, history>>

\* _mulle_objc_universe_refresh_classcache: the table, and if that fails once
\* more after class_is_missing.
ReadTable(t) ==
    /\ pc[t] = "table"
    /\ \/ /\ classtable[arg[t]] # NoClass
          /\ infra' = [infra EXCEPT ![t] = classtable[arg[t]]]
          /\ Goto(t, "fill")
          /\ UNCHANGED <<at, retry, result>>
       \/ classtable[arg[t]] = NoClass /\ retry[t] /\ Return(t, NoClass)
       \/ classtable[arg[t]] = NoClass /\ ~retry[t] /\ Stay(t, "missing")
    /\ UNCHANGED <<classes, cache, arg, wanted, history>>

\* What the callback does (it may load a library, others may register
\* meanwhile) happens before it returns
ClassIsMissing(t, nochange) ==
    /\ pc[t] = "missing"
    /\ \/ nochange /\ Return(t, NoClass)
       \/ /\ ~nochange
          /\ retry' = [retry EXCEPT ![t] = TRUE]
          /\ Goto(t, "table")
          /\ UNCHANGED <<infra, at, result>>
    /\ UNCHANGED <<classes, cache, arg, wanted, history>>

\* _mulle_objc_universe_fill_classcache: the class goes into the cache under its
\* own id, not the one that was looked up.
FillRead(t) ==
    /\ pc[t] = "fill"
    /\ at' = [at EXCEPT ![t] = <<pivot>>]
    /\ Goto(t, "grow?")
    /\ UNCHANGED <<classes, cache, arg, infra, retry, result, wanted, history>>

FillCheck(t) ==
    /\ pc[t] = "grow?"
    /\ Goto(t, IF should_grow(caches[at[t][1]]) THEN "swap" ELSE "offset")
    /\ UNCHANGED <<classes, cache, arg, infra, at, retry, result, wanted, history>>

\* The bigger cache, which holds the class already
Seeded(old, c) ==
    LET size == IF old.size * 2 < MinCacheSize THEN MinCacheSize ELSE old.size * 2
        new == NewCache(size)
        slot == probe_entryoffset(new, classid(c))
    IN  [size |-> size, n |-> 1,
         entries |-> [new.entries EXCEPT ![slot] = [key |-> classid(c), value |-> c]]]

\* _mulle_objc_universe_add_classcacheentry_swapcaches: the loser frees its own
\* cache and starts over, the winner frees the old one.
SwapCaches(t) ==
    /\ pc[t] = "swap"
    /\ IF pivot = at[t][1]
       THEN /\ caches' = Append(caches, Seeded(caches[pivot], infra[t]))
            /\ pivot' = Len(caches) + 1
            /\ freed' = IF pivot = 1 THEN freed ELSE Append(freed, pivot)
            /\ Return(t, infra[t])
       ELSE Stay(t, "fill") /\ UNCHANGED cache
    /\ UNCHANGED <<classes, arg, wanted, history>>

\* _mulle_objc_cache_add_pointer_entry, access by access
AddProbe(t) ==
    /\ pc[t] = "offset"
    /\ at' = [at EXCEPT ![t] =
                 <<@[1], probe_entryoffset(caches[@[1]], classid(infra[t]))>>]
    /\ Goto(t, "add")
    /\ UNCHANGED <<classes, cache, arg, infra, retry, result, wanted, history>>

entry(t) == caches[at[t][1]].entries[at[t][2]]

AddValue(t) ==
    /\ pc[t] = "add"
    /\ IF HasNoValue(entry(t))
       THEN /\ caches' = [caches EXCEPT ![at[t][1]].entries[at[t][2]].value = infra[t]]
            /\ Goto(t, "count")
       ELSE Goto(t, "taken") /\ UNCHANGED caches
    /\ UNCHANGED <<classes, pivot, freed, arg, infra, at, retry, result, wanted, history>>

\* Whoever was quicker did it for us, or we try again.
MutTakenGivesUp(t) ==
    /\ pc[t] = "taken"
    /\ Return(t, IF entry(t).key = classid(infra[t]) THEN entry(t).value ELSE NoClass)
    /\ UNCHANGED <<classes, cache, arg, wanted, history>>
AddTaken(t) ==
    /\ pc[t] = "taken"
    /\ IF entry(t).key = classid(infra[t])
       THEN Return(t, entry(t).value)
       ELSE Stay(t, "fill")
    /\ UNCHANGED <<classes, cache, arg, wanted, history>>

AddCount(t) ==
    /\ pc[t] = "count"
    /\ caches' = [caches EXCEPT ![at[t][1]].n = @ + 1]
    /\ Goto(t, "key")
    /\ UNCHANGED <<classes, pivot, freed, arg, infra, at, retry, result, wanted, history>>

AddKey(t) ==
    /\ pc[t] = "key"
    /\ caches' = [caches EXCEPT ![at[t][1]].entries[at[t][2]].key = classid(infra[t])]
    /\ Return(t, entry(t).value)
    /\ UNCHANGED <<classes, pivot, freed, arg, wanted, history>>

----------------------------------------------------------------------------
(* Registering a class *)

\* The loader makes a class pair, which takes its place among the fast classes
\* first; then mulle_objc_universe_register_infraclass checks the superclass.
Register(t, c) ==
    /\ pc[t] = "idle" /\ c \notin known
    /\ known' = known \cup {c}
    /\ infra' = [infra EXCEPT ![t] = c]
    /\ IF classid(c) \in FastId
       THEN /\ fastclasstable[FastIndex[NameOf[c]]] = NoClass
            /\ fastclasstable' = [fastclasstable EXCEPT ![FastIndex[NameOf[c]]] = c]
       ELSE UNCHANGED fastclasstable
    /\ Goto(t, "super")
    /\ UNCHANGED <<classtable, classindex, indexof, cache, arg, at, retry, result, wanted,
                   lookups, poses, removes, victims, removed>>

RegisterSuper(t) ==
    /\ pc[t] = "super"
    /\ LET c == infra[t]
       IN  IF c \in DOMAIN Super /\ classtable[classid(Super[c])] = NoClass
           THEN Leave(t) /\ UNCHANGED result        \* EFAULT
           ELSE Stay(t, "index")
    /\ UNCHANGED <<classes, cache, arg, wanted, history>>

RegisterIndex(t) ==
    /\ pc[t] = "index"
    /\ classindex' = classindex + 1
    /\ indexof' = [indexof EXCEPT ![infra[t]] = classindex]
    /\ Goto(t, "insert")
    /\ UNCHANGED <<classtable, fastclasstable, cache, arg, infra, at, retry, result, wanted,
                   history>>

\* _mulle_objc_universe_register_infraclass_for_classid: first come, first served
RegisterInsert(t) ==
    /\ pc[t] = "insert"
    /\ classtable' = IF classtable[classid(infra[t])] = NoClass
                     THEN [classtable EXCEPT ![classid(infra[t])] = infra[t]]
                     ELSE classtable                \* EEXIST
    /\ Leave(t)
    /\ UNCHANGED <<classindex, indexof, fastclasstable, cache, arg, result, wanted, history>>

----------------------------------------------------------------------------
(* Taking classes away, with no other thread about *)

Alone == \A t \in Thread : pc[t] = "idle"

Registered == {c \in Class : \E id \in Id : classtable[id] = c}

\* _mulle_objc_universe_invalidate_classcache
MutInvalidateEmpty ==
    /\ pivot' = 1 /\ freed' = Append(freed, pivot) /\ UNCHANGED caches
InvalidateClasscache ==
    /\ pivot' = 1
    /\ freed' = IF pivot = 1 THEN freed ELSE Append(freed, pivot)
    /\ UNCHANGED caches

\* mulle_objc_universe_remove_infraclass; fast classes leave their table, but
\* for the one with index 0.
Remove(c) ==
    /\ Alone
    /\ removes < MaxRemoves /\ removes' = removes + 1
    /\ {id \in Id : classtable[id] = c} = {classid(c)}
    /\ \A s \in Registered \cap DOMAIN Super : Super[s] # c
    /\ classtable' = [classtable EXCEPT ![classid(c)] = NoClass]
    /\ InvalidateClasscache
    /\ fastclasstable' = [i \in DOMAIN fastclasstable |->
                             IF i > 0 /\ classid(c) \in FastId /\ i = FastIndex[NameOf[c]]
                             THEN NoClass ELSE fastclasstable[i]]
    /\ removed' = removed \cup {c}
    /\ UNCHANGED <<classindex, indexof, locals, lookups, poses, known, victims>>

\* The first "%" id that is free
VictimId(n) ==
    LET free == {d \in 1..MaxDepth : classtable[<<n, d>>] = NoClass}
    IN  <<n, CHOOSE d \in free : \A e \in free : d <= e>>

\* mulle_objc_universe_patch_infraclass: the superclass of c is posed away and
\* gets another id in the table; c takes its place.  The class cache is not
\* touched.
Pose(c) ==
    /\ Alone
    /\ poses < MaxPoses /\ poses' = poses + 1
    /\ c \in Registered \cap DOMAIN Super
    /\ \A s \in Registered \cap DOMAIN Super : Super[s] # c
    /\ LET victim == Super[c]
           id == classid(victim)
       IN  /\ classtable[id] # NoClass                  \* else EFAULT
           /\ id \notin FastId                          \* else EDOM
           /\ \E d \in 1..MaxDepth : classtable[<<id[1], d>>] = NoClass  \* else ENOSPC
           /\ classindex' = classindex + 1
           /\ indexof' = [indexof EXCEPT ![c] = classindex]
           /\ classtable' = [classtable EXCEPT ![VictimId(id[1])] = victim, ![id] = c]
           /\ victims' = victims \cup {<<id, victim>>}
    /\ UNCHANGED <<fastclasstable, cache, locals, lookups, removes, known, removed>>

\* _mulle_objc_universe_all_infraclasses: the ids a class is enumerated under.
\* A poser is passed over where it poses, for it has its own id as well.
Enumerated(c) ==
    {id \in Id : classtable[id] = c /\ (id = classid(c) \/ classtable[classid(c)] # c)}

\* How often teardown frees the pair of a class
free_classgraph == [c \in Class |-> Cardinality(Enumerated(c))]

----------------------------------------------------------------------------
Init ==
    /\ classtable = [id \in Id |-> NoClass]
    /\ classindex = 0 /\ indexof = [c \in Class |-> -1]
    /\ fastclasstable = [i \in {FastIndex[n] : n \in DOMAIN FastIndex} |-> NoClass]
    /\ caches = <<empty_cache>> /\ pivot = 1 /\ freed = <<>>
    /\ pc = [t \in Thread |-> "idle"] /\ arg = [t \in Thread |-> <<>>]
    /\ infra = [t \in Thread |-> NoClass] /\ at = [t \in Thread |-> <<>>]
    /\ retry = [t \in Thread |-> FALSE]
    /\ result = [t \in Thread |-> NoClass] /\ wanted = [t \in Thread |-> NoClass]
    /\ lookups = 0 /\ poses = 0 /\ removes = 0
    /\ known = {} /\ victims = {} /\ removed = {}

\* Steps inside the runtime, and the callback
Runtime(t) ==
    \/ Probe(t) \/ ReadTable(t) \/ (\E b \in BOOLEAN : ClassIsMissing(t, b))
    \/ FillRead(t) \/ FillCheck(t) \/ SwapCaches(t)
    \/ AddProbe(t) \/ AddValue(t) \/ AddTaken(t) \/ AddCount(t) \/ AddKey(t)
    \/ RegisterSuper(t) \/ RegisterIndex(t) \/ RegisterInsert(t)

Client(t) ==
    \/ \E c \in Class : Register(t, c)
    \/ \E id \in LookupId : Lookup(t, id)

Next ==
    \/ \E t \in Thread : Runtime(t) \/ Client(t)
    \/ \E c \in Class : Remove(c) \/ Pose(c)

Spec == Init /\ [][Next]_vars

----------------------------------------------------------------------------
(* What the promises of the table rest on *)

\* A class poses once: the next one would enumerate a class posed away twice.
PosesOnce == MaxPoses <= 1

\* Removal leaves a fast class with index 0 where it is.
FastFromOne == \A n \in DOMAIN FastIndex : FastIndex[n] \in Nat \ {0}

\* With all threads past the check of the fill rate a cache still has a free slot.
RoomToFill == IsFiniteSet(Thread) /\ 3 * Cardinality(Thread) < 2 * MinCacheSize

----------------------------------------------------------------------------
(* Properties *)

\* The state is well typed; a thread inside a cache has a slot of it.
TypeOK ==
    /\ classtable \in [Id -> Class \cup {NoClass}]
    /\ indexof \in [Class -> -1..(classindex - 1)]
    /\ pivot \in DOMAIN caches
    /\ \A t \in Thread :
         /\ infra[t] \in Class \cup {NoClass} /\ result[t] \in Class \cup {NoClass}
         /\ pc[t] \in {"add", "taken", "count", "key"} =>
               at[t][2] \in DOMAIN caches[at[t][1]].entries

\* A lookup finds the class that was registered under the id when it began,
\* whoever fills, grows or swaps the class cache meanwhile; at worst it is the
\* class that was posed away from this id (universe-class.c 62-260).
LookupFinds ==
    \A t \in Thread : (pc[t] = "idle" /\ wanted[t] # NoClass /\ wanted[t] \notin removed) =>
        result[t] = wanted[t] \/ <<arg[t], result[t]>> \in victims

\* Nobody gets hold of a class that was removed before its lookup began: not
\* from the table, from the cache or from the fast classes (universe.c 2761-2802).
RemovedNotCached ==
    \A i \in DOMAIN caches[pivot].entries : caches[pivot].entries[i].value \notin removed
RemovedIsGone ==
    /\ RemovedNotCached
    /\ \A i \in DOMAIN fastclasstable : fastclasstable[i] \notin removed

\* A cache is freed once, and neither the one in use nor empty_cache
\* (universe-class.c 104-111, 264-286).
CacheFreedOnce ==
    \A i \in DOMAIN freed : /\ freed[i] \notin {1, pivot}
                            /\ \A j \in DOMAIN freed : freed[i] = freed[j] => i = j

\* A class has a lower classindex than its subclasses, which is what teardown
\* goes by (universe.c 1464-1492, 2540-2556).
SuperHasLowerIndex ==
    \A c \in Registered \cap DOMAIN Super : indexof[Super[c]] < indexof[c]

\* Every class the table ever got and did not lose by removal is enumerated
\* once, so that teardown frees it once: "it appears exactly once in the class
\* enumeration" (universe.c 2030-2038).
FreedOnce ==
    /\ \A c \in Registered : free_classgraph[c] = 1
    /\ \A v \in victims : v[2] \in Registered

\* Class table, class cache and fast class table agree: what is registered is found,
\* what was removed is not, a class has a larger index than its superclass, and
\* each is freed once (universe.c 2574-2820, universe-class.c 60-330).
TableIsSound == TypeOK /\ LookupFinds /\ RemovedIsGone /\ SuperHasLowerIndex /\ FreedOnce
=============================================================================
