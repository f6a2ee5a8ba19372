----------------------------- MODULE ImpCache ------------------------------
(***************************************************************************)
(* The method cache of one class: an open addressed table of (key, value)  *)
(* slots behind a pivot pointer.  Threads that message objects look methods*)
(* up, search a missed method and fill the cache without a lock; a cache   *)
(* that is a third full is replaced by an empty one of twice the size; and *)
(* adding methods to the class replaces a cache that knows one of them.    *)
(*                                                                         *)
(* Every access of shared memory is a step: reading the pivot, the key or  *)
(* the value of one slot, the count, a compare-and-swap, a write.  Keys    *)
(* are method ids; an implementation is a pair of its key and its version: *)
(* version 0 is what a search finds before the class is given a method of  *)
(* its own (an inherited method or the forward), version 1 afterwards.     *)
(***************************************************************************)
EXTENDS Naturals, Sequences, FiniteSets

CONSTANTS
    Thread,         \* threads that message objects of the class
    Key,            \* method ids (or super ids) in use
    Home,           \* the slot a method id hashes to, before masking
    InitialSize,    \* slots of the first cache
    MaxSize,        \* MULLE_OBJC_MAX_CACHE_SIZE
    MaxCalls,       \* bound: messages sent altogether
    MaxAdds,        \* bound: method lists added altogether
    NoKey,          \* the key of a slot that is not published
    NoImp           \* the value of a free slot

ASSUME ThreadAssumption == IsFiniteSet(Thread)
ASSUME SizeAssumption ==
    /\ InitialSize \in Nat /\ MaxSize \in Nat
    /\ 4 <= InitialSize /\ InitialSize <= MaxSize
ASSUME HomeAssumption == Home \in [Key -> Nat]
ASSUME BoundAssumption == MaxCalls \in Nat /\ MaxAdds \in Nat
ASSUME NoKeyAssumption == NoKey \notin Key
ASSUME NoImpAssumption == NoImp \notin Key \X {0, 1}

VARIABLES
    caches,     \* all caches ever allocated, by address
    pivot,      \* cls->cachepivot.pivot.entries: address of the cache in use
    freed,      \* addresses given to free or abafree
    methods,    \* version a search of the method lists finds
    pc,         \* where each thread is in the code
    key,        \* uniqueid, the id the thread works on
    imp,        \* the implementation it searched or looked up
    cache,      \* its local variable cache (or old_cache)
    off,        \* its probe offset, not masked
    fresh,      \* address of the cache it allocated
    todo,       \* methods of the list it still has to invalidate
    calls,      \* messages sent so far
    adds,       \* method lists added so far
    settled,    \* history: versions whose addition has returned
    floor,      \* history: settled[key] when the thread started its call
    overlap     \* history: methods were added while a fill of one was under way

shared == <<caches, pivot, freed, methods>>
local == <<key, imp, cache, off, fresh, todo>>
history == <<calls, adds, settled, floor, overlap>>
vars == <<shared, pc, local, history>>

Imp == Key \X {0, 1}

----------------------------------------------------------------------------
(* Tables *)

EmptyCache(size) ==
    [size |-> size, n |-> 0,
     slots |-> [i \in 0 .. size - 1 |-> [key |-> NoKey, val |-> NoImp]]]

\* _mulle_objc_cache_should_grow without a fill rate: a third is used
ShouldGrow(c) == c.n * 3 >= c.size

\* _mulle_objc_cache_get_resize, clamped by mulle_objc_impcache_new
Resize(c, strategy) ==
    IF strategy = "grow" /\ 2 * c.size <= MaxSize THEN 2 * c.size ELSE c.size

\* slot under the probe of thread t
Index(t) == off[t] % caches[cache[t]].size
Slot(t)  == caches[cache[t]].slots[Index(t)]

Used(c) == {i \in DOMAIN c.slots : c.slots[i].val # NoImp}

Goto(t, label) == pc' = [pc EXCEPT ![t] = label]
Set(f, t, v) == [f EXCEPT ![t] = v]

\* the probe of another slot
Advance(t) == off' = Set(off, t, off[t] + 1)

----------------------------------------------------------------------------
(* Calling a method: _mulle_objc_class_lookup_implementation_mode *)

\* _mulle_objc_impcachepivot_probe_inline reads the pivot
CallStart(t, k) ==
    /\ pc[t] = "idle" /\ calls < MaxCalls
    /\ key' = Set(key, t, k)
    /\ cache' = Set(cache, t, pivot)
    /\ off' = Set(off, t, Home[k])
    /\ calls' = calls + 1
    /\ floor' = Set(floor, t, settled[k])
    /\ Goto(t, "lookupKey")
    /\ UNCHANGED <<shared, imp, fresh, todo, adds, settled, overlap>>

\* the key is read twice: once to compare it with ours ...
LookupKey(t) ==
    /\ pc[t] = "lookupKey"
    /\ Goto(t, IF Slot(t).key = key[t] THEN "lookupValue" ELSE "lookupNext")
    /\ UNCHANGED <<shared, local, history>>

\* mutant: a collision does not move on to the next slot
MutLookupStays(t) ==
    /\ pc[t] = "lookupNext"
    /\ Goto(t, IF Slot(t).key = NoKey THEN "search" ELSE "lookupKey")
    /\ UNCHANGED <<shared, local, history>>

\* ... and once more, maybe published by now, to end the loop with a miss
LookupNext(t) ==
    /\ pc[t] = "lookupNext"
    /\ IF Slot(t).key = NoKey
       THEN Goto(t, "search") /\ UNCHANGED off
       ELSE Goto(t, "lookupKey") /\ Advance(t)
    /\ UNCHANGED <<shared, key, imp, cache, fresh, todo, history>>

\* a hit: the value is the implementation that is called
LookupValue(t) ==
    /\ pc[t] = "lookupValue"
    /\ imp' = Set(imp, t, Slot(t).val)
    /\ Goto(t, "call")
    /\ UNCHANGED <<shared, key, cache, off, fresh, todo, history>>

\* a miss: the method lists are searched, the cache will be filled
Search(t) ==
    /\ pc[t] = "search"
    /\ imp' = Set(imp, t, <<key[t], methods[key[t]]>>)
    /\ Goto(t, "fill")
    /\ UNCHANGED <<shared, key, cache, off, fresh, todo, history>>

\* the implementation is called
Call(t) ==
    /\ pc[t] = "call"
    /\ Goto(t, "idle")
    /\ UNCHANGED <<shared, local, history>>

----------------------------------------------------------------------------
(* _mulle_objc_class_fill_impcachepivot_imp *)

FillRead(t) ==
    /\ pc[t] = "fill"
    /\ cache' = Set(cache, t, pivot)
    /\ Goto(t, "check")
    /\ UNCHANGED <<shared, key, imp, off, fresh, todo, history>>

FillCheck(t) ==
    /\ pc[t] = "check"
    /\ IF ShouldGrow(caches[cache[t]])
       THEN Goto(t, "grow") /\ UNCHANGED off
       ELSE Goto(t, "probeKey") /\ off' = Set(off, t, Home[key[t]])
    /\ UNCHANGED <<shared, key, imp, cache, fresh, todo, history>>

\* _mulle_objc_cache_probe_entryoffset stops at our key or at a free value;
\* it serves the fill and, with methods left to invalidate, invalidation
Found(t) == Goto(t, IF todo[t] = {} THEN "add" ELSE "inspect")

ProbeKey(t) ==
    /\ pc[t] = "probeKey"
    /\ IF Slot(t).key = key[t] THEN Found(t) ELSE Goto(t, "probeValue")
    /\ UNCHANGED <<shared, local, history>>

ProbeValue(t) ==
    /\ pc[t] = "probeValue"
    /\ IF Slot(t).val = NoImp
       THEN Found(t) /\ UNCHANGED off
       ELSE Goto(t, "probeKey") /\ Advance(t)
    /\ UNCHANGED <<shared, key, imp, cache, fresh, todo, history>>

\* mutant: a plain write instead of the compare-and-swap of the value
MutAddBlind(t) ==
    /\ pc[t] = "add"
    /\ caches' = [caches EXCEPT ![cache[t]].slots[Index(t)].val = imp[t]]
    /\ Goto(t, "count")
    /\ UNCHANGED <<pivot, freed, methods, local, history>>

\* _mulle_objc_cache_add_functionpointer_entry: the value goes in first ...
AddValue(t) ==
    /\ pc[t] = "add"
    /\ IF Slot(t).val = NoImp
       THEN /\ caches' = [caches EXCEPT ![cache[t]].slots[Index(t)].val = imp[t]]
            /\ Goto(t, "count")
       ELSE Goto(t, "taken") /\ UNCHANGED caches
    /\ UNCHANGED <<pivot, freed, methods, local, history>>

\* ... someone else was faster: fine if it was our key, else try again
AddTaken(t) ==
    /\ pc[t] = "taken"
    /\ Goto(t, IF Slot(t).key = key[t] THEN "call" ELSE "fill")
    /\ UNCHANGED <<shared, local, history>>

\* ... then the count
AddCount(t) ==
    /\ pc[t] = "count"
    /\ caches' = [caches EXCEPT ![cache[t]].n = @ + 1]
    /\ Goto(t, "publish")
    /\ UNCHANGED <<pivot, freed, methods, local, history>>

\* ... and last the key, which makes the entry visible
AddKey(t) ==
    /\ pc[t] = "publish"
    /\ caches' = [caches EXCEPT ![cache[t]].slots[Index(t)].key = key[t]]
    /\ Goto(t, "call")
    /\ UNCHANGED <<pivot, freed, methods, local, history>>

----------------------------------------------------------------------------
(* _mulle_objc_class_convenient_swap_impcache *)

\* the size comes from the cache in use now, maybe no longer the one checked
SwapNew(t) ==
    /\ pc[t] \in {"grow", "renew"}
    /\ LET strategy == IF pc[t] = "grow" THEN "grow" ELSE "stagnate"
       IN  caches' = Append(caches, EmptyCache(Resize(caches[pivot], strategy)))
    /\ fresh' = Set(fresh, t, Len(caches'))
    /\ Goto(t, "swapRead")
    /\ UNCHANGED <<pivot, freed, methods, key, imp, cache, off, todo, history>>

\* _mulle_objc_impcachepivot_convenient_swap reads the pivot once more
SwapRead(t) ==
    /\ pc[t] = "swapRead"
    /\ cache' = Set(cache, t, pivot)
    /\ Goto(t, "swap")
    /\ UNCHANGED <<shared, key, imp, off, fresh, todo, history>>

\* what the allocator of the runtime's own tests asserts of a cache to free
assert_valid_impcache(c) == c \in DOMAIN caches /\ c \notin freed

\* at once, or when no thread that might read the cache is left
free_impcache(c) == freed' = freed \cup {c}
abafree_impcache(c) == freed' = freed \cup {c}

\* _mulle_objc_impcachepivot_swap: the loser frees its cache, the winner
\* the old one; a fill starts over, an invalidation is done
SwapCas(t) ==
    /\ pc[t] = "swap"
    /\ IF pivot = cache[t]
       THEN pivot' = fresh[t] /\ abafree_impcache(cache[t])
       ELSE UNCHANGED pivot /\ free_impcache(fresh[t])
    /\ IF todo[t] = {} THEN Goto(t, "fill") ELSE Goto(t, "added")
    /\ UNCHANGED <<caches, methods, local, history>>

----------------------------------------------------------------------------
(* Adding a method list: _mulle_objc_class_add_methodlist_nocache, then
   mulle_objc_class_didadd_methodlist, which reaches this class' cache *)

FillLabels == {"fill", "check", "grow", "probeKey", "probeValue", "add", "taken",
               "count", "publish", "swapRead", "swap"}

Filling(t) == pc[t] \in FillLabels /\ todo[t] = {}

AddMethods(t, list) ==
    /\ pc[t] = "idle" /\ adds < MaxAdds
    /\ list # {} /\ \A k \in list : methods[k] = 0
    /\ methods' = [k \in Key |-> IF k \in list THEN 1 ELSE methods[k]]
    /\ todo' = Set(todo, t, list)
    /\ adds' = adds + 1
    /\ overlap' = (overlap \/ \E u \in Thread : Filling(u) /\ key[u] \in list)
    /\ Goto(t, "invalidate")
    /\ UNCHANGED <<caches, pivot, freed, key, imp, cache, off, fresh, calls,
                   settled, floor>>

\* _mulle_objc_class_invalidate_impcacheentry for the next method of the list
InvalidateRead(t) ==
    /\ pc[t] = "invalidate"
    /\ \E k \in todo[t] : key' = Set(key, t, k)
    /\ cache' = Set(cache, t, pivot)
    /\ Goto(t, "invalidateCount")
    /\ UNCHANGED <<shared, imp, off, fresh, todo, history>>

\* not invalidated by this method: go on with the next one
NextMethod(t) ==
    IF todo[t] = {key[t]}
    THEN Goto(t, "added") /\ UNCHANGED todo
    ELSE Goto(t, "invalidate") /\ todo' = Set(todo, t, todo[t] \ {key[t]})

\* mutant: a cache with one entry counts as empty
MutInvalidateFew(t) ==
    /\ pc[t] = "invalidateCount"
    /\ IF caches[cache[t]].n <= 1
       THEN NextMethod(t) /\ UNCHANGED off
       ELSE /\ Goto(t, "probeKey") /\ off' = Set(off, t, Home[key[t]])
            /\ UNCHANGED todo
    /\ UNCHANGED <<shared, key, imp, cache, fresh, history>>

InvalidateCount(t) ==
    /\ pc[t] = "invalidateCount"
    /\ IF caches[cache[t]].n = 0
       THEN NextMethod(t) /\ UNCHANGED off
       ELSE /\ Goto(t, "probeKey") /\ off' = Set(off, t, Home[key[t]])
            /\ UNCHANGED todo
    /\ UNCHANGED <<shared, key, imp, cache, fresh, history>>

\* a published key, ours or one that got there first, renews the cache
InvalidateInspect(t) ==
    /\ pc[t] = "inspect"
    /\ IF Slot(t).key = NoKey
       THEN NextMethod(t)
       ELSE Goto(t, "renew") /\ UNCHANGED todo
    /\ UNCHANGED <<shared, key, imp, cache, off, fresh, history>>

\* _mulle_objc_class_add_methodlist returns
AddReturn(t) ==
    /\ pc[t] = "added"
    /\ todo' = Set(todo, t, {})
    /\ settled' = IF \E u \in Thread \ {t} : todo[u] # {} THEN settled ELSE methods
    /\ Goto(t, "idle")
    /\ UNCHANGED <<shared, key, imp, cache, off, fresh, calls, adds, floor, overlap>>

----------------------------------------------------------------------------
Init ==
    /\ caches = <<EmptyCache(InitialSize)>>
    /\ pivot = 1
    /\ freed = {}
    /\ methods = [k \in Key |-> 0]
    /\ pc = [t \in Thread |-> "idle"]
    /\ key = [t \in Thread |-> NoKey]
    /\ imp = [t \in Thread |-> NoImp]
    /\ cache = [t \in Thread |-> 1]
    /\ off = [t \in Thread |-> 0]
    /\ fresh = [t \in Thread |-> 1]
    /\ todo = [t \in Thread |-> {}]
    /\ calls = 0
    /\ adds = 0
    /\ settled = [k \in Key |-> 0]
    /\ floor = [t \in Thread |-> 0]
    /\ overlap = FALSE

\* the steps of a call that is under way
Step(t) ==
    \/ LookupKey(t) \/ LookupNext(t) \/ LookupValue(t) \/ Search(t) \/ Call(t)
    \/ FillRead(t) \/ FillCheck(t) \/ ProbeKey(t) \/ ProbeValue(t)
    \/ AddValue(t) \/ AddTaken(t) \/ AddCount(t) \/ AddKey(t)
    \/ SwapNew(t) \/ SwapRead(t) \/ SwapCas(t)
    \/ InvalidateRead(t) \/ InvalidateCount(t) \/ InvalidateInspect(t)
    \/ AddReturn(t)

Start(t) ==
    \/ \E k \in Key : CallStart(t, k)
    \/ \E list \in SUBSET Key : AddMethods(t, list)

Next == \E t \in Thread : Step(t) \/ Start(t)

Spec == Init /\ [][Next]_vars

\* threads are scheduled
FairSpec == Spec /\ \A t \in Thread : WF_vars(Step(t))

----------------------------------------------------------------------------
(* Properties *)

Addresses == 1 .. Len(caches)

Published == {c \in Addresses \X (0 .. MaxSize - 1) :
                 /\ c[2] \in DOMAIN caches[c[1]].slots
                 /\ caches[c[1]].slots[c[2]].key # NoKey}

Labels == {"idle", "lookupKey", "lookupNext", "lookupValue", "search", "call", "invalidate",
           "invalidateCount", "inspect", "renew", "added"} \cup FillLabels

TypeOK ==
    /\ \A c \in Addresses :
          /\ caches[c].size \in InitialSize .. MaxSize
          /\ caches[c].n \in Nat
          /\ caches[c].slots \in [0 .. caches[c].size - 1 ->
                                   [key : Key \cup {NoKey}, val : Imp \cup {NoImp}]]
    /\ pivot \in Addresses
    /\ freed \subseteq Addresses
    /\ methods \in [Key -> {0, 1}]
    /\ pc \in [Thread -> Labels]
    /\ key \in [Thread -> Key \cup {NoKey}]
    /\ imp \in [Thread -> Imp \cup {NoImp}]
    /\ cache \in [Thread -> Addresses]
    /\ off \in [Thread -> Nat]
    /\ fresh \in [Thread -> Addresses]
    /\ todo \in [Thread -> SUBSET Key]
    /\ settled \in [Key -> {0, 1}]

\* A call never runs another method's implementation: what a published key
\* leads to, and what a lookup that raced with fills returns, belongs to it.
NoForeignImplementation ==
    /\ \A p \in Published :
          LET slot == caches[p[1]].slots[p[2]]
          IN  slot.val \in {slot.key} \X {0, 1}
    /\ \A t \in Thread : pc[t] = "call" => imp[t] \in {key[t]} \X {0, 1}

\* n lags behind the slots in use exactly by the threads between the
\* compare-and-swap of the value and the increment ("not fatal but one needs
\* to know this").
CountLagsByAdders ==
    \A c \in Addresses :
        Cardinality(Used(caches[c])) =
            caches[c].n + Cardinality({t \in Thread : pc[t] = "count" /\ cache[t] = c})

\* However many threads pass the check of the fill level before the others
\* have counted, the slots in use exceed the counts below the growth limit by
\* one fill per thread at most: every fill needs a check of its own.
FillBounded ==
    \A c \in Addresses :
        Cardinality(Used(caches[c])) <=
            (caches[c].size - 1) \div 3 + Cardinality(Thread)

\* The pivot never leads to a freed cache, and no cache is freed twice: a
\* cache about to be swapped in is nobody else's.
PivotNeverFreed ==
    /\ pivot \notin freed
    /\ \A t \in Thread :
          pc[t] \in {"swapRead", "swap"} =>
              /\ assert_valid_impcache(fresh[t]) /\ fresh[t] # pivot
              /\ pc[t] = "swap" /\ pivot = cache[t] => assert_valid_impcache(cache[t])
              /\ \A u \in Thread \ {t} :
                    pc[u] \in {"swapRead", "swap"} => fresh[u] # fresh[t]

\* A call that starts after _mulle_objc_class_add_methodlist returned runs
\* the added method, provided no fill of it was under way during the add.
CallsAreCurrent ==
    \A t \in Thread :
        pc[t] = "call" /\ ~ overlap => imp[t][2] >= floor[t]

\* Every call ends: no lookup, probe or fill loops for ever.
CallsEnd == \A t \in Thread : pc[t] # "idle" ~> pc[t] = "idle"

\* A cache counts what it holds, never fills up, is not freed while it is in use, and
\* has under a method's key only implementations of this method (cache.c 381-520,
\* class-impcache.c 60-240).
CacheIsSound ==
    TypeOK /\ CountLagsByAdders /\ FillBounded /\ PivotNeverFreed /\ NoForeignImplementation
=============================================================================
