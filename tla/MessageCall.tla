---------------------------- MODULE MessageCall ----------------------------
(***************************************************************************)
(* Sending messages: the call functions the compiler picks from by         *)
(* optimization level, the callbacks of a cache they continue with, super  *)
(* calls, the table of fast methods, the lookups by mode and the check for *)
(* calls from a wrong thread (tao).  Here one call runs at a time, and what*)
(* matters is which method it runs, in whatever state earlier calls and    *)
(* added methods have left the caches.  How concurrent fills of one cache  *)
(* interleave is the subject of ImpCache, how a class is set up of         *)
(* ClassSetup, and how methods are searched of MethodSearch.               *)
(***************************************************************************)
EXTENDS Integers, Sequences, FiniteSets

CONSTANTS Class, Root,  \* the classes and the one without a superclass
          Receiver,     \* the classes of the objects that are messaged
          Super,        \* superclass of every class but Root
          AlwaysEmpty,  \* classes that never get a cache
          Affine,       \* classes whose objects belong to a thread
          MethodId, FastMethod,   \* method ids, those of the fast method table
          SuperId,      \* superid -> <<class, methodid>>
          Hash,         \* key -> slot, before masking
          Forward,      \* the method id of forward:
          CacheSize,    \* size of a new cache
          IsaSlot,      \* class -> slot in the table of mulle_objc_objects_call
          Startup,      \* <<class, method id, thread affine>> of the methods at startup
          Standard,     \* method ids with a standard implementation, the one of Root
          Debug,        \* values of universe->debug.method_call to consider
          MaxAdds       \* bound: method lists added after startup

ASSUME /\ Root \in Class /\ Receiver \subseteq Class /\ Super \in [Class \ {Root} -> Class]
       /\ FastMethod \subseteq MethodId /\ Forward \in MethodId /\ Standard \subseteq MethodId
       /\ DOMAIN SuperId \cap MethodId = {}

VARIABLES methods,      \* class -> method id -> the method in front
          cache,        \* class -> its implementation cache
          forward,      \* class -> cls->forwardmethod
          vtab,         \* class -> fast method -> method or NoMethod (fault handler)
          mask,         \* class -> method ids whose standardimpmask bit is set
          debug,        \* universe->debug.method_call
          adds,         \* method lists added so far
          last,         \* what the last call did
          seen          \* every answer that was right at some time

vars == <<methods, cache, forward, vtab, mask, debug, adds, last, seen>>

Key == MethodId \cup DOMAIN SuperId
NoMethod == [id |-> "", class |-> "", n |-> 0, affine |-> FALSE]
NoCall == [op |-> "none", class |-> "", key |-> "", method |-> NoMethod,
           fast |-> FALSE, checked |-> FALSE, failed |-> FALSE]
Variant == {"call", "partial", "inline", "full", "variable"}
SuperVariant == {"partial", "inline", "full"}

\* mulle_objc_get_fastmethodtable_index is not -1
has_fastmethodtable_index(id) == id \in FastMethod

Lineage[c \in Class] == IF c = Root THEN <<Root>> ELSE <<c>> \o Lineage[Super[c]]

\* The method a search finds among the methods ms for a method id, or behind
\* the class of a super id
FindIn(ms, c, key) ==
    LET id == IF key \in MethodId THEN key ELSE SuperId[key][2]
        lineage == IF key \in MethodId THEN Lineage[c] ELSE Tail(Lineage[SuperId[key][1]])
        hits == SelectSeq(lineage, LAMBDA d : ms[d][id] # NoMethod)
    IN  IF hits = <<>> THEN NoMethod ELSE ms[hits[1]][id]
Find(c, key) == FindIn(methods, c, key)

----------------------------------------------------------------------------
\* Caches

NewCache(kind, size) ==
    [kind |-> kind, size |-> size, n |-> 0, key |-> [i \in 0..(size - 1) |-> ""],
     method |-> [i \in 0..(size - 1) |-> NoMethod]]
initial_impcache == NewCache("initial", 1)
empty_impcache   == NewCache("empty", 1)

should_grow(k) == k.n * 3 >= k.size
Slot(k, key) == Hash[key] % k.size

\* The slot a probe stops at, when it starts d slots behind the one of the key
Stop(k, key, d) ==
    LET at(i) == (Hash[key] + i) % k.size
        stops == {i \in d..(d + k.size - 1) : k.key[at(i)] \in {key, ""}}
    IN  at(CHOOSE i \in stops : \A j \in stops : i <= j)
Hit(k, key, d) == k.key[Stop(k, key, d)] = key

\* _mulle_objc_class_fill_impcachepivot_imp: a cache that is full enough is
\* replaced by an empty one of twice the size
RECURSIVE Added(_, _, _)
Added(k, key, method) ==
    IF should_grow(k) THEN Added(NewCache(k.kind, 2 * k.size), key, method)
    ELSE LET i == Stop(k, key, 0)
         IN  IF k.key[i] = key THEN k
             ELSE [k EXCEPT !.n = @ + 1, !.key[i] = key, !.method[i] = method]

----------------------------------------------------------------------------
(***************************************************************************)
(* A call changes caches, forward methods and fast methods.  The operators *)
(* below take such a world w to the next one and note the method to run,   *)
(* whether the call went through _mulle_objc_implementation_debug and      *)
(* whether it failed.                                                      *)
(***************************************************************************)
World == [cache |-> cache, forward |-> forward, vtab |-> vtab, mask |-> mask,
          method |-> NoMethod, checked |-> FALSE, fast |-> FALSE, failed |-> FALSE]

\* The implementation the foundation has registered for a method family
StandardImp(id) == [id |-> id, class |-> Root, n |-> 0, affine |-> <<Root, id, TRUE>> \in Startup]

\* _mulle_objc_class_setup, as far as caches go: a class gets its cache and then
\* its standardimpmask
Setup(w, c) ==
    LET set_up == {d \in Class : w.cache[d].kind = "initial" /\ \E i \in DOMAIN Lineage[c] : Lineage[c][i] = d}
    IN  [w EXCEPT !.cache = [d \in Class |->
            IF d \notin set_up THEN @[d]
            ELSE IF d \in AlwaysEmpty THEN empty_impcache ELSE NewCache("normal", CacheSize)],
                     !.mask = [d \in Class |->
            IF d \notin set_up THEN @[d] ELSE {id \in Standard : Find(d, id) = StandardImp(id)}]]

Run(w, method) == [w EXCEPT !.method = method]

\* _mulle_objc_class_lazyget_forwardmethod
lazyget_forwardmethod(w, c) ==
    LET method == IF w.forward[c] # NoMethod THEN w.forward[c] ELSE Find(c, Forward)
    IN  [Run(w, method) EXCEPT !.forward[c] = method]

\* mulle_objc_class_search_method_nofail and the search for super
search_method_nofail(w0, c, key) ==
    LET w == Setup(w0, c)
        v == IF Find(c, key) # NoMethod THEN Run(w, Find(c, key)) ELSE lazyget_forwardmethod(w, c)
    IN  [v EXCEPT !.failed = @ \/ v.method = NoMethod]

\* _mulle_objc_class_fill_impcache_method
MutFillAffine(w, c, key) ==
    IF w.failed \/ c \in AlwaysEmpty \/ "trace" \in debug THEN w
    ELSE [w EXCEPT !.cache[c] = Added(@, key, w.method)]
fill_impcache_method(w, c, key) ==
    IF \/ w.failed
       \/ c \in AlwaysEmpty
       \/ "trace" \in debug
       \/ "tao" \in debug /\ c \in Affine /\ w.method.affine
    THEN w
    ELSE [w EXCEPT !.cache[c] = Added(@, key, w.method)]

\* mulle_objc_object_taocheck_call fails for a thread affine method that is
\* called on an object of another thread, unless it is of a harmless family
taocheck_fails(c, key, foreign) ==
    LET id == IF key \in MethodId THEN key ELSE SuperId[key][2]
        method == Find(c, id)
    IN  /\ "tao" \in debug
        /\ c \in Affine /\ foreign
        /\ method # NoMethod /\ method.affine
        /\ id # Forward /\ ~has_fastmethodtable_index(id)

\* _mulle_objc_implementation_debug
implementation_debug(w, c, key, foreign) ==
    IF debug = {} THEN w
    ELSE [w EXCEPT !.checked = TRUE, !.failed = @ \/ taocheck_fails(c, key, foreign)]

refresh_method_nofail(w, c, key) == fill_impcache_method(search_method_nofail(w, c, key), c, key)
Refresh(w, c, key, foreign) == implementation_debug(refresh_method_nofail(w, c, key), c, key, foreign)

\* The callbacks of a cache, d slots behind the one the caller has seen.  The
\* initial cache sets the class up and goes on with a miss; the empty cache
\* searches every time.
callback_normal(w, c, key, d, foreign) ==
    IF Hit(w.cache[c], key, d) THEN Run(w, w.cache[c].method[Stop(w.cache[c], key, d)])
    ELSE Refresh(w, c, key, foreign)
callback_empty(w, c, key) == search_method_nofail(w, c, key)
callback_initial(w, c, key, foreign) ==
    IF c \in AlwaysEmpty THEN callback_empty(Setup(w, c), c, key)
    ELSE Refresh(Setup(w, c), c, key, foreign)
Callback(w, c, key, name, foreign) ==
    IF w.cache[c].kind = "initial" THEN callback_initial(w, c, key, foreign)
    ELSE IF w.cache[c].kind = "empty" THEN callback_empty(w, c, key)
    ELSE CASE name = "miss"      -> Refresh(w, c, key, foreign)
           [] name = "collision" -> callback_normal(w, c, key, 1, foreign)
           [] OTHER              -> callback_normal(w, c, key, 0, foreign)

\* _mulle_objc_class_lookup_implementation_mode
Lookup(w, c, id, mode) ==
    IF Hit(w.cache[c], id, 0)
    THEN LET method == w.cache[c].method[Stop(w.cache[c], id, 0)]
         IN  IF "noforward" \in mode /\ w.forward[c] # NoMethod /\ w.forward[c] = method
             THEN w ELSE Run(w, method)
    ELSE LET v == Run(Setup(w, c), Find(c, id))
             u == IF v.method = NoMethod /\ "lazyforward" \in mode THEN lazyget_forwardmethod(v, c) ELSE v
         IN  IF u.method = NoMethod THEN [u EXCEPT !.failed = "nofail" \in mode]
             ELSE IF "nofill" \in mode THEN u ELSE fill_impcache_method(u, c, id)

\* _mulle_objc_object_handle_fastmethodtablefault: the entry is filled unless
\* calls are traced or checked, then the call goes the usual way
fastmethodtablefault(w, c, id, foreign) ==
    LET v == Lookup(w, c, id, {"nofail", "nofill", "lazyforward"})
    IN  IF v.failed THEN v
        ELSE Callback(IF debug = {} THEN [v EXCEPT !.vtab[c][id] = v.method] ELSE v, c, id, "call", foreign)
fastmethodtable_invoke(w, c, id, foreign) ==
    IF w.vtab[c][id] # NoMethod THEN [Run(w, w.vtab[c][id]) EXCEPT !.fast = TRUE]
    ELSE fastmethodtablefault(w, c, id, foreign)

MutFirstSlotTaken(w, c, key, otherwise, foreign) ==
    IF w.cache[c].key[Slot(w.cache[c], key)] # ""
    THEN Run(w, w.cache[c].method[Slot(w.cache[c], key)])
    ELSE Callback(w, c, key, otherwise, foreign)

\* The slot of the key only, and otherwise a callback that may skip it
FirstSlot(w, c, key, otherwise, foreign) ==
    IF w.cache[c].key[Slot(w.cache[c], key)] = key
    THEN Run(w, w.cache[c].method[Slot(w.cache[c], key)])
    ELSE Callback(w, c, key, otherwise, foreign)

\* All slots of the cache, then the callback for a miss
FullProbe(w, c, key, foreign) ==
    IF Hit(w.cache[c], key, 0) THEN Run(w, w.cache[c].method[Stop(w.cache[c], key, 0)])
    ELSE Callback(w, c, key, "miss", foreign)

\* What the inline functions look at before they call back, for messages and
\* for super calls.  A first slot that is free is a miss, except to
\* _mulle_objc_object_call_inline.
MissOrCollision(w, c, key) ==
    IF w.cache[c].key[Slot(w.cache[c], key)] = "" THEN "miss" ELSE "collision"
Dispatch(w, c, id, variant, foreign) ==
    CASE variant = "partial"  -> Callback(w, c, id, "call", foreign)
      [] variant = "inline"   -> FirstSlot(w, c, id, "collision", foreign)
      [] variant = "variable" -> FirstSlot(w, c, id, MissOrCollision(w, c, id), foreign)
      [] OTHER                -> FullProbe(w, c, id, foreign)
SuperDispatch(w, c, superid, variant, foreign) ==
    CASE variant = "partial"  -> Callback(w, c, superid, "call", foreign)
      [] variant = "inline"   -> FirstSlot(w, c, superid, MissOrCollision(w, c, superid), foreign)
      [] OTHER                -> FullProbe(w, c, superid, foreign)

----------------------------------------------------------------------------
Note(w, op, c, key) ==
    /\ cache' = w.cache /\ forward' = w.forward /\ vtab' = w.vtab /\ mask' = w.mask
    /\ last' = [op |-> op, class |-> c, key |-> key, method |-> w.method, fast |-> w.fast,
                checked |-> w.checked, failed |-> w.failed]
    /\ UNCHANGED <<methods, debug, adds, seen>>

\* The thread has nothing else to do
Running == last = NoCall

\* The call or lookup is over; a failure ends the program.
Return ==
    /\ last # NoCall /\ ~last.failed
    /\ last' = NoCall
    /\ UNCHANGED <<methods, cache, forward, vtab, mask, debug, adds, seen>>

\* The call functions.  Fast methods take the table, but not in the functions
\* for variable method ids.
Call(c, id, variant, foreign) ==
    /\ Running
    /\ Note(IF has_fastmethodtable_index(id) /\ variant \in {"partial", "inline", "full"}
            THEN fastmethodtable_invoke(World, c, id, foreign)
            ELSE Dispatch(World, c, id, variant, foreign), "call", c, id)

\* Super calls, made by a method of the class in the super id
CallSuper(c, superid, variant, foreign) ==
    /\ Running
    /\ \E i \in DOMAIN Lineage[c] : Lineage[c][i] = SuperId[superid][1]
    /\ Note(SuperDispatch(World, c, superid, variant, foreign), "super", c, superid)

\* _mulle_objc_class_lookup_implementation, ..._nofill, ..._noforward and
\* ..._noforward_nofill
LookupImplementation(c, id, mode) ==
    /\ Running
    /\ Note(Lookup(World, c, id, mode), IF "noforward" \in mode THEN "noforward" ELSE "lookup", c, id)

\* mulle_objc_objects_call remembers implementations in a small table by class
\* and, unless it is a debug build, invokes them without any check
RECURSIVE CallEach(_, _, _, _)
CallEach(w, table, objects, id) ==
    IF objects = <<>> THEN w
    ELSE LET c == Head(objects)
             hit == table[IsaSlot[c]]
             v == IF hit.isa = c THEN Run(w, hit.method)
                  ELSE Lookup([w EXCEPT !.method = NoMethod], c, id, {"lazyforward"})
         IN  IF v.method = NoMethod THEN [v EXCEPT !.failed = TRUE]
             ELSE CallEach(v, [table EXCEPT ![IsaSlot[c]] = [isa |-> c, method |-> v.method]], Tail(objects), id)
ObjectsCall(objects, id) ==
    LET none == [i \in {IsaSlot[c] : c \in Class} |-> [isa |-> "", method |-> NoMethod]]
    IN  /\ Running
        /\ Note(CallEach(World, none, objects, id), "lookup", objects[Len(objects)], id)

----------------------------------------------------------------------------
\* _mulle_objc_class_invalidate_impcacheentry
invalidate_impcacheentry(k, id) ==
    IF k.kind = "normal" /\ k.n # 0 /\ Hit(k, id, 0) THEN NewCache(k.kind, k.size) ELSE k

\* _mulle_objc_infraclass_invalidate_standardimpmask, with the methods ms.  The
\* lookups do not fill the cache, but they do probe it, and it is still the old one.
compute_standardimpmask(ms, k, c) ==
    {id \in Standard :
        LET method == IF Hit(k, id, 0) THEN k.method[Stop(k, id, 0)] ELSE FindIn(ms, c, id)
        IN  method = StandardImp(id) /\ method # forward[c]}
invalidate_standardimpmask(ms, c) ==
    IF cache[c].kind = "initial" THEN mask[c]
    ELSE mask[c] \cap compute_standardimpmask(ms, cache[c], c)

\* ... with NO_METHODID
invalidate_impcache(k) ==
    IF k.kind = "normal" /\ k.n # 0 THEN NewCache(k.kind, k.size) ELSE k

\* What a message may be answered with, given the methods ms
Answers(ms) ==
    {<<c, key, IF FindIn(ms, c, key) # NoMethod THEN FindIn(ms, c, key) ELSE FindIn(ms, c, Forward)>>
        : c \in Class, key \in Key}

\* mulle_objc_class_add_methodlist: every class with a cache recomputes its
\* standardimpmask and drops its cache, if it holds the method id.  The fast method table, the forward methods and the
\* super ids are left as they are.
MutAddOwnClass(c, id, affine) ==
    LET method == [id |-> id, class |-> c, n |-> adds + 1, affine |-> affine]
        ms == [methods EXCEPT ![c][id] = method]
    IN  /\ Running /\ adds < MaxAdds /\ adds' = adds + 1
        /\ methods' = ms /\ seen' = seen \cup Answers(ms)
        /\ cache' = [cache EXCEPT ![c] = invalidate_impcacheentry(@, id)]
        /\ mask' = [d \in Class |-> invalidate_standardimpmask(ms, d)]
        /\ last' = NoCall
        /\ UNCHANGED <<forward, vtab, debug>>
AddMethod(c, id, affine) ==
    LET method == [id |-> id, class |-> c, n |-> adds + 1, affine |-> affine]
        ms == [methods EXCEPT ![c][id] = method]
    IN  /\ Running
        /\ adds < MaxAdds /\ adds' = adds + 1
        /\ methods' = ms
        /\ seen' = seen \cup Answers(ms)
        /\ cache' = [d \in Class |-> invalidate_impcacheentry(cache[d], id)]
        /\ mask' = [d \in Class |-> invalidate_standardimpmask(ms, d)]
        /\ last' = NoCall
        /\ UNCHANGED <<forward, vtab, debug>>

\* Everyone is a subclass of no class ("")
is_subclass(c, kindofcls) ==
    kindofcls = "" \/ \E i \in DOMAIN Lineage[c] : Lineage[c][i] = kindofcls

\* _mulle_objc_universe_invalidate_classcaches: walks over the classes
InvalidateClasscaches(kindofcls) ==
    LET walked == {c \in Class : is_subclass(c, kindofcls)}
    IN  /\ Running
        /\ mask' = [c \in Class |->
                       IF c \in walked THEN invalidate_standardimpmask(methods, c) ELSE mask[c]]
        /\ cache' = [c \in Class |->
                       IF c \in walked THEN invalidate_impcache(cache[c]) ELSE cache[c]]
        /\ last' = NoCall
        /\ UNCHANGED <<methods, forward, vtab, debug, adds, seen>>

Init ==
    /\ methods = [c \in Class |-> [id \in MethodId |->
            IF \E s \in Startup : s[1] = c /\ s[2] = id
            THEN [id |-> id, class |-> c, n |-> 0, affine |-> <<c, id, TRUE>> \in Startup]
            ELSE NoMethod]]
    /\ cache = [c \in Class |-> initial_impcache]
    /\ forward = [c \in Class |-> NoMethod]
    /\ vtab = [c \in Class |-> [id \in FastMethod |-> NoMethod]]
    /\ mask = [c \in Class |-> {}]
    /\ debug \in Debug
    /\ adds = 0
    /\ last = NoCall
    /\ seen = Answers(methods)

\* Whether the object belongs to another thread, and whether a method is thread
\* affine, matters to the tao check only
Foreign == IF "tao" \in debug THEN BOOLEAN ELSE {FALSE}
Modes == {{"lazyforward"}, {"lazyforward", "nofill"}, {"noforward"}, {"noforward", "nofill"}, {"lazyforward", "nofail"}}

Next ==
    \/ \E c \in Receiver, id \in MethodId \ {Forward}, v \in Variant, foreign \in Foreign : Call(c, id, v, foreign)
    \/ \E c \in Receiver, s \in DOMAIN SuperId, v \in SuperVariant, foreign \in Foreign : CallSuper(c, s, v, foreign)
    \/ \E c \in Receiver, id \in MethodId \ {Forward}, mode \in Modes : LookupImplementation(c, id, mode)
    \/ \E c, d \in Receiver, id \in MethodId \ {Forward} : ObjectsCall(<<c, d, c>>, id)
    \/ \E c \in Class, id \in MethodId, affine \in Foreign : AddMethod(c, id, affine)
    \/ Return
    \/ \E kindofcls \in Receiver \cup {""} : InvalidateClasscaches(kindofcls)

Spec == Init /\ [][Next]_vars

----------------------------------------------------------------------------
\* Whichever call function the compiler picks, a message runs the method that a
\* search finds now.  Only messages that are not understood, and calls that the
\* fast method table answers, may run something else.
EveryVariantAgrees ==
    last.op \in {"call", "lookup"} /\ ~last.failed /\ ~last.fast =>
        LET found == Find(last.class, last.key)
        IN  last.method = found \/ (found = NoMethod /\ last.method.id = Forward)

\* "Caches might be outdated but not wrong": also fast methods, super calls and
\* forwarded messages run a method that once was the right one for the class.
OutdatedNotWrong ==
    last.method # NoMethod => <<last.class, last.key, last.method>> \in seen

\* While calls are checked for their thread, no thread affine method of a
\* thread affine object runs unchecked, for such methods never get into a cache.
AffineIsChecked ==
    /\ "tao" \in debug /\ last.op \in {"call", "super"}
    /\ last.class \in Affine \ AlwaysEmpty /\ last.method.affine
    => last.checked

\* A class whose standardimpmask has the bit of a method family runs the standard
\* implementation.  "Recomputes the mask using cacheless lookups" (infraclass.c
\* 1136), but the lookups find the overridden method in the cache.
StandardIsCurrent ==
    \A c \in Class : \A id \in mask[c] : Find(c, id) = StandardImp(id)

\* A lookup without forwarding returns nothing exactly if there is no method,
\* even if an earlier message has put the forward method into the cache.
NoForwardIsFound ==
    last.op = "noforward" => last.method = Find(last.class, last.key)

\* Every lookup returns what the method search does, whoever asks and whatever the
\* caches hold (call.c, class-lookup.c).
LookupsAgree == EveryVariantAgrees /\ NoForwardIsFound
=============================================================================
