----------------------------- MODULE ThreadInfo -----------------------------
(***************************************************************************)
(* What a thread keeps in its threadinfo: memory of freed instances, kept  *)
(* per class for reuse (the build's default, REUSE_ALLOC_THREAD), and the  *)
(* stack of its exception handlers.  Instances wander between threads: one *)
(* may allocate what another frees.                                        *)
(***************************************************************************)
EXTENDS Integers, Sequences, FiniteSets, SequencesExt

CONSTANTS Thread, NoThread,
          Class,            \* names
          Index,            \* the classindex of each
          ThreadAffine,     \* classes whose instances belong to a thread
          DefaultAllocator, \* classes that use the default allocator
          Root,             \* the exceptions' root class, NSException
          Super,            \* of the classes of exceptions
          Extra,            \* extra bytes asked for
          Block,            \* memory
          MaxBusy           \* bound: blocks and @try statements in use at a time

ASSUME ClassAssumption ==
    /\ ThreadAffine \cup DefaultAllocator \subseteq Class
    /\ Index \in [Class -> Nat] /\ \A c, d \in Class : Index[c] = Index[d] => c = d
ASSUME ThreadAssumption == NoThread \notin Thread
ASSUME ExtraAssumption == Extra \subseteq Nat

VARIABLES memory,       \* what the blocks hold
          instances,    \* blocks that are instances
          autoreleased, \* instances a thread's autorelease pool releases (external)
          allocated,    \* blocks the allocators have given out
          pools,        \* threadinfo->reuseallocsperclassindex: thread -> classindex -> blocks
          life,         \* of the threads: "none", "running", "unset", "gone"
          frames,       \* the @try statements a thread is in, outermost first
          top,          \* threadinfo->exception_stack: a frame or 0
          aborted       \* an exception was not caught

vars == <<memory, instances, autoreleased, allocated, pools, life, frames, top, aborted>>
handlers == <<frames, top, aborted>>

allocationsize == 1
Indices == {Index[c] : c \in Class}
\* A block: its size, the header, and the instance variables ("zero", "used" or
\* "garbage"), with the class and the creator it is to be an instance for
NoMemory == [size |-> 0, isa |-> "", thread |-> NoThread, retaincount |-> 0, ivars |-> "garbage",
             fresh |-> FALSE, class |-> "", by |-> NoThread, zeroed |-> FALSE, extra |-> 0]

Init ==
    /\ memory = [b \in Block |-> NoMemory] /\ instances = {} /\ allocated = {}
    /\ autoreleased = [t \in Thread |-> {}]
    /\ pools = [t \in Thread |-> [i \in Indices |-> <<>>]]
    /\ life = [t \in Thread |-> "none"]
    /\ frames = [t \in Thread |-> <<>>] /\ top = [t \in Thread |-> 0] /\ aborted = FALSE

Busy == Cardinality(allocated) + Cardinality(UNION {{t} \X DOMAIN frames[t] : t \in Thread})

Runs(t) == ~aborted /\ life[t] = "running"

\* mulle_objc_thread_setup_threadinfo
Setup(t) ==
    /\ ~aborted /\ life[t] = "none"
    /\ life' = [life EXCEPT ![t] = "running"]
    /\ UNCHANGED <<memory, instances, autoreleased, allocated, pools, handlers>>

----------------------------------------------------------------------------
(* Instances *)

\* _mulle_objc_infraclass_reuse_alloc_thread: only a block of the plain size is
\* taken from the thread's own pool
Reusable(t, c, extra) == extra = 0 /\ c \in DefaultAllocator /\ pools[t][Index[c]] # <<>>

\* _mulle_objc_objectheader_init
header_init(m, t, c, zeroed) ==
    [m EXCEPT !.isa = c,
              !.retaincount = IF zeroed THEN @ ELSE 0,
              !.thread = IF c \in ThreadAffine THEN t ELSE IF zeroed THEN @ ELSE NoThread]

\* _mulle_objc_infraclass_allocator_alloc_instance_extra and ..._nonzeroed
AllocInstance(t, c, extra, zeroed, b) ==
    LET got(m) == [m EXCEPT !.fresh = TRUE, !.class = c, !.by = t, !.zeroed = zeroed, !.extra = extra]
        new == [NoMemory EXCEPT !.size = allocationsize + extra,
                                !.ivars = IF zeroed THEN "zero" ELSE "garbage",
                                !.retaincount = IF zeroed THEN 0 ELSE -1]
    IN  /\ Runs(t)
        /\ IF Reusable(t, c, extra)
           THEN /\ b = Head(pools[t][Index[c]])
                /\ pools' = [pools EXCEPT ![t][Index[c]] = Tail(@)]
                /\ memory' = [memory EXCEPT ![b] = header_init(got(@), t, c, zeroed)]
                /\ UNCHANGED allocated
           ELSE /\ Busy < MaxBusy /\ b \notin allocated /\ allocated' = allocated \cup {b}
                /\ memory' = [memory EXCEPT ![b] = header_init(got(new), t, c, zeroed)]
                /\ UNCHANGED pools
        /\ instances' = instances \cup {b}
        /\ UNCHANGED <<autoreleased, life, handlers>>

\* The client uses the instance, and may leave it to the autorelease pool of a thread
\* or give it to another one (_mulle_objc_object_set_thread_id)
Old(m) == [NoMemory EXCEPT !.size = m.size, !.isa = m.isa, !.thread = m.thread, !.ivars = m.ivars,
                           !.retaincount = m.retaincount]
MayUse(t, b) == Runs(t) /\ b \in instances /\ memory[b].thread \in {t, NoThread}
                /\ \A u \in Thread : b \notin autoreleased[u]
Use(t, b) ==
    /\ MayUse(t, b)
    /\ memory' = [memory EXCEPT ![b] = [Old(@) EXCEPT !.ivars = "used", !.retaincount = -1]]
    /\ UNCHANGED <<instances, autoreleased, allocated, pools, life, handlers>>
Autorelease(t, b) ==
    /\ MayUse(t, b)
    /\ autoreleased' = [autoreleased EXCEPT ![t] = @ \cup {b}]
    /\ UNCHANGED <<memory, instances, allocated, pools, life, handlers>>
SetThread(t, b, u) ==
    /\ MayUse(t, b) /\ memory[b].thread # u
    /\ memory' = [memory EXCEPT ![b] = [Old(@) EXCEPT !.thread = u]]
    /\ UNCHANGED <<instances, autoreleased, allocated, pools, life, handlers>>

\* _mulle_objc_infraclass_allocator_free_instance.  keep_alloc_thread zeroes the
\* memory and chains it into the pool of the thread that frees, not of the one
\* that allocated; other blocks go back to their allocator.
Kept(m) == [NoMemory EXCEPT !.size = m.size, !.ivars = "zero"]
MutKeepAndFree(t, b) ==
    LET c == memory[b].isa
    IN  /\ memory' = [memory EXCEPT ![b] = NoMemory]
        /\ allocated' = allocated \ {b}
        /\ pools' = IF c \in DefaultAllocator THEN [pools EXCEPT ![t][Index[c]] = <<b>> \o @]
                    ELSE pools
Keep(t, b) ==
    LET c == memory[b].isa
    IN  IF c \in DefaultAllocator
        THEN /\ memory' = [memory EXCEPT ![b] = Kept(@)]
             /\ pools' = [pools EXCEPT ![t][Index[c]] = <<b>> \o @]
             /\ UNCHANGED allocated
        ELSE /\ memory' = [memory EXCEPT ![b] = NoMemory]
             /\ allocated' = allocated \ {b}
             /\ UNCHANGED pools
FreeInstance(t, b) ==
    /\ MayUse(t, b)
    /\ Keep(t, b)
    /\ instances' = instances \ {b}
    /\ UNCHANGED <<autoreleased, life, handlers>>

----------------------------------------------------------------------------
(* mulle_objc_thread_unset_threadinfo *)

\* The foundation's destructor drains the autorelease pool
UnsetDrain(t) ==
    /\ ~aborted /\ frames[t] = <<>>
    /\ life[t] \in {"running", "unset"} /\ life' = [life EXCEPT ![t] = "unset"]
    /\ \E b \in autoreleased[t] :
          /\ Keep(t, b)
          /\ instances' = instances \ {b}
          /\ autoreleased' = [autoreleased EXCEPT ![t] = @ \ {b}]
    /\ UNCHANGED handlers

\* mulle_objc_threadinfo_free: the pools go last
Pooled(t) == UNION {ToSet(pools[t][i]) : i \in Indices}
FreePools(t) ==
    /\ allocated' = allocated \ Pooled(t)
    /\ memory' = [b \in Block |-> IF b \in Pooled(t) THEN NoMemory ELSE memory[b]]
    /\ pools' = [pools EXCEPT ![t] = [i \in Indices |-> <<>>]]
MutUnsetEarly(t) ==
    /\ ~aborted /\ life[t] = "running" /\ frames[t] = <<>>
    /\ allocated' = allocated \ Pooled(t)
    /\ pools' = [pools EXCEPT ![t] = [i \in Indices |->
                    SetToSeq({b \in autoreleased[t] : Index[memory[b].isa] = i})]]
    /\ instances' = instances \ autoreleased[t]
    /\ autoreleased' = [autoreleased EXCEPT ![t] = {}]
    /\ life' = [life EXCEPT ![t] = "gone"]
    /\ UNCHANGED <<memory, handlers>>
UnsetThreadinfo(t) ==
    /\ ~aborted /\ life[t] \in {"running", "unset"} /\ frames[t] = <<>>
    /\ autoreleased[t] = {}
    /\ FreePools(t)
    /\ life' = [life EXCEPT ![t] = "gone"]
    /\ UNCHANGED <<instances, autoreleased, handlers>>

----------------------------------------------------------------------------
(* Exceptions.  A frame is a @try statement with its exceptionstackentry; in  *)
(* its "catch" part the entry is off the stack.                               *)

Running == UNCHANGED <<memory, instances, autoreleased, allocated, pools, life>>

\* _mulle_objc_universe_tryenter
TryEnter(t) ==
    /\ Runs(t) /\ Busy < MaxBusy
    /\ frames' = [frames EXCEPT ![t] = Append(@, [part |-> "try", previous |-> top[t], exception |-> ""])]
    /\ top' = [top EXCEPT ![t] = Len(frames[t]) + 1]
    /\ UNCHANGED aborted /\ Running

\* _mulle_objc_universe_tryexit, at the end of the @try part
TryExit(t) ==
    /\ Runs(t) /\ frames[t] # <<>> /\ Last(frames[t]).part = "try"
    /\ top' = [top EXCEPT ![t] = Last(frames[t]).previous]
    /\ frames' = [frames EXCEPT ![t] = Front(@)]
    /\ UNCHANGED aborted /\ Running

\* _mulle_objc_universe_throw: longjmp leaves all the frames above
MutLand(t, e) ==
    IF top[t] = 0 THEN aborted' = TRUE /\ UNCHANGED <<frames, top>>
    ELSE /\ frames' = [frames EXCEPT ![t] =
                Append(SubSeq(@, 1, top[t] - 1),
                       [@[top[t]] EXCEPT !.part = "catch", !.exception = e])]
         /\ UNCHANGED <<aborted, top>>
Land(t, e) ==
    IF top[t] = 0 THEN aborted' = TRUE /\ UNCHANGED <<frames, top>>
    ELSE /\ frames' = [frames EXCEPT ![t] =
                Append(SubSeq(@, 1, top[t] - 1),
                       [@[top[t]] EXCEPT !.part = "catch", !.exception = e])]
         /\ top' = [top EXCEPT ![t] = frames[t][top[t]].previous]
         /\ UNCHANGED aborted
Throw(t, e) == Runs(t) /\ Land(t, e) /\ Running

\* mulle_objc_exception_match: NSException is everybody's superclass
match_exception(class, e) ==
    LET Lineage[c \in DOMAIN Super] == IF Super[c] \in DOMAIN Super THEN {c} \cup Lineage[Super[c]] ELSE {c}
    IN  class = Root \/ class \in Lineage[e]

\* @catch( class): the exception is handled, or thrown again
Catch(t, class) ==
    /\ Runs(t) /\ frames[t] # <<>> /\ Last(frames[t]).part = "catch"
    /\ IF match_exception(class, Last(frames[t]).exception)
       THEN frames' = [frames EXCEPT ![t] = Front(@)] /\ UNCHANGED <<top, aborted>>
       ELSE Land(t, Last(frames[t]).exception)
    /\ Running

----------------------------------------------------------------------------
Next == \E t \in Thread :
            \/ Setup(t)
            \/ \E c \in Class, extra \in Extra, zeroed \in BOOLEAN, b \in Block :
                    AllocInstance(t, c, extra, zeroed, b)
            \/ \E b \in Block : Use(t, b) \/ Autorelease(t, b) \/ FreeInstance(t, b)
            \/ \E b \in Block, u \in Thread : SetThread(t, b, u)
            \/ UnsetDrain(t) \/ UnsetThreadinfo(t)
            \/ TryEnter(t) \/ TryExit(t)
            \/ \E e \in DOMAIN Super : Throw(t, e)
            \/ \E class \in DOMAIN Super : Catch(t, class)

Spec == Init /\ [][Next]_vars

----------------------------------------------------------------------------

\* A block has one owner: it is an instance or in one pool, once, and then the
\* allocator does not give it out again (infraclass-reuse.c 88-116,
\* class-convenience.h 97-109).
BlocksHaveOneOwner ==
    /\ \A t \in Thread, i \in Indices :
          IsInjective(pools[t][i]) /\ ToSet(pools[t][i]) \cap instances = {}
    /\ \A t, u \in Thread, i, j \in Indices :
          ToSet(pools[t][i]) \cap ToSet(pools[u][j]) # {} => t = u /\ i = j
    /\ allocated = instances \cup UNION {Pooled(t) : t \in Thread}

\* Nothing is left behind by a thread that has ended, also not what its
\* autorelease pool freed at the very end (universe.c 575-590).
NothingLeftBehind ==
    \A t \in Thread : life[t] = "gone" => autoreleased[t] = {} /\ Pooled(t) = {}

\* m is the innermost @try part among the first n - 1 of some frames, or 0
IsHandler(fs, n, m) ==
    /\ m \in 0..(n - 1) /\ (m # 0 => fs[m].part = "try")
    /\ \A k \in (m + 1)..(n - 1) : fs[k].part # "try"

\* The chain of handlers is the @try parts the thread is in, innermost first: a
\* throw in a @catch part goes further out, never to a frame that was left
\* (universe-exception.c 77-160).
HandlersAreLive ==
    \A t \in Thread :
        /\ IsHandler(frames[t], Len(frames[t]) + 1, top[t])
        /\ \A n \in DOMAIN frames[t] :
              frames[t][n].part = "try" => IsHandler(frames[t], n, frames[t][n].previous)

\* An instance starts out new, whatever its memory was used for before and by
\* which thread: large enough, of its class, not retained, affine to the thread that made
\* it or to none, and zeroed if that was asked for (class-convenience.h 115-199,
\* infraclass-reuse.c 88-116).
InstancesAreNew ==
    \A b \in instances : memory[b].fresh =>
        /\ memory[b].isa = memory[b].class /\ memory[b].retaincount = 0
        /\ memory[b].thread = IF memory[b].class \in ThreadAffine THEN memory[b].by ELSE NoThread
        /\ memory[b].zeroed => memory[b].ivars = "zero"
        /\ memory[b].size >= allocationsize + memory[b].extra

\* Memory belongs to one instance, one pool or the allocator, and an instance does not
\* show what its memory was before (infraclass-reuse.c 41-116).
MemoryIsSound == BlocksHaveOneOwner /\ InstancesAreNew
=============================================================================
