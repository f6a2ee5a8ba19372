---------------------------- MODULE ClassSetup -----------------------------
(***************************************************************************)
(* The first message to a class: _mulle_objc_class_setup locks the class   *)
(* pair, sets up what the class inherits from, runs +initialize and then   *)
(* installs the method caches that let messages through without a lock.    *)
(*                                                                         *)
(* A method cache is the "initial" one (a message first does the setup),   *)
(* the "empty" one (a message searches its method every time) or a "real"  *)
(* one.  A class object is messaged through the cache of its metaclass,    *)
(* an instance through the one of the infraclass.                          *)
(*                                                                         *)
(* +initialize and +initializeSelf are client code that may message other  *)
(* classes, so setups nest; each thread has a stack of frames, one for     *)
(* every setup or method it is in.  A step is one access of shared memory. *)
(***************************************************************************)
EXTENDS Naturals, Sequences, FiniteSets, Functions

CONSTANTS
    Thread,
    Class,          \* class pairs
    Super,          \* superclass of every class, NoClass for a root
    Mixins,         \* mixin classes of every class, in enumeration order
    IsMixin,        \* the classes with MULLE_OBJC_INFRACLASS_IS_MIXIN
    AlwaysEmpty,    \* the classes with MULLE_OBJC_CLASS_ALWAYS_EMPTY_CACHE
    EarlyCache,     \* the classes whose +initialize installs the caches itself
    Sends,          \* classes that the +initialize of a class may message
    MaxCalls,       \* bound: messages sent from outside altogether
    NoClass,
    NoThread

ASSUME ClassAssumption ==
    /\ NoClass \notin Class /\ IsFiniteSet(Class)
    /\ Super \in [Class -> Class \cup {NoClass}]
    /\ Mixins \in [Class -> Seq(IsMixin)]
    /\ IsMixin \subseteq Class
    /\ AlwaysEmpty \subseteq Class /\ EarlyCache \subseteq Class
    /\ Sends \in [Class -> SUBSET Class]
ASSUME ThreadAssumption == NoThread \notin Thread
ASSUME CallsAssumption == MaxCalls \in Nat

Side == {"meta", "infra"}

VARIABLES
    lock,           \* pair->lock: the thread that holds it
    thread_id,      \* pair->thread_id
    initializing,   \* classes with MULLE_OBJC_INFRACLASS_INITIALIZING
    done,           \* classes with MULLE_OBJC_INFRACLASS_INITIALIZE_DONE
    cache,          \* cls->cachepivot of metaclass and infraclass
    ready,          \* MULLE_OBJC_CLASS_CACHE_READY of both
    cachecount,     \* universe->cachecount_1
    stack,          \* the frames of every thread, the innermost first
    calls,          \* messages sent from outside so far
    inits,          \* history: how often +initialize was called
    returned        \* history: classes whose +initialize returned

vars == <<lock, thread_id, initializing, done, cache, ready, cachecount, stack,
          calls, inits, returned>>

----------------------------------------------------------------------------
(* Frames *)

\* via is the cache the message came through, "dep" for a setup on behalf of
\* another class; i counts the classes set up before, todo holds the classes
\* +initialize has not messaged yet
Frame(c, via, pc) == [cls |-> c, via |-> via, pc |-> pc, i |-> 0, todo |-> Sends[c]]

Top(t) == Head(stack[t])

\* thread t is at label pc of a frame for class c
At(t, pc, c) == stack[t] # <<>> /\ Top(t).pc = pc /\ Top(t).cls = c

Replace(t, frame) == stack' = [stack EXCEPT ![t] = <<frame>> \o Tail(@)]
Goto(t, pc)       == Replace(t, [Top(t) EXCEPT !.pc = pc])
Push(t, frame)    == stack' = [stack EXCEPT ![t] = <<frame>> \o @]

bits    == <<initializing, done>>
caching == <<cache, ready, cachecount>>
history == <<calls, inits, returned>>

----------------------------------------------------------------------------
(* Messages *)

\* what the callback of the cache in place makes of a message
Dispatch(c, via) ==
    Frame(c, via, IF cache[c][via] = "initial" THEN "check" ELSE "method")

\* a message from outside
Message(t, c, via) ==
    /\ stack[t] = <<>>
    /\ calls < MaxCalls
    /\ calls' = calls + 1
    /\ Push(t, Dispatch(c, via))
    /\ UNCHANGED <<lock, thread_id, bits, caching, inits, returned>>

\* +initialize or +initializeSelf messages another class
Send(t, c) ==
    /\ \E pc \in {"self", "body"} : At(t, pc, c)
    /\ \E d \in Top(t).todo :
         stack' = [stack EXCEPT
                     ![t] = <<Dispatch(d, "meta"),
                              [Top(t) EXCEPT !.todo = @ \ {d}]>> \o Tail(@)]
    /\ UNCHANGED <<lock, thread_id, bits, caching, history>>

\* the method returns
MethodReturn(t, c) ==
    /\ At(t, "method", c)
    /\ stack' = [stack EXCEPT ![t] = Tail(@)]
    /\ UNCHANGED <<lock, thread_id, bits, caching, history>>

----------------------------------------------------------------------------
(* _mulle_objc_class_setup *)

\* INITIALIZING is read without the lock ...
Check(t, c) ==
    /\ At(t, "check", c)
    /\ Goto(t, IF c \in initializing THEN "owner" ELSE "lock")
    /\ UNCHANGED <<lock, thread_id, bits, caching, history>>

\* a setup for another class goes on there, one for a message runs the method
Return(t) ==
    IF Top(t).via = "dep"
    THEN stack' = [stack EXCEPT ![t] = Tail(@)]
    ELSE Goto(t, "method")

MutOwnerLocks(t, c) ==
    /\ At(t, "owner", c)
    /\ Goto(t, "lock")
    /\ UNCHANGED <<lock, thread_id, bits, caching, history>>

\* ... and so is thread_id: the thread that initializes goes slow
Owner(t, c) ==
    /\ At(t, "owner", c)
    /\ IF thread_id[c] = t THEN Return(t) ELSE Goto(t, "lock")
    /\ UNCHANGED <<lock, thread_id, bits, caching, history>>

Lock(t, c) ==
    /\ At(t, "lock", c)
    /\ lock[c] = NoThread
    /\ lock' = [lock EXCEPT ![c] = t]
    /\ Goto(t, "locked")
    /\ UNCHANGED <<thread_id, bits, caching, history>>

WriteThreadId(t, c) ==
    /\ At(t, "locked", c)
    /\ thread_id' = [thread_id EXCEPT ![c] = t]
    /\ Goto(t, "enter")
    /\ UNCHANGED <<lock, bits, caching, history>>

\* mutant: the result of setting INITIALIZING is ignored
MutSetupAgain(t, c) ==
    /\ At(t, "enter", c)
    /\ initializing' = initializing \cup {c}
    /\ Goto(t, "deps")
    /\ UNCHANGED <<lock, thread_id, done, caching, history>>

\* who sets INITIALIZING does the setup
SetInitializing(t, c) ==
    /\ At(t, "enter", c)
    /\ initializing' = initializing \cup {c}
    /\ Goto(t, IF c \in initializing THEN "quicker" ELSE "deps")
    /\ UNCHANGED <<lock, thread_id, done, caching, history>>

\* "looks like someone else was quicker, fine"
Quicker(t, c) ==
    /\ At(t, "quicker", c)
    /\ Goto(t, "unlock")
    /\ UNCHANGED <<lock, thread_id, bits, caching, history>>

\* mutant: the superclass is forgotten
MutDepsNoSuper(c) == Mixins[c]

\* _mulle_objc_metaclass_setup_superclass, whose superclass is the class itself
\* at the root, then _mulle_objc_infraclass_setup_superclasses
Deps(c) ==
    IF Super[c] = NoClass
    THEN <<c>> \o Mixins[c]
    ELSE <<Super[c]>> \o Mixins[c] \o <<Super[c]>>

\* _mulle_objc_infraclass_setup_if_needed for one class after the other
SetupDep(t, c) ==
    /\ At(t, "deps", c)
    /\ LET n    == Top(t).i + 1
           next == [Top(t) EXCEPT !.i = n]
       IN  IF n > Len(Deps(c))
           THEN Goto(t, "empty_meta")
           ELSE IF Deps(c)[n] \in done
           THEN Replace(t, next)
           ELSE stack' = [stack EXCEPT ![t] =
                             <<Frame(Deps(c)[n], "dep", "check"), next>> \o Tail(@)]
    /\ UNCHANGED <<lock, thread_id, bits, caching, history>>

\* _mulle_objc_class_setup_initialize_cache, metaclass first
EmptyCache(t, c, side) ==
    /\ At(t, IF side = "meta" THEN "empty_meta" ELSE "empty_infra", c)
    /\ cache' = [cache EXCEPT ![c][side] = IF @ = "initial" THEN "empty" ELSE @]
    /\ Goto(t, IF side = "meta" THEN "empty_infra"
               ELSE IF c \in IsMixin THEN "install_meta" ELSE "self")
    /\ UNCHANGED <<lock, thread_id, bits, ready, cachecount, history>>

\* +initializeSelf is done: +initialize is called, and the one of each mixin
CallInitialize(t, c) ==
    /\ At(t, "self", c)
    /\ inits' = [inits EXCEPT ![c] = @ + 1]
    /\ Goto(t, "body")
    /\ UNCHANGED <<lock, thread_id, bits, caching, calls, returned>>

InitializeReturn(t, c) ==
    /\ At(t, "body", c)
    /\ returned' = returned \cup {c}
    /\ Goto(t, "install_meta")
    /\ UNCHANGED <<lock, thread_id, bits, caching, calls, inits>>

\* "if someone else setup the cache during +initialize, that's OK": client
\* code that calls _mulle_objc_class_setup_initial_cache_if_needed
EarlyInstall(t, c, side) ==
    /\ At(t, "body", c)
    /\ c \in EarlyCache \ AlwaysEmpty /\ side \notin ready[c]
    /\ cachecount' = cachecount + 1
    /\ cache' = [cache EXCEPT ![c][side] = IF @ = "empty" THEN "real" ELSE @]
    /\ ready' = [ready EXCEPT ![c] = @ \cup {side}]
    /\ UNCHANGED <<lock, thread_id, bits, stack, history>>

\* _mulle_objc_class_setup_initial_cache_if_needed: the caches are counted
\* before the compare-and-swap, CACHE_READY is set after it
AfterInstall(t, side) ==
    Goto(t, IF side = "meta" THEN "install_infra" ELSE "done")

CountCache(t, c, side) ==
    /\ At(t, IF side = "meta" THEN "install_meta" ELSE "install_infra", c)
    /\ \/ /\ side \in ready[c]
          /\ AfterInstall(t, side)
          /\ UNCHANGED <<ready, cachecount>>
       \/ /\ side \notin ready[c] /\ c \in AlwaysEmpty
          /\ ready' = [ready EXCEPT ![c] = @ \cup {side}]
          /\ AfterInstall(t, side)
          /\ UNCHANGED cachecount
       \/ /\ side \notin ready[c] /\ c \notin AlwaysEmpty
          /\ cachecount' = cachecount + 1
          /\ Goto(t, IF side = "meta" THEN "swap_meta" ELSE "swap_infra")
          /\ UNCHANGED ready
    /\ UNCHANGED <<lock, thread_id, bits, cache, history>>

SwapCache(t, c, side) ==
    /\ At(t, IF side = "meta" THEN "swap_meta" ELSE "swap_infra", c)
    /\ cache' = [cache EXCEPT ![c][side] = IF @ = "empty" THEN "real" ELSE @]
    /\ ready' = [ready EXCEPT ![c] = @ \cup {side}]
    /\ AfterInstall(t, side)
    /\ UNCHANGED <<lock, thread_id, bits, cachecount, history>>

SetDone(t, c) ==
    /\ At(t, "done", c)
    /\ done' = done \cup {c}
    /\ Goto(t, "unlock")
    /\ UNCHANGED <<lock, thread_id, initializing, caching, history>>

\* mutant: the lock is not released
MutUnlockMissing(t, c) ==
    /\ At(t, "unlock", c)
    /\ Return(t)
    /\ UNCHANGED <<lock, thread_id, bits, caching, history>>

Unlock(t, c) ==
    /\ At(t, "unlock", c)
    /\ lock' = [lock EXCEPT ![c] = NoThread]
    /\ Return(t)
    /\ UNCHANGED <<thread_id, bits, caching, history>>

----------------------------------------------------------------------------
Init ==
    /\ lock = [c \in Class |-> NoThread]
    /\ thread_id = [c \in Class |-> NoThread]
    /\ initializing = {}
    /\ done = {}
    /\ cache = [c \in Class |-> [side \in Side |-> "initial"]]
    /\ ready = [c \in Class |-> {}]
    /\ cachecount = 0
    /\ stack = [t \in Thread |-> <<>>]
    /\ calls = 0
    /\ inits = [c \in Class |-> 0]
    /\ returned = {}

\* the steps of a message under way
Step(t) ==
    \E c \in Class :
        \/ Send(t, c) \/ MethodReturn(t, c)
        \/ Check(t, c) \/ Owner(t, c) \/ Lock(t, c) \/ WriteThreadId(t, c)
        \/ SetInitializing(t, c) \/ Quicker(t, c) \/ SetupDep(t, c)
        \/ CallInitialize(t, c) \/ InitializeReturn(t, c)
        \/ SetDone(t, c) \/ Unlock(t, c)
        \/ \E side \in Side :
              \/ EmptyCache(t, c, side) \/ EarlyInstall(t, c, side)
              \/ CountCache(t, c, side) \/ SwapCache(t, c, side)

Next ==
    \E t \in Thread :
        \/ Step(t)
        \/ \E c \in Class \ IsMixin, via \in Side : Message(t, c, via)

Spec == Init /\ [][Next]_vars

\* threads are scheduled, and +initialize returns
FairSpec == Spec /\ \A t \in Thread : WF_vars(Step(t))

----------------------------------------------------------------------------
(* Properties *)

Depth(t) == 1 .. Len(stack[t])

\* labels with the lock held
Locked == {"locked", "enter", "quicker", "deps", "empty_meta", "empty_infra",
           "self", "body", "install_meta", "swap_meta", "install_infra",
           "swap_infra", "done", "unlock"}

Labels == Locked \cup {"check", "owner", "lock", "method"}

\* thread t is inside the locked part of a setup of class c
SettingUp(t, c) ==
    \E d \in Depth(t) : stack[t][d].cls = c /\ stack[t][d].pc \in Locked

TypeOK ==
    /\ lock \in [Class -> Thread \cup {NoThread}]
    /\ thread_id \in [Class -> Thread \cup {NoThread}]
    /\ initializing \subseteq Class
    /\ done \subseteq Class
    /\ cache \in [Class -> [Side -> {"initial", "empty", "real"}]]
    /\ ready \in [Class -> SUBSET Side]
    /\ cachecount \in 0 .. 2 * Cardinality(Class)
    /\ \A t \in Thread : \A d \in Depth(t) :
          stack[t][d] \in [cls : Class, via : Side \cup {"dep"}, pc : Labels,
                           i : Nat, todo : SUBSET Class]
    /\ calls \in 0 .. MaxCalls
    /\ inits \in [Class -> Nat]
    /\ returned \subseteq Class

\* +initialize is called once per class, however many threads send the
\* first message, and never for a mixin.
InitializeOnce ==
    \A c \in Class : inits[c] <= (IF c \in IsMixin THEN 0 ELSE 1)

\* A thread that finds INITIALIZING set once it has the lock finds the setup
\* complete, as _mulle_objc_class_setup asserts: a thread never waits for
\* itself, and nobody leaves the lock half way.
QuickerIsDone ==
    \A t \in Thread, c \in Class : At(t, "quicker", c) => c \in done

\* Between INITIALIZING and INITIALIZE_DONE the lock is held by the thread
\* that thread_id names and that runs the setup: the unlocked test of
\* _mulle_objc_class_setup never takes another thread for the initializing
\* one.
InitializerHoldsLock ==
    \A c \in initializing \ done :
        /\ lock[c] \in Thread
        /\ thread_id[c] = lock[c]
        /\ SettingUp(lock[c], c)

\* A message can only be fast once +initialize of its class has returned,
\* unless +initialize asks for it.
RealCacheAfterInitialize ==
    \A c \in Class \ (IsMixin \cup EarlyCache) : \A side \in Side :
        cache[c][side] = "real" => c \in returned

\* cachecount_1 covers every real cache: as long as it is zero, adding
\* methods skips the invalidation of caches.
CacheCountCovers ==
    Cardinality({p \in Class \X Side : cache[p[1]][p[2]] = "real"}) <= cachecount

\* +initialize is messaged to the superclass first, and the mixins are set
\* up before: "It is only guaranteed that +initialize on the superclass is
\* messaged before the subclass".
SuperMessagedFirst ==
    \A c \in Class :
        inits[c] > 0 =>
            /\ Super[c] # NoClass => inits[Super[c]] > 0
            /\ Range(Mixins[c]) \subseteq done

\* The threads that wait for a lock do not wait for each other: "we want to
\* lock, so that the other thread can finish up".
OtherCanFinish ==
    ~ \E S \in (SUBSET Thread) \ {{}} :
        \A t \in S : \E c \in Class : At(t, "lock", c) /\ lock[c] \in S

\* Every message is answered.
MessagesAnswered == \A t \in Thread : stack[t] # <<>> ~> stack[t] = <<>>

\* The programs for which +initialize has an order: the classes are ranked,
\* superclass and mixins below the class, as the loader adds them first, the
\* superclass no mixin, and +initialize messages no class that ranks above its own.
Descending(rank) ==
    \A c \in Class :
        /\ Super[c] # NoClass => Super[c] \notin IsMixin /\ rank[Super[c]] < rank[c]
        /\ \A m \in Range(Mixins[c]) : rank[m] < rank[c]
        /\ \A d \in Sends[c] : rank[d] <= rank[c]

\* One thread sets a class up, once, under its lock, and nobody takes the class for
\* ready before that is done (class-initialize.c 96-320).
SetupIsExclusive ==
    /\ TypeOK /\ InitializeOnce /\ QuickerIsDone /\ InitializerHoldsLock
    /\ RealCacheAfterInitialize /\ CacheCountCovers
=============================================================================
