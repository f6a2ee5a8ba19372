------------------------------ MODULE Universe ------------------------------
(***************************************************************************)
(* The life of the universe: the first user "bangs" it, threads register   *)
(* with it and retain it, the last release crunches it again.              *)
(*                                                                         *)
(* version is the word the runtime version is kept in.  It doubles as the  *)
(* state of the universe and, through compare-and-swap, as its lock.       *)
(* retaincount_1 counts the references beyond the one of the thread that   *)
(* made the universe.  A step is one access of shared memory or one call   *)
(* of client code.                                                         *)
(***************************************************************************)
EXTENDS Integers, Sequences, FiniteSets, Functions

CONSTANTS
    Thread,
    Class,          \* classes in the order of their classindex
    Super,          \* superclass of every class but roots (a function on some)
    Mixin,          \* the classes with MULLE_OBJC_INFRACLASS_IS_MIXIN
    Waits,          \* config.wait_threads_on_exit or config.pedantic_exit
    Pedantic,       \* config.pedantic_exit
    MaxLives,       \* bound: how often the universe is made
    MaxLoads,       \* bound: loadinfos enqueued in one life
    NoThread

\* a class with all its superclasses: the least set with the class that is
\* closed under Super
Lineage == [c \in Range(Class) |->
    {d \in Range(Class) : \A S \in SUBSET Range(Class) :
        (c \in S /\ \A e \in S \cap DOMAIN Super : Super[e] \in S) => d \in S}]

\* The friends of the universe, and the objects it holds for the foundation
Other == {"userinfo", "foundation", "objects"}

ASSUME ThreadAssumption == NoThread \notin Thread /\ IsFiniteSet(Thread)
\* a superclass is registered, and gets its classindex, before its subclasses
ASSUME ClassAssumption ==
    /\ Class \in Seq(Range(Class)) /\ Other \cap Range(Class) = {}
    /\ \A i, j \in DOMAIN Class : Class[i] = Class[j] => i = j
    /\ Mixin \subseteq Range(Class) /\ DOMAIN Super \subseteq Range(Class)
    /\ \A i \in DOMAIN Class : Class[i] \in DOMAIN Super =>
          \E j \in 1..(i - 1) : Super[Class[i]] = Class[j]
ASSUME ConfigAssumption == Waits \in BOOLEAN /\ Pedantic \in BOOLEAN /\ (Pedantic => Waits)
ASSUME BoundAssumption == MaxLives \in Nat /\ MaxLoads \in Nat

VARIABLES
    version,        \* universe->version
    retaincount_1,  \* universe->retaincount_1
    thread,         \* universe->thread
    aba,            \* threads registered for garbage collection
    threadinfo,     \* threads with thread local storage of this universe
    done,           \* classes with MULLE_OBJC_INFRACLASS_INITIALIZE_DONE
    waitqueues,     \* number of missing classes that classes, categories wait for
    loader,         \* who holds waitqueues.lock
    loads,          \* loadinfos enqueued
    status,         \* what the check of the wait queues said last
    pc,             \* where every thread is
    left,           \* calls a crunching thread has still to make
    calls,          \* history: <<phase, class>> called by the crunch, in order
    lives,          \* history: how often the universe was made
    failed          \* mulle_objc_universe_fail_inconsistency was called

vars == <<version, retaincount_1, thread, aba, threadinfo, done, waitqueues, loader,
          loads, status, pc, left, calls, lives, failed>>

----------------------------------------------------------------------------
(* The states of a universe *)

\* "ready" is MULLE_OBJC_RUNTIME_VERSION, "leaving" that plus 1
Version == {"uninitialized", "initializing", "ready", "leaving", "deinitializing",
            "deallocating"}

is_initialized  == version \in {"ready", "leaving"}
is_messaging    == is_initialized \/ version = "deinitializing"

\* threads that may be in the middle of a message
User == {t \in Thread : pc[t] \in {"running", "load", "loaded"}}

\* threads that have the universe for themselves, to make it or to take it down
Owner == {t \in Thread : pc[t] \in {"init", "bang unlock", "willFinalize", "deinit", "done",
                                    "check", "finalize", "free", "unlock"}}

Goto(t, label) == pc' = [pc EXCEPT ![t] = label]

\* what stays as it is while a thread only moves on
tables == <<thread, aba, threadinfo, done>>
queues == <<waitqueues, loader, loads, status>>
history == <<calls, lives, failed>>

----------------------------------------------------------------------------
(* Making the universe *)

\* The fields of a universe that is all zeroes, as calloc or the memset at the
\* end of a crunch leave it
Zeroed ==
    /\ retaincount_1' = 0
    /\ thread' = NoThread
    /\ done' = {}
    /\ waitqueues' = [classes |-> 0, categories |-> 0]
    /\ loads' = 0
    /\ status' = "none"

\* A caller of mulle_objc_global_register_universe finds the universe made, or
\* sets out to make it.
RegisterUniverse(t) ==
    /\ pc[t] = "idle"
    /\ ~is_initialized
    /\ lives + Cardinality({u \in Thread : pc[u] = "bang"}) < MaxLives
    /\ Goto(t, "bang")
    /\ UNCHANGED <<version, retaincount_1, tables, queues, left, history>>

\* The first loop of __mulle_objc_universe_bang: the lock, or somebody else
\* was quicker; any other state is waited out.
BangLock(t) ==
    /\ pc[t] = "bang"
    /\ \/ /\ version = "uninitialized"
          /\ version' = "initializing"
          /\ lives' = lives + 1
          /\ Goto(t, "init")
       \/ /\ version = "ready"
          /\ Goto(t, "idle")
          /\ UNCHANGED <<version, lives>>
    /\ UNCHANGED <<retaincount_1, tables, queues, left, calls, failed>>

\* _mulle_objc_universe_init, which the lock keeps to one thread: the creator
\* is registered for garbage collection and gets its thread local storage.
UniverseInit(t) ==
    /\ pc[t] = "init"
    /\ thread' = t
    /\ aba' = aba \cup {t}
    /\ threadinfo' = threadinfo \cup {t}
    /\ calls' = <<>>
    /\ Goto(t, "bang unlock")
    /\ UNCHANGED <<version, retaincount_1, done, queues, left, lives, failed>>

BangUnlock(t) ==
    /\ pc[t] = "bang unlock"
    /\ version = "initializing"
    /\ version' = "ready"
    /\ Goto(t, "running")
    /\ UNCHANGED <<retaincount_1, tables, queues, left, history>>

----------------------------------------------------------------------------
(* Threads of the program *)

\* A thread starts another one and retains the universe for it.
MutRetainMissing(t, u) ==
    /\ pc[t] = "running" /\ pc[u] = "idle"
    /\ Goto(u, "start")
    /\ UNCHANGED <<version, retaincount_1, tables, queues, left, history>>
Retain(t, u) ==
    /\ pc[t] = "running" /\ pc[u] = "idle"
    /\ retaincount_1' = retaincount_1 + 1
    /\ Goto(u, "start")
    /\ UNCHANGED <<version, tables, queues, left, history>>

\* mulle_objc_thread_register and mulle_objc_thread_setup_threadinfo
ThreadRegister(t) ==
    /\ pc[t] = "start"
    /\ aba' = aba \cup {t}
    /\ threadinfo' = threadinfo \cup {t}
    /\ Goto(t, "running")
    /\ UNCHANGED <<version, retaincount_1, thread, done, queues, left, history>>

\* The thread messages a class; the first message initializes it and all its
\* superclasses.
Message(t, c) ==
    /\ pc[t] = "running"
    /\ c \notin done
    /\ done' = done \cup Lineage[c]
    /\ UNCHANGED <<version, retaincount_1, thread, aba, threadinfo, queues, pc, left, history>>

\* A loadinfo is enqueued under waitqueues.lock.  What it misses is put into
\* the queues, what was missing leaves them.
LoadLock(t) ==
    /\ pc[t] = "running"
    /\ loader = NoThread /\ loads < MaxLoads
    /\ loader' = t
    /\ loads' = loads + 1
    /\ Goto(t, "load")
    /\ UNCHANGED <<version, retaincount_1, tables, waitqueues, status, left, history>>

Load(t) ==
    /\ pc[t] = "load"
    /\ \E n, m \in 0..1 : waitqueues' = [classes |-> n, categories |-> m]
    /\ Goto(t, "loaded")
    /\ UNCHANGED <<version, retaincount_1, tables, loader, loads, status, left, history>>

LoadUnlock(t) ==
    /\ pc[t] = "loaded"
    /\ loader' = NoThread
    /\ Goto(t, "running")
    /\ UNCHANGED <<version, retaincount_1, tables, waitqueues, loads, status, left, history>>

\* mulle_objc_thread_deregister and the destructor of the thread local storage
ThreadDeregister(t) ==
    /\ pc[t] = "running" /\ t # thread
    /\ aba' = aba \ {t}
    /\ threadinfo' = threadinfo \ {t}
    /\ Goto(t, "release")
    /\ UNCHANGED <<version, retaincount_1, thread, done, queues, left, history>>

\* _mulle_objc_universe_release: its creator first waits for the others
Release(t) ==
    /\ \/ pc[t] = "release"
       \/ pc[t] = "running" /\ t = thread
    /\ Goto(t, IF Waits /\ t = thread THEN "wait" ELSE "decrement")
    /\ UNCHANGED <<version, retaincount_1, tables, queues, left, history>>

ReleaseWait(t) ==
    /\ pc[t] = "wait"
    /\ retaincount_1 = 0
    /\ Goto(t, "decrement")
    /\ UNCHANGED <<version, retaincount_1, tables, queues, left, history>>

ReleaseDecrement(t) ==
    /\ pc[t] = "decrement"
    /\ retaincount_1' = retaincount_1 - 1
    /\ Goto(t, IF Pedantic /\ retaincount_1 = 0 THEN "crunch" ELSE "idle")
    /\ UNCHANGED <<version, tables, queues, left, history>>

----------------------------------------------------------------------------
(* Taking the universe down *)

\* _mulle_objc_universe_call_infraclasses goes through the classes by falling
\* classindex; whoever is neither a class nor has a method for it is passed over.
MutForEachRising(phase) == [i \in DOMAIN Class |-> <<phase, Class[i]>>]
ForEach(phase) == [i \in DOMAIN Class |-> <<phase, Class[Len(Class) + 1 - i]>>]

\* The friends of the universe: user program and foundation
Friends(phase) == <<<<phase, "userinfo">>, <<phase, "foundation">>>>

\* The -dealloc calls of _mulle_objc_universe_dealloc_placeholders, in the order
\* of the class table
Placeholders == [i \in 1..3 |-> <<<<"singleton", "classcluster", "instantiate">>[i], "objects">>]

\* The calls of _mulle_objc_universe_willfinalize
WillFinalizeCalls == ForEach("willFinalize") \o Friends("willFinalize")

\* The calls of _mulle_objc_universe_done while classes can be messaged
DoneCalls ==
    ForEach("finalize") \o Friends("finalize")
    \o ForEach("deinitialize") \o ForEach("deinitializeSelf") \o ForEach("unload")
    \o Placeholders \o Friends("destructor")

\* Whether a class gets a call: not before +initialize, for mixins less
Applies(call) ==
    call[2] \in Range(Class) =>
        /\ call[1] \in {"willFinalize", "finalize", "deinitialize"} => call[2] \in done
        /\ call[1] \in {"deinitialize", "deinitializeSelf"} => call[2] \notin Mixin

\* The first loop of _mulle_objc_universe_crunch.  __mulle_atomic_pointer_cas
\* returns what it found, so a swap that succeeds is noticed only by the next
\* turn of the loop, which finds the new value.
CrunchLock(t) ==
    /\ pc[t] = "crunch"
    /\ \/ version = "uninitialized" /\ Goto(t, "idle") /\ UNCHANGED <<version, left>>
       \/ version = "ready" /\ version' = "leaving" /\ UNCHANGED <<pc, left>>
       \/ /\ version = "leaving"
          /\ left' = [left EXCEPT ![t] = WillFinalizeCalls]
          /\ Goto(t, "willFinalize")
          /\ UNCHANGED version
    /\ UNCHANGED <<retaincount_1, tables, queues, history>>

\* One call of client code, which may send a class its first message.
CrunchCall(t) ==
    /\ pc[t] \in {"willFinalize", "finalize"}
    /\ left[t] # <<>>
    /\ left' = [left EXCEPT ![t] = Tail(@)]
    /\ IF Applies(Head(left[t]))
       THEN /\ calls' = Append(calls, Head(left[t]))
            /\ \E c \in Range(Class) : done' \in {done, done \cup Lineage[c]}
       ELSE UNCHANGED <<calls, done>>
    /\ UNCHANGED <<version, retaincount_1, thread, aba, threadinfo, queues, pc, lives, failed>>

\* The second loop of the crunch, of the same form as the first.
CrunchDeinit(t) ==
    /\ \/ /\ pc[t] = "willFinalize" /\ left[t] = <<>>
          /\ Goto(t, "deinit")
          /\ UNCHANGED version
       \/ /\ pc[t] = "deinit" /\ version = "leaving"
          /\ version' = "deinitializing"
          /\ UNCHANGED pc
       \/ /\ pc[t] = "deinit" /\ version = "deinitializing"
          /\ Goto(t, "done")
          /\ UNCHANGED version
    /\ UNCHANGED <<retaincount_1, tables, queues, left, history>>

\* The start of _mulle_objc_universe_done up to the first count of
\* _mulle_objc_universe_check_waitqueues, which takes no lock.
DoneStart(t) ==
    /\ pc[t] = "done"
    /\ IF thread \notin {t, NoThread}
       THEN failed' = TRUE /\ UNCHANGED <<pc, status>>
       ELSE /\ Goto(t, "check")
            /\ status' = IF waitqueues.classes = 0 THEN "no classes" ELSE "classes"
            /\ UNCHANGED failed
    /\ UNCHANGED <<version, retaincount_1, tables, waitqueues, loader, loads, left, calls, lives>>

\* The second count; what is left over is listed under the lock, if it is free.
MutCheckClasses(t) ==
    /\ pc[t] = "check"
    /\ status' = IF status = "no classes" THEN "ok"
                 ELSE IF loader # NoThread THEN "locked" ELSE "incomplete"
    /\ left' = [left EXCEPT ![t] = DoneCalls]
    /\ Goto(t, "finalize")
    /\ UNCHANGED <<version, retaincount_1, tables, waitqueues, loader, loads, history>>
CheckWaitqueues(t) ==
    /\ pc[t] = "check"
    /\ status' = IF status = "no classes" /\ waitqueues.categories = 0 THEN "ok"
                 ELSE IF loader # NoThread THEN "locked" ELSE "incomplete"
    /\ left' = [left EXCEPT ![t] = DoneCalls]
    /\ Goto(t, "finalize")
    /\ UNCHANGED <<version, retaincount_1, tables, waitqueues, loader, loads, history>>

\* From here on nobody can message.
StopMessaging(t) ==
    /\ pc[t] = "finalize" /\ left[t] = <<>>
    /\ IF version = "deinitializing"
       THEN version' = "deallocating" /\ Goto(t, "free") /\ UNCHANGED failed
       ELSE failed' = TRUE /\ UNCHANGED <<version, pc>>
    /\ UNCHANGED <<retaincount_1, tables, queues, left, calls, lives>>

\* Garbage collection, classes, tables, thread local storage and mutexes go;
\* the default universe is cleared for its next life.
Free(t) ==
    /\ pc[t] = "free"
    /\ aba' = aba \ {t}
    /\ threadinfo' = threadinfo \ {t}
    /\ Zeroed
    /\ Goto(t, "unlock")
    /\ UNCHANGED <<version, loader, left, history>>

MutUnlockMissing(t) ==
    /\ pc[t] = "unlock" /\ version = "deallocating"
    /\ Goto(t, "idle")
    /\ UNCHANGED <<version, retaincount_1, tables, queues, left, history>>
CrunchUnlock(t) ==
    /\ pc[t] = "unlock"
    /\ version = "deallocating"
    /\ version' = "uninitialized"
    /\ Goto(t, "idle")
    /\ UNCHANGED <<retaincount_1, tables, queues, left, history>>

----------------------------------------------------------------------------
Init ==
    /\ version = "uninitialized"
    /\ retaincount_1 = 0
    /\ thread = NoThread
    /\ aba = {} /\ threadinfo = {} /\ done = {}
    /\ waitqueues = [classes |-> 0, categories |-> 0]
    /\ loader = NoThread /\ loads = 0 /\ status = "none"
    /\ pc = [t \in Thread |-> "idle"]
    /\ left = [t \in Thread |-> <<>>]
    /\ calls = <<>> /\ lives = 0 /\ failed = FALSE

\* Steps of a thread inside the runtime
Runtime(t) ==
    \/ BangLock(t) \/ UniverseInit(t) \/ BangUnlock(t)
    \/ Load(t) \/ LoadUnlock(t)
    \/ ReleaseWait(t) \/ ReleaseDecrement(t)
    \/ CrunchLock(t) \/ CrunchCall(t) \/ CrunchDeinit(t) \/ DoneStart(t) \/ CheckWaitqueues(t)
    \/ StopMessaging(t) \/ Free(t) \/ CrunchUnlock(t)

\* Calls of the program
Client(t) ==
    \/ RegisterUniverse(t)
    \/ \E u \in Thread : Retain(t, u)
    \/ ThreadRegister(t)
    \/ \E c \in Range(Class) : Message(t, c)
    \/ LoadLock(t)
    \/ ThreadDeregister(t)
    \/ Release(t)

Next == ~failed /\ \E t \in Thread : Runtime(t) \/ Client(t)

Fairness == \A t \in Thread : WF_vars(~failed /\ Runtime(t))

Spec == Init /\ [][Next]_vars
FairSpec == Spec /\ Fairness

----------------------------------------------------------------------------
(* Properties *)

\* The state is well typed; in particular the retain count never drops below
\* the -1 of a universe whose last reference is gone.
TypeOK ==
    /\ version \in Version
    /\ retaincount_1 \in -1..Cardinality(Thread)
    /\ thread \in Thread \cup {NoThread}
    /\ aba \subseteq Thread /\ threadinfo \subseteq Thread /\ done \subseteq Range(Class)
    /\ waitqueues \in [classes : 0..1, categories : 0..1]
    /\ loader \in Thread \cup {NoThread} /\ loads \in 0..MaxLoads
    /\ lives \in 0..MaxLives /\ failed \in BOOLEAN

\* No thread can be in a message, in the loader or between two garbage
\* collection calls unless the universe is messaging and knows the thread: the
\* assertions of _mulle_objc_thread_checkin_universe_gc and
\* _mulle_objc_thread_remove_universe_gc (universe.c 2411-2459).
UsersAreServed == \A t \in User : is_messaging /\ t \in aba /\ t \in threadinfo

\* A universe is made, or taken down, by one thread at a time: "ensure only one
\* thread is going at it" in _mulle_objc_universe_crunch (universe.c 1002).
OwnerIsAlone == Cardinality(Owner) <= 1

\* The failures of _mulle_objc_universe_done never happen: the crunch is run by
\* the thread that made the universe, and nobody changes the version meanwhile
\* (universe.c 2143-2145, 2252-2258).
NeverFails == ~failed

\* the phases of the teardown
Phase == <<"willFinalize", "finalize", "deinitialize", "deinitializeSelf", "unload",
           "singleton", "classcluster", "instantiate", "destructor">>
Rank(phase) == CHOOSE i \in DOMAIN Phase : Phase[i] = phase

\* Teardown calls come phase by phase, and in each phase a class is called
\* after all its subclasses (universe.c 1624-1648, 2134-2246).
TeardownOrder ==
    \A j \in DOMAIN calls : \A i \in 1..(j - 1) :
        /\ Rank(calls[i][1]) <= Rank(calls[j][1])
        /\ (calls[i][1] = calls[j][1] /\ calls[j][2] \in Range(Class))
                => calls[i][2] \notin Lineage[calls[j][2]]

\* The last check of the wait queues counts without the lock, but is exact: by
\* then no other thread can be loading (universe.c 1687-1762, 2149).
StuckIsReported ==
    \A t \in Thread : pc[t] \in {"finalize", "free"} =>
        status = IF waitqueues.classes + waitqueues.categories = 0 THEN "ok" ELSE "incomplete"

\* Once the creator waits and nobody else has a reference, the universe is
\* taken down completely and can be made anew (universe.c 2313-2352, 985-1094).
LastReleaseUnwinds ==
    ((\E t \in Thread : pc[t] = "wait") /\ retaincount_1 = 0) ~> (version = "uninitialized")

\* Who may use a universe and who may make or take it down: users only while it
\* messages, one owner at a time, and none of the failures of the teardown.
OwnershipHolds == TypeOK /\ UsersAreServed /\ OwnerIsAlone /\ NeverFails
=============================================================================
