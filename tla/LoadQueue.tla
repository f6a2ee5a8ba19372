----------------------------- MODULE LoadQueue -----------------------------
(***************************************************************************)
(* Loading classes, mixins and categories in whatever order the linker     *)
(* and the shared libraries bring them: _mulle_objc_loadinfo_enqueue_nofail*)
(* and the wait queues behind it.  A loadable whose dependencies are not   *)
(* there waits in the queue of the first class it misses; installing a     *)
(* class, or a category of it, tries everything again that waits there.    *)
(* The +load methods are queued up and called at the end.                  *)
(*                                                                         *)
(* One loadinfo at a time is loaded, under waitqueues.lock.  The recursion *)
(* of the code (an installed class wakes waiting loadables, which are      *)
(* installed and wake others) is the stack work.  Installed classes can be *)
(* messaged by other threads at any time, which initializes them.          *)
(***************************************************************************)
EXTENDS Naturals, Sequences, FiniteSets, FiniteSetsExt, Functions

CONSTANTS
    Loadable,       \* loadclasses, loadmixins and loadcategories
    Kind,           \* "class", "mixin" or "category"
    ClassId,        \* class ids
    ClassOf,        \* info->classid: of the class, or the one extended
    CategoryId,     \* category ids
    CategoryOf,     \* info->categoryid, NoCategory for classes and mixins
    SuperOf,        \* info->superclassid, NoClass for roots and categories
    MixinsOf,       \* info->mixinids
    Dependencies,   \* what +dependencies returns: <<class id, category id>>s
    Outdated,       \* loadables compiled against another ivar layout
    HasLoad,        \* loadables with a +load method
    Info,           \* loadinfos: records of three lists of loadables
    Hash,           \* _mulle_objc_classid_to_waitqueue_hash
    NoClass, NoCategory, NoInfo

ASSUME LoadableAssumption ==
    /\ Kind \in [Loadable -> {"class", "mixin", "category"}]
    /\ ClassOf \in [Loadable -> ClassId]
    /\ CategoryOf \in [Loadable -> CategoryId \cup {NoCategory}]
    /\ SuperOf \in [Loadable -> ClassId \cup {NoClass}]
    /\ MixinsOf \in [Loadable -> Seq(ClassId)]
    /\ Dependencies \in [Loadable -> Seq(ClassId \X (CategoryId \cup {NoCategory}))]
    /\ Outdated \subseteq Loadable /\ HasLoad \subseteq Loadable
    /\ Hash \in [ClassId -> Range(Hash)]
    /\ NoClass \notin ClassId /\ NoCategory \notin CategoryId /\ NoInfo \notin Info

\* what a sane loadcategory is, mulle_objc_loadcategory_is_sane
ASSUME CategoryAssumption ==
    \A x \in Loadable : Kind[x] = "category" <=> CategoryOf[x] # NoCategory

\* What a loadinfo brings.  Every loadable is static data, listed once in one
\* loadinfo.
Contents(i) == Range(i.loadclasslist) \cup Range(i.loadmixinlist) \cup Range(i.loadcategorylist)
Lists(kind) == {s \in Seq(Loadable) : IsInjective(s) /\ \A x \in Range(s) : Kind[x] = kind}
ASSUME InfoAssumption ==
    /\ \A i \in Info : /\ i.loadclasslist \in Lists("class") /\ i.loadmixinlist \in Lists("mixin")
                       /\ i.loadcategorylist \in Lists("category")
    /\ \A i, j \in Info : Contents(i) \cap Contents(j) # {} => i = j

VARIABLES
    loading,            \* the loadinfo that holds waitqueues.lock
    given,              \* loadinfos loaded or being loaded
    installed,          \* loadables added to the universe, classes registered
    classestoload,      \* universe->waitqueues: a list per hash
    categoriestoload,
    work,               \* what the loading thread still has to do
    loads,              \* the queue of +load calls
    called,             \* history: +load calls in their order
    failed,             \* the universe has aborted
    initialized         \* classes that ran +initialize

queues == <<classestoload, categoriestoload>>
vars == <<loading, given, installed, queues, work, loads, called, failed,
          initialized>>

----------------------------------------------------------------------------
(* Dependencies *)

\* _mulle_objc_universe_lookup_infraclass_nodelegate
HasClass(c) ==
    \E x \in installed : Kind[x] # "category" /\ ClassOf[x] = c

\* _mulle_objc_classpair_has_categoryid
HasCategory(c, k) ==
    \E x \in installed : Kind[x] = "category" /\ ClassOf[x] = c /\ CategoryOf[x] = k

\* nothing is needed
no_dependency == <<NoClass, NoCategory>>

\* _mulle_objc_universe_fulfill_dependencies
Fulfilled(d) ==
    d[1] # NoClass => HasClass(d[1]) /\ (d[2] = NoCategory \/ HasCategory(d[1], d[2]))

\* the classes a loadable needs by itself, in the order of the checks: its
\* superclass or the class it extends, then the mixins except those two
Inherent(x) ==
    LET first == IF Kind[x] = "category" THEN ClassOf[x] ELSE SuperOf[x]
        Other(m) == IF m \in {SuperOf[x], ClassOf[x]} THEN NoClass ELSE m
    IN  <<first>> \o [n \in DOMAIN MixinsOf[x] |-> Other(MixinsOf[x][n])]

\* _mulle_objc_loadclass_fulfill_dependencies and the one of categories
Requirements(x) ==
    IF Kind[x] = "mixin" THEN <<>>
    ELSE [n \in DOMAIN Inherent(x) |-> <<Inherent(x)[n], NoCategory>>] \o Dependencies[x]

\* the first dependency that is not fulfilled, and its class id
Unfulfilled(x) ==
    LET open == {n \in DOMAIN Requirements(x) : ~ Fulfilled(Requirements(x)[n])}
    IN  IF open = {} THEN no_dependency ELSE Requirements(x)[Min(open)]

Missing(x) == Unfulfilled(x)[1]

\* What is printed of a waiting class or category when the program is stuck:
\* the class it waits for or, if that is there, the category.
loadclass_print_unfulfilled_dependency(x) ==
    IF Unfulfilled(x)[1] = NoClass THEN {}
    ELSE {[waits |-> ClassOf[x], for |-> Unfulfilled(x)]}

loadcategory_print_unfulfilled_dependency(x) ==
    IF Unfulfilled(x)[1] = NoClass THEN {}
    ELSE {[waits |-> <<ClassOf[x], CategoryOf[x]>>, for |-> Unfulfilled(x)]}

----------------------------------------------------------------------------
(* Wait queues *)

\* things to do: try a loadable, or wake up those waiting for a class
Load(x)       == [do |-> "load", arg |-> x]
WakeItem(q, c) == [do |-> q, arg |-> c]

Head1 == Head(work)
Doing(what) == work # <<>> /\ Head1.do = what /\ ~ failed

\* mulle_objc_loadclass_delayedadd, mulle_objc_loadcategory_delayedadd
DelayedAdd(queue, x, c) == [queue EXCEPT ![Hash[c]] = Append(@, x)]

\* the universe reports an error and aborts
Fail ==
    /\ failed' = TRUE
    /\ UNCHANGED <<loading, given, installed, queues, work, loads, called, initialized>>

\* mulle_objc_callqueue_add
callqueue_add(x) == Append(loads, x)

\* mulle_objc_methodlist_add_load_to_callqueue
add_load_to_callqueue(x) == IF x \in HasLoad THEN callqueue_add(x) ELSE loads

\* the tail of every installation: +load is queued, and map_f is called for
\* the categories, then the classes that wait for this class
Install(x) ==
    /\ installed' = installed \cup {x}
    /\ loads' = add_load_to_callqueue(x)
    /\ work' = <<WakeItem("wakeCategories", ClassOf[x]),
                 WakeItem("wakeClasses", ClassOf[x])>> \o Tail(work)
    /\ UNCHANGED <<loading, given, queues, called, failed, initialized>>

----------------------------------------------------------------------------
(* The loader *)

\* mulle_objc_loadclasslist_enqueue_nofail and the ones for the other two lists
LoadAll(list) == [n \in DOMAIN list |-> Load(list[n])]
loadclasslist_enqueue(i)    == LoadAll(i.loadclasslist)
loadmixinlist_enqueue(i)    == LoadAll(i.loadmixinlist)
loadcategorylist_enqueue(i) == LoadAll(i.loadcategorylist)

\* _mulle_objc_loadinfo_enqueue_nofail from the lock on: list after list
Begin(i) ==
    /\ ~ failed
    /\ loading = NoInfo /\ i \notin given
    /\ loading' = i
    /\ given' = given \cup {i}
    /\ work' = loadclasslist_enqueue(i) \o loadmixinlist_enqueue(i) \o loadcategorylist_enqueue(i)
    /\ UNCHANGED <<installed, queues, loads, called, failed, initialized>>

\* mulle_objc_loadclass_enqueue_nofail
LoadClass ==
    /\ Doing("load") /\ Kind[Head1.arg] = "class"
    /\ LET x == Head1.arg
       IN  \/ /\ x \in Outdated /\ HasClass(SuperOf[x])
              /\ Fail
           \/ /\ x \notin Outdated \/ ~ HasClass(SuperOf[x])
              /\ Missing(x) # NoClass
              /\ classestoload' = DelayedAdd(classestoload, x, Missing(x))
              /\ work' = Tail(work)
              /\ UNCHANGED <<loading, given, installed, categoriestoload, loads,
                             called, failed, initialized>>
           \/ /\ x \notin Outdated \/ ~ HasClass(SuperOf[x])
              /\ Missing(x) = NoClass
              /\ IF HasClass(ClassOf[x]) THEN Fail ELSE Install(x)

\* mulle_objc_loadmixin_enqueue_nofail: "always root"
LoadMixin ==
    /\ Doing("load") /\ Kind[Head1.arg] = "mixin"
    /\ IF HasClass(ClassOf[Head1.arg]) THEN Fail ELSE Install(Head1.arg)

\* mutant: a category that misses something is tried again at once
MutCategoryRetries ==
    /\ Doing("load") /\ Kind[Head1.arg] = "category"
    /\ LET x == Head1.arg
       IN  IF Missing(x) # NoClass
           THEN /\ work' = Append(Tail(work), Load(x))
                /\ UNCHANGED <<loading, given, installed, queues, loads, called,
                               failed, initialized>>
           ELSE IF x \in Outdated \/ HasCategory(ClassOf[x], CategoryOf[x])
           THEN Fail
           ELSE Install(x)

\* mulle_objc_loadcategory_enqueue_nofail
LoadCategory ==
    /\ Doing("load") /\ Kind[Head1.arg] = "category"
    /\ LET x == Head1.arg
       IN  IF Missing(x) # NoClass
           THEN /\ categoriestoload' = DelayedAdd(categoriestoload, x, Missing(x))
                /\ work' = Tail(work)
                /\ UNCHANGED <<loading, given, installed, classestoload, loads,
                               called, failed, initialized>>
           ELSE IF x \in Outdated \/ HasCategory(ClassOf[x], CategoryOf[x])
           THEN Fail
           ELSE Install(x)

\* map_f takes the list out of the table, then tries its loadables in turn
Woken(queue) == LoadAll(queue[Hash[Head1.arg]]) \o Tail(work)

WakeCategories ==
    /\ Doing("wakeCategories")
    /\ work' = Woken(categoriestoload)
    /\ categoriestoload' = [categoriestoload EXCEPT ![Hash[Head1.arg]] = <<>>]
    /\ UNCHANGED <<loading, given, installed, classestoload, loads, called, failed,
                   initialized>>

\* mutant: the list stays in the table
MutWakeKeepsList ==
    /\ Doing("wakeClasses")
    /\ work' = Woken(classestoload)
    /\ UNCHANGED <<loading, given, installed, queues, loads, called, failed,
                   initialized>>

WakeClasses ==
    /\ Doing("wakeClasses")
    /\ work' = Woken(classestoload)
    /\ classestoload' = [classestoload EXCEPT ![Hash[Head1.arg]] = <<>>]
    /\ UNCHANGED <<loading, given, installed, categoriestoload, loads, called, failed,
                   initialized>>

\* mutant: the last +load that was queued is called first
MutCallLoadLast ==
    /\ loading # NoInfo /\ work = <<>> /\ ~ failed
    /\ loads # <<>>
    /\ called' = Append(called, loads[Len(loads)])
    /\ loads' = SubSeq(loads, 1, Len(loads) - 1)
    /\ UNCHANGED <<loading, given, installed, queues, work, failed, initialized>>

\* mulle_objc_callqueue_walk with call_load
CallLoad ==
    /\ loading # NoInfo /\ work = <<>> /\ ~ failed
    /\ loads # <<>>
    /\ called' = Append(called, Head(loads))
    /\ loads' = Tail(loads)
    /\ UNCHANGED <<loading, given, installed, queues, work, failed, initialized>>

Unlock ==
    /\ loading # NoInfo /\ work = <<>> /\ ~ failed
    /\ loads = <<>>
    /\ loading' = NoInfo
    /\ UNCHANGED <<given, installed, queues, work, loads, called, failed, initialized>>

\* a thread, or a +load method, messages a registered class, whose
\* +initialize runs after the one of its superclass
Message(x) ==
    /\ ~ failed
    /\ Kind[x] = "class" /\ x \in installed \ initialized
    /\ SuperOf[x] \in {ClassOf[y] : y \in initialized} \cup {NoClass}
    /\ initialized' = initialized \cup {x}
    /\ UNCHANGED <<loading, given, installed, queues, work, loads, called, failed>>

----------------------------------------------------------------------------
Init ==
    /\ loading = NoInfo
    /\ given = {}
    /\ installed = {}
    /\ classestoload = [h \in Range(Hash) |-> <<>>]
    /\ categoriestoload = [h \in Range(Hash) |-> <<>>]
    /\ work = <<>>
    /\ loads = <<>>
    /\ called = <<>>
    /\ failed = FALSE
    /\ initialized = {}

\* the steps of the thread that holds the lock
Step ==
    \/ LoadClass \/ LoadMixin \/ LoadCategory
    \/ WakeCategories \/ WakeClasses
    \/ CallLoad \/ Unlock

Next ==
    \/ Step
    \/ \E i \in Info : Begin(i)
    \/ \E x \in Loadable : Message(x)

Spec == Init /\ [][Next]_vars

\* the loading thread is scheduled, and +load returns
FairSpec == Spec /\ WF_vars(Step)

----------------------------------------------------------------------------
(* Properties *)

Hashes == Range(Hash)

Members(queue) == UNION {Range(queue[h]) : h \in Hashes}
WaitingClasses == Members(classestoload)
WaitingCategories == Members(categoriestoload)
Waiting == WaitingClasses \cup WaitingCategories

\* what _mulle_objc_universe_check_waitqueues prints
Report == UNION ({loadclass_print_unfulfilled_dependency(x) : x \in WaitingClasses}
                 \cup {loadcategory_print_unfulfilled_dependency(x) : x \in WaitingCategories})

Offered == UNION {Contents(i) : i \in given}

TypeOK ==
    /\ loading \in Info \cup {NoInfo}
    /\ given \subseteq Info
    /\ installed \subseteq Loadable
    /\ classestoload \in [Hashes -> Seq(Loadable)]
    /\ categoriestoload \in [Hashes -> Seq(Loadable)]
    /\ work \in Seq([do : {"load"}, arg : Loadable]
                    \cup [do : {"wakeCategories", "wakeClasses"}, arg : ClassId])
    /\ loads \in Seq(Loadable) /\ called \in Seq(Loadable)
    /\ failed \in BOOLEAN
    /\ initialized \subseteq installed

\* no loadable is in a wait queue, or in what is left to do, twice
WaitOnce(queue) ==
    /\ \A h \in Hashes : IsInjective(queue[h])
    /\ \A g, h \in Hashes : Range(queue[g]) \cap Range(queue[h]) # {} => g = h
TryOnce(items) ==
    \A m, n \in DOMAIN items : items[m].do = "load" /\ items[m] = items[n] => m = n
ToTry == {x \in Loadable : Load(x) \in Range(work)}

\* Every loadable handed to the loader is installed, or it is in one place
\* only, to be tried or waiting: taking a list out of the wait queue while
\* its loadables wait again loses none and doubles none.
NoneLostNoneDoubled ==
    /\ installed \subseteq Offered /\ Offered \ installed = Waiting \cup ToTry
    /\ Waiting \cap ToTry = {} /\ WaitingClasses \cap WaitingCategories = {}
    /\ WaitOnce(classestoload) /\ WaitOnce(categoriestoload) /\ TryOnce(work)

\* When the lock is free every waiting loadable really misses something, and
\* it is in the queue that the class it misses first will wake: "its addition
\* is postponed, until the requirements are met".
WaitersMissSomething ==
    loading = NoInfo =>
        \A x \in Waiting :
            /\ Missing(x) # NoClass
            /\ LET queue == IF Kind[x] = "category" THEN categoriestoload
                            ELSE classestoload
               IN  x \in Range(queue[Hash[Missing(x)]])

\* The report of a program that is stuck explains itself: every loadable that
\* waits is in it, and what it is said to wait for has never been offered or
\* is itself in the report, never installed.
ReportExplains ==
    loading = NoInfo =>
        /\ \A x \in WaitingClasses : loadclass_print_unfulfilled_dependency(x) # {}
        /\ \A x \in WaitingCategories : loadcategory_print_unfulfilled_dependency(x) # {}
        /\ \A e \in Report : \A x \in Offered :
              <<ClassOf[x], CategoryOf[x]>> = e.for => x \in Waiting

\* The wait queues compute what LoadOrder promises: nothing is installed
\* before what it needs, +load runs once and in dependency order, and nothing
\* that can be installed is left when a loadinfo is done, whatever the order
\* of the loadinfos.
Abstract == INSTANCE LoadOrder WITH
    Needs     <- [x \in Loadable |-> {n \in Range(Requirements(x)) : n[1] # NoClass}],
    Provides  <- [x \in Loadable |-> <<ClassOf[x], CategoryOf[x]>>],
    busy      <- loading # NoInfo,
    offered   <- Offered,
    loaded    <- Range(called)

ImplementsLoadOrder == Abstract!Spec

\* "A +load method is only executed once per class or category".
LoadOnce == IsInjective(called)

\* Loading a loadinfo ends: what is woken up and waits again does not wake
\* itself for ever.
LoadingEnds == loading # NoInfo ~> (loading = NoInfo \/ failed)

\* Whatever was given to the loader is installed, waits for something that is missing, or
\* is about to be loaded, and none of it twice (load.c 290-330, 870-990, 1735-1934).
NothingLost ==
    /\ TypeOK
    /\ NoneLostNoneDoubled /\ WaitersMissSomething /\ ReportExplains
    /\ LoadOnce
=============================================================================
