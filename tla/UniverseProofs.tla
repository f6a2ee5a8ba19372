--------------------------- MODULE UniverseProofs ---------------------------
(***************************************************************************)
(* For any finite set of threads, any classes and either configuration:    *)
(* a universe is made and taken down by one thread at a time, while nobody *)
(* uses it; the teardown calls come in order and what is stuck in the wait *)
(* queues is reported.                                                     *)
(***************************************************************************)
EXTENDS Universe, FiniteSetTheorems, TLAPS

----------------------------------------------------------------------------
(* The inductive invariant *)

\* labels of a thread with a reference, and of one that takes the universe down
HoldLabels == {"init", "bang unlock", "start", "running", "load", "loaded", "release", "wait",
               "decrement"}
CrunchLabels == {"crunch", "willFinalize", "deinit", "done", "check", "finalize", "free", "unlock"}
Labels == HoldLabels \cup CrunchLabels \cup {"idle", "bang"}

Holding == {t \in Thread : pc[t] \in HoldLabels}
Crunching == {t \in Thread : pc[t] \in CrunchLabels}
Banging == {t \in Thread : pc[t] = "bang"}

Call == Range(Phase) \X (Range(Class) \cup Other)

DataOK ==
    /\ version \in Version
    /\ thread \in Thread \cup {NoThread}
    /\ aba \subseteq Thread /\ threadinfo \subseteq Thread /\ done \subseteq Range(Class)
    /\ waitqueues \in [classes : 0..1, categories : 0..1]
    /\ loader \in Thread \cup {NoThread} /\ loads \in 0..MaxLoads
    /\ lives \in Nat /\ failed = FALSE
    /\ pc \in [Thread -> Labels]
    /\ left \in [Thread -> Seq(Call)] /\ calls \in Seq(Call)

\* the versions a universe can have while a thread is at a label
Fits(label, v) ==
    /\ label \in {"init", "bang unlock"} => v = "initializing"
    /\ label \in HoldLabels \ {"init", "bang unlock"} => v = "ready"
    /\ label = "crunch" => v \in {"ready", "leaving"}
    /\ label = "willFinalize" => v = "leaving"
    /\ label = "deinit" => v \in {"leaving", "deinitializing"}
    /\ label \in {"done", "check", "finalize"} => v = "deinitializing"
    /\ label \in {"free", "unlock"} => v = "deallocating"

VersionInv == \A t \in Thread : Fits(pc[t], version)

\* retaincount_1 is one less than the references, from the lock of the bang to
\* the memset of the crunch
CountInv ==
    IF version = "uninitialized" \/ \E t \in Thread : pc[t] = "unlock"
    THEN retaincount_1 = 0 /\ Holding = {}
    ELSE retaincount_1 = Cardinality(Holding) - 1

\* nobody has a reference beside the thread that makes the universe, nor while
\* one takes it down
AloneInv ==
    /\ \A t \in Thread : pc[t] \in {"init", "bang unlock"} => Holding = {t}
    /\ \A t \in Crunching : Holding = {} /\ \A u \in Crunching : u = t

\* the creator is the last to leave, if it waits
CreatorInv ==
    /\ \A t \in Thread :
         /\ pc[t] = "bang unlock" => thread = t
         /\ pc[t] = "release" => thread # t
         /\ pc[t] = "wait" => thread = t
         /\ Waits /\ pc[t] = "decrement" /\ thread = t => Holding = {t}
         /\ pc[t] \in CrunchLabels \ {"unlock"} => thread = t
    /\ Waits /\ Holding # {} => thread \in Holding \/ \E t \in Thread : pc[t] = "init"

ServedInv ==
    \A t \in Thread : pc[t] \in {"bang unlock", "running", "load", "loaded"} =>
        t \in aba /\ t \in threadinfo

LoaderInv == \A t \in Thread : pc[t] \in {"load", "loaded"} <=> loader = t

LivesInv == lives + Cardinality(Banging) <= MaxLives

StuckInv ==
    /\ StuckIsReported
    /\ \A t \in Thread : pc[t] = "check" =>
          status = IF waitqueues.classes = 0 THEN "no classes" ELSE "classes"

\* what calls may follow another one
Before(x, y) ==
    /\ Rank(x[1]) <= Rank(y[1])
    /\ (x[1] = y[1] /\ y[2] \in Range(Class)) => x[2] \notin Lineage[y[2]]
Ordered(s) == \A i, j \in DOMAIN s : i < j => Before(s[i], s[j])
Follows(s, r) == \A i \in DOMAIN s, j \in DOMAIN r : Before(s[i], r[j])

OrderInv ==
    /\ Ordered(calls)
    /\ \A t \in Thread :
         /\ pc[t] \in {"willFinalize", "finalize"} => Ordered(left[t]) /\ Follows(calls, left[t])
         /\ pc[t] = "willFinalize" => \A i \in DOMAIN left[t] : left[t][i][1] = "willFinalize"
         /\ pc[t] \in (HoldLabels \ {"init"}) \cup {"crunch"} => calls = <<>>
         /\ pc[t] \in {"willFinalize", "deinit", "done", "check"} =>
               \A i \in DOMAIN calls : calls[i][1] = "willFinalize"

IInv == DataOK /\ VersionInv /\ CountInv /\ AloneInv /\ CreatorInv /\ ServedInv /\ LoaderInv
        /\ LivesInv /\ StuckInv /\ OrderInv

----------------------------------------------------------------------------
(* Moving from label to label *)

\* A move changes who is where by one thread.
LEMMA MoveFacts ==
    ASSUME DataOK, NEW t \in Thread, NEW q \in Labels, Goto(t, q)
    PROVE  /\ pc' \in [Thread -> Labels] /\ pc'[t] = q /\ \A u \in Thread \ {t} : pc'[u] = pc[u]
           /\ q \in HoldLabels => Holding' = Holding \cup {t}
           /\ q \notin HoldLabels => Holding' = Holding \ {t}
           /\ q \in CrunchLabels => Crunching' = Crunching \cup {t}
           /\ q \notin CrunchLabels => Crunching' = Crunching \ {t}
           /\ q = "bang" => Banging' = Banging \cup {t}
           /\ q # "bang" => Banging' = Banging \ {t}
  <1>1. pc' \in [Thread -> Labels] /\ pc'[t] = q /\ \A u \in Thread \ {t} : pc'[u] = pc[u]
    BY DEF DataOK, Goto
  <1>. QED
    BY <1>1 DEF Holding, Crunching, Banging

\* References can be counted.
LEMMA CountFacts ==
    /\ IsFiniteSet(Holding) /\ Cardinality(Holding) \in Nat
    /\ Cardinality(Holding) <= Cardinality(Thread) /\ Cardinality(Thread) \in Nat
    /\ Cardinality(Holding) = 0 <=> Holding = {}
    /\ \A t \in Holding : Cardinality(Holding) = 1 => Holding = {t}
    /\ \A t \in Holding : Cardinality(Holding \ {t}) = Cardinality(Holding) - 1
    /\ \A t \in Thread \ Holding : Cardinality(Holding \cup {t}) = Cardinality(Holding) + 1
  <1>1. Holding \subseteq Thread /\ IsFiniteSet(Thread)
    BY ThreadAssumption DEF Holding
  <1>2. IsFiniteSet(Holding) /\ Cardinality(Holding) <= Cardinality(Thread)
    BY <1>1, FS_Subset
  <1>3. Cardinality(Holding) \in Nat /\ Cardinality(Thread) \in Nat
    BY <1>1, <1>2, FS_CardinalityType
  <1>4. Cardinality(Holding) = 0 <=> Holding = {}
    BY <1>2, FS_EmptySet
  <1>5. ASSUME NEW t \in Holding PROVE Cardinality(Holding \ {t}) = Cardinality(Holding) - 1
    BY <1>2, FS_RemoveElement
  <1>6. ASSUME NEW t \in Thread \ Holding
        PROVE Cardinality(Holding \cup {t}) = Cardinality(Holding) + 1
    BY <1>2, FS_AddElement
  <1>7. ASSUME NEW t \in Holding, Cardinality(Holding) = 1 PROVE Holding = {t}
    <2>1. Cardinality(Holding \ {t}) = 0
      BY <1>5, <1>7
    <2>2. IsFiniteSet(Holding \ {t})
      BY <1>2, FS_RemoveElement
    <2>3. Holding \ {t} = {}
      BY <2>1, <2>2, FS_EmptySet
    <2>. QED
      BY <2>3
  <1>. QED
    BY <1>2, <1>3, <1>4, <1>5, <1>6, <1>7

\* The threads on their way into bang, counted
LEMMA BangFacts ==
    /\ IsFiniteSet(Banging) /\ Cardinality(Banging) \in Nat
    /\ \A t \in Banging : Cardinality(Banging \ {t}) = Cardinality(Banging) - 1
    /\ \A t \in Thread \ Banging : Cardinality(Banging \cup {t}) = Cardinality(Banging) + 1
  <1>1. Banging \subseteq Thread /\ IsFiniteSet(Thread)
    BY ThreadAssumption DEF Banging
  <1>2. IsFiniteSet(Banging)
    BY <1>1, FS_Subset
  <1>3. Cardinality(Banging) \in Nat
    BY <1>2, FS_CardinalityType
  <1>. QED
    BY <1>2, <1>3, FS_RemoveElement, FS_AddElement

\* The parts that do not depend on what exactly a thread with a reference does
ShareInv == VersionInv /\ CountInv /\ AloneInv /\ CreatorInv /\ LivesInv /\ StuckInv /\ OrderInv

\* The empty sequence is one of any set.
LEMMA EmptySeq == ASSUME NEW S PROVE <<>> \in Seq(S)
  OBVIOUS

\* No calls are in order.
LEMMA OrderedEmpty == Ordered(<<>>)
  <1>1. DOMAIN <<>> = {}
    OBVIOUS
  <1>. QED
    BY <1>1 DEF Ordered

\* A thread with a reference moves on.
LEMMA HoldMove ==
    ASSUME IInv, NEW t \in Thread, NEW p \in HoldLabels \ {"init", "bang unlock"}, pc[t] = p,
           NEW q \in HoldLabels \ {"init", "bang unlock"}, Goto(t, q),
           UNCHANGED <<version, retaincount_1, thread, left, calls, lives>>,
           q = "release" => thread # t, q = "wait" => thread = t,
           q = "decrement" /\ Waits /\ thread = t => Holding = {t}
    PROVE  ShareInv'
  <1>1. /\ pc'[t] = q /\ \A u \in Thread \ {t} : pc'[u] = pc[u]
        /\ Holding' = Holding /\ Crunching' = Crunching /\ Banging' = Banging
        /\ t \in Holding
    <2>1. t \in Holding /\ t \notin Crunching /\ t \notin Banging /\ q \in Labels
          /\ q \notin CrunchLabels /\ q # "bang"
      BY DEF Holding, Crunching, Banging, HoldLabels, CrunchLabels, Labels
    <2>2. /\ pc'[t] = q /\ \A u \in Thread \ {t} : pc'[u] = pc[u]
          /\ Holding' = Holding \cup {t} /\ Crunching' = Crunching \ {t} /\ Banging' = Banging \ {t}
      BY <2>1, MoveFacts DEF IInv
    <2>. QED
      BY <2>1, <2>2
  <1>2. Crunching = {}
    BY <1>1 DEF IInv, AloneInv
  <1>3. version = "ready"
    BY DEF IInv, VersionInv, Fits
  <1>4. VersionInv'
    BY <1>1, <1>3 DEF IInv, VersionInv, Fits, HoldLabels
  <1>5. CountInv'
    <2>1. \A u \in Thread : pc[u] # "unlock" /\ pc'[u] # "unlock"
      BY <1>1, <1>2 DEF Crunching, CrunchLabels, HoldLabels
    <2>. QED
      BY <1>1, <1>3, <2>1 DEF IInv, CountInv
  <1>6. AloneInv'
    BY <1>1, <1>2 DEF IInv, AloneInv
  <1>7. CreatorInv'
    <2>1. \A u \in Thread : pc[u] # "init"
      BY <1>3 DEF IInv, VersionInv, Fits
    <2>2. Waits => thread \in Holding
      BY <1>1, <2>1 DEF IInv, CreatorInv
    <2>3. \A u \in Thread :
            /\ pc'[u] = "bang unlock" => thread = u
            /\ pc'[u] = "release" => thread # u
            /\ pc'[u] = "wait" => thread = u
            /\ Waits /\ pc'[u] = "decrement" /\ thread = u => Holding = {u}
            /\ pc'[u] \in CrunchLabels \ {"unlock"} => thread = u
      BY <1>1 DEF IInv, CreatorInv, HoldLabels, CrunchLabels
    <2>. QED
      BY <1>1, <2>2, <2>3 DEF CreatorInv
  <1>8. LivesInv'
    BY <1>1 DEF IInv, LivesInv
  <1>9. \A u \in Thread : pc'[u] \notin CrunchLabels
    BY <1>1, <1>2 DEF Crunching
  <1>10. StuckInv'
    BY <1>9 DEF StuckInv, StuckIsReported, CrunchLabels
  <1>11. OrderInv'
    <2>1. calls = <<>>
      BY DEF IInv, OrderInv
    <2>2. \A u \in Thread : pc'[u] \notin {"willFinalize", "finalize", "deinit", "done", "check"}
      BY <1>9 DEF CrunchLabels
    <2>3. calls' = <<>> /\ Ordered(calls')
      BY <2>1, OrderedEmpty
    <2>. QED
      BY <2>2, <2>3 DEF OrderInv
  <1>. QED
    BY <1>4, <1>5, <1>6, <1>7, <1>8, <1>10, <1>11 DEF ShareInv

\* Who takes the universe down moves on.
LEMMA CrunchMove ==
    ASSUME IInv, NEW t \in Thread, NEW p \in CrunchLabels \ {"unlock"}, pc[t] = p,
           NEW q \in CrunchLabels \ {"unlock"}, Goto(t, q), Fits(q, version'),
           version' # "uninitialized",
           UNCHANGED <<retaincount_1, thread, aba, threadinfo, loader, lives>>
    PROVE  /\ VersionInv' /\ CountInv' /\ AloneInv' /\ CreatorInv' /\ ServedInv' /\ LoaderInv'
           /\ LivesInv' /\ Holding = {} /\ Crunching = {t} /\ loader = NoThread
           /\ pc'[t] = q /\ \A u \in Thread \ {t} : pc[u] \in {"idle", "bang"} /\ pc'[u] = pc[u]
  <1>1. /\ pc'[t] = q /\ \A u \in Thread \ {t} : pc'[u] = pc[u]
        /\ Holding' = Holding /\ Crunching' = Crunching /\ Banging' = Banging
        /\ t \in Crunching
    <2>1. t \notin Holding /\ t \in Crunching /\ t \notin Banging /\ q \in Labels
          /\ q \notin HoldLabels /\ q # "bang"
      BY DEF Holding, Crunching, Banging, HoldLabels, CrunchLabels, Labels
    <2>2. /\ pc'[t] = q /\ \A u \in Thread \ {t} : pc'[u] = pc[u]
          /\ Holding' = Holding \ {t} /\ Crunching' = Crunching \cup {t} /\ Banging' = Banging \ {t}
      BY <2>1, MoveFacts DEF IInv
    <2>. QED
      BY <2>1, <2>2
  <1>2. Holding = {} /\ Crunching = {t}
    BY <1>1 DEF IInv, AloneInv
  <1>3. \A u \in Thread \ {t} : pc[u] \in {"idle", "bang"} /\ pc'[u] = pc[u]
    BY <1>1, <1>2 DEF IInv, DataOK, Labels, Holding, Crunching
  <1>4. VersionInv'
    BY <1>1, <1>3 DEF VersionInv, Fits, HoldLabels
  <1>5. CountInv'
    <2>1. \A u \in Thread : pc[u] # "unlock" /\ pc'[u] # "unlock"
      BY <1>1, <1>3
    <2>2. version # "uninitialized"
      BY DEF IInv, VersionInv, Fits, CrunchLabels
    <2>. QED
      BY <1>1, <2>1, <2>2 DEF IInv, CountInv
  <1>6. AloneInv'
    BY <1>1, <1>2, <1>3 DEF AloneInv, CrunchLabels
  <1>7. CreatorInv'
    <2>1. thread = t
      BY DEF IInv, CreatorInv
    <2>. QED
      BY <1>1, <1>2, <1>3, <2>1 DEF CreatorInv, CrunchLabels
  <1>8. ServedInv'
    BY <1>1, <1>3 DEF ServedInv, CrunchLabels
  <1>9. \A u \in Thread : pc[u] \notin {"load", "loaded"} /\ pc'[u] \notin {"load", "loaded"}
    BY <1>1, <1>3 DEF CrunchLabels
  <1>10. LoaderInv' /\ loader = NoThread
    BY <1>9 DEF IInv, LoaderInv, DataOK
  <1>11. LivesInv'
    BY <1>1 DEF IInv, LivesInv
  <1>. QED
    BY <1>1, <1>2, <1>3, <1>4, <1>5, <1>6, <1>7, <1>8, <1>10, <1>11

----------------------------------------------------------------------------
(* Threads of the program *)

\* A thread registers.
LEMMA ThreadRegisterStep ==
    ASSUME IInv, NEW t \in Thread, ThreadRegister(t)
    PROVE  IInv'
  <1>1. /\ pc[t] = "start" /\ Goto(t, "running")
        /\ aba' = aba \cup {t} /\ threadinfo' = threadinfo \cup {t}
        /\ UNCHANGED <<version, retaincount_1, thread, done, waitqueues, loader, loads, status,
                       left, calls, lives, failed>>
    BY DEF ThreadRegister, queues, history
  <1>2. ShareInv'
    BY <1>1, HoldMove DEF HoldLabels
  <1>3. /\ pc' \in [Thread -> Labels] /\ pc'[t] = "running"
        /\ \A u \in Thread \ {t} : pc'[u] = pc[u]
    BY <1>1, MoveFacts DEF IInv, Labels, HoldLabels
  <1>4. DataOK'
    BY <1>1, <1>3 DEF IInv, DataOK
  <1>5. ServedInv'
    BY <1>1, <1>3 DEF IInv, ServedInv
  <1>6. LoaderInv'
    BY <1>1, <1>3 DEF IInv, LoaderInv
  <1>. QED
    BY <1>2, <1>4, <1>5, <1>6 DEF IInv, ShareInv

\* A loadinfo is enqueued under the lock,
LEMMA LoadLockStep ==
    ASSUME IInv, NEW t \in Thread, LoadLock(t)
    PROVE  IInv'
  <1>1. /\ pc[t] = "running" /\ Goto(t, "load")
        /\ loader = NoThread /\ loads < MaxLoads /\ loader' = t /\ loads' = loads + 1
        /\ UNCHANGED <<version, retaincount_1, thread, aba, threadinfo, done, waitqueues, status,
                       left, calls, lives, failed>>
    BY DEF LoadLock, tables, history
  <1>2. ShareInv'
    BY <1>1, HoldMove DEF HoldLabels
  <1>3. /\ pc' \in [Thread -> Labels] /\ pc'[t] = "load"
        /\ \A u \in Thread \ {t} : pc'[u] = pc[u]
    BY <1>1, MoveFacts DEF IInv, Labels, HoldLabels
  <1>4. DataOK'
    <2>1. loads' \in 0..MaxLoads
      BY <1>1, BoundAssumption DEF IInv, DataOK
    <2>. QED
      BY <1>1, <1>3, <2>1 DEF IInv, DataOK
  <1>5. ServedInv'
    BY <1>1, <1>3 DEF IInv, ServedInv
  <1>6. LoaderInv'
    BY <1>1, <1>3, ThreadAssumption DEF IInv, LoaderInv
  <1>. QED
    BY <1>2, <1>4, <1>5, <1>6 DEF IInv, ShareInv

\* its classes wait or are loaded,
LEMMA LoadStep ==
    ASSUME IInv, NEW t \in Thread, Load(t)
    PROVE  IInv'
  <1>1. /\ pc[t] = "load" /\ Goto(t, "loaded")
        /\ \E n, m \in 0..1 : waitqueues' = [classes |-> n, categories |-> m]
        /\ UNCHANGED <<version, retaincount_1, thread, aba, threadinfo, done, loader, loads, status,
                       left, calls, lives, failed>>
    BY DEF Load, tables, history
  <1>2. ShareInv'
    BY <1>1, HoldMove DEF HoldLabels
  <1>3. /\ pc' \in [Thread -> Labels] /\ pc'[t] = "loaded"
        /\ \A u \in Thread \ {t} : pc'[u] = pc[u]
    BY <1>1, MoveFacts DEF IInv, Labels, HoldLabels
  <1>4. DataOK'
    <2>1. waitqueues' \in [classes : 0..1, categories : 0..1]
      BY <1>1
    <2>. QED
      BY <1>1, <1>3, <2>1 DEF IInv, DataOK
  <1>5. ServedInv'
    BY <1>1, <1>3 DEF IInv, ServedInv
  <1>6. LoaderInv'
    BY <1>1, <1>3 DEF IInv, LoaderInv
  <1>. QED
    BY <1>2, <1>4, <1>5, <1>6 DEF IInv, ShareInv

\* and the lock is given back.
LEMMA LoadUnlockStep ==
    ASSUME IInv, NEW t \in Thread, LoadUnlock(t)
    PROVE  IInv'
  <1>1. /\ pc[t] = "loaded" /\ Goto(t, "running") /\ loader' = NoThread
        /\ UNCHANGED <<version, retaincount_1, thread, aba, threadinfo, done, waitqueues, loads,
                       status, left, calls, lives, failed>>
    BY DEF LoadUnlock, tables, history
  <1>2. ShareInv'
    BY <1>1, HoldMove DEF HoldLabels
  <1>3. /\ pc' \in [Thread -> Labels] /\ pc'[t] = "running"
        /\ \A u \in Thread \ {t} : pc'[u] = pc[u]
    BY <1>1, MoveFacts DEF IInv, Labels, HoldLabels
  <1>4. DataOK'
    BY <1>1, <1>3 DEF IInv, DataOK
  <1>5. ServedInv'
    BY <1>1, <1>3 DEF IInv, ServedInv
  <1>6. LoaderInv'
    BY <1>1, <1>3, ThreadAssumption DEF IInv, LoaderInv
  <1>. QED
    BY <1>2, <1>4, <1>5, <1>6 DEF IInv, ShareInv

\* A thread leaves.
LEMMA ThreadDeregisterStep ==
    ASSUME IInv, NEW t \in Thread, ThreadDeregister(t)
    PROVE  IInv'
  <1>1. /\ pc[t] = "running" /\ Goto(t, "release") /\ t # thread
        /\ aba' = aba \ {t} /\ threadinfo' = threadinfo \ {t}
        /\ UNCHANGED <<version, retaincount_1, thread, done, waitqueues, loader, loads, status,
                       left, calls, lives, failed>>
    BY DEF ThreadDeregister, queues, history
  <1>2. ShareInv'
    BY <1>1, HoldMove DEF HoldLabels
  <1>3. /\ pc' \in [Thread -> Labels] /\ pc'[t] = "release"
        /\ \A u \in Thread \ {t} : pc'[u] = pc[u]
    BY <1>1, MoveFacts DEF IInv, Labels, HoldLabels
  <1>4. DataOK'
    BY <1>1, <1>3 DEF IInv, DataOK
  <1>5. ServedInv'
    BY <1>1, <1>3 DEF IInv, ServedInv
  <1>6. LoaderInv'
    BY <1>1, <1>3 DEF IInv, LoaderInv
  <1>. QED
    BY <1>2, <1>4, <1>5, <1>6 DEF IInv, ShareInv

\* A thread gives back its reference.
LEMMA ReleaseStep ==
    ASSUME IInv, NEW t \in Thread, Release(t)
    PROVE  IInv'
  <1>1. PICK p \in {"release", "running"}, q \in {"wait", "decrement"} :
        /\ pc[t] = p /\ Goto(t, q)
        /\ p = "running" => thread = t
        /\ q = IF Waits /\ t = thread THEN "wait" ELSE "decrement"
    BY DEF Release
  <1>2. UNCHANGED <<version, retaincount_1, thread, aba, threadinfo, done, waitqueues, loader,
                       loads, status, left, calls, lives, failed>>
    BY DEF Release, tables, queues, history
  <1>3. ShareInv'
    BY <1>1, <1>2, HoldMove DEF HoldLabels
  <1>4. /\ pc' \in [Thread -> Labels] /\ pc'[t] = q
        /\ \A u \in Thread \ {t} : pc'[u] = pc[u]
    BY <1>1, MoveFacts DEF IInv, Labels, HoldLabels
  <1>5. DataOK'
    BY <1>2, <1>4 DEF IInv, DataOK
  <1>6. ServedInv'
    BY <1>2, <1>4 DEF IInv, ServedInv
  <1>7. LoaderInv'
    BY <1>1, <1>2, <1>4 DEF IInv, LoaderInv
  <1>. QED
    BY <1>3, <1>5, <1>6, <1>7 DEF IInv, ShareInv

\* The creator stops waiting when it is the last.
LEMMA ReleaseWaitStep ==
    ASSUME IInv, NEW t \in Thread, ReleaseWait(t)
    PROVE  IInv'
  <1>1. /\ pc[t] = "wait" /\ Goto(t, "decrement") /\ retaincount_1 = 0
        /\ UNCHANGED <<version, retaincount_1, thread, aba, threadinfo, done, waitqueues, loader,
                       loads, status, left, calls, lives, failed>>
    BY DEF ReleaseWait, tables, queues, history
  <1>2. Holding = {t}
    <2>1. t \in Holding
      BY <1>1 DEF Holding, HoldLabels
    <2>2. Cardinality(Holding) = 1
      BY <1>1, <2>1, CountFacts DEF IInv, CountInv
    <2>. QED
      BY <2>1, <2>2, CountFacts
  <1>3. ShareInv'
    BY <1>1, <1>2, HoldMove DEF HoldLabels
  <1>4. /\ pc' \in [Thread -> Labels] /\ pc'[t] = "decrement"
        /\ \A u \in Thread \ {t} : pc'[u] = pc[u]
    BY <1>1, MoveFacts DEF IInv, Labels, HoldLabels
  <1>5. DataOK'
    BY <1>1, <1>4 DEF IInv, DataOK
  <1>6. ServedInv'
    BY <1>1, <1>4 DEF IInv, ServedInv
  <1>7. LoaderInv'
    BY <1>1, <1>4 DEF IInv, LoaderInv
  <1>. QED
    BY <1>3, <1>5, <1>6, <1>7 DEF IInv, ShareInv

\* A new thread gets a reference from one that has one.
LEMMA RetainStep ==
    ASSUME IInv, NEW t \in Thread, NEW u \in Thread, Retain(t, u)
    PROVE  IInv'
  <1>1. /\ pc[t] = "running" /\ pc[u] = "idle" /\ retaincount_1' = retaincount_1 + 1
        /\ Goto(u, "start")
        /\ UNCHANGED <<version, thread, aba, threadinfo, done, waitqueues, loader, loads, status,
                       left, calls, lives, failed>>
    BY DEF Retain, tables, queues, history
  <1>2. t \in Holding /\ u \notin Holding /\ u \notin Crunching /\ u \notin Banging
    BY <1>1 DEF Holding, Crunching, Banging, HoldLabels, CrunchLabels
  <1>3. /\ pc' \in [Thread -> Labels] /\ pc'[u] = "start"
        /\ \A v \in Thread \ {u} : pc'[v] = pc[v]
        /\ Holding' = Holding \cup {u} /\ Crunching' = Crunching \ {u} /\ Banging' = Banging \ {u}
    BY <1>1, MoveFacts DEF IInv, Labels, HoldLabels, CrunchLabels
  <1>4. Crunching' = Crunching /\ Banging' = Banging /\ Crunching = {}
    BY <1>2, <1>3 DEF IInv, AloneInv
  <1>5. version = "ready"
    BY <1>1 DEF IInv, VersionInv, Fits, HoldLabels
  <1>6. \A v \in Thread : pc[v] \notin CrunchLabels /\ pc'[v] \notin CrunchLabels
    BY <1>4 DEF Crunching
  <1>7. \A v \in Thread : pc[v] \notin {"init", "bang unlock"} /\ pc'[v] \notin {"init", "bang unlock"}
    BY <1>3, <1>5 DEF IInv, VersionInv, Fits
  <1>8. DataOK'
    BY <1>1, <1>3 DEF IInv, DataOK
  <1>9. VersionInv'
    BY <1>1, <1>3, <1>5 DEF IInv, VersionInv, Fits, HoldLabels
  <1>10. CountInv'
    <2>1. Cardinality(Holding \cup {u}) = Cardinality(Holding) + 1 /\ Cardinality(Holding) \in Nat
      BY <1>2, CountFacts
    <2>2. retaincount_1 = Cardinality(Holding) - 1
      BY <1>5, <1>6 DEF IInv, CountInv, CrunchLabels
    <2>3. retaincount_1' = Cardinality(Holding') - 1
      BY <1>1, <1>3, <2>1, <2>2
    <2>. QED
      BY <1>1, <1>5, <1>6, <2>3 DEF CountInv, CrunchLabels
  <1>11. AloneInv'
    BY <1>4, <1>7 DEF AloneInv
  <1>12. CreatorInv'
    <2>1. ~\E v \in Thread : Waits /\ pc[v] = "decrement" /\ thread = v
      <3>. SUFFICES ASSUME NEW v \in Thread, Waits, pc[v] = "decrement", thread = v PROVE FALSE
        OBVIOUS
      <3>1. Holding = {v}
        BY DEF IInv, CreatorInv
      <3>. QED
        BY <1>1, <1>2, <3>1
    <2>2. Waits => thread \in Holding
      BY <1>2, <1>7 DEF IInv, CreatorInv
    <2>. QED
      BY <1>1, <1>3, <1>6, <2>1, <2>2 DEF IInv, CreatorInv
  <1>13. ServedInv' /\ LoaderInv'
    BY <1>1, <1>3 DEF IInv, ServedInv, LoaderInv
  <1>14. LivesInv'
    BY <1>1, <1>4 DEF IInv, LivesInv
  <1>15. StuckInv'
    BY <1>6 DEF StuckInv, StuckIsReported, CrunchLabels
  <1>16. OrderInv'
    <2>1. calls' = <<>> /\ Ordered(calls')
      BY <1>1, OrderedEmpty DEF IInv, OrderInv, HoldLabels
    <2>. QED
      BY <1>6, <2>1 DEF OrderInv, CrunchLabels
  <1>. QED
    BY <1>8, <1>9, <1>10, <1>11, <1>12, <1>13, <1>14, <1>15, <1>16 DEF IInv

\* Superclasses are classes.
LEMMA LineageIsClasses ==
    ASSUME NEW c \in Range(Class)
    PROVE  Lineage[c] \subseteq Range(Class)
  BY DEF Lineage

\* A class is messaged, and initialized with its superclasses.
LEMMA MessageStep ==
    ASSUME IInv, NEW t \in Thread, NEW c \in Range(Class), Message(t, c)
    PROVE  IInv'
  <1>1. /\ done' = done \cup Lineage[c]
        /\ UNCHANGED <<version, retaincount_1, thread, aba, threadinfo, waitqueues, loader, loads,
                       status, pc, left, calls, lives, failed>>
    BY DEF Message, queues, history
  <1>2. DataOK'
    BY <1>1, LineageIsClasses DEF IInv, DataOK
  <1>3. Holding' = Holding /\ Crunching' = Crunching /\ Banging' = Banging
    BY <1>1 DEF Holding, Crunching, Banging
  <1>4. VersionInv' /\ CountInv' /\ AloneInv' /\ CreatorInv' /\ ServedInv' /\ LoaderInv' /\ LivesInv'
    BY <1>1, <1>3 DEF IInv, VersionInv, CountInv, AloneInv, CreatorInv, ServedInv, LoaderInv, LivesInv
  <1>5. StuckInv' /\ OrderInv'
    BY <1>1 DEF IInv, StuckInv, StuckIsReported, OrderInv
  <1>. QED
    BY <1>2, <1>4, <1>5 DEF IInv

----------------------------------------------------------------------------
(* Making the universe *)

\* Threads that come and go without a reference.
LEMMA IdleMove ==
    ASSUME IInv, NEW t \in Thread, NEW p \in {"idle", "bang"}, pc[t] = p,
           NEW q \in {"idle", "bang"}, Goto(t, q),
           UNCHANGED <<version, retaincount_1, thread, aba, threadinfo, done, waitqueues, loader,
                       loads, status, left, calls, lives, failed>>
    PROVE  IInv' <=> LivesInv'
  <1>1. t \notin Holding /\ t \notin Crunching
    BY DEF Holding, Crunching, HoldLabels, CrunchLabels
  <1>2. /\ pc' \in [Thread -> Labels] /\ pc'[t] = q
        /\ \A u \in Thread \ {t} : pc'[u] = pc[u]
        /\ Holding' = Holding \ {t} /\ Crunching' = Crunching \ {t}
    BY MoveFacts DEF IInv, Labels, HoldLabels, CrunchLabels
  <1>3. Holding' = Holding /\ Crunching' = Crunching
    BY <1>1, <1>2
  <1>4. \A u \in Thread : \/ pc'[u] = pc[u]
                          \/ u = t /\ pc[u] \in {"idle", "bang"} /\ pc'[u] \in {"idle", "bang"}
    BY <1>2
  <1>5. DataOK'
    BY <1>2 DEF IInv, DataOK
  <1>6. VersionInv'
    BY <1>4 DEF IInv, VersionInv, Fits, HoldLabels
  <1>7. CountInv'
    BY <1>3, <1>4 DEF IInv, CountInv
  <1>8. AloneInv'
    BY <1>3, <1>4 DEF IInv, AloneInv
  <1>9. CreatorInv'
    <2>1. (\E u \in Thread : pc'[u] = "init") <=> (\E u \in Thread : pc[u] = "init")
      BY <1>4
    <2>. QED
      BY <1>3, <1>4, <2>1 DEF IInv, CreatorInv, CrunchLabels
  <1>10. ServedInv' /\ LoaderInv'
    BY <1>4 DEF IInv, ServedInv, LoaderInv
  <1>11. StuckInv'
    BY <1>4 DEF IInv, StuckInv, StuckIsReported
  <1>12. OrderInv'
    BY <1>4 DEF IInv, OrderInv, HoldLabels
  <1>. QED
    BY <1>5, <1>6, <1>7, <1>8, <1>9, <1>10, <1>11, <1>12 DEF IInv

\* A thread asks for the universe.
LEMMA RegisterUniverseStep ==
    ASSUME IInv, NEW t \in Thread, RegisterUniverse(t)
    PROVE  IInv'
  <1>1. /\ pc[t] = "idle" /\ Goto(t, "bang") /\ lives + Cardinality(Banging) < MaxLives
        /\ UNCHANGED <<version, retaincount_1, thread, aba, threadinfo, done, waitqueues, loader,
                       loads, status, left, calls, lives, failed>>
    BY DEF RegisterUniverse, tables, queues, history, Banging
  <1>2. Banging' = Banging \cup {t} /\ t \in Thread \ Banging
    BY <1>1, MoveFacts DEF IInv, Labels, Banging
  <1>3. Cardinality(Banging') = Cardinality(Banging) + 1 /\ Cardinality(Banging) \in Nat
    BY <1>2, BangFacts
  <1>4. LivesInv'
    BY <1>1, <1>3, BoundAssumption DEF IInv, DataOK, LivesInv
  <1>. QED
    BY <1>1, <1>4, IdleMove

\* The first one makes it.
LEMMA BangLockStep ==
    ASSUME IInv, NEW t \in Thread, BangLock(t)
    PROVE  IInv'
  <1>1. /\ pc[t] = "bang"
        /\ UNCHANGED <<retaincount_1, thread, aba, threadinfo, done, waitqueues, loader,
                       loads, status, left, calls, failed>>
    BY DEF BangLock, tables, queues
  <1>2. t \in Banging /\ t \notin Holding /\ t \notin Crunching
    BY <1>1 DEF Banging, Holding, Crunching, HoldLabels, CrunchLabels
  <1>3. Cardinality(Banging \ {t}) = Cardinality(Banging) - 1 /\ Cardinality(Banging) \in Nat
    BY <1>2, BangFacts
  <1>4. CASE Goto(t, "idle") /\ UNCHANGED <<version, lives>>
    <2>1. Banging' = Banging \ {t}
      BY <1>4, MoveFacts DEF IInv, Labels
    <2>2. LivesInv'
      BY <1>3, <1>4, <2>1, BoundAssumption DEF IInv, DataOK, LivesInv
    <2>. QED
      BY <1>1, <1>4, <2>2, IdleMove
  <1>5. CASE version = "uninitialized" /\ version' = "initializing" /\ lives' = lives + 1 /\ Goto(t, "init")
    <2>1. /\ pc' \in [Thread -> Labels] /\ pc'[t] = "init"
          /\ \A u \in Thread \ {t} : pc'[u] = pc[u]
          /\ Holding' = Holding \cup {t} /\ Crunching' = Crunching \ {t} /\ Banging' = Banging \ {t}
      BY <1>5, MoveFacts DEF IInv, Labels, HoldLabels, CrunchLabels
    <2>2. \A u \in Thread : pc[u] \in {"idle", "bang"}
      BY <1>5 DEF IInv, VersionInv, Fits, DataOK, Labels, CrunchLabels
    <2>3. Holding = {} /\ retaincount_1 = 0
      BY <1>5 DEF IInv, CountInv
    <2>4. Holding' = {t} /\ Crunching' = {}
      <3>1. Crunching = {}
        BY <2>2 DEF Crunching, CrunchLabels
      <3>. QED
        BY <2>1, <2>3, <3>1
    <2>5. \A u \in Thread : pc'[u] \in {"idle", "bang"} \/ (u = t /\ pc'[u] = "init")
      BY <2>1, <2>2
    <2>6. DataOK'
      BY <1>1, <1>5, <2>1 DEF IInv, DataOK, Version
    <2>7. VersionInv'
      BY <1>5, <2>5 DEF VersionInv, Fits, HoldLabels
    <2>8. CountInv'
      <3>1. Cardinality(Holding') = 1
        BY <2>4, FS_Singleton
      <3>. QED
        BY <1>1, <1>5, <2>3, <2>5, <3>1 DEF CountInv
    <2>9. AloneInv' /\ CreatorInv'
      BY <2>1, <2>4, <2>5 DEF AloneInv, CreatorInv, CrunchLabels
    <2>10. ServedInv'
      BY <2>5 DEF ServedInv
    <2>11. LoaderInv'
      BY <1>1, <2>2, <2>5 DEF IInv, LoaderInv
    <2>12. LivesInv'
      BY <1>3, <1>5, <2>1, BoundAssumption DEF IInv, DataOK, LivesInv
    <2>13. StuckInv'
      BY <2>5 DEF StuckInv, StuckIsReported
    <2>14. OrderInv'
      BY <1>1, <2>5 DEF IInv, OrderInv, HoldLabels
    <2>. QED
      BY <2>6, <2>7, <2>8, <2>9, <2>10, <2>11, <2>12, <2>13, <2>14 DEF IInv
  <1>. QED
    BY <1>4, <1>5 DEF BangLock

\* It is initialized,
LEMMA UniverseInitStep ==
    ASSUME IInv, NEW t \in Thread, UniverseInit(t)
    PROVE  IInv'
  <1>1. /\ pc[t] = "init" /\ Goto(t, "bang unlock") /\ thread' = t
        /\ aba' = aba \cup {t} /\ threadinfo' = threadinfo \cup {t} /\ calls' = <<>>
        /\ UNCHANGED <<version, retaincount_1, done, waitqueues, loader, loads, status, left, lives,
                       failed>>
    BY DEF UniverseInit, queues
  <1>2. /\ pc' \in [Thread -> Labels] /\ pc'[t] = "bang unlock"
        /\ \A u \in Thread \ {t} : pc'[u] = pc[u]
        /\ Holding' = Holding \cup {t} /\ Crunching' = Crunching \ {t} /\ Banging' = Banging \ {t}
    BY <1>1, MoveFacts DEF IInv, Labels, HoldLabels, CrunchLabels
  <1>3. Holding = {t} /\ version = "initializing" /\ t \notin Banging /\ Crunching = {}
    <2>1. Holding = {t} /\ version = "initializing" /\ t \notin Banging
      BY <1>1 DEF IInv, AloneInv, VersionInv, Fits, Banging
    <2>2. Crunching = {}
      BY <2>1 DEF IInv, AloneInv
    <2>. QED
      BY <2>1, <2>2
  <1>4. Holding' = {t} /\ Crunching' = {} /\ Banging' = Banging
    BY <1>2, <1>3
  <1>5. \A u \in Thread : /\ u = t \/ pc[u] \in {"idle", "bang"}
                          /\ pc'[u] \in {"idle", "bang"} \/ (u = t /\ pc'[u] = "bang unlock")
    BY <1>2, <1>3 DEF IInv, DataOK, Labels, Holding, Crunching
  <1>6. DataOK'
    <2>1. calls' \in Seq(Call)
      BY <1>1, EmptySeq
    <2>. QED
      BY <1>1, <1>2, <2>1 DEF IInv, DataOK
  <1>7. VersionInv'
    BY <1>1, <1>3, <1>5 DEF VersionInv, Fits, HoldLabels
  <1>8. CountInv'
    <2>1. \A u \in Thread : pc[u] # "unlock" /\ pc'[u] # "unlock"
      BY <1>1, <1>5
    <2>. QED
      BY <1>1, <1>3, <1>4, <2>1 DEF IInv, CountInv
  <1>9. AloneInv' /\ CreatorInv'
    BY <1>1, <1>4, <1>5 DEF AloneInv, CreatorInv, CrunchLabels
  <1>10. ServedInv'
    BY <1>1, <1>5 DEF ServedInv
  <1>11. LoaderInv'
    BY <1>1, <1>5 DEF IInv, LoaderInv
  <1>12. LivesInv'
    BY <1>1, <1>4 DEF IInv, LivesInv
  <1>13. StuckInv'
    BY <1>5 DEF StuckInv, StuckIsReported
  <1>14. OrderInv'
    <2>1. Ordered(calls')
      BY <1>1, OrderedEmpty
    <2>. QED
      BY <1>1, <1>5, <2>1 DEF OrderInv
  <1>. QED
    BY <1>6, <1>7, <1>8, <1>9, <1>10, <1>11, <1>12, <1>13, <1>14 DEF IInv

\* and ready for the others.
LEMMA BangUnlockStep ==
    ASSUME IInv, NEW t \in Thread, BangUnlock(t)
    PROVE  IInv'
  <1>1. /\ pc[t] = "bang unlock" /\ Goto(t, "running") /\ version' = "ready"
        /\ UNCHANGED <<retaincount_1, thread, aba, threadinfo, done, waitqueues, loader, loads,
                       status, left, calls, lives, failed>>
    BY DEF BangUnlock, tables, queues, history
  <1>2. /\ pc' \in [Thread -> Labels] /\ pc'[t] = "running"
        /\ \A u \in Thread \ {t} : pc'[u] = pc[u]
        /\ Holding' = Holding \cup {t} /\ Crunching' = Crunching \ {t} /\ Banging' = Banging \ {t}
    BY <1>1, MoveFacts DEF IInv, Labels, HoldLabels, CrunchLabels
  <1>3. Holding = {t} /\ version = "initializing" /\ t \notin Banging /\ Crunching = {} /\ thread = t
    <2>1. Holding = {t} /\ version = "initializing" /\ t \notin Banging /\ thread = t
      BY <1>1 DEF IInv, AloneInv, VersionInv, Fits, Banging, CreatorInv
    <2>2. Crunching = {}
      BY <2>1 DEF IInv, AloneInv
    <2>. QED
      BY <2>1, <2>2
  <1>4. Holding' = {t} /\ Crunching' = {} /\ Banging' = Banging
    BY <1>2, <1>3
  <1>5. \A u \in Thread : /\ u = t \/ pc[u] \in {"idle", "bang"}
                          /\ pc'[u] \in {"idle", "bang"} \/ (u = t /\ pc'[u] = "running")
    BY <1>2, <1>3 DEF IInv, DataOK, Labels, Holding, Crunching
  <1>6. DataOK'
    BY <1>1, <1>2 DEF IInv, DataOK, Version
  <1>7. VersionInv'
    BY <1>1, <1>3, <1>5 DEF VersionInv, Fits, HoldLabels
  <1>8. CountInv'
    <2>1. \A u \in Thread : pc[u] # "unlock" /\ pc'[u] # "unlock"
      BY <1>1, <1>5
    <2>. QED
      BY <1>1, <1>3, <1>4, <2>1 DEF IInv, CountInv
  <1>9. AloneInv'
    BY <1>1, <1>4, <1>5 DEF AloneInv
  <1>10. CreatorInv'
    BY <1>1, <1>3, <1>4, <1>5 DEF CreatorInv, CrunchLabels
  <1>11. ServedInv'
    BY <1>1, <1>5 DEF IInv, ServedInv
  <1>12. LoaderInv'
    BY <1>1, <1>5 DEF IInv, LoaderInv
  <1>13. LivesInv'
    BY <1>1, <1>4 DEF IInv, LivesInv
  <1>14. StuckInv'
    BY <1>5 DEF StuckInv, StuckIsReported
  <1>15. OrderInv'
    <2>1. calls' = <<>> /\ Ordered(calls')
      BY <1>1, OrderedEmpty DEF IInv, OrderInv, HoldLabels
    <2>. QED
      BY <1>5, <2>1 DEF OrderInv
  <1>. QED
    BY <1>6, <1>7, <1>8, <1>9, <1>10, <1>11, <1>12, <1>13, <1>14, <1>15 DEF IInv

----------------------------------------------------------------------------
(* The last release *)

\* A reference is given up; only the creator, if it waits, can be the last and
\* then takes the universe down.
LEMMA ReleaseDecrementStep ==
    ASSUME IInv, NEW t \in Thread, ReleaseDecrement(t)
    PROVE  IInv'
  <1>1. PICK q \in {"crunch", "idle"} :
        /\ pc[t] = "decrement" /\ Goto(t, q) /\ retaincount_1' = retaincount_1 - 1
        /\ q = "crunch" => Pedantic /\ retaincount_1 = 0
        /\ UNCHANGED <<version, thread, aba, threadinfo, done, waitqueues, loader, loads, status,
                       left, calls, lives, failed>>
    BY DEF ReleaseDecrement, tables, queues, history
  <1>2. t \in Holding /\ t \notin Banging /\ t \notin Crunching /\ Crunching = {}
    BY <1>1 DEF IInv, AloneInv, Holding, Crunching, Banging, HoldLabels, CrunchLabels
  <1>3. /\ pc' \in [Thread -> Labels] /\ pc'[t] = q
        /\ \A u \in Thread \ {t} : pc'[u] = pc[u]
        /\ Holding' = Holding \ {t} /\ Banging' = Banging \ {t}
        /\ Crunching' = IF q = "crunch" THEN Crunching \cup {t} ELSE Crunching \ {t}
    BY <1>1, MoveFacts DEF IInv, Labels, HoldLabels, CrunchLabels
  <1>4. Banging' = Banging /\ Crunching' = IF q = "crunch" THEN {t} ELSE {}
    BY <1>2, <1>3
  <1>5. version = "ready"
    BY <1>1 DEF IInv, VersionInv, Fits, HoldLabels
  <1>6. \A u \in Thread : pc[u] \notin CrunchLabels /\ pc[u] \notin {"init", "bang unlock"}
    BY <1>2, <1>5 DEF Crunching, IInv, VersionInv, Fits
  <1>7. retaincount_1 = Cardinality(Holding) - 1
    BY <1>5, <1>6 DEF IInv, CountInv, CrunchLabels
  <1>8. Cardinality(Holding') = Cardinality(Holding) - 1 /\ Cardinality(Holding) \in Nat
    BY <1>2, <1>3, CountFacts
  <1>9. q = "crunch" => Holding = {t} /\ Waits
    BY <1>1, <1>2, <1>7, <1>8, CountFacts, ConfigAssumption
  <1>10. Waits => thread \in Holding
    BY <1>2, <1>6 DEF IInv, CreatorInv
  <1>11. q = "crunch" => thread = t /\ Holding' = {}
    BY <1>3, <1>9, <1>10
  <1>12. \A u \in Thread : \/ u # t /\ pc'[u] = pc[u] /\ pc'[u] \notin CrunchLabels
                           \/ u = t /\ pc'[u] = q
    BY <1>3, <1>6
  <1>13. DataOK'
    BY <1>1, <1>3 DEF IInv, DataOK
  <1>14. VersionInv'
    BY <1>1, <1>5, <1>12 DEF IInv, VersionInv, Fits, HoldLabels
  <1>15. CountInv'
    <2>1. \A u \in Thread : pc'[u] # "unlock"
      BY <1>12 DEF CrunchLabels
    <2>. QED
      BY <1>1, <1>5, <1>7, <1>8, <2>1 DEF CountInv
  <1>16. AloneInv'
    <2>1. \A u \in Thread : pc'[u] \notin {"init", "bang unlock"}
      BY <1>6, <1>12
    <2>. QED
      BY <1>4, <1>11, <2>1 DEF AloneInv
  <1>17. CreatorInv'
    <2>1. Waits /\ Holding' # {} => thread \in Holding'
      <3>1. Waits /\ thread = t => Holding = {t}
        BY <1>1 DEF IInv, CreatorInv
      <3>. QED
        BY <1>3, <1>10, <3>1
    <2>2. ASSUME NEW u \in Thread, Waits, pc'[u] = "decrement", thread = u PROVE Holding' = {u}
      <3>1. u # t /\ pc[u] = "decrement"
        BY <1>12, <2>2
      <3>2. Holding = {u}
        BY <2>2, <3>1 DEF IInv, CreatorInv
      <3>. QED
        BY <1>2, <3>1, <3>2
    <2>3. \A u \in Thread :
            /\ pc'[u] = "bang unlock" => thread = u
            /\ pc'[u] = "release" => thread # u
            /\ pc'[u] = "wait" => thread = u
            /\ pc'[u] \in CrunchLabels \ {"unlock"} => thread = u
      BY <1>11, <1>12 DEF IInv, CreatorInv, CrunchLabels
    <2>. QED
      BY <1>1, <2>1, <2>2, <2>3 DEF CreatorInv
  <1>18. ServedInv' /\ LoaderInv'
    BY <1>1, <1>12 DEF IInv, ServedInv, LoaderInv
  <1>19. LivesInv'
    BY <1>1, <1>4 DEF IInv, LivesInv
  <1>20. StuckInv'
    BY <1>12 DEF StuckInv, StuckIsReported, CrunchLabels
  <1>21. OrderInv'
    <2>1. calls' = <<>> /\ Ordered(calls')
      BY <1>1, OrderedEmpty DEF IInv, OrderInv, HoldLabels
    <2>2. \A u \in Thread : pc'[u] \notin {"willFinalize", "finalize", "deinit", "done", "check"}
      BY <1>12 DEF CrunchLabels
    <2>. QED
      BY <2>1, <2>2 DEF OrderInv
  <1>. QED
    BY <1>13, <1>14, <1>15, <1>16, <1>17, <1>18, <1>19, <1>20, <1>21 DEF IInv

----------------------------------------------------------------------------
(* The order of the teardown calls *)

\* The phases have the ranks they are listed with.
LEMMA Ranks ==
    /\ Rank("willFinalize") = 1 /\ Rank("finalize") = 2 /\ Rank("deinitialize") = 3
    /\ Rank("deinitializeSelf") = 4 /\ Rank("unload") = 5 /\ Rank("singleton") = 6
    /\ Rank("classcluster") = 7 /\ Rank("instantiate") = 8 /\ Rank("destructor") = 9
  <1>1. DOMAIN Phase = 1..9
    BY DEF Phase
  <1>2. /\ Phase[1] = "willFinalize" /\ Phase[2] = "finalize" /\ Phase[3] = "deinitialize"
        /\ Phase[4] = "deinitializeSelf" /\ Phase[5] = "unload" /\ Phase[6] = "singleton"
        /\ Phase[7] = "classcluster" /\ Phase[8] = "instantiate" /\ Phase[9] = "destructor"
    BY DEF Phase
  <1>3. \A i, j \in 1..9 : Phase[i] = Phase[j] => i = j
    BY <1>2
  <1>4. \A i \in 1..9 : Rank(Phase[i]) = i
    BY <1>1, <1>3 DEF Rank
  <1>. QED
    BY <1>2, <1>4

\* The phases of teardown
LEMMA Phases ==
    Range(Phase) = {"willFinalize", "finalize", "deinitialize", "deinitializeSelf", "unload",
                    "singleton", "classcluster", "instantiate", "destructor"}
  <1>1. DOMAIN Phase = 1..9
    BY DEF Phase
  <1>2. /\ Phase[1] = "willFinalize" /\ Phase[2] = "finalize" /\ Phase[3] = "deinitialize"
        /\ Phase[4] = "deinitializeSelf" /\ Phase[5] = "unload" /\ Phase[6] = "singleton"
        /\ Phase[7] = "classcluster" /\ Phase[8] = "instantiate" /\ Phase[9] = "destructor"
    BY DEF Phase
  <1>. QED
    BY <1>1, <1>2 DEF Range

\* A superclass has the lower classindex.
LEMMA LineageIsLower ==
    ASSUME NEW i \in DOMAIN Class, NEW j \in DOMAIN Class, Class[j] \in Lineage[Class[i]]
    PROVE  j <= i
  <1>1. DOMAIN Class = 1..Len(Class) /\ Len(Class) \in Nat
    BY ClassAssumption
  <1>. DEFINE S == {Class[k] : k \in 1..i}
  <1>2. S \subseteq Range(Class) /\ Class[i] \in S /\ Class[i] \in Range(Class)
    BY <1>1 DEF Range
  <1>3. ASSUME NEW e \in S \cap DOMAIN Super PROVE Super[e] \in S
    <2>1. PICK k \in 1..i : e = Class[k]
      OBVIOUS
    <2>2. PICK m \in 1..(k - 1) : Super[Class[k]] = Class[m]
      BY <1>1, <1>3, <2>1, ClassAssumption
    <2>. QED
      BY <1>1, <2>1, <2>2
  <1>4. Class[j] \in S
    <2>1. S \in SUBSET Range(Class)
      BY <1>2
    <2>. HIDE DEF S
    <2>. QED
      BY <1>2, <1>3, <2>1 DEF Lineage
  <1>5. PICK k \in 1..i : Class[j] = Class[k]
    BY <1>4
  <1>. QED
    BY <1>1, <1>5, ClassAssumption

\* The calls of one phase come in order, and are calls.
LEMMA ForEachOrdered ==
    ASSUME NEW phase \in Range(Phase)
    PROVE  /\ ForEach(phase) \in Seq(Call) /\ Ordered(ForEach(phase))
           /\ \A i \in DOMAIN ForEach(phase) : ForEach(phase)[i][1] = phase
  <1>1. DOMAIN Class = 1..Len(Class) /\ Len(Class) \in Nat
    BY ClassAssumption
  <1>. DEFINE n == Len(Class)
              s == [i \in 1..n |-> <<phase, Class[n + 1 - i]>>]
  <1>2. s = ForEach(phase)
    BY <1>1 DEF ForEach
  <1>3. \A i \in 1..n : n + 1 - i \in DOMAIN Class /\ Class[n + 1 - i] \in Range(Class)
    BY <1>1 DEF Range
  <1>4. \A i \in 1..n : s[i] \in Call
    BY <1>3 DEF Call
  <1>5. s \in Seq(Call) /\ DOMAIN s = 1..n
    BY <1>1, <1>4
  <1>6. Ordered(s)
    <2>. SUFFICES ASSUME NEW i \in 1..n, NEW j \in 1..n, i < j PROVE Before(s[i], s[j])
      BY <1>5 DEF Ordered
    <2>1. s[i][1] = phase /\ s[j][1] = phase /\ s[i][2] = Class[n + 1 - i] /\ s[j][2] = Class[n + 1 - j]
      OBVIOUS
    <2>2. Class[n + 1 - i] \notin Lineage[Class[n + 1 - j]]
      <3>1. ~(n + 1 - i <= n + 1 - j)
        BY <1>1
      <3>. QED
        BY <1>3, <3>1, LineageIsLower
    <2>3. Rank(phase) <= Rank(phase)
      BY Phases, Ranks
    <2>. QED
      BY <2>1, <2>2, <2>3 DEF Before
  <1>7. \A i \in DOMAIN s : s[i][1] = phase
    BY <1>5
  <1>. HIDE DEF s
  <1>. QED
    BY <1>2, <1>5, <1>6, <1>7

\* Calls in order, and calls in order that follow them
LEMMA OrderedConcat ==
    ASSUME NEW s \in Seq(Call), NEW r \in Seq(Call), Ordered(s), Ordered(r), Follows(s, r)
    PROVE  s \o r \in Seq(Call) /\ Ordered(s \o r)
  <1>1. /\ s \o r \in Seq(Call) /\ DOMAIN (s \o r) = 1..(Len(s) + Len(r))
        /\ Len(s) \in Nat /\ Len(r) \in Nat
        /\ DOMAIN s = 1..Len(s) /\ DOMAIN r = 1..Len(r)
        /\ \A i \in 1..Len(s) : (s \o r)[i] = s[i]
        /\ \A i \in (Len(s) + 1)..(Len(s) + Len(r)) : (s \o r)[i] = r[i - Len(s)]
    OBVIOUS
  <1>2. ASSUME NEW i \in 1..(Len(s) + Len(r)), NEW j \in 1..(Len(s) + Len(r)), i < j
        PROVE  Before((s \o r)[i], (s \o r)[j])
    <2>1. CASE j <= Len(s)
      <3>1. i \in DOMAIN s /\ j \in DOMAIN s /\ (s \o r)[i] = s[i] /\ (s \o r)[j] = s[j]
        BY <1>1, <1>2, <2>1
      <3>. QED
        BY <1>2, <3>1 DEF Ordered
    <2>2. CASE i > Len(s)
      <3>1. /\ i - Len(s) \in DOMAIN r /\ j - Len(s) \in DOMAIN r /\ i - Len(s) < j - Len(s)
            /\ (s \o r)[i] = r[i - Len(s)] /\ (s \o r)[j] = r[j - Len(s)]
        BY <1>1, <1>2, <2>2
      <3>. QED
        BY <3>1 DEF Ordered
    <2>3. CASE i <= Len(s) /\ j > Len(s)
      <3>1. /\ i \in DOMAIN s /\ j - Len(s) \in DOMAIN r
            /\ (s \o r)[i] = s[i] /\ (s \o r)[j] = r[j - Len(s)]
        BY <1>1, <2>3
      <3>. QED
        BY <3>1 DEF Follows
    <2>. QED
      BY <1>1, <2>1, <2>2, <2>3
  <1>. QED
    BY <1>1, <1>2 DEF Ordered

\* the ranks of the calls of a sequence
Within(s, lo, hi) == \A i \in DOMAIN s : Rank(s[i][1]) \in lo..hi

\* Calls of lower phases before calls of higher ones.
LEMMA ConcatRising ==
    ASSUME NEW s \in Seq(Call), NEW r \in Seq(Call), Ordered(s), Ordered(r),
           NEW a \in Nat, NEW b \in Nat, NEW c \in Nat, NEW d \in Nat,
           Within(s, a, b), Within(r, c, d), a <= c, b < c, b <= d
    PROVE  s \o r \in Seq(Call) /\ Ordered(s \o r) /\ Within(s \o r, a, d)
  <1>1. /\ DOMAIN (s \o r) = 1..(Len(s) + Len(r))
        /\ Len(s) \in Nat /\ Len(r) \in Nat
        /\ DOMAIN s = 1..Len(s) /\ DOMAIN r = 1..Len(r)
        /\ \A i \in 1..Len(s) : (s \o r)[i] = s[i]
        /\ \A i \in (Len(s) + 1)..(Len(s) + Len(r)) : (s \o r)[i] = r[i - Len(s)]
    OBVIOUS
  <1>2. ASSUME NEW i \in DOMAIN s, NEW j \in DOMAIN r PROVE Before(s[i], r[j])
    <2>1. Rank(s[i][1]) \in a..b /\ Rank(r[j][1]) \in c..d
      BY DEF Within
    <2>2. Rank(s[i][1]) < Rank(r[j][1])
      BY <2>1
    <2>3. s[i][1] # r[j][1] /\ Rank(s[i][1]) <= Rank(r[j][1])
      BY <2>1, <2>2
    <2>. QED
      BY <2>3 DEF Before
  <1>3. s \o r \in Seq(Call) /\ Ordered(s \o r)
    BY <1>2, OrderedConcat DEF Follows
  <1>4. ASSUME NEW i \in 1..(Len(s) + Len(r)) PROVE Rank((s \o r)[i][1]) \in a..d
    <2>1. CASE i <= Len(s)
      <3>1. i \in DOMAIN s /\ (s \o r)[i] = s[i]
        BY <1>1, <2>1
      <3>2. Rank(s[i][1]) \in a..b
        BY <3>1 DEF Within
      <3>. QED
        BY <3>1, <3>2
    <2>2. CASE i > Len(s)
      <3>1. i - Len(s) \in DOMAIN r /\ (s \o r)[i] = r[i - Len(s)]
        BY <1>1, <2>2
      <3>2. Rank(r[i - Len(s)][1]) \in c..d
        BY <3>1 DEF Within
      <3>. QED
        BY <3>1, <3>2
    <2>. QED
      BY <1>1, <2>1, <2>2
  <1>. QED
    BY <1>1, <1>3, <1>4 DEF Within

\* The two friends of the universe
LEMMA FriendsOrdered ==
    ASSUME NEW phase \in Range(Phase)
    PROVE  /\ Friends(phase) \in Seq(Call) /\ Ordered(Friends(phase))
           /\ DOMAIN Friends(phase) = 1..2
           /\ \A i \in DOMAIN Friends(phase) :
                 Friends(phase)[i][1] = phase /\ Friends(phase)[i][2] \notin Range(Class)
  <1>. DEFINE x == <<phase, "userinfo">>
              y == <<phase, "foundation">>
  <1>1. x \in Call /\ y \in Call /\ x[1] = phase /\ y[1] = phase
        /\ x[2] \notin Range(Class) /\ y[2] \notin Range(Class)
    BY ClassAssumption DEF Call, Other
  <1>2. Friends(phase) = <<x, y>>
    BY DEF Friends
  <1>. HIDE DEF x, y
  <1>3. <<x, y>> \in Seq(Call) /\ DOMAIN <<x, y>> = 1..2 /\ <<x, y>>[1] = x /\ <<x, y>>[2] = y
    BY <1>1
  <1>4. \A i \in 1..2 : <<x, y>>[i][1] = phase /\ <<x, y>>[i][2] \notin Range(Class)
    BY <1>1, <1>3
  <1>5. Rank(phase) <= Rank(phase)
    BY Phases, Ranks
  <1>6. Ordered(<<x, y>>)
    BY <1>3, <1>4, <1>5 DEF Ordered, Before
  <1>. QED
    BY <1>2, <1>3, <1>4, <1>6

\* The classes, then the friends, in one phase.
LEMMA RoundOrdered ==
    ASSUME NEW phase \in Range(Phase)
    PROVE  /\ ForEach(phase) \o Friends(phase) \in Seq(Call)
           /\ Ordered(ForEach(phase) \o Friends(phase))
           /\ \A i \in DOMAIN (ForEach(phase) \o Friends(phase)) :
                 (ForEach(phase) \o Friends(phase))[i][1] = phase
  <1>1. /\ ForEach(phase) \in Seq(Call) /\ Ordered(ForEach(phase))
        /\ \A i \in DOMAIN ForEach(phase) : ForEach(phase)[i][1] = phase
    BY ForEachOrdered
  <1>2. /\ Friends(phase) \in Seq(Call) /\ Ordered(Friends(phase))
        /\ \A i \in DOMAIN Friends(phase) :
                 Friends(phase)[i][1] = phase /\ Friends(phase)[i][2] \notin Range(Class)
    BY FriendsOrdered
  <1>3. Rank(phase) <= Rank(phase)
    BY Phases, Ranks
  <1>4. Follows(ForEach(phase), Friends(phase))
    BY <1>1, <1>2, <1>3 DEF Follows, Before
  <1>. DEFINE s == ForEach(phase)
              r == Friends(phase)
  <1>. HIDE DEF s, r
  <1>5. s \in Seq(Call) /\ r \in Seq(Call)
    BY <1>1, <1>2 DEF s, r
  <1>6. \A i \in DOMAIN s : s[i][1] = phase
    BY <1>1 DEF s
  <1>7. \A i \in DOMAIN r : r[i][1] = phase
    BY <1>2 DEF r
  <1>8. \A i \in DOMAIN (s \o r) : (s \o r)[i][1] = phase
    <2>1. /\ DOMAIN (s \o r) = 1..(Len(s) + Len(r)) /\ Len(s) \in Nat /\ Len(r) \in Nat
          /\ DOMAIN s = 1..Len(s) /\ DOMAIN r = 1..Len(r)
          /\ \A i \in 1..Len(s) : (s \o r)[i] = s[i]
          /\ \A i \in (Len(s) + 1)..(Len(s) + Len(r)) : (s \o r)[i] = r[i - Len(s)]
      BY <1>5
    <2>. TAKE i \in DOMAIN (s \o r)
    <2>2. CASE i <= Len(s)
      BY <1>6, <2>1, <2>2
    <2>3. CASE i > Len(s)
      <3>1. i - Len(s) \in DOMAIN r /\ (s \o r)[i] = r[i - Len(s)]
        BY <2>1, <2>3
      <3>. QED
        BY <1>7, <3>1
    <2>. QED
      BY <2>1, <2>2, <2>3
  <1>9. s \o r \in Seq(Call) /\ Ordered(s \o r)
    BY <1>1, <1>2, <1>4, OrderedConcat DEF s, r
  <1>. QED
    BY <1>8, <1>9 DEF s, r

\* Singletons, class clusters and placeholders
LEMMA PlaceholdersOrdered ==
    Placeholders \in Seq(Call) /\ Ordered(Placeholders) /\ Within(Placeholders, 6, 8)
  <1>. DEFINE p == <<"singleton", "classcluster", "instantiate">>
              s == [i \in 1..3 |-> <<p[i], "objects">>]
  <1>1. p[1] = "singleton" /\ p[2] = "classcluster" /\ p[3] = "instantiate"
    OBVIOUS
  <1>2. \A i \in 1..3 : s[i] = <<p[i], "objects">>
    OBVIOUS
  <1>3. DOMAIN s = 1..3 /\ s = Placeholders
    BY DEF Placeholders
  <1>. HIDE DEF p, s
  <1>4. /\ s[1] = <<"singleton", "objects">> /\ s[2] = <<"classcluster", "objects">>
        /\ s[3] = <<"instantiate", "objects">>
    BY <1>1, <1>2
  <1>5. \A i \in 1..3 : s[i] \in Call
    BY <1>4, Phases DEF Call, Other
  <1>6. s \in Seq(Call)
    <2>1. s = [i \in 1..3 |-> s[i]]
      BY <1>2, <1>3 DEF s
    <2>. QED
      BY <1>5, <2>1
  <1>7. Within(s, 6, 8)
    BY <1>3, <1>4, Ranks DEF Within
  <1>8. Ordered(s)
    BY <1>3, <1>4, Ranks DEF Ordered, Before
  <1>. QED
    BY <1>3, <1>6, <1>7, <1>8

\* The first call of teardown
LEMMA WillFinalizeOrdered ==
    /\ WillFinalizeCalls \in Seq(Call) /\ Ordered(WillFinalizeCalls)
    /\ \A i \in DOMAIN WillFinalizeCalls : WillFinalizeCalls[i][1] = "willFinalize"
  BY Phases, RoundOrdered DEF WillFinalizeCalls

\* The calls that are left once classes are done
LEMMA DoneOrdered ==
    DoneCalls \in Seq(Call) /\ Ordered(DoneCalls) /\ Within(DoneCalls, 2, 9)
  <1>1. /\ "finalize" \in Range(Phase) /\ "deinitialize" \in Range(Phase)
        /\ "deinitializeSelf" \in Range(Phase) /\ "unload" \in Range(Phase)
        /\ "destructor" \in Range(Phase)
    BY Phases
  <1>. DEFINE s1 == ForEach("finalize") \o Friends("finalize")
              s2 == ForEach("deinitialize")
              s3 == ForEach("deinitializeSelf")
              s4 == ForEach("unload")
              s5 == Placeholders
              s6 == Friends("destructor")
  <1>2. s1 \in Seq(Call) /\ Ordered(s1) /\ Within(s1, 2, 2)
    <2>1. s1 \in Seq(Call) /\ Ordered(s1) /\ \A i \in DOMAIN s1 : s1[i][1] = "finalize"
      BY <1>1, RoundOrdered
    <2>. HIDE DEF s1
    <2>. QED
      BY <2>1, Ranks DEF Within
  <1>3. s2 \in Seq(Call) /\ Ordered(s2) /\ Within(s2, 3, 3)
    BY <1>1, ForEachOrdered, Ranks DEF Within
  <1>4. s3 \in Seq(Call) /\ Ordered(s3) /\ Within(s3, 4, 4)
    BY <1>1, ForEachOrdered, Ranks DEF Within
  <1>5. s4 \in Seq(Call) /\ Ordered(s4) /\ Within(s4, 5, 5)
    BY <1>1, ForEachOrdered, Ranks DEF Within
  <1>6. s5 \in Seq(Call) /\ Ordered(s5) /\ Within(s5, 6, 8)
    BY PlaceholdersOrdered
  <1>7. s6 \in Seq(Call) /\ Ordered(s6) /\ Within(s6, 9, 9)
    BY <1>1, FriendsOrdered, Ranks DEF Within
  <1>8. DoneCalls = s1 \o s2 \o s3 \o s4 \o s5 \o s6
    BY DEF DoneCalls
  <1>. HIDE DEF s1, s2, s3, s4, s5, s6
  <1>9. s1 \o s2 \in Seq(Call) /\ Ordered(s1 \o s2) /\ Within(s1 \o s2, 2, 3)
    BY <1>2, <1>3, ConcatRising
  <1>. DEFINE r2 == s1 \o s2
  <1>. HIDE DEF r2
  <1>10. r2 \o s3 \in Seq(Call) /\ Ordered(r2 \o s3) /\ Within(r2 \o s3, 2, 4)
    <2>1. r2 \in Seq(Call) /\ Ordered(r2) /\ Within(r2, 2, 3)
      BY <1>9 DEF r2
    <2>. QED
      BY <1>4, <2>1, ConcatRising
  <1>. DEFINE r3 == r2 \o s3
  <1>. HIDE DEF r3
  <1>11. r3 \o s4 \in Seq(Call) /\ Ordered(r3 \o s4) /\ Within(r3 \o s4, 2, 5)
    <2>1. r3 \in Seq(Call) /\ Ordered(r3) /\ Within(r3, 2, 4)
      BY <1>10 DEF r3
    <2>. QED
      BY <1>5, <2>1, ConcatRising
  <1>. DEFINE r4 == r3 \o s4
  <1>. HIDE DEF r4
  <1>12. r4 \o s5 \in Seq(Call) /\ Ordered(r4 \o s5) /\ Within(r4 \o s5, 2, 8)
    <2>1. r4 \in Seq(Call) /\ Ordered(r4) /\ Within(r4, 2, 5)
      BY <1>11 DEF r4
    <2>. QED
      BY <1>6, <2>1, ConcatRising
  <1>. DEFINE r5 == r4 \o s5
  <1>. HIDE DEF r5
  <1>13. r5 \o s6 \in Seq(Call) /\ Ordered(r5 \o s6) /\ Within(r5 \o s6, 2, 9)
    <2>1. r5 \in Seq(Call) /\ Ordered(r5) /\ Within(r5, 2, 8)
      BY <1>12 DEF r5
    <2>. QED
      BY <1>7, <2>1, ConcatRising
  <1>14. DoneCalls = r5 \o s6
    BY <1>8 DEF r5, r4, r3, r2
  <1>. QED
    BY <1>13, <1>14

----------------------------------------------------------------------------
(* Taking the universe down *)

\* The parts of the invariant that CrunchMove does not settle.
LEMMA CrunchRest ==
    ASSUME DataOK', VersionInv', CountInv', AloneInv', CreatorInv', ServedInv', LoaderInv',
           LivesInv', StuckInv', OrderInv'
    PROVE  IInv'
  BY DEF IInv

\* A thread that stays where it is
LEMMA Staying ==
    ASSUME DataOK, NEW t \in Thread, UNCHANGED pc
    PROVE  Goto(t, pc[t])
  BY DEF DataOK, Goto

\* Teardown begins.
LEMMA CrunchLockStep ==
    ASSUME IInv, NEW t \in Thread, CrunchLock(t)
    PROVE  IInv'
  <1>1. /\ pc[t] = "crunch" /\ version \in {"ready", "leaving"}
        /\ UNCHANGED <<retaincount_1, thread, aba, threadinfo, done, waitqueues, loader, loads,
                       status, calls, lives, failed>>
    BY DEF CrunchLock, tables, queues, history, IInv, VersionInv, Fits
  <1>2. CASE version = "ready" /\ version' = "leaving" /\ UNCHANGED <<pc, left>>
    <2>1. Goto(t, "crunch")
      BY <1>1, <1>2, Staying DEF IInv
    <2>2. Fits("crunch", version') /\ version' # "uninitialized" /\ version' \in Version
      BY <1>2 DEF Fits, HoldLabels, Version
    <2>3. /\ VersionInv' /\ CountInv' /\ AloneInv' /\ CreatorInv' /\ ServedInv' /\ LoaderInv' /\ LivesInv'
      BY <1>1, <2>1, <2>2, CrunchMove DEF CrunchLabels
    <2>4. DataOK' /\ StuckInv' /\ OrderInv'
      BY <1>1, <1>2, <2>2 DEF IInv, DataOK, StuckInv, StuckIsReported, OrderInv
    <2>. QED
      BY <2>3, <2>4, CrunchRest
  <1>3. CASE /\ version = "leaving" /\ left' = [left EXCEPT ![t] = WillFinalizeCalls]
             /\ Goto(t, "willFinalize") /\ UNCHANGED version
    <2>1. Fits("willFinalize", version') /\ version' # "uninitialized"
      BY <1>3 DEF Fits, HoldLabels
    <2>2. /\ VersionInv' /\ CountInv' /\ AloneInv' /\ CreatorInv' /\ ServedInv' /\ LoaderInv' /\ LivesInv'
          /\ pc'[t] = "willFinalize"
          /\ \A u \in Thread \ {t} : pc[u] \in {"idle", "bang"} /\ pc'[u] = pc[u]
      BY <1>1, <1>3, <2>1, CrunchMove DEF CrunchLabels
    <2>3. pc' \in [Thread -> Labels]
      BY <1>3, MoveFacts DEF IInv, Labels, CrunchLabels
    <2>4. left' \in [Thread -> Seq(Call)] /\ left'[t] = WillFinalizeCalls
      BY <1>3, WillFinalizeOrdered DEF IInv, DataOK
    <2>5. DataOK'
      BY <1>1, <1>3, <2>3, <2>4 DEF IInv, DataOK
    <2>6. StuckInv'
      BY <2>2 DEF StuckInv, StuckIsReported
    <2>7. calls = <<>>
      BY <1>1 DEF IInv, OrderInv
    <2>8. OrderInv'
      <3>1. Ordered(calls') /\ Follows(calls', left'[t]) /\ \A i \in DOMAIN calls' : FALSE
        <4>1. DOMAIN <<>> = {}
          OBVIOUS
        <4>. QED
          BY <1>1, <2>7, <4>1, OrderedEmpty DEF Follows
      <3>2. Ordered(left'[t]) /\ \A i \in DOMAIN left'[t] : left'[t][i][1] = "willFinalize"
        BY <2>4, WillFinalizeOrdered
      <3>. QED
        BY <2>2, <3>1, <3>2 DEF OrderInv, HoldLabels
    <2>. QED
      BY <2>2, <2>5, <2>6, <2>8, CrunchRest
  <1>. QED
    BY <1>1, <1>2, <1>3 DEF CrunchLock

\* One more call, in order.
LEMMA AppendOrdered ==
    ASSUME NEW s \in Seq(Call), NEW r \in Seq(Call), r # <<>>,
           Ordered(s), Ordered(r), Follows(s, r)
    PROVE  /\ Append(s, Head(r)) \in Seq(Call) /\ Tail(r) \in Seq(Call) /\ Head(r) \in Call
           /\ Ordered(Append(s, Head(r))) /\ Ordered(Tail(r))
           /\ Follows(s, Tail(r)) /\ Follows(Append(s, Head(r)), Tail(r))
           /\ \A i \in DOMAIN Tail(r) : i + 1 \in DOMAIN r /\ Tail(r)[i] = r[i + 1]
           /\ \A i \in DOMAIN Append(s, Head(r)) :
                 (i \in DOMAIN s /\ Append(s, Head(r))[i] = s[i]) \/ Append(s, Head(r))[i] = r[1]
           /\ 1 \in DOMAIN r
  <1>. DEFINE a == Append(s, Head(r))
              b == Tail(r)
  <1>1. /\ a \in Seq(Call) /\ b \in Seq(Call) /\ Head(r) = r[1] /\ r[1] \in Call
        /\ Len(s) \in Nat /\ Len(r) \in Nat \ {0} /\ DOMAIN s = 1..Len(s) /\ DOMAIN r = 1..Len(r)
        /\ DOMAIN a = 1..(Len(s) + 1) /\ DOMAIN b = 1..(Len(r) - 1)
        /\ a[Len(s) + 1] = r[1] /\ \A i \in 1..Len(s) : a[i] = s[i]
        /\ \A i \in 1..(Len(r) - 1) : b[i] = r[i + 1]
    OBVIOUS
  <1>. HIDE DEF a, b
  <1>2. \A i \in DOMAIN b : i + 1 \in DOMAIN r /\ b[i] = r[i + 1] /\ 1 < i + 1
    BY <1>1
  <1>3. \A i \in DOMAIN a : (i \in DOMAIN s /\ a[i] = s[i]) \/ (i = Len(s) + 1 /\ a[i] = r[1])
    BY <1>1
  <1>4. 1 \in DOMAIN r
    BY <1>1
  <1>5. ASSUME NEW i \in DOMAIN a, NEW j \in DOMAIN a, i < j PROVE Before(a[i], a[j])
    <2>1. i \in DOMAIN s /\ a[i] = s[i]
      BY <1>1, <1>5
    <2>. QED
      BY <1>3, <1>4, <1>5, <2>1 DEF Ordered, Follows
  <1>6. ASSUME NEW i \in DOMAIN b, NEW j \in DOMAIN b, i < j PROVE Before(b[i], b[j])
    <2>1. i + 1 < j + 1
      BY <1>1, <1>6
    <2>. QED
      BY <1>2, <2>1 DEF Ordered
  <1>7. ASSUME NEW i \in DOMAIN a, NEW j \in DOMAIN b PROVE Before(a[i], b[j])
    BY <1>2, <1>3, <1>4 DEF Ordered, Follows
  <1>8. Follows(s, b)
    BY <1>2 DEF Follows
  <1>9. Ordered(a) /\ Ordered(b) /\ Follows(a, b)
    BY <1>5, <1>6, <1>7 DEF Ordered, Follows
  <1>. QED
    BY <1>1, <1>2, <1>3, <1>4, <1>8, <1>9 DEF a, b

\* Calls of teardown to friends and classes
LEMMA CrunchCallStep ==
    ASSUME IInv, NEW t \in Thread, CrunchCall(t)
    PROVE  IInv'
  <1>1. PICK p \in {"willFinalize", "finalize"} :
        /\ pc[t] = p /\ left[t] # <<>> /\ left' = [left EXCEPT ![t] = Tail(left[t])]
        /\ UNCHANGED <<version, retaincount_1, thread, aba, threadinfo, waitqueues, loader, loads,
                       status, pc, lives, failed>>
    BY DEF CrunchCall, queues
  <1>2. \/ calls' = Append(calls, Head(left[t]))
        \/ calls' = calls
    BY DEF CrunchCall
  <1>3. done' \subseteq Range(Class)
    <2>1. done \subseteq Range(Class)
      BY DEF IInv, DataOK
    <2>. QED
      BY <2>1, LineageIsClasses DEF CrunchCall
  <1>4. Goto(t, p)
    BY <1>1, Staying DEF IInv
  <1>5. Fits(p, version') /\ version' # "uninitialized"
    BY <1>1 DEF IInv, VersionInv, Fits
  <1>6. /\ VersionInv' /\ CountInv' /\ AloneInv' /\ CreatorInv' /\ ServedInv' /\ LoaderInv' /\ LivesInv'
        /\ \A u \in Thread \ {t} : pc[u] \in {"idle", "bang"} /\ pc'[u] = pc[u]
    <2>1. p \in CrunchLabels \ {"unlock"}
      BY DEF CrunchLabels
    <2>. QED
      BY <1>1, <1>4, <1>5, <2>1, CrunchMove
  <1>7. left[t] \in Seq(Call) /\ calls \in Seq(Call)
    BY DEF IInv, DataOK
  <1>8. Ordered(calls) /\ Ordered(left[t]) /\ Follows(calls, left[t])
    BY <1>1 DEF IInv, OrderInv
  <1>9. /\ calls' \in Seq(Call) /\ Tail(left[t]) \in Seq(Call)
        /\ Ordered(calls') /\ Ordered(Tail(left[t])) /\ Follows(calls', Tail(left[t]))
    BY <1>1, <1>2, <1>7, <1>8, AppendOrdered
  <1>10. left' \in [Thread -> Seq(Call)] /\ left'[t] = Tail(left[t])
    BY <1>1, <1>9 DEF IInv, DataOK
  <1>11. DataOK'
    BY <1>1, <1>3, <1>9, <1>10 DEF IInv, DataOK
  <1>12. StuckInv'
    BY <1>1 DEF IInv, StuckInv, StuckIsReported
  <1>13. OrderInv'
    <2>1. ASSUME p = "willFinalize"
          PROVE  /\ \A i \in DOMAIN Tail(left[t]) : Tail(left[t])[i][1] = "willFinalize"
                 /\ \A i \in DOMAIN calls' : calls'[i][1] = "willFinalize"
      <3>1. /\ \A i \in DOMAIN left[t] : left[t][i][1] = "willFinalize"
            /\ \A i \in DOMAIN calls : calls[i][1] = "willFinalize"
        BY <1>1, <2>1 DEF IInv, OrderInv
      <3>2. /\ \A i \in DOMAIN Tail(left[t]) : i + 1 \in DOMAIN left[t] /\ Tail(left[t])[i] = left[t][i + 1]
            /\ \A i \in DOMAIN Append(calls, Head(left[t])) :
                 \/ i \in DOMAIN calls /\ Append(calls, Head(left[t]))[i] = calls[i]
                 \/ Append(calls, Head(left[t]))[i] = left[t][1]
            /\ 1 \in DOMAIN left[t]
        BY <1>1, <1>7, <1>8, AppendOrdered
      <3>3. \A i \in DOMAIN Tail(left[t]) : Tail(left[t])[i][1] = "willFinalize"
        BY <3>1, <3>2
      <3>4. \A i \in DOMAIN calls' : calls'[i][1] = "willFinalize"
        BY <1>2, <3>1, <3>2
      <3>. QED
        BY <3>3, <3>4
    <2>2. \A u \in Thread : pc'[u] \in {"idle", "bang"} \/ (u = t /\ pc'[u] = p)
      BY <1>1, <1>6
    <2>. QED
      BY <1>9, <1>10, <2>1, <2>2 DEF OrderInv, HoldLabels
  <1>. QED
    BY <1>6, <1>11, <1>12, <1>13, CrunchRest

\* The universe is deinitializing.
LEMMA CrunchDeinitStep ==
    ASSUME IInv, NEW t \in Thread, CrunchDeinit(t)
    PROVE  IInv'
  <1>1. UNCHANGED <<retaincount_1, thread, aba, threadinfo, done, waitqueues, loader, loads,
                    status, left, calls, lives, failed>>
    BY DEF CrunchDeinit, tables, queues, history
  <1>2. PICK p \in {"willFinalize", "deinit"}, q \in {"deinit", "done"} :
          /\ pc[t] = p /\ Goto(t, q)
          /\ \/ q = "deinit" /\ version = "leaving" /\ version' \in {"leaving", "deinitializing"}
             \/ q = "done" /\ version = "deinitializing" /\ version' = version
    <2>1. CASE pc[t] = "willFinalize" /\ Goto(t, "deinit") /\ UNCHANGED version
      <3>1. version = "leaving"
        BY <2>1 DEF IInv, VersionInv, Fits
      <3>. QED
        BY <2>1, <3>1
    <2>2. CASE pc[t] = "deinit" /\ version = "leaving" /\ version' = "deinitializing" /\ UNCHANGED pc
      BY <2>2, Staying DEF IInv
    <2>3. CASE pc[t] = "deinit" /\ version = "deinitializing" /\ Goto(t, "done") /\ UNCHANGED version
      BY <2>3
    <2>. QED
      BY <2>1, <2>2, <2>3 DEF CrunchDeinit
  <1>3. Fits(q, version') /\ version' # "uninitialized" /\ version' \in Version
    BY <1>2 DEF Fits, HoldLabels, Version
  <1>4. p \in CrunchLabels \ {"unlock"} /\ q \in CrunchLabels \ {"unlock"} /\ q \in Labels
    BY DEF CrunchLabels, Labels
  <1>5. /\ VersionInv' /\ CountInv' /\ AloneInv' /\ CreatorInv' /\ ServedInv' /\ LoaderInv' /\ LivesInv'
        /\ pc'[t] = q
        /\ \A u \in Thread \ {t} : pc[u] \in {"idle", "bang"} /\ pc'[u] = pc[u]
    BY <1>1, <1>2, <1>3, <1>4, CrunchMove
  <1>6. pc' \in [Thread -> Labels]
    BY <1>2, <1>4, MoveFacts DEF IInv
  <1>7. DataOK'
    BY <1>1, <1>3, <1>6 DEF IInv, DataOK
  <1>8. \A u \in Thread : pc'[u] \in {"idle", "bang"} \/ (u = t /\ pc'[u] = q)
    BY <1>5
  <1>9. StuckInv'
    BY <1>8 DEF StuckInv, StuckIsReported
  <1>10. OrderInv'
    <2>1. Ordered(calls) /\ \A i \in DOMAIN calls : calls[i][1] = "willFinalize"
      BY <1>2 DEF IInv, OrderInv
    <2>. QED
      BY <1>1, <1>8, <2>1 DEF OrderInv, HoldLabels
  <1>. QED
    BY <1>5, <1>7, <1>9, <1>10, CrunchRest

\* The teardown is run by the thread that made the universe.
LEMMA DoneStartStep ==
    ASSUME IInv, NEW t \in Thread, DoneStart(t)
    PROVE  IInv'
  <1>1. pc[t] = "done" /\ thread = t
    BY DEF DoneStart, IInv, CreatorInv, CrunchLabels
  <1>2. /\ Goto(t, "check") /\ UNCHANGED failed
        /\ status' = IF waitqueues.classes = 0 THEN "no classes" ELSE "classes"
        /\ UNCHANGED <<version, retaincount_1, thread, aba, threadinfo, done, waitqueues, loader,
                       loads, left, calls, lives>>
    BY <1>1 DEF DoneStart, tables
  <1>3. Fits("check", version') /\ version' # "uninitialized"
    BY <1>1, <1>2 DEF IInv, VersionInv, Fits, HoldLabels
  <1>4. /\ VersionInv' /\ CountInv' /\ AloneInv' /\ CreatorInv' /\ ServedInv' /\ LoaderInv' /\ LivesInv'
        /\ pc'[t] = "check"
        /\ \A u \in Thread \ {t} : pc[u] \in {"idle", "bang"} /\ pc'[u] = pc[u]
    BY <1>1, <1>2, <1>3, CrunchMove DEF CrunchLabels
  <1>5. pc' \in [Thread -> Labels]
    BY <1>2, MoveFacts DEF IInv, Labels, CrunchLabels
  <1>6. DataOK'
    BY <1>2, <1>5 DEF IInv, DataOK
  <1>7. \A u \in Thread : pc'[u] \in {"idle", "bang"} \/ (u = t /\ pc'[u] = "check")
    BY <1>4
  <1>8. StuckInv'
    BY <1>2, <1>7 DEF StuckInv, StuckIsReported
  <1>9. OrderInv'
    <2>1. Ordered(calls) /\ \A i \in DOMAIN calls : calls[i][1] = "willFinalize"
      BY <1>1 DEF IInv, OrderInv
    <2>. QED
      BY <1>2, <1>7, <2>1 DEF OrderInv, HoldLabels
  <1>. QED
    BY <1>4, <1>6, <1>8, <1>9, CrunchRest

\* Nobody is loading: the counts are exact.
LEMMA CheckWaitqueuesStep ==
    ASSUME IInv, NEW t \in Thread, CheckWaitqueues(t)
    PROVE  IInv'
  <1>1. /\ pc[t] = "check" /\ Goto(t, "finalize") /\ left' = [left EXCEPT ![t] = DoneCalls]
        /\ UNCHANGED <<version, retaincount_1, thread, aba, threadinfo, done, waitqueues, loader,
                       loads, calls, lives, failed>>
    BY DEF CheckWaitqueues, tables, history
  <1>2. Fits("finalize", version') /\ version' # "uninitialized"
    BY <1>1 DEF IInv, VersionInv, Fits, HoldLabels
  <1>3. /\ VersionInv' /\ CountInv' /\ AloneInv' /\ CreatorInv' /\ ServedInv' /\ LoaderInv' /\ LivesInv'
        /\ pc'[t] = "finalize" /\ loader = NoThread
        /\ \A u \in Thread \ {t} : pc[u] \in {"idle", "bang"} /\ pc'[u] = pc[u]
    BY <1>1, <1>2, CrunchMove DEF CrunchLabels
  <1>4. pc' \in [Thread -> Labels]
    BY <1>1, MoveFacts DEF IInv, Labels, CrunchLabels
  <1>5. left' \in [Thread -> Seq(Call)] /\ left'[t] = DoneCalls
    BY <1>1, DoneOrdered DEF IInv, DataOK
  <1>6. DataOK'
    BY <1>1, <1>4, <1>5 DEF IInv, DataOK
  <1>7. \A u \in Thread : pc'[u] \in {"idle", "bang"} \/ (u = t /\ pc'[u] = "finalize")
    BY <1>3
  <1>8. StuckInv'
    <2>1. status = IF waitqueues.classes = 0 THEN "no classes" ELSE "classes"
      BY <1>1 DEF IInv, StuckInv
    <2>2. status' = IF status = "no classes" /\ waitqueues.categories = 0 THEN "ok" ELSE "incomplete"
      BY <1>3 DEF CheckWaitqueues
    <2>3. waitqueues.classes \in 0..1 /\ waitqueues.categories \in 0..1
      BY DEF IInv, DataOK
    <2>4. waitqueues.classes + waitqueues.categories = 0
          <=> status = "no classes" /\ waitqueues.categories = 0
      <3>1. waitqueues.classes = 0 <=> status = "no classes"
        BY <2>1
      <3>2. waitqueues.classes + waitqueues.categories = 0
            <=> waitqueues.classes = 0 /\ waitqueues.categories = 0
        BY <2>3
      <3>. QED
        BY <3>1, <3>2
    <2>5. status' = IF waitqueues'.classes + waitqueues'.categories = 0 THEN "ok" ELSE "incomplete"
      BY <1>1, <2>2, <2>4
    <2>. QED
      BY <1>7, <2>5 DEF StuckInv, StuckIsReported
  <1>9. OrderInv'
    <2>1. Ordered(calls) /\ \A i \in DOMAIN calls : calls[i][1] = "willFinalize"
      BY <1>1 DEF IInv, OrderInv
    <2>2. Follows(calls, DoneCalls)
      <3>. SUFFICES ASSUME NEW i \in DOMAIN calls, NEW j \in DOMAIN DoneCalls
                    PROVE  Before(calls[i], DoneCalls[j])
        BY DEF Follows
      <3>1. Rank(calls[i][1]) = 1 /\ Rank(DoneCalls[j][1]) \in 2..9
        BY <2>1, Ranks, DoneOrdered DEF Within
      <3>2. calls[i][1] # DoneCalls[j][1] /\ Rank(calls[i][1]) <= Rank(DoneCalls[j][1])
        BY <3>1
      <3>. QED
        BY <3>2 DEF Before
    <2>. QED
      BY <1>1, <1>5, <1>7, <2>1, <2>2, DoneOrdered DEF OrderInv, HoldLabels
  <1>. QED
    BY <1>3, <1>6, <1>8, <1>9, CrunchRest

\* Nobody is messaged from here on.
LEMMA StopMessagingStep ==
    ASSUME IInv, NEW t \in Thread, StopMessaging(t)
    PROVE  IInv'
  <1>1. pc[t] = "finalize" /\ version = "deinitializing"
    BY DEF StopMessaging, IInv, VersionInv, Fits
  <1>2. /\ Goto(t, "free") /\ version' = "deallocating" /\ UNCHANGED failed
        /\ UNCHANGED <<retaincount_1, thread, aba, threadinfo, done, waitqueues, loader,
                       loads, status, left, calls, lives>>
    BY <1>1 DEF StopMessaging, tables, queues
  <1>3. Fits("free", version') /\ version' # "uninitialized" /\ version' \in Version
    BY <1>2 DEF Fits, HoldLabels, Version
  <1>4. /\ VersionInv' /\ CountInv' /\ AloneInv' /\ CreatorInv' /\ ServedInv' /\ LoaderInv' /\ LivesInv'
        /\ pc'[t] = "free"
        /\ \A u \in Thread \ {t} : pc[u] \in {"idle", "bang"} /\ pc'[u] = pc[u]
    BY <1>1, <1>2, <1>3, CrunchMove DEF CrunchLabels
  <1>5. pc' \in [Thread -> Labels]
    BY <1>2, MoveFacts DEF IInv, Labels, CrunchLabels
  <1>6. DataOK'
    BY <1>2, <1>3, <1>5 DEF IInv, DataOK
  <1>7. \A u \in Thread : pc'[u] \in {"idle", "bang"} \/ (u = t /\ pc'[u] = "free")
    BY <1>4
  <1>8. StuckInv'
    BY <1>1, <1>2, <1>7 DEF IInv, StuckInv, StuckIsReported
  <1>9. OrderInv'
    <2>1. Ordered(calls)
      BY DEF IInv, OrderInv
    <2>. QED
      BY <1>2, <1>7, <2>1 DEF OrderInv, HoldLabels
  <1>. QED
    BY <1>4, <1>6, <1>8, <1>9, CrunchRest

\* The universe is freed,
LEMMA FreeStep ==
    ASSUME IInv, NEW t \in Thread, Free(t)
    PROVE  IInv'
  <1>1. /\ pc[t] = "free" /\ Goto(t, "unlock")
        /\ aba' = aba \ {t} /\ threadinfo' = threadinfo \ {t}
        /\ retaincount_1' = 0 /\ thread' = NoThread /\ done' = {}
        /\ waitqueues' = [classes |-> 0, categories |-> 0] /\ loads' = 0
        /\ UNCHANGED <<version, loader, left, calls, lives, failed>>
    BY DEF Free, Zeroed, history
  <1>2. t \in Crunching /\ t \notin Banging /\ Holding = {} /\ Crunching = {t}
    BY <1>1 DEF IInv, AloneInv, Crunching, CrunchLabels, Banging
  <1>3. /\ pc' \in [Thread -> Labels] /\ pc'[t] = "unlock"
        /\ \A u \in Thread \ {t} : pc'[u] = pc[u]
        /\ Holding' = Holding \ {t} /\ Crunching' = Crunching \cup {t} /\ Banging' = Banging \ {t}
    BY <1>1, MoveFacts DEF IInv, Labels, HoldLabels, CrunchLabels
  <1>4. Holding' = {} /\ Crunching' = {t} /\ Banging' = Banging
    BY <1>2, <1>3
  <1>5. \A u \in Thread \ {t} : pc[u] \in {"idle", "bang"}
    BY <1>2 DEF IInv, DataOK, Labels, Holding, Crunching
  <1>6. \A u \in Thread : \/ u # t /\ pc[u] \in {"idle", "bang"} /\ pc'[u] \in {"idle", "bang"}
                          \/ u = t /\ pc'[u] = "unlock"
    BY <1>3, <1>5
  <1>7. DataOK'
    <2>1. waitqueues' \in [classes : 0..1, categories : 0..1]
      BY <1>1
    <2>2. loads' \in 0..MaxLoads
      BY <1>1, BoundAssumption
    <2>. QED
      BY <1>1, <1>3, <2>1, <2>2 DEF IInv, DataOK
  <1>8. VersionInv'
    <2>1. version = "deallocating"
      BY <1>1 DEF IInv, VersionInv, Fits
    <2>. QED
      BY <1>1, <1>6, <2>1 DEF VersionInv, Fits, HoldLabels
  <1>9. CountInv'
    BY <1>1, <1>3, <1>4 DEF CountInv
  <1>10. AloneInv' /\ CreatorInv'
    <2>1. AloneInv'
      BY <1>4, <1>6 DEF AloneInv
    <2>2. CreatorInv'
      BY <1>4, <1>6 DEF CreatorInv, CrunchLabels
    <2>. QED
      BY <2>1, <2>2
  <1>11. ServedInv'
    BY <1>6 DEF ServedInv
  <1>12. LoaderInv'
    BY <1>1, <1>6 DEF IInv, LoaderInv
  <1>13. LivesInv'
    BY <1>1, <1>4 DEF IInv, LivesInv
  <1>14. StuckInv'
    BY <1>6 DEF StuckInv, StuckIsReported
  <1>15. OrderInv'
    BY <1>1, <1>6 DEF IInv, OrderInv, HoldLabels
  <1>. QED
    BY <1>7, <1>8, <1>9, <1>10, <1>11, <1>12, <1>13, <1>14, <1>15 DEF IInv

\* and can be made anew.
LEMMA CrunchUnlockStep ==
    ASSUME IInv, NEW t \in Thread, CrunchUnlock(t)
    PROVE  IInv'
  <1>1. /\ pc[t] = "unlock" /\ Goto(t, "idle") /\ version' = "uninitialized"
        /\ UNCHANGED <<retaincount_1, thread, aba, threadinfo, done, waitqueues, loader, loads,
                       status, left, calls, lives, failed>>
    BY DEF CrunchUnlock, tables, queues, history
  <1>2. t \in Crunching /\ t \notin Banging /\ Holding = {} /\ Crunching = {t} /\ retaincount_1 = 0
    BY <1>1 DEF IInv, AloneInv, Crunching, CrunchLabels, Banging, CountInv
  <1>3. /\ pc' \in [Thread -> Labels] /\ pc'[t] = "idle"
        /\ \A u \in Thread \ {t} : pc'[u] = pc[u]
        /\ Holding' = Holding \ {t} /\ Crunching' = Crunching \ {t} /\ Banging' = Banging \ {t}
    <2>1. "idle" \in Labels /\ "idle" \notin HoldLabels /\ "idle" \notin CrunchLabels
      BY DEF Labels, HoldLabels, CrunchLabels
    <2>2. "idle" # "bang"
      OBVIOUS
    <2>. QED
      BY <1>1, <2>1, <2>2, MoveFacts DEF IInv
  <1>4. Holding' = {} /\ Crunching' = {} /\ Banging' = Banging
    BY <1>2, <1>3
  <1>5. \A u \in Thread \ {t} : pc[u] \in {"idle", "bang"}
    BY <1>2 DEF IInv, DataOK, Labels, Holding, Crunching
  <1>6. \A u \in Thread : pc[u] \notin {"load", "loaded"} /\ pc'[u] \in {"idle", "bang"}
    BY <1>1, <1>3, <1>5
  <1>7. DataOK'
    BY <1>1, <1>3 DEF IInv, DataOK, Version
  <1>8. VersionInv'
    BY <1>6 DEF VersionInv, Fits, HoldLabels
  <1>9. CountInv'
    BY <1>1, <1>2, <1>4 DEF CountInv
  <1>10. AloneInv' /\ CreatorInv'
    BY <1>4, <1>6 DEF AloneInv, CreatorInv, CrunchLabels
  <1>11. ServedInv'
    BY <1>6 DEF ServedInv
  <1>12. LoaderInv'
    BY <1>1, <1>6 DEF IInv, LoaderInv
  <1>13. LivesInv'
    BY <1>1, <1>4 DEF IInv, LivesInv
  <1>14. StuckInv'
    BY <1>6 DEF StuckInv, StuckIsReported
  <1>15. OrderInv'
    BY <1>1, <1>6 DEF IInv, OrderInv, HoldLabels
  <1>. QED
    BY <1>7, <1>8, <1>9, <1>10, <1>11, <1>12, <1>13, <1>14, <1>15 DEF IInv

----------------------------------------------------------------------------
(* The theorems *)

\* A universe that was never made is as it should be.
LEMMA InitIInv == Init => IInv
  <1>. SUFFICES ASSUME Init PROVE IInv
    OBVIOUS
  <1>1. \A t \in Thread : pc[t] = "idle" /\ left[t] = <<>>
    BY DEF Init
  <1>2. Holding = {} /\ Crunching = {} /\ Banging = {}
    BY <1>1 DEF Holding, Crunching, Banging, HoldLabels, CrunchLabels
  <1>3. DataOK
    <2>1. pc \in [Thread -> Labels]
      BY DEF Init, Labels
    <2>2. left \in [Thread -> Seq(Call)] /\ calls \in Seq(Call)
      BY EmptySeq DEF Init
    <2>3. waitqueues \in [classes : 0..1, categories : 0..1] /\ loads \in 0..MaxLoads
      BY BoundAssumption DEF Init
    <2>. QED
      BY <2>1, <2>2, <2>3 DEF Init, DataOK, Version
  <1>4. VersionInv
    BY <1>1 DEF VersionInv, Fits, HoldLabels
  <1>5. CountInv
    BY <1>2 DEF CountInv, Init
  <1>6. AloneInv /\ CreatorInv
    BY <1>1, <1>2 DEF AloneInv, CreatorInv, CrunchLabels
  <1>7. ServedInv /\ StuckInv
    BY <1>1 DEF ServedInv, StuckInv, StuckIsReported
  <1>8. LoaderInv
    BY <1>1, ThreadAssumption DEF LoaderInv, Init
  <1>9. LivesInv
    <2>1. Cardinality(Banging) = 0
      BY <1>2, FS_EmptySet
    <2>. QED
      BY <2>1, BoundAssumption DEF LivesInv, Init
  <1>10. OrderInv
    BY <1>1, OrderedEmpty DEF OrderInv, HoldLabels, Init
  <1>. QED
    BY <1>3, <1>4, <1>5, <1>6, <1>7, <1>8, <1>9, <1>10 DEF IInv

\* Every step keeps it that way.
LEMMA NextIInv == IInv /\ [Next]_vars => IInv'
  <1>. SUFFICES ASSUME IInv, [Next]_vars PROVE IInv'
    OBVIOUS
  <1>1. CASE UNCHANGED vars
    <2>1. Holding' = Holding /\ Crunching' = Crunching /\ Banging' = Banging
      BY <1>1 DEF vars, Holding, Crunching, Banging
    <2>2. DataOK' /\ VersionInv' /\ ServedInv' /\ LoaderInv'
      BY <1>1 DEF vars, IInv, DataOK, VersionInv, ServedInv, LoaderInv
    <2>3. CountInv' /\ AloneInv' /\ CreatorInv' /\ LivesInv'
      BY <1>1, <2>1 DEF vars, IInv, CountInv, AloneInv, CreatorInv, LivesInv
    <2>4. StuckInv'
      BY <1>1 DEF vars, IInv, StuckInv, StuckIsReported
    <2>5. OrderInv'
      BY <1>1 DEF vars, IInv, OrderInv
    <2>. QED
      BY <2>2, <2>3, <2>4, <2>5 DEF IInv
  <1>2. CASE Next
    <2>1. PICK t \in Thread : Runtime(t) \/ Client(t)
      BY <1>2 DEF Next
    <2>2. CASE Runtime(t)
      BY <2>2, BangLockStep, UniverseInitStep, BangUnlockStep, LoadStep, LoadUnlockStep,
         ReleaseWaitStep, ReleaseDecrementStep, CrunchLockStep, CrunchCallStep, CrunchDeinitStep,
         DoneStartStep, CheckWaitqueuesStep, StopMessagingStep, FreeStep, CrunchUnlockStep
         DEF Runtime
    <2>3. CASE Client(t)
      BY <2>3, RegisterUniverseStep, RetainStep, ThreadRegisterStep, MessageStep, LoadLockStep,
         ThreadDeregisterStep, ReleaseStep DEF Client
    <2>. QED
      BY <2>1, <2>2, <2>3
  <1>. QED
    BY <1>1, <1>2

\* The invariant always holds.
LEMMA Invariance == Spec => []IInv
  BY InitIInv, NextIInv, PTL DEF Spec

\* What the invariant says of the owners and users of a universe
LEMMA IInvOwnership == IInv => OwnershipHolds
  <1>. SUFFICES ASSUME IInv PROVE OwnershipHolds
    OBVIOUS
  <1>1. TypeOK
    <2>1. retaincount_1 \in -1..Cardinality(Thread)
      BY CountFacts DEF IInv, CountInv
    <2>2. lives \in 0..MaxLives
      BY BangFacts, BoundAssumption DEF IInv, LivesInv, DataOK
    <2>. QED
      BY <2>1, <2>2 DEF IInv, DataOK, TypeOK
  <1>2. UsersAreServed
    <2>. SUFFICES ASSUME NEW t \in User PROVE is_messaging /\ t \in aba /\ t \in threadinfo
      BY DEF UsersAreServed
    <2>1. t \in Thread /\ pc[t] \in {"running", "load", "loaded"}
      BY DEF User
    <2>2. version = "ready"
      BY <2>1 DEF IInv, VersionInv, Fits, HoldLabels
    <2>. QED
      BY <2>1, <2>2 DEF IInv, ServedInv, is_messaging, is_initialized
  <1>3. OwnerIsAlone
    <2>1. CASE Owner = {}
      <3>1. Cardinality(Owner) = 0
        BY <2>1, FS_EmptySet
      <3>. QED
        BY <3>1 DEF OwnerIsAlone
    <2>2. CASE Owner # {}
      <3>1. PICK t \in Owner : TRUE
        BY <2>2
      <3>2. t \in Holding \/ t \in Crunching
        BY DEF Owner, Holding, Crunching, HoldLabels, CrunchLabels
      <3>3. \A u \in Owner : u \in Holding \/ u \in Crunching
        BY DEF Owner, Holding, Crunching, HoldLabels, CrunchLabels
      <3>4. \A u \in Owner : u \in Holding => Holding = {u}
        BY DEF IInv, AloneInv, Owner, Holding, Crunching, HoldLabels, CrunchLabels
      <3>5. \A u \in Crunching : Holding = {} /\ \A v \in Crunching : v = u
        BY DEF IInv, AloneInv
      <3>6. \A u \in Owner : u = t
        BY <3>2, <3>3, <3>4, <3>5
      <3>7. Owner = {t}
        BY <3>1, <3>6
      <3>8. Cardinality(Owner) = 1
        BY <3>7, FS_Singleton
      <3>. QED
        BY <3>8 DEF OwnerIsAlone
    <2>. QED
      BY <2>1, <2>2
  <1>4. NeverFails
    BY DEF IInv, DataOK, NeverFails
  <1>. QED
    BY <1>1, <1>2, <1>3, <1>4 DEF OwnershipHolds

\* What it says of the calls of a teardown
LEMMA IInvTeardown == IInv => TeardownOrder
  <1>. SUFFICES ASSUME IInv, NEW j \in DOMAIN calls, NEW i \in 1..(j - 1)
                PROVE  Before(calls[i], calls[j])
    BY DEF TeardownOrder, Before
  <1>1. DOMAIN calls = 1..Len(calls) /\ Len(calls) \in Nat
    BY DEF IInv, DataOK
  <1>2. i \in DOMAIN calls /\ i < j
    BY <1>1
  <1>. QED
    BY <1>2 DEF IInv, OrderInv, Ordered

\* Users of a universe find it messaging and are known to it, one thread at a
\* time makes it or takes it down, its retain count stays in range, and the
\* failures of _mulle_objc_universe_done never happen.
THEOREM UniverseOwnership == Spec => []OwnershipHolds
  BY Invariance, IInvOwnership, PTL

\* Teardown calls come phase by phase and a class after its subclasses, for any
\* number of classes and whatever client code initializes on the way.
THEOREM TeardownInOrder == Spec => []TeardownOrder
  BY Invariance, IInvTeardown, PTL

\* The count of the wait queues that the crunch makes without the lock is exact.
THEOREM StuckReported == Spec => []StuckIsReported
  <1>1. IInv => StuckIsReported
    BY DEF IInv, StuckInv
  <1>. QED
    BY <1>1, Invariance, PTL
=============================================================================
