-------------------------- MODULE ClassTableProofs --------------------------
(***************************************************************************)
(* For any classes and threads: a class cache is freed once and never      *)
(* while it is in use, a class that was removed is in no cache that a      *)
(* lookup can meet, and a class has a larger index than its superclass.    *)
(*                                                                         *)
(* Under the three conditions that ClassTable names: a lookup finds who    *)
(* was registered when it began, nobody meets a class that was removed,    *)
(* and each class is freed once.                                           *)
(***************************************************************************)
EXTENDS ClassTable, FiniteSetTheorems, WellFoundedInduction, TLAPS

----------------------------------------------------------------------------
(* The inductive invariant *)

\* where a thread has a cache, and where it knows it not to be empty_cache
Adding  == {"offset", "add", "taken", "count", "key"}
Filling == {"grow?", "swap"} \cup Adding
\* where it registers infra[t], up to where the index is given out and checked
Numbering == {"super", "index"}
Checked == {"index", "insert"}
Registering == {"super", "index", "insert"}
Place == {"idle", "probe", "table", "missing", "fill"} \cup Filling \cup Registering

Slot    == [key : Id \cup {<<>>}, value : Class \cup {NoClass}]
Entries == UNION {[D -> Slot] : D \in SUBSET Nat}
Cache   == [size : Nat, n : Nat, entries : Entries]

ThreadInv ==
    /\ pc \in [Thread -> Place]
    /\ infra \in [Thread -> Class \cup {NoClass}]
    /\ DOMAIN at = Thread /\ at = [t \in Thread |-> at[t]]
    /\ \A t \in Thread : pc[t] = "idle" => infra[t] = NoClass
    /\ \A t \in Thread : pc[t] \in Filling \cup Registering \cup {"fill"} => infra[t] \in Class

ArgInv ==
    /\ arg \in [Thread -> Id \cup {<<>>}]
    /\ \A t \in Thread : pc[t] \in {"probe", "table", "missing"} => arg[t] \in Id

\* empty_cache stays empty, for it is full from the start
CacheInv ==
    /\ caches \in Seq(Cache) /\ pivot \in 1..Len(caches)
    /\ caches[1] = empty_cache
    /\ \A t \in Thread : pc[t] \in Filling => at[t][1] \in 1..Len(caches)
    /\ \A t \in Thread : pc[t] \in Adding => at[t][1] # 1

\* a new cache has a number that no freed one has
FreeInv ==
    /\ freed \in Seq(Nat)
    /\ \A i \in DOMAIN freed : freed[i] \in 2..Len(caches)
    /\ CacheFreedOnce

TableInv ==
    /\ classtable \in [Id -> Class \cup {NoClass}]
    /\ classindex \in Nat
    /\ indexof \in [Class -> Int]
    /\ \A c \in Class : indexof[c] < classindex

\* who was removed is in nobody's hands
GoneInv ==
    /\ removed \subseteq known /\ known \subseteq Class
    /\ \A id \in Id : classtable[id] \in (known \cup {NoClass}) \ removed
    /\ \A t \in Thread : infra[t] \in (known \cup {NoClass}) \ removed
    /\ RemovedNotCached

\* A class has an id of its own name in the table, if only with "%"
Seated(c) == \E d \in 0..MaxDepth : classtable[<<NameOf[c], d>>] = c
\* It has an index, and nobody is about to give it another one
Settled(c) == indexof[c] >= 0 /\ \A t \in Thread : pc[t] \in Numbering => infra[t] # c

\* each class is registered by one thread, once
NewInv ==
    /\ \A c \in Class : indexof[c] >= 0 => c \in known
    /\ \A t \in Thread : pc[t] \in Registering => infra[t] \in known
    /\ \A t \in Thread : pc[t] = "insert" => indexof[infra[t]] >= 0
    /\ \A t, u \in Thread : pc[t] \in Registering /\ pc[u] \in Registering /\ infra[t] = infra[u]
                               => t = u

\* An id in use stands for a class that is in the table, posed away or not.
SeatInv ==
    /\ \A c \in Registered : Seated(c)
    /\ \A n \in Name : classtable[<<n, 0>>] # NoClass =>
          \E y \in Class : NameOf[y] = n /\ Seated(y) /\ Settled(y)

\* The superclass of a class is there before it.
SuperInv ==
    /\ \A c \in Registered \cap DOMAIN Super : Seated(Super[c]) /\ Settled(Super[c])
    /\ \A t \in Thread : pc[t] \in Checked /\ infra[t] \in DOMAIN Super =>
          Seated(Super[infra[t]]) /\ Settled(Super[infra[t]])
    /\ \A t \in Thread : pc[t] = "insert" /\ infra[t] \in DOMAIN Super =>
          indexof[Super[infra[t]]] < indexof[infra[t]]
    /\ SuperHasLowerIndex

IInv ==
    /\ ThreadInv /\ ArgInv /\ CacheInv /\ FreeInv /\ TableInv /\ GoneInv
    /\ NewInv /\ SeatInv /\ SuperInv

----------------------------------------------------------------------------
(* Helpers *)

\* A set of naturals has a least one.
LEMMA LeastNatural ==
    ASSUME NEW S, S \subseteq Nat, S # {}
    PROVE  \E d \in S : \A e \in S : d <= e
  <1>. DEFINE R == OpToRel(<, Nat)
  <1>1. IsWellFoundedOn(R, Nat)
    BY NatLessThanWellFounded
  <1>2. \A x, y \in Nat : x < y => <<x, y>> \in R
    BY DEF OpToRel
  <1>. HIDE DEF R
  <1>3. PICK d \in S : \A e \in S : <<e, d>> \notin R
    BY <1>1, WFMin
  <1>4. \A e \in S : ~ (e < d)
    BY <1>2, <1>3, Zenon
  <1>. QED
    BY <1>4

\* The own id of a class
LEMMA OwnId ==
    ASSUME NEW c \in Class
    PROVE  classid(c) \in Id /\ classid(c) = <<NameOf[c], 0>> /\ NameOf[c] \in Name
  BY ClassAssumption, BoundAssumption DEF Id, classid

\* The id a class posed away gets is free, and not its own.
LEMMA VictimIdIsFree ==
    ASSUME NEW n \in Name, \E d \in 1..MaxDepth : classtable[<<n, d>>] = NoClass
    PROVE  \E d \in 1..MaxDepth : VictimId(n) = <<n, d>> /\ classtable[<<n, d>>] = NoClass
  <1>. DEFINE free == {d \in 1..MaxDepth : classtable[<<n, d>>] = NoClass}
  <1>1. free \subseteq Nat /\ free # {} /\ free \subseteq 1..MaxDepth
    OBVIOUS
  <1>2. \E d \in free : \A e \in free : d <= e
    BY <1>1, LeastNatural
  <1>. DEFINE d == CHOOSE d \in free : \A e \in free : d <= e
  <1>3. d \in free
    BY <1>2
  <1>. QED
    BY <1>3 DEF VictimId

\* The slots of a cache, and what writing one of them makes of it
LEMMA EntriesAre ==
    ASSUME NEW e
    PROVE  e \in Entries <=> e \in [DOMAIN e -> Slot] /\ DOMAIN e \subseteq Nat
  BY DEF Entries

\* Writing one slot
LEMMA EntriesWritten ==
    ASSUME NEW e \in Entries, NEW o, NEW s, o \in DOMAIN e => s \in Slot
    PROVE  /\ [e EXCEPT ![o] = s] \in Entries /\ DOMAIN [e EXCEPT ![o] = s] = DOMAIN e
           /\ \A i \in DOMAIN e : [e EXCEPT ![o] = s][i] = IF i = o THEN s ELSE e[i]
  <1>1. e \in [DOMAIN e -> Slot] /\ DOMAIN e \subseteq Nat
    BY EntriesAre
  <1>. DEFINE f == [e EXCEPT ![o] = s]
  <1>2. f \in [DOMAIN e -> Slot] /\ DOMAIN f = DOMAIN e
    BY <1>1
  <1>3. \A i \in DOMAIN e : f[i] = IF i = o THEN s ELSE e[i]
    BY <1>1
  <1>. HIDE DEF f
  <1>4. f \in Entries
    BY <1>1, <1>2, EntriesAre
  <1>. QED
    BY <1>2, <1>3, <1>4 DEF f

\* A free slot
LEMMA NoSlotIsSlot == NoSlot \in Slot /\ NoSlot.value = NoClass
  BY DEF NoSlot, Slot

\* empty_cache is full from the start and holds nobody.
LEMMA EmptyCacheIs ==
    /\ empty_cache \in Cache /\ should_grow(empty_cache)
    /\ \A i \in DOMAIN empty_cache.entries : empty_cache.entries[i].value = NoClass
  <1>. DEFINE e == [i \in {0} |-> NoSlot]
  <1>1. e \in [DOMAIN e -> Slot] /\ DOMAIN e \subseteq Nat /\ \A i \in DOMAIN e : e[i] = NoSlot
    BY NoSlotIsSlot
  <1>2. empty_cache = [size |-> 0, n |-> 0, entries |-> e]
    BY DEF empty_cache
  <1>. HIDE DEF e
  <1>3. e \in Entries
    BY <1>1, EntriesAre
  <1>. QED
    BY <1>1, <1>2, <1>3, NoSlotIsSlot DEF Cache, should_grow

\* The bigger cache holds the one class.
LEMMA SeededIs ==
    ASSUME NEW old \in Cache, NEW c \in Class
    PROVE  /\ Seeded(old, c) \in Cache
           /\ \A i \in DOMAIN Seeded(old, c).entries : Seeded(old, c).entries[i].value \in {c, NoClass}
  <1>. DEFINE size == IF old.size * 2 < MinCacheSize THEN MinCacheSize ELSE old.size * 2
              e == [i \in 0..(size - 1) |-> NoSlot]
              o == probe_entryoffset(NewCache(size), classid(c))
              s == [key |-> classid(c), value |-> c]
              f == [e EXCEPT ![o] = s]
  <1>1. size \in Nat
    BY CacheAssumption DEF Cache
  <1>2. e \in [DOMAIN e -> Slot] /\ DOMAIN e \subseteq Nat /\ \A i \in DOMAIN e : e[i] = NoSlot
    BY <1>1, NoSlotIsSlot
  <1>3. s \in Slot /\ s.value = c
    BY OwnId DEF Slot
  <1>4. Seeded(old, c) = [size |-> size, n |-> 1, entries |-> f]
    <2>1. NewCache(size) = [size |-> size, n |-> 0, entries |-> e]
      BY DEF NewCache
    <2>2. Seeded(old, c) =
             [size |-> size, n |-> 1, entries |-> [NewCache(size).entries EXCEPT ![o] = s]]
      BY DEF Seeded
    <2>. HIDE DEF e, size, o, s
    <2>3. NewCache(size).entries = e
      BY <2>1
    <2>. QED
      BY <2>2, <2>3
  <1>. HIDE DEF e, size, o, s
  <1>5. e \in Entries
    BY <1>2, EntriesAre
  <1>6. f \in Entries /\ DOMAIN f = DOMAIN e /\ \A i \in DOMAIN e : f[i] = IF i = o THEN s ELSE e[i]
    BY <1>3, <1>5, EntriesWritten
  <1>. HIDE DEF f
  <1>. QED
    BY <1>1, <1>2, <1>3, <1>4, <1>6, NoSlotIsSlot DEF Cache

----------------------------------------------------------------------------
(* Threads *)

\* A thread goes on with the class it has,
LEMMA ThreadGoes ==
    ASSUME ThreadInv, NEW t \in Thread, NEW l \in Place, Goto(t, l), UNCHANGED <<infra, at>>,
           l # "idle", l \in Filling \cup Registering \cup {"fill"} => infra[t] \in Class
    PROVE  ThreadInv'
  BY DEF ThreadInv, Goto

\* or it is done.
LEMMA ThreadLeaves ==
    ASSUME ThreadInv, NEW t \in Thread, Leave(t)
    PROVE  ThreadInv'
  BY DEF ThreadInv, Leave, Goto, Place, Filling, Adding, Registering

\* The threads' own variables
LEMMA ThreadStep ==
    ASSUME ThreadInv, ArgInv, TableInv, Next
    PROVE  ThreadInv'
  <1>1. ASSUME NEW t \in Thread, Runtime(t) \/ Client(t) PROVE ThreadInv'
    <2>1. CASE Probe(t)
      <3>1. CASE Leave(t)
        BY <3>1, ThreadLeaves
      <3>2. CASE Stay(t, "table")
        BY <3>2, <2>1, ThreadGoes DEF Stay, Probe, ThreadInv, Place, Filling, Adding, Registering
      <3>. QED
        BY <2>1, <3>1, <3>2 DEF Probe, Return
    <2>2. CASE ReadTable(t)
      <3>1. CASE Leave(t)
        BY <3>1, ThreadLeaves
      <3>2. CASE Stay(t, "missing")
        BY <3>2, ThreadGoes DEF Stay, Place, Filling, Adding, Registering
      <3>3. CASE classtable[arg[t]] # NoClass /\ infra' = [infra EXCEPT ![t] = classtable[arg[t]]]
                 /\ Goto(t, "fill") /\ UNCHANGED at
        <4>. DEFINE k == classtable[arg[t]]
        <4>1. k \in Class
          BY <3>3, <2>2 DEF ArgInv, TableInv, ReadTable
        <4>2. infra' = [infra EXCEPT ![t] = k]
          BY <3>3
        <4>. HIDE DEF k
        <4>. QED
          BY <4>1, <4>2, <3>3, ClassAssumption DEF Goto, ThreadInv, Place, Filling, Adding, Registering
      <3>. QED
        BY <2>2, <3>1, <3>2, <3>3 DEF ReadTable, Return
    <2>3. CASE (\E b \in BOOLEAN : ClassIsMissing(t, b))
      <3>1. CASE Leave(t)
        BY <3>1, ThreadLeaves
      <3>2. CASE Goto(t, "table") /\ UNCHANGED <<infra, at>>
        BY <3>2, ThreadGoes DEF Place, Filling, Adding, Registering
      <3>. QED
        BY <2>3, <3>1, <3>2 DEF ClassIsMissing, Return
    <2>4. CASE FillRead(t)
      BY <2>4, ClassAssumption DEF FillRead, ThreadInv, TableInv, Place, Filling, Adding, Registering, Goto, Leave, Return, Stay, locals, classes, cache, history
    <2>5. CASE FillCheck(t)
      BY <2>5, ClassAssumption DEF FillCheck, ThreadInv, TableInv, Place, Filling, Adding, Registering, Goto, Leave, Return, Stay, locals, classes, cache, history
    <2>6. CASE SwapCaches(t)
      <3>1. CASE Leave(t)
        BY <3>1, ThreadLeaves
      <3>2. CASE Stay(t, "fill")
        BY <3>2, <2>6, ThreadGoes DEF Stay, SwapCaches, ThreadInv, Place, Filling, Adding, Registering
      <3>. QED
        BY <2>6, <3>1, <3>2 DEF SwapCaches, Return
    <2>7. CASE AddProbe(t)
      <3>. DEFINE a == <<at[t][1], probe_entryoffset(caches[at[t][1]], classid(infra[t]))>>
      <3>1. at' = [at EXCEPT ![t] = a] /\ pc[t] = "offset" /\ pc' = [pc EXCEPT ![t] = "add"]
               /\ infra' = infra
        BY <2>7 DEF AddProbe, Goto
      <3>. HIDE DEF a
      <3>. QED
        BY <3>1 DEF ThreadInv, Place, Filling, Adding, Registering
    <2>8. CASE AddValue(t)
      BY <2>8, ClassAssumption DEF AddValue, ThreadInv, TableInv, Place, Filling, Adding, Registering, Goto, Leave, Return, Stay, locals, classes, cache, history
    <2>9. CASE AddTaken(t)
      <3>1. CASE Leave(t)
        BY <3>1, ThreadLeaves
      <3>2. CASE Stay(t, "fill")
        BY <3>2, <2>9, ThreadGoes DEF Stay, AddTaken, ThreadInv, Place, Filling, Adding, Registering
      <3>. QED
        BY <2>9, <3>1, <3>2 DEF AddTaken, Return
    <2>10. CASE AddCount(t)
      BY <2>10, ClassAssumption DEF AddCount, ThreadInv, TableInv, Place, Filling, Adding, Registering, Goto, Leave, Return, Stay, locals, classes, cache, history
    <2>11. CASE AddKey(t)
      BY <2>11, ThreadLeaves DEF AddKey, Return
    <2>12. CASE RegisterSuper(t)
      <3>1. CASE Leave(t)
        BY <3>1, ThreadLeaves
      <3>2. CASE Stay(t, "index")
        BY <3>2, <2>12, ThreadGoes DEF Stay, RegisterSuper, ThreadInv, Place, Filling, Adding, Registering
      <3>. QED
        BY <2>12, <3>1, <3>2 DEF RegisterSuper, Return
    <2>13. CASE RegisterIndex(t)
      BY <2>13, ClassAssumption DEF RegisterIndex, ThreadInv, TableInv, Place, Filling, Adding, Registering, Goto, Leave, Return, Stay, locals, classes, cache, history
    <2>14. CASE RegisterInsert(t)
      BY <2>14, ThreadLeaves DEF RegisterInsert
    <2>15. CASE (\E c \in Class : Register(t, c))
      BY <2>15, ClassAssumption DEF Register, ThreadInv, TableInv, Place, Filling, Adding, Registering, Goto, Leave, Return, Stay, locals, classes, cache, history
    <2>16. CASE (\E id \in LookupId : Lookup(t, id))
      <3>1. CASE Leave(t)
        BY <3>1, ThreadLeaves
      <3>2. CASE Stay(t, "probe")
        BY <3>2, <2>16, ThreadGoes DEF Stay, Lookup, ThreadInv, Place, Filling, Adding, Registering
      <3>. QED
        BY <2>16, <3>1, <3>2 DEF Lookup, Return
    <2>. QED
      BY <1>1, <2>1, <2>2, <2>3, <2>4, <2>5, <2>6, <2>7, <2>8, <2>9, <2>10, <2>11, <2>12, <2>13, <2>14, <2>15, <2>16 DEF Runtime, Client
  <1>2. ASSUME NEW c \in Class, Remove(c) PROVE ThreadInv'
    BY <1>2, ClassAssumption DEF Remove, InvalidateClasscache, ThreadInv, TableInv, Place, Filling, Adding, Registering, Goto, Leave, Return, Stay, locals, classes, cache, history
  <1>3. ASSUME NEW c \in Class, Pose(c) PROVE ThreadInv'
    BY <1>3, ClassAssumption DEF Pose, ThreadInv, TableInv, Place, Filling, Adding, Registering, Goto, Leave, Return, Stay, locals, classes, cache, history
  <1>. QED
    BY <1>1, <1>2, <1>3 DEF Next

\* What is looked up is an id.
LEMMA ArgStep ==
    ASSUME ThreadInv, ArgInv, Next
    PROVE  ArgInv'
  <1>1. ASSUME NEW t \in Thread, Runtime(t) \/ Client(t) PROVE ArgInv'
    <2>1. CASE Probe(t)
      BY <2>1, LookupAssumption DEF Probe, ThreadInv, ArgInv, Place, Filling, Adding, Registering, Goto, Leave, Return, Stay, locals, classes, cache, history
    <2>2. CASE ReadTable(t)
      BY <2>2, LookupAssumption DEF ReadTable, ThreadInv, ArgInv, Place, Filling, Adding, Registering, Goto, Leave, Return, Stay, locals, classes, cache, history
    <2>3. CASE (\E b \in BOOLEAN : ClassIsMissing(t, b))
      BY <2>3, LookupAssumption DEF ClassIsMissing, ThreadInv, ArgInv, Place, Filling, Adding, Registering, Goto, Leave, Return, Stay, locals, classes, cache, history
    <2>4. CASE FillRead(t)
      BY <2>4, LookupAssumption DEF FillRead, ThreadInv, ArgInv, Place, Filling, Adding, Registering, Goto, Leave, Return, Stay, locals, classes, cache, history
    <2>5. CASE FillCheck(t)
      BY <2>5, LookupAssumption DEF FillCheck, ThreadInv, ArgInv, Place, Filling, Adding, Registering, Goto, Leave, Return, Stay, locals, classes, cache, history
    <2>6. CASE SwapCaches(t)
      BY <2>6, LookupAssumption DEF SwapCaches, ThreadInv, ArgInv, Place, Filling, Adding, Registering, Goto, Leave, Return, Stay, locals, classes, cache, history
    <2>7. CASE AddProbe(t)
      BY <2>7, LookupAssumption DEF AddProbe, ThreadInv, ArgInv, Place, Filling, Adding, Registering, Goto, Leave, Return, Stay, locals, classes, cache, history
    <2>8. CASE AddValue(t)
      BY <2>8, LookupAssumption DEF AddValue, ThreadInv, ArgInv, Place, Filling, Adding, Registering, Goto, Leave, Return, Stay, locals, classes, cache, history
    <2>9. CASE AddTaken(t)
      BY <2>9, LookupAssumption DEF AddTaken, ThreadInv, ArgInv, Place, Filling, Adding, Registering, Goto, Leave, Return, Stay, locals, classes, cache, history
    <2>10. CASE AddCount(t)
      BY <2>10, LookupAssumption DEF AddCount, ThreadInv, ArgInv, Place, Filling, Adding, Registering, Goto, Leave, Return, Stay, locals, classes, cache, history
    <2>11. CASE AddKey(t)
      BY <2>11, LookupAssumption DEF AddKey, ThreadInv, ArgInv, Place, Filling, Adding, Registering, Goto, Leave, Return, Stay, locals, classes, cache, history
    <2>12. CASE RegisterSuper(t)
      BY <2>12, LookupAssumption DEF RegisterSuper, ThreadInv, ArgInv, Place, Filling, Adding, Registering, Goto, Leave, Return, Stay, locals, classes, cache, history
    <2>13. CASE RegisterIndex(t)
      BY <2>13, LookupAssumption DEF RegisterIndex, ThreadInv, ArgInv, Place, Filling, Adding, Registering, Goto, Leave, Return, Stay, locals, classes, cache, history
    <2>14. CASE RegisterInsert(t)
      BY <2>14, LookupAssumption DEF RegisterInsert, ThreadInv, ArgInv, Place, Filling, Adding, Registering, Goto, Leave, Return, Stay, locals, classes, cache, history
    <2>15. CASE (\E c \in Class : Register(t, c))
      BY <2>15, LookupAssumption DEF Register, ThreadInv, ArgInv, Place, Filling, Adding, Registering, Goto, Leave, Return, Stay, locals, classes, cache, history
    <2>16. CASE (\E id \in LookupId : Lookup(t, id))
      BY <2>16, LookupAssumption DEF Lookup, ThreadInv, ArgInv, Place, Filling, Adding, Registering, Goto, Leave, Return, Stay, locals, classes, cache, history
    <2>. QED
      BY <1>1, <2>1, <2>2, <2>3, <2>4, <2>5, <2>6, <2>7, <2>8, <2>9, <2>10, <2>11, <2>12, <2>13, <2>14, <2>15, <2>16 DEF Runtime, Client
  <1>2. ASSUME NEW c \in Class, Remove(c) PROVE ArgInv'
    BY <1>2, LookupAssumption DEF Remove, InvalidateClasscache, ThreadInv, ArgInv, Place, Filling, Adding, Registering, Goto, Leave, Return, Stay, locals, classes, cache, history
  <1>3. ASSUME NEW c \in Class, Pose(c) PROVE ArgInv'
    BY <1>3, LookupAssumption DEF Pose, ThreadInv, ArgInv, Place, Filling, Adding, Registering, Goto, Leave, Return, Stay, locals, classes, cache, history
  <1>. QED
    BY <1>1, <1>2, <1>3 DEF Next

----------------------------------------------------------------------------
(* Caches *)

\* A cache is replaced by one like it.
LEMMA CachesWritten ==
    ASSUME NEW s \in Seq(Cache), NEW a \in 1..Len(s), NEW c \in Cache
    PROVE  /\ [s EXCEPT ![a] = c] \in Seq(Cache) /\ Len([s EXCEPT ![a] = c]) = Len(s)
           /\ \A i \in 1..Len(s) : [s EXCEPT ![a] = c][i] = IF i = a THEN c ELSE s[i]
  OBVIOUS

\* One more cache
LEMMA CachesGrown ==
    ASSUME NEW s \in Seq(Cache), NEW c \in Cache
    PROVE  /\ Append(s, c) \in Seq(Cache) /\ Len(Append(s, c)) = Len(s) + 1
           /\ Append(s, c)[Len(s) + 1] = c
           /\ \A i \in 1..Len(s) : Append(s, c)[i] = s[i]
  OBVIOUS

\* What an action may do to the caches, as far as it matters who is in them
Kept ==
    /\ caches' \in Seq(Cache) /\ Len(caches') = Len(caches)
    /\ caches'[1] = caches[1]
    /\ \A j \in 1..Len(caches), v \in removed :
          (\A i \in DOMAIN caches[j].entries : caches[j].entries[i].value # v)
             => \A i \in DOMAIN caches'[j].entries : caches'[j].entries[i].value # v

\* Adding an entry puts nobody into a cache who was removed.
LEMMA AddKeeps ==
    ASSUME ThreadInv, CacheInv, GoneInv, NEW t \in Thread,
           AddValue(t) \/ AddCount(t) \/ AddKey(t)
    PROVE  Kept
  <1>. DEFINE a == at[t][1]  o == at[t][2]  c == caches[a]
  <1>1. pc[t] \in {"add", "count", "key"}
    BY DEF AddValue, AddCount, AddKey
  <1>2. a \in 1..Len(caches) /\ a # 1 /\ c \in Cache /\ caches \in Seq(Cache)
    BY <1>1 DEF CacheInv, Filling, Adding
  <1>3. infra[t] \in Class /\ infra[t] \notin removed
    BY <1>1 DEF ThreadInv, GoneInv, Filling, Adding
  <1>4. CASE UNCHANGED caches
    BY <1>2, <1>4 DEF Kept
  <1>5. ASSUME NEW d \in Cache, caches' = [caches EXCEPT ![a] = d],
               DOMAIN d.entries = DOMAIN c.entries,
               \A i \in DOMAIN c.entries : d.entries[i].value \in {c.entries[i].value, infra[t]}
        PROVE  Kept
    <2>. HIDE DEF a, c
    <2>1. caches' \in Seq(Cache) /\ Len(caches') = Len(caches)
          /\ \A i \in 1..Len(caches) : caches'[i] = IF i = a THEN d ELSE caches[i]
      BY <1>2, <1>5, CachesWritten
    <2>2. caches[a] = c
      BY DEF c
    <2>. QED
      BY <1>2, <1>3, <1>5, <2>1, <2>2 DEF Kept
  <1>9. ASSUME NEW s, o \in DOMAIN c.entries => s \in Slot /\ s.value \in {c.entries[o].value, infra[t]},
               caches' = [caches EXCEPT ![a] = [c EXCEPT !.entries = [c.entries EXCEPT ![o] = s]]]
        PROVE  Kept
    <2>. DEFINE e == c.entries  f == [e EXCEPT ![o] = s]  d == [c EXCEPT !.entries = f]
    <2>0. caches' = [caches EXCEPT ![a] = d]
      BY <1>9
    <2>. HIDE DEF a, c, o
    <2>1. e \in Entries
      BY <1>2 DEF Cache
    <2>2. f \in Entries /\ DOMAIN f = DOMAIN e
          /\ \A i \in DOMAIN e : f[i] = IF i = o THEN s ELSE e[i]
      BY <2>1, <1>9, EntriesWritten
    <2>. HIDE DEF f
    <2>3. d \in Cache /\ d.entries = f
      BY <1>2, <2>2 DEF Cache
    <2>. HIDE DEF d
    <2>4. \A i \in DOMAIN c.entries : d.entries[i].value \in {c.entries[i].value, infra[t]}
      BY <1>9, <2>2, <2>3
    <2>. QED
      BY <1>5, <2>0, <2>2, <2>3, <2>4
  <1>6. CASE AddValue(t) /\ HasNoValue(entry(t))
    <2>. DEFINE s == [c.entries[o] EXCEPT !.value = infra[t]]
    <2>1. caches' = [caches EXCEPT ![a] = [c EXCEPT !.entries = [c.entries EXCEPT ![o] = s]]]
      BY <1>6 DEF AddValue
    <2>2. o \in DOMAIN c.entries => s \in Slot /\ s.value = infra[t]
      <3>1. c.entries \in [DOMAIN c.entries -> Slot]
        BY <1>2, EntriesAre DEF Cache
      <3>. QED
        BY <1>3, <3>1, OwnId DEF Slot
    <2>. HIDE DEF a, c, o, s
    <2>. QED
      BY <1>9, <2>1, <2>2
  <1>7. CASE AddCount(t)
    <2>. DEFINE d == [c EXCEPT !.n = c.n + 1]
    <2>1. caches' = [caches EXCEPT ![a] = d]
      BY <1>7 DEF AddCount
    <2>. HIDE DEF a, c
    <2>2. d \in Cache /\ d.entries = c.entries
      BY <1>2 DEF Cache
    <2>. HIDE DEF d
    <2>. QED
      BY <1>5, <2>1, <2>2
  <1>8. CASE AddKey(t)
    <2>. DEFINE s == [c.entries[o] EXCEPT !.key = classid(infra[t])]
    <2>1. caches' = [caches EXCEPT ![a] = [c EXCEPT !.entries = [c.entries EXCEPT ![o] = s]]]
      BY <1>8 DEF AddKey
    <2>2. o \in DOMAIN c.entries => s \in Slot /\ s.value = c.entries[o].value
      <3>1. c.entries \in [DOMAIN c.entries -> Slot]
        BY <1>2, EntriesAre DEF Cache
      <3>. QED
        BY <1>3, <3>1, OwnId DEF Slot
    <2>. HIDE DEF a, c, o, s
    <2>. QED
      BY <1>9, <2>1, <2>2
  <1>. QED
    BY <1>4, <1>6, <1>7, <1>8 DEF AddValue

\* The bigger cache is one more, and holds nobody who was removed.
LEMMA SwapGrows ==
    ASSUME ThreadInv, CacheInv, GoneInv, NEW t \in Thread, SwapCaches(t), pivot = at[t][1]
    PROVE  /\ caches' \in Seq(Cache) /\ Len(caches') = Len(caches) + 1 /\ pivot' = Len(caches) + 1
           /\ \A i \in 1..Len(caches) : caches'[i] = caches[i]
           /\ \A i \in DOMAIN caches'[pivot'].entries : caches'[pivot'].entries[i].value \notin removed
  <1>. DEFINE c == Seeded(caches[pivot], infra[t])
  <1>1. infra[t] \in Class /\ infra[t] \notin removed /\ NoClass \notin removed
    BY ClassAssumption DEF ThreadInv, GoneInv, SwapCaches, Filling
  <1>2. caches[pivot] \in Cache /\ caches \in Seq(Cache) /\ pivot \in 1..Len(caches)
    BY DEF CacheInv
  <1>3. c \in Cache /\ \A i \in DOMAIN c.entries : c.entries[i].value \in {infra[t], NoClass}
    BY <1>1, <1>2, SeededIs
  <1>4. caches' = Append(caches, c) /\ pivot' = Len(caches) + 1
    BY DEF SwapCaches
  <1>. HIDE DEF c
  <1>5. /\ caches' \in Seq(Cache) /\ Len(caches') = Len(caches) + 1
        /\ \A i \in 1..Len(caches) : caches'[i] = caches[i]
        /\ caches'[pivot'] = c
    BY <1>2, <1>3, <1>4, CachesGrown
  <1>. QED
    BY <1>1, <1>3, <1>4, <1>5

\* The caches
LEMMA CacheStep ==
    ASSUME ThreadInv, CacheInv, GoneInv, Next
    PROVE  CacheInv'
  <1>1. ASSUME NEW t \in Thread, Runtime(t) \/ Client(t) PROVE CacheInv'
    <2>1. CASE Probe(t)
      BY <2>1 DEF Probe, CacheInv, ThreadInv, Filling, Adding, Goto, Leave, Return, Stay, locals, classes, cache, history
    <2>2. CASE ReadTable(t)
      BY <2>2 DEF ReadTable, CacheInv, ThreadInv, Filling, Adding, Goto, Leave, Return, Stay, locals, classes, cache, history
    <2>3. CASE (\E b \in BOOLEAN : ClassIsMissing(t, b))
      BY <2>3 DEF ClassIsMissing, CacheInv, ThreadInv, Filling, Adding, Goto, Leave, Return, Stay, locals, classes, cache, history
    <2>4. CASE FillRead(t)
      BY <2>4 DEF FillRead, CacheInv, ThreadInv, Filling, Adding, Goto, Leave, Return, Stay, locals, classes, cache, history
    <2>5. CASE FillCheck(t)
      BY <2>5, EmptyCacheIs DEF FillCheck, CacheInv, ThreadInv, Filling, Adding, Goto, Leave, Return, Stay, locals, classes, cache, history
    <2>6. CASE SwapCaches(t)
      <3>1. CASE pivot = at[t][1]
        <4>1. /\ caches' \in Seq(Cache) /\ Len(caches') = Len(caches) + 1
              /\ pivot' = Len(caches) + 1 /\ \A i \in 1..Len(caches) : caches'[i] = caches[i]
          BY <2>6, <3>1, SwapGrows
        <4>2. Leave(t)
          BY <2>6, <3>1 DEF SwapCaches, Return
        <4>3. Len(caches) \in Nat /\ Len(caches) >= 1 /\ caches[1] = empty_cache
          BY DEF CacheInv
        <4>4. caches'[1] = empty_cache /\ pivot' \in 1..Len(caches')
          BY <4>1, <4>3
        <4>5. \A u \in Thread : pc'[u] \in Filling => pc[u] \in Filling /\ at'[u] = at[u] /\ pc'[u] = pc[u]
          BY <4>2 DEF ThreadInv, Filling, Adding, Leave, Goto
        <4>6. \A u \in Thread : pc'[u] \in Filling => at'[u][1] \in 1..Len(caches')
          BY <4>1, <4>3, <4>5 DEF CacheInv
        <4>7. \A u \in Thread : pc'[u] \in Adding => at'[u][1] # 1
          BY <4>5 DEF CacheInv, Filling
        <4>. QED
          BY <4>1, <4>4, <4>6, <4>7 DEF CacheInv
      <3>2. CASE pivot # at[t][1]
        BY <2>6, <3>2 DEF SwapCaches, CacheInv, ThreadInv, Filling, Adding, Goto, Leave, Return, Stay, locals, classes, cache, history
      <3>. QED
        BY <3>1, <3>2
    <2>7. CASE AddProbe(t)
      <3>. DEFINE o == probe_entryoffset(caches[at[t][1]], classid(infra[t]))
      <3>1. at' = [at EXCEPT ![t] = <<at[t][1], o>>] /\ pc[t] = "offset" /\ pc' = [pc EXCEPT ![t] = "add"]
               /\ caches' = caches /\ pivot' = pivot
        BY <2>7 DEF AddProbe, Goto, cache
      <3>. HIDE DEF o
      <3>. QED
        BY <3>1 DEF ThreadInv, CacheInv, Filling, Adding
    <2>8. CASE AddValue(t)
      BY <2>8, AddKeeps DEF Kept, CacheInv, ThreadInv, Filling, Adding, AddValue, Goto, Return, Leave
    <2>9. CASE AddTaken(t)
      BY <2>9 DEF AddTaken, CacheInv, ThreadInv, Filling, Adding, Goto, Leave, Return, Stay, locals, classes, cache, history
    <2>10. CASE AddCount(t)
      BY <2>10, AddKeeps DEF Kept, CacheInv, ThreadInv, Filling, Adding, AddCount, Goto, Return, Leave
    <2>11. CASE AddKey(t)
      BY <2>11, AddKeeps DEF Kept, CacheInv, ThreadInv, Filling, Adding, AddKey, Goto, Return, Leave
    <2>12. CASE RegisterSuper(t)
      BY <2>12 DEF RegisterSuper, CacheInv, ThreadInv, Filling, Adding, Goto, Leave, Return, Stay, locals, classes, cache, history
    <2>13. CASE RegisterIndex(t)
      BY <2>13 DEF RegisterIndex, CacheInv, ThreadInv, Filling, Adding, Goto, Leave, Return, Stay, locals, classes, cache, history
    <2>14. CASE RegisterInsert(t)
      BY <2>14 DEF RegisterInsert, CacheInv, ThreadInv, Filling, Adding, Goto, Leave, Return, Stay, locals, classes, cache, history
    <2>15. CASE (\E c \in Class : Register(t, c))
      BY <2>15 DEF Register, CacheInv, ThreadInv, Filling, Adding, Goto, Leave, Return, Stay, locals, classes, cache, history
    <2>16. CASE (\E id \in LookupId : Lookup(t, id))
      BY <2>16 DEF Lookup, CacheInv, ThreadInv, Filling, Adding, Goto, Leave, Return, Stay, locals, classes, cache, history
    <2>. QED
      BY <1>1, <2>1, <2>2, <2>3, <2>4, <2>5, <2>6, <2>7, <2>8, <2>9, <2>10, <2>11, <2>12, <2>13, <2>14, <2>15, <2>16 DEF Runtime, Client
  <1>2. ASSUME NEW c \in Class, Remove(c) PROVE CacheInv'
    BY <1>2 DEF Remove, InvalidateClasscache, CacheInv, ThreadInv, Filling, Adding, Goto, Leave, Return, Stay, locals, classes, cache, history
  <1>3. ASSUME NEW c \in Class, Pose(c) PROVE CacheInv'
    BY <1>3 DEF Pose, CacheInv, ThreadInv, Filling, Adding, Goto, Leave, Return, Stay, locals, classes, cache, history
  <1>. QED
    BY <1>1, <1>2, <1>3 DEF Next


\* One more cache is freed.
LEMMA FreedGrows ==
    ASSUME NEW s \in Seq(Nat), NEW p \in Nat, \A i \in DOMAIN s : s[i] # p,
           \A i, j \in DOMAIN s : s[i] = s[j] => i = j
    PROVE  /\ Append(s, p) \in Seq(Nat)
           /\ \A i \in DOMAIN Append(s, p) : Append(s, p)[i] = p \/ \E j \in DOMAIN s : Append(s, p)[i] = s[j]
           /\ \A i, j \in DOMAIN Append(s, p) : Append(s, p)[i] = Append(s, p)[j] => i = j
  OBVIOUS

\* Freeing caches
LEMMA FreeStep ==
    ASSUME ThreadInv, CacheInv, FreeInv, GoneInv, Next
    PROVE  FreeInv'
  <1>1. ASSUME NEW t \in Thread, Runtime(t) \/ Client(t) PROVE FreeInv'
    <2>1. CASE Probe(t)
      BY <2>1 DEF Probe, CacheInv, FreeInv, CacheFreedOnce, locals, classes, cache, history
    <2>2. CASE ReadTable(t)
      BY <2>2 DEF ReadTable, CacheInv, FreeInv, CacheFreedOnce, locals, classes, cache, history
    <2>3. CASE (\E b \in BOOLEAN : ClassIsMissing(t, b))
      BY <2>3 DEF ClassIsMissing, CacheInv, FreeInv, CacheFreedOnce, locals, classes, cache, history
    <2>4. CASE FillRead(t)
      BY <2>4 DEF FillRead, CacheInv, FreeInv, CacheFreedOnce, locals, classes, cache, history
    <2>5. CASE FillCheck(t)
      BY <2>5 DEF FillCheck, CacheInv, FreeInv, CacheFreedOnce, locals, classes, cache, history
    <2>6. CASE SwapCaches(t)
      <3>1. CASE pivot = at[t][1]
        <4>1. Len(caches') = Len(caches) + 1 /\ pivot' = Len(caches) + 1
          BY <2>6, <3>1, SwapGrows
        <4>2. CASE pivot = 1
          BY <2>6, <3>1, <4>1, <4>2 DEF SwapCaches, CacheInv, FreeInv, CacheFreedOnce, locals, classes, cache, history
        <4>3. CASE pivot # 1
          <5>1. freed' = Append(freed, pivot) /\ freed \in Seq(Nat) /\ pivot \in 2..Len(caches)
            BY <2>6, <3>1, <4>3 DEF SwapCaches, CacheInv, FreeInv
          <5>. QED
            BY <4>1, <5>1, FreedGrows DEF FreeInv, CacheFreedOnce
        <4>. QED
          BY <4>2, <4>3
      <3>2. CASE pivot # at[t][1]
        BY <2>6, <3>2 DEF SwapCaches, CacheInv, FreeInv, CacheFreedOnce, locals, classes, cache, history
      <3>. QED
        BY <3>1, <3>2
    <2>7. CASE AddProbe(t)
      BY <2>7 DEF AddProbe, CacheInv, FreeInv, CacheFreedOnce, locals, classes, cache, history
    <2>8. CASE AddValue(t)
      BY <2>8, AddKeeps DEF Kept, AddValue, CacheInv, FreeInv, CacheFreedOnce, locals, classes, cache, history
    <2>9. CASE AddTaken(t)
      BY <2>9 DEF AddTaken, CacheInv, FreeInv, CacheFreedOnce, locals, classes, cache, history
    <2>10. CASE AddCount(t)
      BY <2>10, AddKeeps DEF Kept, AddCount, CacheInv, FreeInv, CacheFreedOnce, locals, classes, cache, history
    <2>11. CASE AddKey(t)
      BY <2>11, AddKeeps DEF Kept, AddKey, CacheInv, FreeInv, CacheFreedOnce, locals, classes, cache, history
    <2>12. CASE RegisterSuper(t)
      BY <2>12 DEF RegisterSuper, CacheInv, FreeInv, CacheFreedOnce, locals, classes, cache, history
    <2>13. CASE RegisterIndex(t)
      BY <2>13 DEF RegisterIndex, CacheInv, FreeInv, CacheFreedOnce, locals, classes, cache, history
    <2>14. CASE RegisterInsert(t)
      BY <2>14 DEF RegisterInsert, CacheInv, FreeInv, CacheFreedOnce, locals, classes, cache, history
    <2>15. CASE (\E c \in Class : Register(t, c))
      BY <2>15 DEF Register, CacheInv, FreeInv, CacheFreedOnce, locals, classes, cache, history
    <2>16. CASE (\E id \in LookupId : Lookup(t, id))
      BY <2>16 DEF Lookup, CacheInv, FreeInv, CacheFreedOnce, locals, classes, cache, history
    <2>. QED
      BY <1>1, <2>1, <2>2, <2>3, <2>4, <2>5, <2>6, <2>7, <2>8, <2>9, <2>10, <2>11, <2>12, <2>13, <2>14, <2>15, <2>16 DEF Runtime, Client
  <1>2. ASSUME NEW c \in Class, Remove(c) PROVE FreeInv'
    <2>1. CASE pivot = 1
      BY <1>2, <2>1 DEF Remove, InvalidateClasscache, CacheInv, FreeInv, CacheFreedOnce, locals, classes, cache, history
    <2>2. CASE pivot # 1
      <3>1. freed' = Append(freed, pivot) /\ freed \in Seq(Nat) /\ pivot \in 2..Len(caches)
            /\ pivot' = 1 /\ caches' = caches
        BY <1>2, <2>2 DEF Remove, InvalidateClasscache, CacheInv, FreeInv
      <3>. QED
        BY <3>1, FreedGrows DEF FreeInv, CacheFreedOnce
    <2>. QED
      BY <2>1, <2>2
  <1>3. ASSUME NEW c \in Class, Pose(c) PROVE FreeInv'
    BY <1>3 DEF Pose, CacheInv, FreeInv, CacheFreedOnce, locals, classes, cache, history
  <1>. QED
    BY <1>1, <1>2, <1>3 DEF Next

----------------------------------------------------------------------------
(* The class table *)


\* What posing does to the table
LEMMA PoseSeats ==
    ASSUME ThreadInv, TableInv, NEW c \in Class, Pose(c)
    PROVE  /\ c \in Registered /\ c \in DOMAIN Super /\ Super[c] \in Class
           /\ \E d \in 1..MaxDepth :
                 /\ classtable[<<NameOf[Super[c]], d>>] = NoClass
                 /\ classtable' = [classtable EXCEPT ![<<NameOf[Super[c]], d>>] = Super[c],
                                                     ![<<NameOf[Super[c]], 0>>] = c]
           /\ classtable[<<NameOf[Super[c]], 0>>] # NoClass
           /\ \A s \in Registered \cap DOMAIN Super : Super[s] # c
           /\ classindex' = classindex + 1 /\ indexof' = [indexof EXCEPT ![c] = classindex]
           /\ known' = known /\ removed' = removed
           /\ \A u \in Thread : pc'[u] = "idle" /\ pc[u] = "idle" /\ infra'[u] = infra[u]
  <1>. DEFINE v == Super[c]  n == NameOf[v]
  <1>1. c \in Registered /\ c \in DOMAIN Super /\ v \in Class
    BY SuperAssumption DEF Pose
  <1>2. classid(v) = <<n, 0>> /\ n \in Name
    BY <1>1, OwnId
  <1>3. /\ classtable[classid(v)] # NoClass
        /\ \E d \in 1..MaxDepth : classtable[<<classid(v)[1], d>>] = NoClass
        /\ classtable' = [classtable EXCEPT ![VictimId(classid(v)[1])] = v, ![classid(v)] = c]
    BY DEF Pose
  <1>. HIDE DEF v, n
  <1>4. classid(v)[1] = n
    BY <1>2
  <1>5. \E d \in 1..MaxDepth : VictimId(n) = <<n, d>> /\ classtable[<<n, d>>] = NoClass
    BY <1>2, <1>3, <1>4, VictimIdIsFree
  <1>6. \E d \in 1..MaxDepth :
           /\ classtable[<<n, d>>] = NoClass
           /\ classtable' = [classtable EXCEPT ![<<n, d>>] = v, ![<<n, 0>>] = c]
    BY <1>2, <1>3, <1>4, <1>5
  <1>7. \A u \in Thread : pc'[u] = "idle" /\ pc[u] = "idle" /\ infra'[u] = infra[u]
    BY DEF Pose, Alone, locals
  <1>8. \A s \in Registered \cap DOMAIN Super : Super[s] # c
    BY DEF Pose
  <1>. QED
    BY <1>1, <1>2, <1>3, <1>6, <1>7, <1>8 DEF Pose, v, n

\* The table and the indices
LEMMA TableStep ==
    ASSUME ThreadInv, TableInv, Next
    PROVE  TableInv'
  <1>1. ASSUME NEW t \in Thread, Runtime(t) \/ Client(t) PROVE TableInv'
    <2>1. CASE Probe(t)
      BY <2>1 DEF Probe, TableInv, locals, classes, cache, history
    <2>2. CASE ReadTable(t)
      BY <2>2 DEF ReadTable, TableInv, locals, classes, cache, history
    <2>3. CASE (\E b \in BOOLEAN : ClassIsMissing(t, b))
      BY <2>3 DEF ClassIsMissing, TableInv, locals, classes, cache, history
    <2>4. CASE FillRead(t)
      BY <2>4 DEF FillRead, TableInv, locals, classes, cache, history
    <2>5. CASE FillCheck(t)
      BY <2>5 DEF FillCheck, TableInv, locals, classes, cache, history
    <2>6. CASE SwapCaches(t)
      BY <2>6 DEF SwapCaches, TableInv, locals, classes, cache, history
    <2>7. CASE AddProbe(t)
      BY <2>7 DEF AddProbe, TableInv, locals, classes, cache, history
    <2>8. CASE AddValue(t)
      BY <2>8 DEF AddValue, TableInv, locals, classes, cache, history
    <2>9. CASE AddTaken(t)
      BY <2>9 DEF AddTaken, TableInv, locals, classes, cache, history
    <2>10. CASE AddCount(t)
      BY <2>10 DEF AddCount, TableInv, locals, classes, cache, history
    <2>11. CASE AddKey(t)
      BY <2>11 DEF AddKey, TableInv, locals, classes, cache, history
    <2>12. CASE RegisterSuper(t)
      BY <2>12 DEF RegisterSuper, TableInv, locals, classes, cache, history
    <2>13. CASE RegisterIndex(t)
      BY <2>13 DEF RegisterIndex, ThreadInv, Filling, Registering, TableInv, locals, classes, cache, history
    <2>14. CASE RegisterInsert(t)
      BY <2>14, OwnId DEF RegisterInsert, ThreadInv, Filling, Registering, TableInv, locals, classes, cache, history
    <2>15. CASE (\E c \in Class : Register(t, c))
      BY <2>15 DEF Register, TableInv, locals, classes, cache, history
    <2>16. CASE (\E id \in LookupId : Lookup(t, id))
      BY <2>16 DEF Lookup, TableInv, locals, classes, cache, history
    <2>. QED
      BY <1>1, <2>1, <2>2, <2>3, <2>4, <2>5, <2>6, <2>7, <2>8, <2>9, <2>10, <2>11, <2>12, <2>13, <2>14, <2>15, <2>16 DEF Runtime, Client
  <1>2. ASSUME NEW c \in Class, Remove(c) PROVE TableInv'
    BY <1>2, OwnId DEF Remove, TableInv, locals, classes, cache, history
  <1>3. ASSUME NEW c \in Class, Pose(c) PROVE TableInv'
    <2>1. PICK d \in 1..MaxDepth :
             classtable' = [classtable EXCEPT ![<<NameOf[Super[c]], d>>] = Super[c], ![<<NameOf[Super[c]], 0>>] = c]
      BY <1>3, PoseSeats
    <2>2. classindex' = classindex + 1 /\ indexof' = [indexof EXCEPT ![c] = classindex] /\ Super[c] \in Class
      BY <1>3, PoseSeats
    <2>3. classtable' \in [Id -> Class \cup {NoClass}]
      BY <2>1, <2>2 DEF TableInv
    <2>. QED
      BY <2>2, <2>3 DEF TableInv
  <1>. QED
    BY <1>1, <1>2, <1>3 DEF Next

\* Nobody gets hold of a class that was removed.
LEMMA GoneStep ==
    ASSUME ThreadInv, ArgInv, CacheInv, TableInv, GoneInv, SuperInv, Next
    PROVE  GoneInv'
  <1>1. ASSUME NEW t \in Thread, Runtime(t) \/ Client(t) PROVE GoneInv'
    <2>1. CASE Probe(t)
      BY <2>1, ClassAssumption DEF Probe, GoneInv, RemovedNotCached, ThreadInv, Goto, Leave, Return, Stay, locals, classes, cache, history
    <2>2. CASE ReadTable(t)
      BY <2>2, ClassAssumption DEF ReadTable, ArgInv, GoneInv, RemovedNotCached, ThreadInv, Goto, Leave, Return, Stay, locals, classes, cache, history
    <2>3. CASE (\E b \in BOOLEAN : ClassIsMissing(t, b))
      BY <2>3, ClassAssumption DEF ClassIsMissing, GoneInv, RemovedNotCached, ThreadInv, Goto, Leave, Return, Stay, locals, classes, cache, history
    <2>4. CASE FillRead(t)
      BY <2>4, ClassAssumption DEF FillRead, GoneInv, RemovedNotCached, ThreadInv, Goto, Leave, Return, Stay, locals, classes, cache, history
    <2>5. CASE FillCheck(t)
      BY <2>5, ClassAssumption DEF FillCheck, GoneInv, RemovedNotCached, ThreadInv, Goto, Leave, Return, Stay, locals, classes, cache, history
    <2>6. CASE SwapCaches(t)
      <3>1. CASE pivot = at[t][1]
        <4>1. RemovedNotCached'
          BY <2>6, <3>1, SwapGrows DEF SwapCaches, RemovedNotCached, history
        <4>2. removed' = removed /\ known' = known /\ classtable' = classtable
              /\ \A u \in Thread : infra'[u] \in {infra[u], NoClass}
          BY <2>6, <3>1 DEF SwapCaches, Return, Leave, classes, history, ThreadInv
        <4>. QED
          BY <4>1, <4>2, ClassAssumption DEF GoneInv
      <3>2. CASE pivot # at[t][1]
        BY <2>6, <3>2 DEF SwapCaches, GoneInv, RemovedNotCached, ThreadInv, Goto, Leave, Return, Stay, locals, classes, cache, history
      <3>. QED
        BY <3>1, <3>2
    <2>7. CASE AddProbe(t)
      BY <2>7, ClassAssumption DEF AddProbe, GoneInv, RemovedNotCached, ThreadInv, Goto, Leave, Return, Stay, locals, classes, cache, history
    <2>8. CASE AddValue(t)
      <3>1. RemovedNotCached'
        <4>1. Kept
          BY <2>8, AddKeeps
        <4>2. pivot' = pivot /\ removed' = removed /\ pivot \in 1..Len(caches)
          BY <2>8 DEF AddValue, history, CacheInv
        <4>. QED
          BY <4>1, <4>2 DEF Kept, GoneInv, RemovedNotCached
      <3>2. removed' = removed /\ known' = known /\ classtable' = classtable
            /\ \A u \in Thread : infra'[u] \in {infra[u], NoClass}
        BY <2>8 DEF AddValue, Return, Leave, classes, history, ThreadInv
      <3>. QED
        BY <3>1, <3>2, ClassAssumption DEF GoneInv
    <2>9. CASE AddTaken(t)
      BY <2>9, ClassAssumption DEF AddTaken, GoneInv, RemovedNotCached, ThreadInv, Goto, Leave, Return, Stay, locals, classes, cache, history
    <2>10. CASE AddCount(t)
      <3>1. RemovedNotCached'
        <4>1. Kept
          BY <2>10, AddKeeps
        <4>2. pivot' = pivot /\ removed' = removed /\ pivot \in 1..Len(caches)
          BY <2>10 DEF AddCount, history, CacheInv
        <4>. QED
          BY <4>1, <4>2 DEF Kept, GoneInv, RemovedNotCached
      <3>2. removed' = removed /\ known' = known /\ classtable' = classtable
            /\ \A u \in Thread : infra'[u] \in {infra[u], NoClass}
        BY <2>10 DEF AddCount, Return, Leave, classes, history, ThreadInv
      <3>. QED
        BY <3>1, <3>2, ClassAssumption DEF GoneInv
    <2>11. CASE AddKey(t)
      <3>1. RemovedNotCached'
        <4>1. Kept
          BY <2>11, AddKeeps
        <4>2. pivot' = pivot /\ removed' = removed /\ pivot \in 1..Len(caches)
          BY <2>11 DEF AddKey, history, CacheInv
        <4>. QED
          BY <4>1, <4>2 DEF Kept, GoneInv, RemovedNotCached
      <3>2. removed' = removed /\ known' = known /\ classtable' = classtable
            /\ \A u \in Thread : infra'[u] \in {infra[u], NoClass}
        BY <2>11 DEF AddKey, Return, Leave, classes, history, ThreadInv
      <3>. QED
        BY <3>1, <3>2, ClassAssumption DEF GoneInv
    <2>12. CASE RegisterSuper(t)
      BY <2>12, ClassAssumption DEF RegisterSuper, GoneInv, RemovedNotCached, ThreadInv, Goto, Leave, Return, Stay, locals, classes, cache, history
    <2>13. CASE RegisterIndex(t)
      BY <2>13, ClassAssumption DEF RegisterIndex, GoneInv, RemovedNotCached, ThreadInv, Goto, Leave, Return, Stay, locals, classes, cache, history
    <2>14. CASE RegisterInsert(t)
      BY <2>14, ClassAssumption, OwnId DEF RegisterInsert, TableInv, GoneInv, RemovedNotCached, ThreadInv, Goto, Leave, Return, Stay, locals, classes, cache, history
    <2>15. CASE (\E c \in Class : Register(t, c))
      BY <2>15, ClassAssumption DEF Register, GoneInv, RemovedNotCached, ThreadInv, Goto, Leave, Return, Stay, locals, classes, cache, history
    <2>16. CASE (\E id \in LookupId : Lookup(t, id))
      BY <2>16, ClassAssumption DEF Lookup, GoneInv, RemovedNotCached, ThreadInv, Goto, Leave, Return, Stay, locals, classes, cache, history
    <2>. QED
      BY <1>1, <2>1, <2>2, <2>3, <2>4, <2>5, <2>6, <2>7, <2>8, <2>9, <2>10, <2>11, <2>12, <2>13, <2>14, <2>15, <2>16 DEF Runtime, Client
  <1>2. ASSUME NEW c \in Class, Remove(c) PROVE GoneInv'
    <2>1. pivot' = 1 /\ caches' = caches /\ caches[1] = empty_cache /\ removed' = removed \cup {c} /\ known' = known
          /\ infra' = infra /\ \A u \in Thread : infra[u] = NoClass
      BY <1>2 DEF Remove, Alone, InvalidateClasscache, locals, CacheInv, ThreadInv
    <2>2. RemovedNotCached'
      BY <2>1, EmptyCacheIs, ClassAssumption DEF RemovedNotCached, GoneInv
    <2>3. \A id \in Id : classtable'[id] \in (known \cup {NoClass}) \ removed'
      BY <1>2, <2>1, OwnId, ClassAssumption DEF Remove, GoneInv, TableInv
    <2>4. c \in known
      <3>1. classid(c) \in Id /\ classid(c) \in {id \in Id : classtable[id] = c}
        BY <1>2, OwnId DEF Remove
      <3>. QED
        BY <3>1, ClassAssumption DEF GoneInv
    <2>. QED
      BY <2>1, <2>2, <2>3, <2>4, ClassAssumption DEF GoneInv
  <1>3. ASSUME NEW c \in Class, Pose(c) PROVE GoneInv'
    <2>1. PICK d \in 1..MaxDepth :
             classtable' = [classtable EXCEPT ![<<NameOf[Super[c]], d>>] = Super[c], ![<<NameOf[Super[c]], 0>>] = c]
      BY <1>3, PoseSeats
    <2>2. removed' = removed /\ known' = known /\ c \in Registered /\ \A u \in Thread : infra'[u] = infra[u]
      BY <1>3, PoseSeats
    <2>3. Super[c] \in known \ removed
      <3>1. Seated(Super[c]) /\ Super[c] \in Class
        BY <1>3, PoseSeats DEF SuperInv
      <3>2. \A e \in 0..MaxDepth : <<NameOf[Super[c]], e>> \in Id
        BY <3>1, OwnId DEF Id
      <3>. QED
        BY <3>1, <3>2, ClassAssumption DEF Seated, GoneInv
    <2>4. \A id \in Id : classtable'[id] \in (known \cup {NoClass}) \ removed
      BY <2>1, <2>2, <2>3 DEF GoneInv, TableInv, Registered
    <2>. QED
      BY <1>3, <2>2, <2>4 DEF Pose, GoneInv, RemovedNotCached, cache
  <1>. QED
    BY <1>1, <1>2, <1>3 DEF Next

----------------------------------------------------------------------------
(* Indices *)

\* Steps that have nothing to do with registration
Quiet ==
    /\ UNCHANGED <<classtable, classindex, indexof, known>>
    /\ \A u \in Thread : pc'[u] \in Registering => pc'[u] = pc[u] /\ infra'[u] = infra[u]

OrderInv == NewInv /\ SeatInv /\ SuperInv

\* They keep what is known of registration.
LEMMA QuietStays ==
    ASSUME OrderInv, Quiet
    PROVE  OrderInv'
  <1>1. \A u \in Thread : pc'[u] \in Registering \cup Checked \cup Numbering \cup {"insert"}
           => pc'[u] = pc[u] /\ infra'[u] = infra[u]
    BY DEF Quiet, Registering, Checked, Numbering
  <1>2. \A c \in Class : Settled(c) => Settled(c)'
    BY <1>1 DEF Settled, Quiet, Numbering
  <1>3. \A c \in Class : Seated(c) => Seated(c)'
    BY DEF Seated, Quiet
  <1>4. Registered' = Registered
    BY DEF Registered, Quiet
  <1>5. NewInv'
    BY <1>1 DEF OrderInv, NewInv, Quiet
  <1>6. SeatInv'
    BY <1>2, <1>3, <1>4 DEF OrderInv, SeatInv, Quiet, Registered
  <1>7. SuperInv'
    BY <1>1, <1>2, <1>3, <1>4, SuperAssumption DEF OrderInv, SuperInv, SuperHasLowerIndex, Quiet
  <1>. QED
    BY <1>5, <1>6, <1>7 DEF OrderInv

\* Which steps these are
LEMMA QuietSteps ==
    ASSUME ThreadInv, NEW t \in Thread,
           \/ Probe(t) \/ ReadTable(t) \/ (\E b \in BOOLEAN : ClassIsMissing(t, b))
           \/ FillRead(t) \/ FillCheck(t) \/ SwapCaches(t)
           \/ AddProbe(t) \/ AddValue(t) \/ AddTaken(t) \/ AddCount(t) \/ AddKey(t)
           \/ (\E id \in LookupId : Lookup(t, id))
    PROVE  Quiet
  <1>. USE DEF Quiet, ThreadInv, Registering, Goto, Leave, Return, Stay, classes, history
  <1>1. CASE Probe(t)
    BY <1>1 DEF Probe
  <1>2. CASE ReadTable(t)
    BY <1>2 DEF ReadTable
  <1>3. CASE (\E b \in BOOLEAN : ClassIsMissing(t, b))
    BY <1>3 DEF ClassIsMissing
  <1>4. CASE FillRead(t)
    BY <1>4 DEF FillRead
  <1>5. CASE FillCheck(t)
    BY <1>5 DEF FillCheck
  <1>6. CASE SwapCaches(t)
    BY <1>6 DEF SwapCaches
  <1>7. CASE AddProbe(t)
    BY <1>7 DEF AddProbe
  <1>8. CASE AddValue(t)
    BY <1>8 DEF AddValue
  <1>9. CASE AddTaken(t)
    BY <1>9 DEF AddTaken
  <1>10. CASE AddCount(t)
    BY <1>10 DEF AddCount
  <1>11. CASE AddKey(t)
    BY <1>11 DEF AddKey
  <1>12. CASE (\E id \in LookupId : Lookup(t, id))
    BY <1>12 DEF Lookup
  <1>. QED
    BY <1>1, <1>2, <1>3, <1>4, <1>5, <1>6, <1>7, <1>8, <1>9, <1>10, <1>11, <1>12

\* A class that is new
LEMMA RegisterStep ==
    ASSUME ThreadInv, TableInv, GoneInv, OrderInv, NEW t \in Thread, NEW c \in Class, Register(t, c)
    PROVE  OrderInv'
  <1>1. /\ c \notin known /\ known' = known \cup {c} /\ UNCHANGED <<classtable, classindex, indexof>>
        /\ pc[t] = "idle" /\ pc' = [pc EXCEPT ![t] = "super"] /\ infra' = [infra EXCEPT ![t] = c]
    BY DEF Register, Goto
  <1>2. /\ pc'[t] = "super" /\ infra'[t] = c
        /\ \A u \in Thread \ {t} : pc'[u] = pc[u] /\ infra'[u] = infra[u]
    BY <1>1 DEF ThreadInv
  <1>3. \A y \in Class : Settled(y) => Settled(y)'
    BY <1>1, <1>2 DEF Settled, OrderInv, NewInv
  <1>4. \A y \in Class : Seated(y) => Seated(y)'
    BY <1>1 DEF Seated
  <1>5. Registered' = Registered
    BY <1>1 DEF Registered
  <1>6. NewInv'
    BY <1>1, <1>2 DEF OrderInv, NewInv, Registering
  <1>7. SeatInv'
    BY <1>1, <1>3, <1>4, <1>5 DEF OrderInv, SeatInv, Registered
  <1>8. SuperInv'
    BY <1>1, <1>2, <1>3, <1>4, <1>5, SuperAssumption
       DEF OrderInv, SuperInv, SuperHasLowerIndex, Checked, Registered
  <1>. QED
    BY <1>6, <1>7, <1>8 DEF OrderInv

\* The superclass is there, or the class is not registered.
LEMMA RegisterSuperStep ==
    ASSUME ThreadInv, TableInv, GoneInv, OrderInv, NEW t \in Thread, RegisterSuper(t)
    PROVE  OrderInv'
  <1>. DEFINE c == infra[t]
  <1>1. /\ UNCHANGED <<classtable, classindex, indexof, known>> /\ pc[t] = "super" /\ c \in Class
        /\ \A u \in Thread \ {t} : pc'[u] = pc[u] /\ infra'[u] = infra[u]
    BY DEF RegisterSuper, classes, history, Leave, Stay, Goto, ThreadInv, Registering
  <1>2. CASE c \in DOMAIN Super /\ classtable[classid(Super[c])] = NoClass
    <2>1. pc'[t] = "idle"
      BY <1>2 DEF RegisterSuper, Leave, Goto, ThreadInv
    <2>2. Quiet
      BY <1>1, <2>1 DEF Quiet, Registering
    <2>. QED
      BY <2>2, QuietStays
  <1>3. CASE ~(c \in DOMAIN Super /\ classtable[classid(Super[c])] = NoClass)
    <2>1. pc'[t] = "index" /\ infra'[t] = c
      BY <1>3 DEF RegisterSuper, Stay, Goto, ThreadInv
    <2>2. ASSUME c \in DOMAIN Super PROVE Seated(Super[c]) /\ Settled(Super[c])
      <3>1. Super[c] \in Class /\ \A d \in Class : NameOf[d] = NameOf[Super[c]] => d = Super[c]
        BY <2>2, SuperAssumption
      <3>2. classtable[<<NameOf[Super[c]], 0>>] # NoClass /\ NameOf[Super[c]] \in Name
        BY <1>3, <2>2, <3>1, OwnId
      <3>3. PICK y \in Class : NameOf[y] = NameOf[Super[c]] /\ Seated(y) /\ Settled(y)
        BY <3>2 DEF OrderInv, SeatInv
      <3>4. y = Super[c]
        BY <3>1, <3>3
      <3>. QED
        BY <3>3, <3>4
    <2>. HIDE DEF c
    <2>3. \A y \in Class : Settled(y) => Settled(y)'
      BY <1>1, <2>1 DEF Settled, Numbering, c
    <2>4. \A y \in Class : Seated(y) => Seated(y)'
      BY <1>1 DEF Seated
    <2>5. Registered' = Registered
      BY <1>1 DEF Registered
    <2>6. NewInv'
      <3>1. \A u \in Thread : pc'[u] \in Registering => pc[u] \in Registering /\ infra'[u] = infra[u]
        BY <1>1, <2>1 DEF Registering, c
      <3>2. \A u \in Thread : pc'[u] = "insert" => pc[u] = "insert"
        BY <1>1, <2>1
      <3>. QED
        BY <1>1, <3>1, <3>2 DEF OrderInv, NewInv, Registering
    <2>7. SeatInv'
      BY <1>1, <2>3, <2>4, <2>5 DEF OrderInv, SeatInv, Registered
    <2>8. SuperInv'
      <3>1. \A s \in Registered' \cap DOMAIN Super : Seated(Super[s])' /\ Settled(Super[s])'
        BY <2>3, <2>4, <2>5, SuperAssumption DEF OrderInv, SuperInv
      <3>2. \A u \in Thread : pc'[u] \in Checked /\ infra'[u] \in DOMAIN Super =>
               Super[infra'[u]] \in Class /\ Seated(Super[infra'[u]]) /\ Settled(Super[infra'[u]])
        BY <1>1, <2>1, <2>2, SuperAssumption DEF OrderInv, SuperInv, Checked
      <3>3. \A u \in Thread : pc'[u] = "insert" /\ infra'[u] \in DOMAIN Super =>
               indexof'[Super[infra'[u]]] < indexof'[infra'[u]]
        BY <1>1, <2>1 DEF OrderInv, SuperInv
      <3>4. SuperHasLowerIndex'
        BY <1>1, <2>5 DEF OrderInv, SuperInv, SuperHasLowerIndex
      <3>. QED
        BY <2>3, <2>4, <3>1, <3>2, <3>3, <3>4 DEF SuperInv, Seated, Settled
    <2>. QED
      BY <2>6, <2>7, <2>8 DEF OrderInv
  <1>. QED
    BY <1>2, <1>3

\* A class gets its index before it is in the table, when no subclass can be there.
LEMMA RegisterIndexStep ==
    ASSUME ThreadInv, TableInv, GoneInv, OrderInv, NEW t \in Thread, RegisterIndex(t)
    PROVE  OrderInv'
  <1>. DEFINE c == infra[t]
  <1>1. /\ UNCHANGED <<classtable, known, infra>> /\ pc[t] = "index" /\ c \in Class
        /\ pc'[t] = "insert" /\ \A u \in Thread \ {t} : pc'[u] = pc[u]
        /\ classindex \in Nat /\ indexof'[c] = classindex
        /\ \A y \in Class \ {c} : indexof'[y] = indexof[y]
    BY DEF RegisterIndex, history, Goto, ThreadInv, Registering, TableInv
  <1>2. c \in known /\ \A y \in Class : Settled(y) => y # c
    BY <1>1 DEF Settled, OrderInv, NewInv, Registering, Numbering
  <1>. HIDE DEF c
  <1>3. \A y \in Class : Settled(y) => Settled(y)' /\ indexof'[y] = indexof[y]
    BY <1>1, <1>2 DEF Settled, Numbering
  <1>4. \A y \in Class : Seated(y) => Seated(y)'
    BY <1>1 DEF Seated
  <1>5. Registered' = Registered
    BY <1>1 DEF Registered
  <1>6. NewInv'
    <2>1. \A u \in Thread : pc'[u] \in Registering => pc[u] \in Registering
      BY <1>1 DEF Registering
    <2>2. \A u \in Thread : pc'[u] = "insert" => indexof'[infra[u]] >= 0
      <3>. SUFFICES ASSUME NEW u \in Thread, pc'[u] = "insert" PROVE indexof'[infra[u]] >= 0
        OBVIOUS
      <3>1. CASE infra[u] = c
        BY <1>1, <3>1
      <3>2. CASE infra[u] # c
        <4>1. u # t /\ pc[u] = "insert" /\ infra[u] \in Class
          BY <1>1, <3>2 DEF c, ThreadInv, Registering
        <4>. QED
          BY <1>1, <3>2, <4>1 DEF OrderInv, NewInv
      <3>. QED
        BY <3>1, <3>2
    <2>3. \A y \in Class : indexof'[y] >= 0 => y \in known
      BY <1>1, <1>2 DEF OrderInv, NewInv
    <2>. QED
      BY <1>1, <2>1, <2>2, <2>3 DEF OrderInv, NewInv
  <1>7. SeatInv'
    BY <1>1, <1>3, <1>4, <1>5 DEF OrderInv, SeatInv, Registered
  <1>8. SuperInv'
    <2>1. \A s \in Registered' \cap DOMAIN Super : Seated(Super[s])' /\ Settled(Super[s])'
      BY <1>3, <1>4, <1>5, SuperAssumption DEF OrderInv, SuperInv
    <2>2. \A u \in Thread : pc'[u] \in Checked /\ infra'[u] \in DOMAIN Super =>
             Super[infra'[u]] \in Class /\ Seated(Super[infra'[u]]) /\ Settled(Super[infra'[u]])
      BY <1>1, SuperAssumption DEF OrderInv, SuperInv, Checked
    <2>3. \A y \in Class : indexof[y] \in Int /\ indexof[y] < classindex
      BY DEF TableInv
    <2>4. \A y \in Class : indexof'[y] \in Int /\ indexof[y] <= indexof'[y]
      BY <1>1, <2>3
    <2>5. \A u \in Thread : pc'[u] = "insert" /\ infra'[u] \in DOMAIN Super =>
             indexof'[Super[infra'[u]]] < indexof'[infra'[u]]
      <3>. SUFFICES ASSUME NEW u \in Thread, pc'[u] = "insert", infra[u] \in DOMAIN Super
                    PROVE  indexof'[Super[infra[u]]] < indexof'[infra[u]]
        BY <1>1
      <3>. DEFINE s == infra[u]
      <3>1. Super[s] \in Class /\ s \in Class /\ Settled(Super[s])
        BY <1>1, <2>2, ClassAssumption DEF Checked
      <3>2. indexof'[Super[s]] = indexof[Super[s]]
        BY <1>3, <3>1
      <3>3. CASE u = t
        BY <1>1, <2>3, <3>1, <3>2, <3>3 DEF c
      <3>4. CASE u # t
        <4>1. indexof[Super[s]] < indexof[s]
          BY <1>1, <3>4 DEF OrderInv, SuperInv
        <4>. QED
          BY <2>3, <2>4, <3>1, <3>2, <4>1
      <3>. QED
        BY <3>3, <3>4
    <2>6. SuperHasLowerIndex'
      <3>. SUFFICES ASSUME NEW s \in Registered \cap DOMAIN Super
                    PROVE  indexof'[Super[s]] < indexof'[s]
        BY <1>5 DEF SuperHasLowerIndex
      <3>1. Super[s] \in Class /\ s \in Class /\ Settled(Super[s]) /\ indexof[Super[s]] < indexof[s]
        BY SuperAssumption DEF OrderInv, SuperInv, SuperHasLowerIndex, Registered
      <3>2. indexof'[Super[s]] = indexof[Super[s]]
        BY <1>3, <3>1
      <3>. QED
        BY <2>3, <2>4, <3>1, <3>2
    <2>. QED
      BY <1>3, <1>4, <2>1, <2>2, <2>5, <2>6 DEF SuperInv, Seated, Settled
  <1>. QED
    BY <1>6, <1>7, <1>8 DEF OrderInv

\* The class is in the table, or another one with its name was faster.
LEMMA RegisterInsertStep ==
    ASSUME ThreadInv, TableInv, GoneInv, OrderInv, NEW t \in Thread, RegisterInsert(t)
    PROVE  OrderInv'
  <1>. PICK c : c = infra[t]
    OBVIOUS
  <1>1. /\ UNCHANGED <<classindex, indexof, known>> /\ pc[t] = "insert" /\ c \in Class
        /\ pc'[t] = "idle" /\ \A u \in Thread \ {t} : pc'[u] = pc[u] /\ infra'[u] = infra[u]
    BY DEF RegisterInsert, Leave, history, Goto, ThreadInv, Registering
  <1>2. CASE classtable[classid(c)] # NoClass
    <2>1. UNCHANGED classtable
      BY <1>2 DEF RegisterInsert
    <2>2. Quiet
      BY <1>1, <2>1 DEF Quiet, Registering
    <2>. QED
      BY <2>2, QuietStays
  <1>3. CASE classtable[classid(c)] = NoClass
    <2>. DEFINE n == NameOf[c]
    <2>1. classid(c) = <<n, 0>> /\ <<n, 0>> \in Id /\ n \in Name
      BY <1>1, OwnId
    <2>2. /\ classtable[<<n, 0>>] = NoClass /\ classtable'[<<n, 0>>] = c
          /\ \A id \in Id \ {<<n, 0>>} : classtable'[id] = classtable[id]
      BY <1>3, <2>1 DEF RegisterInsert, TableInv
    <2>3. Settled(c) /\ c # NoClass
      BY <1>1, ClassAssumption DEF OrderInv, NewInv, Settled, Registering, Numbering
    <2>4. \A u \in Thread : pc'[u] \in Registering =>
             u # t /\ pc'[u] = pc[u] /\ infra'[u] = infra[u]
      BY <1>1 DEF Registering
    <2>5. c \in DOMAIN Super => /\ Seated(Super[c]) /\ Settled(Super[c])
                                /\ indexof[Super[c]] < indexof[c]
      BY <1>1 DEF OrderInv, SuperInv, Checked
    <2>. HIDE DEF n
    <2>6. \A y \in Class : Settled(y) => Settled(y)'
      BY <1>1, <2>4 DEF Settled, Numbering, Registering
    <2>7. \A y \in Class : Seated(y) => Seated(y)'
      <3>. SUFFICES ASSUME NEW y \in Class, NEW d \in 0..MaxDepth, classtable[<<NameOf[y], d>>] = y
                    PROVE  classtable'[<<NameOf[y], d>>] = y
        BY DEF Seated
      <3>1. <<NameOf[y], d>> \in Id
        BY ClassAssumption DEF Id
      <3>. QED
        BY <2>2, <3>1, ClassAssumption
    <2>8. Seated(c)'
      BY <2>2, BoundAssumption DEF Seated, n
    <2>9. Registered' \subseteq Registered \cup {c}
      BY <2>2 DEF Registered
    <2>10. NewInv'
      BY <1>1, <2>4 DEF OrderInv, NewInv, Registering
    <2>11. SeatInv'
      <3>1. \A y \in Registered' : Seated(y)'
        BY <2>7, <2>8, <2>9 DEF OrderInv, SeatInv, Registered
      <3>2. ASSUME NEW m \in Name, classtable'[<<m, 0>>] # NoClass
            PROVE  \E y \in Class : NameOf[y] = m /\ Seated(y)' /\ Settled(y)'
        <4>1. CASE m = n
          BY <1>1, <2>3, <2>6, <2>8, <4>1 DEF n
        <4>2. CASE m # n
          <5>1. classtable[<<m, 0>>] # NoClass
            BY <2>2, <3>2, <4>2, BoundAssumption DEF Id
          <5>2. PICK y \in Class : NameOf[y] = m /\ Seated(y) /\ Settled(y)
            BY <5>1 DEF OrderInv, SeatInv
          <5>. QED
            BY <5>2, <2>6, <2>7
        <4>. QED
          BY <4>1, <4>2
      <3>. QED
        BY <3>1, <3>2 DEF SeatInv, Seated, Settled
    <2>12. SuperInv'
      <3>1. \A s \in Registered' \cap DOMAIN Super : Seated(Super[s])' /\ Settled(Super[s])'
        BY <2>5, <2>6, <2>7, <2>9, SuperAssumption DEF OrderInv, SuperInv
      <3>2. \A u \in Thread : pc'[u] \in Checked /\ infra'[u] \in DOMAIN Super =>
               Super[infra'[u]] \in Class /\ Seated(Super[infra'[u]]) /\ Settled(Super[infra'[u]])
        BY <2>4, SuperAssumption DEF OrderInv, SuperInv, Checked, Registering
      <3>3. \A u \in Thread : pc'[u] = "insert" /\ infra'[u] \in DOMAIN Super =>
               indexof'[Super[infra'[u]]] < indexof'[infra'[u]]
        BY <1>1, <2>4 DEF OrderInv, SuperInv, Registering
      <3>4. SuperHasLowerIndex'
        BY <1>1, <2>5, <2>9 DEF OrderInv, SuperInv, SuperHasLowerIndex
      <3>. QED
        BY <2>6, <2>7, <3>1, <3>2, <3>3, <3>4 DEF SuperInv, Seated, Settled
    <2>. QED
      BY <2>10, <2>11, <2>12 DEF OrderInv
  <1>. QED
    BY <1>2, <1>3

\* A class without registered subclasses is taken back.
LEMMA RemoveStep ==
    ASSUME ThreadInv, TableInv, OrderInv, NEW c \in Class, Remove(c)
    PROVE  OrderInv'
  <1>. DEFINE n == NameOf[c]
  <1>1. classid(c) = <<n, 0>> /\ <<n, 0>> \in Id /\ n \in Name
    BY OwnId
  <1>2. /\ UNCHANGED <<classindex, indexof, known, pc, infra>>
        /\ \A u \in Thread : pc[u] = "idle"
        /\ \A s \in Registered \cap DOMAIN Super : Super[s] # c
    BY DEF Remove, locals, Alone
  <1>3. /\ classtable'[<<n, 0>>] = NoClass
        /\ \A id \in Id \ {<<n, 0>>} : classtable'[id] = classtable[id] /\ classtable[id] # c
        /\ classtable[<<n, 0>>] = c
    <2>1. {id \in Id : classtable[id] = c} = {<<n, 0>>}
      BY <1>1 DEF Remove
    <2>. QED
      BY <1>1, <2>1 DEF Remove, TableInv
  <1>. HIDE DEF n
  <1>4. \A y \in Class : Settled(y)' <=> Settled(y)
    BY <1>2 DEF Settled
  <1>5. \A y \in Class \ {c} : Seated(y) => Seated(y)'
    <2>. SUFFICES ASSUME NEW y \in Class \ {c}, NEW d \in 0..MaxDepth, classtable[<<NameOf[y], d>>] = y
                  PROVE  classtable'[<<NameOf[y], d>>] = y
      BY DEF Seated
    <2>1. <<NameOf[y], d>> \in Id
      BY ClassAssumption DEF Id
    <2>. QED
      BY <1>3, <2>1
  <1>6. Registered' \subseteq Registered \ {c}
    BY <1>3, ClassAssumption DEF Registered
  <1>7. NewInv'
    BY <1>2 DEF OrderInv, NewInv
  <1>8. SeatInv'
    <2>1. \A y \in Registered' : Seated(y)'
      BY <1>5, <1>6 DEF OrderInv, SeatInv, Registered
    <2>2. ASSUME NEW m \in Name, classtable'[<<m, 0>>] # NoClass
          PROVE  \E y \in Class : NameOf[y] = m /\ Seated(y)' /\ Settled(y)'
      <3>1. m # n /\ <<m, 0>> \in Id /\ classtable[<<m, 0>>] # NoClass
        BY <1>3, <2>2, BoundAssumption DEF Id
      <3>2. PICK y \in Class : NameOf[y] = m /\ Seated(y) /\ Settled(y)
        BY <3>1 DEF OrderInv, SeatInv
      <3>3. y # c
        BY <3>1, <3>2 DEF n
      <3>. QED
        BY <3>2, <3>3, <1>4, <1>5
    <2>. QED
      BY <2>1, <2>2 DEF SeatInv, Seated, Settled
  <1>9. SuperInv'
    <2>1. \A s \in Registered' \cap DOMAIN Super : Seated(Super[s])' /\ Settled(Super[s])'
      BY <1>2, <1>4, <1>5, <1>6, SuperAssumption DEF OrderInv, SuperInv
    <2>2. SuperHasLowerIndex'
      BY <1>2, <1>6 DEF OrderInv, SuperInv, SuperHasLowerIndex
    <2>. QED
      BY <1>2, <2>1, <2>2 DEF SuperInv, Seated, Settled, Checked
  <1>. QED
    BY <1>7, <1>8, <1>9 DEF OrderInv

\* The poser gets a larger index; the class posed away keeps a seat.
LEMMA PoseStep ==
    ASSUME ThreadInv, TableInv, GoneInv, OrderInv, NEW c \in Class, Pose(c)
    PROVE  OrderInv'
  <1>. DEFINE v == Super[c]  n == NameOf[v]
  <1>1. /\ c \in Registered /\ c \in DOMAIN Super /\ v \in Class /\ n \in Name
        /\ classtable[<<n, 0>>] # NoClass
        /\ \A s \in Registered \cap DOMAIN Super : Super[s] # c
        /\ classindex' = classindex + 1 /\ indexof' = [indexof EXCEPT ![c] = classindex]
        /\ known' = known
        /\ \A u \in Thread : pc'[u] = "idle" /\ pc[u] = "idle" /\ infra'[u] = infra[u]
    BY PoseSeats, OwnId
  <1>2. PICK d \in 1..MaxDepth :
           /\ classtable[<<n, d>>] = NoClass
           /\ classtable' = [classtable EXCEPT ![<<n, d>>] = v, ![<<n, 0>>] = c]
    BY PoseSeats
  <1>3. \A y \in Class : NameOf[y] = n => y = v
    BY <1>1, SuperAssumption
  <1>4. Seated(v) /\ Settled(v) /\ v # c
    <2>1. Seated(v) /\ Settled(v) /\ indexof[v] < indexof[c]
      BY <1>1 DEF OrderInv, SuperInv, SuperHasLowerIndex
    <2>. QED
      BY <2>1, <1>1 DEF TableInv
  <1>. HIDE DEF v, n
  <1>5. <<n, d>> \in Id /\ <<n, 0>> \in Id /\ <<n, d>> # <<n, 0>>
    BY <1>1, BoundAssumption DEF Id
  <1>6. /\ classtable'[<<n, d>>] = v /\ classtable'[<<n, 0>>] = c
        /\ \A id \in Id \ {<<n, 0>>, <<n, d>>} : classtable'[id] = classtable[id]
    BY <1>2, <1>5 DEF TableInv
  <1>7. /\ indexof'[c] = classindex /\ classindex \in Nat
        /\ \A y \in Class \ {c} : indexof'[y] = indexof[y]
        /\ \A y \in Class : indexof[y] \in Int /\ indexof[y] < classindex
    BY <1>1 DEF TableInv
  <1>8. \A y \in Class : Settled(y) => Settled(y)'
    BY <1>1, <1>7 DEF Settled, Numbering
  <1>9. \A y \in Class : Seated(y) => Seated(y)'
    <2>. SUFFICES ASSUME NEW y \in Class, NEW e \in 0..MaxDepth, classtable[<<NameOf[y], e>>] = y
                  PROVE  Seated(y)'
      BY DEF Seated
    <2>1. <<NameOf[y], e>> \in Id
      BY ClassAssumption DEF Id
    <2>2. CASE <<NameOf[y], e>> \notin {<<n, 0>>, <<n, d>>}
      BY <1>6, <2>1, <2>2 DEF Seated
    <2>3. CASE <<NameOf[y], e>> \in {<<n, 0>>, <<n, d>>}
      <3>1. y = v
        BY <2>3, <1>3
      <3>. QED
        BY <3>1, <1>6 DEF Seated, n
    <2>. QED
      BY <2>2, <2>3
  <1>10. v \in Registered
    BY <1>1, <1>4, ClassAssumption DEF Seated, Registered, Id
  <1>11. Registered' \subseteq Registered
    BY <1>1, <1>6, <1>10 DEF Registered
  <1>12. NewInv'
    <2>1. c \in known
      BY <1>1, ClassAssumption DEF GoneInv, Registered
    <2>. QED
      BY <1>1, <1>7, <2>1 DEF OrderInv, NewInv, Registering
  <1>13. SeatInv'
    <2>1. \A y \in Registered' : Seated(y)'
      BY <1>9, <1>11 DEF OrderInv, SeatInv, Registered
    <2>2. ASSUME NEW m \in Name, classtable'[<<m, 0>>] # NoClass
          PROVE  \E y \in Class : NameOf[y] = m /\ Seated(y)' /\ Settled(y)'
      <3>1. classtable[<<m, 0>>] # NoClass
        BY <1>1, <1>5, <1>6, <2>2, BoundAssumption DEF Id
      <3>2. PICK y \in Class : NameOf[y] = m /\ Seated(y) /\ Settled(y)
        BY <3>1 DEF OrderInv, SeatInv
      <3>. QED
        BY <3>2, <1>8, <1>9
    <2>. QED
      BY <2>1, <2>2 DEF SeatInv, Seated, Settled
  <1>14. SuperInv'
    <2>1. \A s \in Registered' \cap DOMAIN Super : Seated(Super[s])' /\ Settled(Super[s])'
      BY <1>8, <1>9, <1>11, SuperAssumption DEF OrderInv, SuperInv
    <2>2. SuperHasLowerIndex'
      <3>. SUFFICES ASSUME NEW s \in Registered \cap DOMAIN Super
                    PROVE  indexof'[Super[s]] < indexof'[s]
        BY <1>11 DEF SuperHasLowerIndex
      <3>1. s \in Class /\ Super[s] \in Class /\ Super[s] # c /\ indexof[Super[s]] < indexof[s]
        BY <1>1, SuperAssumption DEF OrderInv, SuperInv, SuperHasLowerIndex, Registered
      <3>. QED
        BY <1>7, <3>1
    <2>. QED
      BY <1>1, <2>1, <2>2 DEF SuperInv, Seated, Settled, Checked
  <1>. QED
    BY <1>12, <1>13, <1>14 DEF OrderInv

----------------------------------------------------------------------------
(* The invariant and the theorems *)

\* The invariant holds at first,
LEMMA InitHolds == Init => IInv
  <1>. SUFFICES ASSUME Init PROVE IInv
    OBVIOUS
  <1>1. ThreadInv /\ ArgInv
    BY DEF Init, ThreadInv, ArgInv, Place, Filling, Adding, Registering
  <1>2. CacheInv
    <2>1. empty_cache \in Cache
      BY EmptyCacheIs
    <2>2. caches = <<empty_cache>> /\ pivot = 1
      BY DEF Init
    <2>. HIDE DEF empty_cache
    <2>3. caches \in Seq(Cache) /\ Len(caches) = 1 /\ caches[1] = empty_cache
      BY <2>1, <2>2
    <2>. QED
      BY <2>2, <2>3 DEF Init, CacheInv, Filling, Adding
  <1>3. FreeInv
    BY DEF Init, FreeInv, CacheFreedOnce
  <1>4. TableInv
    BY DEF Init, TableInv
  <1>5. GoneInv
    BY EmptyCacheIs DEF Init, GoneInv, RemovedNotCached
  <1>6. NewInv
    BY DEF Init, NewInv, Registering
  <1>7. Registered = {} /\ \A n \in Name : classtable[<<n, 0>>] = NoClass
    BY ClassAssumption, BoundAssumption DEF Init, Registered, Id
  <1>8. SeatInv /\ SuperInv
    BY <1>7 DEF Init, SeatInv, SuperInv, SuperHasLowerIndex, Checked
  <1>. QED
    BY <1>1, <1>2, <1>3, <1>4, <1>5, <1>6, <1>8 DEF IInv

\* and every step keeps it.
LEMMA NextHolds == IInv /\ [Next]_vars => IInv'
  <1>. SUFFICES ASSUME IInv, [Next]_vars PROVE IInv'
    OBVIOUS
  <1>. USE DEF IInv
  <1>1. CASE Next
    <2>1. ThreadInv' /\ ArgInv'
      BY <1>1, ThreadStep, ArgStep
    <2>2. CacheInv' /\ FreeInv'
      BY <1>1, CacheStep, FreeStep
    <2>3. TableInv' /\ GoneInv'
      BY <1>1, TableStep, GoneStep
    <2>4. OrderInv
      BY DEF OrderInv
    <2>5. OrderInv'
      <3>1. ASSUME NEW t \in Thread, Runtime(t) \/ Client(t) PROVE OrderInv'
        BY <3>1, <2>4, QuietSteps, QuietStays, RegisterStep, RegisterSuperStep, RegisterIndexStep,
           RegisterInsertStep DEF Runtime, Client
      <3>. QED
        BY <1>1, <2>4, <3>1, RemoveStep, PoseStep DEF Next
    <2>. QED
      BY <2>1, <2>2, <2>3, <2>5 DEF OrderInv
  <1>2. CASE UNCHANGED vars
    <2>. USE <1>2 DEF vars, locals, classes, cache, history
    <2>1. ThreadInv' /\ ArgInv' /\ CacheInv' /\ FreeInv' /\ TableInv'
      BY DEF ThreadInv, ArgInv, CacheInv, FreeInv, CacheFreedOnce, TableInv
    <2>2. GoneInv'
      BY DEF GoneInv, RemovedNotCached
    <2>3. Quiet
      BY DEF Quiet
    <2>4. OrderInv'
      BY <2>3, QuietStays DEF OrderInv
    <2>. QED
      BY <2>1, <2>2, <2>4 DEF OrderInv
  <1>. QED
    BY <1>1, <1>2

\* So the invariant always holds.
LEMMA Invariance == Spec => []IInv
  BY InitHolds, NextHolds, PTL DEF Spec

\* A class cache is freed once, and neither the one in use nor empty_cache,
\* whoever swaps and removes (universe-class.c 104-111, 264-286).
THEOREM CachesFreedOnce == Spec => []CacheFreedOnce
  <1>1. IInv => CacheFreedOnce
    BY DEF IInv, FreeInv
  <1>. QED
    BY <1>1, Invariance, PTL

\* The class cache holds no class that was removed: removal leaves no thread
\* behind that could still put it there (universe.c 2761-2802).
THEOREM RemovedIsUncached == Spec => []RemovedNotCached
  <1>1. IInv => RemovedNotCached
    BY DEF IInv, GoneInv
  <1>. QED
    BY <1>1, Invariance, PTL

\* A class has a larger index than its superclass, whoever registers, removes
\* or poses (universe.c 1464-1492, 2540-2556, 2617-2630).
THEOREM SuperclassesComeFirst == Spec => []SuperHasLowerIndex
  <1>1. IInv => SuperHasLowerIndex
    BY DEF IInv, SuperInv
  <1>. QED
    BY <1>1, Invariance, PTL

\* Steps of a thread that registers nothing leave the tables alone,
LEMMA TablesKept ==
    ASSUME NEW t \in Thread,
           \/ Probe(t) \/ ReadTable(t) \/ (\E b \in BOOLEAN : ClassIsMissing(t, b))
           \/ FillRead(t) \/ FillCheck(t) \/ SwapCaches(t)
           \/ AddProbe(t) \/ AddValue(t) \/ AddTaken(t) \/ AddCount(t) \/ AddKey(t)
           \/ (\E id \in LookupId : Lookup(t, id))
    PROVE  UNCHANGED <<classtable, indexof, fastclasstable, poses, known, victims, removed>>
  BY DEF Probe, ReadTable, ClassIsMissing, FillRead, FillCheck, SwapCaches, AddProbe, AddValue,
         AddTaken, AddCount, AddKey, Lookup, classes, history

\* and those that register something leave the caches alone.
LEMMA CachesKept ==
    ASSUME NEW t \in Thread,
           \/ RegisterSuper(t) \/ RegisterIndex(t) \/ RegisterInsert(t)
           \/ (\E c \in Class : Register(t, c))
    PROVE  UNCHANGED <<caches, pivot, arg, result, wanted, poses, victims, removed>>
  <1>. USE DEF Leave, Stay, cache, history
  <1>1. CASE RegisterSuper(t)
    BY <1>1 DEF RegisterSuper
  <1>. QED
    BY <1>1 DEF RegisterIndex, RegisterInsert, Register

----------------------------------------------------------------------------
(* Fast classes *)

IsFast(c) == NameOf[c] \in DOMAIN FastIndex
FastSlot == {FastIndex[n] : n \in DOMAIN FastIndex}

\* A fast class that is in the table, or on its way there, has its slot, and
\* nobody has the slot of another one.
FastInv ==
    /\ fastclasstable \in [FastSlot -> Class \cup {NoClass}]
    /\ \A i \in FastSlot : fastclasstable[i] # NoClass =>
          /\ fastclasstable[i] \in known \ removed /\ IsFast(fastclasstable[i])
          /\ FastIndex[NameOf[fastclasstable[i]]] = i
    /\ \A c \in Registered : IsFast(c) => fastclasstable[FastIndex[NameOf[c]]] = c
    /\ \A t \in Thread : pc[t] \in Registering /\ IsFast(infra[t]) =>
          fastclasstable[FastIndex[NameOf[infra[t]]]] = infra[t]
    /\ \A id \in FastId \cap Id : classtable[id] # NoClass => NameOf[classtable[id]] = id[1]

\* An id is that of a fast class,
LEMMA FastIdIs ==
    ASSUME NEW c \in Class
    PROVE  /\ classid(c) \in FastId <=> IsFast(c)
           /\ IsFast(c) => FastIndex[NameOf[c]] \in FastSlot
  BY DEF FastId, classid, IsFast, FastSlot

\* which is not one that posing makes up.
LEMMA PosedNotFast ==
    ASSUME NEW n, NEW d \in 1..MaxDepth
    PROVE  <<n, d>> \notin FastId
  BY DEF FastId

\* Most steps have nothing to do with fast classes.
LEMMA FastStays ==
    ASSUME FastInv, Quiet, UNCHANGED <<fastclasstable, removed>>
    PROVE  FastInv'
  <1>1. Registered' = Registered
    BY DEF Registered, Quiet
  <1>2. \A u \in Thread : pc'[u] \in Registering => pc[u] \in Registering /\ infra'[u] = infra[u]
    BY DEF Quiet
  <1>. QED
    BY <1>1, <1>2 DEF FastInv, Quiet

\* A new class takes its slot.
LEMMA FastRegister ==
    ASSUME ThreadInv, GoneInv, FastInv, NEW t \in Thread, NEW c \in Class, Register(t, c)
    PROVE  FastInv'
  <1>1. /\ known' = known \cup {c} /\ removed' = removed /\ classtable' = classtable
        /\ pc[t] = "idle" /\ infra'[t] = c
        /\ \A u \in Thread \ {t} : pc'[u] = pc[u] /\ infra'[u] = infra[u]
        /\ c \notin removed /\ c # NoClass
    BY ClassAssumption DEF Register, Goto, ThreadInv, GoneInv
  <1>2. Registered' = Registered
    BY <1>1 DEF Registered
  <1>3. Registered \subseteq Class /\ \A u \in Thread : pc[u] \in Registering => infra[u] \in Class
    BY DEF Registered, ThreadInv
  <1>4. CASE ~IsFast(c)
    <2>1. fastclasstable' = fastclasstable
      BY <1>4, FastIdIs DEF Register
    <2>2. \A u \in Thread : pc'[u] \in Registering /\ IsFast(infra'[u]) =>
             u # t /\ pc[u] \in Registering /\ infra'[u] = infra[u]
      BY <1>1, <1>4
    <2>. QED
      BY <1>1, <1>2, <2>1, <2>2 DEF FastInv, Registering
  <1>5. CASE IsFast(c)
    <2>. DEFINE s == FastIndex[NameOf[c]]
    <2>1. s \in FastSlot /\ fastclasstable[s] = NoClass /\ fastclasstable' = [fastclasstable EXCEPT ![s] = c]
      BY <1>5, FastIdIs DEF Register
    <2>. HIDE DEF s
    <2>2. /\ fastclasstable' \in [FastSlot -> Class \cup {NoClass}] /\ fastclasstable'[s] = c
          /\ \A i \in FastSlot \ {s} : fastclasstable'[i] = fastclasstable[i]
      BY <2>1 DEF FastInv
    <2>3. \A i \in FastSlot : fastclasstable'[i] # NoClass =>
             /\ fastclasstable'[i] \in known' \ removed' /\ IsFast(fastclasstable'[i])
             /\ FastIndex[NameOf[fastclasstable'[i]]] = i
      BY <1>1, <1>5, <2>2 DEF FastInv, s
    <2>4. \A y \in Class : IsFast(y) /\ fastclasstable[FastIndex[NameOf[y]]] = y =>
             fastclasstable'[FastIndex[NameOf[y]]] = y
      BY <2>1, <2>2, FastIdIs, ClassAssumption
    <2>5. \A u \in Thread : pc'[u] \in Registering /\ IsFast(infra'[u]) =>
             fastclasstable'[FastIndex[NameOf[infra'[u]]]] = infra'[u]
      BY <1>1, <1>3, <2>2, <2>4 DEF FastInv, s
    <2>. QED
      BY <1>1, <1>2, <1>3, <2>2, <2>3, <2>4, <2>5 DEF FastInv
  <1>. QED
    BY <1>4, <1>5

\* A class gets into the table whose slot is taken.
LEMMA FastInsert ==
    ASSUME ThreadInv, TableInv, FastInv, NEW t \in Thread, RegisterInsert(t)
    PROVE  FastInv'
  <1>. PICK c : c = infra[t]
    OBVIOUS
  <1>1. /\ UNCHANGED <<fastclasstable, known, removed>> /\ c \in Class /\ pc[t] \in Registering
        /\ \A u \in Thread : pc'[u] \in Registering => pc[u] \in Registering /\ infra'[u] = infra[u]
    BY DEF RegisterInsert, Leave, Goto, history, ThreadInv, Registering
  <1>2. classid(c) \in Id /\ classid(c)[1] = NameOf[c]
    BY <1>1, OwnId
  <1>3. \A id \in Id : classtable'[id] \in {classtable[id], IF id = classid(c) THEN c ELSE NoClass}
                       \/ classtable'[id] = classtable[id]
    BY <1>1, <1>2 DEF RegisterInsert, TableInv
  <1>4. Registered' \subseteq Registered \cup {c}
    BY <1>3, ClassAssumption DEF Registered
  <1>5. \A y \in Registered' : IsFast(y) => fastclasstable[FastIndex[NameOf[y]]] = y
    BY <1>1, <1>4 DEF FastInv
  <1>6. \A id \in FastId \cap Id : classtable'[id] # NoClass => NameOf[classtable'[id]] = id[1]
    BY <1>2, <1>3 DEF FastInv
  <1>. QED
    BY <1>1, <1>5, <1>6 DEF FastInv

\* Removal clears the slot.
LEMMA FastRemove ==
    ASSUME FastFromOne, TableInv, FastInv, NEW c \in Class, Remove(c)
    PROVE  FastInv'
  <1>1. /\ known' = known /\ removed' = removed \cup {c} /\ pc' = pc /\ infra' = infra
        /\ \A u \in Thread : pc[u] = "idle"
        /\ fastclasstable' = [i \in DOMAIN fastclasstable |->
                                 IF i > 0 /\ classid(c) \in FastId /\ i = FastIndex[NameOf[c]]
                                 THEN NoClass ELSE fastclasstable[i]]
    BY DEF Remove, Alone, locals
  <1>2. /\ classid(c) \in Id /\ classtable[classid(c)] = c /\ classtable'[classid(c)] = NoClass
        /\ \A id \in Id \ {classid(c)} : classtable[id] # c /\ classtable'[id] = classtable[id]
    <2>1. {id \in Id : classtable[id] = c} = {classid(c)}
      BY DEF Remove
    <2>. QED
      BY <2>1, OwnId DEF Remove, TableInv
  <1>3. Registered' \subseteq Registered \ {c}
    BY <1>2, ClassAssumption DEF Registered
  <1>4. \A i \in FastSlot : i > 0
    BY DEF FastFromOne, FastSlot
  <1>5. /\ fastclasstable' \in [FastSlot -> Class \cup {NoClass}]
        /\ \A i \in FastSlot : fastclasstable'[i] = IF IsFast(c) /\ i = FastIndex[NameOf[c]]
                                                    THEN NoClass ELSE fastclasstable[i]
    BY <1>1, <1>4, FastIdIs DEF FastInv
  <1>6. c \in Registered
    BY <1>2 DEF Registered
  <1>7. \A i \in FastSlot : fastclasstable'[i] # NoClass =>
           /\ fastclasstable'[i] \in known' \ removed' /\ IsFast(fastclasstable'[i])
           /\ FastIndex[NameOf[fastclasstable'[i]]] = i
    BY <1>1, <1>5 DEF FastInv
  <1>8. \A y \in Registered' : IsFast(y) => fastclasstable'[FastIndex[NameOf[y]]] = y
    <2>. SUFFICES ASSUME NEW y \in Registered', IsFast(y)
                  PROVE  fastclasstable'[FastIndex[NameOf[y]]] = y
      OBVIOUS
    <2>1. y \in Registered /\ y # c /\ y \in Class
      BY <1>3 DEF Registered
    <2>2. fastclasstable[FastIndex[NameOf[y]]] = y /\ FastIndex[NameOf[y]] \in FastSlot
      BY <2>1, FastIdIs DEF FastInv
    <2>3. IsFast(c) => fastclasstable[FastIndex[NameOf[c]]] = c
      BY <1>6 DEF FastInv
    <2>. QED
      BY <1>5, <2>1, <2>2, <2>3
  <1>9. \A id \in FastId \cap Id : classtable'[id] # NoClass => NameOf[classtable'[id]] = id[1]
    BY <1>2 DEF FastInv
  <1>. QED
    BY <1>1, <1>5, <1>7, <1>8, <1>9 DEF FastInv, Registering

\* Nobody poses as a fast class.
LEMMA FastPose ==
    ASSUME ThreadInv, TableInv, SuperInv, FastInv, NEW c \in Class, Pose(c)
    PROVE  FastInv'
  <1>. DEFINE v == Super[c]  n == NameOf[v]
  <1>1. /\ c \in Registered /\ c \in DOMAIN Super /\ v \in Class
        /\ known' = known /\ removed' = removed
        /\ \A u \in Thread : pc'[u] = "idle"
    BY PoseSeats
  <1>2. PICK d \in 1..MaxDepth :
           classtable' = [classtable EXCEPT ![<<n, d>>] = v, ![<<n, 0>>] = c]
    BY PoseSeats
  <1>3. fastclasstable' = fastclasstable /\ classid(v) \notin FastId /\ classid(v) = <<n, 0>>
    BY <1>1, OwnId DEF Pose
  <1>4. <<n, d>> \notin FastId
    BY PosedNotFast
  <1>5. v \in Registered
    BY <1>1, ClassAssumption, BoundAssumption DEF SuperInv, Seated, Registered, Id
  <1>. HIDE DEF v, n
  <1>6. \A id \in Id : classtable'[id] \in {classtable[id], v, c}
    BY <1>2 DEF TableInv
  <1>7. Registered' \subseteq Registered
    BY <1>1, <1>5, <1>6 DEF Registered
  <1>8. \A id \in FastId \cap Id : classtable'[id] = classtable[id]
    BY <1>2, <1>3, <1>4 DEF TableInv
  <1>. QED
    BY <1>1, <1>3, <1>7, <1>8 DEF FastInv, Registering

\* Fast classes
LEMMA FastStep ==
    ASSUME FastFromOne, ThreadInv, TableInv, GoneInv, SuperInv, FastInv, Next
    PROVE  FastInv'
  <1>1. ASSUME NEW t \in Thread, Runtime(t) \/ Client(t) PROVE FastInv'
    <2>1. CASE RegisterSuper(t)
      <3>1. /\ UNCHANGED <<fastclasstable, classtable, known, removed>> /\ pc[t] \in Registering
            /\ \A u \in Thread : pc'[u] \in Registering => pc[u] \in Registering /\ infra'[u] = infra[u]
        BY <2>1 DEF RegisterSuper, Leave, Stay, Goto, ThreadInv, Registering, classes, history
      <3>2. Registered' = Registered
        BY <3>1 DEF Registered
      <3>. QED
        BY <3>1, <3>2 DEF FastInv
    <2>2. CASE RegisterIndex(t)
      <3>1. /\ UNCHANGED <<fastclasstable, classtable, known, removed>> /\ pc[t] \in Registering
            /\ \A u \in Thread : pc'[u] \in Registering => pc[u] \in Registering /\ infra'[u] = infra[u]
        BY <2>2 DEF RegisterIndex, Goto, ThreadInv, Registering, history
      <3>2. Registered' = Registered
        BY <3>1 DEF Registered
      <3>. QED
        BY <3>1, <3>2 DEF FastInv
    <2>3. CASE ~RegisterSuper(t) /\ ~RegisterIndex(t) /\ ~RegisterInsert(t)
               /\ ~ \E c \in Class : Register(t, c)
      <3>1. Quiet
        BY <1>1, <2>3, QuietSteps DEF Runtime, Client
      <3>2. UNCHANGED <<fastclasstable, removed>>
        BY <1>1, <2>3, TablesKept DEF Runtime, Client
      <3>. QED
        BY <3>1, <3>2, FastStays
    <2>. QED
      BY <1>1, <2>1, <2>2, <2>3, FastRegister, FastInsert
  <1>. QED
    BY <1>1, FastRemove, FastPose DEF Next

----------------------------------------------------------------------------
(* Posing *)

\* Who is registered under an id has its own name there.
Straight(id) == classtable[id] # NoClass => id = classid(classtable[id])

\* p poses as v, which is found under a "%" id.
PosesAs(p, v, d) ==
    /\ victims = {<<classid(v), v>>} /\ NameOf[p] # NameOf[v]
    /\ \A c \in Class : NameOf[c] = NameOf[v] => c = v
    /\ classtable[classid(v)] = p /\ classtable[classid(p)] = p
    /\ classtable[<<NameOf[v], d>>] = v
    /\ \A id \in Id \ {classid(v), <<NameOf[v], d>>} : Straight(id)

\* Ids and names agree, or one class poses as another one.
PosedInv ==
    \/ poses = 0 /\ victims = {} /\ \A id \in Id : Straight(id)
    \/ poses = 1 /\ \E p, v \in Class, d \in 1..MaxDepth : PosesAs(p, v, d)

\* Steps that leave the table alone
LEMMA PosedStays ==
    ASSUME PosedInv, UNCHANGED <<classtable, poses, victims>>
    PROVE  PosedInv'
  BY DEF PosedInv, PosesAs, Straight

\* A class gets into the table under its own id.
LEMMA PosedInsert ==
    ASSUME ThreadInv, TableInv, PosedInv, NEW t \in Thread, RegisterInsert(t)
    PROVE  PosedInv'
  <1>. PICK c : c = infra[t]
    OBVIOUS
  <1>1. c \in Class /\ UNCHANGED <<poses, victims>>
    BY DEF RegisterInsert, ThreadInv, Registering, history
  <1>2. classid(c) \in Id /\ c # NoClass
    BY <1>1, OwnId, ClassAssumption
  <1>3. \A id \in Id : /\ classtable[id] # NoClass => classtable'[id] = classtable[id]
                       /\ classtable'[id] # classtable[id] => id = classid(c) /\ classtable'[id] = c
    BY <1>1, <1>2 DEF RegisterInsert, TableInv
  <1>4. \A id \in Id : Straight(id) => Straight(id)'
    BY <1>3 DEF Straight
  <1>5. CASE poses = 0 /\ victims = {} /\ \A id \in Id : Straight(id)
    BY <1>1, <1>4, <1>5 DEF PosedInv
  <1>6. CASE poses = 1 /\ \E p, v \in Class, d \in 1..MaxDepth : PosesAs(p, v, d)
    <2>1. PICK p, v \in Class, d \in 1..MaxDepth : PosesAs(p, v, d)
      BY <1>6
    <2>2. classid(v) \in Id /\ classid(p) \in Id /\ <<NameOf[v], d>> \in Id
      BY OwnId DEF Id
    <2>3. PosesAs(p, v, d)'
      BY <1>1, <1>3, <1>4, <2>1, <2>2, ClassAssumption DEF PosesAs
    <2>. QED
      BY <1>1, <1>6, <2>3 DEF PosedInv
  <1>. QED
    BY <1>5, <1>6 DEF PosedInv

\* Neither the poser nor the class posed away can be removed.
LEMMA PosedRemove ==
    ASSUME TableInv, PosedInv, NEW c \in Class, Remove(c)
    PROVE  PosedInv'
  <1>1. UNCHANGED <<poses, victims>> /\ c # NoClass
    BY ClassAssumption DEF Remove
  <1>2. /\ classid(c) \in Id /\ classtable[classid(c)] = c /\ classtable'[classid(c)] = NoClass
        /\ \A id \in Id \ {classid(c)} : classtable[id] # c /\ classtable'[id] = classtable[id]
    <2>1. {id \in Id : classtable[id] = c} = {classid(c)}
      BY DEF Remove
    <2>. QED
      BY <2>1, OwnId DEF Remove, TableInv
  <1>3. \A id \in Id : Straight(id) => Straight(id)'
    BY <1>2 DEF Straight
  <1>4. CASE poses = 0 /\ victims = {} /\ \A id \in Id : Straight(id)
    BY <1>1, <1>3, <1>4 DEF PosedInv
  <1>5. CASE poses = 1 /\ \E p, v \in Class, d \in 1..MaxDepth : PosesAs(p, v, d)
    <2>1. PICK p, v \in Class, d \in 1..MaxDepth : PosesAs(p, v, d)
      BY <1>5
    <2>2. classid(v) \in Id /\ classid(p) \in Id /\ <<NameOf[v], d>> \in Id
          /\ classid(v) # classid(p) /\ <<NameOf[v], d>> # classid(v)
      BY <2>1, OwnId DEF Id, PosesAs
    <2>3. classid(c) \notin {classid(v), classid(p), <<NameOf[v], d>>}
      BY <1>2, <2>1, <2>2 DEF PosesAs
    <2>4. PosesAs(p, v, d)'
      BY <1>1, <1>2, <1>3, <2>1, <2>2, <2>3 DEF PosesAs
    <2>. QED
      BY <1>1, <1>5, <2>4 DEF PosedInv
  <1>. QED
    BY <1>4, <1>5 DEF PosedInv

\* The first class to pose makes itself and its superclass the exception.
LEMMA PosedPose ==
    ASSUME PosesOnce, ThreadInv, TableInv, SuperInv, PosedInv, NEW c \in Class, Pose(c)
    PROVE  PosedInv'
  <1>. PICK v : v = Super[c]
    OBVIOUS
  <1>1. poses = 0 /\ victims = {} /\ \A id \in Id : Straight(id)
    BY BoundAssumption DEF Pose, PosesOnce, PosedInv
  <1>2. /\ c \in Registered /\ c \in DOMAIN Super /\ v \in Class
        /\ \A y \in Class : NameOf[y] = NameOf[v] => y = v
        /\ \A s \in Registered \cap DOMAIN Super : Super[s] # c
        /\ poses' = 1 /\ victims' = {<<classid(v), v>>}
    BY <1>1, PoseSeats, SuperAssumption DEF Pose
  <1>3. PICK d \in 1..MaxDepth :
           classtable' = [classtable EXCEPT ![<<NameOf[v], d>>] = v, ![<<NameOf[v], 0>>] = c]
    BY PoseSeats
  <1>4. c # v /\ NameOf[c] # NameOf[v]
    BY <1>2
  <1>5. classid(v) = <<NameOf[v], 0>> /\ classid(c) = <<NameOf[c], 0>> /\ classid(v) \in Id
        /\ classid(c) \in Id /\ <<NameOf[v], d>> \in Id /\ <<NameOf[v], d>> # classid(v)
    BY <1>2, OwnId DEF Id
  <1>6. classtable[classid(c)] = c
    BY <1>1, <1>2, ClassAssumption DEF Registered, Straight
  <1>7. /\ classtable'[classid(v)] = c /\ classtable'[<<NameOf[v], d>>] = v
        /\ \A id \in Id \ {classid(v), <<NameOf[v], d>>} : classtable'[id] = classtable[id]
    BY <1>3, <1>5 DEF TableInv
  <1>8. PosesAs(c, v, d)'
    BY <1>1, <1>2, <1>4, <1>5, <1>6, <1>7 DEF PosesAs, Straight
  <1>. QED
    BY <1>2, <1>8 DEF PosedInv

\* Posing
LEMMA PosedStep ==
    ASSUME PosesOnce, ThreadInv, TableInv, SuperInv, PosedInv, Next
    PROVE  PosedInv'
  <1>1. ASSUME NEW t \in Thread, Runtime(t) \/ Client(t) PROVE PosedInv'
    <2>1. CASE RegisterInsert(t)
      BY <2>1, PosedInsert
    <2>2. CASE RegisterSuper(t) \/ RegisterIndex(t) \/ \E c \in Class : Register(t, c)
      <3>1. UNCHANGED <<classtable, poses, victims>>
        BY <2>2 DEF RegisterSuper, RegisterIndex, Register, classes, history
      <3>. QED
        BY <3>1, PosedStays
    <2>3. CASE ~RegisterSuper(t) /\ ~RegisterIndex(t) /\ ~RegisterInsert(t)
               /\ ~ \E c \in Class : Register(t, c)
      <3>1. UNCHANGED <<classtable, poses, victims>>
        BY <1>1, <2>3, TablesKept DEF Runtime, Client
      <3>. QED
        BY <3>1, PosedStays
    <2>. QED
      BY <2>1, <2>2, <2>3
  <1>. QED
    BY <1>1, PosedRemove, PosedPose DEF Next

\* Where a class is enumerated
LEMMA EnumeratedOnce ==
    ASSUME TableInv, PosedInv, NEW c \in Registered
    PROVE  \E id \in Id : Enumerated(c) = {id}
  <1>1. c \in Class /\ c # NoClass /\ classid(c) \in Id
    BY ClassAssumption, OwnId DEF Registered
  <1>2. PICK i \in Id : classtable[i] = c
    BY DEF Registered
  <1>3. CASE \A id \in Id : Straight(id)
    <2>1. \A id \in Id : classtable[id] = c => id = classid(c)
      BY <1>1, <1>3 DEF Straight
    <2>2. classtable[classid(c)] = c
      BY <1>2, <2>1
    <2>3. Enumerated(c) = {classid(c)}
      BY <1>1, <2>1, <2>2 DEF Enumerated
    <2>. QED
      BY <1>1, <2>3
  <1>4. CASE \E p, v \in Class, d \in 1..MaxDepth : PosesAs(p, v, d)
    <2>1. PICK p, v \in Class, d \in 1..MaxDepth : PosesAs(p, v, d)
      BY <1>4
    <2>. DEFINE w == <<NameOf[v], d>>
    <2>2. classid(v) \in Id /\ classid(p) \in Id /\ w \in Id /\ classid(v) # classid(p) /\ p # v
          /\ classid(v) # w /\ w # classid(p)
      BY <2>1, OwnId DEF Id, PosesAs
    <2>3. classtable[classid(v)] = p /\ classtable[classid(p)] = p /\ classtable[w] = v
          /\ \A id \in Id \ {classid(v), w} : classtable[id] = c => id = classid(c)
      BY <1>1, <2>1 DEF PosesAs, Straight
    <2>. HIDE DEF w
    <2>4. CASE c = v
      <3>1. Enumerated(c) = {w}
        BY <2>2, <2>3, <2>4 DEF Enumerated
      <3>. QED
        BY <2>2, <3>1
    <2>5. CASE c = p
      <3>1. Enumerated(c) = {classid(p)}
        BY <2>2, <2>3, <2>5 DEF Enumerated
      <3>. QED
        BY <2>2, <3>1
    <2>6. CASE c # v /\ c # p
      <3>1. \A id \in Id : classtable[id] = c => id = classid(c)
        BY <2>3, <2>6
      <3>2. Enumerated(c) = {classid(c)}
        BY <1>1, <1>2, <3>1 DEF Enumerated
      <3>. QED
        BY <1>1, <3>2
    <2>. QED
      BY <2>4, <2>5, <2>6
  <1>. QED
    BY <1>3, <1>4 DEF PosedInv

\* So teardown frees each class once.
LEMMA PosedIsFreedOnce ==
    ASSUME TableInv, PosedInv
    PROVE  FreedOnce
  <1>1. ASSUME NEW c \in Registered PROVE free_classgraph[c] = 1
    <2>1. PICK id \in Id : Enumerated(c) = {id}
      BY EnumeratedOnce
    <2>2. Cardinality(Enumerated(c)) = 1
      BY <2>1, FS_Singleton
    <2>. QED
      BY <2>2 DEF free_classgraph, Registered
  <1>2. ASSUME NEW v \in victims PROVE v[2] \in Registered
    <2>1. PICK p, w \in Class, d \in 1..MaxDepth : PosesAs(p, w, d)
      BY DEF PosedInv
    <2>2. v[2] = w /\ <<NameOf[w], d>> \in Id /\ classtable[<<NameOf[w], d>>] = w
      BY <2>1, OwnId DEF PosesAs, Id
    <2>. QED
      BY <2>2 DEF Registered
  <1>. QED
    BY <1>1, <1>2 DEF FreedOnce

\* A registered class is found under its own id, unless it was posed away from it.
LEMMA OwnIdFinds ==
    ASSUME TableInv, PosedInv, NEW c \in Registered
    PROVE  classtable[classid(c)] = c \/ <<classid(c), c>> \in victims
  <1>1. c \in Class /\ c # NoClass
    BY ClassAssumption DEF Registered
  <1>2. PICK i \in Id : classtable[i] = c
    BY DEF Registered
  <1>3. CASE Straight(i)
    BY <1>1, <1>2, <1>3 DEF Straight
  <1>4. CASE ~Straight(i)
    <2>1. PICK p, v \in Class, d \in 1..MaxDepth : PosesAs(p, v, d)
      BY <1>4 DEF PosedInv
    <2>2. i \in {classid(v), <<NameOf[v], d>>}
      BY <1>4, <2>1 DEF PosesAs
    <2>. QED
      BY <1>2, <2>1, <2>2 DEF PosesAs
  <1>. QED
    BY <1>3, <1>4

\* Two classes in the table have two names.
LEMMA NamesAreUnique ==
    ASSUME TableInv, PosedInv, NEW b \in Registered, NEW c \in Registered, classid(b) = classid(c)
    PROVE  b = c
  <1>1. CASE victims = {}
    BY <1>1, OwnIdFinds
  <1>2. CASE \E p, v \in Class, d \in 1..MaxDepth : PosesAs(p, v, d)
    <2>1. PICK p, v \in Class, d \in 1..MaxDepth : PosesAs(p, v, d)
      BY <1>2
    <2>2. b \in Class /\ c \in Class /\ NameOf[b] = NameOf[c]
      BY DEF Registered, classid
    <2>3. CASE NameOf[b] = NameOf[v]
      BY <2>1, <2>2, <2>3 DEF PosesAs
    <2>4. CASE NameOf[b] # NameOf[v]
      <3>1. <<classid(b), b>> \notin victims /\ <<classid(c), c>> \notin victims
        BY <2>1, <2>2, <2>4 DEF PosesAs, classid
      <3>. QED
        BY <3>1, OwnIdFinds
    <2>. QED
      BY <2>3, <2>4
  <1>. QED
    BY <1>1, <1>2 DEF PosedInv

\* Posing and registering keep what is registered.
LEMMA RegisteredKept ==
    ASSUME ThreadInv, TableInv, SuperInv, PosedInv, PosesOnce,
           \/ \E t \in Thread : Runtime(t) \/ Client(t)
           \/ \E c \in Class : Pose(c)
    PROVE  Registered \subseteq Registered'
  <1>1. ASSUME NEW t \in Thread, Runtime(t) \/ Client(t) PROVE Registered \subseteq Registered'
    <2>1. \A id \in Id : classtable[id] # NoClass => classtable'[id] = classtable[id]
      <3>1. CASE RegisterInsert(t)
        BY <3>1 DEF RegisterInsert, TableInv
      <3>2. CASE ~RegisterInsert(t)
        BY <1>1, <3>2, TablesKept DEF Runtime, Client, RegisterSuper, RegisterIndex, Register, classes
      <3>. QED
        BY <3>1, <3>2
    <2>. QED
      BY <2>1, ClassAssumption DEF Registered
  <1>2. ASSUME NEW c \in Class, Pose(c) PROVE Registered \subseteq Registered'
    <2>1. poses = 0 /\ \A id \in Id : Straight(id)
      BY <1>2, BoundAssumption DEF Pose, PosesOnce, PosedInv
    <2>. PICK v : v = Super[c]
      OBVIOUS
    <2>2. v \in Class /\ \A y \in Class : NameOf[y] = NameOf[v] => y = v
      BY <1>2, PoseSeats, SuperAssumption
    <2>3. PICK d \in 1..MaxDepth :
             /\ classtable[<<NameOf[v], d>>] = NoClass
             /\ classtable' = [classtable EXCEPT ![<<NameOf[v], d>>] = v, ![<<NameOf[v], 0>>] = c]
      BY <1>2, PoseSeats
    <2>4. <<NameOf[v], d>> \in Id /\ <<NameOf[v], 0>> \in Id
      BY <2>2, OwnId, BoundAssumption DEF Id
    <2>5. /\ classtable'[<<NameOf[v], d>>] = v
          /\ \A id \in Id \ {<<NameOf[v], d>>, <<NameOf[v], 0>>} : classtable'[id] = classtable[id]
      BY <2>3, <2>4 DEF TableInv
    <2>6. \A y \in Class : classtable[<<NameOf[v], 0>>] = y => y = v
      BY <2>1, <2>2, <2>4, ClassAssumption DEF Straight, classid
    <2>. QED
      BY <2>3, <2>4, <2>5, <2>6, ClassAssumption DEF Registered
  <1>. QED
    BY <1>1, <1>2

----------------------------------------------------------------------------
(* Walks *)

\* A number is reduced to its remainder.
LEMMA Remainder ==
    ASSUME NEW m \in Nat \ {0}, NEW q \in Nat, NEW j \in 0..(m - 1)
    PROVE  (m * q + j) % m = j
  OBVIOUS

\* A walk meets every slot.
LEMMA WalkMeetsAll ==
    ASSUME NEW m \in Nat \ {0}, NEW h \in Nat, NEW j \in 0..(m - 1)
    PROVE  \E i \in 1..m : (h + i - 1) % m = j
  <1>. DEFINE q == h \div m  r == h % m
  <1>1. q \in Nat /\ r \in 0..(m - 1)
    OBVIOUS
  <1>2. h = m * q + r
    OBVIOUS
  <1>. HIDE DEF q, r
  <1>3. CASE r <= j
    <2>1. h + (j - r + 1) - 1 = m * q + j /\ j - r + 1 \in 1..m
      BY <1>1, <1>2, <1>3
    <2>2. (h + (j - r + 1) - 1) % m = j
      BY <1>1, <2>1, Remainder
    <2>. QED
      BY <2>1, <2>2
  <1>4. CASE r > j
    <2>1. h + (j - r + m + 1) - 1 = m * (q + 1) + j /\ j - r + m + 1 \in 1..m
      BY <1>1, <1>2, <1>4
    <2>2. (m * (q + 1) + j) % m = j
      <3>1. q + 1 \in Nat
        BY <1>1
      <3>. QED
        BY <3>1, Remainder
    <2>. QED
      BY <2>1, <2>2
  <1>. QED
    BY <1>1, <1>3, <1>4

\* The slots of a cache of a size
LEMMA SlotsCounted ==
    ASSUME NEW m \in Nat
    PROVE  IsFiniteSet(0..(m - 1)) /\ Cardinality(0..(m - 1)) = m
  <1>1. 0 \in Int /\ m - 1 \in Int
    OBVIOUS
  <1>2. IsFiniteSet(0..(m - 1)) /\ Cardinality(0..(m - 1)) = IF 0 > m - 1 THEN 0 ELSE m - 1 - 0 + 1
    BY <1>1, FS_Interval, Zenon
  <1>. QED
    BY <1>2

\* With a free slot in the cache a walk ends at a slot of it.
LEMMA WalkEnds ==
    ASSUME NEW c, NEW m \in Nat \ {0}, DOMAIN c.entries = 0..(m - 1),
           NEW id \in Id, NEW free \in SUBSET DOMAIN c.entries, free # {}
    PROVE  /\ WalkTo(c, id, free) \in DOMAIN c.entries
           /\ c.entries[WalkTo(c, id, free)].key = id \/ WalkTo(c, id, free) \in free
  <1>. DEFINE h == Hash[id[1]] + id[2]
              w == [i \in 1..m |-> (h + i - 1) % m]
              stops == {i \in DOMAIN w : c.entries[w[i]].key = id \/ w[i] \in free}
  <1>1. h \in Nat
    BY CacheAssumption, BoundAssumption DEF Id
  <1>2. Cardinality(DOMAIN c.entries) = m
    BY SlotsCounted
  <1>3. Walk(c, id) = w
    BY <1>2 DEF Walk
  <1>4. WalkTo(c, id, free) = w[CHOOSE i \in stops : \A j \in stops : i <= j]
    BY <1>3 DEF WalkTo
  <1>5. DOMAIN w = 1..m /\ \A i \in 1..m : w[i] \in 0..(m - 1)
    BY <1>1
  <1>6. stops # {}
    <2>1. PICK j \in 0..(m - 1) : j \in free
      OBVIOUS
    <2>2. PICK i \in 1..m : (h + i - 1) % m = j
      BY <1>1, WalkMeetsAll
    <2>. HIDE DEF h
    <2>3. i \in stops
      BY <2>1, <2>2
    <2>. QED
      BY <2>3
  <1>7. stops \subseteq Nat
    BY <1>5
  <1>. DEFINE i == CHOOSE i \in stops : \A j \in stops : i <= j
  <1>8. i \in stops
    BY <1>6, <1>7, LeastNatural
  <1>. QED
    BY <1>4, <1>5, <1>8

----------------------------------------------------------------------------
(* What is in a cache *)

\* A cache has at least so many slots, and a key only where it has a value.
ShapeInv ==
    \A k \in 2..Len(caches) :
      /\ caches[k].size >= MinCacheSize /\ DOMAIN caches[k].entries = 0..(caches[k].size - 1)
      /\ \A i \in DOMAIN caches[k].entries :
            LET e == caches[k].entries[i]
            IN  e.key # <<>> => e.value \in Class /\ e.key = classid(e.value)

\* A thread that adds is at a slot of its cache, which it has taken from "count" on.
AtInv ==
    \A t \in Thread :
      /\ pc[t] \in {"add", "taken", "count", "key"} =>
            at[t][2] \in DOMAIN caches[at[t][1]].entries
      /\ pc[t] \in {"count", "key"} => entry(t).value = infra[t]

\* The slots in use
Used(c) == {i \in DOMAIN c.entries : c.entries[i].value # NoClass}
\* Threads that may yet use a slot, and those that used one and did not count it
Coming(k) == {t \in Thread : pc[t] \in {"offset", "add"} /\ at[t][1] = k}
Counting(k) == {t \in Thread : pc[t] = "count" /\ at[t][1] = k}

\* The count of a cache lags, and slots in use are bounded with those to come.
RoomInv ==
    \A k \in 2..Len(caches) :
      /\ Cardinality(Used(caches[k])) = caches[k].n + Cardinality(Counting(k))
      /\ 3 * (Cardinality(Used(caches[k])) + Cardinality(Coming(k)))
            < caches[k].size + 3 * Cardinality(Thread)

\* Those are finite sets.
LEMMA FiniteSets ==
    ASSUME RoomToFill, CacheInv, ShapeInv, NEW k \in 2..Len(caches)
    PROVE  /\ IsFiniteSet(Used(caches[k])) /\ Cardinality(Used(caches[k])) \in Nat
           /\ IsFiniteSet(Coming(k)) /\ Cardinality(Coming(k)) \in Nat
           /\ IsFiniteSet(Counting(k)) /\ Cardinality(Counting(k)) \in Nat
           /\ Cardinality(Thread) \in Nat
           /\ caches[k] \in Cache /\ caches[k].size \in Nat /\ caches[k].n \in Nat
  <1>1. caches[k] \in Cache
    BY DEF CacheInv
  <1>2. caches[k].size \in Nat /\ caches[k].n \in Nat
    BY <1>1 DEF Cache
  <1>3. IsFiniteSet(0..(caches[k].size - 1))
    BY <1>2, SlotsCounted
  <1>4. IsFiniteSet(Used(caches[k]))
    BY <1>3, FS_Subset DEF Used, ShapeInv
  <1>5. IsFiniteSet(Coming(k)) /\ IsFiniteSet(Counting(k)) /\ IsFiniteSet(Thread)
    BY FS_Subset DEF Coming, Counting, RoomToFill
  <1>. QED
    BY <1>1, <1>2, <1>4, <1>5, FS_CardinalityType

\* A cache always has a free slot.
LEMMA FreeSlot ==
    ASSUME RoomToFill, CacheInv, ShapeInv, RoomInv, NEW k \in 1..Len(caches)
    PROVE  /\ \E m \in Nat \ {0} : DOMAIN caches[k].entries = 0..(m - 1)
           /\ \E i \in DOMAIN caches[k].entries :
                 HasNoKey(caches[k].entries[i]) /\ HasNoValue(caches[k].entries[i])
  <1>1. CASE k = 1
    <2>1. caches[k] = empty_cache
      BY <1>1 DEF CacheInv
    <2>2. DOMAIN empty_cache.entries = 0..(1 - 1) /\ empty_cache.entries[0] = NoSlot
      BY DEF empty_cache
    <2>. QED
      BY <2>1, <2>2 DEF NoSlot, HasNoKey, HasNoValue
  <1>2. CASE k # 1
    <2>. PICK c : c = caches[k]
      OBVIOUS
    <2>1. k \in 2..Len(caches) /\ caches \in Seq(Cache)
      BY <1>2 DEF CacheInv
    <2>2. /\ c.size >= MinCacheSize /\ DOMAIN c.entries = 0..(c.size - 1) /\ c.size \in Nat
          /\ IsFiniteSet(Used(c)) /\ Cardinality(Used(c)) \in Nat
          /\ Cardinality(Coming(k)) \in Nat /\ Cardinality(Thread) \in Nat
      BY <2>1, FiniteSets DEF ShapeInv
    <2>3. 3 * (Cardinality(Used(c)) + Cardinality(Coming(k))) < c.size + 3 * Cardinality(Thread)
      BY <2>1 DEF RoomInv
    <2>4. 3 * Cardinality(Thread) < 2 * MinCacheSize /\ MinCacheSize \in Nat \ {0}
      BY CacheAssumption DEF RoomToFill
    <2>5. Cardinality(Used(c)) < c.size
      BY <2>2, <2>3, <2>4
    <2>6. Cardinality(0..(c.size - 1)) = c.size
      BY <2>2, SlotsCounted
    <2>7. Used(c) # DOMAIN c.entries
      BY <2>2, <2>5, <2>6
    <2>8. PICK i \in DOMAIN c.entries : c.entries[i].value = NoClass
      BY <2>7 DEF Used
    <2>9. c.entries[i].key = <<>>
      BY <2>1, <2>8, ClassAssumption DEF ShapeInv
    <2>. QED
      BY <2>2, <2>4, <2>8, <2>9 DEF HasNoKey, HasNoValue
  <1>. QED
    BY <1>1, <1>2

\* A probe for a slot to fill ends at a slot of the cache.
LEMMA OffsetIsSlot ==
    ASSUME RoomToFill, CacheInv, ShapeInv, RoomInv, NEW k \in 1..Len(caches), NEW id \in Id
    PROVE  probe_entryoffset(caches[k], id) \in DOMAIN caches[k].entries
  <1>. DEFINE free == {i \in DOMAIN caches[k].entries : HasNoValue(caches[k].entries[i])}
  <1>1. free \subseteq DOMAIN caches[k].entries /\ free # {}
    BY FreeSlot
  <1>2. PICK m \in Nat \ {0} : DOMAIN caches[k].entries = 0..(m - 1)
    BY FreeSlot
  <1>3. WalkTo(caches[k], id, free) \in DOMAIN caches[k].entries
    BY <1>1, <1>2, WalkEnds
  <1>. QED
    BY <1>3 DEF probe_entryoffset

\* A probe for a class finds nobody, or the class in a slot with the key.
LEMMA ProbeIsEntry ==
    ASSUME RoomToFill, CacheInv, ShapeInv, RoomInv, NEW k \in 1..Len(caches), NEW id \in Id,
           probe_infraclass(caches[k], id) # NoClass
    PROVE  \E i \in DOMAIN caches[k].entries :
              /\ caches[k].entries[i].key = id
              /\ probe_infraclass(caches[k], id) = caches[k].entries[i].value
  <1>. DEFINE free == {i \in DOMAIN caches[k].entries : HasNoKey(caches[k].entries[i])}
              o == WalkTo(caches[k], id, free)
  <1>1. free \subseteq DOMAIN caches[k].entries /\ free # {}
    BY FreeSlot
  <1>2. PICK m \in Nat \ {0} : DOMAIN caches[k].entries = 0..(m - 1)
    BY FreeSlot
  <1>3. o \in DOMAIN caches[k].entries
    BY <1>1, <1>2, WalkEnds
  <1>4. probe_infraclass(caches[k], id) =
           IF caches[k].entries[o].key = id THEN caches[k].entries[o].value ELSE NoClass
    BY DEF probe_infraclass
  <1>. QED
    BY <1>3, <1>4

\* The bigger cache, slot by slot
LEMMA SeededShape ==
    ASSUME NEW old \in Cache, NEW c \in Class
    PROVE  /\ Seeded(old, c).size \in Nat \ {0} /\ Seeded(old, c).size >= MinCacheSize
           /\ Seeded(old, c).n = 1
           /\ DOMAIN Seeded(old, c).entries = 0..(Seeded(old, c).size - 1)
           /\ \E o \in DOMAIN Seeded(old, c).entries : \A i \in DOMAIN Seeded(old, c).entries :
                 Seeded(old, c).entries[i] = IF i = o THEN [key |-> classid(c), value |-> c] ELSE NoSlot
  <1>. DEFINE size == IF old.size * 2 < MinCacheSize THEN MinCacheSize ELSE old.size * 2
              new == NewCache(size)
              e == [i \in 0..(size - 1) |-> NoSlot]
              o == probe_entryoffset(new, classid(c))
              s == [key |-> classid(c), value |-> c]
              f == [e EXCEPT ![o] = s]
  <1>1. size \in Nat \ {0} /\ size >= MinCacheSize
    BY CacheAssumption DEF Cache
  <1>2. DOMAIN e = 0..(size - 1) /\ \A i \in 0..(size - 1) : e[i] = NoSlot
    OBVIOUS
  <1>3. new.entries = e
    BY DEF NewCache
  <1>4. Seeded(old, c) = [size |-> size, n |-> 1, entries |-> [new.entries EXCEPT ![o] = s]]
    BY DEF Seeded
  <1>. HIDE DEF size, new, e, s
  <1>5. o \in 0..(size - 1)
    <2>. DEFINE free == {i \in DOMAIN new.entries : HasNoValue(new.entries[i])}
    <2>1. 0 \in free
      BY <1>1, <1>2, <1>3 DEF HasNoValue, NoSlot
    <2>2. WalkTo(new, classid(c), free) \in DOMAIN new.entries
      <3>1. classid(c) \in Id /\ DOMAIN new.entries = 0..(size - 1) /\ free \in SUBSET DOMAIN new.entries
            /\ free # {}
        BY <1>2, <1>3, <2>1, OwnId
      <3>. HIDE DEF free
      <3>. QED
        BY <1>1, <3>1, WalkEnds
    <2>. QED
      BY <1>2, <1>3, <2>2 DEF probe_entryoffset
  <1>. HIDE DEF o
  <1>6. DOMAIN f = 0..(size - 1) /\ \A i \in 0..(size - 1) : f[i] = IF i = o THEN s ELSE NoSlot
    BY <1>2
  <1>7. Seeded(old, c) = [size |-> size, n |-> 1, entries |-> f]
    BY <1>3, <1>4
  <1>. HIDE DEF f
  <1>. QED
    BY <1>1, <1>5, <1>6, <1>7 DEF s

\* Writing one slot of one cache
LEMMA SlotWritten ==
    ASSUME caches \in Seq(Cache), NEW a \in 1..Len(caches), NEW o \in DOMAIN caches[a].entries,
           NEW s \in Slot,
           caches' = [caches EXCEPT ![a] = [caches[a] EXCEPT
                         !.entries = [caches[a].entries EXCEPT ![o] = s]]]
    PROVE  /\ Len(caches') = Len(caches)
           /\ \A k \in 1..Len(caches) :
                 /\ caches'[k].size = caches[k].size /\ caches'[k].n = caches[k].n
                 /\ DOMAIN caches'[k].entries = DOMAIN caches[k].entries
                 /\ \A i \in DOMAIN caches[k].entries :
                       caches'[k].entries[i] = IF k = a /\ i = o THEN s ELSE caches[k].entries[i]
  <1>. PICK c : c = caches[a]
    OBVIOUS
  <1>. DEFINE f == [c.entries EXCEPT ![o] = s]  d == [c EXCEPT !.entries = f]
  <1>0. c \in Cache
    OBVIOUS
  <1>1. c.entries \in Entries
    BY <1>0 DEF Cache
  <1>2. f \in Entries /\ DOMAIN f = DOMAIN c.entries
        /\ \A i \in DOMAIN c.entries : f[i] = IF i = o THEN s ELSE c.entries[i]
    BY <1>1, EntriesWritten
  <1>. HIDE DEF f
  <1>3. d \in Cache /\ d.entries = f /\ d.size = c.size /\ d.n = c.n
    BY <1>0, <1>2 DEF Cache
  <1>4. caches' = [caches EXCEPT ![a] = d]
    BY DEF f
  <1>. HIDE DEF d
  <1>5. Len(caches') = Len(caches) /\ \A k \in 1..Len(caches) : caches'[k] = IF k = a THEN d ELSE caches[k]
    BY <1>3, <1>4, CachesWritten
  <1>. QED
    BY <1>2, <1>3, <1>5

\* A thread takes the free slot it is at,
LEMMA ValueWritten ==
    ASSUME ThreadInv, CacheInv, AtInv, NEW t \in Thread, AddValue(t), HasNoValue(entry(t))
    PROVE  /\ at[t][1] \in 2..Len(caches) /\ infra[t] \in Class
           /\ Len(caches') = Len(caches)
           /\ \A k \in 1..Len(caches) :
                 /\ caches'[k].size = caches[k].size /\ caches'[k].n = caches[k].n
                 /\ DOMAIN caches'[k].entries = DOMAIN caches[k].entries
                 /\ \A i \in DOMAIN caches[k].entries :
                       caches'[k].entries[i] = IF k = at[t][1] /\ i = at[t][2]
                                               THEN [key |-> entry(t).key, value |-> infra[t]]
                                               ELSE caches[k].entries[i]
  <1>a. PICK a : a = at[t][1]
    OBVIOUS
  <1>o. PICK o : o = at[t][2]
    OBVIOUS
  <1>s. PICK s : s = [caches[a].entries[o] EXCEPT !.value = infra[t]]
    OBVIOUS
  <1>1. pc[t] = "add" /\ a \in 1..Len(caches) /\ a # 1 /\ caches \in Seq(Cache)
        /\ infra[t] \in Class /\ o \in DOMAIN caches[a].entries
    BY <1>a, <1>o DEF AddValue, CacheInv, AtInv, ThreadInv, Filling, Adding
  <1>2. caches' = [caches EXCEPT ![a] = [caches[a] EXCEPT
                      !.entries = [caches[a].entries EXCEPT ![o] = s]]]
    BY <1>a, <1>o, <1>s DEF AddValue
  <1>3. caches[a].entries[o] \in Slot /\ entry(t) = caches[a].entries[o]
    <2>1. caches[a] \in Cache
      BY <1>1
    <2>2. caches[a].entries \in Entries
      BY <2>1 DEF Cache
    <2>. QED
      BY <1>a, <1>o, <1>1, <2>2, EntriesAre DEF entry
  <1>4. s \in Slot /\ s = [key |-> entry(t).key, value |-> infra[t]]
    BY <1>s, <1>1, <1>3 DEF Slot
  <1>5. /\ Len(caches') = Len(caches)
        /\ \A k \in 1..Len(caches) :
              /\ caches'[k].size = caches[k].size /\ caches'[k].n = caches[k].n
              /\ DOMAIN caches'[k].entries = DOMAIN caches[k].entries
              /\ \A i \in DOMAIN caches[k].entries :
                    caches'[k].entries[i] = IF k = a /\ i = o THEN s ELSE caches[k].entries[i]
    BY <1>1, <1>2, <1>4, SlotWritten
  <1>6. a \in 2..Len(caches)
    BY <1>1
  <1>. QED
    BY <1>a, <1>o, <1>1, <1>3, <1>4, <1>5, <1>6

\* and writes the key,
LEMMA KeyWritten ==
    ASSUME ThreadInv, CacheInv, AtInv, NEW t \in Thread, AddKey(t)
    PROVE  /\ at[t][1] \in 2..Len(caches) /\ infra[t] \in Class /\ entry(t).value = infra[t]
           /\ Len(caches') = Len(caches)
           /\ \A k \in 1..Len(caches) :
                 /\ caches'[k].size = caches[k].size /\ caches'[k].n = caches[k].n
                 /\ DOMAIN caches'[k].entries = DOMAIN caches[k].entries
                 /\ \A i \in DOMAIN caches[k].entries :
                       caches'[k].entries[i] = IF k = at[t][1] /\ i = at[t][2]
                                               THEN [key |-> classid(infra[t]), value |-> infra[t]]
                                               ELSE caches[k].entries[i]
  <1>a. PICK a : a = at[t][1]
    OBVIOUS
  <1>o. PICK o : o = at[t][2]
    OBVIOUS
  <1>s. PICK s : s = [caches[a].entries[o] EXCEPT !.key = classid(infra[t])]
    OBVIOUS
  <1>1. pc[t] = "key" /\ a \in 1..Len(caches) /\ a # 1 /\ caches \in Seq(Cache)
        /\ infra[t] \in Class /\ o \in DOMAIN caches[a].entries
    BY <1>a, <1>o DEF AddKey, CacheInv, AtInv, ThreadInv, Filling, Adding
  <1>2. caches' = [caches EXCEPT ![a] = [caches[a] EXCEPT
                      !.entries = [caches[a].entries EXCEPT ![o] = s]]]
    BY <1>a, <1>o, <1>s DEF AddKey
  <1>3. caches[a].entries[o] \in Slot /\ entry(t) = caches[a].entries[o]
        /\ entry(t).value = infra[t]
    <2>1. caches[a] \in Cache
      BY <1>1
    <2>2. caches[a].entries \in Entries
      BY <2>1 DEF Cache
    <2>3. entry(t).value = infra[t]
      BY <1>1 DEF AtInv
    <2>. QED
      BY <1>a, <1>o, <1>1, <2>2, <2>3, EntriesAre DEF entry
  <1>4. s \in Slot /\ s = [key |-> classid(infra[t]), value |-> infra[t]]
    <2>1. classid(infra[t]) \in Id
      BY <1>1, OwnId
    <2>. QED
      BY <1>s, <1>1, <1>3, <2>1 DEF Slot
  <1>5. /\ Len(caches') = Len(caches)
        /\ \A k \in 1..Len(caches) :
              /\ caches'[k].size = caches[k].size /\ caches'[k].n = caches[k].n
              /\ DOMAIN caches'[k].entries = DOMAIN caches[k].entries
              /\ \A i \in DOMAIN caches[k].entries :
                    caches'[k].entries[i] = IF k = a /\ i = o THEN s ELSE caches[k].entries[i]
    BY <1>1, <1>2, <1>4, SlotWritten
  <1>6. a \in 2..Len(caches)
    BY <1>1
  <1>. QED
    BY <1>a, <1>o, <1>1, <1>3, <1>4, <1>5, <1>6

\* having counted.
LEMMA CountWritten ==
    ASSUME ThreadInv, CacheInv, NEW t \in Thread, AddCount(t)
    PROVE  /\ at[t][1] \in 2..Len(caches)
           /\ Len(caches') = Len(caches)
           /\ \A k \in 1..Len(caches) :
                 /\ caches'[k].size = caches[k].size /\ caches'[k].entries = caches[k].entries
                 /\ caches'[k].n = IF k = at[t][1] THEN caches[k].n + 1 ELSE caches[k].n
  <1>. PICK a : a = at[t][1]
    OBVIOUS
  <1>. PICK c : c = caches[a]
    OBVIOUS
  <1>. PICK d : d = [c EXCEPT !.n = c.n + 1]
    OBVIOUS
  <1>1. a \in 1..Len(caches) /\ a # 1 /\ caches \in Seq(Cache)
    BY DEF AddCount, CacheInv, Filling, Adding
  <1>2. caches' = [caches EXCEPT ![a] = d]
    BY DEF AddCount
  <1>3. c \in Cache
    BY <1>1
  <1>4. d \in Cache /\ d.size = c.size /\ d.entries = c.entries /\ d.n = c.n + 1
    BY <1>3 DEF Cache
  <1>. QED
    BY <1>1, <1>2, <1>4, CachesWritten

\* A swap adds the bigger cache.
LEMMA SwapWritten ==
    ASSUME ThreadInv, CacheInv, NEW t \in Thread, SwapCaches(t), pivot = at[t][1]
    PROVE  /\ caches \in Seq(Cache) /\ Len(caches) \in Nat \ {0}
           /\ Len(caches') = Len(caches) + 1 /\ pivot' = Len(caches) + 1
           /\ \A k \in 1..Len(caches) : caches'[k] = caches[k]
           /\ infra[t] \in Class
           /\ \E old \in Cache : caches'[Len(caches) + 1] = Seeded(old, infra[t])
  <1>. DEFINE c == Seeded(caches[pivot], infra[t])
  <1>1. infra[t] \in Class /\ caches[pivot] \in Cache /\ caches \in Seq(Cache)
        /\ pivot \in 1..Len(caches) /\ Len(caches) \in Nat
    BY DEF ThreadInv, CacheInv, SwapCaches, Filling
  <1>2. c \in Cache
    BY <1>1, SeededIs
  <1>3. caches' = Append(caches, c) /\ pivot' = Len(caches) + 1
    BY DEF SwapCaches
  <1>. HIDE DEF c
  <1>4. /\ Len(caches') = Len(caches) + 1 /\ caches'[Len(caches) + 1] = c
        /\ \A k \in 1..Len(caches) : caches'[k] = caches[k]
    BY <1>1, <1>2, <1>3, CachesGrown
  <1>. QED
    BY <1>1, <1>3, <1>4 DEF c

\* Which steps write
LEMMA CacheWriters ==
    ASSUME NEW t \in Thread, Runtime(t) \/ Client(t)
    PROVE  \/ UNCHANGED caches
           \/ SwapCaches(t) /\ pivot = at[t][1]
           \/ AddValue(t) /\ HasNoValue(entry(t))
           \/ AddCount(t) \/ AddKey(t)
  <1>1. CASE SwapCaches(t) \/ AddValue(t) \/ AddCount(t) \/ AddKey(t)
    BY <1>1 DEF SwapCaches, AddValue, cache
  <1>2. CASE ~(SwapCaches(t) \/ AddValue(t) \/ AddCount(t) \/ AddKey(t))
    BY <1>2 DEF Runtime, Client, Probe, ReadTable, ClassIsMissing, FillRead, FillCheck, AddProbe,
         AddTaken, RegisterSuper, RegisterIndex, RegisterInsert, Register, Lookup, cache
  <1>. QED
    BY <1>1, <1>2

----------------------------------------------------------------------------
(* What a lookup knows *)

\* where a thread looks a class up
Looking == {"probe", "table", "missing", "fill"} \cup Filling

\* What was wanted under the id, or what was posed away from it
Hit(t, c) == c = wanted[t] \/ <<arg[t], c>> \in victims

\* Who was wanted stays in the table while he is looked for, goes into the cache
\* and is the result.
LookInv ==
    /\ wanted \in [Thread -> Class \cup {NoClass}] /\ result \in [Thread -> Class \cup {NoClass}]
    /\ \A t \in Thread : pc[t] \in Looking => arg[t] \in Id
    /\ \A t \in Thread : pc[t] \in Looking /\ wanted[t] # NoClass => classtable[arg[t]] = wanted[t]
    /\ \A t \in Thread : pc[t] = "missing" => wanted[t] = NoClass
    /\ \A t \in Thread : pc[t] \in Filling \cup {"fill"} => infra[t] = classtable[arg[t]]
    /\ \A t \in Thread : pc[t] \notin Looking /\ wanted[t] # NoClass => Hit(t, result[t])

\* The cache in use, and those that are being filled, hold registered classes.
Live(k) == \A i \in DOMAIN caches[k].entries : caches[k].entries[i].value \in Registered \cup {NoClass}
LiveInv ==
    /\ Live(pivot)
    /\ \A t \in Thread : pc[t] \in Filling => Live(at[t][1])

\* An id is not the key of a free slot.
LEMMA IdIsNoFreeKey ==
    ASSUME NEW id \in Id
    PROVE  id # <<>>
  <1>1. id = <<id[1], id[2]>>
    BY DEF Id
  <1>2. Len(<<id[1], id[2]>>) = 2 /\ Len(<<>>) = 0
    OBVIOUS
  <1>. QED
    BY <1>1, <1>2

\* A step of a thread is its own.
LEMMA OthersStay ==
    ASSUME ThreadInv, ArgInv, LookInv, NEW t \in Thread, Runtime(t) \/ Client(t),
           NEW u \in Thread, u # t
    PROVE  /\ pc'[u] = pc[u] /\ infra'[u] = infra[u] /\ at'[u] = at[u]
           /\ arg'[u] = arg[u] /\ result'[u] = result[u] /\ wanted'[u] = wanted[u]
  <1>. USE DEF ThreadInv, ArgInv, LookInv, Leave, Return, Stay, Goto
  <1>1. CASE Probe(t) \/ ReadTable(t) \/ (\E b \in BOOLEAN : ClassIsMissing(t, b))
    BY <1>1 DEF Probe, ReadTable, ClassIsMissing
  <1>2. CASE FillRead(t) \/ FillCheck(t) \/ SwapCaches(t)
    BY <1>2 DEF FillRead, FillCheck, SwapCaches
  <1>3. CASE AddProbe(t)
    <2>1. PICK o : at' = [at EXCEPT ![t] = o]
      BY <1>3 DEF AddProbe
    <2>. QED
      BY <1>3, <2>1 DEF AddProbe
  <1>4. CASE AddValue(t) \/ AddTaken(t) \/ AddCount(t) \/ AddKey(t)
    BY <1>4 DEF AddValue, AddTaken, AddCount, AddKey
  <1>5. CASE RegisterSuper(t) \/ RegisterIndex(t) \/ RegisterInsert(t)
    BY <1>5 DEF RegisterSuper, RegisterIndex, RegisterInsert
  <1>6. CASE Client(t)
    BY <1>6 DEF Client, Register, Lookup
  <1>. QED
    BY <1>1, <1>2, <1>3, <1>4, <1>5, <1>6 DEF Runtime

\* While a thread is about, the table only grows.
LEMMA TableGrows ==
    ASSUME TableInv, NEW t \in Thread, Runtime(t) \/ Client(t)
    PROVE  /\ victims' = victims
           /\ \A id \in Id : classtable[id] # NoClass => classtable'[id] = classtable[id]
  <1>1. CASE RegisterInsert(t)
    BY <1>1 DEF RegisterInsert, TableInv, history
  <1>2. CASE RegisterSuper(t) \/ RegisterIndex(t) \/ \E c \in Class : Register(t, c)
    BY <1>2 DEF RegisterSuper, RegisterIndex, Register, classes, history
  <1>3. CASE ~RegisterInsert(t) /\ ~(RegisterSuper(t) \/ RegisterIndex(t) \/ \E c \in Class : Register(t, c))
    BY <1>3, TablesKept DEF Runtime, Client
  <1>. QED
    BY <1>1, <1>2, <1>3

\* Caches keep their shape.
LEMMA ShapeStep ==
    ASSUME ThreadInv, CacheInv, ShapeInv, AtInv, Next
    PROVE  ShapeInv'
  <1>. DEFINE Good(e) == e.key # <<>> => e.value \in Class /\ e.key = classid(e.value)
  <1>1. ASSUME NEW t \in Thread, Runtime(t) \/ Client(t) PROVE ShapeInv'
    <2>1. CASE UNCHANGED caches
      BY <2>1 DEF ShapeInv
    <2>2. CASE SwapCaches(t) /\ pivot = at[t][1]
      <3>1. /\ Len(caches) \in Nat \ {0} /\ Len(caches') = Len(caches) + 1
            /\ \A k \in 1..Len(caches) : caches'[k] = caches[k]
            /\ infra[t] \in Class
        BY <2>2, SwapWritten
      <3>2. PICK old \in Cache : caches'[Len(caches) + 1] = Seeded(old, infra[t])
        BY <2>2, SwapWritten
      <3>. PICK new : new = Seeded(old, infra[t])
        OBVIOUS
      <3>3. /\ new.size >= MinCacheSize /\ DOMAIN new.entries = 0..(new.size - 1)
            /\ \E o \in DOMAIN new.entries : \A i \in DOMAIN new.entries :
                  new.entries[i] = IF i = o THEN [key |-> classid(infra[t]), value |-> infra[t]] ELSE NoSlot
        BY <3>1, SeededShape
      <3>4. \A i \in DOMAIN new.entries : Good(new.entries[i])
        BY <3>1, <3>3 DEF NoSlot
      <3>5. ASSUME NEW k \in 2..Len(caches')
            PROVE  /\ caches'[k].size >= MinCacheSize
                   /\ DOMAIN caches'[k].entries = 0..(caches'[k].size - 1)
                   /\ \A i \in DOMAIN caches'[k].entries : Good(caches'[k].entries[i])
        <4>1. CASE k = Len(caches) + 1
          BY <3>2, <3>3, <3>4, <4>1
        <4>2. CASE k # Len(caches) + 1
          <5>1. k \in 2..Len(caches) /\ caches'[k] = caches[k]
            BY <3>1, <4>2
          <5>. QED
            BY <5>1 DEF ShapeInv
        <4>. QED
          BY <4>1, <4>2
      <3>. QED
        BY <3>5 DEF ShapeInv
    <2>3. ASSUME Len(caches') = Len(caches),
                 \A k \in 1..Len(caches) :
                    /\ caches'[k].size = caches[k].size
                    /\ DOMAIN caches'[k].entries = DOMAIN caches[k].entries
                    /\ \A i \in DOMAIN caches[k].entries :
                          Good(caches[k].entries[i]) => Good(caches'[k].entries[i])
          PROVE  ShapeInv'
      <3>. SUFFICES ASSUME NEW k \in 2..Len(caches)
                    PROVE  /\ caches'[k].size >= MinCacheSize
                           /\ DOMAIN caches'[k].entries = 0..(caches'[k].size - 1)
                           /\ \A i \in DOMAIN caches'[k].entries : Good(caches'[k].entries[i])
        BY <2>3 DEF ShapeInv
      <3>1. k \in 1..Len(caches)
        OBVIOUS
      <3>2. \A i \in DOMAIN caches[k].entries : Good(caches[k].entries[i])
        BY DEF ShapeInv
      <3>3. \A i \in DOMAIN caches'[k].entries : Good(caches'[k].entries[i])
        BY <2>3, <3>1, <3>2
      <3>. QED
        BY <2>3, <3>1, <3>3 DEF ShapeInv
    <2>4. CASE AddValue(t) /\ HasNoValue(entry(t))
      <3>. PICK s : s = [key |-> entry(t).key, value |-> infra[t]]
        OBVIOUS
      <3>1. entry(t).key = <<>>
        <4>1. at[t][1] \in 2..Len(caches)
          BY <2>4, ValueWritten
        <4>2. at[t][2] \in DOMAIN caches[at[t][1]].entries
          BY <2>4 DEF AtInv, AddValue
        <4>3. Good(entry(t))
          BY <4>1, <4>2 DEF ShapeInv, entry
        <4>. QED
          BY <2>4, <4>3, ClassAssumption DEF HasNoValue
      <3>2. Good(s)
        BY <3>1
      <3>4. /\ Len(caches') = Len(caches)
            /\ \A k \in 1..Len(caches) :
                  /\ caches'[k].size = caches[k].size
                  /\ DOMAIN caches'[k].entries = DOMAIN caches[k].entries
                  /\ \A i \in DOMAIN caches[k].entries :
                        caches'[k].entries[i] \in {s, caches[k].entries[i]}
        BY <2>4, ValueWritten
      <3>5. \A k \in 1..Len(caches) : \A i \in DOMAIN caches[k].entries :
               Good(caches[k].entries[i]) => Good(caches'[k].entries[i])
        BY <3>2, <3>4
      <3>. QED
        BY <2>3, <3>4, <3>5
    <2>5. CASE AddCount(t)
      <3>1. Len(caches') = Len(caches) /\ \A k \in 1..Len(caches) :
               caches'[k].size = caches[k].size /\ caches'[k].entries = caches[k].entries
        BY <2>5, CountWritten
      <3>. QED
        BY <3>1 DEF ShapeInv
    <2>6. CASE AddKey(t)
      <3>. PICK s : s = [key |-> classid(infra[t]), value |-> infra[t]]
        OBVIOUS
      <3>1. Good(s)
        BY <2>6, KeyWritten
      <3>4. /\ Len(caches') = Len(caches)
            /\ \A k \in 1..Len(caches) :
                  /\ caches'[k].size = caches[k].size
                  /\ DOMAIN caches'[k].entries = DOMAIN caches[k].entries
                  /\ \A i \in DOMAIN caches[k].entries :
                        caches'[k].entries[i] \in {s, caches[k].entries[i]}
        BY <2>6, KeyWritten
      <3>5. \A k \in 1..Len(caches) : \A i \in DOMAIN caches[k].entries :
               Good(caches[k].entries[i]) => Good(caches'[k].entries[i])
        BY <3>1, <3>4
      <3>. QED
        BY <2>3, <3>4, <3>5
    <2>. QED
      BY <1>1, <2>1, <2>2, <2>4, <2>5, <2>6, CacheWriters
  <1>2. ASSUME NEW c \in Class, Remove(c) \/ Pose(c) PROVE ShapeInv'
    BY <1>2 DEF Remove, InvalidateClasscache, Pose, cache, ShapeInv
  <1>. QED
    BY <1>1, <1>2 DEF Next

\* Slots stay, and so does the value of a slot in use.
LEMMA ValuesKept ==
    ASSUME ThreadInv, CacheInv, AtInv, NEW t \in Thread, Runtime(t) \/ Client(t)
    PROVE  /\ Len(caches) \in Nat /\ Len(caches') \in {Len(caches), Len(caches) + 1}
           /\ \A k \in 1..Len(caches) :
                 /\ caches'[k].size = caches[k].size
                 /\ DOMAIN caches'[k].entries = DOMAIN caches[k].entries
                 /\ \A i \in DOMAIN caches[k].entries :
                       caches[k].entries[i].value # NoClass =>
                           caches'[k].entries[i].value = caches[k].entries[i].value
  <1>0. Len(caches) \in Nat
    BY DEF CacheInv
  <1>1. CASE UNCHANGED caches
    BY <1>0, <1>1
  <1>2. CASE SwapCaches(t) /\ pivot = at[t][1]
    BY <1>0, <1>2, SwapWritten
  <1>3. CASE AddValue(t) /\ HasNoValue(entry(t))
    <2>1. entry(t).value = NoClass
      BY <1>3 DEF HasNoValue
    <2>. QED
      BY <1>0, <1>3, <2>1, ValueWritten DEF entry
  <1>4. CASE AddCount(t)
    BY <1>0, <1>4, CountWritten
  <1>5. CASE AddKey(t)
    <2>. PICK s : s = [key |-> classid(infra[t]), value |-> infra[t]]
      OBVIOUS
    <2>1. s.value = infra[t] /\ caches[at[t][1]].entries[at[t][2]].value = infra[t]
      BY <1>5, KeyWritten DEF entry
    <2>2. /\ Len(caches') = Len(caches)
          /\ \A k \in 1..Len(caches) :
                /\ caches'[k].size = caches[k].size
                /\ DOMAIN caches'[k].entries = DOMAIN caches[k].entries
                /\ \A i \in DOMAIN caches[k].entries :
                      caches'[k].entries[i] = IF k = at[t][1] /\ i = at[t][2] THEN s
                                              ELSE caches[k].entries[i]
      BY <1>5, KeyWritten
    <2>. QED
      BY <1>0, <2>1, <2>2
  <1>. QED
    BY <1>1, <1>2, <1>3, <1>4, <1>5, CacheWriters

\* Where a thread gets to a slot
LEMMA SlotSteps ==
    ASSUME ThreadInv, NEW t \in Thread, Runtime(t) \/ Client(t),
           pc'[t] \in {"add", "taken", "count", "key"}
    PROVE  AddProbe(t) \/ AddValue(t) \/ AddCount(t)
  <1>. USE DEF ThreadInv, Leave, Return, Stay, Goto
  <1>1. CASE Probe(t) \/ ReadTable(t) \/ (\E b \in BOOLEAN : ClassIsMissing(t, b))
    BY <1>1 DEF Probe, ReadTable, ClassIsMissing
  <1>2. CASE FillRead(t) \/ FillCheck(t) \/ SwapCaches(t)
    BY <1>2 DEF FillRead, FillCheck, SwapCaches
  <1>3. CASE AddTaken(t) \/ AddKey(t)
    BY <1>3 DEF AddTaken, AddKey
  <1>4. CASE RegisterSuper(t) \/ RegisterIndex(t) \/ RegisterInsert(t)
    BY <1>4 DEF RegisterSuper, RegisterIndex, RegisterInsert
  <1>5. CASE Client(t)
    BY <1>5 DEF Client, Register, Lookup
  <1>. QED
    BY <1>1, <1>2, <1>3, <1>4, <1>5 DEF Runtime

\* A thread that adds is at its slot.
LEMMA AtStep ==
    ASSUME RoomToFill, ThreadInv, ArgInv, LookInv, CacheInv, ShapeInv, RoomInv, AtInv, Next
    PROVE  AtInv'
  <1>1. ASSUME NEW t \in Thread, Runtime(t) \/ Client(t) PROVE AtInv'
    <2>. DEFINE At(u) ==
           /\ pc[u] \in {"add", "taken", "count", "key"} =>
                 at[u][2] \in DOMAIN caches[at[u][1]].entries
           /\ pc[u] \in {"count", "key"} => caches[at[u][1]].entries[at[u][2]].value = infra[u]
    <2>1. ASSUME NEW u \in Thread, u # t PROVE At(u)'
      <3>. SUFFICES ASSUME pc'[u] \in {"add", "taken", "count", "key"} PROVE At(u)'
        OBVIOUS
      <3>1. pc'[u] = pc[u] /\ at'[u] = at[u] /\ infra'[u] = infra[u]
        BY <1>1, <2>1, OthersStay
      <3>. PICK k : k = at[u][1]
        OBVIOUS
      <3>2. k \in 1..Len(caches) /\ At(u) /\ infra[u] \in Class
        BY <3>1 DEF CacheInv, AtInv, entry, Adding, Filling, ThreadInv
      <3>3. /\ DOMAIN caches'[k].entries = DOMAIN caches[k].entries
            /\ \A i \in DOMAIN caches[k].entries :
                  caches[k].entries[i].value # NoClass =>
                      caches'[k].entries[i].value = caches[k].entries[i].value
        BY <1>1, <3>2, ValuesKept
      <3>. QED
        BY <3>1, <3>2, <3>3, ClassAssumption
    <2>2. At(t)'
      <3>1. CASE AddProbe(t)
        <4>. DEFINE o == probe_entryoffset(caches[at[t][1]], classid(infra[t]))
        <4>1. at' = [at EXCEPT ![t] = <<at[t][1], o>>] /\ caches' = caches /\ pc' = [pc EXCEPT ![t] = "add"]
              /\ pc[t] = "offset"
          BY <3>1 DEF AddProbe, Goto, cache
        <4>2. at[t][1] \in 1..Len(caches) /\ classid(infra[t]) \in Id
          BY <4>1, OwnId DEF CacheInv, Adding, Filling, ThreadInv
        <4>3. o \in DOMAIN caches[at[t][1]].entries
          BY <4>2, OffsetIsSlot
        <4>. HIDE DEF o
        <4>. QED
          BY <4>1, <4>3 DEF ThreadInv
      <3>2. CASE AddValue(t) /\ HasNoValue(entry(t))
        <4>. PICK k : k = at[t][1]
          OBVIOUS
        <4>. PICK o : o = at[t][2]
          OBVIOUS
        <4>1. at' = at /\ infra' = infra /\ pc[t] = "add" /\ k \in 1..Len(caches)
              /\ o \in DOMAIN caches[k].entries
          BY <3>2 DEF AddValue, AtInv, CacheInv, Adding, Filling
        <4>2. /\ DOMAIN caches'[k].entries = DOMAIN caches[k].entries
              /\ caches'[k].entries[o] = [key |-> entry(t).key, value |-> infra[t]]
          BY <3>2, <4>1, ValueWritten
        <4>3. caches'[k].entries[o].value = infra[t]
          BY <4>2
        <4>. QED
          BY <4>1, <4>2, <4>3
      <3>3. CASE AddValue(t) /\ ~HasNoValue(entry(t))
        <4>1. UNCHANGED <<at, infra, caches>> /\ pc[t] = "add" /\ pc'[t] = "taken"
          BY <3>3 DEF AddValue, Goto, ThreadInv
        <4>. QED
          BY <4>1 DEF AtInv
      <3>4. CASE AddCount(t)
        <4>. PICK k : k = at[t][1]
          OBVIOUS
        <4>1. at' = at /\ infra' = infra /\ pc[t] = "count" /\ k \in 1..Len(caches)
          BY <3>4 DEF AddCount, CacheInv, Adding, Filling
        <4>2. caches'[k].entries = caches[k].entries
          BY <3>4, <4>1, CountWritten
        <4>3. At(t)
          BY DEF AtInv, entry
        <4>. QED
          BY <4>1, <4>2, <4>3
      <3>. QED
        BY <1>1, <3>1, <3>2, <3>3, <3>4, SlotSteps
    <2>. QED
      BY <2>1, <2>2 DEF AtInv, entry
  <1>2. ASSUME NEW c \in Class, Remove(c) \/ Pose(c) PROVE AtInv'
    BY <1>2 DEF Remove, InvalidateClasscache, Pose, cache, locals, Alone, AtInv
  <1>. QED
    BY <1>1, <1>2 DEF Next

\* Indices start with -1.
IndexInv == \A c \in Class : indexof[c] >= -1

\* An index is one that was given out.
LEMMA IndexStep ==
    ASSUME ThreadInv, TableInv, IndexInv, Next
    PROVE  IndexInv'
  <1>1. ASSUME NEW t \in Thread, Runtime(t) \/ Client(t) PROVE IndexInv'
    <2>1. CASE RegisterIndex(t)
      BY <2>1 DEF RegisterIndex, ThreadInv, TableInv, IndexInv, Registering
    <2>2. CASE RegisterSuper(t) \/ RegisterInsert(t) \/ \E c \in Class : Register(t, c)
      BY <2>2 DEF RegisterSuper, RegisterInsert, Register, classes, IndexInv
    <2>3. CASE ~RegisterIndex(t) /\ ~(RegisterSuper(t) \/ RegisterInsert(t) \/ \E c \in Class : Register(t, c))
      BY <1>1, <2>3, TablesKept DEF Runtime, Client, IndexInv
    <2>. QED
      BY <2>1, <2>2, <2>3
  <1>2. ASSUME NEW c \in Class, Remove(c) \/ Pose(c) PROVE IndexInv'
    <2>1. indexof' = indexof \/ indexof' = [indexof EXCEPT ![c] = classindex]
      BY <1>2 DEF Remove, Pose
    <2>. QED
      BY <2>1 DEF TableInv, IndexInv
  <1>. QED
    BY <1>1, <1>2 DEF Next

----------------------------------------------------------------------------
(* Counting *)

\* Threads that may yet use a slot: FillCheck joins, AddValue leaves.
LEMMA ComingStep ==
    ASSUME ThreadInv, ArgInv, LookInv, NEW t \in Thread, Runtime(t) \/ Client(t), NEW k
    PROVE  Coming(k)' = IF FillCheck(t) /\ ~should_grow(caches[at[t][1]]) /\ k = at[t][1]
                        THEN Coming(k) \cup {t}
                        ELSE IF AddValue(t) /\ k = at[t][1] THEN Coming(k) \ {t} ELSE Coming(k)
  <1>1. ASSUME NEW u \in Thread, u # t
        PROVE  u \in Coming(k)' <=> u \in Coming(k)
    BY <1>1, OthersStay DEF Coming
  <1>2. CASE FillCheck(t)
    BY <1>1, <1>2 DEF FillCheck, AddValue, Coming, Goto, ThreadInv
  <1>3. CASE AddValue(t)
    BY <1>1, <1>3 DEF FillCheck, AddValue, Coming, Goto, ThreadInv
  <1>4. CASE AddProbe(t)
    <2>1. PICK o : at' = [at EXCEPT ![t] = <<at[t][1], o>>]
      BY <1>4 DEF AddProbe
    <2>2. pc[t] = "offset" /\ pc'[t] = "add" /\ at'[t][1] = at[t][1]
      BY <1>4, <2>1 DEF AddProbe, Goto, ThreadInv
    <2>. QED
      BY <1>1, <2>2 DEF FillCheck, AddValue, Coming
  <1>5. CASE ~FillCheck(t) /\ ~AddValue(t) /\ ~AddProbe(t)
    <2>1. pc[t] \notin {"offset", "add"} /\ pc'[t] \notin {"offset", "add"}
      <3>. USE DEF ThreadInv, Leave, Return, Stay, Goto
      <3>1. CASE Probe(t) \/ ReadTable(t) \/ (\E b \in BOOLEAN : ClassIsMissing(t, b))
        BY <3>1 DEF Probe, ReadTable, ClassIsMissing
      <3>2. CASE FillRead(t) \/ SwapCaches(t)
        BY <3>2 DEF FillRead, SwapCaches
      <3>3. CASE AddTaken(t) \/ AddCount(t) \/ AddKey(t)
        BY <3>3 DEF AddTaken, AddCount, AddKey
      <3>4. CASE RegisterSuper(t) \/ RegisterIndex(t) \/ RegisterInsert(t)
        BY <3>4 DEF RegisterSuper, RegisterIndex, RegisterInsert
      <3>5. CASE Client(t)
        BY <3>5 DEF Client, Register, Lookup
      <3>. QED
        BY <1>5, <3>1, <3>2, <3>3, <3>4, <3>5 DEF Runtime
    <2>. QED
      BY <1>1, <1>5, <2>1 DEF Coming
  <1>. QED
    BY <1>2, <1>3, <1>4, <1>5

\* Threads that used a slot and did not count it: AddValue joins, AddCount leaves.
LEMMA CountingStep ==
    ASSUME ThreadInv, ArgInv, LookInv, NEW t \in Thread, Runtime(t) \/ Client(t), NEW k
    PROVE  Counting(k)' = IF AddValue(t) /\ HasNoValue(entry(t)) /\ k = at[t][1]
                          THEN Counting(k) \cup {t}
                          ELSE IF AddCount(t) /\ k = at[t][1] THEN Counting(k) \ {t} ELSE Counting(k)
  <1>1. ASSUME NEW u \in Thread, u # t
        PROVE  u \in Counting(k)' <=> u \in Counting(k)
    BY <1>1, OthersStay DEF Counting
  <1>2. CASE AddValue(t)
    BY <1>1, <1>2 DEF AddValue, AddCount, Counting, Goto, ThreadInv
  <1>3. CASE AddCount(t)
    BY <1>1, <1>3 DEF AddValue, AddCount, Counting, Goto, ThreadInv
  <1>4. CASE ~AddValue(t) /\ ~AddCount(t)
    <2>1. pc[t] # "count" /\ pc'[t] # "count"
      <3>. USE DEF ThreadInv, Leave, Return, Stay, Goto
      <3>1. CASE Probe(t) \/ ReadTable(t) \/ (\E b \in BOOLEAN : ClassIsMissing(t, b))
        BY <3>1 DEF Probe, ReadTable, ClassIsMissing
      <3>2. CASE FillRead(t) \/ FillCheck(t) \/ SwapCaches(t) \/ AddProbe(t)
        BY <3>2 DEF FillRead, FillCheck, SwapCaches, AddProbe
      <3>3. CASE AddTaken(t) \/ AddKey(t)
        BY <3>3 DEF AddTaken, AddKey
      <3>4. CASE RegisterSuper(t) \/ RegisterIndex(t) \/ RegisterInsert(t)
        BY <3>4 DEF RegisterSuper, RegisterIndex, RegisterInsert
      <3>5. CASE Client(t)
        BY <3>5 DEF Client, Register, Lookup
      <3>. QED
        BY <1>4, <3>1, <3>2, <3>3, <3>4, <3>5 DEF Runtime
    <2>. QED
      BY <1>1, <1>4, <2>1 DEF Counting
  <1>. QED
    BY <1>2, <1>3, <1>4

\* Past the check of the fill rate there is a slot for every thread.
LEMMA CheckLeavesRoom ==
    ASSUME RoomToFill, CacheInv, ShapeInv, RoomInv, NEW t \in Thread, NEW k \in 2..Len(caches),
           pc[t] = "grow?", ~should_grow(caches[k])
    PROVE  3 * (Cardinality(Used(caches[k])) + Cardinality(Coming(k) \cup {t}))
              < caches[k].size + 3 * Cardinality(Thread)
  <1>. DEFINE P == Coming(k) \cup {t}  C == Counting(k)
  <1>1. P \cap C = {} /\ P \cup C \subseteq Thread
    BY DEF Coming, Counting
  <1>2. IsFiniteSet(P) /\ IsFiniteSet(C)
    BY FiniteSets, FS_AddElement
  <1>3. Cardinality(P) \in Nat /\ Cardinality(C) \in Nat /\ Cardinality(Thread) \in Nat
    BY <1>2, FiniteSets, FS_CardinalityType
  <1>4. Cardinality(P) + Cardinality(C) <= Cardinality(Thread)
    <2>. HIDE DEF P, C
    <2>1. Cardinality(P \cup C) = Cardinality(P) + Cardinality(C) - Cardinality(P \cap C)
      BY <1>2, FS_Union
    <2>2. Cardinality(P \cap C) = 0
      BY <1>1, FS_EmptySet
    <2>3. Cardinality(P \cup C) <= Cardinality(Thread)
      BY <1>1, FS_Subset DEF RoomToFill
    <2>. QED
      BY <1>3, <2>1, <2>2, <2>3
  <1>5. Cardinality(Used(caches[k])) = caches[k].n + Cardinality(C)
    BY DEF RoomInv
  <1>6. caches[k].n \in Nat /\ caches[k].size \in Nat /\ caches[k].n * 3 < caches[k].size
    BY FiniteSets DEF should_grow
  <1>. HIDE DEF P, C
  <1>7. 3 * (Cardinality(Used(caches[k])) + Cardinality(P)) < caches[k].size + 3 * Cardinality(Thread)
    BY <1>3, <1>4, <1>5, <1>6
  <1>. QED
    BY <1>7 DEF P

\* The slots in use, which only AddValue adds to
LEMMA UsedStep ==
    ASSUME ThreadInv, CacheInv, AtInv, NEW t \in Thread, Runtime(t) \/ Client(t),
           NEW k \in 1..Len(caches)
    PROVE  /\ Used(caches'[k]) = IF AddValue(t) /\ HasNoValue(entry(t)) /\ k = at[t][1]
                                 THEN Used(caches[k]) \cup {at[t][2]} ELSE Used(caches[k])
           /\ AddValue(t) /\ HasNoValue(entry(t)) /\ k = at[t][1] => at[t][2] \notin Used(caches[k])
           /\ caches'[k].n = IF AddCount(t) /\ k = at[t][1] THEN caches[k].n + 1 ELSE caches[k].n
  <1>1. CASE UNCHANGED caches
    <2>1. ~(AddValue(t) /\ HasNoValue(entry(t))) /\ ~AddCount(t)
      <3>1. CASE AddValue(t) /\ HasNoValue(entry(t))
        <4>. PICK o : o = at[t][2]
          OBVIOUS
        <4>. PICK a : a = at[t][1]
          OBVIOUS
        <4>1. a \in 1..Len(caches) /\ o \in DOMAIN caches[a].entries /\ infra[t] \in Class
          <5>1. a \in 2..Len(caches) /\ infra[t] \in Class
            BY <3>1, ValueWritten
          <5>2. o \in DOMAIN caches[a].entries
            BY <3>1 DEF AtInv, AddValue
          <5>. QED
            BY <5>1, <5>2 DEF CacheInv
        <4>2. caches'[a].entries[o] = [key |-> entry(t).key, value |-> infra[t]]
          BY <3>1, <4>1, ValueWritten
        <4>3. caches'[a].entries[o].value = infra[t]
          BY <4>2
        <4>4. caches[a].entries[o].value = NoClass
          BY <3>1 DEF HasNoValue, entry
        <4>. QED
          BY <1>1, <4>1, <4>3, <4>4, ClassAssumption
      <3>2. CASE AddCount(t)
        <4>. PICK a : a = at[t][1]
          OBVIOUS
        <4>1. a \in 1..Len(caches) /\ caches'[a].n = caches[a].n + 1
          BY <3>2, CountWritten
        <4>2. caches[a] \in Cache
          BY <4>1 DEF CacheInv
        <4>3. caches[a].n \in Nat
          BY <4>2 DEF Cache
        <4>. QED
          BY <1>1, <4>1, <4>3
      <3>. QED
        BY <3>1, <3>2
    <2>. QED
      BY <1>1, <2>1
  <1>2. CASE SwapCaches(t) /\ pivot = at[t][1]
    <2>1. caches'[k] = caches[k]
      BY <1>2, SwapWritten
    <2>. QED
      BY <1>2, <2>1 DEF SwapCaches, AddValue, AddCount
  <1>3. CASE AddValue(t) /\ HasNoValue(entry(t))
    <2>1. ~AddCount(t)
      BY <1>3 DEF AddValue, AddCount
    <2>. PICK a : a = at[t][1]
      OBVIOUS
    <2>. PICK o : o = at[t][2]
      OBVIOUS
    <2>2. caches'[k].n = caches[k].n /\ DOMAIN caches'[k].entries = DOMAIN caches[k].entries
          /\ \A i \in DOMAIN caches[k].entries :
                caches'[k].entries[i] = IF k = a /\ i = o THEN [key |-> entry(t).key, value |-> infra[t]]
                                        ELSE caches[k].entries[i]
      BY <1>3, ValueWritten
    <2>3. \A i \in DOMAIN caches[k].entries :
             caches'[k].entries[i].value = IF k = a /\ i = o THEN infra[t] ELSE caches[k].entries[i].value
      BY <2>2
    <2>4. infra[t] # NoClass /\ caches[a].entries[o].value = NoClass
      BY <1>3, ValueWritten, ClassAssumption DEF HasNoValue, entry
    <2>5. o \in DOMAIN caches[a].entries
      BY <1>3 DEF AtInv, AddValue
    <2>6. k = a => Used(caches'[k]) = Used(caches[k]) \cup {o} /\ o \notin Used(caches[k])
      BY <2>2, <2>3, <2>4, <2>5 DEF Used
    <2>7. k # a => Used(caches'[k]) = Used(caches[k])
      BY <2>2, <2>3 DEF Used
    <2>. QED
      BY <1>3, <2>1, <2>2, <2>6, <2>7
  <1>4. CASE AddCount(t)
    <2>1. caches'[k].entries = caches[k].entries
          /\ caches'[k].n = IF k = at[t][1] THEN caches[k].n + 1 ELSE caches[k].n
      BY <1>4, CountWritten
    <2>. QED
      BY <1>4, <2>1 DEF Used, AddValue, AddCount
  <1>5. CASE AddKey(t)
    <2>1. ~AddValue(t) /\ ~AddCount(t)
      BY <1>5 DEF AddKey, AddValue, AddCount
    <2>2. DOMAIN caches'[k].entries = DOMAIN caches[k].entries /\ caches'[k].n = caches[k].n
      BY <1>5, KeyWritten
    <2>3. \A i \in DOMAIN caches[k].entries : caches'[k].entries[i].value = caches[k].entries[i].value
      <3>. PICK s : s = [key |-> classid(infra[t]), value |-> infra[t]]
        OBVIOUS
      <3>1. s.value = infra[t] /\ caches[at[t][1]].entries[at[t][2]].value = infra[t]
        BY <1>5, KeyWritten DEF entry
      <3>2. \A i \in DOMAIN caches[k].entries :
               caches'[k].entries[i] = IF k = at[t][1] /\ i = at[t][2] THEN s ELSE caches[k].entries[i]
        BY <1>5, KeyWritten
      <3>. QED
        BY <3>1, <3>2
    <2>. QED
      BY <2>1, <2>2, <2>3 DEF Used
  <1>. QED
    BY <1>1, <1>2, <1>3, <1>4, <1>5, CacheWriters

\* Removal and posing find no thread in a cache, and leave the caches alone.
LEMMA AloneKeeps ==
    ASSUME ThreadInv, CacheInv, NEW c \in Class, Remove(c) \/ Pose(c)
    PROVE  /\ UNCHANGED <<caches, pc, infra, at, arg, result, wanted>>
           /\ \A t \in Thread : pc[t] = "idle"
           /\ pivot' \in {1, pivot}
           /\ victims \subseteq victims'
  BY DEF Remove, InvalidateClasscache, Pose, cache, locals, Alone

\* The bounds are kept.
LEMMA RoomStep ==
    ASSUME RoomToFill, ThreadInv, ArgInv, LookInv, CacheInv, ShapeInv, AtInv, RoomInv, Next
    PROVE  RoomInv'
  <1>1. ASSUME NEW t \in Thread, Runtime(t) \/ Client(t) PROVE RoomInv'
    <2>1. ASSUME NEW k \in 2..Len(caches)
          PROVE  /\ Cardinality(Used(caches'[k])) = caches'[k].n + Cardinality(Counting(k)')
                 /\ 3 * (Cardinality(Used(caches'[k])) + Cardinality(Coming(k)'))
                       < caches'[k].size + 3 * Cardinality(Thread)
      <3>u. PICK U : U = Used(caches[k])
        OBVIOUS
      <3>p. PICK P : P = Coming(k)
        OBVIOUS
      <3>c. PICK C : C = Counting(k)
        OBVIOUS
      <3>1. /\ IsFiniteSet(U) /\ IsFiniteSet(P) /\ IsFiniteSet(C)
            /\ Cardinality(U) \in Nat /\ Cardinality(P) \in Nat /\ Cardinality(C) \in Nat
            /\ Cardinality(Thread) \in Nat /\ caches[k].n \in Nat /\ caches[k].size \in Nat
        BY <3>u, <3>p, <3>c, FiniteSets
      <3>2. /\ Cardinality(U) = caches[k].n + Cardinality(C)
            /\ 3 * (Cardinality(U) + Cardinality(P)) < caches[k].size + 3 * Cardinality(Thread)
        BY <3>u, <3>p, <3>c DEF RoomInv
      <3>b. /\ Cardinality(U) + 1 = caches[k].n + (Cardinality(C) + 1)
            /\ Cardinality(U) = (caches[k].n + 1) + (Cardinality(C) - 1)
            /\ 3 * ((Cardinality(U) + 1) + (Cardinality(P) - 1)) < caches[k].size + 3 * Cardinality(Thread)
            /\ 3 * (Cardinality(U) + (Cardinality(P) - 1)) < caches[k].size + 3 * Cardinality(Thread)
        <4>1. PICK u, p, c \in Nat : u = Cardinality(U) /\ p = Cardinality(P) /\ c = Cardinality(C)
          BY <3>1
        <4>2. PICK n, size, all \in Nat : n = caches[k].n /\ size = caches[k].size /\ all = Cardinality(Thread)
          BY <3>1
        <4>3. u = n + c /\ 3 * (u + p) < size + 3 * all
          BY <3>2, <4>1, <4>2
        <4>4. /\ u + 1 = n + (c + 1) /\ u = (n + 1) + (c - 1)
              /\ 3 * ((u + 1) + (p - 1)) < size + 3 * all /\ 3 * (u + (p - 1)) < size + 3 * all
          BY <4>3
        <4>. QED
          BY <4>1, <4>2, <4>4
      <3>3. k \in 1..Len(caches) /\ caches'[k].size = caches[k].size
        BY <1>1, ValuesKept
      <3>4. CASE AddValue(t) /\ k = at[t][1]
        <4>1. /\ ~FillCheck(t) /\ ~AddCount(t) /\ t \in P /\ t \notin C
          BY <3>p, <3>c, <3>4 DEF AddValue, FillCheck, AddCount, Coming, Counting
        <4>2. Coming(k)' = P \ {t} /\ caches'[k].n = caches[k].n
          BY <1>1, <3>u, <3>p, <3>c, <3>3, <3>4, <4>1, ComingStep, UsedStep
        <4>3. Cardinality(P \ {t}) = Cardinality(P) - 1
          BY <3>1, <4>1, FS_RemoveElement
        <4>4. CASE HasNoValue(entry(t))
          <5>1. Counting(k)' = C \cup {t} /\ Used(caches'[k]) = U \cup {at[t][2]} /\ at[t][2] \notin U
            BY <1>1, <3>u, <3>p, <3>c, <3>3, <3>4, <4>1, <4>4, CountingStep, UsedStep
          <5>2. Cardinality(C \cup {t}) = Cardinality(C) + 1
            BY <3>1, <4>1, FS_AddElement
          <5>3. Cardinality(U \cup {at[t][2]}) = Cardinality(U) + 1
            BY <3>1, <5>1, FS_AddElement
          <5>. QED
            BY <3>b, <3>3, <4>2, <4>3, <5>1, <5>2, <5>3
        <4>5. CASE ~HasNoValue(entry(t))
          <5>1. Counting(k)' = C /\ Used(caches'[k]) = U
            BY <1>1, <3>u, <3>p, <3>c, <3>3, <4>1, <4>5, CountingStep, UsedStep
          <5>. QED
            BY <3>b, <3>2, <3>3, <4>2, <4>3, <5>1
        <4>. QED
          BY <4>4, <4>5
      <3>5. CASE AddCount(t) /\ k = at[t][1]
        <4>1. ~FillCheck(t) /\ ~AddValue(t) /\ t \in C
          BY <3>c, <3>5 DEF AddValue, FillCheck, AddCount, Counting
        <4>2. /\ Coming(k)' = P /\ Counting(k)' = C \ {t} /\ Used(caches'[k]) = U
              /\ caches'[k].n = caches[k].n + 1
          BY <1>1, <3>u, <3>p, <3>c, <3>3, <3>5, <4>1, ComingStep, CountingStep, UsedStep
        <4>3. Cardinality(C \ {t}) = Cardinality(C) - 1
          BY <3>1, <4>1, FS_RemoveElement
        <4>. QED
          BY <3>b, <3>2, <3>3, <4>2, <4>3
      <3>6. CASE ~(AddValue(t) /\ k = at[t][1]) /\ ~(AddCount(t) /\ k = at[t][1])
        <4>1. Counting(k)' = C /\ Used(caches'[k]) = U /\ caches'[k].n = caches[k].n
          BY <1>1, <3>u, <3>p, <3>c, <3>3, <3>6, CountingStep, UsedStep
        <4>2. CASE FillCheck(t) /\ ~should_grow(caches[at[t][1]]) /\ k = at[t][1]
          <5>1. Coming(k)' = P \cup {t}
            BY <1>1, <3>u, <3>p, <3>c, <4>2, ComingStep
          <5>2. 3 * (Cardinality(U) + Cardinality(P \cup {t})) < caches[k].size + 3 * Cardinality(Thread)
            BY <3>u, <3>p, <4>2, CheckLeavesRoom DEF FillCheck
          <5>. QED
            BY <3>2, <3>3, <4>1, <5>1, <5>2
        <4>3. CASE ~(FillCheck(t) /\ ~should_grow(caches[at[t][1]]) /\ k = at[t][1])
          <5>1. Coming(k)' = P
            BY <1>1, <3>u, <3>p, <3>c, <3>6, <4>3, ComingStep
          <5>. QED
            BY <3>2, <3>3, <4>1, <5>1
        <4>. QED
          BY <4>2, <4>3
      <3>. QED
        BY <3>4, <3>5, <3>6
    <2>2. ASSUME Len(caches') # Len(caches), NEW k, k = Len(caches) + 1
          PROVE  /\ Cardinality(Used(caches'[k])) = caches'[k].n + Cardinality(Counting(k)')
                 /\ 3 * (Cardinality(Used(caches'[k])) + Cardinality(Coming(k)'))
                       < caches'[k].size + 3 * Cardinality(Thread)
      <3>1. SwapCaches(t) /\ pivot = at[t][1]
        BY <1>1, <2>2, CacheWriters, ValueWritten, CountWritten, KeyWritten
      <3>2. Len(caches) \in Nat /\ Len(caches') = k /\ infra[t] \in Class
        BY <2>2, <3>1, SwapWritten
      <3>3. PICK old \in Cache : caches'[k] = Seeded(old, infra[t])
        BY <2>2, <3>1, SwapWritten
      <3>. PICK new : new = Seeded(old, infra[t])
        OBVIOUS
      <3>4. new.size \in Nat \ {0} /\ new.n = 1
        BY <3>2, SeededShape
      <3>5. PICK o \in DOMAIN new.entries : \A i \in DOMAIN new.entries :
               new.entries[i] = IF i = o THEN [key |-> classid(infra[t]), value |-> infra[t]] ELSE NoSlot
        BY <3>2, SeededShape
      <3>6. \A i \in DOMAIN new.entries : new.entries[i].value = IF i = o THEN infra[t] ELSE NoClass
        BY <3>5 DEF NoSlot
      <3>7. Used(new) = {o}
        BY <3>2, <3>6, ClassAssumption DEF Used
      <3>8. Coming(k) = {} /\ Counting(k) = {}
        BY <2>2, <3>2 DEF Coming, Counting, CacheInv, Filling, Adding
      <3>9. Coming(k)' = {} /\ Counting(k)' = {}
        <4>1. ~FillCheck(t) /\ ~AddValue(t) /\ ~AddCount(t)
          BY <3>1 DEF SwapCaches, FillCheck, AddValue, AddCount
        <4>. QED
          BY <1>1, <3>8, <4>1, ComingStep, CountingStep
      <3>10. Cardinality({o}) = 1 /\ Cardinality({}) = 0
        BY FS_Singleton, FS_EmptySet
      <3>11. Cardinality(Thread) \in Nat /\ Cardinality(Thread) >= 1
        <4>1. IsFiniteSet(Thread) /\ {t} \in SUBSET Thread
          BY DEF RoomToFill
        <4>2. Cardinality({t}) = 1
          BY FS_Singleton
        <4>. QED
          BY <4>1, <4>2, FS_Subset, FS_CardinalityType
      <3>12. Cardinality(Used(caches'[k])) = 1 /\ caches'[k].n = 1 /\ caches'[k].size = new.size
        BY <3>3, <3>4, <3>7, <3>10
      <3>13. 3 * (1 + 0) < new.size + 3 * Cardinality(Thread)
        BY <3>4, <3>11
      <3>. QED
        BY <3>9, <3>10, <3>12, <3>13
    <2>3. Len(caches) \in Nat /\ Len(caches') \in {Len(caches), Len(caches) + 1}
      BY <1>1, ValuesKept
    <2>4. ASSUME NEW k \in 2..Len(caches')
          PROVE  /\ Cardinality(Used(caches'[k])) = caches'[k].n + Cardinality(Counting(k)')
                 /\ 3 * (Cardinality(Used(caches'[k])) + Cardinality(Coming(k)'))
                       < caches'[k].size + 3 * Cardinality(Thread)
      <3>1. CASE k \in 2..Len(caches)
        BY <2>1, <3>1
      <3>2. CASE k \notin 2..Len(caches)
        <4>1. Len(caches') # Len(caches) /\ k = Len(caches) + 1
          BY <2>3, <3>2
        <4>. QED
          BY <2>2, <4>1
      <3>. QED
        BY <3>1, <3>2
    <2>. QED
      BY <2>4 DEF RoomInv
  <1>2. ASSUME NEW c \in Class, Remove(c) \/ Pose(c) PROVE RoomInv'
    <2>1. UNCHANGED <<caches, pc, at>>
      BY <1>2, AloneKeeps
    <2>2. \A k \in 2..Len(caches) : Coming(k)' = Coming(k) /\ Counting(k)' = Counting(k)
      BY <2>1 DEF Coming, Counting
    <2>. QED
      BY <2>1, <2>2 DEF RoomInv
  <1>. QED
    BY <1>1, <1>2 DEF Next

----------------------------------------------------------------------------
(* Finding *)

\* Only registered classes get into a cache.
LEMMA LiveKept ==
    ASSUME PosesOnce, ThreadInv, CacheInv, TableInv, SuperInv, PosedInv, AtInv, LookInv,
           NEW t \in Thread, Runtime(t) \/ Client(t), NEW k \in 1..Len(caches), Live(k)
    PROVE  \A i \in DOMAIN caches'[k].entries : caches'[k].entries[i].value \in Registered' \cup {NoClass}
  <1>1. Registered \subseteq Registered'
    BY RegisteredKept
  <1>. SUFFICES ASSUME NEW i \in DOMAIN caches'[k].entries
                PROVE  caches'[k].entries[i].value \in Registered \cup {NoClass}
    BY <1>1 DEF Live
  <1>2. DOMAIN caches'[k].entries = DOMAIN caches[k].entries
    BY ValuesKept
  <1>3. CASE AddValue(t) /\ HasNoValue(entry(t))
    <2>. PICK s : s = [key |-> entry(t).key, value |-> infra[t]]
      OBVIOUS
    <2>1. caches'[k].entries[i] \in {s, caches[k].entries[i]}
      BY <1>2, <1>3, ValueWritten
    <2>2. infra[t] \in Registered
      <3>1. pc[t] \in Filling
        BY <1>3 DEF AddValue, Filling, Adding
      <3>2. infra[t] = classtable[arg[t]] /\ arg[t] \in Id /\ infra[t] \in Class
        BY <3>1 DEF LookInv, Looking, ThreadInv
      <3>. QED
        BY <3>2 DEF Registered
    <2>. QED
      BY <1>2, <2>1, <2>2 DEF Live
  <1>4. CASE ~(AddValue(t) /\ HasNoValue(entry(t)))
    <2>1. Used(caches'[k]) = Used(caches[k])
      BY <1>4, UsedStep
    <2>2. CASE caches[k].entries[i].value = NoClass
      BY <1>2, <2>1, <2>2 DEF Used
    <2>3. CASE caches[k].entries[i].value # NoClass
      BY <1>2, <2>3, ValuesKept DEF Live
    <2>. QED
      BY <2>2, <2>3
  <1>. QED
    BY <1>3, <1>4

\* The cache in use, and those that are being filled
LEMMA LiveStep ==
    ASSUME PosesOnce, ThreadInv, ArgInv, CacheInv, TableInv, SuperInv, PosedInv, AtInv, LookInv, LiveInv,
           Next
    PROVE  LiveInv'
  <1>1. ASSUME NEW t \in Thread, Runtime(t) \/ Client(t) PROVE LiveInv'
    <2>1. ASSUME NEW u \in Thread, pc'[u] \in Filling, NEW k, k = at'[u][1]
          PROVE  \A i \in DOMAIN caches'[k].entries : caches'[k].entries[i].value \in Registered' \cup {NoClass}
      <3>1. CASE pc[u] \in Filling /\ at'[u][1] = at[u][1]
        <4>1. k \in 1..Len(caches) /\ Live(k)
          BY <2>1, <3>1 DEF CacheInv, LiveInv
        <4>. QED
          BY <1>1, <3>1, <4>1, LiveKept
      <3>2. CASE FillRead(t) /\ u = t
        <4>1. k \in 1..Len(caches) /\ Live(k)
          BY <2>1, <3>2 DEF FillRead, ThreadInv, CacheInv, LiveInv
        <4>. QED
          BY <1>1, <4>1, LiveKept
      <3>3. (pc[u] \in Filling /\ at'[u][1] = at[u][1]) \/ (FillRead(t) /\ u = t)
        <4>1. CASE u # t
          BY <1>1, <2>1, <4>1, OthersStay
        <4>2. CASE u = t
          <5>. USE <2>1, <4>2 DEF ThreadInv, Leave, Return, Stay, Goto, Filling, Adding
          <5>1. CASE Probe(t) \/ ReadTable(t) \/ (\E b \in BOOLEAN : ClassIsMissing(t, b))
            BY <5>1 DEF Probe, ReadTable, ClassIsMissing
          <5>2. CASE FillCheck(t) \/ SwapCaches(t)
            BY <5>2 DEF FillCheck, SwapCaches
          <5>3. CASE AddProbe(t)
            <6>1. PICK o : at' = [at EXCEPT ![t] = <<at[t][1], o>>]
              BY <5>3 DEF AddProbe
            <6>. QED
              BY <5>3, <6>1 DEF AddProbe
          <5>4. CASE AddValue(t) \/ AddTaken(t) \/ AddCount(t) \/ AddKey(t)
            BY <5>4 DEF AddValue, AddTaken, AddCount, AddKey
          <5>5. CASE RegisterSuper(t) \/ RegisterIndex(t) \/ RegisterInsert(t)
            BY <5>5 DEF RegisterSuper, RegisterIndex, RegisterInsert
          <5>6. CASE Client(t)
            BY <5>6 DEF Client, Register, Lookup
          <5>. QED
            BY <1>1, <5>1, <5>2, <5>3, <5>4, <5>5, <5>6 DEF Runtime
        <4>. QED
          BY <4>1, <4>2
      <3>. QED
        BY <3>1, <3>2, <3>3
    <2>2. ASSUME NEW k, k = pivot'
          PROVE  \A i \in DOMAIN caches'[k].entries : caches'[k].entries[i].value \in Registered' \cup {NoClass}
      <3>1. CASE SwapCaches(t) /\ pivot = at[t][1]
        <4>1. pivot' = Len(caches) + 1 /\ infra[t] \in Class
          BY <3>1, SwapWritten
        <4>2. PICK old \in Cache : caches'[Len(caches) + 1] = Seeded(old, infra[t])
          BY <3>1, SwapWritten
        <4>3. \A i \in DOMAIN Seeded(old, infra[t]).entries :
                 Seeded(old, infra[t]).entries[i].value \in {infra[t], NoClass}
          BY <4>1, SeededIs
        <4>4. infra[t] \in Registered
          <5>1. pc[t] \in Filling
            BY <3>1 DEF SwapCaches, Filling
          <5>2. infra[t] = classtable[arg[t]] /\ arg[t] \in Id
            BY <5>1 DEF LookInv, Looking
          <5>. QED
            BY <4>1, <5>2 DEF Registered
        <4>5. Registered' = Registered
          BY <3>1 DEF SwapCaches, classes, Registered
        <4>. QED
          BY <2>2, <4>1, <4>2, <4>3, <4>4, <4>5
      <3>2. CASE pivot' = pivot
        <4>1. k \in 1..Len(caches) /\ Live(k)
          BY <2>2, <3>2 DEF CacheInv, LiveInv
        <4>. QED
          BY <1>1, <3>2, <4>1, LiveKept
      <3>3. (SwapCaches(t) /\ pivot = at[t][1]) \/ pivot' = pivot
        <4>1. CASE SwapCaches(t)
          BY <4>1 DEF SwapCaches, cache
        <4>2. CASE ~SwapCaches(t)
          BY <1>1, <4>2 DEF Runtime, Client, Probe, ReadTable, ClassIsMissing, FillRead, FillCheck, AddProbe,
             AddValue, AddTaken, AddCount, AddKey, RegisterSuper, RegisterIndex, RegisterInsert,
             Register, Lookup, cache
        <4>. QED
          BY <4>1, <4>2
      <3>. QED
        BY <3>1, <3>2, <3>3
    <2>. QED
      BY <2>1, <2>2 DEF LiveInv, Live
  <1>2. ASSUME NEW c \in Class, Remove(c) PROVE LiveInv'
    <2>1. pivot' = 1 /\ caches' = caches /\ caches[1] = empty_cache /\ \A u \in Thread : pc'[u] = "idle"
      BY <1>2 DEF Remove, InvalidateClasscache, CacheInv, locals, Alone
    <2>. QED
      BY <2>1, EmptyCacheIs DEF LiveInv, Live, Filling, Adding
  <1>3. ASSUME NEW c \in Class, Pose(c) PROVE LiveInv'
    <2>1. pivot' = pivot /\ caches' = caches /\ \A u \in Thread : pc'[u] = "idle"
      BY <1>3 DEF Pose, cache, locals, Alone
    <2>2. Registered \subseteq Registered'
      BY <1>3, RegisteredKept
    <2>. QED
      BY <2>1, <2>2 DEF LiveInv, Live, Filling, Adding
  <1>. QED
    BY <1>1, <1>2, <1>3 DEF Next

\* A class that is registered, and has the id that is looked up, is a hit.
LEMMA RegisteredHits ==
    ASSUME TableInv, PosedInv, LookInv, NEW t \in Thread, pc[t] \in Looking,
           NEW c \in Registered, classid(c) = arg[t], wanted[t] # NoClass
    PROVE  Hit(t, c)
  BY OwnIdFinds DEF LookInv, Hit

\* What one thread knows
Knows(t) ==
    /\ pc[t] \in Looking => arg[t] \in Id
    /\ pc[t] \in Looking /\ wanted[t] # NoClass => classtable[arg[t]] = wanted[t]
    /\ pc[t] = "missing" => wanted[t] = NoClass
    /\ pc[t] \in Filling \cup {"fill"} => infra[t] = classtable[arg[t]]
    /\ pc[t] \notin Looking /\ wanted[t] # NoClass => Hit(t, result[t])

\* A step of a thread leaves what the others know alone.
LEMMA OthersKnow ==
    ASSUME ThreadInv, ArgInv, TableInv, LookInv, NEW t \in Thread, Runtime(t) \/ Client(t),
           wanted' \in [Thread -> Class \cup {NoClass}], result' \in [Thread -> Class \cup {NoClass}],
           Knows(t)'
    PROVE  LookInv'
  <1>1. ASSUME NEW u \in Thread, u # t PROVE Knows(u)'
    <2>1. /\ pc'[u] = pc[u] /\ infra'[u] = infra[u]
          /\ arg'[u] = arg[u] /\ result'[u] = result[u] /\ wanted'[u] = wanted[u]
      BY <1>1, OthersStay
    <2>2. victims' = victims /\ \A id \in Id : classtable[id] # NoClass => classtable'[id] = classtable[id]
      BY TableGrows
    <2>3. Knows(u)
      BY DEF LookInv, Knows
    <2>4. pc[u] \in Filling \cup {"fill"} => infra[u] # NoClass /\ arg[u] \in Id
      BY <2>3, ClassAssumption DEF ThreadInv, Knows, Looking
    <2>. QED
      BY <2>1, <2>2, <2>3, <2>4 DEF Knows, Hit
  <1>. QED
    BY <1>1 DEF LookInv, Knows

\* A thread that returns a hit
LEMMA ReturnKnows ==
    ASSUME ThreadInv, ArgInv, TableInv, LookInv, NEW t \in Thread, Runtime(t),
           NEW c \in Class \cup {NoClass}, Return(t, c), wanted[t] # NoClass => Hit(t, c),
           UNCHANGED <<arg, wanted, victims>>
    PROVE  LookInv'
  <1>1. pc'[t] = "idle" /\ result'[t] = c /\ result' \in [Thread -> Class \cup {NoClass}]
    BY DEF Return, Leave, Goto, ThreadInv, LookInv
  <1>2. Knows(t)'
    BY <1>1 DEF Knows, Looking, Filling, Adding, Hit
  <1>3. wanted' \in [Thread -> Class \cup {NoClass}]
    BY DEF LookInv
  <1>. QED
    BY <1>1, <1>2, <1>3, OthersKnow

\* A thread that goes on
LEMMA StayKnows ==
    ASSUME ThreadInv, ArgInv, TableInv, LookInv, NEW t \in Thread, Runtime(t),
           UNCHANGED <<classtable, arg, wanted, result, victims>>,
           pc[t] \in Looking, pc'[t] \in Looking, pc'[t] = "missing" => wanted[t] = NoClass,
           pc'[t] \in Filling \cup {"fill"} => infra'[t] = classtable[arg[t]]
    PROVE  LookInv'
  <1>1. Knows(t)'
    BY DEF Knows, LookInv
  <1>2. wanted' \in [Thread -> Class \cup {NoClass}] /\ result' \in [Thread -> Class \cup {NoClass}]
    BY DEF LookInv
  <1>. QED
    BY <1>1, <1>2, OthersKnow

\* A thread that registers
LEMMA RegisterKnows ==
    ASSUME ThreadInv, ArgInv, TableInv, LookInv, NEW t \in Thread,
           RegisterSuper(t) \/ RegisterIndex(t) \/ RegisterInsert(t) \/ \E c \in Class : Register(t, c)
    PROVE  LookInv'
  <1>1. UNCHANGED <<arg, result, wanted, victims>>
    BY CachesKept
  <1>2. pc[t] \notin Looking /\ pc'[t] \notin Looking
    <2>1. CASE RegisterSuper(t)
      BY <2>1 DEF RegisterSuper, Leave, Stay, Goto, ThreadInv, Looking, Filling, Adding
    <2>2. CASE RegisterIndex(t) \/ RegisterInsert(t) \/ \E c \in Class : Register(t, c)
      BY <2>2 DEF RegisterIndex, RegisterInsert, Register, Leave, Goto, ThreadInv, Looking, Filling, Adding
    <2>. QED
      BY <2>1, <2>2
  <1>3. Knows(t)'
    BY <1>1, <1>2 DEF Knows, LookInv, Hit, Looking
  <1>4. wanted' \in [Thread -> Class \cup {NoClass}] /\ result' \in [Thread -> Class \cup {NoClass}]
    BY <1>1 DEF LookInv
  <1>. QED
    BY <1>3, <1>4, OthersKnow DEF Runtime, Client

\* A lookup begins: fast classes are found in their table.
LEMMA LookupKnows ==
    ASSUME ThreadInv, ArgInv, TableInv, LookInv, FastInv, NEW t \in Thread,
           NEW id \in LookupId, Lookup(t, id)
    PROVE  LookInv'
  <1>0. id \in Id /\ classtable[id] \in Class \cup {NoClass}
    BY LookupAssumption DEF TableInv
  <1>1. /\ arg'[t] = id /\ wanted'[t] = classtable[id]
        /\ wanted' \in [Thread -> Class \cup {NoClass}] /\ classtable' = classtable
    BY <1>0 DEF Lookup, ArgInv, LookInv, classes
  <1>2. CASE id \in FastId
    <2>1. PICK n \in DOMAIN FastIndex : id = <<n, 0>>
      BY <1>2 DEF FastId
    <2>. PICK c : c = fastclasstable[FastIndex[n]]
      OBVIOUS
    <2>2. c \in Class \cup {NoClass}
      BY DEF FastInv, FastSlot
    <2>3. classtable[id] # NoClass => c = classtable[id]
      <3>. SUFFICES ASSUME classtable[id] # NoClass PROVE c = classtable[id]
        OBVIOUS
      <3>1. NameOf[classtable[id]] = n
        BY <1>0, <1>2, <2>1 DEF FastInv
      <3>2. classtable[id] \in Registered /\ IsFast(classtable[id])
        BY <1>0, <2>1, <3>1 DEF Registered, IsFast
      <3>. QED
        BY <3>1, <3>2 DEF FastInv
    <2>4. /\ pc'[t] = "idle" /\ result'[t] = c /\ result' \in [Thread -> Class \cup {NoClass}]
      BY <1>2, <2>1, <2>2 DEF Lookup, Return, Leave, Goto, ThreadInv, LookInv
    <2>5. Knows(t)'
      BY <1>1, <2>3, <2>4 DEF Knows, Looking, Filling, Adding, Hit
    <2>. QED
      BY <1>1, <2>4, <2>5, OthersKnow DEF Client
  <1>3. CASE id \notin FastId
    <2>1. pc'[t] = "probe" /\ result' = result
      BY <1>3 DEF Lookup, Stay, Goto, ThreadInv
    <2>2. Knows(t)' /\ result' \in [Thread -> Class \cup {NoClass}]
      BY <1>0, <1>1, <2>1 DEF Knows, Looking, Filling, Adding, LookInv
    <2>. QED
      BY <1>1, <2>2, OthersKnow DEF Client
  <1>. QED
    BY <1>2, <1>3

\* What a probe finds is a hit.
LEMMA ProbeKnows ==
    ASSUME RoomToFill, ThreadInv, ArgInv, TableInv, CacheInv, PosedInv, ShapeInv, RoomInv,
           LookInv, LiveInv, NEW t \in Thread, Probe(t)
    PROVE  LookInv'
  <1>. PICK id : id = arg[t]
    OBVIOUS
  <1>. PICK k : k = pivot
    OBVIOUS
  <1>. DEFINE c == probe_infraclass(caches[k], id)
  <1>1. pc[t] = "probe" /\ pc[t] \in Looking /\ id \in Id /\ k \in 1..Len(caches) /\ Live(k)
    BY DEF Probe, LookInv, Looking, CacheInv, LiveInv
  <1>2. UNCHANGED <<classtable, victims, arg, wanted>>
    BY TablesKept DEF Probe
  <1>3. CASE c # NoClass
    <2>1. PICK i \in DOMAIN caches[k].entries : caches[k].entries[i].key = id /\ c = caches[k].entries[i].value
      BY <1>1, <1>3, ProbeIsEntry
    <2>2. k # 1
      BY <1>3, <2>1, EmptyCacheIs DEF CacheInv
    <2>3. c \in Class /\ id = classid(c)
      BY <1>1, <2>1, <2>2, IdIsNoFreeKey DEF ShapeInv
    <2>4. c \in Registered
      BY <1>1, <1>3, <2>1 DEF Live
    <2>5. Return(t, c)
      BY <1>3 DEF Probe
    <2>. HIDE DEF c
    <2>6. wanted[t] # NoClass => Hit(t, c)
      BY <1>1, <2>3, <2>4, RegisteredHits
    <2>. QED
      BY <1>2, <2>3, <2>5, <2>6, ReturnKnows DEF Runtime
  <1>4. CASE c = NoClass
    <2>1. pc'[t] = "table" /\ result' = result
      BY <1>1, <1>4 DEF Probe, Stay, Goto, ThreadInv
    <2>2. pc'[t] \in Looking /\ pc'[t] # "missing" /\ pc'[t] \notin Filling \cup {"fill"}
      BY <2>1 DEF Looking, Filling, Adding
    <2>. QED
      BY <1>1, <1>2, <2>1, <2>2, StayKnows DEF Runtime
  <1>. QED
    BY <1>3, <1>4

\* Reading the table
LEMMA TableKnows ==
    ASSUME ThreadInv, ArgInv, TableInv, LookInv, NEW t \in Thread, ReadTable(t)
    PROVE  LookInv'
  <1>1. UNCHANGED <<classtable, victims, arg, wanted>> /\ pc[t] = "table" /\ pc[t] \in Looking
    BY TablesKept DEF ReadTable, Looking
  <1>2. arg[t] \in Id /\ (wanted[t] # NoClass => classtable[arg[t]] = wanted[t])
    BY <1>1 DEF LookInv
  <1>3. CASE infra' = [infra EXCEPT ![t] = classtable[arg[t]]] /\ Goto(t, "fill") /\ result' = result
    BY <1>1, <1>3, StayKnows DEF Runtime, Goto, ThreadInv, Looking
  <1>4. CASE classtable[arg[t]] = NoClass /\ Return(t, NoClass)
    BY <1>1, <1>2, <1>4, ReturnKnows DEF Runtime
  <1>5. CASE classtable[arg[t]] = NoClass /\ Stay(t, "missing")
    BY <1>1, <1>2, <1>5, StayKnows DEF Runtime, Stay, Goto, ThreadInv, Looking, Filling, Adding
  <1>. QED
    BY <1>3, <1>4, <1>5 DEF ReadTable

\* The callback
LEMMA MissingKnows ==
    ASSUME ThreadInv, ArgInv, TableInv, LookInv, NEW t \in Thread, NEW b \in BOOLEAN, ClassIsMissing(t, b)
    PROVE  LookInv'
  <1>1. UNCHANGED <<classtable, victims, arg, wanted>> /\ pc[t] = "missing" /\ pc[t] \in Looking
    BY TablesKept DEF ClassIsMissing, Looking
  <1>2. wanted[t] = NoClass
    BY <1>1 DEF LookInv
  <1>3. CASE Return(t, NoClass)
    BY <1>1, <1>2, <1>3, ReturnKnows DEF Runtime
  <1>4. CASE Goto(t, "table") /\ result' = result
    BY <1>1, <1>4, StayKnows DEF Runtime, Goto, ThreadInv, Looking, Filling, Adding
  <1>. QED
    BY <1>3, <1>4 DEF ClassIsMissing

\* A thread that fills goes on with the class it has.
LEMMA FillKnows ==
    ASSUME ThreadInv, ArgInv, TableInv, LookInv, NEW t \in Thread, Runtime(t),
           UNCHANGED <<classtable, victims, arg, wanted, infra, result>>,
           pc[t] \in Filling \cup {"fill"}, pc'[t] \in Filling \cup {"fill"}
    PROVE  LookInv'
  <1>1. infra'[t] = classtable[arg[t]]
    BY DEF LookInv
  <1>2. pc[t] \in Looking /\ pc'[t] \in Looking /\ pc'[t] # "missing"
    BY DEF Looking, Filling, Adding
  <1>. QED
    BY <1>1, <1>2, StayKnows

\* Who fills has the class that is wanted.
LEMMA FillerHits ==
    ASSUME ThreadInv, LookInv, NEW t \in Thread, pc[t] \in Filling
    PROVE  /\ infra[t] \in Class /\ infra[t] \in Registered
           /\ wanted[t] # NoClass => infra[t] = wanted[t]
  <1>1. infra[t] \in Class /\ infra[t] = classtable[arg[t]] /\ arg[t] \in Id
    BY DEF ThreadInv, LookInv, Looking
  <1>2. wanted[t] # NoClass => classtable[arg[t]] = wanted[t]
    BY DEF LookInv, Looking
  <1>. QED
    BY <1>1, <1>2 DEF Registered

\* Filling the cache
LEMMA FillingKnows ==
    ASSUME ThreadInv, ArgInv, TableInv, LookInv, NEW t \in Thread,
           FillRead(t) \/ FillCheck(t) \/ SwapCaches(t) \/ AddProbe(t) \/ AddValue(t) \/ AddCount(t)
    PROVE  LookInv'
  <1>. USE DEF Goto, ThreadInv, Filling, Adding
  <1>1. UNCHANGED <<classtable, victims>> /\ Runtime(t)
    BY TablesKept DEF Runtime
  <1>2. CASE FillRead(t)
    BY <1>1, <1>2, FillKnows DEF FillRead
  <1>3. CASE FillCheck(t)
    BY <1>1, <1>3, FillKnows DEF FillCheck
  <1>4. CASE AddProbe(t)
    <2>1. UNCHANGED <<arg, wanted, infra, result>> /\ pc[t] = "offset" /\ pc' = [pc EXCEPT ![t] = "add"]
      BY <1>4 DEF AddProbe
    <2>. QED
      BY <1>1, <2>1, FillKnows
  <1>5. CASE AddValue(t)
    <2>1. UNCHANGED <<arg, wanted, infra, result>> /\ pc[t] = "add" /\ pc'[t] \in {"count", "taken"}
      BY <1>5 DEF AddValue
    <2>. QED
      BY <1>1, <2>1, FillKnows
  <1>6. CASE AddCount(t)
    <2>1. UNCHANGED <<arg, wanted, infra, result>> /\ pc[t] = "count" /\ pc' = [pc EXCEPT ![t] = "key"]
      BY <1>6 DEF AddCount
    <2>. QED
      BY <1>1, <2>1, FillKnows
  <1>7. CASE SwapCaches(t) /\ pivot = at[t][1]
    <2>1. UNCHANGED <<arg, wanted>> /\ pc[t] \in Filling /\ Return(t, infra[t])
      BY <1>7 DEF SwapCaches
    <2>2. infra[t] \in Class /\ (wanted[t] # NoClass => Hit(t, infra[t]))
      BY <2>1, FillerHits DEF Hit
    <2>. QED
      BY <1>1, <2>1, <2>2, ReturnKnows
  <1>8. CASE SwapCaches(t) /\ pivot # at[t][1]
    BY <1>1, <1>8, FillKnows DEF SwapCaches, Stay
  <1>. QED
    BY <1>2, <1>3, <1>4, <1>5, <1>6, <1>7, <1>8

\* Having filled it, or found the slot taken
LEMMA FilledKnows ==
    ASSUME ThreadInv, ArgInv, TableInv, CacheInv, PosedInv, ShapeInv, AtInv, LookInv, LiveInv,
           NEW t \in Thread, AddTaken(t) \/ AddKey(t)
    PROVE  LookInv'
  <1>0. UNCHANGED <<classtable, victims>> /\ Runtime(t)
    BY TablesKept DEF Runtime
  <1>1. pc[t] \in Filling /\ pc[t] \in {"taken", "key"} /\ UNCHANGED <<arg, wanted>>
    BY DEF AddTaken, AddKey, Filling, Adding
  <1>2. infra[t] \in Class /\ infra[t] \in Registered /\ (wanted[t] # NoClass => Hit(t, infra[t]))
    BY <1>1, FillerHits DEF Hit
  <1>3. CASE entry(t).value = infra[t] /\ Return(t, entry(t).value)
    BY <1>0, <1>1, <1>2, <1>3, ReturnKnows
  <1>4. CASE AddTaken(t) /\ entry(t).key = classid(infra[t])
    <2>. PICK k : k = at[t][1]
      OBVIOUS
    <2>. PICK e : e = entry(t)
      OBVIOUS
    <2>1. k \in 2..Len(caches) /\ at[t][2] \in DOMAIN caches[k].entries /\ Live(k)
      BY <1>1 DEF CacheInv, AtInv, LiveInv, Adding, Filling
    <2>2. e = caches[k].entries[at[t][2]]
      BY DEF entry
    <2>3. e.key \in Id
      BY <1>2, <1>4, OwnId
    <2>4. e.value \in Class /\ e.key = classid(e.value)
      BY <2>1, <2>2, <2>3, IdIsNoFreeKey DEF ShapeInv
    <2>5. e.value \in Registered
      BY <2>1, <2>2, <2>4, ClassAssumption DEF Live
    <2>6. e.value = infra[t]
      BY <1>2, <1>4, <2>4, <2>5, NamesAreUnique
    <2>. QED
      BY <1>3, <1>4, <2>6 DEF AddTaken
  <1>5. CASE AddTaken(t) /\ entry(t).key # classid(infra[t])
    <2>1. Stay(t, "fill")
      BY <1>5 DEF AddTaken
    <2>. QED
      BY <1>0, <1>1, <2>1, FillKnows DEF Stay, Goto, ThreadInv
  <1>6. CASE AddKey(t)
    BY <1>3, <1>6 DEF AddKey, AtInv
  <1>. QED
    BY <1>4, <1>5, <1>6

\* What threads know that look a class up
LEMMA LookStep ==
    ASSUME RoomToFill, ThreadInv, ArgInv, TableInv, CacheInv, FastInv, PosedInv, ShapeInv, AtInv, RoomInv,
           LookInv, LiveInv, Next
    PROVE  LookInv'
  <1>1. ASSUME NEW t \in Thread, Runtime(t) \/ Client(t) PROVE LookInv'
    <2>1. CASE Probe(t) \/ ReadTable(t) \/ (\E b \in BOOLEAN : ClassIsMissing(t, b))
      BY <2>1, ProbeKnows, TableKnows, MissingKnows
    <2>2. CASE FillRead(t) \/ FillCheck(t) \/ SwapCaches(t) \/ AddProbe(t) \/ AddValue(t) \/ AddCount(t)
      BY <2>2, FillingKnows
    <2>3. CASE AddTaken(t) \/ AddKey(t)
      BY <2>3, FilledKnows
    <2>4. CASE RegisterSuper(t) \/ RegisterIndex(t) \/ RegisterInsert(t) \/ \E c \in Class : Register(t, c)
      BY <2>4, RegisterKnows
    <2>5. CASE \E id \in LookupId : Lookup(t, id)
      BY <2>5, LookupKnows
    <2>. QED
      BY <1>1, <2>1, <2>2, <2>3, <2>4, <2>5 DEF Runtime, Client
  <1>2. ASSUME NEW c \in Class, Remove(c) \/ Pose(c) PROVE LookInv'
    <2>1. /\ UNCHANGED <<pc, infra, arg, result, wanted>> /\ victims \subseteq victims'
          /\ \A t \in Thread : pc[t] = "idle"
      BY <1>2, AloneKeeps
    <2>. QED
      BY <2>1 DEF LookInv, Hit, Looking, Filling, Adding
  <1>. QED
    BY <1>1, <1>2 DEF Next

----------------------------------------------------------------------------
(* The theorems about the table as a whole *)

\* At the start there are no fast classes,
LEMMA InitFast == Init => FastInv
  <1>. SUFFICES ASSUME Init PROVE FastInv
    OBVIOUS
  <1>1. Registered = {}
    BY ClassAssumption DEF Init, Registered
  <1>. QED
    BY <1>1 DEF Init, FastInv, FastSlot, Registering

\* nobody having posed,
LEMMA InitPosed == Init => PosedInv
  BY DEF Init, PosedInv, Straight

\* and the only cache has nobody in it.
LEMMA InitLook == Init => ShapeInv /\ AtInv /\ RoomInv /\ LookInv /\ LiveInv /\ IndexInv
  <1>. SUFFICES ASSUME Init PROVE ShapeInv /\ AtInv /\ RoomInv /\ LookInv /\ LiveInv /\ IndexInv
    OBVIOUS
  <1>1. caches = <<empty_cache>> /\ pivot = 1
    BY DEF Init
  <1>2. \A i \in DOMAIN empty_cache.entries : empty_cache.entries[i].value = NoClass
    BY EmptyCacheIs
  <1>3. \A t \in Thread : pc[t] = "idle" /\ wanted[t] = NoClass
    BY DEF Init
  <1>4. wanted \in [Thread -> Class \cup {NoClass}] /\ result \in [Thread -> Class \cup {NoClass}]
    BY DEF Init
  <1>. HIDE DEF empty_cache
  <1>5. Len(caches) = 1 /\ caches[1] = empty_cache
    BY <1>1
  <1>6. ShapeInv /\ RoomInv
    BY <1>5 DEF ShapeInv, RoomInv
  <1>7. AtInv /\ LookInv
    BY <1>3, <1>4 DEF AtInv, LookInv, Looking, Filling, Adding
  <1>8. LiveInv
    BY <1>1, <1>2, <1>3, <1>5 DEF LiveInv, Live, Filling, Adding
  <1>9. IndexInv
    BY DEF Init, IndexInv
  <1>. QED
    BY <1>6, <1>7, <1>8, <1>9

\* Fast classes are in their table and removed ones are not.
LEMMA FastHolds ==
    ASSUME FastFromOne
    PROVE  Spec => [](IInv /\ FastInv)
  <1>1. IInv /\ FastInv /\ [Next]_vars => FastInv'
    <2>. SUFFICES ASSUME IInv, FastInv, [Next]_vars PROVE FastInv'
      OBVIOUS
    <2>1. CASE Next
      BY <2>1, FastStep DEF IInv
    <2>2. CASE UNCHANGED vars
      BY <2>2, FastStays DEF vars, classes, locals, history, Quiet
    <2>. QED
      BY <2>1, <2>2
  <1>. QED
    BY <1>1, InitHolds, NextHolds, InitFast, PTL DEF Spec

\* Ids and names agree.
LEMMA PosedHolds ==
    ASSUME PosesOnce
    PROVE  Spec => [](IInv /\ PosedInv)
  <1>1. IInv /\ PosedInv /\ [Next]_vars => PosedInv'
    <2>. SUFFICES ASSUME IInv, PosedInv, [Next]_vars PROVE PosedInv'
      OBVIOUS
    <2>1. CASE Next
      BY <2>1, PosedStep DEF IInv
    <2>2. CASE UNCHANGED vars
      BY <2>2, PosedStays DEF vars, classes, history
    <2>. QED
      BY <2>1, <2>2
  <1>. QED
    BY <1>1, InitHolds, NextHolds, InitPosed, PTL DEF Spec

SoundInv ==
    /\ IInv /\ FastInv /\ PosedInv
    /\ ShapeInv /\ AtInv /\ RoomInv /\ LookInv /\ LiveInv /\ IndexInv

\* All of it
LEMMA SoundHolds ==
    ASSUME PosesOnce, FastFromOne, RoomToFill
    PROVE  Spec => []SoundInv
  <1>1. SoundInv /\ [Next]_vars => ShapeInv' /\ AtInv' /\ RoomInv' /\ LookInv' /\ LiveInv' /\ IndexInv'
    <2>. SUFFICES ASSUME SoundInv, [Next]_vars
                  PROVE  ShapeInv' /\ AtInv' /\ RoomInv' /\ LookInv' /\ LiveInv' /\ IndexInv'
      OBVIOUS
    <2>. USE DEF SoundInv, IInv
    <2>1. CASE Next
      <3>1. ShapeInv' /\ AtInv' /\ RoomInv'
        BY <2>1, ShapeStep, AtStep, RoomStep
      <3>2. LookInv' /\ LiveInv' /\ IndexInv'
        BY <2>1, LookStep, LiveStep, IndexStep
      <3>. QED
        BY <3>1, <3>2
    <2>2. CASE UNCHANGED vars
      <3>. USE <2>2 DEF vars, locals, classes, cache, history
      <3>1. ShapeInv' /\ AtInv' /\ IndexInv'
        BY DEF ShapeInv, AtInv, IndexInv, entry
      <3>2. RoomInv'
        BY DEF RoomInv, Used, Coming, Counting
      <3>3. LookInv'
        BY DEF LookInv, Hit
      <3>4. LiveInv'
        BY DEF LiveInv, Live, Registered
      <3>. QED
        BY <3>1, <3>2, <3>3, <3>4
    <2>. QED
      BY <2>1, <2>2
  <1>2. Init => SoundInv
    BY InitHolds, InitFast, InitPosed, InitLook DEF SoundInv
  <1>3. Spec => []FastInv /\ []PosedInv /\ []IInv
    BY FastHolds, PosedHolds, PTL
  <1>4. FastInv' /\ PosedInv' /\ IInv' /\ SoundInv /\ [Next]_vars => SoundInv'
    BY <1>1 DEF SoundInv
  <1>. QED
    BY <1>2, <1>3, <1>4, PTL DEF Spec

\* Nobody gets hold of a class that was removed before, not from the cache and
\* not from the fast classes (universe.c 2761-2802), if their indices start with 1:
\* removal does not clear the slot with index 0.
THEOREM RemovedAreGone ==
    ASSUME FastFromOne
    PROVE  Spec => []RemovedIsGone
  <1>1. IInv /\ FastInv => RemovedIsGone
    <2>. SUFFICES ASSUME IInv, FastInv PROVE RemovedIsGone
      OBVIOUS
    <2>1. RemovedNotCached
      BY DEF IInv, GoneInv
    <2>2. ASSUME NEW i \in FastSlot PROVE fastclasstable[i] \notin removed
      BY ClassAssumption DEF FastInv, IInv, GoneInv
    <2>. QED
      BY <2>1, <2>2 DEF RemovedIsGone, FastInv
  <1>. QED
    BY <1>1, FastHolds, PTL

\* Teardown enumerates every class in the table once, and frees it once, also
\* the class posed away (universe.c 2005-2060), if a class poses once: a poser
\* that is posed away itself is enumerated twice.
THEOREM ClassesFreedOnce ==
    ASSUME PosesOnce
    PROVE  Spec => []FreedOnce
  <1>1. IInv /\ PosedInv => FreedOnce
    BY PosedIsFreedOnce DEF IInv
  <1>. QED
    BY <1>1, PosedHolds, PTL

\* A lookup finds the class registered under the id when it began, or the one
\* posed away from it, whoever fills, grows or swaps the cache meanwhile
\* (universe-class.c 62-260), and all that goes with it: as long as the threads
\* that got past the check of the fill rate leave the cache a free slot.
THEOREM TableSound ==
    ASSUME PosesOnce, FastFromOne, RoomToFill
    PROVE  Spec => []TableIsSound
  <1>1. SoundInv => TypeOK
    <2>. SUFFICES ASSUME SoundInv PROVE TypeOK
      OBVIOUS
    <2>. USE DEF SoundInv, IInv
    <2>1. indexof \in [Class -> -1..(classindex - 1)]
      BY DEF TableInv, IndexInv
    <2>2. classtable \in [Id -> Class \cup {NoClass}] /\ pivot \in DOMAIN caches
      BY DEF TableInv, CacheInv
    <2>. QED
      BY <2>1, <2>2 DEF TypeOK, ThreadInv, LookInv, AtInv
  <1>2. SoundInv => LookupFinds
    BY DEF SoundInv, LookInv, LookupFinds, Hit, Looking, Filling, Adding
  <1>3. SoundInv => SuperHasLowerIndex
    BY DEF SoundInv, IInv, SuperInv
  <1>. QED
    BY <1>1, <1>2, <1>3, SoundHolds, RemovedAreGone, ClassesFreedOnce, PTL DEF TableIsSound
=============================================================================
