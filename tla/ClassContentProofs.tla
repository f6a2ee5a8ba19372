------------------------- MODULE ClassContentProofs -------------------------
(***************************************************************************)
(* For any classes, threads, keys and programs: arrays of ids, kvc caches  *)
(* and kvcinfos are freed once and never while a class points to them, in  *)
(* the end no array and no cache is left, and the kvc cache is only ever   *)
(* as old as the methods of the class allow.  Every id that was added is   *)
(* found, by the binary search and by walks, and mixins are mixins.  The   *)
(* table of accessors agrees with the properties, searches with walks.     *)
(***************************************************************************)
EXTENDS ClassContent, TLAPS, FiniteSetTheorems, WellFoundedInduction

----------------------------------------------------------------------------
(* The inductive invariant *)

\* where a thread carries a kvcinfo, and where that is in no cache yet
Flying == {"set", "swap", "claim", "key"}
Before == {"set", "swap", "claim"}
Place  == {"idle", "copy", "cas", "invalidate", "free"} \cup Flying

Info  == [id : Nat, key : Key \cup {""}, gen : Nat]
Slot  == [key : Nat, info : Info]
Slots == UNION {[D -> Slot] : D \in SUBSET Int}
Cache == [size : Nat, n : Nat, slot : Slots]
\* Whatever the ids a thread has gathered are, I and C hold them
Local(I, C) == [pc : Place, class : Class \cup {NoClass}, ids : I, array : Nat, copy : C,
                cache : Nat, info : Info]
Operation == UNION {ToSet(p.todo) : p \in Programs}
Freed(kind, n) == <<kind, n>> \in BagToSet(freed)

\* The kvcinfos in a cache
Held(cs, n) == {cs[n].slot[i].info : i \in DOMAIN cs[n].slot} \ {NoInfo}

ThreadInv ==
    /\ \E I, C : th \in [Thread -> Local(I, C)]
    /\ \A t \in Thread : th[t].pc \in {"copy", "cas"} => th[t].class \in Class
    /\ \A t \in Thread : th[t].pc \in Flying => th[t].info.key \in Key /\ th[t].info.id > ops
    /\ ops \in Nat /\ gen \in Nat /\ todo \in Seq(Operation)

\* The universe's empty cache stays empty, for it is full from the start
CacheInv ==
    /\ next \in Nat \ {0} /\ caches \in [DOMAIN caches -> Cache] /\ DOMAIN caches \subseteq 0..(next - 1)
    /\ empty_cache \in DOMAIN caches /\ kvc \in DOMAIN caches
    /\ caches[empty_cache] = NewCache(1)
    /\ \A t \in Thread : th[t].cache \in DOMAIN caches
    /\ \A t \in Thread : th[t].pc \in {"claim", "key", "free"} => th[t].cache # empty_cache

\* An array has a number of its own, and is in a class or freed.
ArrayInv ==
    /\ DOMAIN protocolids = Class /\ DOMAIN categoryids = Class
    /\ \A c \in Class : protocolids[c].at \in 0..(next - 1) /\ categoryids[c].at \in 0..(next - 1)
    /\ \A c, d \in Class : protocolids[c].at = protocolids[d].at => c = d \/ protocolids[c].at = 0
    /\ \A c, d \in Class : categoryids[c].at = categoryids[d].at => c = d \/ categoryids[c].at = 0
    /\ \A c, d \in Class : protocolids[c].at = categoryids[d].at => protocolids[c].at = 0
    /\ \A n \in Nat : Freed("array", n) =>
          /\ n \in 1..(next - 1)
          /\ \A c \in Class : protocolids[c].at # n /\ categoryids[c].at # n
    /\ \A n \in 1..(next - 1) :
          \/ n \in DOMAIN caches \/ Freed("array", n)
          \/ \E c \in Class : protocolids[c].at = n \/ categoryids[c].at = n

\* A cache is the current one, freed, or about to be freed by one thread.
KvcInv ==
    /\ \A t \in Thread : th[t].pc = "free" => th[t].cache # kvc
    /\ \A t, u \in Thread : th[t].pc = "free" /\ th[u].pc = "free" /\ th[t].cache = th[u].cache => t = u
    /\ \A n \in Nat : Freed("cache", n) =>
          /\ n # kvc /\ n # empty_cache /\ n \in DOMAIN caches
          /\ \A t \in Thread : th[t].pc = "free" => th[t].cache # n
    /\ \A n \in DOMAIN caches : \/ n = empty_cache \/ n = kvc \/ Freed("cache", n)
                                \/ \E t \in Thread : th[t].pc = "free" /\ th[t].cache = n

\* A kvcinfo is in one thread's hands and then in one cache, and freed with it.
InfoInv ==
    /\ \A n \in DOMAIN caches : \A x \in Held(caches, n) : x.id > ops
    /\ \A m, n \in DOMAIN caches : \A x \in Held(caches, m), y \in Held(caches, n) : x.id = y.id => m = n
    /\ \A t \in Thread : th[t].pc \in Before =>
          \A n \in DOMAIN caches : \A x \in Held(caches, n) : x.id # th[t].info.id
    /\ \A t, u \in Thread : th[t].pc \in Before /\ th[u].pc \in Before /\ th[t].info.id = th[u].info.id => t = u
    /\ \A id \in Nat : Freed("info", id) =>
          /\ id > ops
          /\ \A t \in Thread : th[t].pc \in Before => th[t].info.id # id
          /\ \A n \in DOMAIN caches : \A x \in Held(caches, n) : x.id = id => Freed("cache", n)

\* The memory is all accounted for.
FreeInv ==
    /\ \A x \in BagToSet(freed) : freed[x] = 1
    /\ state = "done" => \A n \in 1..(next - 1) : Freed("array", n) \/ Freed("cache", n)

\* Methods come first, then the invalidation that makes what is older known
Current(x) == x.gen = gen \/ x.id \in raced \/ \E t \in Thread : th[t].pc = "invalidate"
StaleInv ==
    /\ \A t \in Thread : th[t].pc \in Flying => Current(th[t].info)
    /\ \A x \in Held(caches, kvc) : Current(x)

IInv == ThreadInv /\ CacheInv /\ ArrayInv /\ KvcInv /\ InfoInv /\ FreeInv /\ StaleInv

----------------------------------------------------------------------------
(* Memory that is freed *)

\* Freeing what was not freed before keeps every count at one.
LEMMA FreeOnce ==
    ASSUME NEW b, NEW S, \A x \in BagToSet(b) : b[x] = 1, S \cap BagToSet(b) = {}
    PROVE  /\ BagToSet(b (+) SetToBag(S)) = BagToSet(b) \cup S
           /\ \A x \in BagToSet(b (+) SetToBag(S)) : (b (+) SetToBag(S))[x] = 1
BY DEF BagToSet, SetToBag, (+)

\* An array, or nothing if there is none
LEMMA FreeingIs ==
    ASSUME NEW kind, NEW n
    PROVE  Freeing(kind, n) = SetToBag(IF n = 0 THEN {} ELSE {<<kind, n>>})
BY DEF Freeing, EmptyBag

\* A cache and its kvcinfos, or nothing if it is the empty cache
LEMMA CacheMemoryIs ==
    ASSUME NEW n
    PROVE  CacheMemory(n) = SetToBag(IF n = empty_cache THEN {}
                                     ELSE {<<"cache", n>>} \cup {<<"info", id>> : id \in Infos(n)})
BY DEF CacheMemory, EmptyBag

----------------------------------------------------------------------------
(* What is in a cache *)

\* The id of a kvcinfo in a cache is the id of something held.
LEMMA InfosAreHeld ==
    ASSUME NEW n, NEW id \in Infos(n)
    PROVE  id # 0 /\ \E x \in Held(caches, n) : x.id = id
<1>1. PICK i \in DOMAIN caches[n].slot : id = caches[n].slot[i].info.id
  BY DEF Infos
<1>2. id # 0
  BY DEF Infos
<1>3. NoInfo.id = 0
  BY DEF NoInfo
<1>4. caches[n].slot[i].info # NoInfo
  BY <1>1, <1>2, <1>3
<1> QED
  BY <1>1, <1>2, <1>4 DEF Held

\* An empty cache holds nothing and is a cache.
LEMMA NewCacheIsEmpty ==
    ASSUME NEW size \in Nat
    PROVE  /\ NewCache(size) \in Cache
           /\ NewCache(size).slot = [i \in 0..(size - 1) |-> [key |-> 0, info |-> NoInfo]]
           /\ NewCache(size).n = 0 /\ NewCache(size).size = size
<1>1. NoInfo \in Info
  BY DEF NoInfo, Info
<1>2. [key |-> 0, info |-> NoInfo] \in Slot
  BY <1>1 DEF Slot
<1>3. [i \in 0..(size - 1) |-> [key |-> 0, info |-> NoInfo]] \in [0..(size - 1) -> Slot]
  BY <1>2
<1>4. 0..(size - 1) \in SUBSET Int
  OBVIOUS
<1>5. [i \in 0..(size - 1) |-> [key |-> 0, info |-> NoInfo]] \in Slots
  BY <1>3, <1>4 DEF Slots
<1> QED
  BY <1>5 DEF NewCache, Cache

\* What a cache holds has an id.
LEMMA HeldTypes ==
    ASSUME NEW cs, cs \in [DOMAIN cs -> Cache], NEW n \in DOMAIN cs, NEW x \in Held(cs, n)
    PROVE  x \in Info /\ x.id \in Nat /\ x.gen \in Nat
<1>1. cs[n].slot \in Slots
  BY DEF Cache
<1>2. PICK D \in SUBSET Int : cs[n].slot \in [D -> Slot]
  BY <1>1 DEF Slots
<1>3. PICK i \in D : x = cs[n].slot[i].info
  BY <1>2 DEF Held
<1>4. x \in Info
  BY <1>2, <1>3 DEF Slot
<1> QED
  BY <1>4 DEF Info

\* Two states of the caches with the same slots hold the same.
LEMMA SameSlots ==
    ASSUME NEW cs, NEW ds, NEW n, cs[n].slot = ds[n].slot
    PROVE  Held(cs, n) = Held(ds, n)
BY DEF Held

\* A kvcinfo that is put into a slot is the only thing that is new.
WithInfo(s, i, x) == [s EXCEPT ![i].info = x]
LEMMA PutInfo ==
    ASSUME NEW s \in Slots, NEW i, NEW x \in Info
    PROVE  /\ WithInfo(s, i, x) \in Slots
           /\ DOMAIN WithInfo(s, i, x) = DOMAIN s
           /\ \A j \in DOMAIN s : WithInfo(s, i, x)[j].info \in {s[j].info, x}
<1>1. PICK D \in SUBSET Int : s \in [D -> Slot]
  BY DEF Slots
<1>2. WithInfo(s, i, x) \in [D -> Slot]
  BY <1>1 DEF Slot, WithInfo
<1>3. WithInfo(s, i, x) \in Slots
  BY <1>2 DEF Slots
<1>4. \A j \in DOMAIN s : WithInfo(s, i, x)[j].info \in {s[j].info, x}
  BY <1>1 DEF Slot, WithInfo
<1> QED
  BY <1>1, <1>2, <1>3, <1>4

\* A key that is set leaves the kvcinfos alone.
WithKey(s, i, k) == [s EXCEPT ![i].key = k]
LEMMA PutKey ==
    ASSUME NEW s \in Slots, NEW i, NEW k \in Nat
    PROVE  /\ WithKey(s, i, k) \in Slots
           /\ DOMAIN WithKey(s, i, k) = DOMAIN s
           /\ \A j \in DOMAIN s : WithKey(s, i, k)[j].info = s[j].info
<1>1. PICK D \in SUBSET Int : s \in [D -> Slot]
  BY DEF Slots
<1>2. WithKey(s, i, k) \in [D -> Slot]
  BY <1>1 DEF Slot, WithKey
<1>3. WithKey(s, i, k) \in Slots
  BY <1>2 DEF Slots
<1>4. \A j \in DOMAIN s : WithKey(s, i, k)[j].info = s[j].info
  BY <1>1 DEF Slot, WithKey
<1> QED
  BY <1>1, <1>2, <1>3, <1>4

\* Claiming a slot of cache c for x, or not finding one
Put(cs, c, i, x) == [cs EXCEPT ![c].slot[i].info = x]
LEMMA PutHolds ==
    ASSUME NEW cs, cs \in [DOMAIN cs -> Cache], NEW c \in DOMAIN cs, NEW i, NEW x \in Info
    PROVE  /\ DOMAIN Put(cs, c, i, x) = DOMAIN cs
           /\ Put(cs, c, i, x) \in [DOMAIN cs -> Cache]
           /\ \A n \in DOMAIN cs : n # c => Put(cs, c, i, x)[n] = cs[n]
           /\ Held(Put(cs, c, i, x), c) \subseteq Held(cs, c) \cup {x}
<1> DEFINE s == cs[c].slot
           ds == Put(cs, c, i, x)
<1>1. cs[c] \in Cache /\ s \in Slots
  BY DEF Cache
<1>q. PICK q : q = WithInfo(s, i, x)
  OBVIOUS
<1>2. q \in Slots /\ DOMAIN q = DOMAIN s /\ \A j \in DOMAIN s : q[j].info \in {s[j].info, x}
  <2> HIDE DEF s
  <2> QED BY <1>1, <1>q, PutInfo
<1>3. ds = [cs EXCEPT ![c] = [cs[c] EXCEPT !.slot = q]]
  BY <1>q, <1>1 DEF Put, WithInfo, Cache
<1>4. [cs[c] EXCEPT !.slot = q] \in Cache /\ [cs[c] EXCEPT !.slot = q].slot = q
  BY <1>1, <1>2 DEF Cache
<1>5. DOMAIN ds = DOMAIN cs /\ ds \in [DOMAIN cs -> Cache] /\ ds[c].slot = q
      /\ \A n \in DOMAIN cs : n # c => ds[n] = cs[n]
  <2> HIDE DEF ds
  <2> QED BY <1>3, <1>4
<1>6. Held(ds, c) \subseteq Held(cs, c) \cup {x}
  <2> HIDE DEF ds
  <2> QED BY <1>2, <1>5 DEF Held
<1> QED
  BY <1>5, <1>6

\* Setting the key and counting the entry
Count(cs, c, i, k) == [cs EXCEPT ![c].n = @ + 1, ![c].slot[i].key = k]
LEMMA CountHolds ==
    ASSUME NEW cs, cs \in [DOMAIN cs -> Cache], NEW c \in DOMAIN cs, NEW i, NEW k \in Nat
    PROVE  /\ DOMAIN Count(cs, c, i, k) = DOMAIN cs
           /\ Count(cs, c, i, k) \in [DOMAIN cs -> Cache]
           /\ \A n \in DOMAIN cs : n # c => Count(cs, c, i, k)[n] = cs[n]
           /\ Held(Count(cs, c, i, k), c) = Held(cs, c)
<1> DEFINE s == cs[c].slot
           ds == Count(cs, c, i, k)
<1>1. cs[c] \in Cache /\ s \in Slots /\ cs[c].n + 1 \in Nat
  BY DEF Cache
<1>q. PICK q : q = WithKey(s, i, k)
  OBVIOUS
<1>2. q \in Slots /\ DOMAIN q = DOMAIN s /\ \A j \in DOMAIN s : q[j].info = s[j].info
  <2> HIDE DEF s
  <2> QED BY <1>1, <1>q, PutKey
<1>m. PICK m \in Nat : m = cs[c].n + 1
  BY <1>1
<1>d. PICK d : d = [cs[c] EXCEPT !.n = m, !.slot = q]
  OBVIOUS
<1>3. ds = [cs EXCEPT ![c] = d]
  BY <1>1, <1>q, <1>m, <1>d DEF Count, WithKey, Cache
<1>4. d \in Cache /\ d.slot = q
  BY <1>1, <1>2, <1>m, <1>d DEF Cache
<1>5. DOMAIN ds = DOMAIN cs /\ ds \in [DOMAIN cs -> Cache] /\ ds[c].slot = q
      /\ \A n \in DOMAIN cs : n # c => ds[n] = cs[n]
  <2> HIDE DEF ds
  <2> QED BY <1>3, <1>4
<1>6. Held(ds, c) = Held(cs, c)
  <2> HIDE DEF ds
  <2> QED BY <1>2, <1>5 DEF Held
<1> QED
  BY <1>5, <1>6

\* A new cache with x in one of its slots
Filled(size, i, k, x) == [NewCache(size) EXCEPT !.n = 1, !.slot[i] = [key |-> k, info |-> x]]
LEMMA FilledHolds ==
    ASSUME NEW size \in Nat, NEW i, NEW k \in Nat, NEW x \in Info
    PROVE  /\ Filled(size, i, k, x) \in Cache
           /\ \A j \in DOMAIN Filled(size, i, k, x).slot : Filled(size, i, k, x).slot[j].info \in {NoInfo, x}
<1> DEFINE d == Filled(size, i, k, x)
<1>n. PICK new : new = NewCache(size)
  OBVIOUS
<1>1. new \in Cache /\ new.slot = [j \in 0..(size - 1) |-> [key |-> 0, info |-> NoInfo]]
  BY <1>n, NewCacheIsEmpty
<1>e. PICK e : e = [key |-> k, info |-> x]
  OBVIOUS
<1>2. e \in Slot /\ e.info = x
  BY <1>e DEF Slot
<1>3. NoInfo \in Info
  BY DEF NoInfo, Info
<1>q. PICK q : q = [new.slot EXCEPT ![i] = e]
  OBVIOUS
<1>z. PICK z : z = [key |-> 0, info |-> NoInfo]
  OBVIOUS
<1>y. z \in Slot /\ z.info = NoInfo
  BY <1>z, <1>3 DEF Slot
<1>w. q = [[j \in 0..(size - 1) |-> z] EXCEPT ![i] = e]
  BY <1>1, <1>q, <1>z
<1>4. q \in [0..(size - 1) -> Slot] /\ \A j \in 0..(size - 1) : q[j].info \in {NoInfo, x}
  BY <1>2, <1>y, <1>w
<1>5. 0..(size - 1) \in SUBSET Int
  OBVIOUS
<1>6. q \in Slots /\ DOMAIN q = 0..(size - 1)
  BY <1>4, <1>5 DEF Slots
<1>7. d = [new EXCEPT !.n = 1, !.slot = q]
  BY <1>1, <1>n, <1>e, <1>q DEF Filled, Cache
<1>8. d \in Cache /\ d.slot = q
  <2> HIDE DEF d
  <2> QED BY <1>1, <1>6, <1>7 DEF Cache
<1>9. \A j \in DOMAIN d.slot : d.slot[j].info \in {NoInfo, x}
  BY <1>4, <1>6, <1>8
<1> QED
  BY <1>8, <1>9

----------------------------------------------------------------------------
(* A thread takes a step: its local variables become r *)

KeepsFreed == \A n : (Freed("cache", n)' <=> Freed("cache", n)) /\ (Freed("info", n)' <=> Freed("info", n))
KeepsHeld == DOMAIN caches' = DOMAIN caches /\ \A n \in DOMAIN caches : Held(caches', n) = Held(caches, n)
Move(t, r) == th' = [th EXCEPT ![t] = r] /\ \E I, C : r \in Local(I, C)

LEMMA MoveFacts ==
    ASSUME ThreadInv, NEW t \in Thread, NEW r, Move(t, r)
    PROVE  /\ th'[t] = r /\ \A u \in Thread : u # t => th'[u] = th[u]
           /\ \E I, C : th' \in [Thread -> Local(I, C)]
<1>1. PICK I, C : th \in [Thread -> Local(I, C)]
  BY DEF ThreadInv
<1>2. PICK J, D : r \in Local(J, D)
  BY DEF Move
<1>3. th' = [th EXCEPT ![t] = r]
  BY DEF Move
<1>4. Local(I, C) \subseteq Local(I \cup J, C \cup D) /\ Local(J, D) \subseteq Local(I \cup J, C \cup D)
  BY DEF Local
<1>5. th' \in [Thread -> Local(I \cup J, C \cup D)]
  BY <1>1, <1>2, <1>3, <1>4
<1> QED
  BY <1>1, <1>3, <1>5

\* The types of a thread's local variables
LEMMA LocalTypes ==
    ASSUME ThreadInv, NEW t \in Thread
    PROVE  /\ th[t].pc \in Place /\ th[t].cache \in Nat /\ th[t].array \in Nat
           /\ th[t].info \in Info /\ th[t].info.id \in Nat /\ th[t].info.gen \in Nat
           /\ \E I, C : th[t] \in Local(I, C)
<1>1. PICK I, C : th \in [Thread -> Local(I, C)]
  BY DEF ThreadInv
<1>2. th[t] \in Local(I, C)
  BY <1>1
<1> QED
  BY <1>2 DEF Local, Info

LEMMA IdleIsLocal ==
    /\ \E I, C : Idle \in Local(I, C)
    /\ Idle.pc = "idle" /\ Idle.cache = 0 /\ Idle.info = NoInfo
<1>1. NoInfo \in Info
  BY DEF NoInfo, Info
<1>2. Idle \in Local({<<>>}, {<<>>})
  BY <1>1 DEF Idle, Local, Place
<1>3. Idle.pc = "idle" /\ Idle.cache = 0 /\ Idle.info = NoInfo
  BY DEF Idle
<1> QED
  BY <1>2, <1>3

\* ThreadInv holds after the step if it holds of the new local variables.
LEMMA MoveThread ==
    ASSUME ThreadInv, NEW t \in Thread, NEW r, Move(t, r),
           r.pc \in {"copy", "cas"} => r.class \in Class,
           r.pc \in Flying => r.info.key \in Key /\ r.info.id > ops',
           ops' \in Nat, ops' <= ops, gen' \in Nat, todo' \in Seq(Operation)
    PROVE  ThreadInv'
<1>1. th'[t] = r /\ \A u \in Thread : u # t => th'[u] = th[u]
  BY MoveFacts
<1>2. \E I, C : th' \in [Thread -> Local(I, C)]
  BY MoveFacts
<1>3. \A u \in Thread : th'[u].pc \in {"copy", "cas"} => th'[u].class \in Class
  BY <1>1 DEF ThreadInv
<1>4. \A u \in Thread : th[u].info.id \in Nat
  BY LocalTypes
<1>5. \A u \in Thread : th'[u].pc \in Flying => th'[u].info.key \in Key /\ th'[u].info.id > ops'
  BY <1>1, <1>4 DEF ThreadInv
<1> QED
  BY <1>2, <1>3, <1>5 DEF ThreadInv

\* A step that leaves the caches alone
LEMMA MoveCache ==
    ASSUME ThreadInv, CacheInv, NEW t \in Thread, NEW r, Move(t, r), UNCHANGED caches,
           next' \in Nat, next' >= next,
           kvc' \in {kvc, empty_cache}, r.cache \in DOMAIN caches,
           r.pc \in {"claim", "key", "free"} => r.cache # empty_cache
    PROVE  CacheInv'
<1>1. th'[t] = r /\ \A u \in Thread : u # t => th'[u] = th[u]
  BY MoveFacts
<1>2. /\ \A u \in Thread : th'[u].cache \in DOMAIN caches
      /\ \A u \in Thread : th'[u].pc \in {"claim", "key", "free"} => th'[u].cache # empty_cache
  BY <1>1 DEF CacheInv
<1>3. DOMAIN caches \subseteq 0..(next' - 1) /\ next' \in Nat \ {0}
  BY DEF CacheInv
<1> QED
  BY <1>2, <1>3 DEF CacheInv, empty_cache, NewCache

\* A step with nothing to free, before and after
LEMMA MoveKvc ==
    ASSUME ThreadInv, KvcInv, NEW t \in Thread, NEW r, Move(t, r), UNCHANGED kvc, KeepsFreed,
           DOMAIN caches' = DOMAIN caches, th[t].pc # "free", r.pc # "free"
    PROVE  KvcInv'
<1>1. th'[t] = r /\ \A u \in Thread : u # t => th'[u] = th[u]
  BY MoveFacts
<1>2. \A u \in Thread : th'[u].pc = "free" <=> th[u].pc = "free"
  BY <1>1
<1>3. \A u \in Thread : th'[u].pc = "free" => th'[u] = th[u]
  BY <1>1
<1> QED
  BY <1>2, <1>3 DEF KvcInv, KeepsFreed, empty_cache

\* A step that carries the same kvcinfo as before, or none
LEMMA MoveInfo ==
    ASSUME ThreadInv, InfoInv, NEW t \in Thread, NEW r, Move(t, r), KeepsHeld, KeepsFreed,
           caches \in [DOMAIN caches -> Cache],
           ops' \in Nat, ops' <= ops, r.pc \in Before => th[t].pc \in Before /\ r.info = th[t].info
    PROVE  InfoInv'
<1>1. th'[t] = r /\ \A u \in Thread : u # t => th'[u] = th[u]
  BY MoveFacts
<1>2. \A u \in Thread : th'[u].pc \in Before => th[u].pc \in Before /\ th'[u].info = th[u].info
  BY <1>1
<1>5. ops \in Nat
  BY DEF ThreadInv
<1>6. \A n \in DOMAIN caches : \A x \in Held(caches, n) : x.id > ops'
  BY <1>5, HeldTypes DEF InfoInv
<1>7. \A id \in Nat : Freed("info", id) => id > ops'
  BY <1>5 DEF InfoInv
<1> QED
  BY <1>2, <1>6, <1>7 DEF InfoInv, KeepsFreed, KeepsHeld

\* A step that leaves the methods and the kvc cache alone
LEMMA MoveStale ==
    ASSUME ThreadInv, StaleInv, NEW t \in Thread, NEW r, Move(t, r), UNCHANGED <<kvc, gen, raced>>,
           Held(caches', kvc) \subseteq Held(caches, kvc), th[t].pc # "invalidate",
           r.pc \in Flying => th[t].pc \in Flying /\ r.info = th[t].info
    PROVE  StaleInv'
<1>1. th'[t] = r /\ \A u \in Thread : u # t => th'[u] = th[u]
  BY MoveFacts
<1>2. \A u \in Thread : th[u].pc = "invalidate" => th'[u].pc = "invalidate"
  BY <1>1
<1>3. \A x : Current(x) => Current(x)'
  BY <1>2 DEF Current
<1>4. \A u \in Thread : th'[u].pc \in Flying => th[u].pc \in Flying /\ th'[u].info = th[u].info
  BY <1>1
<1> QED
  BY <1>3, <1>4 DEF StaleInv

\* Arrays depend on nothing but the classes, the numbers and what is freed.
LEMMA KeepArray ==
    ASSUME ArrayInv, UNCHANGED <<protocolids, categoryids, next>>, DOMAIN caches \subseteq DOMAIN caches',
           \A n \in Nat : Freed("array", n)' <=> Freed("array", n), next \in Nat
    PROVE  ArrayInv'
BY DEF ArrayInv
LEMMA KeepFree ==
    ASSUME FreeInv, UNCHANGED freed, state' # "done"
    PROVE  FreeInv'
BY DEF FreeInv

----------------------------------------------------------------------------
(* Steps that free nothing and leave the caches alone *)

\* A step of a thread that goes on with the kvcinfo it carries, if it carries one
LEMMA MoveQuiet ==
    ASSUME IInv, NEW t \in Thread, NEW r, Move(t, r),
           UNCHANGED <<protocolids, categoryids, caches, kvc, gen, raced, next, freed>>, state' # "done",
           ops' \in Nat, ops' <= ops, todo' \in Seq(Operation),
           th[t].pc \notin {"free", "invalidate"}, r.pc # "free",
           r.pc \in {"copy", "cas"} => r.class \in Class,
           r.pc \in Flying => th[t].pc \in Flying /\ r.info = th[t].info,
           r.pc \in Before => th[t].pc \in Before,
           r.cache \in DOMAIN caches, r.pc \in {"claim", "key"} => r.cache # empty_cache
    PROVE  IInv'
<1>1. ThreadInv /\ CacheInv /\ ArrayInv /\ KvcInv /\ InfoInv /\ FreeInv /\ StaleInv
  BY DEF IInv
<1>2. th[t].info.id \in Nat /\ ops \in Nat /\ gen \in Nat
  BY <1>1, LocalTypes DEF ThreadInv
<1>3. r.pc \in Flying => r.info.key \in Key /\ r.info.id > ops'
  BY <1>1, <1>2 DEF ThreadInv
<1>4. ThreadInv'
  BY <1>1, <1>2, <1>3, MoveThread
<1>5. CacheInv'
  BY <1>1, MoveCache DEF CacheInv
<1>6. KeepsFreed /\ \A n : Freed("array", n)' <=> Freed("array", n)
  BY DEF KeepsFreed, Freed
<1>7. ArrayInv'
  BY <1>1, <1>6, KeepArray DEF CacheInv
<1>8. KvcInv'
  BY <1>1, <1>6, MoveKvc
<1>9. Before \subseteq Flying
  BY DEF Before, Flying
<1>10. KeepsHeld /\ Held(caches', kvc) \subseteq Held(caches, kvc)
  BY DEF KeepsHeld, Held
<1>11. FreeInv'
  BY <1>1, KeepFree
<1>12. InfoInv'
  BY <1>1, <1>6, <1>9, <1>10, MoveInfo DEF CacheInv
<1>13. StaleInv'
  BY <1>1, <1>10, MoveStale
<1> QED
  BY <1>4, <1>5, <1>7, <1>8, <1>11, <1>12, <1>13 DEF IInv

\* A step that changes nothing of what is proved about
LEMMA StayQuiet ==
    ASSUME IInv, NEW t \in Thread, th[t].pc = "idle",
           UNCHANGED <<protocolids, categoryids, caches, kvc, gen, raced, next, freed, th>>, state' # "done",
           ops' \in Nat, ops' <= ops, todo' \in Seq(Operation)
    PROVE  IInv'
<1>1. ThreadInv /\ CacheInv
  BY DEF IInv
<1>2. PICK I, C : th \in [Thread -> Local(I, C)]
  BY <1>1 DEF ThreadInv
<1>3. PICK r : r = th[t]
  OBVIOUS
<1>4. Move(t, r)
  BY <1>2, <1>3 DEF Move
<1>5. r.cache \in DOMAIN caches
  BY <1>1, <1>3 DEF CacheInv
<1>6. r.pc = "idle" /\ r.pc \notin Flying /\ r.pc \notin Before
  BY <1>3 DEF Flying, Before
<1> QED
  BY <1>4, <1>5, <1>6, MoveQuiet

\* What is left of a program after its first operation
LEMMA LoadTypes ==
    ASSUME todo \in Seq(Operation), todo # <<>>
    PROVE  Tail(todo) \in Seq(Operation) /\ Head(todo).class \in Class
<1>1. Head(todo) \in Operation /\ Tail(todo) \in Seq(Operation)
  OBVIOUS
<1>2. PICK p \in Programs : Head(todo) \in ToSet(p.todo)
  BY <1>1 DEF Operation
<1> QED
  BY <1>1, <1>2, ProgramAssumption

\* A thread that begins to add protocols
LEMMA NewProtocolsIsLocal ==
    ASSUME NEW c \in Class, NEW ps
    PROVE  /\ \E I, C : NewProtocols(c, ps) \in Local(I, C)
           /\ NewProtocols(c, ps).pc = "copy" /\ NewProtocols(c, ps).class = c
           /\ NewProtocols(c, ps).cache = 0
<1>1. PICK s : s = SetToSeq({p \in ps : ~has_protocolid(c, p)})
  OBVIOUS
<1>2. NewProtocols(c, ps) = [Idle EXCEPT !.pc = "copy", !.class = c, !.ids = s]
  BY <1>1 DEF NewProtocols
<1>3. PICK I, C : Idle \in Local(I, C)
  BY IdleIsLocal
<1>4. Idle.cache = 0
  BY IdleIsLocal
<1>5. [Idle EXCEPT !.pc = "copy", !.class = c, !.ids = s] \in Local(I \cup {s}, C)
  BY <1>3 DEF Local, Place
<1>6. /\ [Idle EXCEPT !.pc = "copy", !.class = c, !.ids = s].pc = "copy"
      /\ [Idle EXCEPT !.pc = "copy", !.class = c, !.ids = s].class = c
      /\ [Idle EXCEPT !.pc = "copy", !.class = c, !.ids = s].cache = 0
  BY <1>3, <1>4 DEF Local
<1> QED
  BY <1>2, <1>5, <1>6

LEMMA AddProtocolsQuiet ==
    ASSUME IInv, state = "running", NEW t \in Client, NEW c \in Adopters, NEW ps, AddProtocols(t, c, ps)
    PROVE  IInv'
<1>1. t \in Thread /\ c \in Class
  BY ClassAssumption DEF Thread
<1>2. PICK r : r = NewProtocols(c, ps)
  OBVIOUS
<1>3. Move(t, r)
  BY <1>1, <1>2, NewProtocolsIsLocal DEF Move, AddProtocols
<1>4. r.pc = "copy" /\ r.class \in Class /\ r.cache = 0
  BY <1>1, <1>2, NewProtocolsIsLocal
<1>5. r.pc \notin Flying /\ r.pc \notin Before
  BY <1>4 DEF Flying, Before
<1>6. ops \in Nat /\ todo \in Seq(Operation) /\ empty_cache \in DOMAIN caches
  BY DEF IInv, ThreadInv, CacheInv
<1>7. ops' \in Nat /\ ops' <= ops /\ th[t].pc = "idle" /\ todo' = todo /\ state' # "done"
      /\ UNCHANGED <<protocolids, categoryids, caches, kvc, gen, raced, next, freed>>
  BY <1>6 DEF AddProtocols, Start, content, kvccache
<1> QED
  BY <1>1, <1>3, <1>4, <1>5, <1>6, <1>7, MoveQuiet DEF empty_cache

LEMMA LoadProtocolsQuiet ==
    ASSUME IInv, state = "running", LoadProtocols
    PROVE  IInv'
<1>1. Loader \in Thread /\ ops \in Nat /\ todo \in Seq(Operation) /\ empty_cache \in DOMAIN caches
  BY DEF IInv, ThreadInv, CacheInv, Thread
<1>2. todo # <<>> /\ th[Loader].pc = "idle" /\ todo' = Tail(todo) /\ ops' = ops /\ state' # "done"
      /\ UNCHANGED <<protocolids, categoryids, caches, kvc, gen, raced, next, freed>>
  BY DEF LoadProtocols, Load, kvccache
<1>3. Head(todo).class \in Class /\ todo' \in Seq(Operation)
  BY <1>1, <1>2, LoadTypes
<1>c. PICK c \in Class : c = Head(todo).class
  BY <1>3
<1>p. PICK ps : ps = Head(todo).ids
  OBVIOUS
<1>4. PICK r : r = NewProtocols(c, ps)
  OBVIOUS
<1>5. Move(Loader, r)
  BY <1>c, <1>p, <1>4, NewProtocolsIsLocal DEF Move, LoadProtocols
<1>6. r.pc = "copy" /\ r.class \in Class /\ r.cache = 0
  BY <1>4, NewProtocolsIsLocal
<1>7. r.pc \notin Flying /\ r.pc \notin Before
  BY <1>6 DEF Flying, Before
<1> QED
  BY <1>1, <1>2, <1>3, <1>5, <1>6, <1>7, MoveQuiet DEF empty_cache

LEMMA AddCopyQuiet ==
    ASSUME IInv, state = "running", NEW t \in Thread, AddCopy(t)
    PROVE  IInv'
<1>1. ThreadInv /\ CacheInv /\ ArrayInv
  BY DEF IInv
<1>2. PICK I, C : th \in [Thread -> Local(I, C)]
  BY <1>1 DEF ThreadInv
<1>3. PICK a : a = protocolids[th[t].class]
  OBVIOUS
<1>4. PICK s : s = by_adding_ids(a.ids, th[t].ids)
  OBVIOUS
<1>5. th[t].pc = "copy" /\ th[t].class \in Class /\ th[t].cache \in DOMAIN caches
  BY <1>1 DEF AddCopy, ThreadInv, CacheInv
<1>6. a.at \in Nat
  BY <1>1, <1>3, <1>5 DEF ArrayInv
<1>7. PICK r : r = [th[t] EXCEPT !.pc = "cas", !.array = a.at, !.copy = s]
  OBVIOUS
<1>8. th' = [th EXCEPT ![t] = r]
  BY <1>2, <1>3, <1>4, <1>7 DEF AddCopy, Local
<1>9. r \in Local(I, C \cup {s}) /\ r.pc = "cas" /\ r.class = th[t].class /\ r.cache = th[t].cache
  BY <1>2, <1>6, <1>7 DEF Local, Place
<1>10. Move(t, r)
  BY <1>8, <1>9 DEF Move
<1>11. r.pc \notin Flying /\ r.pc \notin Before
  BY <1>9 DEF Flying, Before
<1>12. ops' \in Nat /\ ops' <= ops /\ todo' \in Seq(Operation) /\ state' # "done"
       /\ UNCHANGED <<protocolids, categoryids, caches, kvc, gen, raced, next, freed>>
  BY <1>1 DEF AddCopy, content, kvccache, ThreadInv
<1> QED
  BY <1>5, <1>9, <1>10, <1>11, <1>12, MoveQuiet

\* What the loader adds besides arrays of ids
Lists == SetMixin \/ AddMixin \/ AddIvarList \/ AddPropertyList \/ AddClassProperties \/ AddClassVariables
LEMMA ListsQuiet ==
    ASSUME IInv, state = "running", Lists
    PROVE  IInv'
<1>1. Loader \in Thread /\ ops \in Nat /\ todo \in Seq(Operation)
  BY DEF IInv, ThreadInv, Thread
<1>2. UNCHANGED <<protocolids, categoryids, caches, kvc, gen, raced, next, freed, th, ops>>
  BY DEF Lists, SetMixin, AddMixin, AddIvarList, AddPropertyList, AddClassProperties, AddClassVariables,
         Installs, kvccache
<1>3. th[Loader].pc = "idle" /\ todo # <<>> /\ todo' = Tail(todo)
  BY DEF Lists, SetMixin, AddMixin, AddIvarList, AddPropertyList, AddClassProperties, AddClassVariables, Load
<1>4. state' # "done"
  BY DEF Lists, SetMixin, AddMixin, AddIvarList, AddPropertyList, AddClassProperties, AddClassVariables
<1>5. todo' \in Seq(Operation)
  BY <1>1, <1>3, LoadTypes
<1> QED
  BY <1>1, <1>2, <1>3, <1>4, <1>5, StayQuiet

LEMMA SetReadQuiet ==
    ASSUME IInv, state = "running", NEW t \in Client, SetRead(t)
    PROVE  IInv'
<1>1. ThreadInv /\ CacheInv /\ t \in Thread
  BY DEF IInv, Thread
<1>2. PICK I, C : th \in [Thread -> Local(I, C)]
  BY <1>1 DEF ThreadInv
<1>3. PICK r, p : r = [th[t] EXCEPT !.cache = kvc, !.pc = p]
                  /\ p = (IF caches[kvc].n >= caches[kvc].size \div 2 THEN "swap" ELSE "claim")
  OBVIOUS
<1>4. th' = [th EXCEPT ![t] = r]
  BY <1>1, <1>2, <1>3 DEF SetRead, Local
<1>5. kvc \in Nat /\ kvc \in DOMAIN caches
  BY <1>1 DEF CacheInv
<1>6. r \in Local(I, C) /\ r.pc \in {"swap", "claim"} /\ r.cache = kvc /\ r.info = th[t].info
  BY <1>1, <1>2, <1>3, <1>5 DEF Local, Place, Flying
<1>7. Move(t, r)
  BY <1>4, <1>6 DEF Move
<1>8. kvc = empty_cache => r.pc = "swap"
  <2> SUFFICES ASSUME kvc = empty_cache PROVE r.pc = "swap"
    OBVIOUS
  <2>1. caches[kvc] = NewCache(1)
    BY <1>1 DEF CacheInv
  <2>2. caches[kvc].n = 0 /\ caches[kvc].size = 1
    BY <2>1 DEF NewCache
  <2>3. 0 >= 1 \div 2
    OBVIOUS
  <2>4. p = "swap"
    BY <1>3, <2>2, <2>3
  <2> QED
    BY <1>1, <1>2, <1>3, <2>4 DEF Local
<1>9. th[t].pc = "set" /\ ops' \in Nat /\ ops' <= ops /\ todo' \in Seq(Operation) /\ state' # "done"
      /\ UNCHANGED <<protocolids, categoryids, caches, kvc, gen, raced, next, freed>>
  BY <1>1 DEF SetRead, content, kvccache, ThreadInv
<1>10. th[t].pc \in Flying /\ th[t].pc \in Before
  BY <1>9 DEF Flying, Before
<1> QED
  BY <1>1, <1>5, <1>6, <1>7, <1>8, <1>9, <1>10, MoveQuiet

----------------------------------------------------------------------------
(* Arrays of ids *)

\* An array replaces another one of the same class, which is freed.
LEMMA NewProtocolArray ==
    ASSUME ArrayInv, next \in Nat \ {0}, \A x \in BagToSet(freed) : freed[x] = 1, NEW c \in Class, NEW a,
           a.at = next, protocolids' = [protocolids EXCEPT ![c] = a], UNCHANGED <<categoryids, caches>>,
           next' = next + 1, freed' = freed (+) Freeing("array", protocolids[c].at)
    PROVE  ArrayInv' /\ KeepsFreed /\ \A x \in BagToSet(freed') : freed'[x] = 1
<1>o. PICK o : o = protocolids[c].at
  OBVIOUS
<1>S. PICK S : S = IF o = 0 THEN {} ELSE {<<"array", o>>}
  OBVIOUS
<1>1. o \in 0..(next - 1) /\ (o # 0 => ~Freed("array", o))
  BY <1>o DEF ArrayInv
<1>2. S \cap BagToSet(freed) = {}
  BY <1>S, <1>1 DEF Freed
<1>3. freed' = freed (+) SetToBag(S)
  BY <1>o, <1>S, FreeingIs
<1>4. BagToSet(freed') = BagToSet(freed) \cup S /\ \A x \in BagToSet(freed') : freed'[x] = 1
  BY <1>2, <1>3, FreeOnce
<1>5. KeepsFreed
  BY <1>4, <1>S DEF KeepsFreed, Freed
<1>6. \A n : Freed("array", n)' <=> Freed("array", n) \/ (n = o /\ o # 0)
  BY <1>4, <1>S DEF Freed
<1>7. DOMAIN protocolids' = Class /\ protocolids'[c].at = next
      /\ \A d \in Class : d # c => protocolids'[d].at = protocolids[d].at
  BY DEF ArrayInv
<1>8. \A d \in Class : protocolids[d].at \in 0..(next - 1) /\ categoryids[d].at \in 0..(next - 1)
  BY DEF ArrayInv
<1>9. \A d \in Class : protocolids'[d].at \in 0..next /\ (protocolids'[d].at = next <=> d = c)
  BY <1>7, <1>8
<1>10. \A d, e \in Class : protocolids'[d].at = protocolids'[e].at => d = e \/ protocolids'[d].at = 0
  BY <1>7, <1>9 DEF ArrayInv
<1>11. \A d, e \in Class : protocolids'[d].at = categoryids[e].at => protocolids'[d].at = 0
  BY <1>7, <1>8 DEF ArrayInv
<1>12. \A n \in Nat : Freed("array", n)' => n \in 1..next
                         /\ \A d \in Class : protocolids'[d].at # n /\ categoryids[d].at # n
  <2> SUFFICES ASSUME NEW n \in Nat, Freed("array", n)', NEW d \in Class
               PROVE  n \in 1..next /\ protocolids'[d].at # n /\ categoryids[d].at # n
    BY <1>1, <1>6 DEF ArrayInv
  <2>1. CASE Freed("array", n)
    BY <2>1, <1>7 DEF ArrayInv
  <2>2. CASE n = o /\ o # 0
    BY <2>2, <1>o, <1>1, <1>7 DEF ArrayInv
  <2> QED
    BY <1>6, <2>1, <2>2
<1>13. \A n \in 1..next : \/ n \in DOMAIN caches \/ Freed("array", n)'
                          \/ \E d \in Class : protocolids'[d].at = n \/ categoryids[d].at = n
  <2> SUFFICES ASSUME NEW n \in 1..next, n \notin DOMAIN caches, ~Freed("array", n)'
               PROVE  \E d \in Class : protocolids'[d].at = n \/ categoryids[d].at = n
    OBVIOUS
  <2>1. CASE n = next
    BY <2>1, <1>7
  <2>2. CASE n # next
    <3>1. PICK d \in Class : protocolids[d].at = n \/ categoryids[d].at = n
      BY <2>2, <1>6 DEF ArrayInv
    <3> QED
      BY <3>1, <1>6, <1>7, <1>o
  <2> QED
    BY <2>1, <2>2
<1>14. next' - 1 = next
  OBVIOUS
<1>15. \A d, e \in Class : categoryids[d].at = categoryids[e].at => d = e \/ categoryids[d].at = 0
  BY DEF ArrayInv
<1>16. ArrayInv'
  BY <1>7, <1>8, <1>9, <1>10, <1>11, <1>12, <1>13, <1>14, <1>15 DEF ArrayInv
<1> QED
  BY <1>4, <1>5, <1>16

LEMMA NewCategoryArray ==
    ASSUME ArrayInv, next \in Nat \ {0}, \A x \in BagToSet(freed) : freed[x] = 1, NEW c \in Class, NEW a,
           a.at = next, categoryids' = [categoryids EXCEPT ![c] = a], UNCHANGED <<protocolids, caches>>,
           next' = next + 1, freed' = freed (+) Freeing("array", categoryids[c].at)
    PROVE  ArrayInv' /\ KeepsFreed /\ \A x \in BagToSet(freed') : freed'[x] = 1
<1>o. PICK o : o = categoryids[c].at
  OBVIOUS
<1>S. PICK S : S = IF o = 0 THEN {} ELSE {<<"array", o>>}
  OBVIOUS
<1>1. o \in 0..(next - 1) /\ (o # 0 => ~Freed("array", o))
  BY <1>o DEF ArrayInv
<1>2. S \cap BagToSet(freed) = {}
  BY <1>S, <1>1 DEF Freed
<1>3. freed' = freed (+) SetToBag(S)
  BY <1>o, <1>S, FreeingIs
<1>4. BagToSet(freed') = BagToSet(freed) \cup S /\ \A x \in BagToSet(freed') : freed'[x] = 1
  BY <1>2, <1>3, FreeOnce
<1>5. KeepsFreed
  BY <1>4, <1>S DEF KeepsFreed, Freed
<1>6. \A n : Freed("array", n)' <=> Freed("array", n) \/ (n = o /\ o # 0)
  BY <1>4, <1>S DEF Freed
<1>7. DOMAIN categoryids' = Class /\ categoryids'[c].at = next
      /\ \A d \in Class : d # c => categoryids'[d].at = categoryids[d].at
  BY DEF ArrayInv
<1>8. \A d \in Class : categoryids[d].at \in 0..(next - 1) /\ protocolids[d].at \in 0..(next - 1)
  BY DEF ArrayInv
<1>9. \A d \in Class : categoryids'[d].at \in 0..next /\ (categoryids'[d].at = next <=> d = c)
  BY <1>7, <1>8
<1>10. \A d, e \in Class : categoryids'[d].at = categoryids'[e].at => d = e \/ categoryids'[d].at = 0
  BY <1>7, <1>9 DEF ArrayInv
<1>11. \A d, e \in Class : protocolids[d].at = categoryids'[e].at => protocolids[d].at = 0
  BY <1>7, <1>8 DEF ArrayInv
<1>12. \A n \in Nat : Freed("array", n)' => n \in 1..next
                         /\ \A d \in Class : categoryids'[d].at # n /\ protocolids[d].at # n
  <2> SUFFICES ASSUME NEW n \in Nat, Freed("array", n)', NEW d \in Class
               PROVE  n \in 1..next /\ categoryids'[d].at # n /\ protocolids[d].at # n
    BY <1>1, <1>6 DEF ArrayInv
  <2>1. CASE Freed("array", n)
    BY <2>1, <1>7 DEF ArrayInv
  <2>2. CASE n = o /\ o # 0
    BY <2>2, <1>o, <1>1, <1>7 DEF ArrayInv
  <2> QED
    BY <1>6, <2>1, <2>2
<1>13. \A n \in 1..next : \/ n \in DOMAIN caches \/ Freed("array", n)'
                          \/ \E d \in Class : categoryids'[d].at = n \/ protocolids[d].at = n
  <2> SUFFICES ASSUME NEW n \in 1..next, n \notin DOMAIN caches, ~Freed("array", n)'
               PROVE  \E d \in Class : categoryids'[d].at = n \/ protocolids[d].at = n
    OBVIOUS
  <2>1. CASE n = next
    BY <2>1, <1>7
  <2>2. CASE n # next
    <3>1. PICK d \in Class : categoryids[d].at = n \/ protocolids[d].at = n
      BY <2>2, <1>6 DEF ArrayInv
    <3> QED
      BY <3>1, <1>6, <1>7, <1>o
  <2> QED
    BY <2>1, <2>2
<1>14. next' - 1 = next
  OBVIOUS
<1>15. \A d, e \in Class : protocolids[d].at = protocolids[e].at => d = e \/ protocolids[d].at = 0
  BY DEF ArrayInv
<1>16. ArrayInv'
  BY <1>7, <1>8, <1>9, <1>10, <1>11, <1>12, <1>13, <1>14, <1>15 DEF ArrayInv
<1> QED
  BY <1>4, <1>5, <1>16

\* Nothing else depends on arrays: the step of a thread that carries no kvcinfo
LEMMA MoveArray ==
    ASSUME IInv, NEW t \in Thread, NEW r, Move(t, r), UNCHANGED <<caches, kvc, gen, raced, ops>>,
           ArrayInv', KeepsFreed, \A x \in BagToSet(freed') : freed'[x] = 1, next' = next + 1,
           todo' \in Seq(Operation), state' # "done", th[t].pc \in {"idle", "cas"}, r.pc = "idle", r.cache = 0
    PROVE  IInv'
<1>1. ThreadInv /\ CacheInv /\ ArrayInv /\ KvcInv /\ InfoInv /\ FreeInv /\ StaleInv
  BY DEF IInv
<1>2. r.pc \notin Flying /\ r.pc \notin Before
  BY DEF Flying, Before
<1>3. ops \in Nat /\ gen \in Nat
  BY <1>1 DEF ThreadInv
<1>4. ThreadInv'
  BY <1>1, <1>2, <1>3, MoveThread
<1>5. CacheInv'
  BY <1>1, MoveCache DEF CacheInv, empty_cache
<1>6. KvcInv'
  BY <1>1, MoveKvc
<1>7. KeepsHeld /\ Held(caches', kvc) \subseteq Held(caches, kvc)
  BY DEF KeepsHeld, Held
<1>8. FreeInv'
  BY DEF FreeInv
<1>9. InfoInv'
  BY <1>1, <1>2, <1>3, <1>7, MoveInfo DEF CacheInv
<1>10. StaleInv'
  BY <1>1, <1>2, <1>7, MoveStale
<1> QED
  BY <1>4, <1>5, <1>6, <1>8, <1>9, <1>10 DEF IInv

\* The same where no thread moves
LEMMA StayArray ==
    ASSUME IInv, UNCHANGED <<caches, kvc, gen, raced, ops, th>>,
           ArrayInv', KeepsFreed, \A x \in BagToSet(freed') : freed'[x] = 1, next' = next + 1,
           todo' \in Seq(Operation), state' # "done"
    PROVE  IInv'
<1>1. ThreadInv /\ CacheInv /\ KvcInv /\ InfoInv /\ FreeInv /\ StaleInv
  BY DEF IInv
<1>2. ThreadInv'
  BY <1>1 DEF ThreadInv
<1>3. CacheInv'
  BY <1>1 DEF CacheInv, NewCache, empty_cache
<1>4. KvcInv'
  BY <1>1 DEF KvcInv, KeepsFreed, empty_cache
<1>5. InfoInv'
  BY <1>1 DEF InfoInv, KeepsFreed, Held
<1>6. FreeInv'
  BY DEF FreeInv
<1>7. StaleInv'
  BY <1>1 DEF StaleInv, Current, Held
<1> QED
  BY <1>2, <1>3, <1>4, <1>5, <1>6, <1>7 DEF IInv

LEMMA AddExchangeKeeps ==
    ASSUME IInv, state = "running", NEW t \in Thread, AddExchange(t)
    PROVE  IInv'
<1>1. ThreadInv /\ CacheInv /\ ArrayInv /\ FreeInv
  BY DEF IInv
<1>2. PICK I, C : th \in [Thread -> Local(I, C)]
  BY <1>1 DEF ThreadInv
<1>3. th[t].pc = "cas" /\ th[t].class \in Class /\ th[t].cache \in DOMAIN caches /\ next \in Nat \ {0}
  BY <1>1 DEF AddExchange, ThreadInv, CacheInv
<1>4. UNCHANGED <<categoryids, caches, kvc, gen, raced, ops, todo>> /\ state' # "done"
  BY DEF AddExchange, kvccache, content
<1>c. PICK c \in Class : c = th[t].class
  BY <1>3
<1>5. CASE protocolids[c].at = th[t].array
  <2>1. PICK a : a = [at |-> next, ids |-> th[t].copy]
    OBVIOUS
  <2>2. protocolids' = [protocolids EXCEPT ![c] = a]
    BY <1>5, <1>c, <2>1 DEF AddExchange
  <2>3. freed' = freed (+) Freeing("array", protocolids[c].at) /\ next' = next + 1
    BY <1>5, <1>c DEF AddExchange
  <2>4. a.at = next
    BY <2>1
  <2>5. ArrayInv' /\ KeepsFreed /\ \A x \in BagToSet(freed') : freed'[x] = 1
    BY <1>1, <1>3, <1>4, <2>2, <2>3, <2>4, NewProtocolArray DEF FreeInv
  <2>6. PICK r : r = Idle
    OBVIOUS
  <2>7. Move(t, r) /\ r.pc = "idle" /\ r.cache = 0
    BY <1>5, <1>c, <2>6, IdleIsLocal DEF AddExchange, Move
  <2> QED
    BY <1>1, <1>3, <1>4, <2>3, <2>5, <2>7, MoveArray DEF ThreadInv
<1>6. CASE protocolids[c].at # th[t].array
  <2>1. PICK r : r = [th[t] EXCEPT !.pc = "copy"]
    OBVIOUS
  <2>2. r \in Local(I, C) /\ r.pc = "copy" /\ r.class = th[t].class /\ r.cache = th[t].cache
    BY <1>2, <2>1 DEF Local, Place
  <2>3. th' = [th EXCEPT ![t] = r] /\ UNCHANGED <<protocolids, next, freed>>
    BY <1>2, <1>6, <1>c, <2>1 DEF AddExchange, Local
  <2>4. Move(t, r)
    BY <2>2, <2>3 DEF Move
  <2>5. r.pc \notin Flying /\ r.pc \notin Before /\ ops \in Nat /\ todo \in Seq(Operation)
    BY <1>1, <2>2 DEF Flying, Before, ThreadInv
  <2> QED
    BY <1>3, <1>4, <2>2, <2>3, <2>4, <2>5, MoveQuiet
<1> QED
  BY <1>5, <1>6

LEMMA AddCategoryKeeps ==
    ASSUME IInv, state = "running", AddCategory
    PROVE  IInv'
<1>1. ThreadInv /\ CacheInv /\ ArrayInv /\ FreeInv /\ Loader \in Thread
  BY DEF IInv, Thread
<1>2. /\ todo # <<>> /\ todo' = Tail(todo) /\ th[Loader].pc = "idle"
      /\ UNCHANGED <<protocolids, caches, kvc, gen, raced, ops, th>> /\ state' # "done"
  BY DEF AddCategory, Load, Installs, kvccache
<1>3. todo' \in Seq(Operation) /\ Head(todo).class \in Class
  BY <1>1, <1>2, LoadTypes DEF ThreadInv
<1>c. PICK c \in Class : c = Head(todo).class
  BY <1>3
<1>i. PICK id : id = Head(todo).id
  OBVIOUS
<1>4. CASE has_categoryid(c, id)
  <2>1. UNCHANGED <<categoryids, next, freed>>
    BY <1>4, <1>c, <1>i DEF AddCategory
  <2> QED
    BY <1>1, <1>2, <1>3, <2>1, StayQuiet DEF ThreadInv
<1>5. CASE ~has_categoryid(c, id)
  <2>1. PICK a : a = [at |-> next, ids |-> by_adding_ids(categoryids[c].ids, <<id>>)]
    OBVIOUS
  <2>2. categoryids' = [categoryids EXCEPT ![c] = a]
    BY <1>5, <1>c, <1>i, <2>1 DEF AddCategory
  <2>3. freed' = freed (+) Freeing("array", categoryids[c].at) /\ next' = next + 1
    BY <1>5, <1>c, <1>i DEF AddCategory
  <2>4. a.at = next
    BY <2>1
  <2>5. ArrayInv' /\ KeepsFreed /\ \A x \in BagToSet(freed') : freed'[x] = 1
    BY <1>1, <1>2, <2>2, <2>3, <2>4, NewCategoryArray DEF FreeInv, CacheInv
  <2> QED
    BY <1>1, <1>2, <1>3, <2>3, <2>5, StayArray
<1> QED
  BY <1>4, <1>5

----------------------------------------------------------------------------
(* The kvc cache *)

\* A kvcinfo that a lookup makes has an id that is in no cache and in no hands.
LEMMA LookupKeeps ==
    ASSUME IInv, state = "running", NEW t \in Client, NEW key \in Key, Lookup(t, key)
    PROVE  IInv'
<1>1. ThreadInv /\ CacheInv /\ ArrayInv /\ KvcInv /\ InfoInv /\ FreeInv /\ StaleInv /\ t \in Thread
  BY DEF IInv, Thread
<1>2. ops \in Nat /\ gen \in Nat /\ todo \in Seq(Operation)
  BY <1>1 DEF ThreadInv
<1>3. th[t].pc = "idle" /\ ops > 0 /\ ops' = ops - 1 /\ state' # "done" /\ todo' = todo
      /\ UNCHANGED <<protocolids, categoryids, caches, kvc, gen, raced, next, freed>>
  BY DEF Lookup, Start, kvccache, content
<1>4. ops' \in Nat /\ ops' <= ops
  BY <1>2, <1>3
<1>x. PICK x : x = [id |-> ops, key |-> key, gen |-> gen]
  OBVIOUS
<1>r. PICK r : r = [Idle EXCEPT !.pc = "set", !.info = x]
  OBVIOUS
<1>5. CASE UNCHANGED th
  BY <1>1, <1>2, <1>3, <1>4, <1>5, StayQuiet
<1>6. CASE th' = [th EXCEPT ![t] = r]
  <2>1. x \in Info /\ x.id = ops /\ x.key = key /\ x.gen = gen
    BY <1>2, <1>x DEF Info
  <2>2. PICK I, C : Idle \in Local(I, C)
    BY IdleIsLocal
  <2>3. r \in Local(I, C) /\ r.pc = "set" /\ r.info = x /\ r.cache = 0
    BY <1>r, <2>1, <2>2, IdleIsLocal DEF Local, Place, Flying
  <2>4. Move(t, r)
    BY <1>6, <2>3 DEF Move
  <2>5. th'[t] = r /\ \A u \in Thread : u # t => th'[u] = th[u]
    BY <1>1, <2>4, MoveFacts
  <2>6. ThreadInv'
    BY <1>1, <1>2, <1>3, <1>4, <2>1, <2>3, <2>4, MoveThread
  <2>7. CacheInv'
    BY <1>1, <1>3, <2>3, <2>4, MoveCache DEF CacheInv, empty_cache
  <2>8. KeepsFreed /\ \A n : Freed("array", n)' <=> Freed("array", n)
    BY <1>3 DEF KeepsFreed, Freed
  <2>9. ArrayInv'
    BY <1>1, <1>3, <2>8, KeepArray DEF CacheInv
  <2>10. KvcInv'
    BY <1>1, <1>3, <2>3, <2>4, <2>8, MoveKvc
  <2>11. \A n \in DOMAIN caches : \A y \in Held(caches, n) : y.id > ops /\ y.id \in Nat
    BY <1>1, HeldTypes DEF InfoInv, CacheInv
  <2>12. \A u \in Thread : th[u].pc \in Before => th[u].info.id > ops /\ th[u].info.id \in Nat
    BY <1>1, LocalTypes DEF ThreadInv, Before, Flying
  <2>13. \A id \in Nat : Freed("info", id) => id > ops
    BY <1>1 DEF InfoInv
  <2>14. InfoInv'
    <3>1. /\ \A n \in DOMAIN caches : \A y \in Held(caches, n) : y.id > ops'
          /\ \A id \in Nat : Freed("info", id) => id > ops'
      BY <1>2, <1>3, <2>11, <2>13
    <3>2. \A u \in Thread : th'[u].pc \in Before =>
             \A n \in DOMAIN caches : \A y \in Held(caches, n) : y.id # th'[u].info.id
      BY <1>1, <1>2, <2>1, <2>3, <2>5, <2>11 DEF InfoInv
    <3>3. \A u, v \in Thread : th'[u].pc \in Before /\ th'[v].pc \in Before /\ th'[u].info.id = th'[v].info.id => u = v
      BY <1>1, <1>2, <2>1, <2>3, <2>5, <2>12 DEF InfoInv
    <3>4. \A id \in Nat : Freed("info", id) => \A u \in Thread : th'[u].pc \in Before => th'[u].info.id # id
      BY <1>1, <1>2, <2>1, <2>3, <2>5, <2>13 DEF InfoInv
    <3>5. \A n : Held(caches', n) = Held(caches, n)
      BY <1>3 DEF Held
    <3> QED
      BY <1>1, <1>3, <2>8, <3>1, <3>2, <3>3, <3>4, <3>5 DEF InfoInv, KeepsFreed
  <2>15. FreeInv'
    BY <1>1, <1>3, KeepFree
  <2>16. StaleInv'
    <3>1. \A y : Current(y) => Current(y)'
      BY <1>3, <2>5 DEF Current
    <3>2. Current(x)'
      BY <1>3, <2>1 DEF Current
    <3>3. Held(caches', kvc') = Held(caches, kvc)
      BY <1>3 DEF Held
    <3> QED
      BY <1>1, <2>3, <2>5, <3>1, <3>2, <3>3 DEF StaleInv
  <2> QED
    BY <2>6, <2>7, <2>9, <2>10, <2>14, <2>15, <2>16 DEF IInv
<1> QED
  BY <1>5, <1>6, <1>x, <1>r DEF Lookup

\* Methods were added: until the invalidation all kvcinfos may be old.
LEMMA AddMethodsKeeps ==
    ASSUME IInv, state = "running", NEW t \in Client, AddMethods(t)
    PROVE  IInv'
<1>1. ThreadInv /\ CacheInv /\ ArrayInv /\ KvcInv /\ InfoInv /\ FreeInv /\ StaleInv /\ t \in Thread
  BY DEF IInv, Thread
<1>2. ops \in Nat /\ gen \in Nat /\ todo \in Seq(Operation)
  BY <1>1 DEF ThreadInv
<1>3. th[t].pc = "idle" /\ ops > 0 /\ ops' = ops - 1 /\ gen' = gen + 1 /\ state' # "done" /\ todo' = todo
      /\ UNCHANGED <<protocolids, categoryids, caches, kvc, raced, next, freed>>
  BY DEF AddMethods, Start, kvccache, content
<1>4. ops' \in Nat /\ ops' <= ops /\ gen' \in Nat
  BY <1>2, <1>3
<1>r. PICK r : r = [Idle EXCEPT !.pc = "invalidate"]
  OBVIOUS
<1>5. PICK I, C : Idle \in Local(I, C)
  BY IdleIsLocal
<1>6. r \in Local(I, C) /\ r.pc = "invalidate" /\ r.cache = 0
  BY <1>r, <1>5, IdleIsLocal DEF Local, Place
<1>7. Move(t, r)
  BY <1>6, <1>r DEF Move, AddMethods
<1>8. th'[t] = r
  BY <1>1, <1>7, MoveFacts
<1>9. r.pc \notin Flying /\ r.pc \notin Before
  BY <1>6 DEF Flying, Before
<1>10. ThreadInv'
  BY <1>1, <1>2, <1>3, <1>4, <1>6, <1>7, <1>9, MoveThread
<1>11. CacheInv'
  BY <1>1, <1>3, <1>6, <1>7, MoveCache DEF CacheInv, empty_cache
<1>12. KeepsFreed /\ \A n : Freed("array", n)' <=> Freed("array", n)
  BY <1>3 DEF KeepsFreed, Freed
<1>13. ArrayInv'
  BY <1>1, <1>3, <1>12, KeepArray DEF CacheInv
<1>14. KvcInv'
  BY <1>1, <1>3, <1>6, <1>7, <1>12, MoveKvc
<1>h. KeepsHeld
  BY <1>3 DEF KeepsHeld, Held
<1>15. InfoInv'
  BY <1>1, <1>3, <1>4, <1>7, <1>9, <1>12, <1>h, MoveInfo DEF CacheInv
<1>16. FreeInv'
  BY <1>1, <1>3, KeepFree
<1>17. StaleInv'
  BY <1>1, <1>6, <1>8 DEF StaleInv, Current
<1> QED
  BY <1>10, <1>11, <1>13, <1>14, <1>15, <1>16, <1>17 DEF IInv

\* A kvcinfo goes into a slot of cache c, which may be the current one or not.
\* It leaves the hands of t for good.
LEMMA InfoArrives ==
    ASSUME IInv, NEW t \in Thread, th[t].pc \in Before, NEW r, Move(t, r), r.pc \notin Before,
           NEW c \in DOMAIN caches', UNCHANGED <<freed, ops>>,
           DOMAIN caches \subseteq DOMAIN caches', DOMAIN caches' \subseteq DOMAIN caches \cup {c},
           \A n \in DOMAIN caches : n # c => Held(caches', n) = Held(caches, n),
           Held(caches', c) \subseteq (IF c \in DOMAIN caches THEN Held(caches, c) ELSE {}) \cup {th[t].info}
    PROVE  InfoInv'
<1>1. ThreadInv /\ InfoInv
  BY DEF IInv
<1>2. th'[t] = r /\ \A u \in Thread : u # t => th'[u] = th[u]
  BY <1>1, MoveFacts
<1>x. PICK x : x = th[t].info
  OBVIOUS
<1>3. x.id > ops
  BY <1>1, <1>x DEF ThreadInv, Before, Flying
<1>4. \A n \in DOMAIN caches' : \A y \in Held(caches', n) :
         \/ y = x /\ n = c
         \/ n \in DOMAIN caches /\ y \in Held(caches, n)
  BY <1>x
<1>5. \A n \in DOMAIN caches : \A y \in Held(caches, n) : y.id # x.id
  BY <1>1, <1>x DEF InfoInv
<1>6. \A n \in DOMAIN caches' : \A y \in Held(caches', n) : y.id > ops
  BY <1>1, <1>3, <1>4 DEF InfoInv
<1>7. \A m, n \in DOMAIN caches' : \A y \in Held(caches', m), z \in Held(caches', n) : y.id = z.id => m = n
  BY <1>1, <1>4, <1>5 DEF InfoInv
<1>8. \A u \in Thread : th'[u].pc \in Before => u # t /\ th'[u] = th[u] /\ th[u].info.id # x.id
  BY <1>1, <1>2, <1>x DEF InfoInv
<1>9. \A u \in Thread : th'[u].pc \in Before =>
          \A n \in DOMAIN caches' : \A y \in Held(caches', n) : y.id # th'[u].info.id
  BY <1>1, <1>4, <1>8 DEF InfoInv
<1>10. \A u, v \in Thread : th'[u].pc \in Before /\ th'[v].pc \in Before /\ th'[u].info.id = th'[v].info.id => u = v
  BY <1>1, <1>8 DEF InfoInv
<1>11. \A k, n : Freed(k, n)' <=> Freed(k, n)
  BY DEF Freed
<1>12. \A id \in Nat : Freed("info", id) =>
          /\ id > ops
          /\ \A u \in Thread : th'[u].pc \in Before => th'[u].info.id # id
          /\ \A n \in DOMAIN caches' : \A y \in Held(caches', n) : y.id = id => Freed("cache", n)
  <2> SUFFICES ASSUME NEW id \in Nat, Freed("info", id)
               PROVE  /\ id > ops
                      /\ \A u \in Thread : th'[u].pc \in Before => th'[u].info.id # id
                      /\ \A n \in DOMAIN caches' : \A y \in Held(caches', n) : y.id = id => Freed("cache", n)
    OBVIOUS
  <2>1. id > ops /\ x.id # id
    BY <1>1, <1>x DEF InfoInv
  <2>2. \A u \in Thread : th'[u].pc \in Before => th'[u].info.id # id
    BY <1>1, <1>8 DEF InfoInv
  <2>3. \A n \in DOMAIN caches' : \A y \in Held(caches', n) : y.id = id => Freed("cache", n)
    BY <1>1, <1>4, <2>1 DEF InfoInv
  <2> QED
    BY <2>1, <2>2, <2>3
<1> QED
  BY <1>6, <1>7, <1>9, <1>10, <1>11, <1>12 DEF InfoInv

LEMMA ClaimKeeps ==
    ASSUME IInv, state = "running", NEW t \in Client, Claim(t)
    PROVE  IInv'
<1>1. ThreadInv /\ CacheInv /\ ArrayInv /\ KvcInv /\ InfoInv /\ FreeInv /\ StaleInv /\ t \in Thread
  BY DEF IInv, Thread
<1>2. PICK I, C : th \in [Thread -> Local(I, C)]
  BY <1>1 DEF ThreadInv
<1>3. th[t].pc = "claim" /\ th[t].cache \in DOMAIN caches /\ th[t].cache # empty_cache
  BY <1>1 DEF Claim, CacheInv
<1>4. UNCHANGED <<protocolids, categoryids, kvc, gen, raced, next, freed, ops, todo>> /\ state' # "done"
  BY DEF Claim, content
<1>5. ops \in Nat /\ gen \in Nat /\ todo \in Seq(Operation)
  BY <1>1 DEF ThreadInv
<1>c. PICK c \in DOMAIN caches : c = th[t].cache
  BY <1>3
<1>x. PICK x \in Info : x = th[t].info
  BY <1>1, LocalTypes
<1>i. PICK i : i = Probe(caches[c], KeyId[x.key])
  OBVIOUS
<1>6. CASE caches[c].slot[i].info # NoInfo
  <2>1. th' = [th EXCEPT ![t] = Idle] /\ UNCHANGED caches
    BY <1>6, <1>c, <1>x, <1>i DEF Claim
  <2>2. PICK r : r = Idle
    OBVIOUS
  <2>3. Move(t, r) /\ r.pc = "idle" /\ r.cache = 0
    BY <2>1, <2>2, IdleIsLocal DEF Move
  <2>4. r.pc \notin Flying /\ r.pc \notin Before
    BY <2>3 DEF Flying, Before
  <2>5. 0 \in DOMAIN caches
    BY <1>1 DEF CacheInv, empty_cache
  <2> QED
    BY <1>1, <1>3, <1>4, <1>5, <2>1, <2>3, <2>4, <2>5, MoveQuiet
<1>7. CASE caches[c].slot[i].info = NoInfo
  <2>1. PICK r : r = [th[t] EXCEPT !.pc = "key"]
    OBVIOUS
  <2>2. r \in Local(I, C) /\ r.pc = "key" /\ r.info = x /\ r.cache = c
    BY <1>1, <1>2, <1>c, <1>x, <2>1 DEF Local, Place, Flying
  <2>3. th' = [th EXCEPT ![t] = r]
    BY <1>1, <1>2, <1>7, <1>c, <1>x, <1>i, <2>1 DEF Claim, Local
  <2>4. Move(t, r)
    BY <2>2, <2>3 DEF Move
  <2>5. caches' = Put(caches, c, i, x)
    BY <1>7, <1>c, <1>x, <1>i DEF Claim, Put
  <2>6. caches \in [DOMAIN caches -> Cache]
    BY <1>1 DEF CacheInv
  <2>7. /\ DOMAIN caches' = DOMAIN caches
        /\ caches' \in [DOMAIN caches -> Cache]
        /\ \A n \in DOMAIN caches : n # c => caches'[n] = caches[n]
    BY <2>5, <2>6, PutHolds
  <2>8. Held(caches', c) \subseteq Held(caches, c) \cup {x}
    BY <2>5, <2>6, PutHolds
  <2>9. \A n \in DOMAIN caches : n # c => Held(caches', n) = Held(caches, n)
    BY <2>7 DEF Held
  <2>10. th'[t] = r /\ \A u \in Thread : u # t => th'[u] = th[u]
    BY <1>1, <2>4, MoveFacts
  <2>11. ThreadInv'
    <3>1. x.key \in Key /\ x.id > ops
      BY <1>1, <1>3, <1>x DEF ThreadInv, Flying
    <3> QED
      BY <1>1, <1>4, <1>5, <2>2, <2>4, <3>1, MoveThread
  <2>12. CacheInv'
    <3>1. /\ \A u \in Thread : th'[u].cache \in DOMAIN caches
          /\ \A u \in Thread : th'[u].pc \in {"claim", "key", "free"} => th'[u].cache # empty_cache
      BY <1>1, <1>3, <1>c, <2>2, <2>10 DEF CacheInv
    <3>2. caches'[empty_cache] = caches[empty_cache]
      BY <1>1, <1>3, <1>c, <2>7 DEF CacheInv
    <3> QED
      BY <1>1, <1>4, <2>7, <3>1, <3>2 DEF CacheInv, empty_cache, NewCache
  <2>13. KeepsFreed /\ \A n : Freed("array", n)' <=> Freed("array", n)
    BY <1>4 DEF KeepsFreed, Freed
  <2>14. ArrayInv'
    BY <1>1, <1>4, <2>7, <2>13, KeepArray DEF CacheInv
  <2>15. KvcInv'
    BY <1>1, <1>3, <1>4, <2>2, <2>4, <2>7, <2>13, MoveKvc
  <2>16. InfoInv'
    <3>1. th[t].pc \in Before /\ r.pc \notin Before
      BY <1>3, <2>2 DEF Before
    <3>2. Held(caches', c) \subseteq (IF c \in DOMAIN caches THEN Held(caches, c) ELSE {}) \cup {th[t].info}
      BY <1>x, <2>8
    <3>3. c \in DOMAIN caches'
      BY <2>7
    <3> QED
      BY <1>1, <1>4, <2>4, <2>7, <2>9, <3>1, <3>2, <3>3, InfoArrives
  <2>17. FreeInv'
    BY <1>1, <1>4, KeepFree
  <2>18. StaleInv'
    <3>1. Current(x)
      BY <1>1, <1>3, <1>x DEF StaleInv, Flying
    <3>2. \A y : Current(y) => Current(y)'
      BY <1>3, <1>4, <2>10 DEF Current
    <3>3. Held(caches', kvc) \subseteq Held(caches, kvc) \cup {x}
      BY <1>1, <2>8, <2>9 DEF CacheInv
    <3>4. \A u \in Thread : th'[u].pc \in Flying => th[u].pc \in Flying /\ th'[u].info = th[u].info
      BY <1>3, <1>x, <2>2, <2>10 DEF Flying
    <3> QED
      BY <1>1, <1>4, <3>1, <3>2, <3>3, <3>4 DEF StaleInv
  <2> QED
    BY <2>11, <2>12, <2>14, <2>15, <2>16, <2>17, <2>18 DEF IInv
<1> QED
  BY <1>6, <1>7

LEMMA SetKeyKeeps ==
    ASSUME IInv, state = "running", NEW t \in Client, SetKey(t)
    PROVE  IInv'
<1>1. ThreadInv /\ CacheInv /\ ArrayInv /\ KvcInv /\ InfoInv /\ FreeInv /\ StaleInv /\ t \in Thread
  BY DEF IInv, Thread
<1>2. th[t].pc = "key" /\ th[t].cache \in DOMAIN caches /\ th[t].cache # empty_cache /\ th[t].info.key \in Key
  BY <1>1 DEF SetKey, CacheInv, ThreadInv, Flying
<1>3. UNCHANGED <<protocolids, categoryids, kvc, gen, raced, next, freed, ops, todo>> /\ state' # "done"
  BY DEF SetKey, content
<1>4. ops \in Nat /\ gen \in Nat /\ todo \in Seq(Operation)
  BY <1>1 DEF ThreadInv
<1>c. PICK c \in DOMAIN caches : c = th[t].cache
  BY <1>2
<1>i. PICK i : i = CHOOSE j \in DOMAIN caches[c].slot : caches[c].slot[j].info = th[t].info
  OBVIOUS
<1>k. PICK k \in Nat : k = KeyId[th[t].info.key]
  BY <1>2, ProgramAssumption
<1>5. PICK r : r = Idle
  OBVIOUS
<1>6. Move(t, r) /\ r.pc = "idle" /\ r.cache = 0
  BY <1>5, IdleIsLocal DEF Move, SetKey
<1>7. r.pc \notin Flying /\ r.pc \notin Before /\ 0 \in DOMAIN caches
  BY <1>1, <1>6 DEF Flying, Before, CacheInv, empty_cache
<1>8. caches' = Count(caches, c, i, k)
  BY <1>c, <1>i, <1>k DEF SetKey, Count
<1>9. caches \in [DOMAIN caches -> Cache]
  BY <1>1 DEF CacheInv
<1>10. /\ DOMAIN caches' = DOMAIN caches
       /\ caches' \in [DOMAIN caches -> Cache]
       /\ \A n \in DOMAIN caches : n # c => caches'[n] = caches[n]
  BY <1>8, <1>9, CountHolds
<1>11. Held(caches', c) = Held(caches, c)
  BY <1>8, <1>9, CountHolds
<1>12. KeepsHeld
  <2>1. \A n \in DOMAIN caches : n # c => Held(caches', n) = Held(caches, n)
    BY <1>10 DEF Held
  <2> QED
    BY <1>10, <1>11, <2>1 DEF KeepsHeld
<1>13. th'[t] = r /\ \A u \in Thread : u # t => th'[u] = th[u]
  BY <1>1, <1>6, MoveFacts
<1>14. ThreadInv'
  BY <1>1, <1>3, <1>4, <1>6, <1>7, MoveThread
<1>15. CacheInv'
  <2>1. /\ \A u \in Thread : th'[u].cache \in DOMAIN caches
        /\ \A u \in Thread : th'[u].pc \in {"claim", "key", "free"} => th'[u].cache # empty_cache
    BY <1>1, <1>6, <1>7, <1>13 DEF CacheInv
  <2>2. caches'[empty_cache] = caches[empty_cache]
    BY <1>1, <1>2, <1>c, <1>10 DEF CacheInv
  <2> QED
    BY <1>1, <1>3, <1>10, <2>1, <2>2 DEF CacheInv, empty_cache, NewCache
<1>16. KeepsFreed /\ \A n : Freed("array", n)' <=> Freed("array", n)
  BY <1>3 DEF KeepsFreed, Freed
<1>17. ArrayInv'
  BY <1>1, <1>3, <1>10, <1>16, KeepArray DEF CacheInv
<1>18. KvcInv'
  BY <1>1, <1>2, <1>3, <1>6, <1>10, <1>16, MoveKvc
<1>19. InfoInv'
  BY <1>1, <1>3, <1>4, <1>6, <1>7, <1>9, <1>12, <1>16, MoveInfo
<1>20. FreeInv'
  BY <1>1, <1>3, KeepFree
<1>21. Held(caches', kvc) \subseteq Held(caches, kvc)
  BY <1>1, <1>12 DEF KeepsHeld, CacheInv
<1>22. StaleInv'
  BY <1>1, <1>2, <1>3, <1>6, <1>7, <1>21, MoveStale
<1> QED
  BY <1>14, <1>15, <1>17, <1>18, <1>19, <1>20, <1>22 DEF IInv

\* The current cache is replaced by a larger one, and is the thread's to free.
LEMMA SwapKeeps ==
    ASSUME IInv, state = "running", NEW t \in Client, Swap(t)
    PROVE  IInv'
<1>1. ThreadInv /\ CacheInv /\ ArrayInv /\ KvcInv /\ InfoInv /\ FreeInv /\ StaleInv /\ t \in Thread
  BY DEF IInv, Thread
<1>2. PICK I, C : th \in [Thread -> Local(I, C)]
  BY <1>1 DEF ThreadInv
<1>3. th[t].pc = "swap" /\ th[t].cache \in DOMAIN caches
  BY <1>1 DEF Swap, CacheInv
<1>4. UNCHANGED <<protocolids, categoryids, gen, raced, freed, ops, todo>> /\ state' # "done"
  BY DEF Swap, content
<1>5. ops \in Nat /\ gen \in Nat /\ todo \in Seq(Operation)
  BY <1>1 DEF ThreadInv
<1>6. CASE kvc # th[t].cache
  <2>1. PICK r : r = [th[t] EXCEPT !.pc = "set"]
    OBVIOUS
  <2>2. r \in Local(I, C) /\ r.pc = "set" /\ r.info = th[t].info /\ r.cache = th[t].cache
    BY <1>1, <1>2, <2>1 DEF Local, Place, Flying
  <2>3. th' = [th EXCEPT ![t] = r] /\ UNCHANGED <<caches, kvc, next>>
    BY <1>1, <1>2, <1>6, <2>1 DEF Swap, Local
  <2>4. Move(t, r)
    BY <2>2, <2>3 DEF Move
  <2>5. th[t].pc \in Flying /\ th[t].pc \in Before
    BY <1>3 DEF Flying, Before
  <2> QED
    BY <1>1, <1>3, <1>4, <1>5, <2>2, <2>3, <2>4, <2>5, MoveQuiet
<1>7. CASE kvc = th[t].cache
  <2>x. PICK x \in Info : x = th[t].info
    BY <1>1, LocalTypes
  <2>k. PICK k \in Nat : k = KeyId[x.key]
    BY <1>1, <1>3, <2>x, ProgramAssumption DEF ThreadInv, Flying
  <2>s. PICK size \in Nat : size = 2 * caches[kvc].size
    BY <1>1 DEF CacheInv, Cache
  <2>i. PICK i : i = Probe(NewCache(size), k)
    OBVIOUS
  <2>f. PICK filled : filled = Filled(size, i, k, x)
    OBVIOUS
  <2>1. filled \in Cache /\ \A j \in DOMAIN filled.slot : filled.slot[j].info \in {NoInfo, x}
    BY <2>f, FilledHolds
  <2>2. caches' = [n \in DOMAIN caches \cup {next} |-> IF n = next THEN filled ELSE caches[n]]
    BY <1>7, <2>x, <2>k, <2>s, <2>i, <2>f DEF Swap, Filled
  <2>3. kvc' = next /\ next' = next + 1
    BY <1>7 DEF Swap
  <2>4. next \in Nat \ {0} /\ next \notin DOMAIN caches /\ DOMAIN caches \subseteq 0..(next - 1)
        /\ kvc \in DOMAIN caches /\ 0 \in DOMAIN caches
    BY <1>1 DEF CacheInv, empty_cache
  <2>5. /\ DOMAIN caches' = DOMAIN caches \cup {next} /\ caches'[next] = filled
        /\ \A n \in DOMAIN caches : caches'[n] = caches[n]
    BY <2>2, <2>4
  <2>6. Held(caches', next) \subseteq {x}
    BY <2>1, <2>5 DEF Held
  <2>7. \A n \in DOMAIN caches : Held(caches', n) = Held(caches, n)
    BY <2>5 DEF Held
  <2>r. PICK r : r = IF th[t].cache = empty_cache THEN Idle ELSE [th[t] EXCEPT !.pc = "free", !.info = NoInfo]
    OBVIOUS
  <2>8. th' = [th EXCEPT ![t] = r]
    BY <1>1, <1>2, <1>7, <2>r DEF Swap, Local
  <2>9. /\ \E J, D : r \in Local(J, D)
        /\ kvc = empty_cache => r.pc = "idle" /\ r.cache = 0
        /\ kvc # empty_cache => r.pc = "free" /\ r.cache = kvc
    <3>1. CASE kvc = empty_cache
      BY <1>7, <2>r, <3>1, IdleIsLocal
    <3>2. CASE kvc # empty_cache
      <4>1. NoInfo \in Info
        BY DEF NoInfo, Info
      <4>2. r = [th[t] EXCEPT !.pc = "free", !.info = NoInfo]
        BY <1>7, <2>r, <3>2
      <4>3. r \in Local(I, C) /\ r.pc = "free" /\ r.cache = kvc
        BY <1>1, <1>2, <1>7, <4>1, <4>2 DEF Local, Place
      <4> QED
        BY <3>2, <4>3
    <3> QED
      BY <3>1, <3>2
  <2>10. Move(t, r)
    BY <2>8, <2>9 DEF Move
  <2>11. th'[t] = r /\ \A u \in Thread : u # t => th'[u] = th[u]
    BY <1>1, <2>10, MoveFacts
  <2>12. r.pc \in {"idle", "free"} /\ r.pc \notin Flying /\ r.pc \notin Before /\ r.cache \in DOMAIN caches
    BY <2>4, <2>9 DEF Flying, Before
  <2>13. ThreadInv'
    BY <1>1, <1>4, <1>5, <2>10, <2>12, MoveThread
  <2>14. CacheInv'
    <3>1. /\ \A u \in Thread : th'[u].cache \in DOMAIN caches
          /\ \A u \in Thread : th'[u].pc \in {"claim", "key", "free"} => th'[u].cache # empty_cache
      BY <1>1, <2>9, <2>11, <2>12 DEF CacheInv
    <3>2. caches'[empty_cache] = caches[empty_cache]
      BY <2>4, <2>5 DEF empty_cache
    <3>3. caches' \in [DOMAIN caches' -> Cache]
      BY <1>1, <2>1, <2>2, <2>5 DEF CacheInv
    <3>4. DOMAIN caches' \subseteq 0..(next' - 1) /\ next' \in Nat \ {0}
      BY <2>3, <2>4, <2>5
    <3> QED
      BY <1>1, <2>3, <2>5, <3>1, <3>2, <3>3, <3>4 DEF CacheInv, empty_cache, NewCache
  <2>15. \A k1, n : Freed(k1, n)' <=> Freed(k1, n)
    BY <1>4 DEF Freed
  <2>16. ArrayInv'
    <3>1. \A d \in Class : protocolids[d].at \in 0..next /\ categoryids[d].at \in 0..next
      BY <1>1, <2>4 DEF ArrayInv
    <3>2. \A n \in Nat : Freed("array", n) => n \in 1..next
      BY <1>1, <2>4 DEF ArrayInv
    <3>3. \A n \in 1..next : \/ n \in DOMAIN caches' \/ Freed("array", n)
                             \/ \E d \in Class : protocolids[d].at = n \/ categoryids[d].at = n
      BY <1>1, <2>4, <2>5 DEF ArrayInv
    <3>4. next' - 1 = next
      BY <2>3, <2>4
    <3> QED
      BY <1>1, <1>4, <2>15, <3>1, <3>2, <3>3, <3>4 DEF ArrayInv
  <2>17. KvcInv'
    <3>1. \A n : Freed("cache", n) => n \notin {next, kvc}
      BY <1>1, <2>4 DEF KvcInv
    <3>2. \A u \in Thread : th'[u].pc = "free" =>
             \/ u = t /\ th'[u].cache = kvc
             \/ u # t /\ th[u].pc = "free" /\ th'[u].cache = th[u].cache /\ th[u].cache # kvc
      BY <1>1, <2>9, <2>11 DEF KvcInv
    <3>3. \A u \in Thread : th'[u].pc = "free" => th'[u].cache # next
      BY <1>1, <2>4, <3>2 DEF CacheInv
    <3>4. \A u, v \in Thread : th'[u].pc = "free" /\ th'[v].pc = "free" /\ th'[u].cache = th'[v].cache => u = v
      BY <1>1, <3>2 DEF KvcInv
    <3>5. \A n \in Nat : Freed("cache", n) => \A u \in Thread : th'[u].pc = "free" => th'[u].cache # n
      BY <1>1, <3>1, <3>2 DEF KvcInv
    <3>6. \A n \in DOMAIN caches' : \/ n = empty_cache \/ n = next \/ Freed("cache", n)
                                    \/ \E u \in Thread : th'[u].pc = "free" /\ th'[u].cache = n
      BY <1>1, <1>3, <2>5, <2>9, <2>11 DEF KvcInv
    <3> QED
      BY <1>1, <2>3, <2>5, <2>15, <3>1, <3>3, <3>4, <3>5, <3>6 DEF KvcInv, empty_cache
  <2>18. InfoInv'
    <3>1. th[t].pc \in Before
      BY <1>3 DEF Before
    <3>2. Held(caches', next) \subseteq (IF next \in DOMAIN caches THEN Held(caches, next) ELSE {}) \cup {th[t].info}
      BY <2>x, <2>4, <2>6
    <3>3. next \in DOMAIN caches'
      BY <2>5
    <3>4. PICK c \in DOMAIN caches' : c = next
      BY <3>3
    <3> QED
      BY <1>1, <1>4, <2>5, <2>7, <2>10, <2>12, <3>1, <3>2, <3>4, InfoArrives
  <2>19. FreeInv'
    BY <1>1, <1>4, KeepFree
  <2>20. StaleInv'
    <3>1. Current(x)
      BY <1>1, <1>3, <2>x DEF StaleInv, Flying
    <3>2. \A y : Current(y) => Current(y)'
      BY <1>3, <1>4, <2>11 DEF Current
    <3>3. \A u \in Thread : th'[u].pc \in Flying => th[u].pc \in Flying /\ th'[u].info = th[u].info
      BY <2>11, <2>12
    <3> QED
      BY <1>1, <1>4, <2>3, <2>6, <3>1, <3>2, <3>3 DEF StaleInv
  <2> QED
    BY <2>13, <2>14, <2>16, <2>17, <2>18, <2>19, <2>20 DEF IInv
<1> QED
  BY <1>6, <1>7

\* The cache is dropped, and what is on its way into one is noted.
LEMMA InvalidateKeeps ==
    ASSUME IInv, state = "running", NEW t \in Client, Invalidate(t)
    PROVE  IInv'
<1>1. ThreadInv /\ CacheInv /\ ArrayInv /\ KvcInv /\ InfoInv /\ FreeInv /\ StaleInv /\ t \in Thread
  BY DEF IInv, Thread
<1>2. th[t].pc = "invalidate" /\ kvc' = empty_cache /\ raced' = raced \cup InFlight /\ state' # "done"
      /\ UNCHANGED <<protocolids, categoryids, caches, gen, next, freed, ops, todo>>
  BY DEF Invalidate, content
<1>3. ops \in Nat /\ gen \in Nat /\ todo \in Seq(Operation)
  BY <1>1 DEF ThreadInv
<1>4. kvc \in Nat /\ kvc \in DOMAIN caches /\ 0 \in DOMAIN caches
  BY <1>1 DEF CacheInv, empty_cache
<1>r. PICK r : r = IF kvc = empty_cache THEN Idle ELSE [Idle EXCEPT !.pc = "free", !.cache = kvc]
  OBVIOUS
<1>5. th' = [th EXCEPT ![t] = r]
  BY <1>r DEF Invalidate
<1>6. /\ \E I, C : r \in Local(I, C)
      /\ kvc = empty_cache => r.pc = "idle" /\ r.cache = 0
      /\ kvc # empty_cache => r.pc = "free" /\ r.cache = kvc
  <2>1. CASE kvc = empty_cache
    BY <1>r, <2>1, IdleIsLocal
  <2>2. CASE kvc # empty_cache
    <3>1. r = [Idle EXCEPT !.pc = "free", !.cache = kvc]
      BY <1>r, <2>2
    <3>2. PICK I, C : Idle \in Local(I, C)
      BY IdleIsLocal
    <3>3. r \in Local(I, C) /\ r.pc = "free" /\ r.cache = kvc
      BY <1>4, <3>1, <3>2 DEF Local, Place
    <3> QED
      BY <2>2, <3>3
  <2> QED
    BY <2>1, <2>2
<1>7. Move(t, r)
  BY <1>5, <1>6 DEF Move
<1>8. th'[t] = r /\ \A u \in Thread : u # t => th'[u] = th[u]
  BY <1>1, <1>7, MoveFacts
<1>9. r.pc \in {"idle", "free"} /\ r.pc \notin Flying /\ r.pc \notin Before /\ r.cache \in DOMAIN caches
  BY <1>4, <1>6 DEF Flying, Before
<1>10. ThreadInv'
  BY <1>1, <1>2, <1>3, <1>7, <1>9, MoveThread
<1>11. CacheInv'
  BY <1>1, <1>2, <1>6, <1>7, <1>9, MoveCache DEF CacheInv
<1>12. KeepsFreed /\ KeepsHeld /\ \A n : Freed("array", n)' <=> Freed("array", n)
  BY <1>2 DEF KeepsFreed, KeepsHeld, Held, Freed
<1>13. ArrayInv'
  BY <1>1, <1>2, <1>12, KeepArray DEF CacheInv
<1>14. KvcInv'
  <2>1. \A n : Freed("cache", n)' <=> Freed("cache", n)
    BY <1>12 DEF KeepsFreed
  <2>2. \A n \in Nat : Freed("cache", n) => n \notin {empty_cache, kvc} /\ n \in DOMAIN caches
    BY <1>1 DEF KvcInv
  <2>3. \A u \in Thread : th'[u].pc = "free" =>
           \/ u = t /\ th'[u].cache = kvc /\ kvc # empty_cache
           \/ u # t /\ th[u].pc = "free" /\ th'[u].cache = th[u].cache /\ th[u].cache \notin {kvc, empty_cache}
    BY <1>1, <1>6, <1>8 DEF KvcInv, CacheInv
  <2>4. \A u, v \in Thread : th'[u].pc = "free" /\ th'[v].pc = "free" /\ th'[u].cache = th'[v].cache => u = v
    BY <1>1, <2>3 DEF KvcInv
  <2>5. \A n \in Nat : Freed("cache", n) => \A u \in Thread : th'[u].pc = "free" => th'[u].cache # n
    BY <1>1, <2>2, <2>3 DEF KvcInv
  <2>6. \A n \in DOMAIN caches : \/ n = empty_cache \/ Freed("cache", n)
                                 \/ \E u \in Thread : th'[u].pc = "free" /\ th'[u].cache = n
    BY <1>1, <1>2, <1>6, <1>8 DEF KvcInv
  <2> QED
    BY <1>2, <2>1, <2>2, <2>3, <2>4, <2>5, <2>6 DEF KvcInv, empty_cache
<1>15. InfoInv'
  BY <1>1, <1>2, <1>3, <1>7, <1>9, <1>12, MoveInfo DEF CacheInv
<1>16. FreeInv'
  BY <1>1, <1>2, KeepFree
<1>17. StaleInv'
  <2>1. Held(caches', kvc') = {}
    BY <1>1, <1>2 DEF CacheInv, Held, NewCache
  <2>2. \A u \in Thread : th[u].pc \in Flying => th[u].info.id \in raced'
    BY <1>2 DEF InFlight, Flying
  <2>3. \A u \in Thread : th'[u].pc \in Flying => th[u].pc \in Flying /\ th'[u].info = th[u].info
    BY <1>8, <1>9
  <2> QED
    BY <2>1, <2>2, <2>3 DEF StaleInv, Current
<1> QED
  BY <1>10, <1>11, <1>13, <1>14, <1>15, <1>16, <1>17 DEF IInv

\* What is freed with a cache was not freed before.
LEMMA CacheMemoryIsNew ==
    ASSUME IInv, NEW n \in DOMAIN caches, ~Freed("cache", n), NEW S,
           S = IF n = empty_cache THEN {} ELSE {<<"cache", n>>} \cup {<<"info", id>> : id \in Infos(n)}
    PROVE  S \cap BagToSet(freed) = {}
<1> SUFFICES ASSUME NEW y \in S, y \in BagToSet(freed) PROVE FALSE
  OBVIOUS
<1>1. PICK id \in Infos(n) : y = <<"info", id>>
  BY DEF Freed
<1>2. PICK x \in Held(caches, n) : x.id = id
  BY InfosAreHeld
<1>3. id \in Nat
  BY <1>2, HeldTypes DEF IInv, CacheInv
<1>4. Freed("info", id)
  BY <1>1 DEF Freed
<1> QED
  BY <1>2, <1>3, <1>4 DEF IInv, InfoInv

LEMMA FreeKeeps ==
    ASSUME IInv, state = "running", NEW t \in Client, Free(t)
    PROVE  IInv'
<1>1. ThreadInv /\ CacheInv /\ ArrayInv /\ KvcInv /\ InfoInv /\ FreeInv /\ StaleInv /\ t \in Thread
  BY DEF IInv, Thread
<1>2. th[t].pc = "free" /\ state' # "done"
      /\ UNCHANGED <<protocolids, categoryids, caches, kvc, gen, raced, next, ops, todo>>
  BY DEF Free, kvccache, content
<1>3. ops \in Nat /\ gen \in Nat /\ todo \in Seq(Operation) /\ next \in Nat
  BY <1>1 DEF ThreadInv, CacheInv
<1>c. PICK c \in DOMAIN caches : c = th[t].cache
  BY <1>1 DEF CacheInv
<1>4. c # empty_cache /\ c # kvc /\ c \in Nat /\ ~Freed("cache", c)
  BY <1>1, <1>2, <1>c DEF CacheInv, KvcInv
<1>S. PICK S : S = IF c = empty_cache THEN {} ELSE {<<"cache", c>>} \cup {<<"info", id>> : id \in Infos(c)}
  OBVIOUS
<1>5. S \cap BagToSet(freed) = {}
  BY <1>4, <1>S, CacheMemoryIsNew
<1>6. freed' = freed (+) SetToBag(S)
  BY <1>c, <1>S, CacheMemoryIs DEF Free
<1>7. BagToSet(freed') = BagToSet(freed) \cup S /\ \A x \in BagToSet(freed') : freed'[x] = 1
  BY <1>1, <1>5, <1>6, FreeOnce DEF FreeInv
<1>8. /\ \A n : Freed("array", n)' <=> Freed("array", n)
      /\ \A n : Freed("cache", n)' <=> Freed("cache", n) \/ n = c
      /\ \A n : Freed("info", n)' => Freed("info", n) \/ n \in Infos(c)
  BY <1>4, <1>S, <1>7 DEF Freed
<1>9. PICK r : r = Idle
  OBVIOUS
<1>10. Move(t, r) /\ r.pc = "idle" /\ r.cache = 0
  BY <1>9, IdleIsLocal DEF Move, Free
<1>11. r.pc \notin Flying /\ r.pc \notin Before /\ 0 \in DOMAIN caches
  BY <1>1, <1>10 DEF Flying, Before, CacheInv, empty_cache
<1>12. th'[t] = r /\ \A u \in Thread : u # t => th'[u] = th[u]
  BY <1>1, <1>10, MoveFacts
<1>13. ThreadInv'
  BY <1>1, <1>2, <1>3, <1>10, <1>11, MoveThread
<1>14. CacheInv'
  BY <1>1, <1>2, <1>3, <1>10, <1>11, MoveCache
<1>15. ArrayInv'
  BY <1>1, <1>2, <1>3, <1>8, KeepArray
<1>16. KvcInv'
  <2>1. \A u \in Thread : th'[u].pc = "free" => u # t /\ th[u].pc = "free" /\ th'[u].cache = th[u].cache
                                                /\ th[u].cache # c
    BY <1>1, <1>2, <1>c, <1>10, <1>12 DEF KvcInv
  <2>2. \A u \in Thread : th[u].pc = "free" => u = t \/ th'[u] = th[u]
    BY <1>12
  <2>3. \A n \in Nat : Freed("cache", n)' => n # kvc /\ n # empty_cache /\ n \in DOMAIN caches
    BY <1>1, <1>4, <1>8 DEF KvcInv
  <2>4. \A n \in Nat : Freed("cache", n)' => \A u \in Thread : th'[u].pc = "free" => th'[u].cache # n
    BY <1>1, <1>8, <2>1 DEF KvcInv
  <2>5. \A n \in DOMAIN caches : \/ n = empty_cache \/ n = kvc \/ Freed("cache", n)'
                                 \/ \E u \in Thread : th'[u].pc = "free" /\ th'[u].cache = n
    BY <1>1, <1>8, <1>c, <2>2 DEF KvcInv
  <2> QED
    BY <1>1, <1>2, <2>1, <2>3, <2>4, <2>5 DEF KvcInv, empty_cache
<1>17. InfoInv'
  <2>1. \A n : Held(caches', n) = Held(caches, n)
    BY <1>2 DEF Held
  <2>2. \A u \in Thread : th'[u].pc \in Before => th[u].pc \in Before /\ th'[u] = th[u]
    BY <1>11, <1>12
  <2>3. ASSUME NEW id \in Nat, Freed("info", id)'
        PROVE  /\ id > ops
               /\ \A u \in Thread : th[u].pc \in Before => th[u].info.id # id
               /\ \A n \in DOMAIN caches : \A x \in Held(caches, n) : x.id = id => Freed("cache", n)'
    <3>1. CASE Freed("info", id)
      BY <1>1, <1>8, <3>1 DEF InfoInv
    <3>2. CASE id \in Infos(c)
      <4>1. PICK x \in Held(caches, c) : x.id = id
        BY <3>2, InfosAreHeld
      <4>2. \A n \in DOMAIN caches : \A y \in Held(caches, n) : y.id = id => n = c
        BY <1>1, <4>1 DEF InfoInv
      <4> QED
        BY <1>1, <1>8, <4>1, <4>2 DEF InfoInv
    <3> QED
      BY <1>8, <2>3, <3>1, <3>2
  <2> QED
    BY <1>1, <1>2, <2>1, <2>2, <2>3 DEF InfoInv
<1>18. FreeInv'
  BY <1>2, <1>7 DEF FreeInv
<1>19. Held(caches', kvc) \subseteq Held(caches, kvc)
  BY <1>2 DEF Held
<1>20. StaleInv'
  BY <1>1, <1>2, <1>10, <1>11, <1>19, MoveStale
<1> QED
  BY <1>13, <1>14, <1>15, <1>16, <1>17, <1>18, <1>20 DEF IInv

----------------------------------------------------------------------------
(* The end: all arrays and the current cache are freed *)

LEMMA DoneKeeps ==
    ASSUME IInv, state = "running", Done
    PROVE  IInv'
<1>1. ThreadInv /\ CacheInv /\ ArrayInv /\ KvcInv /\ InfoInv /\ FreeInv /\ StaleInv
  BY DEF IInv
<1>2. /\ \A t \in Thread : th[t] = Idle
      /\ protocolids' = [c \in Class |-> empty_uniqueidarray]
      /\ categoryids' = [c \in Class |-> empty_uniqueidarray]
      /\ kvc' = empty_cache /\ state' = "done"
      /\ UNCHANGED <<caches, gen, raced, next, ops, todo, th>>
  BY DEF Done
<1>3. \A t \in Thread : th[t].pc = "idle" /\ th[t].pc \notin Flying /\ th[t].pc \notin Before
  BY <1>2, IdleIsLocal DEF Flying, Before
<1>4. next \in Nat \ {0} /\ kvc \in DOMAIN caches /\ DOMAIN caches \subseteq 0..(next - 1) /\ kvc \in Nat
  BY <1>1 DEF CacheInv
<1>A. PICK A : A = ({protocolids[c].at : c \in Class} \cup {categoryids[c].at : c \in Class}) \ {0}
  OBVIOUS
<1>S. PICK S : S = {<<"array", n>> : n \in A}
  OBVIOUS
<1>T. PICK T : T = IF kvc = empty_cache THEN {} ELSE {<<"cache", kvc>>} \cup {<<"info", id>> : id \in Infos(kvc)}
  OBVIOUS
<1>5. \A n \in A : n \in 1..(next - 1) /\ ~Freed("array", n)
  BY <1>1, <1>4, <1>A DEF ArrayInv
<1>6. S \cap BagToSet(freed) = {}
  BY <1>S, <1>5 DEF Freed
<1>7. ~Freed("cache", kvc)
  BY <1>1, <1>4 DEF KvcInv
<1>8. T \cap BagToSet(freed) = {}
  BY <1>4, <1>7, <1>T, CacheMemoryIsNew
<1>9. PICK b : b = freed (+) SetToBag(S)
  OBVIOUS
<1>10. BagToSet(b) = BagToSet(freed) \cup S /\ \A x \in BagToSet(b) : b[x] = 1
  BY <1>1, <1>6, <1>9, FreeOnce DEF FreeInv
<1>11. T \cap S = {}
  BY <1>S, <1>T
<1>12. T \cap BagToSet(b) = {}
  BY <1>8, <1>10, <1>11
<1>13. freed' = b (+) SetToBag(T)
  BY <1>9, <1>A, <1>S, <1>T, CacheMemoryIs DEF Done
<1>14. BagToSet(freed') = BagToSet(freed) \cup S \cup T /\ \A x \in BagToSet(freed') : freed'[x] = 1
  <2>1. BagToSet(freed') = BagToSet(b) \cup T /\ \A x \in BagToSet(freed') : freed'[x] = 1
    BY <1>10, <1>12, <1>13, FreeOnce
  <2> QED
    BY <1>10, <2>1
<1>15. /\ \A n : Freed("array", n)' <=> Freed("array", n) \/ n \in A
       /\ \A n : Freed("cache", n)' <=> Freed("cache", n) \/ (n = kvc /\ kvc # empty_cache)
       /\ \A n : Freed("info", n)' => Freed("info", n) \/ (n \in Infos(kvc) /\ kvc # empty_cache)
  BY <1>14, <1>S, <1>T DEF Freed
<1>16. ThreadInv'
  BY <1>1, <1>2 DEF ThreadInv
<1>17. CacheInv'
  BY <1>1, <1>2 DEF CacheInv, empty_cache, NewCache
<1>18. ArrayInv'
  <2>1. DOMAIN protocolids' = Class /\ DOMAIN categoryids' = Class
        /\ \A c \in Class : protocolids'[c].at = 0 /\ categoryids'[c].at = 0
    BY <1>2 DEF empty_uniqueidarray
  <2>2. \A n \in Nat : Freed("array", n)' => n \in 1..(next - 1)
    BY <1>1, <1>5, <1>15 DEF ArrayInv
  <2>3. \A n \in 1..(next - 1) : n \in DOMAIN caches \/ Freed("array", n)'
    BY <1>1, <1>15, <1>A DEF ArrayInv
  <2> QED
    BY <1>2, <1>4, <2>1, <2>2, <2>3 DEF ArrayInv
<1>19. KvcInv'
  <2>1. \A n \in Nat : Freed("cache", n)' => n # empty_cache /\ n \in DOMAIN caches
    BY <1>1, <1>4, <1>15 DEF KvcInv
  <2>2. \A n \in DOMAIN caches : n = empty_cache \/ Freed("cache", n)'
    BY <1>1, <1>3, <1>15 DEF KvcInv
  <2> QED
    BY <1>2, <1>3, <2>1, <2>2 DEF KvcInv, empty_cache
<1>20. InfoInv'
  <2>1. \A n : Held(caches', n) = Held(caches, n)
    BY <1>2 DEF Held
  <2>2. ASSUME NEW id \in Nat, Freed("info", id)'
        PROVE  /\ id > ops
               /\ \A n \in DOMAIN caches : \A x \in Held(caches, n) : x.id = id => Freed("cache", n)'
    <3>1. CASE Freed("info", id)
      BY <1>1, <1>15, <3>1 DEF InfoInv
    <3>2. CASE id \in Infos(kvc) /\ kvc # empty_cache
      <4>1. PICK x \in Held(caches, kvc) : x.id = id
        BY <3>2, InfosAreHeld
      <4>2. \A n \in DOMAIN caches : \A y \in Held(caches, n) : y.id = id => n = kvc
        BY <1>1, <1>4, <4>1 DEF InfoInv
      <4> QED
        BY <1>1, <1>4, <1>15, <3>2, <4>1, <4>2 DEF InfoInv
    <3> QED
      BY <1>15, <2>2, <3>1, <3>2
  <2> QED
    BY <1>1, <1>2, <1>3, <2>1, <2>2 DEF InfoInv
<1>21. FreeInv'
  <2>1. \A n \in 1..(next - 1) : Freed("array", n)' \/ Freed("cache", n)'
    <3> SUFFICES ASSUME NEW n \in 1..(next - 1) PROVE Freed("array", n)' \/ Freed("cache", n)'
      OBVIOUS
    <3>1. n \in DOMAIN caches \/ Freed("array", n) \/ n \in A
      BY <1>1, <1>4, <1>A DEF ArrayInv
    <3>2. CASE n \in DOMAIN caches
      BY <1>1, <1>3, <1>15, <3>2 DEF KvcInv, empty_cache
    <3> QED
      BY <1>15, <3>1, <3>2
  <2> QED
    BY <1>2, <1>14, <2>1 DEF FreeInv
<1>22. StaleInv'
  <2>1. Held(caches', kvc') = {}
    BY <1>1, <1>2 DEF CacheInv, Held, NewCache
  <2> QED
    BY <1>2, <1>3, <2>1 DEF StaleInv
<1> QED
  BY <1>16, <1>17, <1>18, <1>19, <1>20, <1>21, <1>22 DEF IInv

----------------------------------------------------------------------------
(* The theorems *)

LEMMA InitIInv == Init => IInv
<1> SUFFICES ASSUME Init PROVE IInv
  OBVIOUS
<1>1. PICK p \in Programs : todo = p.todo /\ ops = p.ops
  BY DEF Init
<1>2. ops \in Nat /\ todo \in Seq(Operation)
  <2>1. ToSet(p.todo) \subseteq Operation
    BY DEF Operation
  <2>2. p.todo \in Seq(ToSet(p.todo)) /\ p.ops \in Nat
    BY ProgramAssumption
  <2> QED
    BY <1>1, <2>1, <2>2
<1>3. \A t \in Thread : th[t] = Idle
  BY DEF Init
<1>4. \A t \in Thread : th[t].pc = "idle" /\ th[t].cache = 0 /\ th[t].pc \notin Flying /\ th[t].pc \notin Before
  BY <1>3, IdleIsLocal DEF Flying, Before
<1>5. ThreadInv
  <2>1. PICK I, C : Idle \in Local(I, C)
    BY IdleIsLocal
  <2>2. th \in [Thread -> Local(I, C)]
    BY <2>1 DEF Init
  <2>3. gen \in Nat
    BY DEF Init
  <2> QED
    BY <1>2, <1>4, <2>2, <2>3 DEF ThreadInv
<1>6. DOMAIN caches = {0} /\ caches[0] = NewCache(1) /\ kvc = 0 /\ next = 1
  BY DEF Init, empty_cache
<1>7. NewCache(1) \in Cache
  BY NewCacheIsEmpty
<1>8. caches \in [DOMAIN caches -> Cache]
  BY <1>7 DEF Init
<1>9. CacheInv
  BY <1>4, <1>6, <1>8 DEF CacheInv, empty_cache
<1>10. BagToSet(freed) = {} /\ \A k, n : ~Freed(k, n)
  BY DEF Init, Freed, EmptyBag, SetToBag, BagToSet
<1>11. ArrayInv
  <2>1. DOMAIN protocolids = Class /\ DOMAIN categoryids = Class
        /\ \A c \in Class : protocolids[c].at = 0 /\ categoryids[c].at = 0
    BY DEF Init, empty_uniqueidarray
  <2> QED
    BY <1>6, <1>10, <2>1 DEF ArrayInv
<1>12. KvcInv
  BY <1>4, <1>6, <1>10 DEF KvcInv, empty_cache
<1>13. Held(caches, 0) = {}
  BY <1>6 DEF Held, NewCache
<1>14. InfoInv
  BY <1>4, <1>6, <1>10, <1>13 DEF InfoInv
<1>15. FreeInv
  BY <1>10 DEF Init, FreeInv
<1>16. StaleInv
  BY <1>4, <1>6, <1>13 DEF StaleInv
<1> QED
  BY <1>5, <1>9, <1>11, <1>12, <1>14, <1>15, <1>16 DEF IInv

LEMMA NextIInv == IInv /\ [Next]_vars => IInv'
<1> SUFFICES ASSUME IInv, [Next]_vars PROVE IInv'
  OBVIOUS
<1>1. CASE UNCHANGED vars
  <2>1. UNCHANGED <<protocolids, categoryids, caches, kvc, gen, raced, next, freed, ops, todo, th, state>>
    BY <1>1 DEF vars, kvccache
  <2> QED
    BY <2>1 DEF IInv, ThreadInv, CacheInv, ArrayInv, KvcInv, InfoInv, FreeInv, StaleInv, Current, Freed, Held
<1>2. CASE Next
  <2>1. state = "running"
    BY <1>2 DEF Next
  <2>2. ASSUME NEW t \in Client, NEW c \in Adopters, NEW ps \in ProtocolLists, AddProtocols(t, c, ps)
        PROVE  IInv'
    BY <2>1, <2>2, AddProtocolsQuiet
  <2>3. ASSUME NEW t \in Client, NEW key \in Key, Lookup(t, key) PROVE IInv'
    BY <2>1, <2>3, LookupKeeps
  <2>4. ASSUME NEW t \in Client, AddMethods(t) PROVE IInv'
    BY <2>1, <2>4, AddMethodsKeeps
  <2>5. ASSUME NEW t \in Client, SetRead(t) PROVE IInv'
    BY <2>1, <2>5, SetReadQuiet
  <2>6. ASSUME NEW t \in Client, Swap(t) PROVE IInv'
    BY <2>1, <2>6, SwapKeeps
  <2>7. ASSUME NEW t \in Client, Claim(t) PROVE IInv'
    BY <2>1, <2>7, ClaimKeeps
  <2>8. ASSUME NEW t \in Client, SetKey(t) PROVE IInv'
    BY <2>1, <2>8, SetKeyKeeps
  <2>9. ASSUME NEW t \in Client, Invalidate(t) PROVE IInv'
    BY <2>1, <2>9, InvalidateKeeps
  <2>10. ASSUME NEW t \in Client, Free(t) PROVE IInv'
    BY <2>1, <2>10, FreeKeeps
  <2>11. ASSUME NEW t \in Thread, AddCopy(t) PROVE IInv'
    BY <2>1, <2>11, AddCopyQuiet
  <2>12. ASSUME NEW t \in Thread, AddExchange(t) PROVE IInv'
    BY <2>1, <2>12, AddExchangeKeeps
  <2>13. CASE LoadProtocols
    BY <2>1, <2>13, LoadProtocolsQuiet
  <2>14. CASE AddCategory
    BY <2>1, <2>14, AddCategoryKeeps
  <2>15. CASE Lists
    BY <2>1, <2>15, ListsQuiet
  <2>16. CASE Done
    BY <2>1, <2>16, DoneKeeps
  <2> QED
    BY <1>2, <2>2, <2>3, <2>4, <2>5, <2>6, <2>7, <2>8, <2>9, <2>10, <2>11, <2>12, <2>13, <2>14, <2>15, <2>16
    DEF Next, Lists
<1> QED
  BY <1>1, <1>2

\* IInv is inductive: whatever the threads and the loader do, every array, cache
\* and kvcinfo is in one place (classpair.c 325-363, kvccache.c 60-200).
THEOREM ContentInductive == Spec => []IInv
<1>1. Init => IInv
  BY InitIInv
<1>2. IInv /\ [Next]_vars => IInv'
  BY NextIInv
<1> QED
  BY <1>1, <1>2, PTL DEF Spec

LEMMA IInvFreedOnce == IInv => FreedOnce
<1> SUFFICES ASSUME IInv PROVE FreedOnce
  OBVIOUS
<1>1. CacheInv /\ ArrayInv /\ KvcInv /\ InfoInv /\ FreeInv
  BY DEF IInv
<1>2. \A c \in Class : ~Freed("array", protocolids[c].at) /\ ~Freed("array", categoryids[c].at)
  BY <1>1 DEF ArrayInv, CacheInv
<1>3. kvc \in Nat /\ ~Freed("cache", kvc)
  BY <1>1 DEF CacheInv, KvcInv
<1>4. \A id \in Infos(kvc) : ~Freed("info", id)
  <2> SUFFICES ASSUME NEW id \in Infos(kvc), Freed("info", id) PROVE FALSE
    OBVIOUS
  <2>1. PICK x \in Held(caches, kvc) : x.id = id
    BY InfosAreHeld
  <2>2. id \in Nat
    BY <1>1, <2>1, HeldTypes DEF CacheInv
  <2> QED
    BY <1>1, <1>3, <2>1, <2>2 DEF InfoInv, CacheInv
<1>5. state = "done" => \A n \in 1..(next - 1) : \E kind \in {"array", "cache"} : <<kind, n>> \in BagToSet(freed)
  BY <1>1 DEF FreeInv, Freed
<1>6. \A x \in BagToSet(freed) : freed[x] = 1
  BY <1>1 DEF FreeInv
<1> QED
  BY <1>2, <1>3, <1>4, <1>5, <1>6 DEF FreedOnce, Freed

\* Arrays of ids that threads exchange without a lock, kvc caches that are replaced
\* while others fill them, and their kvcinfos are freed once, not while the class
\* has them, and nothing but late kvcinfos is lost (classpair.c 325-363, kvccache.c
\* 60-200).
THEOREM ContentFreedOnce == Spec => []FreedOnce
BY ContentInductive, IInvFreedOnce, PTL

LEMMA IInvStale == IInv => StaleOnlyInFlight
<1> SUFFICES ASSUME IInv, \A t \in Thread : th[t].pc # "invalidate",
                    NEW i \in DOMAIN caches[kvc].slot, caches[kvc].slot[i].info # NoInfo
             PROVE  caches[kvc].slot[i].info.gen = gen \/ caches[kvc].slot[i].info.id \in raced
  BY DEF StaleOnlyInFlight
<1>1. PICK x : x = caches[kvc].slot[i].info
  OBVIOUS
<1>2. x \in Held(caches, kvc)
  BY <1>1 DEF Held
<1>3. Current(x)
  BY <1>2 DEF IInv, StaleInv
<1> QED
  BY <1>1, <1>3 DEF Current

\* A kvc cache is older than the methods of its class only by kvcinfos that were on
\* their way into it when it was invalidated (class.c 309-322).
THEOREM ContentStaleOnlyInFlight == Spec => []StaleOnlyInFlight
BY ContentInductive, IInvStale, PTL

----------------------------------------------------------------------------
(* Arrays that are sorted and searched, walks over the superclasses *)

\* A set of naturals has a least one.
LEMMA LeastNatural ==
    ASSUME NEW S, S \subseteq Nat, S # {}
    PROVE  \E d \in S : \A e \in S : d <= e
  <1>. DEFINE R == OpToRel(<, Nat)
  <1>1. IsWellFoundedOn(R, Nat)
    BY NatLessThanWellFounded
  <1>2. \A x, y \in Nat : x < y => <<x, y>> \in R
    BY DEF OpToRel
  <1>. HIDE DEF R
  <1>3. PICK d \in S : \A e \in S : <<e, d>> \notin R
    BY <1>1, WFMin
  <1>4. \A e \in S : ~ (e < d)
    BY <1>2, <1>3, Zenon
  <1>. QED
    BY <1>4

\* Sorted, maybe with the same id twice
SortedIds(ids) == ids \in Seq(Nat) /\ \A i, j \in DOMAIN ids : i <= j => ids[i] <= ids[j]

\* How many are below x, and how many are not above
LEMMA Counts ==
    ASSUME NEW s \in Seq(Nat)
    PROVE  /\ \A x \in Nat : Below(s, x) \in Nat /\ UpTo(s, x) \in 0..Len(s)
           /\ \A x, y \in Nat : x < y => UpTo(s, x) <= Below(s, y)
           /\ \A x \in ToSet(s) : x \in Nat /\ Below(s, x) < UpTo(s, x)
           /\ \A x \in Nat : (\A y \in ToSet(s) : y <= x) => UpTo(s, x) = Len(s)
           /\ \A x, y \in Nat : x < y /\ (\A z \in ToSet(s) : z < y => z <= x) => UpTo(s, x) = Below(s, y)
<1> DEFINE L(x) == {i \in DOMAIN s : s[i] < x}
           U(x) == {i \in DOMAIN s : s[i] <= x}
<1>1. Len(s) \in Nat /\ DOMAIN s = 1..Len(s) /\ IsFiniteSet(1..Len(s)) /\ Cardinality(1..Len(s)) = Len(s)
  <2>1. PICK n \in Nat : n = Len(s)
    OBVIOUS
  <2>2. IsFiniteSet(1..n) /\ Cardinality(1..n) = n
    BY FS_Interval
  <2> QED
    BY <2>1, <2>2
<1>2. \A i \in DOMAIN s : s[i] \in Nat
  OBVIOUS
<1>3. \A x : L(x) \in SUBSET (1..Len(s)) /\ U(x) \in SUBSET (1..Len(s))
  BY <1>1
<1>4. \A x : Below(s, x) = Cardinality(L(x)) /\ UpTo(s, x) = Cardinality(U(x))
  BY DEF Below, UpTo
<1>5. \A x : IsFiniteSet(L(x)) /\ IsFiniteSet(U(x)) /\ Cardinality(U(x)) <= Len(s)
  <2> HIDE DEF L, U
  <2> QED BY <1>1, <1>3, FS_Subset
<1>6. \A x : Cardinality(L(x)) \in Nat /\ Cardinality(U(x)) \in Nat
  <2> HIDE DEF L, U
  <2> QED BY <1>5, FS_CardinalityType
<1>7. \A x, y \in Nat : x < y => Cardinality(U(x)) <= Cardinality(L(y))
  <2> SUFFICES ASSUME NEW x \in Nat, NEW y \in Nat, x < y PROVE Cardinality(U(x)) <= Cardinality(L(y))
    OBVIOUS
  <2>1. U(x) \in SUBSET L(y)
    BY <1>2
  <2> HIDE DEF L, U
  <2> QED BY <1>5, <2>1, FS_Subset
<1>8. ASSUME NEW x \in ToSet(s) PROVE x \in Nat /\ Cardinality(L(x)) < Cardinality(U(x))
  <2>1. PICK i \in DOMAIN s : x = s[i]
    BY DEF ToSet
  <2>2. x \in Nat /\ L(x) \in SUBSET U(x) /\ L(x) # U(x)
    BY <1>2, <2>1
  <2>3. Cardinality(L(x)) <= Cardinality(U(x)) /\ Cardinality(L(x)) # Cardinality(U(x))
    <3> HIDE DEF L, U
    <3> QED BY <1>5, <2>2, FS_Subset
  <2>4. Cardinality(L(x)) \in Nat /\ Cardinality(U(x)) \in Nat
    BY <1>6
  <2> HIDE DEF L, U
  <2> QED
    BY <2>2, <2>3, <2>4
<1>9. ASSUME NEW x \in Nat, \A y \in ToSet(s) : y <= x PROVE U(x) = 1..Len(s)
  BY <1>1, <1>9 DEF ToSet
<1>10. ASSUME NEW x \in Nat, NEW y \in Nat, x < y, \A z \in ToSet(s) : z < y => z <= x PROVE U(x) = L(y)
  BY <1>2, <1>10 DEF ToSet
<1> HIDE DEF L, U
<1>11. \A x \in Nat : Below(s, x) \in Nat /\ UpTo(s, x) \in 0..Len(s)
  BY <1>1, <1>4, <1>5, <1>6
<1>12. \A x, y \in Nat : x < y => UpTo(s, x) <= Below(s, y)
  BY <1>4, <1>7
<1>13. \A x \in ToSet(s) : x \in Nat /\ Below(s, x) < UpTo(s, x)
  BY <1>4, <1>8
<1>14. \A x \in Nat : (\A y \in ToSet(s) : y <= x) => UpTo(s, x) = Len(s)
  BY <1>1, <1>4, <1>9
<1>15. \A x, y \in Nat : x < y /\ (\A z \in ToSet(s) : z < y => z <= x) => UpTo(s, x) = Below(s, y)
  BY <1>4, <1>10
<1> QED
  BY <1>11, <1>12, <1>13, <1>14, <1>15

\* Of the ids in an array, some are the greatest.
LEMMA Greatest ==
    ASSUME NEW s \in Seq(Nat), NEW S, S \subseteq ToSet(s), S # {}
    PROVE  \E x \in S : \A y \in S : y <= x
<1> DEFINE D == {Len(s) - UpTo(s, x) : x \in S}
<1>0. \A x \in S : UpTo(s, x) \in 0..Len(s) /\ x \in Nat
  <2>1. \A x \in ToSet(s) : x \in Nat
    BY Counts
  <2> QED
    BY <2>1, Counts
<1>1. D \subseteq Nat /\ D # {} /\ \A x \in S : UpTo(s, x) \in 0..Len(s) /\ x \in Nat
  BY <1>0
<1>2. PICK x \in S : \A y \in S : Len(s) - UpTo(s, x) <= Len(s) - UpTo(s, y)
  <2>1. \E d \in D : \A e \in D : d <= e
    <3> HIDE DEF D
    <3> QED BY <1>1, LeastNatural
  <2> QED
    BY <2>1
<1>3. ASSUME NEW y \in S, x < y PROVE FALSE
  <2>1. UpTo(s, x) <= Below(s, y) /\ Below(s, y) < UpTo(s, y) /\ Below(s, y) \in Nat
    BY <1>1, <1>3, Counts
  <2>2. Len(s) - UpTo(s, x) <= Len(s) - UpTo(s, y)
    BY <1>2
  <2>3. Len(s) \in Nat /\ UpTo(s, x) \in Nat /\ UpTo(s, y) \in Nat
    BY <1>1
  <2> QED
    BY <2>1, <2>2, <2>3
<1> QED
  BY <1>1, <1>3

\* There is an id for each place.
LEMMA PlaceTaken ==
    ASSUME NEW s \in Seq(Nat), NEW i \in DOMAIN s
    PROVE  \E x \in ToSet(s) : Below(s, x) < i /\ i <= UpTo(s, x)
<1>1. i \in 1..Len(s) /\ Len(s) \in Nat /\ \A x \in ToSet(s) : x \in Nat
  <2>1. i \in 1..Len(s) /\ Len(s) \in Nat
    OBVIOUS
  <2> QED
    BY <2>1, Counts
<1>2. ToSet(s) # {}
  BY DEF ToSet
<1>3. PICK m \in ToSet(s) : \A y \in ToSet(s) : y <= m
  BY <1>2, Greatest
<1>4. UpTo(s, m) = Len(s)
  BY <1>1, <1>3, Counts
<1> DEFINE D == {x \in ToSet(s) : i <= UpTo(s, x)}
<1>5. m \in D /\ D \subseteq Nat
  BY <1>1, <1>4
<1>6. PICK x \in D : \A y \in D : x <= y
  <2> HIDE DEF D
  <2> QED BY <1>5, LeastNatural
<1>7. ASSUME i <= Below(s, x) PROVE FALSE
  <2> DEFINE S == {y \in ToSet(s) : y < x}
  <2>1. S # {}
    <3> SUFFICES ASSUME S = {} PROVE FALSE
      OBVIOUS
    <3>1. {j \in DOMAIN s : s[j] < x} = {}
      BY DEF ToSet
    <3>2. Below(s, x) = 0
      BY <3>1, FS_EmptySet DEF Below
    <3> QED
      BY <1>1, <1>7, <3>2
  <2>2. PICK y \in S : \A z \in S : z <= y
    <3>1. S \subseteq ToSet(s)
      OBVIOUS
    <3> HIDE DEF S
    <3> QED BY <2>1, <3>1, Greatest
  <2>3. UpTo(s, y) = Below(s, x)
    BY <1>1, <2>2, Counts
  <2> QED
    BY <1>1, <1>6, <1>7, <2>2, <2>3
<1>8. Below(s, x) \in Nat
  BY <1>1, Counts
<1> QED
  BY <1>1, <1>6, <1>7, <1>8

\* What is sorted is in order, and the same ids.
LEMMA qsortSorts ==
    ASSUME NEW s \in Seq(Nat)
    PROVE  SortedIds(qsort(s)) /\ ToSet(qsort(s)) = ToSet(s)
<1>q. PICK q : q = qsort(s)
  OBVIOUS
<1>1. \A x \in ToSet(s) : x \in Nat /\ Below(s, x) \in Nat /\ UpTo(s, x) \in Nat
  BY Counts
<1>2. DOMAIN q = DOMAIN s /\ DOMAIN s = 1..Len(s) /\ Len(s) \in Nat
  BY <1>q DEF qsort
<1>3. \A i \in DOMAIN s : q[i] \in ToSet(s) /\ Below(s, q[i]) < i /\ i <= UpTo(s, q[i])
  BY <1>q, PlaceTaken DEF qsort
<1>4. q \in Seq(Nat)
  <2>1. q \in [1..Len(s) -> Nat]
    BY <1>1, <1>2, <1>3, <1>q DEF qsort
  <2> QED
    BY <1>2, <2>1
<1>5. ASSUME NEW i \in DOMAIN q, NEW j \in DOMAIN q, i <= j, q[j] < q[i] PROVE FALSE
  <2>1. UpTo(s, q[j]) <= Below(s, q[i])
    BY <1>1, <1>2, <1>3, <1>5, Counts
  <2>2. Below(s, q[i]) < i /\ j <= UpTo(s, q[j]) /\ i \in Nat /\ j \in Nat
    BY <1>2, <1>3
  <2>3. Below(s, q[i]) \in Nat /\ UpTo(s, q[j]) \in Nat
    BY <1>1, <1>2, <1>3
  <2> QED
    BY <1>5, <2>1, <2>2, <2>3
<1>6. SortedIds(q)
  BY <1>4, <1>5 DEF SortedIds
<1>7. ToSet(q) \subseteq ToSet(s)
  BY <1>2, <1>3 DEF ToSet
<1>8. ASSUME NEW x \in ToSet(s) PROVE x \in ToSet(q)
  <2>1. PICK i : i = UpTo(s, x)
    OBVIOUS
  <2>2. i \in DOMAIN s
    BY <1>1, <1>2, <2>1, Counts
  <2>3. PICK y \in ToSet(s) : y = q[i] /\ Below(s, y) < i /\ i <= UpTo(s, y)
    BY <1>3, <2>2
  <2>4. y < x => UpTo(s, y) <= Below(s, x) /\ Below(s, x) < UpTo(s, x)
    BY <1>1, Counts
  <2>5. x < y => UpTo(s, x) <= Below(s, y)
    BY <1>1, Counts
  <2>6. x \in Nat /\ y \in Nat /\ Below(s, x) \in Nat /\ UpTo(s, x) \in Nat /\ Below(s, y) \in Nat /\ UpTo(s, y) \in Nat
    BY <1>1
  <2>7. y = x
    BY <2>1, <2>3, <2>4, <2>5, <2>6
  <2> QED
    BY <1>2, <2>2, <2>3, <2>7 DEF ToSet
<1> QED
  BY <1>6, <1>7, <1>8, <1>q

\* A binary search finds what is there, if the ids are sorted.
LEMMA bsearchFinds ==
    ASSUME NEW ids, SortedIds(ids), NEW id \in Nat
    PROVE  bsearch(ids, id) <=> id \in ToSet(ids)
<1> DEFINE n == Len(ids)
           R == (1..(n + 1)) \X (0..n)
           Body(f, r) ==
               LET middle == (r[1] + r[2]) \div 2
               IN  /\ r[1] <= r[2]
                   /\ \/ ids[middle] = id
                      \/ ids[middle] < id /\ f[<<middle + 1, r[2]>>]
                      \/ ids[middle] > id /\ f[<<r[1], middle - 1>>]
           Found == CHOOSE f : f = [r \in R |-> Body(f, r)]
           Among(first, last) == \E i \in first..last : ids[i] = id
           g == [r \in R |-> Among(r[1], r[2])]
<1>1. bsearch(ids, id) = Found[<<1, n>>]
  BY DEF bsearch
<1>2. n \in Nat /\ DOMAIN ids = 1..n /\ \A i \in 1..n : ids[i] \in Nat
  BY DEF SortedIds
<1>3. ASSUME NEW first \in 1..(n + 1), NEW last \in 0..n, first <= last, NEW middle, middle = (first + last) \div 2
      PROVE  /\ middle \in first..last /\ middle \in 1..n /\ middle + 1 \in 1..(n + 1) /\ middle - 1 \in 0..n
             /\ ids[middle] = id => Among(first, last)
             /\ ids[middle] < id => (Among(first, last) <=> Among(middle + 1, last))
             /\ ids[middle] > id => (Among(first, last) <=> Among(first, middle - 1))
  <2>1. first \in Int /\ last \in Int /\ middle \in Int /\ first <= middle /\ middle <= last
    BY <1>2, <1>3
  <2>2. middle \in first..last /\ middle \in 1..n /\ middle + 1 \in 1..(n + 1) /\ middle - 1 \in 0..n
    BY <1>2, <1>3, <2>1
  <2>3. \A i \in first..middle : ids[i] <= ids[middle]
    <3> SUFFICES ASSUME NEW i \in first..middle PROVE ids[i] <= ids[middle]
      OBVIOUS
    <3>1. i \in 1..n /\ i <= middle
      BY <1>2, <2>1, <2>2
    <3> QED
      BY <1>2, <2>2, <3>1 DEF SortedIds
  <2>4. \A i \in middle..last : ids[middle] <= ids[i]
    <3> SUFFICES ASSUME NEW i \in middle..last PROVE ids[middle] <= ids[i]
      OBVIOUS
    <3>1. i \in 1..n /\ middle <= i
      BY <1>2, <2>1, <2>2
    <3> QED
      BY <1>2, <2>2, <3>1 DEF SortedIds
  <2>5. ids[middle] < id => (Among(first, last) <=> Among(middle + 1, last))
    <3>1. first..last = (first..middle) \cup ((middle + 1)..last)
      BY <2>1
    <3>2. ids[middle] < id => \A i \in first..middle : ids[i] # id
      BY <1>2, <2>1, <2>2, <2>3
    <3> QED
      BY <3>1, <3>2
  <2>6. ids[middle] > id => (Among(first, last) <=> Among(first, middle - 1))
    <3>1. first..last = (first..(middle - 1)) \cup (middle..last)
      BY <2>1
    <3>2. ids[middle] > id => \A i \in middle..last : ids[i] # id
      BY <1>2, <2>1, <2>2, <2>4
    <3> QED
      BY <3>1, <3>2
  <2> QED
    BY <2>2, <2>5, <2>6
<1> HIDE DEF Among
<1>4. \A first \in 1..(n + 1), last \in 0..n : first > last => ~Among(first, last)
  BY <1>2 DEF Among
<1>5. \A first \in 1..(n + 1), last \in 0..n : Among(first, last) \in BOOLEAN
  BY DEF Among
<1>b. ASSUME NEW f, NEW first \in 1..(n + 1), NEW last \in 0..n, NEW middle, middle = (first + last) \div 2
      PROVE  /\ first > last => Body(f, <<first, last>>) = FALSE
             /\ first <= last /\ ids[middle] = id => Body(f, <<first, last>>) = TRUE
             /\ first <= last /\ ids[middle] < id => (Body(f, <<first, last>>) <=> f[<<middle + 1, last>>])
             /\ first <= last /\ ids[middle] > id => (Body(f, <<first, last>>) <=> f[<<first, middle - 1>>])
             /\ Body(f, <<first, last>>) \in BOOLEAN
  <2>1. first \in Int /\ last \in Int
    BY <1>2
  <2>2. first <= last => ids[middle] \in Nat
    BY <1>2, <1>3, <1>b
  <2> QED
    BY <1>b, <2>1, <2>2
<1> HIDE DEF Body
<1>6. ASSUME NEW first \in 1..(n + 1), NEW last \in 0..n
      PROVE  Among(first, last) = Body(g, <<first, last>>)
  <2>m. PICK middle : middle = (first + last) \div 2
    OBVIOUS
  <2>i. first \in Int /\ last \in Int
    BY <1>2
  <2>1. CASE first > last
    BY <1>4, <1>5, <1>b, <2>1
  <2>2. CASE first <= last
    <3>1. /\ middle \in 1..n /\ middle + 1 \in 1..(n + 1) /\ middle - 1 \in 0..n
          /\ ids[middle] = id => Among(first, last)
          /\ ids[middle] < id => (Among(first, last) <=> Among(middle + 1, last))
          /\ ids[middle] > id => (Among(first, last) <=> Among(first, middle - 1))
      BY <1>3, <2>2, <2>m
    <3>2. ids[middle] \in Nat
      BY <1>2, <3>1
    <3>3. CASE ids[middle] = id
      BY <1>5, <1>b, <2>2, <2>m, <3>1, <3>3
    <3>4. CASE ids[middle] < id
      <4>1. g[<<middle + 1, last>>] = Among(middle + 1, last)
        BY <3>1
      <4>2. Among(first, last) = Among(middle + 1, last)
        BY <1>5, <3>1, <3>4
      <4>3. Body(g, <<first, last>>) <=> g[<<middle + 1, last>>]
        <5> HIDE DEF g
        <5> QED BY <1>b, <2>2, <2>m, <3>4
      <4>4. Body(g, <<first, last>>) \in BOOLEAN
        <5> HIDE DEF g
        <5> QED BY <1>b, <2>m
      <4> HIDE DEF g
      <4> QED
        BY <1>5, <4>1, <4>2, <4>3, <4>4
    <3>5. CASE ids[middle] > id
      <4>1. g[<<first, middle - 1>>] = Among(first, middle - 1)
        BY <3>1
      <4>2. Among(first, last) = Among(first, middle - 1)
        BY <1>5, <3>1, <3>5
      <4>3. Body(g, <<first, last>>) <=> g[<<first, middle - 1>>]
        <5> HIDE DEF g
        <5> QED BY <1>b, <2>2, <2>m, <3>5
      <4>4. Body(g, <<first, last>>) \in BOOLEAN
        <5> HIDE DEF g
        <5> QED BY <1>b, <2>m
      <4> HIDE DEF g
      <4> QED
        BY <1>5, <4>1, <4>2, <4>3, <4>4
    <3> QED
      BY <3>2, <3>3, <3>4, <3>5
  <2> QED
    BY <2>i, <2>1, <2>2
<1>7. g = [r \in R |-> Body(g, r)]
  <2>1. ASSUME NEW r \in R PROVE Among(r[1], r[2]) = Body(g, r)
    <3>1. PICK first \in 1..(n + 1), last \in 0..n : r = <<first, last>>
      OBVIOUS
    <3>2. Among(first, last) = Body(g, <<first, last>>)
      BY <1>6
    <3> QED
      BY <3>1, <3>2
  <2>2. g = [r \in R |-> Among(r[1], r[2])]
    OBVIOUS
  <2> HIDE DEF g, R
  <2> QED BY <2>1, <2>2
<1>f. PICK f : f = Found
  OBVIOUS
<1>8. f = [r \in R |-> Body(f, r)]
  <2> HIDE DEF g
  <2> QED BY <1>7, <1>f
<1>9. \A first \in 1..(n + 1), last \in 0..n : f[<<first, last>>] = Body(f, <<first, last>>)
  BY <1>8
<1> DEFINE Wrong == {p \in R : f[p] # Among(p[1], p[2])}
           Sizes == {p[2] - p[1] : p \in Wrong}
<1>10. Wrong = {}
  <2> SUFFICES ASSUME Wrong # {} PROVE FALSE
    OBVIOUS
  <2>1. ASSUME NEW first \in 1..(n + 1), NEW last \in 0..n, first > last PROVE f[<<first, last>>] = Among(first, last)
    <3>1. Body(f, <<first, last>>) = FALSE
      BY <1>b, <2>1
    <3> QED
      BY <1>4, <1>5, <1>9, <2>1, <3>1
  <2>2. Sizes \subseteq Nat
    BY <1>2, <2>1
  <2>3. Sizes # {}
    OBVIOUS
  <2>4. PICK d \in Sizes : \A e \in Sizes : d <= e
    <3> HIDE DEF Sizes
    <3> QED BY <2>2, <2>3, LeastNatural
  <2>5. PICK first \in 1..(n + 1), last \in 0..n : d = last - first /\ f[<<first, last>>] # Among(first, last)
    <3>1. PICK p \in R : d = p[2] - p[1] /\ f[p] # Among(p[1], p[2])
      BY <2>4
    <3>2. p = <<p[1], p[2]>>
      OBVIOUS
    <3> QED
      BY <3>1, <3>2
  <2>6. \A p \in Wrong : last - first <= p[2] - p[1]
    BY <2>4, <2>5
  <2>7. \A a \in 1..(n + 1), b \in 0..n : b - a < last - first => f[<<a, b>>] = Among(a, b)
    <3> SUFFICES ASSUME NEW a \in 1..(n + 1), NEW b \in 0..n, b - a < last - first, f[<<a, b>>] # Among(a, b) PROVE FALSE
      OBVIOUS
    <3>1. <<a, b>> \in Wrong
      OBVIOUS
    <3>2. last - first <= b - a
      <4> HIDE DEF Wrong
      <4> QED BY <2>6, <3>1
    <3> QED
      BY <1>2, <3>2
  <2> HIDE DEF Wrong, Sizes
  <2>8. first <= last /\ first \in Int /\ last \in Int
    BY <1>2, <2>1, <2>5
  <2>m. PICK middle : middle = (first + last) \div 2
    OBVIOUS
  <2>9. /\ middle \in 1..n /\ middle + 1 \in 1..(n + 1) /\ middle - 1 \in 0..n /\ middle \in first..last
        /\ ids[middle] = id => Among(first, last)
        /\ ids[middle] < id => (Among(first, last) <=> Among(middle + 1, last))
        /\ ids[middle] > id => (Among(first, last) <=> Among(first, middle - 1))
    BY <1>3, <2>8, <2>m
  <2>10. f[<<middle + 1, last>>] = Among(middle + 1, last) /\ f[<<first, middle - 1>>] = Among(first, middle - 1)
    <3>1. last - (middle + 1) < last - first /\ (middle - 1) - first < last - first
      BY <1>2, <2>8, <2>9
    <3> QED
      BY <2>7, <2>9, <3>1
  <2>11. ids[middle] \in Nat /\ ~(first > last)
    BY <1>2, <2>8, <2>9
  <2>12. f[<<first, last>>] = Body(f, <<first, last>>)
    BY <1>9
  <2>13. CASE ids[middle] = id
    BY <1>5, <1>b, <2>m, <2>5, <2>8, <2>9, <2>12, <2>13
  <2>14. CASE ids[middle] < id
    <3>1. Among(first, last) = Among(middle + 1, last)
      BY <1>5, <2>9, <2>14
    <3>2. Body(f, <<first, last>>) <=> f[<<middle + 1, last>>]
      BY <1>b, <2>m, <2>8, <2>14
    <3>3. Body(f, <<first, last>>) \in BOOLEAN
      BY <1>b, <2>m
    <3> QED
      BY <1>5, <2>5, <2>10, <2>12, <3>1, <3>2, <3>3
  <2>15. CASE ids[middle] > id
    <3>1. Among(first, last) = Among(first, middle - 1)
      BY <1>5, <2>9, <2>15
    <3>2. Body(f, <<first, last>>) <=> f[<<first, middle - 1>>]
      BY <1>b, <2>m, <2>8, <2>15
    <3>3. Body(f, <<first, last>>) \in BOOLEAN
      BY <1>b, <2>m
    <3> QED
      BY <1>5, <2>5, <2>10, <2>12, <3>1, <3>2, <3>3
  <2> QED
    BY <2>11, <2>13, <2>14, <2>15
<1>11. f[<<1, n>>] = Among(1, n)
  <2>1. <<1, n>> \in (1..(n + 1)) \X (0..n)
    BY <1>2
  <2> QED
    BY <1>10, <2>1
<1> QED
  BY <1>1, <1>2, <1>f, <1>11 DEF Among, ToSet

\* Of two sequences, one after the other
LEMMA ConcatSet ==
    ASSUME NEW A, NEW a \in Seq(A), NEW b \in Seq(A)
    PROVE  a \o b \in Seq(A) /\ ToSet(a \o b) = ToSet(a) \cup ToSet(b)
<1>1. /\ a \o b \in Seq(A) /\ Len(a \o b) = Len(a) + Len(b) /\ Len(a) \in Nat /\ Len(b) \in Nat
      /\ \A i \in 1..Len(a) : (a \o b)[i] = a[i]
      /\ \A i \in (Len(a) + 1)..(Len(a) + Len(b)) : (a \o b)[i] = b[i - Len(a)]
  OBVIOUS
<1>2. DOMAIN a = 1..Len(a) /\ DOMAIN b = 1..Len(b) /\ DOMAIN (a \o b) = 1..(Len(a) + Len(b))
  BY <1>1
<1>c. PICK c : c = a \o b
  OBVIOUS
<1>3. ToSet(c) \subseteq ToSet(a) \cup ToSet(b)
  <2> SUFFICES ASSUME NEW i \in 1..(Len(a) + Len(b)) PROVE c[i] \in ToSet(a) \cup ToSet(b)
    BY <1>2, <1>c DEF ToSet
  <2>1. CASE i <= Len(a)
    BY <1>1, <1>2, <1>c, <2>1 DEF ToSet
  <2>2. CASE i > Len(a)
    <3>1. i - Len(a) \in 1..Len(b) /\ c[i] = b[i - Len(a)]
      BY <1>1, <1>c, <2>2
    <3> QED
      BY <1>2, <3>1 DEF ToSet
  <2> QED
    BY <1>1, <2>1, <2>2
<1>4. ToSet(a) \subseteq ToSet(c)
  <2> SUFFICES ASSUME NEW i \in 1..Len(a) PROVE a[i] \in ToSet(c)
    BY <1>2 DEF ToSet
  <2>1. i \in 1..(Len(a) + Len(b)) /\ c[i] = a[i]
    BY <1>1, <1>c
  <2> QED
    BY <1>2, <1>c, <2>1 DEF ToSet
<1>5. ToSet(b) \subseteq ToSet(c)
  <2> SUFFICES ASSUME NEW i \in 1..Len(b) PROVE b[i] \in ToSet(c)
    BY <1>2 DEF ToSet
  <2>1. PICK j : j = i + Len(a)
    OBVIOUS
  <2>2. j \in (Len(a) + 1)..(Len(a) + Len(b)) /\ j \in 1..(Len(a) + Len(b)) /\ j - Len(a) = i
    BY <1>1, <2>1
  <2>3. c[j] = b[i]
    BY <1>1, <1>c, <2>2
  <2> QED
    BY <1>2, <1>c, <2>2, <2>3 DEF ToSet
<1> QED
  BY <1>1, <1>3, <1>4, <1>5, <1>c

\* A sequence of sequences is flattened from the front.
LEMMA FlattenIs ==
    ASSUME NEW A, NEW s \in Seq(Seq(A)), s # <<>>
    PROVE  \E g : /\ FlattenSeq(s) = g[Len(s)]
                  /\ \A i \in 1..Len(s) : g[i] = IF i = 1 THEN s[i] ELSE g[i - 1] \o s[i]
<1> DEFINE n == Len(s)
           Body(f, i) == IF i = 1 THEN s[i] ELSE f[i - 1] \o s[i]
           Flatten == CHOOSE f : f = [i \in 1..n |-> Body(f, i)]
           Solves(f, m) == f \in [1..m -> Seq(A)] /\ \A i \in 1..m : f[i] = Body(f, i)
<1>1. n \in Nat /\ DOMAIN s = 1..n /\ \A i \in 1..n : s[i] \in Seq(A)
  OBVIOUS
<1>2. n > 0
  BY <1>1
<1>3. FlattenSeq(s) = Flatten[n]
  BY <1>1, <1>2 DEF FlattenSeq
<1> DEFINE Bad == {m \in 0..n : ~ \E f : Solves(f, m)}
<1>4. Bad = {}
  <2> SUFFICES ASSUME Bad # {} PROVE FALSE
    OBVIOUS
  <2>1. PICK d \in Bad : \A e \in Bad : d <= e
    <3>1. Bad \subseteq Nat
      BY <1>1
    <3> HIDE DEF Bad
    <3> QED BY <3>1, LeastNatural
  <2>2. d \in 0..n /\ d \in Nat /\ ~ \E f : Solves(f, d)
    <3>1. d \in 0..n /\ ~ \E f : Solves(f, d)
      <4> HIDE DEF Solves
      <4> QED OBVIOUS
    <3> HIDE DEF Solves, Bad
    <3> QED BY <1>1, <3>1
  <2>3. d # 0
    <3>1. PICK f : f = [i \in 1..0 |-> <<>>]
      OBVIOUS
    <3>2. Solves(f, 0)
      BY <3>1
    <3> QED
      BY <2>2, <3>2
  <2>4. d - 1 \in 0..n /\ d - 1 \notin Bad
    <3>1. d - 1 \in 0..n /\ ~ (d <= d - 1)
      BY <1>1, <2>2, <2>3
    <3> HIDE DEF Bad
    <3> QED
      BY <2>1, <3>1
  <2>5. PICK f : Solves(f, d - 1)
    BY <2>4
  <2>6. PICK v : v = Body(f, d)
    OBVIOUS
  <2>7. v \in Seq(A)
    <3>1. d \in 1..n /\ s[d] \in Seq(A)
      BY <1>1, <2>2, <2>3
    <3>2. d # 1 => d - 1 \in 1..(d - 1) /\ f[d - 1] \in Seq(A)
      BY <2>2, <2>3, <2>5
    <3>3. d # 1 => f[d - 1] \o s[d] \in Seq(A)
      BY <3>1, <3>2, ConcatSet
    <3> QED
      BY <2>6, <3>1, <3>3
  <2>8. PICK g : g = [i \in 1..d |-> IF i = d THEN v ELSE f[i]]
    OBVIOUS
  <2>9. \A i \in 1..d : i # d => i \in 1..(d - 1) /\ g[i] = f[i]
    BY <2>2, <2>8
  <2>10. g \in [1..d -> Seq(A)]
    BY <2>5, <2>7, <2>8, <2>9
  <2>11. ASSUME NEW i \in 1..d PROVE g[i] = Body(g, i)
    <3>1. i # 1 => i - 1 \in 1..d /\ i - 1 # d /\ g[i - 1] = f[i - 1]
      BY <2>2, <2>9
    <3>2. Body(g, i) = Body(f, i)
      BY <3>1
    <3>3. CASE i = d
      <4>1. g[i] = v
        BY <2>8, <3>3
      <4> HIDE DEF Body
      <4> QED
        BY <2>6, <3>2, <3>3, <4>1
    <3>4. CASE i # d
      BY <2>5, <2>9, <3>2, <3>4
    <3> QED
      BY <3>3, <3>4
  <2>12. Solves(g, d)
    BY <2>10, <2>11
  <2> QED
    BY <2>2, <2>12
<1>5. PICK f : Solves(f, n)
  <2> HIDE DEF Solves
  <2>1. n \in 0..n
    BY <1>1
  <2> QED BY <1>4, <2>1
<1>6. f = [i \in 1..n |-> Body(f, i)]
  <2> HIDE DEF Body
  <2> QED BY <1>5
<1>7. PICK g : g = Flatten
  OBVIOUS
<1>8. g = [i \in 1..n |-> Body(g, i)]
  <2> HIDE DEF Body
  <2> QED BY <1>6, <1>7
<1> HIDE DEF Solves, Bad, Flatten
<1>9. \A i \in 1..n : g[i] = Body(g, i)
  <2> HIDE DEF Body
  <2> QED BY <1>8
<1> QED
  BY <1>3, <1>7, <1>9

\* A flattened sequence holds what its sequences hold.
LEMMA FlattenHolds ==
    ASSUME NEW A, NEW s \in Seq(Seq(A))
    PROVE  FlattenSeq(s) \in Seq(A) /\ ToSet(FlattenSeq(s)) = UNION {ToSet(s[i]) : i \in DOMAIN s}
<1> DEFINE n == Len(s)
<1>1. n \in Nat /\ DOMAIN s = 1..n /\ \A i \in 1..n : s[i] \in Seq(A)
  OBVIOUS
<1>2. CASE n = 0
  <2>1. FlattenSeq(s) = s /\ DOMAIN s = {} /\ s = <<>>
    BY <1>1, <1>2 DEF FlattenSeq
  <2>2. <<>> \in Seq(A) /\ ToSet(<<>>) = {}
    BY DEF ToSet
  <2> QED
    BY <2>1, <2>2
<1>3. CASE n > 0
  <2>7. PICK g : /\ FlattenSeq(s) = g[n]
                 /\ \A i \in 1..n : g[i] = IF i = 1 THEN s[i] ELSE g[i - 1] \o s[i]
    <3>1. s # <<>>
      BY <1>1, <1>3
    <3> QED
      BY <3>1, FlattenIs
  <2> DEFINE Right(i) == g[i] \in Seq(A) /\ ToSet(g[i]) = UNION {ToSet(s[j]) : j \in 1..i}
             Wrong == {i \in 1..n : ~Right(i)}
  <2>8. Wrong = {}
    <3> SUFFICES ASSUME Wrong # {} PROVE FALSE
      OBVIOUS
    <3>1. PICK d \in Wrong : \A e \in Wrong : d <= e
      <4>1. Wrong \subseteq Nat
        BY <1>1
      <4> HIDE DEF Wrong
      <4> QED BY <4>1, LeastNatural
    <3>2. d \in 1..n /\ d \in Nat /\ ~Right(d) /\ s[d] \in Seq(A)
      BY <1>1, <3>1
    <3>3. d # 1
      <4> SUFFICES ASSUME d = 1 PROVE FALSE
        OBVIOUS
      <4>1. g[1] = s[1]
        BY <2>7, <3>2
      <4>2. 1..1 = {1}
        OBVIOUS
      <4>3. UNION {ToSet(s[j]) : j \in {1}} = ToSet(s[1])
        OBVIOUS
      <4> QED
        BY <3>2, <4>1, <4>2, <4>3
    <3>4. d - 1 \in 1..n /\ Right(d - 1)
      <4>1. d - 1 \in 1..n /\ ~ (d <= d - 1)
        BY <1>1, <3>2, <3>3
      <4>2. d - 1 \notin Wrong
        <5> HIDE DEF Wrong
        <5> QED BY <3>1, <4>1
      <4> QED
        BY <4>1, <4>2
    <3>5. g[d] = g[d - 1] \o s[d]
      BY <2>7, <3>2, <3>3
    <3>6. PICK h : h = g[d - 1]
      OBVIOUS
    <3>7. h \in Seq(A) /\ ToSet(h) = UNION {ToSet(s[j]) : j \in 1..(d - 1)}
      BY <3>4, <3>6
    <3>8. PICK z : z = s[d]
      OBVIOUS
    <3>9. h \o z \in Seq(A) /\ ToSet(h \o z) = ToSet(h) \cup ToSet(z)
      BY <3>2, <3>7, <3>8, ConcatSet
    <3>10. 1..d = (1..(d - 1)) \cup {d}
      BY <3>2
    <3>11. UNION {ToSet(s[j]) : j \in 1..d} = (UNION {ToSet(s[j]) : j \in 1..(d - 1)}) \cup ToSet(s[d])
      BY <3>10
    <3> QED
      BY <3>2, <3>5, <3>6, <3>7, <3>8, <3>9, <3>11
  <2>9. Right(n)
    <3> HIDE DEF Right
    <3>1. n \in 1..n
      BY <1>1, <1>3
    <3> QED BY <2>8, <3>1
  <2> QED
    BY <1>1, <2>7, <2>9
<1>4. n = 0 \/ n > 0
  BY <1>1
<1> QED
  BY <1>2, <1>3, <1>4

\* The classes above a class, the class first
Up(f, c) == IF Super[c] = NoClass THEN <<c>> ELSE <<c>> \o f[Super[c]]
Rises(S, f) ==
    /\ S \subseteq Class /\ \A c \in S : Super[c] = NoClass \/ Super[c] \in S
    /\ f \in [S -> Seq(Class)] /\ \A c \in S : f[c] = Up(f, c)
LEMMA LineageIs ==
    /\ Lineage \in [Class -> Seq(Class)]
    /\ \A c \in Class : Lineage[c] = Up(Lineage, c)
<1>1. ASSUME NEW S, NEW f, Rises(S, f), NEW T, NEW g, Rises(T, g), NEW x \in S \cap T PROVE f[x] = g[x]
  <2> SUFFICES ASSUME f[x] # g[x] PROVE FALSE
    OBVIOUS
  <2> DEFINE D == {c \in S \cap T : f[c] # g[c]}
  <2>1. D \in (SUBSET Class) \ {{}}
    BY <1>1 DEF Rises
  <2>2. PICK c \in D : Super[c] \notin D
    <3> HIDE DEF D
    <3> QED BY <2>1, TreeAssumption
  <2>3. f[c] = Up(f, c) /\ g[c] = Up(g, c) /\ f[c] # g[c]
    BY <1>1, <2>2 DEF Rises
  <2>4. Super[c] = NoClass \/ f[Super[c]] = g[Super[c]]
    BY <1>1, <2>2 DEF Rises
  <2> QED
    BY <2>3, <2>4 DEF Up
<1> DEFINE Good(c) == \E S, f : Rises(S, f) /\ c \in S
<1>2. \A c \in Class : Good(c)
  <2> DEFINE D == {c \in Class : ~Good(c)}
  <2> SUFFICES ASSUME D # {} PROVE FALSE
    OBVIOUS
  <2>1. PICK c \in D : Super[c] \notin D
    <3>1. D \in (SUBSET Class) \ {{}}
      OBVIOUS
    <3> HIDE DEF D
    <3> QED BY <3>1, TreeAssumption
  <2>2. c \in Class /\ ~Good(c) /\ Super[c] \in Class \cup {NoClass}
    BY <2>1, ClassAssumption
  <2>3. CASE Super[c] = NoClass
    <3>1. Rises({c}, [x \in {c} |-> <<c>>])
      BY <2>2, <2>3 DEF Rises, Up
    <3> QED
      BY <2>2, <3>1
  <2>4. CASE Super[c] # NoClass
    <3>1. PICK S, f : Rises(S, f) /\ Super[c] \in S
      BY <2>1, <2>2, <2>4
    <3>2. c \notin S
      BY <2>2, <3>1
    <3>3. PICK v : v = <<c>> \o f[Super[c]]
      OBVIOUS
    <3>4. v \in Seq(Class)
      BY <2>2, <3>1, <3>3 DEF Rises
    <3>5. PICK T : T = S \cup {c}
      OBVIOUS
    <3>6. PICK g : g = [x \in T |-> IF x = c THEN v ELSE f[x]]
      OBVIOUS
    <3>7. g \in [T -> Seq(Class)] /\ g[c] = v /\ \A x \in S : g[x] = f[x]
      BY <3>1, <3>2, <3>4, <3>5, <3>6 DEF Rises
    <3>8. \A x \in S : f[x] = Up(f, x) /\ (Super[x] = NoClass \/ Super[x] \in S) /\ x \in Class
      BY <3>1 DEF Rises
    <3>9. \A x \in S : g[x] = Up(g, x)
      BY <3>7, <3>8 DEF Up
    <3>10. g[c] = Up(g, c)
      BY <2>4, <3>1, <3>3, <3>7 DEF Up
    <3>11. Rises(T, g)
      BY <2>2, <3>1, <3>5, <3>7, <3>8, <3>9, <3>10 DEF Rises
    <3> QED
      BY <2>2, <3>5, <3>11
  <2> QED
    BY <2>3, <2>4
<1> DEFINE V(c) == CHOOSE v : \E S, f : Rises(S, f) /\ c \in S /\ v = f[c]
           F == [c \in Class |-> V(c)]
<1>3. ASSUME NEW S, NEW f, Rises(S, f), NEW c \in S PROVE F[c] = f[c]
  <2>1. \E w : \E T, g : Rises(T, g) /\ c \in T /\ w = g[c]
    BY <1>3
  <2>2. \E T, g : Rises(T, g) /\ c \in T /\ V(c) = g[c]
    BY <2>1
  <2>3. PICK v : v = V(c)
    OBVIOUS
  <2> HIDE DEF V
  <2>4. V(c) = f[c]
    BY <1>1, <1>3, <2>2
  <2>5. c \in Class
    BY <1>3 DEF Rises
  <2> QED
    BY <2>4, <2>5
<1>4. ASSUME NEW c \in Class PROVE F[c] = Up(F, c) /\ F[c] \in Seq(Class)
  <2>1. PICK S, f : Rises(S, f) /\ c \in S
    BY <1>2
  <2>2. F[c] = f[c] /\ (Super[c] = NoClass \/ F[Super[c]] = f[Super[c]])
    <3> HIDE DEF F
    <3>1. Super[c] = NoClass \/ Super[c] \in S
      BY <2>1 DEF Rises
    <3> QED BY <1>3, <2>1, <3>1
  <2>3. f[c] = Up(f, c) /\ f[c] \in Seq(Class)
    BY <2>1 DEF Rises
  <2> HIDE DEF F
  <2> QED
    BY <2>2, <2>3 DEF Up
<1> HIDE DEF V
<1>5. F = [c \in Class |-> Up(F, c)]
  <2>1. F = [c \in Class |-> F[c]]
    OBVIOUS
  <2> HIDE DEF F
  <2> QED BY <1>4, <2>1
<1>6. PICK f : f = F
  OBVIOUS
<1>7. f = [c \in Class |-> IF Super[c] = NoClass THEN <<c>> ELSE <<c>> \o f[Super[c]]]
  <2> HIDE DEF F
  <2> QED BY <1>5, <1>6 DEF Up
<1>8. Lineage = [c \in Class |-> IF Super[c] = NoClass THEN <<c>> ELSE <<c>> \o Lineage[Super[c]]]
  BY <1>7 DEF Lineage
<1>9. \A c \in Class : Lineage[c] = Up(Lineage, c)
  BY <1>8 DEF Up
<1> DEFINE D == {c \in Class : Lineage[c] \notin Seq(Class)}
<1>10. D = {}
  <2> SUFFICES ASSUME D # {} PROVE FALSE
    OBVIOUS
  <2>1. PICK c \in D : Super[c] \notin D
    <3>1. D \in (SUBSET Class) \ {{}}
      OBVIOUS
    <3> HIDE DEF D
    <3> QED BY <3>1, TreeAssumption
  <2>2. Super[c] = NoClass \/ Lineage[Super[c]] \in Seq(Class)
    BY <2>1, ClassAssumption
  <2>3. c \in Class /\ Lineage[c] \notin Seq(Class)
    BY <2>1
  <2>4. Lineage[c] = Up(Lineage, c)
    BY <1>9, <2>3
  <2>5. <<c>> \in Seq(Class)
    BY <2>3
  <2>6. CASE Super[c] = NoClass
    BY <2>3, <2>4, <2>5, <2>6 DEF Up
  <2>7. CASE Super[c] # NoClass
    <3>1. PICK v \in Seq(Class) : v = Lineage[Super[c]]
      BY <2>2, <2>7
    <3>2. Lineage[c] = <<c>> \o v
      BY <2>4, <2>7, <3>1 DEF Up
    <3> QED
      BY <2>3, <2>5, <3>1, <3>2, ConcatSet
  <2> QED
    BY <2>6, <2>7
<1>11. Lineage = [c \in Class |-> Lineage[c]]
  BY <1>8
<1> QED
  BY <1>9, <1>10, <1>11

\* What is added is found along with what was there.
LEMMA AddingSorts ==
    ASSUME NEW ids \in Seq(Nat), NEW new \in Seq(Nat)
    PROVE  /\ SortedIds(by_adding_ids(ids, new))
           /\ ToSet(by_adding_ids(ids, new)) = ToSet(ids) \cup ToSet(new)
<1>1. PICK s \in Seq(Nat) : s = ids \o new /\ ToSet(s) = ToSet(ids) \cup ToSet(new)
  BY ConcatSet
<1> QED
  BY <1>1, qsortSorts DEF by_adding_ids

\* The ids of a set, in some order
LEMMA SetToSeqHolds ==
    ASSUME NEW S, IsFiniteSet(S), S \subseteq Nat
    PROVE  SetToSeq(S) \in Seq(Nat) /\ ToSet(SetToSeq(S)) = S
<1>1. PICK n \in Nat : n = Cardinality(S)
  BY FS_CardinalityType
<1>2. ExistsBijection(1..n, S) /\ IsFiniteSet(1..n) /\ Cardinality(1..n) = n
  BY <1>1, FS_CardinalityType, FS_Interval
<1>3. \E f \in [1..n -> S] : IsInjective(f)
  BY <1>2 DEF ExistsBijection, Bijection, Injection
<1>4. PICK f : f = SetToSeq(S)
  OBVIOUS
<1>5. f \in [1..n -> S] /\ IsInjective(f)
  BY <1>1, <1>3, <1>4 DEF SetToSeq
<1>6. f \in Injection(1..n, S)
  BY <1>5 DEF Injection
<1>7. f \in Surjection(1..n, S)
  BY <1>1, <1>2, <1>6, FS_Injection
<1>8. f \in Seq(Nat)
  <2>1. f \in [1..n -> Nat]
    BY <1>5
  <2> QED
    BY <2>1
<1>9. ToSet(f) = S
  BY <1>5, <1>7 DEF Surjection, ToSet
<1> QED
  BY <1>4, <1>8, <1>9

----------------------------------------------------------------------------
(* Ids in arrays, and what mixins are *)

\* Arrays are sorted.  What a thread has copied has the ids of the array and its own,
\* as long as the array is the same.
Gathering(t) == th[t].pc \in {"copy", "cas"}
IdsInv ==
    /\ \A c \in Class : SortedIds(protocolids[c].ids) /\ SortedIds(categoryids[c].ids)
    /\ \A t \in Thread : Gathering(t) => th[t].ids \in Seq(Nat)
    /\ \A t \in Thread : th[t].pc = "cas" =>
          /\ SortedIds(th[t].copy) /\ th[t].array < next
          /\ protocolids[th[t].class].at = th[t].array =>
                ToSet(protocolids[th[t].class].ids) \cup ToSet(th[t].ids) \subseteq ToSet(th[t].copy)

\* A mixin has its protocol, or the loader is about to add it, before it is marked
\* as a mixin; it never gets anything that a mixin must not have.
Arrived(x) == ProtocolId[x] \in ToSet(protocolids[x].ids)
Arriving(x) == Gathering(Loader) /\ th[Loader].class = x /\ ProtocolId[x] \in ToSet(th[Loader].ids)
Coming(x, i) == \E j \in 1..(i - 1) : /\ todo[j].op = "protocols" /\ todo[j].class = x
                                      /\ ProtocolId[x] \in todo[j].ids
Plain(x, o) == o.class = x => /\ o.op # "mixin"
                              /\ o.op = "ivars" => o.list = NoList \/ IvarList[o.list] = <<>>
Marked == ismixin \cup {todo[i].class : i \in {j \in DOMAIN todo : todo[j].op = "ismixin"}}
MixinInv ==
    /\ (\E L : ivarlists \in [Class -> Seq(L)]) /\ ismixin \subseteq Class
    /\ DOMAIN mixins = Class /\ \A c \in Class : mixins[c] \in Seq(ismixin)
    /\ \A x \in ismixin : Arrived(x)
    /\ \A i \in DOMAIN todo : todo[i].op = "ismixin" =>
          Arrived(todo[i].class) \/ Arriving(todo[i].class) \/ Coming(todo[i].class, i)
    /\ \A x \in Marked : Super[x] = NoClass /\ ~has_ivars(x) /\ mixins[x] = <<>>
    /\ \A x \in Marked : \A i \in DOMAIN todo : Plain(x, todo[i])

IdsIInv == IInv /\ IdsInv /\ (state = "running" => MixinInv)

\* What the arrays say is what a search and a walk say.
LEMMA IdsIInvArrive == IdsIInv => IdsArrive
<1> SUFFICES ASSUME IdsIInv, state = "running", NEW c \in Class
             PROVE  /\ \A p \in UNION ProtocolLists : conformsto_protocolid(c, p) <=> p \in ToSet(walk_protocolids(c))
                    /\ \A id \in ToSet(walk_categoryids(c)) :
                          \E i \in DOMAIN Lineage[c] : has_categoryid(Lineage[c][i], id)
                    /\ \A x \in ToSet(walk_mixins(c)) : conforms_to_mixin(x)
  BY DEF IdsArrive
<1>1. IdsInv /\ MixinInv
  BY DEF IdsIInv
<1>l. PICK l \in Seq(Class) : l = Lineage[c]
  BY LineageIs
<1>2. \A i \in DOMAIN l : l[i] \in Class /\ DOMAIN l = 1..Len(l) /\ Len(l) \in Nat
  OBVIOUS
<1>3. \A d \in Class, p \in Nat : has_protocolid(d, p) <=> p \in ToSet(protocolids[d].ids)
  BY <1>1, bsearchFinds DEF IdsInv, has_protocolid
<1>4. \A d \in Class, id \in Nat : has_categoryid(d, id) <=> id \in ToSet(categoryids[d].ids)
  BY <1>1, bsearchFinds DEF IdsInv, has_categoryid
<1>5. ASSUME NEW p \in UNION ProtocolLists
      PROVE  conformsto_protocolid(c, p) <=> p \in ToSet(walk_protocolids(c))
  <2>1. p \in Nat
    BY IdAssumption
  <2>2. PICK s : s = [i \in DOMAIN l |-> protocolids[l[i]].ids]
    OBVIOUS
  <2>3. s \in Seq(Seq(Nat)) /\ DOMAIN s = DOMAIN l
    <3>1. \A i \in DOMAIN l : protocolids[l[i]].ids \in Seq(Nat)
      BY <1>1, <1>2 DEF IdsInv, SortedIds
    <3>2. s \in [1..Len(l) -> Seq(Nat)] /\ Len(l) \in Nat
      BY <2>2, <3>1
    <3> QED
      BY <2>2, <3>2
  <2>4. p \in ToSet(FlattenSeq(s)) <=> \E i \in DOMAIN s : p \in ToSet(s[i])
    BY <2>3, FlattenHolds
  <2>5. \A i \in DOMAIN l : has_protocolid(l[i], p) <=> p \in ToSet(s[i])
    BY <1>2, <1>3, <2>1, <2>2
  <2>6. walk_protocolids(c) = FlattenSeq(s)
    BY <1>l, <2>2 DEF walk_protocolids
  <2> QED
    BY <1>l, <2>3, <2>4, <2>5, <2>6 DEF conformsto_protocolid
<1>6. ASSUME NEW id \in ToSet(walk_categoryids(c))
      PROVE  \E i \in DOMAIN Lineage[c] : has_categoryid(Lineage[c][i], id)
  <2>2. PICK s : s = [i \in DOMAIN l |-> categoryids[l[i]].ids]
    OBVIOUS
  <2>3. s \in Seq(Seq(Nat)) /\ DOMAIN s = DOMAIN l
    <3>1. \A i \in DOMAIN l : categoryids[l[i]].ids \in Seq(Nat)
      BY <1>1, <1>2 DEF IdsInv, SortedIds
    <3>2. s \in [1..Len(l) -> Seq(Nat)] /\ Len(l) \in Nat
      BY <2>2, <3>1
    <3> QED
      BY <2>2, <3>2
  <2>4. walk_categoryids(c) = FlattenSeq(s)
    BY <1>l, <2>2 DEF walk_categoryids
  <2>5. PICK i \in DOMAIN s : id \in ToSet(s[i])
    BY <2>3, <2>4, FlattenHolds
  <2>6. id \in Nat /\ id \in ToSet(categoryids[l[i]].ids) /\ l[i] \in Class
    BY <1>2, <2>2, <2>3, <2>5 DEF ToSet
  <2> QED
    BY <1>4, <1>l, <2>3, <2>5, <2>6
<1>7. ASSUME NEW x \in ToSet(walk_mixins(c)) PROVE conforms_to_mixin(x)
  <2>2. PICK s : s = [i \in DOMAIN l |-> mixins[l[i]]]
    OBVIOUS
  <2>3. s \in Seq(Seq(ismixin)) /\ DOMAIN s = DOMAIN l
    <3>1. \A i \in DOMAIN l : mixins[l[i]] \in Seq(ismixin)
      BY <1>1, <1>2 DEF MixinInv
    <3>2. s \in [1..Len(l) -> Seq(ismixin)] /\ Len(l) \in Nat
      BY <2>2, <3>1
    <3> QED
      BY <2>2, <3>2
  <2>4. walk_mixins(c) = FlattenSeq(s)
    BY <1>l, <2>2 DEF walk_mixins
  <2>5. PICK i \in DOMAIN s : x \in ToSet(s[i])
    BY <2>3, <2>4, FlattenHolds
  <2>6. x \in ismixin /\ x \in Class
    <3>1. s[i] \in Seq(ismixin)
      BY <2>3
    <3> QED
      BY <1>1, <2>5, <3>1 DEF MixinInv, ToSet
  <2>7. Super[x] = NoClass /\ ~has_ivars(x) /\ mixins[x] = <<>> /\ Arrived(x)
    BY <1>1, <2>6 DEF MixinInv, Marked
  <2>8. Lineage[x] = <<x>>
    BY <2>6, <2>7, LineageIs DEF Up
  <2>9. ProtocolId[x] \in Nat
    BY <1>1, <2>6, <2>7 DEF Arrived, IdsInv, SortedIds, ToSet
  <2>10. has_protocolid(x, ProtocolId[x])
    BY <1>3, <2>6, <2>7, <2>9 DEF Arrived
  <2>11. conformsto_protocolid(x, ProtocolId[x])
    <3>1. 1 \in DOMAIN Lineage[x] /\ Lineage[x][1] = x
      BY <2>8
    <3> QED
      BY <2>10, <3>1 DEF conformsto_protocolid
  <2> QED
    BY <2>7, <2>11 DEF conforms_to_mixin
<1> QED
  BY <1>5, <1>6, <1>7

----------------------------------------------------------------------------
(* Steps keep what is said of ids and of mixins *)

\* Operations of the loader are those of a program.
LEMMA OperationIds ==
    ASSUME NEW o \in Operation
    PROVE  /\ o.class \in Class
           /\ o.op = "protocols" => o.ids \subseteq Nat /\ IsFiniteSet(o.ids)
           /\ o.op = "category" => o.id \in Nat
<1>1. PICK p \in Programs : o \in ToSet(p.todo)
  BY DEF Operation
<1> QED
  BY <1>1, IdAssumption, ProgramAssumption

\* The operations after the first one
LEMMA TailIs ==
    ASSUME NEW s \in Seq(Operation), s # <<>>
    PROVE  /\ Head(s) = s[1] /\ Head(s) \in Operation /\ 1 \in DOMAIN s /\ Tail(s) \in Seq(Operation)
           /\ \A i \in DOMAIN Tail(s) : i + 1 \in DOMAIN s /\ i \in Nat /\ Tail(s)[i] = s[i + 1]
           /\ \A i \in DOMAIN s : i # 1 => i - 1 \in DOMAIN Tail(s) /\ i \in Nat
OBVIOUS

\* A step that leaves the arrays alone, and no thread gathers ids or goes on gathering
LEMMA KeepIds ==
    ASSUME ThreadInv, IdsInv, UNCHANGED <<protocolids, categoryids>>,
           next \in Nat, next' \in Nat, next' >= next,
           \A t \in Thread : th'[t] = th[t] \/ th'[t].pc \notin {"copy", "cas"}
    PROVE  IdsInv'
<1>1. \A t \in Thread : th'[t].pc \in {"copy", "cas"} => th'[t] = th[t]
  OBVIOUS
<1>2. \A t \in Thread : th[t].array \in Nat
  BY LocalTypes
<1>3. \A c \in Class : SortedIds(protocolids[c].ids)' /\ SortedIds(categoryids[c].ids)'
  BY DEF IdsInv, SortedIds
<1>4. \A t \in Thread : Gathering(t)' => th'[t].ids \in Seq(Nat)
  BY <1>1 DEF IdsInv, Gathering
<1>5. ASSUME NEW t \in Thread, th'[t].pc = "cas"
      PROVE  /\ SortedIds(th'[t].copy) /\ th'[t].array < next'
             /\ protocolids[th'[t].class].at = th'[t].array =>
                   ToSet(protocolids[th'[t].class].ids) \cup ToSet(th'[t].ids) \subseteq ToSet(th'[t].copy)
  <2>1. th'[t] = th[t] /\ th[t].pc = "cas" /\ th[t].array \in Nat
    BY <1>1, <1>2, <1>5
  <2>2. SortedIds(th[t].copy) /\ th[t].array < next
    BY <2>1 DEF IdsInv
  <2> QED
    BY <2>1, <2>2 DEF IdsInv
<1> QED
  BY <1>3, <1>4, <1>5 DEF IdsInv, SortedIds

\* A step that has to do with neither mixins nor the loader
LEMMA KeepMixins ==
    ASSUME MixinInv, UNCHANGED <<protocolids, ismixin, mixins, ivarlists, todo>>, th'[Loader] = th[Loader]
    PROVE  MixinInv'
BY DEF MixinInv, Arrived, Arriving, Coming, Gathering, Marked, has_ivars, Plain

\* What clients do with the kvc cache
KvcStep(t) == \/ (\E key \in Key : Lookup(t, key)) \/ AddMethods(t) \/ SetRead(t) \/ Swap(t) \/ Claim(t)
              \/ SetKey(t) \/ Invalidate(t) \/ Free(t)
LEMMA KvcStepKeeps ==
    ASSUME IdsIInv, state = "running", NEW t \in Client, KvcStep(t)
    PROVE  IdsInv' /\ MixinInv'
<1>1. ThreadInv /\ CacheInv /\ IdsInv /\ MixinInv /\ t \in Thread /\ Loader \in Thread /\ t # Loader
  BY ClassAssumption DEF IdsIInv, IInv, Thread
<1>2. PICK I, C : th \in [Thread -> Local(I, C)]
  BY <1>1 DEF ThreadInv
<1>3. UNCHANGED <<protocolids, categoryids, ismixin, mixins, ivarlists, todo>>
  BY DEF KvcStep, Lookup, AddMethods, SetRead, Swap, Claim, SetKey, Invalidate, Free, content, lists
<1>4. next \in Nat /\ next' \in Nat /\ next' >= next
  <2>1. next' = next \/ next' = next + 1
    BY DEF KvcStep, Lookup, AddMethods, SetRead, Swap, Claim, SetKey, Invalidate, Free
  <2> QED
    BY <1>1, <2>1 DEF CacheInv
<1>5. Idle.pc = "idle" /\ \E J, D : Idle \in Local(J, D)
  BY IdleIsLocal
<1>6. \A u \in Thread : u # t => th'[u] = th[u]
  BY <1>1, <1>2 DEF KvcStep, Lookup, AddMethods, SetRead, Swap, Claim, SetKey, Invalidate, Free
<1>7. th'[t] = th[t] \/ th'[t].pc \notin {"copy", "cas"}
  <2>1. CASE \E key \in Key : Lookup(t, key)
    BY <1>1, <1>2, <1>5, <2>1 DEF Lookup, Idle
  <2>2. CASE AddMethods(t)
    BY <1>1, <1>2, <1>5, <2>2 DEF AddMethods, Idle
  <2>3. CASE SetRead(t)
    BY <1>1, <1>2, <2>3 DEF SetRead, Local
  <2>4. CASE Swap(t)
    <3>1. \/ th' = [th EXCEPT ![t].pc = "set"]
          \/ th' = [th EXCEPT ![t] = Idle]
          \/ th' = [th EXCEPT ![t] = [th[t] EXCEPT !.pc = "free", !.info = NoInfo]]
      BY <2>4 DEF Swap
    <3> QED
      BY <1>1, <1>2, <1>5, <3>1 DEF Local
  <2>5. CASE Claim(t)
    BY <1>1, <1>2, <1>5, <2>5 DEF Claim, Local
  <2>6. CASE SetKey(t)
    BY <1>1, <1>2, <1>5, <2>6 DEF SetKey, Local
  <2>7. CASE Invalidate(t)
    BY <1>1, <1>2, <1>5, <2>7 DEF Invalidate, Idle
  <2>8. CASE Free(t)
    BY <1>1, <1>2, <1>5, <2>8 DEF Free
  <2> QED
    BY <2>1, <2>2, <2>3, <2>4, <2>5, <2>6, <2>7, <2>8 DEF KvcStep
<1>8. IdsInv'
  BY <1>1, <1>3, <1>4, <1>6, <1>7, KeepIds
<1>9. MixinInv'
  BY <1>1, <1>3, <1>6, KeepMixins
<1> QED
  BY <1>8, <1>9

\* A thread that begins to add protocols has gathered the ids that are new.
LEMMA BeginGathers ==
    ASSUME IdsInv, NEW c \in Class, NEW ps, ps \subseteq Nat, IsFiniteSet(ps)
    PROVE  /\ NewProtocols(c, ps).ids \in Seq(Nat)
           /\ \A p \in ps : p \in ToSet(protocolids[c].ids) \/ p \in ToSet(NewProtocols(c, ps).ids)
<1>1. PICK S : S = {p \in ps : ~has_protocolid(c, p)}
  OBVIOUS
<1>2. S \subseteq ps /\ S \subseteq Nat
  BY <1>1
<1>3. IsFiniteSet(S)
  BY <1>2, FS_Subset
<1>4. SetToSeq(S) \in Seq(Nat) /\ ToSet(SetToSeq(S)) = S
  BY <1>2, <1>3, SetToSeqHolds
<1>5. NewProtocols(c, ps).ids = SetToSeq(S)
  BY <1>1 DEF NewProtocols, Idle
<1>6. \A p \in ps : p \notin S => p \in ToSet(protocolids[c].ids)
  BY <1>1, bsearchFinds DEF IdsInv, has_protocolid
<1> QED
  BY <1>4, <1>5, <1>6

\* A thread that gathers ids, or copies an array, or goes on with what it has
LEMMA GatherIds ==
    ASSUME ThreadInv, IdsInv, NEW t \in Thread, NEW r, Move(t, r), UNCHANGED <<protocolids, categoryids, next>>,
           r.ids \in Seq(Nat),
           r.pc = "cas" => /\ SortedIds(r.copy) /\ r.array < next
                           /\ protocolids[r.class].at = r.array =>
                                 ToSet(protocolids[r.class].ids) \cup ToSet(r.ids) \subseteq ToSet(r.copy)
    PROVE  IdsInv'
<1>1. th'[t] = r /\ \A u \in Thread : u # t => th'[u] = th[u]
  BY MoveFacts
<1>2. \A c \in Class : SortedIds(protocolids[c].ids)' /\ SortedIds(categoryids[c].ids)'
  BY DEF IdsInv, SortedIds
<1>3. \A u \in Thread : Gathering(u)' => th'[u].ids \in Seq(Nat)
  BY <1>1 DEF IdsInv, Gathering
<1>4. ASSUME NEW u \in Thread, th'[u].pc = "cas"
      PROVE  /\ SortedIds(th'[u].copy) /\ th'[u].array < next'
             /\ protocolids[th'[u].class].at = th'[u].array =>
                   ToSet(protocolids[th'[u].class].ids) \cup ToSet(th'[u].ids) \subseteq ToSet(th'[u].copy)
  <2>1. CASE u = t
    BY <1>1, <1>4, <2>1
  <2>2. CASE u # t
    BY <1>1, <1>4, <2>2 DEF IdsInv
  <2> QED
    BY <2>1, <2>2
<1> QED
  BY <1>2, <1>3, <1>4 DEF IdsInv, SortedIds

LEMMA AddProtocolsIds ==
    ASSUME IdsIInv, state = "running", NEW t \in Client, NEW c \in Adopters, NEW ps \in ProtocolLists,
           AddProtocols(t, c, ps)
    PROVE  IdsInv' /\ MixinInv'
<1>1. ThreadInv /\ IdsInv /\ MixinInv /\ t \in Thread /\ Loader \in Thread /\ t # Loader /\ c \in Class
      /\ ps \subseteq Nat /\ IsFiniteSet(ps)
  BY ClassAssumption, IdAssumption DEF IdsIInv, IInv, Thread
<1>2. PICK r : r = NewProtocols(c, ps)
  OBVIOUS
<1>3. Move(t, r) /\ r.pc = "copy"
  BY <1>1, <1>2, NewProtocolsIsLocal DEF Move, AddProtocols
<1>4. r.ids \in Seq(Nat)
  BY <1>1, <1>2, BeginGathers
<1>5. UNCHANGED <<protocolids, categoryids, ismixin, mixins, ivarlists, todo, next>>
  BY DEF AddProtocols, content, lists
<1>6. IdsInv'
  BY <1>1, <1>3, <1>4, <1>5, GatherIds
<1>7. th'[Loader] = th[Loader]
  BY <1>1, <1>3, MoveFacts
<1> QED
  BY <1>1, <1>5, <1>6, <1>7, KeepMixins

\* A sequence is one of any set that has more in it.
LEMMA SeqGrows ==
    ASSUME NEW S, NEW T, S \subseteq T, NEW s \in Seq(S)
    PROVE  s \in Seq(T)
<1>1. s \in [1..Len(s) -> T] /\ Len(s) \in Nat
  OBVIOUS
<1> QED
  BY <1>1

\* The loader goes on to its next operation: what is to come moves up one place.
LEMMA LoadMixins ==
    ASSUME ThreadInv, MixinInv, todo # <<>>, todo' = Tail(todo), th[Loader].pc = "idle", UNCHANGED protocolids,
           NEW o, o = Head(todo),
           o.op = "protocols" /\ ProtocolId[o.class] \in o.ids => Arrived(o.class) \/ Arriving(o.class)',
           ismixin' = ismixin \/ (o.op = "ismixin" /\ ismixin' = ismixin \cup {o.class}),
           \E L : ivarlists' \in [Class -> Seq(L)],
           DOMAIN mixins' = Class, \A c \in Class : mixins'[c] \in Seq(ismixin),
           \A x \in Marked : ~has_ivars(x)' /\ mixins'[x] = <<>>
    PROVE  MixinInv'
<1>1. /\ o = todo[1] /\ o \in Operation /\ 1 \in DOMAIN todo
      /\ \A i \in DOMAIN todo' : i + 1 \in DOMAIN todo /\ i \in Nat /\ todo'[i] = todo[i + 1]
      /\ \A i \in DOMAIN todo : i # 1 => i - 1 \in DOMAIN todo' /\ i \in Nat
  <2>1. PICK s \in Seq(Operation) : s = todo
    BY DEF ThreadInv
  <2> QED
    BY <2>1, TailIs
<1>2. o.class \in Class
  BY <1>1, OperationIds
<1>3. \A x : Arrived(x)' <=> Arrived(x)
  BY DEF Arrived
<1>4. \A x : ~Arriving(x)
  BY DEF Arriving, Gathering
<1>5. o.op = "ismixin" => Arrived(o.class)
  <2>1. ~Coming(o.class, 1)
    BY DEF Coming
  <2> QED
    BY <1>1, <1>4, <2>1 DEF MixinInv
<1>6. ismixin' \subseteq Class /\ ismixin \subseteq ismixin' /\ \A x \in ismixin' : Arrived(x)'
  BY <1>2, <1>3, <1>5 DEF MixinInv
<1>7. \A c \in Class : mixins'[c] \in Seq(ismixin')
  BY <1>6, SeqGrows
<1>8. ASSUME NEW i \in DOMAIN todo', todo'[i].op = "ismixin", NEW x, x = todo'[i].class
      PROVE  Arrived(x)' \/ Arriving(x)' \/ Coming(x, i)'
  <2>1. i \in Nat /\ i + 1 \in DOMAIN todo /\ todo[i + 1] = todo'[i]
    BY <1>1
  <2>2. Arrived(x) \/ Coming(x, i + 1)
    BY <1>4, <1>8, <2>1 DEF MixinInv
  <2>3. CASE Coming(x, i + 1)
    <3>1. PICK j \in 1..i : todo[j].op = "protocols" /\ todo[j].class = x /\ ProtocolId[x] \in todo[j].ids
      BY <2>1, <2>3 DEF Coming
    <3>2. CASE j = 1
      BY <1>1, <1>3, <3>1, <3>2
    <3>3. CASE j # 1
      <4>1. j \in DOMAIN todo
        <5>1. PICK s \in Seq(Operation) : s = todo
          BY DEF ThreadInv
        <5>2. DOMAIN s = 1..Len(s) /\ Len(s) \in Nat
          BY <5>1
        <5> QED
          BY <2>1, <5>1, <5>2
      <4>2. j - 1 \in DOMAIN todo'
        BY <1>1, <3>3, <4>1
      <4>3. todo'[j - 1] = todo[(j - 1) + 1]
        BY <1>1, <4>2
      <4>4. (j - 1) + 1 = j /\ j - 1 \in 1..(i - 1)
        BY <2>1, <3>3
      <4> QED
        BY <3>1, <4>3, <4>4 DEF Coming
    <3> QED
      BY <3>2, <3>3
  <2> QED
    BY <1>3, <2>2, <2>3
<1>9. Marked' \subseteq Marked
  <2>1. ismixin' \subseteq Marked
    BY <1>1 DEF Marked
  <2>2. ASSUME NEW i \in DOMAIN todo', todo'[i].op = "ismixin" PROVE todo'[i].class \in Marked
    BY <1>1, <2>2 DEF Marked
  <2> QED
    BY <2>1, <2>2 DEF Marked
<1>10. \A x \in Marked' : Super[x] = NoClass /\ ~has_ivars(x)' /\ mixins'[x] = <<>>
  BY <1>9 DEF MixinInv
<1>11. \A x \in Marked' : \A i \in DOMAIN todo' : Plain(x, todo[i])'
  BY <1>1, <1>9 DEF MixinInv, Plain
<1>12. \A i \in DOMAIN todo' : todo'[i].op = "ismixin" =>
          (Arrived(todo[i].class) \/ Arriving(todo[i].class) \/ Coming(todo[i].class, i))'
  BY <1>8 DEF Arrived, Arriving, Coming, Gathering
<1> HIDE DEF Marked
<1> QED
  BY <1>6, <1>7, <1>10, <1>11, <1>12 DEF MixinInv

LEMMA LoadProtocolsIds ==
    ASSUME IdsIInv, state = "running", LoadProtocols
    PROVE  IdsInv' /\ MixinInv'
<1>1. ThreadInv /\ IdsInv /\ MixinInv /\ Loader \in Thread /\ todo \in Seq(Operation)
  BY DEF IdsIInv, IInv, Thread, ThreadInv
<1>2. todo # <<>> /\ todo' = Tail(todo) /\ th[Loader].pc = "idle"
      /\ UNCHANGED <<protocolids, categoryids, ismixin, mixins, ivarlists, next>>
  BY DEF LoadProtocols, Load, lists
<1>o. PICK o \in Operation : o = Head(todo)
  BY <1>1, <1>2
<1>p. o.op = "protocols" /\ o.class \in Class /\ o.ids \subseteq Nat /\ IsFiniteSet(o.ids)
  BY <1>o, OperationIds DEF LoadProtocols, Load
<1>3. PICK r : r = NewProtocols(o.class, o.ids)
  OBVIOUS
<1>4. Move(Loader, r) /\ r.pc = "copy" /\ r.class = o.class
  BY <1>o, <1>p, <1>3, NewProtocolsIsLocal DEF Move, LoadProtocols
<1>5. r.ids \in Seq(Nat) /\ \A p \in o.ids : p \in ToSet(protocolids[o.class].ids) \/ p \in ToSet(r.ids)
  BY <1>1, <1>p, <1>3, BeginGathers
<1>6. IdsInv'
  BY <1>1, <1>2, <1>4, <1>5, GatherIds
<1>7. th'[Loader] = r
  BY <1>1, <1>4, MoveFacts
<1>8. ProtocolId[o.class] \in o.ids => Arrived(o.class) \/ Arriving(o.class)'
  BY <1>4, <1>5, <1>7 DEF Arrived, Arriving, Gathering
<1>9. /\ \E L : ivarlists' \in [Class -> Seq(L)]
      /\ DOMAIN mixins' = Class /\ \A c \in Class : mixins'[c] \in Seq(ismixin)
      /\ \A x \in Marked : ~has_ivars(x)' /\ mixins'[x] = <<>>
  BY <1>1, <1>2 DEF MixinInv, has_ivars
<1> QED
  BY <1>1, <1>2, <1>o, <1>6, <1>8, <1>9, LoadMixins

LEMMA AddCopyIds ==
    ASSUME IdsIInv, state = "running", NEW t \in Thread, AddCopy(t)
    PROVE  IdsInv' /\ MixinInv'
<1>1. ThreadInv /\ CacheInv /\ ArrayInv /\ IdsInv /\ MixinInv /\ Loader \in Thread
  BY DEF IdsIInv, IInv, Thread
<1>2. PICK I, C : th \in [Thread -> Local(I, C)]
  BY <1>1 DEF ThreadInv
<1>3. PICK a : a = protocolids[th[t].class]
  OBVIOUS
<1>4. PICK s : s = by_adding_ids(a.ids, th[t].ids)
  OBVIOUS
<1>5. th[t].pc = "copy" /\ th[t].class \in Class /\ th[t].ids \in Seq(Nat)
  BY <1>1 DEF AddCopy, ThreadInv, IdsInv, Gathering
<1>6. a.at \in Nat /\ a.at < next /\ a.ids \in Seq(Nat)
  BY <1>1, <1>3, <1>5 DEF ArrayInv, CacheInv, IdsInv, SortedIds
<1>7. PICK r : r = [th[t] EXCEPT !.pc = "cas", !.array = a.at, !.copy = s]
  OBVIOUS
<1>8. th' = [th EXCEPT ![t] = r]
  BY <1>2, <1>3, <1>4, <1>7 DEF AddCopy, Local
<1>9. r \in Local(I, C \cup {s}) /\ r.pc = "cas" /\ r.class = th[t].class /\ r.ids = th[t].ids
      /\ r.array = a.at /\ r.copy = s
  BY <1>2, <1>6, <1>7 DEF Local, Place
<1>10. Move(t, r)
  BY <1>8, <1>9 DEF Move
<1>11. UNCHANGED <<protocolids, categoryids, ismixin, mixins, ivarlists, todo, next>>
  BY DEF AddCopy, content, lists
<1>12. SortedIds(s) /\ ToSet(s) = ToSet(a.ids) \cup ToSet(th[t].ids)
  BY <1>4, <1>5, <1>6, AddingSorts
<1>13. IdsInv'
  BY <1>1, <1>3, <1>5, <1>6, <1>9, <1>10, <1>11, <1>12, GatherIds
<1>14. th'[Loader] = th[Loader] \/ (t = Loader /\ th'[Loader] = r)
  BY <1>1, <1>10, MoveFacts
<1>15. \A x : Arriving(x)' <=> Arriving(x)
  BY <1>5, <1>9, <1>14 DEF Arriving, Gathering
<1>16. MixinInv'
  BY <1>1, <1>11, <1>15 DEF MixinInv, Arrived, Coming, Marked, has_ivars, Plain
<1> QED
  BY <1>13, <1>16

\* What a thread has copied is exchanged for an array it was copied from, or not at all.
LEMMA AddExchangeIds ==
    ASSUME IdsIInv, state = "running", NEW t \in Thread, AddExchange(t)
    PROVE  IdsInv' /\ MixinInv'
<1>1. ThreadInv /\ CacheInv /\ ArrayInv /\ IdsInv /\ MixinInv /\ Loader \in Thread
  BY DEF IdsIInv, IInv, Thread
<1>2. PICK I, C : th \in [Thread -> Local(I, C)]
  BY <1>1 DEF ThreadInv
<1>3. th[t].pc = "cas" /\ th[t].class \in Class /\ next \in Nat /\ th[t].ids \in Seq(Nat)
  BY <1>1 DEF AddExchange, ThreadInv, CacheInv, IdsInv, Gathering
<1>4. UNCHANGED <<categoryids, ismixin, mixins, ivarlists, todo>>
  BY DEF AddExchange, content, lists
<1>c. PICK c \in Class : c = th[t].class
  BY <1>3
<1>5. CASE protocolids[c].at = th[t].array
  <2>1. PICK a : a = [at |-> next, ids |-> th[t].copy]
    OBVIOUS
  <2>2. /\ protocolids' = [protocolids EXCEPT ![c] = a]
        /\ th' = [th EXCEPT ![t] = Idle] /\ next' = next + 1
    BY <1>5, <1>c, <2>1 DEF AddExchange
  <2>3. protocolids'[c] = a /\ \A d \in Class : d # c => protocolids'[d] = protocolids[d]
    BY <1>1, <2>2 DEF ArrayInv
  <2>4. SortedIds(a.ids) /\ ToSet(protocolids[c].ids) \subseteq ToSet(a.ids)
        /\ ToSet(th[t].ids) \subseteq ToSet(a.ids) /\ a.at = next
    BY <1>1, <1>3, <1>5, <1>c, <2>1 DEF IdsInv
  <2>5. th'[t] = Idle /\ \A u \in Thread : u # t => th'[u] = th[u]
    BY <1>2, <2>2
  <2>6. Idle.pc = "idle"
    BY IdleIsLocal
  <2>7. ASSUME NEW u \in Thread, th'[u].pc \in {"copy", "cas"}
        PROVE  th'[u] = th[u] /\ th[u].ids \in Seq(Nat)
    BY <1>1, <2>5, <2>6, <2>7 DEF IdsInv, Gathering
  <2>8. ASSUME NEW u \in Thread, th'[u].pc = "cas"
        PROVE  /\ SortedIds(th[u].copy) /\ th[u].array < next'
               /\ protocolids'[th[u].class].at = th[u].array =>
                     ToSet(protocolids'[th[u].class].ids) \cup ToSet(th[u].ids) \subseteq ToSet(th[u].copy)
    <3>1. th'[u] = th[u]
      BY <2>7, <2>8
    <3>2. th[u].pc = "cas" /\ th[u].class \in Class /\ th[u].array \in Nat
      BY <1>1, <2>8, <3>1, LocalTypes DEF ThreadInv
    <3>3. SortedIds(th[u].copy) /\ th[u].array < next
      BY <1>1, <3>2 DEF IdsInv
    <3>4. CASE th[u].class = c
      <4>1. protocolids'[th[u].class].at # th[u].array
        BY <1>3, <2>3, <2>4, <3>2, <3>3, <3>4
      <4> QED
        BY <1>3, <2>2, <3>2, <3>3, <4>1
    <3>5. CASE th[u].class # c
      <4>1. protocolids'[th[u].class] = protocolids[th[u].class]
        BY <2>3, <3>2, <3>5
      <4>2. protocolids[th[u].class].at = th[u].array =>
               ToSet(protocolids[th[u].class].ids) \cup ToSet(th[u].ids) \subseteq ToSet(th[u].copy)
        BY <1>1, <3>2 DEF IdsInv
      <4>3. th[u].array < next'
        BY <1>3, <2>2, <3>2, <3>3
      <4> QED
        BY <3>3, <4>1, <4>2, <4>3
    <3> QED
      BY <3>4, <3>5
  <2>9. \A d \in Class : SortedIds(protocolids'[d].ids) /\ SortedIds(categoryids[d].ids)
    BY <1>1, <2>3, <2>4 DEF IdsInv
  <2>10. IdsInv'
    BY <1>4, <2>7, <2>8, <2>9 DEF IdsInv, SortedIds, Gathering
  <2>11. \A x \in Class : Arrived(x) => Arrived(x)'
    BY <2>3, <2>4 DEF Arrived
  <2>12. \A x \in Class : Arriving(x) => Arrived(x)' \/ Arriving(x)'
    <3> SUFFICES ASSUME NEW x \in Class, Arriving(x) PROVE Arrived(x)' \/ Arriving(x)'
      OBVIOUS
    <3>1. CASE t = Loader
      BY <1>c, <2>3, <2>4, <3>1 DEF Arriving, Arrived
    <3>2. CASE t # Loader
      BY <1>1, <2>5, <3>2 DEF Arriving, Gathering
    <3> QED
      BY <3>1, <3>2
  <2>13. \A i \in DOMAIN todo : todo[i].class \in Class
    <3>1. \A i \in DOMAIN todo : todo[i] \in Operation
      BY <1>1 DEF ThreadInv
    <3> QED
      BY <3>1, OperationIds
  <2>14. \A i \in DOMAIN todo : todo[i].op = "ismixin" =>
            (Arrived(todo[i].class) \/ Arriving(todo[i].class) \/ Coming(todo[i].class, i))'
    <3> SUFFICES ASSUME NEW i \in DOMAIN todo, todo[i].op = "ismixin", NEW x, x = todo[i].class
                 PROVE  Arrived(x)' \/ Arriving(x)' \/ Coming(x, i)'
      BY <1>4 DEF Arrived, Arriving, Coming, Gathering
    <3>1. Arrived(x) \/ Arriving(x) \/ Coming(x, i)
      BY <1>1 DEF MixinInv
    <3>2. Coming(x, i)' <=> Coming(x, i)
      BY <1>4 DEF Coming
    <3> QED
      BY <2>11, <2>12, <2>13, <3>1, <3>2
  <2>15. \A x \in ismixin' : Arrived(x)'
    BY <1>1, <1>4, <2>11 DEF MixinInv
  <2>16. Marked' = Marked
    BY <1>4 DEF Marked
  <2>17. \A x \in Marked' : Super[x] = NoClass /\ ~has_ivars(x)' /\ mixins'[x] = <<>>
    BY <1>1, <1>4, <2>16 DEF MixinInv, has_ivars
  <2>18. \A x \in Marked' : \A i \in DOMAIN todo' : Plain(x, todo[i])'
    BY <1>1, <1>4, <2>16 DEF MixinInv, Plain
  <2>19. /\ (\E L : ivarlists' \in [Class -> Seq(L)]) /\ ismixin' \subseteq Class
         /\ DOMAIN mixins' = Class /\ \A d \in Class : mixins'[d] \in Seq(ismixin')
    BY <1>1, <1>4 DEF MixinInv
  <2>20. \A i \in DOMAIN todo' : todo'[i].op = "ismixin" =>
            (Arrived(todo[i].class) \/ Arriving(todo[i].class) \/ Coming(todo[i].class, i))'
    BY <1>4, <2>14
  <2>21. MixinInv'
    <3> HIDE DEF Marked
    <3> QED
      BY <2>15, <2>17, <2>18, <2>19, <2>20 DEF MixinInv
  <2> QED
    BY <2>10, <2>21
<1>6. CASE protocolids[c].at # th[t].array
  <2>1. PICK r : r = [th[t] EXCEPT !.pc = "copy"]
    OBVIOUS
  <2>2. r \in Local(I, C) /\ r.pc = "copy" /\ r.class = th[t].class /\ r.ids = th[t].ids
    BY <1>2, <2>1 DEF Local, Place
  <2>3. th' = [th EXCEPT ![t] = r] /\ UNCHANGED <<protocolids, next>>
    BY <1>2, <1>6, <1>c, <2>1 DEF AddExchange, Local
  <2>4. Move(t, r)
    BY <2>2, <2>3 DEF Move
  <2>5. IdsInv'
    BY <1>1, <1>3, <1>4, <2>2, <2>3, <2>4, GatherIds
  <2>6. th'[Loader] = th[Loader] \/ (t = Loader /\ th'[Loader] = r)
    BY <1>1, <2>4, MoveFacts
  <2>7. \A x : Arriving(x)' <=> Arriving(x)
    BY <1>3, <2>2, <2>6 DEF Arriving, Gathering
  <2>8. MixinInv'
    <3>1. UNCHANGED <<protocolids, ismixin, mixins, ivarlists, todo>>
      BY <1>4, <2>3
    <3> QED
      BY <1>1, <2>7, <3>1 DEF MixinInv, Arrived, Coming, Marked, has_ivars, Plain
  <2> QED
    BY <2>5, <2>8
<1> QED
  BY <1>5, <1>6

\* A step of the loader that is no matter of mixins
LEMMA LoadOther ==
    ASSUME IdsIInv, state = "running", todo # <<>>, todo' = Tail(todo), th[Loader].pc = "idle",
           UNCHANGED <<protocolids, ismixin, mixins, ivarlists>>, Head(todo).op # "protocols"
    PROVE  MixinInv'
<1>1. ThreadInv /\ MixinInv
  BY DEF IdsIInv, IInv
<1>o. PICK o : o = Head(todo)
  OBVIOUS
<1>2. /\ \E L : ivarlists' \in [Class -> Seq(L)]
      /\ DOMAIN mixins' = Class /\ \A c \in Class : mixins'[c] \in Seq(ismixin)
      /\ \A x \in Marked : ~has_ivars(x)' /\ mixins'[x] = <<>>
  BY <1>1 DEF MixinInv, has_ivars
<1> QED
  BY <1>1, <1>2, <1>o, LoadMixins

LEMMA AddCategoryIds ==
    ASSUME IdsIInv, state = "running", AddCategory
    PROVE  IdsInv' /\ MixinInv'
<1>1. ThreadInv /\ CacheInv /\ ArrayInv /\ IdsInv /\ Loader \in Thread /\ todo \in Seq(Operation)
  BY DEF IdsIInv, IInv, Thread, ThreadInv
<1>2. /\ todo # <<>> /\ todo' = Tail(todo) /\ th[Loader].pc = "idle" /\ Head(todo).op = "category"
      /\ UNCHANGED <<protocolids, ismixin, mixins, ivarlists, th>>
  BY DEF AddCategory, Load, Installs, lists
<1>3. MixinInv'
  BY <1>2, LoadOther
<1>o. PICK o \in Operation : o = Head(todo)
  BY <1>1, <1>2
<1>c. PICK c \in Class, id \in Nat : c = o.class /\ id = o.id
  BY <1>2, <1>o, OperationIds
<1>4. next \in Nat
  BY <1>1 DEF CacheInv
<1>5. CASE has_categoryid(c, id)
  <2>1. UNCHANGED <<categoryids, next>>
    BY <1>5, <1>c, <1>o DEF AddCategory
  <2> QED
    BY <1>1, <1>2, <1>3, <1>4, <2>1, KeepIds
<1>6. CASE ~has_categoryid(c, id)
  <2>1. PICK s : s = by_adding_ids(categoryids[c].ids, <<id>>)
    OBVIOUS
  <2>2. categoryids' = [categoryids EXCEPT ![c] = [at |-> next, ids |-> s]] /\ next' = next + 1
    BY <1>6, <1>c, <1>o, <2>1 DEF AddCategory
  <2>3. categoryids[c].ids \in Seq(Nat) /\ <<id>> \in Seq(Nat)
    BY <1>1 DEF IdsInv, SortedIds
  <2>4. SortedIds(s)
    BY <2>1, <2>3, AddingSorts
  <2>5. \A d \in Class : SortedIds(categoryids'[d].ids)
    BY <1>1, <2>2, <2>4 DEF IdsInv, ArrayInv
  <2>6. \A t \in Thread : th[t].array \in Nat
    BY <1>1, LocalTypes
  <2>7. \A t \in Thread : th[t].pc = "cas" => th[t].array < next'
    BY <1>1, <1>4, <2>2, <2>6 DEF IdsInv
  <2>8. IdsInv'
    BY <1>1, <1>2, <2>5, <2>7 DEF IdsInv, SortedIds, Gathering
  <2> QED
    BY <1>3, <2>8
<1> QED
  BY <1>5, <1>6

\* A step of the loader that leaves all arrays of ids alone
LEMMA InstallKeepsIds ==
    ASSUME IdsIInv, UNCHANGED <<protocolids, categoryids, next, th>>
    PROVE  IdsInv'
<1>1. ThreadInv /\ CacheInv /\ IdsInv
  BY DEF IdsIInv, IInv
<1>2. next \in Nat /\ next' = next
  BY <1>1 DEF CacheInv
<1> QED
  BY <1>1, <1>2, KeepIds

LEMMA SetMixinIds ==
    ASSUME IdsIInv, state = "running", SetMixin
    PROVE  IdsInv' /\ MixinInv'
<1>1. ThreadInv /\ MixinInv
  BY DEF IdsIInv, IInv
<1>2. /\ todo # <<>> /\ todo' = Tail(todo) /\ th[Loader].pc = "idle" /\ Head(todo).op = "ismixin"
      /\ UNCHANGED <<protocolids, categoryids, mixins, ivarlists, next, th>>
      /\ ismixin' = ismixin \cup {Head(todo).class}
  BY DEF SetMixin, Load, Installs, lists
<1>o. PICK o : o = Head(todo)
  OBVIOUS
<1>3. /\ \E L : ivarlists' \in [Class -> Seq(L)]
      /\ DOMAIN mixins' = Class /\ \A c \in Class : mixins'[c] \in Seq(ismixin)
      /\ \A x \in Marked : ~has_ivars(x)' /\ mixins'[x] = <<>>
  BY <1>1, <1>2 DEF MixinInv, has_ivars
<1>4. o.op = "ismixin" /\ ismixin' = ismixin \cup {o.class}
  BY <1>2, <1>o
<1>5. MixinInv'
  BY <1>1, <1>2, <1>3, <1>4, <1>o, LoadMixins
<1> QED
  BY <1>2, <1>5, InstallKeepsIds

LEMMA AddMixinIds ==
    ASSUME IdsIInv, state = "running", AddMixin
    PROVE  IdsInv' /\ MixinInv'
<1>1. ThreadInv /\ MixinInv /\ todo \in Seq(Operation)
  BY DEF IdsIInv, IInv, ThreadInv
<1>2. /\ todo # <<>> /\ todo' = Tail(todo) /\ th[Loader].pc = "idle" /\ Head(todo).op = "mixin"
      /\ UNCHANGED <<protocolids, categoryids, ismixin, ivarlists, next, th>>
  BY DEF AddMixin, Load, Installs, lists
<1>o. PICK o \in Operation : o = Head(todo)
  BY <1>1, <1>2
<1>c. PICK c \in Class : c = o.class
  BY <1>o, OperationIds
<1>x. PICK x : x = o.mixin
  OBVIOUS
<1>3. mixins' = mixins \/ (x \in ismixin /\ mixins' = [mixins EXCEPT ![c] = Append(mixins[c], x)])
  BY <1>c, <1>o, <1>x DEF AddMixin
<1>4. c \notin Marked
  <2>1. 1 \in DOMAIN todo /\ todo[1] = o
    BY <1>1, <1>2, <1>o, TailIs
  <2>2. \A y \in Marked : Plain(y, todo[1])
    BY <1>1, <2>1 DEF MixinInv
  <2> QED
    BY <1>2, <1>c, <1>o, <2>1, <2>2 DEF Plain
<1>5. /\ DOMAIN mixins' = Class /\ \A d \in Class : mixins'[d] \in Seq(ismixin)
      /\ \A y \in Marked : y # c => mixins'[y] = mixins[y]
  <2>1. DOMAIN mixins = Class /\ \A d \in Class : mixins[d] \in Seq(ismixin)
    BY <1>1 DEF MixinInv
  <2>2. CASE mixins' = mixins
    BY <2>1, <2>2
  <2>3. CASE x \in ismixin /\ mixins' = [mixins EXCEPT ![c] = Append(mixins[c], x)]
    <3>1. Append(mixins[c], x) \in Seq(ismixin)
      BY <2>1, <2>3
    <3>2. Marked \subseteq Class
      <4>1. \A i \in DOMAIN todo : todo[i].class \in Class
        <5>1. \A i \in DOMAIN todo : todo[i] \in Operation
          BY <1>1
        <5> QED
          BY <5>1, OperationIds
      <4> QED
        BY <1>1, <4>1 DEF Marked, MixinInv
    <3> QED
      BY <2>1, <2>3, <3>1, <3>2
  <2> QED
    BY <1>3, <2>2, <2>3
<1>6. /\ \E L : ivarlists' \in [Class -> Seq(L)]
      /\ \A y \in Marked : ~has_ivars(y)' /\ mixins'[y] = <<>>
  BY <1>1, <1>2, <1>4, <1>5 DEF MixinInv, has_ivars
<1>7. o.op = "mixin" /\ ismixin' = ismixin
  BY <1>2, <1>o
<1>8. MixinInv'
  BY <1>1, <1>2, <1>5, <1>6, <1>7, <1>o, LoadMixins
<1> QED
  BY <1>2, <1>8, InstallKeepsIds

\* A list without anything in it leaves a class without instance variables.
LEMMA AddIvarListIds ==
    ASSUME IdsIInv, state = "running", AddIvarList
    PROVE  IdsInv' /\ MixinInv'
<1>1. ThreadInv /\ MixinInv /\ todo \in Seq(Operation)
  BY DEF IdsIInv, IInv, ThreadInv
<1>2. /\ todo # <<>> /\ todo' = Tail(todo) /\ th[Loader].pc = "idle" /\ Head(todo).op = "ivars"
      /\ UNCHANGED <<protocolids, categoryids, ismixin, mixins, next, th>>
  BY DEF AddIvarList, Load, Installs
<1>o. PICK o \in Operation : o = Head(todo)
  BY <1>1, <1>2
<1>c. PICK c \in Class : c = o.class
  BY <1>o, OperationIds
<1>l. PICK list : list = o.list
  OBVIOUS
<1>L. PICK L : ivarlists \in [Class -> Seq(L)]
  BY <1>1 DEF MixinInv
<1>w. PICK w : w = WithList(ivarlists[c], list)
  OBVIOUS
<1>3. ivarlists' = [ivarlists EXCEPT ![c] = w]
  BY <1>c, <1>l, <1>o, <1>w DEF AddIvarList
<1>s. PICK s \in Seq(L) : s = ivarlists[c]
  BY <1>L
<1>4. \/ list # NoList /\ w = Append(s, list)
      \/ list = NoList /\ s = <<>> /\ w = <<"empty">>
      \/ list = NoList /\ w = s
  <2>1. w = WithList(s, list)
    BY <1>s, <1>w
  <2>2. CASE list # NoList
    BY <2>1, <2>2 DEF WithList
  <2>3. CASE list = NoList /\ s = <<>>
    BY <2>1, <2>3 DEF WithList
  <2>4. CASE list = NoList /\ s # <<>>
    BY <2>1, <2>4 DEF WithList
  <2> QED
    BY <2>2, <2>3, <2>4
<1>5. w \in Seq(L \cup {list, "empty"})
  <2>1. PICK M : M = L \cup {list, "empty"}
    OBVIOUS
  <2>2. s \in Seq(M) /\ list \in M /\ "empty" \in M
    BY <2>1, SeqGrows
  <2>3. Append(s, list) \in Seq(M)
    BY <2>2
  <2>4. <<"empty">> \in Seq(M)
    BY <2>2
  <2> QED
    BY <1>4, <2>1, <2>2, <2>3, <2>4
<1>6. ivarlists' \in [Class -> Seq(L \cup {list, "empty"})]
  <2>1. \A d \in Class : ivarlists[d] \in Seq(L \cup {list, "empty"})
    BY <1>L, SeqGrows
  <2> QED
    BY <1>3, <1>5, <1>L, <2>1
<1>7. \A y \in Marked : ~has_ivars(y)'
  <2> SUFFICES ASSUME NEW y \in Marked PROVE \A i \in DOMAIN ivarlists'[y] : IvarList[ivarlists'[y][i]] = <<>>
    BY DEF has_ivars
  <2>1. \A i \in DOMAIN ivarlists[y] : IvarList[ivarlists[y][i]] = <<>>
    BY <1>1 DEF MixinInv, has_ivars
  <2>2. CASE y # c
    BY <1>3, <1>L, <2>1, <2>2
  <2>3. CASE y = c
    <3>1. 1 \in DOMAIN todo /\ todo[1] = o
      BY <1>1, <1>2, <1>o, TailIs
    <3>2. Plain(y, todo[1])
      BY <1>1, <3>1 DEF MixinInv
    <3>3. list = NoList \/ IvarList[list] = <<>>
      BY <1>2, <1>c, <1>l, <1>o, <2>3, <3>1, <3>2 DEF Plain
    <3>4. \A i \in DOMAIN s : IvarList[s[i]] = <<>>
      BY <1>s, <2>1, <2>3
    <3>5. \A i \in DOMAIN w : IvarList[w[i]] = <<>>
      <4>1. CASE list # NoList /\ w = Append(s, list)
        <5>1. \A i \in DOMAIN w : (i \in DOMAIN s /\ w[i] = s[i]) \/ w[i] = list
          BY <4>1
        <5> QED
          BY <3>3, <3>4, <4>1, <5>1
      <4>2. CASE w = <<"empty">>
        BY <4>2, IdAssumption
      <4> QED
        BY <1>4, <3>4, <4>1, <4>2
    <3> QED
      BY <1>3, <1>L, <2>3, <3>5
  <2> QED
    BY <2>2, <2>3
<1>8. /\ \E M : ivarlists' \in [Class -> Seq(M)]
      /\ DOMAIN mixins' = Class /\ \A d \in Class : mixins'[d] \in Seq(ismixin)
      /\ \A y \in Marked : ~has_ivars(y)' /\ mixins'[y] = <<>>
  BY <1>1, <1>2, <1>6, <1>7 DEF MixinInv
<1>9. o.op = "ivars" /\ ismixin' = ismixin /\ protocolids' = protocolids
  BY <1>2, <1>o
<1>10. MixinInv'
  BY <1>1, <1>2, <1>8, <1>9, <1>o, LoadMixins
<1> QED
  BY <1>2, <1>10, InstallKeepsIds

LEMMA AddPropertiesIds ==
    ASSUME IdsIInv, state = "running", AddPropertyList \/ AddClassProperties \/ AddClassVariables
    PROVE  IdsInv' /\ MixinInv'
<1>1. /\ todo # <<>> /\ todo' = Tail(todo) /\ th[Loader].pc = "idle" /\ Head(todo).op # "protocols"
      /\ UNCHANGED <<protocolids, categoryids, ismixin, mixins, ivarlists, next, th>>
  <2>1. CASE AddPropertyList
    BY <2>1 DEF AddPropertyList, Load, Installs
  <2>2. CASE AddClassProperties
    BY <2>2 DEF AddClassProperties, Load, Installs
  <2>3. CASE AddClassVariables
    BY <2>3 DEF AddClassVariables, Load, Installs
  <2> QED
    BY <2>1, <2>2, <2>3
<1> QED
  BY <1>1, LoadOther, InstallKeepsIds

LEMMA EmptyIsSorted == SortedIds(<<>>)
BY DEF SortedIds

LEMMA DoneIds ==
    ASSUME IdsIInv, Done
    PROVE  IdsInv' /\ state' = "done"
<1>1. /\ \A t \in Thread : th[t] = Idle
      /\ protocolids' = [c \in Class |-> empty_uniqueidarray]
      /\ categoryids' = [c \in Class |-> empty_uniqueidarray]
      /\ state' = "done" /\ th' = th
  BY DEF Done
<1>2. \A t \in Thread : th'[t].pc = "idle"
  BY <1>1, IdleIsLocal
<1>3. \A c \in Class : protocolids'[c].ids = <<>> /\ categoryids'[c].ids = <<>>
  BY <1>1 DEF empty_uniqueidarray
<1>4. \A c \in Class : SortedIds(protocolids'[c].ids) /\ SortedIds(categoryids'[c].ids)
  BY <1>3, EmptyIsSorted
<1> QED
  BY <1>1, <1>2, <1>4 DEF IdsInv, SortedIds, Gathering

LEMMA InitIdsIInv == Init => IdsIInv
<1> SUFFICES ASSUME Init PROVE IdsIInv
  OBVIOUS
<1>1. PICK p \in Programs : todo = p.todo
  BY DEF Init
<1>2. /\ \A t \in Thread : th[t] = Idle
      /\ protocolids = [c \in Class |-> empty_uniqueidarray]
      /\ categoryids = [c \in Class |-> empty_uniqueidarray]
      /\ ismixin = {} /\ mixins = [c \in Class |-> <<>>] /\ ivarlists = [c \in Class |-> <<>>]
  BY DEF Init
<1>3. \A t \in Thread : th[t].pc = "idle"
  BY <1>2, IdleIsLocal
<1>4. \A c \in Class : protocolids[c].ids = <<>> /\ categoryids[c].ids = <<>>
  BY <1>2 DEF empty_uniqueidarray
<1>5. IdsInv
  BY <1>3, <1>4, EmptyIsSorted DEF IdsInv, Gathering
<1>6. \A i \in DOMAIN todo : todo[i] \in ToSet(p.todo)
  BY <1>1 DEF ToSet
<1>7. ASSUME NEW x \in Marked
      PROVE  Super[x] = NoClass /\ \A i \in DOMAIN todo : Plain(x, todo[i])
  <2>1. PICK j \in DOMAIN p.todo : p.todo[j].op = "ismixin" /\ x = p.todo[j].class
    BY <1>1, <1>2 DEF Marked
  <2>2. /\ Super[x] = NoClass
        /\ \A o \in ToSet(p.todo) : o.class = x =>
              /\ o.op # "mixin"
              /\ o.op = "ivars" => o.list = NoList \/ IvarList[o.list] = <<>>
    BY <2>1, MixinAssumption
  <2> QED
    BY <1>6, <2>2 DEF Plain
<1>8. ASSUME NEW i \in DOMAIN todo, todo[i].op = "ismixin" PROVE Coming(todo[i].class, i)
  BY <1>1, <1>8, MixinAssumption DEF Coming
<1>9. Marked \subseteq Class
  <2>1. \A o \in ToSet(p.todo) : o \in Operation
    BY DEF Operation
  <2> QED
    BY <1>2, <1>6, <2>1, OperationIds DEF Marked
<1>10. \A x \in Marked : ~has_ivars(x) /\ mixins[x] = <<>>
  BY <1>2, <1>9 DEF has_ivars
<1>11. /\ \E L : ivarlists \in [Class -> Seq(L)]
       /\ DOMAIN mixins = Class /\ \A c \in Class : mixins[c] \in Seq(ismixin)
  <2>1. <<>> \in Seq({}) /\ <<>> \in Seq(ismixin)
    OBVIOUS
  <2>2. ivarlists \in [Class -> Seq({})]
    BY <1>2, <2>1
  <2> QED
    BY <1>2, <2>1, <2>2
<1>12. MixinInv
  <2> HIDE DEF Marked
  <2> QED
    BY <1>2, <1>7, <1>8, <1>10, <1>11 DEF MixinInv
<1> QED
  BY <1>5, <1>12, InitIInv DEF IdsIInv

LEMMA NextIdsIInv == IdsIInv /\ [Next]_vars => IdsIInv'
<1> SUFFICES ASSUME IdsIInv, [Next]_vars PROVE IdsIInv'
  OBVIOUS
<1>1. IInv'
  BY NextIInv DEF IdsIInv
<1>2. CASE UNCHANGED vars
  <2>1. UNCHANGED <<protocolids, categoryids, ismixin, mixins, ivarlists, next, todo, th, state>>
    BY <1>2 DEF vars, lists
  <2>2. IdsInv'
    BY <2>1, InstallKeepsIds
  <2>3. state' = "running" => MixinInv'
    BY <2>1, KeepMixins DEF IdsIInv
  <2> QED
    BY <1>1, <2>2, <2>3 DEF IdsIInv
<1>3. CASE Next
  <2> SUFFICES (IdsInv' /\ MixinInv') \/ (IdsInv' /\ state' = "done")
    BY <1>1 DEF IdsIInv
  <2>1. state = "running"
    BY <1>3 DEF Next
  <2>2. ASSUME NEW t \in Client, NEW c \in Adopters, NEW ps \in ProtocolLists, AddProtocols(t, c, ps)
        PROVE  IdsInv' /\ MixinInv'
    BY <2>1, <2>2, AddProtocolsIds
  <2>3. ASSUME NEW t \in Client, KvcStep(t) PROVE IdsInv' /\ MixinInv'
    BY <2>1, <2>3, KvcStepKeeps
  <2>4. ASSUME NEW t \in Thread, AddCopy(t) PROVE IdsInv' /\ MixinInv'
    BY <2>1, <2>4, AddCopyIds
  <2>5. ASSUME NEW t \in Thread, AddExchange(t) PROVE IdsInv' /\ MixinInv'
    BY <2>1, <2>5, AddExchangeIds
  <2>6. LoadProtocols => IdsInv' /\ MixinInv'
    BY <2>1, LoadProtocolsIds
  <2>7. AddCategory => IdsInv' /\ MixinInv'
    BY <2>1, AddCategoryIds
  <2>8. SetMixin => IdsInv' /\ MixinInv'
    BY <2>1, SetMixinIds
  <2>9. AddMixin => IdsInv' /\ MixinInv'
    BY <2>1, AddMixinIds
  <2>10. AddIvarList => IdsInv' /\ MixinInv'
    BY <2>1, AddIvarListIds
  <2>11. AddPropertyList \/ AddClassProperties \/ AddClassVariables => IdsInv' /\ MixinInv'
    BY <2>1, AddPropertiesIds
  <2>12. Done => IdsInv' /\ state' = "done"
    BY DoneIds
  <2> QED
    BY <1>3, <2>2, <2>3, <2>4, <2>5, <2>6, <2>7, <2>8, <2>9, <2>10, <2>11, <2>12 DEF Next, KvcStep
<1> QED
  BY <1>2, <1>3

\* However many threads add protocols at the same time, and whatever the loader adds,
\* the binary search, the walks and the checks for conformance agree, and what others
\* use as a mixin is a mixin (classpair.c 325-436, 641-711, infraclass.c 837-947).
THEOREM IdsAreFound == Spec => []IdsArrive
<1>1. Init => IdsIInv
  BY InitIdsIInv
<1>2. IdsIInv /\ [Next]_vars => IdsIInv'
  BY NextIdsIInv
<1>3. IdsIInv => IdsArrive
  BY IdsIInvArrive
<1> QED
  BY <1>1, <1>2, <1>3, PTL DEF Spec

----------------------------------------------------------------------------
(* Properties and instance variables: searches and walks *)

\* v is the first of g[1], ..., g[n] that is not empty, if there is one.
Leads(v, n, g) ==
    \/ v = <<>> /\ \A i \in 1..n : g[i] = <<>>
    \/ \E i \in 1..n : v = g[i] /\ v # <<>> /\ \A j \in 1..(i - 1) : g[j] = <<>>

\* There is one such value.
LEMMA LeadsOnce ==
    ASSUME NEW n \in Nat, NEW f, NEW g, \A i \in 1..n : f[i] = g[i],
           NEW v, NEW w, Leads(v, n, f), Leads(w, n, g)
    PROVE  v = w
<1>1. CASE \A i \in 1..n : f[i] = <<>>
  BY <1>1 DEF Leads
<1>2. CASE \E i \in 1..n : f[i] # <<>>
  <2>1. PICK i \in 1..n : v = f[i] /\ v # <<>> /\ \A j \in 1..(i - 1) : f[j] = <<>>
    BY <1>2 DEF Leads
  <2>2. PICK k \in 1..n : w = g[k] /\ w # <<>> /\ \A j \in 1..(k - 1) : g[j] = <<>>
    BY <1>2 DEF Leads
  <2>3. ~ i < k
    <3> SUFFICES ASSUME i < k PROVE FALSE
      OBVIOUS
    <3>1. i \in 1..(k - 1)
      OBVIOUS
    <3> QED
      BY <2>1, <2>2, <3>1
  <2>4. ~ k < i
    <3> SUFFICES ASSUME k < i PROVE FALSE
      OBVIOUS
    <3>1. k \in 1..(i - 1)
      OBVIOUS
    <3> QED
      BY <2>1, <2>2, <3>1
  <2>5. i = k
    BY <2>3, <2>4
  <2> QED
    BY <2>1, <2>2, <2>5
<1> QED
  BY <1>1, <1>2

\* FirstFound returns it, of what is found for each of a sequence.
LEMMA FirstFoundLeads ==
    ASSUME NEW A, NEW s \in Seq(A), NEW found
    PROVE  Leads(FirstFound(s, found), Len(s), [i \in DOMAIN s |-> found[s[i]]])
<1>1. DOMAIN s = 1..Len(s) /\ Len(s) \in Nat
  OBVIOUS
<1>2. PICK hits : hits = {i \in DOMAIN s : found[s[i]] # <<>>}
  OBVIOUS
<1>g. PICK g : g = [i \in DOMAIN s |-> found[s[i]]]
  OBVIOUS
<1>3. CASE hits = {}
  <2>1. FirstFound(s, found) = <<>>
    BY <1>2, <1>3 DEF FirstFound
  <2>2. \A i \in 1..Len(s) : g[i] = <<>>
    BY <1>1, <1>2, <1>3, <1>g
  <2> QED
    BY <1>g, <2>1, <2>2 DEF Leads
<1>4. CASE hits # {}
  <2>1. hits \subseteq Nat
    BY <1>1, <1>2
  <2>2. \E i \in hits : \A j \in hits : i <= j
    BY <1>4, <2>1, LeastNatural
  <2>3. PICK k : k = CHOOSE i \in hits : \A j \in hits : i <= j
    OBVIOUS
  <2>4. k \in hits /\ \A j \in hits : k <= j
    BY <2>2, <2>3
  <2>5. FirstFound(s, found) = found[s[k]]
    BY <1>2, <1>4, <2>3 DEF FirstFound
  <2>6. k \in 1..Len(s) /\ found[s[k]] = g[k] /\ g[k] # <<>>
    BY <1>1, <1>2, <1>g, <2>4
  <2>7. ASSUME NEW j \in 1..(k - 1) PROVE g[j] = <<>>
    <3>1. j \in 1..Len(s) /\ ~ (k <= j)
      BY <1>1, <2>6
    <3>2. j \notin hits
      BY <2>4, <3>1
    <3> QED
      BY <1>1, <1>2, <1>g, <3>1, <3>2
  <2> QED
    BY <1>g, <2>5, <2>6, <2>7 DEF Leads
<1> QED
  BY <1>3, <1>4

\* It does not matter what is found for anything else.
LEMMA FirstFoundOf ==
    ASSUME NEW A, NEW s \in Seq(A), NEW f, NEW g, \A i \in DOMAIN s : f[s[i]] = g[s[i]]
    PROVE  FirstFound(s, f) = FirstFound(s, g)
<1>1. [i \in DOMAIN s |-> f[s[i]]] = [i \in DOMAIN s |-> g[s[i]]] /\ Len(s) \in Nat
  OBVIOUS
<1>2. PICK h : h = [i \in DOMAIN s |-> f[s[i]]]
  OBVIOUS
<1>3. Leads(FirstFound(s, f), Len(s), h) /\ Leads(FirstFound(s, g), Len(s), h)
  BY <1>1, <1>2, FirstFoundLeads
<1> QED
  BY <1>1, <1>3, LeadsOnce

\* A search in one sequence, then in another
LEMMA FirstOfConcat ==
    ASSUME NEW A, NEW a \in Seq(A), NEW b \in Seq(A), NEW found
    PROVE  FirstFound(a \o b, found) =
              IF FirstFound(a, found) # <<>> THEN FirstFound(a, found) ELSE FirstFound(b, found)
<1> DEFINE n == Len(a)
           m == Len(b)
<1>1. /\ a \o b \in Seq(A) /\ Len(a \o b) = n + m /\ n \in Nat /\ m \in Nat
      /\ \A i \in 1..n : (a \o b)[i] = a[i]
      /\ \A i \in (n + 1)..(n + m) : (a \o b)[i] = b[i - n]
      /\ DOMAIN a = 1..n /\ DOMAIN b = 1..m /\ DOMAIN (a \o b) = 1..(n + m)
  OBVIOUS
<1>2. PICK c \in Seq(A) : c = a \o b
  BY <1>1
<1>3. PICK u, v : u = FirstFound(a, found) /\ v = FirstFound(b, found)
  OBVIOUS
<1>4. PICK f, g, h : /\ f = [i \in DOMAIN a |-> found[a[i]]]
                     /\ g = [i \in DOMAIN b |-> found[b[i]]]
                     /\ h = [i \in DOMAIN c |-> found[c[i]]]
  OBVIOUS
<1>z. PICK z : z = FirstFound(c, found)
  OBVIOUS
<1>5. Leads(u, n, f) /\ Leads(v, m, g) /\ Leads(z, n + m, h) /\ n + m \in Nat
  <2>1. Leads(u, n, f)
    BY <1>3, <1>4, FirstFoundLeads
  <2>2. Leads(v, m, g)
    BY <1>3, <1>4, FirstFoundLeads
  <2>3. Leads(z, Len(c), h)
    BY <1>4, <1>z, FirstFoundLeads
  <2>4. Len(c) = n + m /\ n + m \in Nat
    BY <1>1, <1>2
  <2> QED
    BY <2>1, <2>2, <2>3, <2>4
<1>6. \A i \in 1..n : i \in 1..(n + m) /\ h[i] = f[i]
  BY <1>1, <1>2, <1>4
<1>7. \A i \in 1..m : n + i \in 1..(n + m) /\ h[n + i] = g[i]
  <2> SUFFICES ASSUME NEW i \in 1..m PROVE n + i \in 1..(n + m) /\ h[n + i] = g[i]
    OBVIOUS
  <2>1. n + i \in (n + 1)..(n + m) /\ (n + i) - n = i
    BY <1>1
  <2>2. c[n + i] = b[i]
    BY <1>1, <1>2, <2>1
  <2> QED
    BY <1>1, <1>2, <1>4, <2>1, <2>2
<1>8. \A i \in 1..(n + m) : i \in 1..n \/ (i - n \in 1..m /\ i = n + (i - n))
  BY <1>1
<1>9. u # <<>> => z = u
  <2> SUFFICES ASSUME u # <<>> PROVE z = u
    OBVIOUS
  <2>1. PICK i \in 1..n : u = f[i] /\ \A j \in 1..(i - 1) : f[j] = <<>>
    BY <1>5 DEF Leads
  <2>2. \A j \in 1..(i - 1) : j \in 1..n
    BY <1>1
  <2>3. Leads(u, n + m, h)
    BY <1>6, <2>1, <2>2 DEF Leads
  <2> QED
    BY <1>5, <2>3, LeadsOnce
<1>10. u = <<>> => z = v
  <2> SUFFICES ASSUME u = <<>> PROVE z = v
    OBVIOUS
  <2>1. \A i \in 1..n : h[i] = <<>>
    BY <1>5, <1>6 DEF Leads
  <2>2. CASE v = <<>>
    <3>1. \A i \in 1..m : g[i] = <<>>
      BY <1>5, <2>2 DEF Leads
    <3>2. \A i \in 1..(n + m) : h[i] = <<>>
      BY <1>7, <1>8, <2>1, <3>1
    <3>3. Leads(v, n + m, h)
      BY <2>2, <3>2 DEF Leads
    <3> QED
      BY <1>5, <3>3, LeadsOnce
  <2>3. CASE v # <<>>
    <3>1. PICK i \in 1..m : v = g[i] /\ \A j \in 1..(i - 1) : g[j] = <<>>
      BY <1>5, <2>3 DEF Leads
    <3>2. n + i \in 1..(n + m) /\ v = h[n + i]
      BY <1>7, <3>1
    <3>3. ASSUME NEW j \in 1..((n + i) - 1) PROVE h[j] = <<>>
      <4>1. CASE j \in 1..n
        BY <2>1, <4>1
      <4>2. CASE j \notin 1..n
        <5>1. j - n \in 1..(i - 1) /\ j - n \in 1..m /\ j = n + (j - n)
          BY <1>1, <4>2
        <5>2. g[j - n] = <<>>
          BY <3>1, <5>1
        <5> QED
          BY <1>7, <5>1, <5>2
      <4> QED
        BY <4>1, <4>2
    <3>4. Leads(v, n + m, h)
      BY <2>3, <3>2, <3>3 DEF Leads
    <3> QED
      BY <1>5, <3>4, LeadsOnce
  <2> QED
    BY <2>2, <2>3
<1> QED
  BY <1>2, <1>3, <1>9, <1>10, <1>z

\* A search in a walk, and a search in one of its parts after the other
LEMMA FirstOfFlatten ==
    ASSUME NEW A, NEW s \in Seq(Seq(A)), NEW found
    PROVE  Leads(FirstFound(FlattenSeq(s), found), Len(s), [i \in DOMAIN s |-> FirstFound(s[i], found)])
<1> DEFINE n == Len(s)
<1>1. n \in Nat /\ DOMAIN s = 1..n /\ \A i \in 1..n : s[i] \in Seq(A)
  OBVIOUS
<1>h. PICK h : h = [i \in DOMAIN s |-> FirstFound(s[i], found)]
  OBVIOUS
<1>2. CASE s = <<>>
  <2>1. FlattenSeq(s) = s /\ DOMAIN s = {} /\ n = 0
    BY <1>1, <1>2 DEF FlattenSeq
  <2>2. FirstFound(s, found) = <<>>
    BY <2>1 DEF FirstFound
  <2> QED
    BY <2>1, <2>2 DEF Leads
<1>3. CASE s # <<>>
  <2>1. PICK g : /\ FlattenSeq(s) = g[n]
                 /\ \A i \in 1..n : g[i] = IF i = 1 THEN s[i] ELSE g[i - 1] \o s[i]
    BY <1>3, FlattenIs
  <2> DEFINE Right(i) == g[i] \in Seq(A) /\ Leads(FirstFound(g[i], found), i, h)
             Wrong == {i \in 1..n : ~Right(i)}
  <2>2. Wrong = {}
    <3> SUFFICES ASSUME Wrong # {} PROVE FALSE
      OBVIOUS
    <3>1. PICK d \in Wrong : \A e \in Wrong : d <= e
      <4>1. Wrong \subseteq Nat
        BY <1>1
      <4> HIDE DEF Wrong
      <4> QED BY <4>1, LeastNatural
    <3>2. d \in 1..n /\ d \in Nat /\ ~Right(d) /\ s[d] \in Seq(A)
      BY <1>1, <3>1
    <3>3. d # 1
      <4> SUFFICES ASSUME d = 1 PROVE FALSE
        OBVIOUS
      <4>1. g[1] = s[1] /\ h[1] = FirstFound(s[1], found)
        BY <1>1, <1>h, <2>1, <3>2
      <4>2. Leads(h[1], 1, h)
        BY DEF Leads
      <4> QED
        BY <3>2, <4>1, <4>2
    <3>4. d - 1 \in 1..n /\ Right(d - 1)
      <4>1. d - 1 \in 1..n /\ ~ (d <= d - 1)
        BY <1>1, <3>2, <3>3
      <4>2. d - 1 \notin Wrong
        <5> HIDE DEF Wrong
        <5> QED BY <3>1, <4>1
      <4> QED
        BY <4>1, <4>2
    <3>5. g[d] = g[d - 1] \o s[d]
      BY <2>1, <3>2, <3>3
    <3>6. PICK a \in Seq(A), b \in Seq(A) : a = g[d - 1] /\ b = s[d]
      BY <3>2, <3>4
    <3>7. PICK u, v, w : u = FirstFound(a, found) /\ v = FirstFound(b, found) /\ w = FirstFound(g[d], found)
      OBVIOUS
    <3>8. g[d] \in Seq(A) /\ w = IF u # <<>> THEN u ELSE v
      <4>1. a \o b \in Seq(A)
        OBVIOUS
      <4>2. FirstFound(a \o b, found) = IF u # <<>> THEN u ELSE v
        BY <3>7, FirstOfConcat
      <4> QED
        BY <3>5, <3>6, <3>7, <4>1, <4>2
    <3>9. Leads(u, d - 1, h)
      BY <3>4, <3>6, <3>7
    <3>10. h[d] = v /\ \A i \in 1..d : i = d \/ i \in 1..(d - 1)
      BY <1>1, <1>h, <3>2, <3>6, <3>7
    <3>11. Leads(w, d, h)
      <4>1. CASE u # <<>>
        <5>1. PICK i \in 1..(d - 1) : u = h[i] /\ \A j \in 1..(i - 1) : h[j] = <<>>
          BY <3>9, <4>1 DEF Leads
        <5>2. i \in 1..d
          BY <3>2, <5>1
        <5> QED
          BY <3>8, <4>1, <5>1, <5>2 DEF Leads
      <4>2. CASE u = <<>> /\ v # <<>>
        <5>1. \A j \in 1..(d - 1) : h[j] = <<>>
          BY <3>9, <4>2 DEF Leads
        <5>2. d \in 1..d
          BY <3>2
        <5> QED
          BY <3>8, <3>10, <4>2, <5>1, <5>2 DEF Leads
      <4>3. CASE u = <<>> /\ v = <<>>
        <5>1. \A j \in 1..(d - 1) : h[j] = <<>>
          BY <3>9, <4>3 DEF Leads
        <5> QED
          BY <3>8, <3>10, <4>3, <5>1 DEF Leads
      <4> QED
        BY <4>1, <4>2, <4>3
    <3> QED
      BY <3>2, <3>7, <3>8, <3>11
  <2>3. Right(n)
    <3> HIDE DEF Right
    <3>1. n \in 1..n
      BY <1>1, <1>3
    <3> QED BY <2>2, <3>1
  <2> QED
    BY <1>h, <2>1, <2>3
<1> QED
  BY <1>2, <1>3

\* A reversed sequence has the same members.
LEMMA ReverseHolds ==
    ASSUME NEW A, NEW s \in Seq(A)
    PROVE  Reverse(s) \in Seq(A) /\ ToSet(Reverse(s)) = ToSet(s)
<1>1. Len(s) \in Nat /\ DOMAIN s = 1..Len(s) /\ \A i \in 1..Len(s) : s[i] \in A
  OBVIOUS
<1>2. \A i \in 1..Len(s) : (Len(s) - i) + 1 \in 1..Len(s) /\ (Len(s) - ((Len(s) - i) + 1)) + 1 = i
  BY <1>1
<1>3. Reverse(s) \in [1..Len(s) -> A] /\ \A i \in 1..Len(s) : Reverse(s)[i] = s[(Len(s) - i) + 1]
  BY <1>1, <1>2 DEF Reverse
<1>4. Reverse(s) \in Seq(A) /\ DOMAIN Reverse(s) = 1..Len(s)
  BY <1>1, <1>3
<1>5. ASSUME NEW x \in ToSet(s) PROVE x \in ToSet(Reverse(s))
  <2>1. PICK i \in 1..Len(s) : x = s[i]
    BY <1>1 DEF ToSet
  <2>2. Reverse(s)[(Len(s) - i) + 1] = s[i]
    BY <1>2, <1>3
  <2> QED
    BY <1>2, <1>4, <2>1, <2>2 DEF ToSet
<1>6. ASSUME NEW x \in ToSet(Reverse(s)) PROVE x \in ToSet(s)
  BY <1>1, <1>2, <1>3, <1>4 DEF ToSet
<1> QED
  BY <1>4, <1>5, <1>6

\* What comes first of an item that is found for a member of a sequence
LEMMA FirstFoundSome ==
    ASSUME NEW A, NEW s \in Seq(A), NEW found, NEW x \in ToSet(s), found[x] # <<>>
    PROVE  \E y \in ToSet(s) : FirstFound(s, found) = found[y] /\ found[y] # <<>>
<1>1. PICK g, v, n : g = [i \in DOMAIN s |-> found[s[i]]] /\ v = FirstFound(s, found) /\ n = Len(s)
  OBVIOUS
<1>2. DOMAIN s = 1..n
  BY <1>1
<1>3. Leads(v, n, g)
  BY <1>1, FirstFoundLeads
<1>4. PICK i \in 1..n : x = s[i]
  BY <1>2 DEF ToSet
<1>5. g[i] # <<>>
  BY <1>1, <1>2, <1>4
<1>6. PICK j \in 1..n : v = g[j] /\ v # <<>>
  BY <1>3, <1>5 DEF Leads
<1> QED
  BY <1>1, <1>2, <1>6 DEF ToSet

LEMMA FirstInSome ==
    ASSUME NEW A, NEW s \in Seq(A), NEW X, NEW x \in ToSet(s), x \in X
    PROVE  \E y \in ToSet(s) \cap X : FirstIn(s, X) = <<y>>
<1>1. PICK f : f = [y \in ToSet(s) |-> IF y \in X THEN <<y>> ELSE <<>>]
  OBVIOUS
<1>2. \A y : <<y>> # <<>>
  OBVIOUS
<1>3. f[x] # <<>>
  BY <1>1, <1>2
<1>4. PICK y \in ToSet(s) : FirstFound(s, f) = f[y] /\ f[y] # <<>>
  BY <1>3, FirstFoundSome
<1>5. y \in X /\ f[y] = <<y>>
  BY <1>1, <1>4
<1> QED
  BY <1>1, <1>4, <1>5 DEF FirstIn

LEMMA FirstInNone ==
    ASSUME NEW s, NEW X, ToSet(s) \cap X = {}
    PROVE  FirstIn(s, X) = <<>>
<1>1. PICK f : f = [y \in ToSet(s) |-> IF y \in X THEN <<y>> ELSE <<>>]
  OBVIOUS
<1>2. \A i \in DOMAIN s : s[i] \in ToSet(s) /\ s[i] \notin X
  BY DEF ToSet
<1>3. \A i \in DOMAIN s : f[s[i]] = <<>>
  BY <1>1, <1>2
<1> QED
  BY <1>1, <1>3 DEF FirstIn, FirstFound

\* An item with an id, in a sequence of items
LEMMA WithIdIs ==
    ASSUME NEW A, NEW s \in Seq(A), NEW id
    PROVE  /\ WithId(s, id) = FirstFound(s, [x \in A |-> IF x.id = id THEN <<x>> ELSE <<>>])
           /\ (\A x \in ToSet(s) : x.id # id) => WithId(s, id) = <<>>
           /\ \A x \in ToSet(s) : x.id = id => \E y \in ToSet(s) : y.id = id /\ WithId(s, id) = <<y>>
<1>1. PICK X : X = {x \in ToSet(s) : x.id = id}
  OBVIOUS
<1>2. WithId(s, id) = FirstIn(s, X)
  BY <1>1 DEF WithId
<1>3. WithId(s, id) = FirstFound(s, [x \in A |-> IF x.id = id THEN <<x>> ELSE <<>>])
  <2>1. PICK f, g : /\ f = [x \in ToSet(s) |-> IF x \in X THEN <<x>> ELSE <<>>]
                    /\ g = [x \in A |-> IF x.id = id THEN <<x>> ELSE <<>>]
    OBVIOUS
  <2>2. \A i \in DOMAIN s : s[i] \in A /\ s[i] \in ToSet(s)
    BY DEF ToSet
  <2>3. \A i \in DOMAIN s : f[s[i]] = g[s[i]]
    BY <1>1, <2>1, <2>2
  <2>4. FirstFound(s, f) = FirstFound(s, g)
    BY <2>3, FirstFoundOf
  <2> QED
    BY <1>2, <2>1, <2>4 DEF FirstIn
<1>4. (\A x \in ToSet(s) : x.id # id) => WithId(s, id) = <<>>
  <2> SUFFICES ASSUME \A x \in ToSet(s) : x.id # id PROVE WithId(s, id) = <<>>
    OBVIOUS
  <2>1. ToSet(s) \cap X = {}
    BY <1>1
  <2> QED
    BY <1>2, <2>1, FirstInNone
<1>5. ASSUME NEW x \in ToSet(s), x.id = id
      PROVE  \E y \in ToSet(s) : y.id = id /\ WithId(s, id) = <<y>>
  <2>1. x \in X
    BY <1>1, <1>5
  <2>2. PICK y \in ToSet(s) \cap X : FirstIn(s, X) = <<y>>
    BY <2>1, FirstInSome
  <2> QED
    BY <1>1, <1>2, <2>2
<1> QED
  BY <1>3, <1>4, <1>5

\* What a walk over lists comes across: what is in a list of the class or of one
\* of the classes above it
LEMMA WalkHolds ==
    ASSUME NEW A, NEW Names, NEW Items, \A l \in Names : Items[l] \in Seq(A),
           NEW ls, \A d \in Class : ls[d] \in Seq(Names), NEW c \in Class
    PROVE  /\ Walk(c, ls, Items) \in Seq(A)
           /\ \A x \in ToSet(Walk(c, ls, Items)) :
                 \E d \in Class : \E i \in DOMAIN ls[d] : x \in ToSet(Items[ls[d][i]])
           /\ \A i \in DOMAIN ls[c] : ToSet(Items[ls[c][i]]) \subseteq ToSet(Walk(c, ls, Items))
<1>1. PICK k \in Seq(Class) : k = Lineage[c]
  BY LineageIs
<1>2. DOMAIN k = 1..Len(k) /\ Len(k) \in Nat /\ \A i \in DOMAIN k : k[i] \in Class
  OBVIOUS
<1>3. 1 \in DOMAIN k /\ k[1] = c
  <2>1. CASE Super[c] = NoClass
    <3>1. Lineage[c] = Up(Lineage, c)
      BY LineageIs
    <3>2. k = <<c>>
      BY <1>1, <2>1, <3>1 DEF Up
    <3> QED
      BY <3>2
  <2>2. CASE Super[c] # NoClass
    <3>1. Super[c] \in Class
      BY <2>2, ClassAssumption
    <3>2. PICK h \in Seq(Class) : h = Lineage[Super[c]]
      BY <3>1, LineageIs
    <3>3. k = <<c>> \o h
      BY <1>1, <2>2, <3>2, LineageIs DEF Up
    <3> QED
      BY <3>3
  <2> QED
    BY <2>1, <2>2
<1>4. PICK r : r = [i \in DOMAIN k |-> Reverse(ls[k[i]])]
  OBVIOUS
<1>5. r \in Seq(Seq(Names)) /\ DOMAIN r = DOMAIN k
  <2>1. \A i \in DOMAIN k : r[i] \in Seq(Names)
    BY <1>2, <1>4, ReverseHolds
  <2>2. r \in [1..Len(k) -> Seq(Names)]
    BY <1>2, <1>4, <2>1
  <2> QED
    BY <1>2, <2>2
<1>6. \A i \in DOMAIN k : ToSet(r[i]) = ToSet(ls[k[i]])
  BY <1>2, <1>4, ReverseHolds
<1>7. PICK names : names = FlattenSeq(r)
  OBVIOUS
<1>8. names \in Seq(Names) /\ ToSet(names) = UNION {ToSet(r[i]) : i \in DOMAIN r}
  BY <1>5, <1>7, FlattenHolds
<1>9. PICK s : s = [i \in DOMAIN names |-> Items[names[i]]]
  OBVIOUS
<1>10. s \in Seq(Seq(A)) /\ DOMAIN s = DOMAIN names
  <2>1. DOMAIN names = 1..Len(names) /\ Len(names) \in Nat /\ \A i \in DOMAIN names : names[i] \in Names
    BY <1>8
  <2>2. s \in [1..Len(names) -> Seq(A)]
    BY <1>9, <2>1
  <2> QED
    BY <1>9, <2>1, <2>2
<1>11. Walk(c, ls, Items) = FlattenSeq(s)
  BY <1>1, <1>4, <1>7, <1>9 DEF Walk
<1>12. PICK w : w = FlattenSeq(s)
  OBVIOUS
<1>13. w \in Seq(A) /\ ToSet(w) = UNION {ToSet(s[i]) : i \in DOMAIN s}
  BY <1>10, <1>12, FlattenHolds
<1>14. ASSUME NEW x \in ToSet(w)
       PROVE  \E d \in Class : \E i \in DOMAIN ls[d] : x \in ToSet(Items[ls[d][i]])
  <2>1. PICK j \in DOMAIN s : x \in ToSet(s[j])
    BY <1>13
  <2>2. names[j] \in ToSet(names) /\ s[j] = Items[names[j]]
    BY <1>9, <1>10 DEF ToSet
  <2>3. PICK i \in DOMAIN k : names[j] \in ToSet(ls[k[i]])
    BY <1>5, <1>6, <1>8, <2>2
  <2>4. PICK h \in DOMAIN ls[k[i]] : names[j] = ls[k[i]][h]
    BY <2>3 DEF ToSet
  <2> QED
    BY <1>2, <2>1, <2>2, <2>4
<1>15. ASSUME NEW i \in DOMAIN ls[c], NEW x \in ToSet(Items[ls[c][i]]) PROVE x \in ToSet(w)
  <2>1. ls[c][i] \in ToSet(ls[c])
    BY DEF ToSet
  <2>2. ls[c][i] \in ToSet(names)
    BY <1>3, <1>5, <1>6, <1>8, <2>1
  <2>3. PICK j \in DOMAIN names : ls[c][i] = names[j]
    BY <2>2 DEF ToSet
  <2>4. j \in DOMAIN s /\ s[j] = Items[ls[c][i]]
    BY <1>9, <2>3
  <2> QED
    BY <1>13, <2>4
<1> QED
  BY <1>11, <1>12, <1>13, <1>14, <1>15

\* What is found in a list, and what is found in the lists of a class
FindsIn(A, Names, Items, ls, one, found, up) ==
    /\ \A l \in Names : Items[l] \in Seq(A) /\ found[l] = FirstFound(Items[l], one)
    /\ \A d \in Class : ls[d] \in Seq(Names) /\ up[d] = FirstFound(Reverse(ls[d]), found)

\* A search from class to class and from list to list finds what a walk comes
\* across first.
LEMMA SearchIsWalk ==
    ASSUME NEW A, NEW Names, NEW Items, NEW ls, NEW one, NEW found, NEW up, NEW c \in Class,
           FindsIn(A, Names, Items, ls, one, found, up)
    PROVE  FirstFound(Walk(c, ls, Items), one) = FirstFound(Lineage[c], up)
<1>0. /\ \A l \in Names : Items[l] \in Seq(A) /\ found[l] = FirstFound(Items[l], one)
      /\ \A d \in Class : ls[d] \in Seq(Names) /\ up[d] = FirstFound(Reverse(ls[d]), found)
  BY DEF FindsIn
<1>1. PICK k \in Seq(Class) : k = Lineage[c]
  BY LineageIs
<1>2. DOMAIN k = 1..Len(k) /\ Len(k) \in Nat /\ \A i \in DOMAIN k : k[i] \in Class
  OBVIOUS
<1>4. PICK r : r = [i \in DOMAIN k |-> Reverse(ls[k[i]])]
  OBVIOUS
<1>5. r \in Seq(Seq(Names)) /\ DOMAIN r = DOMAIN k /\ Len(r) = Len(k)
  <2>1. \A i \in DOMAIN k : r[i] \in Seq(Names)
    BY <1>0, <1>2, <1>4, ReverseHolds
  <2>2. r \in [1..Len(k) -> Seq(Names)]
    BY <1>2, <1>4, <2>1
  <2> QED
    BY <1>2, <2>2
<1>7. PICK names : names = FlattenSeq(r)
  OBVIOUS
<1>8. names \in Seq(Names)
  BY <1>5, <1>7, FlattenHolds
<1>n. DOMAIN names = 1..Len(names) /\ Len(names) \in Nat /\ \A i \in DOMAIN names : names[i] \in Names
  BY <1>8
<1>9. PICK s : s = [i \in DOMAIN names |-> Items[names[i]]]
  OBVIOUS
<1>10. s \in Seq(Seq(A)) /\ DOMAIN s = DOMAIN names /\ Len(s) = Len(names)
  <2>2. s \in [1..Len(names) -> Seq(A)]
    BY <1>0, <1>9, <1>n
  <2> QED
    BY <1>9, <1>n, <2>2
<1>11. Walk(c, ls, Items) = FlattenSeq(s)
  BY <1>1, <1>4, <1>7, <1>9 DEF Walk
<1>12. PICK w, u, v : /\ w = FirstFound(FlattenSeq(s), one) /\ u = FirstFound(names, found)
                      /\ v = FirstFound(k, up)
  OBVIOUS
<1>13. w = u
  <2>1. PICK f, g : f = [i \in DOMAIN s |-> FirstFound(s[i], one)] /\ g = [i \in DOMAIN names |-> found[names[i]]]
    OBVIOUS
  <2>2. Leads(w, Len(s), f)
    BY <1>10, <1>12, <2>1, FirstOfFlatten
  <2>3. Leads(u, Len(names), g)
    BY <1>8, <1>12, <2>1, FirstFoundLeads
  <2>4. \A i \in 1..Len(names) : f[i] = g[i]
    BY <1>0, <1>9, <1>10, <1>n, <2>1
  <2> QED
    BY <1>10, <1>n, <2>2, <2>3, <2>4, LeadsOnce
<1>14. u = v
  <2>2. PICK f, g : f = [i \in DOMAIN r |-> FirstFound(r[i], found)] /\ g = [i \in DOMAIN k |-> up[k[i]]]
    OBVIOUS
  <2>3. Leads(u, Len(r), f)
    BY <1>5, <1>7, <1>12, <2>2, FirstOfFlatten
  <2>4. Leads(v, Len(k), g)
    BY <1>12, <2>2, FirstFoundLeads
  <2>5. \A i \in 1..Len(k) : f[i] = g[i]
    BY <1>0, <1>2, <1>4, <1>5, <2>2
  <2> QED
    BY <1>2, <1>5, <2>3, <2>4, <2>5, LeadsOnce
<1> QED
  BY <1>1, <1>11, <1>12, <1>13, <1>14

\* Lists that a binary search by id can do with
Searchable(list) == /\ list \in Seq(ToSet(list)) /\ Sorted(list)
                    /\ \A x \in ToSet(list) : x.id \in Nat

\* A search of one list (_mulle_objc_propertylist_search_smart, _mulle_objc_ivarlist_search_smart)
By(list, id) == IF bsearch(Ids(list), id) THEN WithId(list, id) ELSE <<>>

\* In a sorted list the binary search finds what the search from the front finds.
LEMMA ByIsWithId ==
    ASSUME NEW list, Searchable(list), NEW id \in Nat
    PROVE  By(list, id) = WithId(list, id)
<1>1. /\ list \in Seq(ToSet(list)) /\ DOMAIN list = 1..Len(list) /\ Len(list) \in Nat
      /\ \A i \in DOMAIN list : list[i] \in ToSet(list)
  BY DEF Searchable
<1>2. PICK ids : ids = Ids(list)
  OBVIOUS
<1>3. ids \in Seq(Nat) /\ DOMAIN ids = DOMAIN list /\ \A i \in DOMAIN list : ids[i] = list[i].id
  <2>1. \A i \in DOMAIN list : list[i].id \in Nat
    BY <1>1 DEF Searchable
  <2>2. ids \in [1..Len(list) -> Nat]
    BY <1>1, <1>2, <2>1 DEF Ids
  <2> QED
    BY <1>1, <1>2, <2>2 DEF Ids
<1>4. SortedIds(ids)
  <2> SUFFICES ASSUME NEW i \in DOMAIN ids, NEW j \in DOMAIN ids, i <= j PROVE ids[i] <= ids[j]
    BY <1>3 DEF SortedIds
  <2>1. CASE i = j
    BY <1>3, <2>1
  <2>2. CASE i # j
    <3>1. i < j /\ i \in DOMAIN list /\ j \in DOMAIN list
      BY <1>1, <1>3, <2>2
    <3> QED
      BY <1>3, <3>1 DEF Searchable, Sorted
  <2> QED
    BY <2>1, <2>2
<1>5. bsearch(ids, id) <=> id \in ToSet(ids)
  BY <1>4, bsearchFinds
<1>6. id \in ToSet(ids) <=> \E x \in ToSet(list) : x.id = id
  BY <1>3 DEF ToSet
<1>7. (\A x \in ToSet(list) : x.id # id) => WithId(list, id) = <<>>
  BY <1>1, WithIdIs
<1> QED
  BY <1>2, <1>5, <1>6, <1>7 DEF By

\* What a search by id finds is the first item with the id that a walk comes across.
LEMMA SearchAgrees ==
    ASSUME NEW Items, NEW Names, Names \subseteq DOMAIN Items, \A l \in Names : Searchable(Items[l]),
           NEW ls, \A d \in Class : ls[d] \in Seq(Names), NEW c \in Class, NEW id \in Nat
    PROVE  FirstFound(Lineage[c], [d \in Class |->
              FirstFound(Reverse(ls[d]), [l \in DOMAIN Items |-> By(Items[l], id)])])
           = WithId(Walk(c, ls, Items), id)
<1>1. PICK A : A = UNION {ToSet(Items[l]) : l \in Names}
  OBVIOUS
<1>2. ASSUME NEW l \in Names PROVE Items[l] \in Seq(A)
  <2>1. PICK list : list = Items[l]
    OBVIOUS
  <2>2. list \in Seq(ToSet(list)) /\ ToSet(list) \subseteq A
    BY <1>1, <1>2, <2>1 DEF Searchable
  <2> QED
    BY <2>1, <2>2
<1>3. PICK one : one = [x \in A |-> IF x.id = id THEN <<x>> ELSE <<>>]
  OBVIOUS
<1>4. PICK found : found = [l \in DOMAIN Items |-> By(Items[l], id)]
  OBVIOUS
<1>5. \A l \in Names : found[l] = FirstFound(Items[l], one)
  <2> SUFFICES ASSUME NEW l \in Names PROVE found[l] = FirstFound(Items[l], one)
    OBVIOUS
  <2>1. found[l] = By(Items[l], id)
    BY <1>4
  <2>2. By(Items[l], id) = WithId(Items[l], id)
    BY ByIsWithId
  <2>3. WithId(Items[l], id) = FirstFound(Items[l], one)
    BY <1>2, <1>3, WithIdIs
  <2> QED
    BY <2>1, <2>2, <2>3
<1>6. PICK w : w = Walk(c, ls, Items)
  OBVIOUS
<1>7. w \in Seq(A)
  BY <1>2, <1>6, WalkHolds
<1>8. WithId(w, id) = FirstFound(w, one)
  BY <1>3, <1>7, WithIdIs
<1>u. PICK up : up = [d \in Class |-> FirstFound(Reverse(ls[d]), found)]
  OBVIOUS
<1>9. FirstFound(w, one) = FirstFound(Lineage[c], up)
  <2>1. \A d \in Class : up[d] = FirstFound(Reverse(ls[d]), found)
    BY <1>u
  <2>2. FindsIn(A, Names, Items, ls, one, found, up)
    BY <1>2, <1>5, <2>1 DEF FindsIn
  <2>3. FirstFound(Walk(c, ls, Items), one) = FirstFound(Lineage[c], up)
    BY <2>2, SearchIsWalk
  <2> QED
    BY <1>6, <2>3
<1> QED
  BY <1>4, <1>6, <1>8, <1>9, <1>u

\* A search of one class finds what is in one of its lists.
LEMMA OneClassFinds ==
    ASSUME NEW Items, NEW Names, Names \subseteq DOMAIN Items, \A l \in Names : Searchable(Items[l]),
           NEW s \in Seq(Names), NEW i \in DOMAIN s, NEW x \in ToSet(Items[s[i]])
    PROVE  FirstFound(Reverse(s), [l \in DOMAIN Items |-> By(Items[l], x.id)]) # <<>>
<1>1. PICK found : found = [l \in DOMAIN Items |-> By(Items[l], x.id)]
  OBVIOUS
<1>2. PICK l \in Names : l = s[i]
  OBVIOUS
<1>3. Items[l] \in Seq(ToSet(Items[l])) /\ x \in ToSet(Items[l]) /\ x.id \in Nat
  BY <1>2 DEF Searchable
<1>4. found[l] = WithId(Items[l], x.id)
  BY <1>1, <1>2, <1>3, ByIsWithId
<1>5. \A y : <<y>> # <<>>
  OBVIOUS
<1>6. found[l] # <<>>
  <2>1. PICK list, id : list = Items[l] /\ id = x.id
    OBVIOUS
  <2>2. \E y \in ToSet(list) : y.id = id /\ WithId(list, id) = <<y>>
    BY <1>3, <2>1, WithIdIs
  <2> QED
    BY <1>4, <1>5, <2>1, <2>2
<1>7. Reverse(s) \in Seq(Names) /\ l \in ToSet(Reverse(s))
  BY <1>2, ReverseHolds DEF ToSet
<1> QED
  BY <1>1, <1>6, <1>7, FirstFoundSome

----------------------------------------------------------------------------
(* The table of accessors and the lists *)

\* The lists of classes and metaclasses are ones the loader lets pass.
SortedLists == {l \in DOMAIN PropertyList : Sorted(PropertyList[l])}
ListsInv ==
    /\ propertylists \in [Class -> Seq(SortedLists)]
    /\ ivarlists \in [Class -> Seq(DOMAIN IvarList)]
    /\ classproperties \in [Class -> Seq(SortedLists)]
    /\ classvariables \in [Class -> Seq(DOMAIN IvarList)]

\* The accessors of a property that a class has are in the table and described.
Accounted(p) ==
    \A m \in Accessors(p) :
        /\ m \in DOMAIN propertyid /\ propertyid[m] = p.id
        /\ p.dynamic /\ (m = p.getter => m = p.name) => m \in descriptors
Has(c, p) == \E i \in DOMAIN propertylists[c] : p \in ToSet(PropertyList[propertylists[c][i]])
PropertyInv ==
    \A c \in Class : \A p : Has(c, p) => Accounted(p) /\ (p.clearable => c \in clearable)

PropIInv == IInv /\ ListsInv /\ PropertyInv

\* All lists that a class can have are searchable.
LEMMA ListsAreSearchable ==
    /\ \A l \in SortedLists : Searchable(PropertyList[l])
    /\ \A l \in DOMAIN IvarList : Searchable(IvarList[l])
BY ListAssumption DEF SortedLists, Searchable

\* The searches of a class, and the walks of its properties and instance variables
LEMMA SearchPropertyIs ==
    ASSUME ListsInv, NEW c \in Class, NEW id \in Nat
    PROVE  search_property(c, id) = WithId(walk_properties(c), id)
<1>1. PICK ls : ls = propertylists
  OBVIOUS
<1>2. \A d \in Class : ls[d] \in Seq(SortedLists)
  BY <1>1 DEF ListsInv
<1>3. FirstFound(Lineage[c], [d \in Class |->
              FirstFound(Reverse(ls[d]), [l \in DOMAIN PropertyList |-> By(PropertyList[l], id)])])
           = WithId(Walk(c, ls, PropertyList), id)
  <2>1. SortedLists \subseteq DOMAIN PropertyList
    BY DEF SortedLists
  <2> QED
    BY <1>2, <2>1, ListsAreSearchable, SearchAgrees
<1> QED
  BY <1>1, <1>3 DEF search_property, In_properties, property_bsearch, By, walk_properties

LEMMA SearchIvarIs ==
    ASSUME ListsInv, NEW c \in Class, NEW id \in Nat
    PROVE  search_ivar(c, id) = WithId(walk_ivars(c), id)
<1>1. PICK ls : ls = ivarlists
  OBVIOUS
<1>2. \A d \in Class : ls[d] \in Seq(DOMAIN IvarList)
  BY <1>1 DEF ListsInv
<1>3. FirstFound(Lineage[c], [d \in Class |->
              FirstFound(Reverse(ls[d]), [l \in DOMAIN IvarList |-> By(IvarList[l], id)])])
           = WithId(Walk(c, ls, IvarList), id)
  BY <1>2, ListsAreSearchable, SearchAgrees
<1> QED
  BY <1>1, <1>3 DEF search_ivar, In_ivars, ivar_bsearch, By, walk_ivars

LEMMA WalkPropertiesIs ==
    ASSUME ListsInv, NEW c \in Class
    PROVE  /\ \E A : walk_properties(c) \in Seq(A)
           /\ \A p \in ToSet(walk_properties(c)) : \E d \in Class : Has(d, p)
           /\ \A p : Has(c, p) => p \in ToSet(walk_properties(c)) /\ p.id \in Nat
<1>1. PICK ls : ls = propertylists
  OBVIOUS
<1>2. \A d \in Class : ls[d] \in Seq(SortedLists)
  BY <1>1 DEF ListsInv
<1>3. PICK A : A = UNION {ToSet(PropertyList[l]) : l \in SortedLists}
  OBVIOUS
<1>4. \A l \in SortedLists : PropertyList[l] \in Seq(A)
  <2> SUFFICES ASSUME NEW l \in SortedLists PROVE PropertyList[l] \in Seq(A)
    OBVIOUS
  <2>1. PICK list : list = PropertyList[l]
    OBVIOUS
  <2>2. list \in Seq(ToSet(list)) /\ ToSet(list) \subseteq A
    BY <1>3, <2>1, ListsAreSearchable DEF Searchable
  <2> QED
    BY <2>1, <2>2
<1>5. PICK w : w = Walk(c, ls, PropertyList)
  OBVIOUS
<1>6. /\ w \in Seq(A)
      /\ \A x \in ToSet(w) : \E d \in Class : \E i \in DOMAIN ls[d] : x \in ToSet(PropertyList[ls[d][i]])
      /\ \A i \in DOMAIN ls[c] : ToSet(PropertyList[ls[c][i]]) \subseteq ToSet(w)
  BY <1>2, <1>4, <1>5, WalkHolds
<1>7. w = walk_properties(c)
  BY <1>1, <1>5 DEF walk_properties
<1>8. ASSUME NEW p, Has(c, p) PROVE p.id \in Nat
  <2>1. PICK i \in DOMAIN ls[c] : p \in ToSet(PropertyList[ls[c][i]])
    BY <1>1, <1>8 DEF Has
  <2>2. ls[c][i] \in SortedLists
    BY <1>2, <2>1
  <2> QED
    BY <2>1, <2>2, ListsAreSearchable DEF Searchable
<1> QED
  BY <1>1, <1>6, <1>7, <1>8 DEF Has

LEMMA WalkIvarsIs ==
    ASSUME ListsInv, NEW c \in Class, NEW v \in ToSet(walk_ivars(c))
    PROVE  v.id \in Nat
<1>1. PICK ls : ls = ivarlists
  OBVIOUS
<1>2. \A d \in Class : ls[d] \in Seq(DOMAIN IvarList)
  BY <1>1 DEF ListsInv
<1>3. PICK A : A = UNION {ToSet(IvarList[l]) : l \in DOMAIN IvarList}
  OBVIOUS
<1>4. \A l \in DOMAIN IvarList : IvarList[l] \in Seq(A)
  <2> SUFFICES ASSUME NEW l \in DOMAIN IvarList PROVE IvarList[l] \in Seq(A)
    OBVIOUS
  <2>1. PICK list : list = IvarList[l]
    OBVIOUS
  <2>2. list \in Seq(ToSet(list)) /\ ToSet(list) \subseteq A
    BY <1>3, <2>1, ListsAreSearchable DEF Searchable
  <2> QED
    BY <2>1, <2>2
<1>5. PICK w : w = Walk(c, ls, IvarList)
  OBVIOUS
<1>6. \A x \in ToSet(w) : \E d \in Class : \E i \in DOMAIN ls[d] : x \in ToSet(IvarList[ls[d][i]])
  BY <1>2, <1>4, <1>5, WalkHolds
<1>7. v \in ToSet(w)
  BY <1>1, <1>5 DEF walk_ivars
<1>d. PICK d \in Class : \E i \in DOMAIN ls[d] : v \in ToSet(IvarList[ls[d][i]])
  BY <1>6, <1>7
<1>8. PICK i \in DOMAIN ls[d] : v \in ToSet(IvarList[ls[d][i]])
  BY <1>d
<1>9. ls[d][i] \in DOMAIN IvarList
  BY <1>2, <1>8
<1> QED
  BY <1>8, <1>9, ListsAreSearchable DEF Searchable

\* With that, tables, searches and walks agree.
LEMMA PropIInvAgree == PropIInv => PropertiesAgree
<1> SUFFICES ASSUME PropIInv, NEW c \in Class
    PROVE
        /\ \A i \in DOMAIN propertylists[c] : \A p \in ToSet(PropertyList[propertylists[c][i]]) :
              /\ search_property(c, p.id)[1] = WithId(walk_properties(c), p.id)[1]
              /\ \A m \in Accessors(p) :
                    /\ m \in DOMAIN propertyid
                    /\ find_property_for_methodid(c, m)[1].id = propertyid[m]
                    /\ search_property(c, propertyid[m])[1].id = p.id
                    /\ p.dynamic /\ (m = p.getter => m = p.name) => m \in descriptors
              /\ p.clearable => c \in clearable
        /\ \A v \in ToSet(walk_ivars(c)) : search_ivar(c, v.id)[1] = WithId(walk_ivars(c), v.id)[1]
        /\ \A i \in DOMAIN classproperties[c] : \A p \in ToSet(PropertyList[classproperties[c][i]]) :
              metaclass_search_property(c, p.id) # <<>>
        /\ \A i \in DOMAIN classvariables[c] : \A v \in ToSet(IvarList[classvariables[c][i]]) :
              metaclass_search_ivar(c, v.id) # <<>>
  BY DEF PropertiesAgree
<1>1. ListsInv /\ PropertyInv
  BY DEF PropIInv
<1>2. ASSUME NEW p, Has(c, p)
      PROVE  /\ search_property(c, p.id)[1] = WithId(walk_properties(c), p.id)[1]
             /\ \A m \in Accessors(p) :
                   /\ m \in DOMAIN propertyid
                   /\ find_property_for_methodid(c, m)[1].id = propertyid[m]
                   /\ search_property(c, propertyid[m])[1].id = p.id
                   /\ p.dynamic /\ (m = p.getter => m = p.name) => m \in descriptors
             /\ p.clearable => c \in clearable
  <2>1. PICK w : w = walk_properties(c)
    OBVIOUS
  <2>2. PICK A : w \in Seq(A)
    BY <1>1, <2>1, WalkPropertiesIs
  <2>3. p \in ToSet(w) /\ p.id \in Nat /\ \A x \in ToSet(w) : \E d \in Class : Has(d, x)
    BY <1>1, <1>2, <2>1, WalkPropertiesIs
  <2>4. search_property(c, p.id) = WithId(w, p.id)
    BY <1>1, <2>1, <2>3, SearchPropertyIs
  <2>5. PICK y \in ToSet(w) : y.id = p.id /\ WithId(w, p.id) = <<y>>
    <3>1. PICK id : id = p.id
      OBVIOUS
    <3>2. \E y \in ToSet(w) : y.id = id /\ WithId(w, id) = <<y>>
      BY <2>2, <2>3, <3>1, WithIdIs
    <3> QED
      BY <3>1, <3>2
  <2>6. Accounted(p) /\ (p.clearable => c \in clearable)
    BY <1>1, <1>2 DEF PropertyInv
  <2>7. ASSUME NEW m \in Accessors(p) PROVE find_property_for_methodid(c, m)[1].id = propertyid[m]
    <3>1. PICK X : X = {x \in ToSet(w) : m \in Accessors(x)}
      OBVIOUS
    <3>2. p \in X
      BY <2>3, <2>7, <3>1
    <3>3. PICK x \in ToSet(w) \cap X : FirstIn(w, X) = <<x>>
      BY <2>2, <2>3, <3>2, FirstInSome
    <3>4. PICK d \in Class : Has(d, x)
      BY <2>3, <3>3
    <3>5. Accounted(x) /\ m \in Accessors(x)
      BY <1>1, <3>1, <3>3, <3>4 DEF PropertyInv
    <3>6. find_property_for_methodid(c, m) = <<x>>
      BY <2>1, <3>1, <3>3 DEF find_property_for_methodid
    <3> QED
      BY <3>5, <3>6 DEF Accounted
  <2>8. \A m \in Accessors(p) :
           /\ m \in DOMAIN propertyid
           /\ p.dynamic /\ (m = p.getter => m = p.name) => m \in descriptors
    BY <2>6 DEF Accounted
  <2>9. ASSUME NEW m \in Accessors(p) PROVE search_property(c, propertyid[m])[1].id = p.id
    <3>1. propertyid[m] = p.id
      BY <2>6 DEF Accounted
    <3>2. search_property(c, propertyid[m]) = <<y>>
      BY <2>4, <2>5, <3>1
    <3>3. <<y>>[1] = y
      OBVIOUS
    <3> QED
      BY <2>5, <3>2, <3>3
  <2>10. search_property(c, p.id)[1] = WithId(walk_properties(c), p.id)[1]
    BY <2>1, <2>4
  <2>11. ASSUME NEW m \in Accessors(p)
         PROVE  /\ m \in DOMAIN propertyid
                /\ find_property_for_methodid(c, m)[1].id = propertyid[m]
                /\ search_property(c, propertyid[m])[1].id = p.id
                /\ p.dynamic /\ (m = p.getter => m = p.name) => m \in descriptors
    <3>1. find_property_for_methodid(c, m)[1].id = propertyid[m]
      BY <2>7
    <3>2. search_property(c, propertyid[m])[1].id = p.id
      BY <2>9
    <3> QED
      BY <2>8, <3>1, <3>2
  <2> QED
    BY <2>6, <2>10, <2>11
<1>3. \A v \in ToSet(walk_ivars(c)) : search_ivar(c, v.id)[1] = WithId(walk_ivars(c), v.id)[1]
  BY <1>1, SearchIvarIs, WalkIvarsIs
<1>4. ASSUME NEW i \in DOMAIN classproperties[c], NEW p \in ToSet(PropertyList[classproperties[c][i]])
      PROVE  metaclass_search_property(c, p.id) # <<>>
  <2>1. PICK s \in Seq(SortedLists) : s = classproperties[c]
    BY <1>1 DEF ListsInv
  <2>2. SortedLists \subseteq DOMAIN PropertyList
    BY DEF SortedLists
  <2>3. i \in DOMAIN s /\ p \in ToSet(PropertyList[s[i]])
    BY <1>4, <2>1
  <2>4. FirstFound(Reverse(s), [l \in DOMAIN PropertyList |-> By(PropertyList[l], p.id)]) # <<>>
    BY <2>2, <2>3, ListsAreSearchable, OneClassFinds
  <2> QED
    BY <2>1, <2>4 DEF metaclass_search_property, In_properties, property_bsearch, By
<1>5. ASSUME NEW i \in DOMAIN classvariables[c], NEW v \in ToSet(IvarList[classvariables[c][i]])
      PROVE  metaclass_search_ivar(c, v.id) # <<>>
  <2>1. PICK s \in Seq(DOMAIN IvarList) : s = classvariables[c]
    BY <1>1 DEF ListsInv
  <2>3. i \in DOMAIN s /\ v \in ToSet(IvarList[s[i]])
    BY <1>5, <2>1
  <2>4. FirstFound(Reverse(s), [l \in DOMAIN IvarList |-> By(IvarList[l], v.id)]) # <<>>
    BY <2>3, ListsAreSearchable, OneClassFinds
  <2> QED
    BY <2>1, <2>4 DEF metaclass_search_ivar, In_ivars, ivar_bsearch, By
<1> QED
  BY <1>2, <1>3, <1>4, <1>5 DEF Has

\* Lists that the loader adds are lists of the program.
LEMMA ListNames ==
    ASSUME NEW o \in Operation
    PROVE  /\ o.op \in {"properties", "classproperties"} => o.list \in DOMAIN PropertyList \cup {NoList}
           /\ o.op \in {"ivars", "classvariables"} => o.list \in DOMAIN IvarList \cup {NoList}
<1>1. PICK p \in Programs : o \in ToSet(p.todo)
  BY DEF Operation
<1> QED
  BY <1>1, ListAssumption

\* One more list
LEMMA WithListHolds ==
    ASSUME NEW Names, "empty" \in Names, NEW s \in Seq(Names), NEW l \in Names \cup {NoList}
    PROVE  WithList(s, l) \in Seq(Names)
<1>1. <<"empty">> \in Seq(Names)
  OBVIOUS
<1>2. l # NoList => Append(s, l) \in Seq(Names)
  OBVIOUS
<1> QED
  BY <1>1, <1>2 DEF WithList

LEMMA EmptyIsList == "empty" \in SortedLists /\ "empty" \in DOMAIN IvarList
BY ListAssumption, ClassAssumption DEF SortedLists, Sorted

\* A step that leaves the lists alone
LEMMA KeepLists == ListsInv /\ PropertyInv /\ UNCHANGED lists => ListsInv' /\ PropertyInv'
BY DEF ListsInv, PropertyInv, Has, Accounted, lists

\* What was accounted for still is, when the table and the sets only grow.
LEMMA GrowProperties ==
    ASSUME PropertyInv, NEW c \in Class, DOMAIN propertylists = Class,
           \A d \in Class : d # c => propertylists'[d] = propertylists[d],
           \A m \in DOMAIN propertyid : m \in DOMAIN propertyid' /\ propertyid'[m] = propertyid[m],
           descriptors \subseteq descriptors', clearable \subseteq clearable',
           \A i \in DOMAIN propertylists'[c] : \A p \in ToSet(PropertyList[propertylists'[c][i]]) :
              Has(c, p) \/ (Accounted(p)' /\ (p.clearable => c \in clearable'))
    PROVE  PropertyInv'
<1>1. \A p : Accounted(p) => Accounted(p)'
  BY DEF Accounted
<1>2. ASSUME NEW d \in Class, NEW p, Has(d, p)' PROVE Accounted(p)' /\ (p.clearable => d \in clearable')
  <2>1. CASE Has(d, p)
    BY <1>1, <2>1 DEF PropertyInv
  <2>2. CASE ~Has(d, p)
    <3>1. d = c
      BY <1>2, <2>2 DEF Has
    <3> QED
      BY <1>2, <2>2, <3>1 DEF Has
  <2> QED
    BY <2>1, <2>2
<1> QED
  BY <1>2 DEF PropertyInv

LEMMA AddIvarListLists ==
    ASSUME PropIInv, AddIvarList
    PROVE  ListsInv' /\ PropertyInv'
<1>1. ListsInv /\ PropertyInv /\ todo \in Seq(Operation) /\ todo # <<>> /\ Head(todo).op = "ivars"
  BY DEF PropIInv, IInv, ThreadInv, AddIvarList, Load
<1>2. PICK o \in Operation : o = Head(todo)
  BY <1>1
<1>3. o.list \in DOMAIN IvarList \cup {NoList} /\ o.class \in Class
  BY <1>1, <1>2, ListNames, OperationIds
<1>4. /\ ivarlists' = [ivarlists EXCEPT ![o.class] = WithList(@, o.list)]
      /\ UNCHANGED <<propertylists, classproperties, classvariables, clearable, descriptors, propertyid>>
  BY <1>2 DEF AddIvarList
<1>5. \A d \in Class : ivarlists[d] \in Seq(DOMAIN IvarList)
  BY <1>1 DEF ListsInv
<1>6. WithList(ivarlists[o.class], o.list) \in Seq(DOMAIN IvarList)
  BY <1>3, <1>5, EmptyIsList, WithListHolds
<1>7. ivarlists' \in [Class -> Seq(DOMAIN IvarList)]
  BY <1>1, <1>3, <1>4, <1>6 DEF ListsInv
<1> QED
  BY <1>1, <1>4, <1>7 DEF ListsInv, PropertyInv, Has, Accounted

LEMMA AddClassPropertiesLists ==
    ASSUME PropIInv, AddClassProperties
    PROVE  ListsInv' /\ PropertyInv'
<1>1. ListsInv /\ PropertyInv /\ todo \in Seq(Operation) /\ todo # <<>> /\ Head(todo).op = "classproperties"
  BY DEF PropIInv, IInv, ThreadInv, AddClassProperties, Load
<1>2. PICK o \in Operation : o = Head(todo)
  BY <1>1
<1>3. o.list \in DOMAIN PropertyList \cup {NoList} /\ o.class \in Class
  BY <1>1, <1>2, ListNames, OperationIds
<1>4. UNCHANGED <<propertylists, ivarlists, classvariables, clearable, descriptors, propertyid>>
  BY DEF AddClassProperties
<1>5. \/ UNCHANGED classproperties
      \/ /\ o.list # NoList /\ Sorted(PropertyList[o.list])
         /\ classproperties' = [classproperties EXCEPT ![o.class] = Append(@, o.list)]
  BY <1>2 DEF AddClassProperties
<1>6. classproperties' \in [Class -> Seq(SortedLists)]
  <2>1. CASE UNCHANGED classproperties
    BY <1>1, <2>1 DEF ListsInv
  <2>2. CASE /\ o.list # NoList /\ Sorted(PropertyList[o.list])
             /\ classproperties' = [classproperties EXCEPT ![o.class] = Append(@, o.list)]
    <3>1. o.list \in SortedLists
      BY <1>3, <2>2 DEF SortedLists
    <3>2. classproperties[o.class] \in Seq(SortedLists)
      BY <1>1, <1>3 DEF ListsInv
    <3>3. Append(classproperties[o.class], o.list) \in Seq(SortedLists)
      BY <3>1, <3>2
    <3> QED
      BY <1>1, <1>3, <2>2, <3>3 DEF ListsInv
  <2> QED
    BY <1>5, <2>1, <2>2
<1> QED
  BY <1>1, <1>4, <1>6 DEF ListsInv, PropertyInv, Has, Accounted

LEMMA AddClassVariablesLists ==
    ASSUME PropIInv, AddClassVariables
    PROVE  ListsInv' /\ PropertyInv'
<1>1. ListsInv /\ PropertyInv /\ todo \in Seq(Operation) /\ todo # <<>> /\ Head(todo).op = "classvariables"
  BY DEF PropIInv, IInv, ThreadInv, AddClassVariables, Load
<1>2. PICK o \in Operation : o = Head(todo)
  BY <1>1
<1>3. o.list \in DOMAIN IvarList \cup {NoList} /\ o.class \in Class
  BY <1>1, <1>2, ListNames, OperationIds
<1>4. UNCHANGED <<propertylists, ivarlists, classproperties, clearable, descriptors, propertyid>>
  BY DEF AddClassVariables
<1>5. \/ UNCHANGED classvariables
      \/ o.list # NoList /\ classvariables' = [classvariables EXCEPT ![o.class] = Append(@, o.list)]
  BY <1>2 DEF AddClassVariables
<1>6. classvariables' \in [Class -> Seq(DOMAIN IvarList)]
  <2>1. CASE UNCHANGED classvariables
    BY <1>1, <2>1 DEF ListsInv
  <2>2. CASE o.list # NoList /\ classvariables' = [classvariables EXCEPT ![o.class] = Append(@, o.list)]
    <3>1. classvariables[o.class] \in Seq(DOMAIN IvarList)
      BY <1>1, <1>3 DEF ListsInv
    <3>2. Append(classvariables[o.class], o.list) \in Seq(DOMAIN IvarList)
      BY <1>3, <2>2, <3>1
    <3> QED
      BY <1>1, <1>3, <2>2, <3>2 DEF ListsInv
  <2> QED
    BY <1>5, <2>1, <2>2
<1> QED
  BY <1>1, <1>4, <1>6 DEF ListsInv, PropertyInv, Has, Accounted

\* The table with the accessors of a list that does not clash with it
LEMMA RegisteredHolds ==
    ASSUME NEW l \in SortedLists, ~Clash(PropertyList[l]), NEW owner, NEW accessors,
           accessors = UNION {Accessors(PropertyList[l][i]) : i \in DOMAIN PropertyList[l]},
           owner = [m \in accessors |-> (CHOOSE p \in ToSet(PropertyList[l]) : m \in Accessors(p)).id]
    PROVE  /\ \A m \in DOMAIN propertyid : m \in DOMAIN Registered(owner) /\ Registered(owner)[m] = propertyid[m]
           /\ \A p \in ToSet(PropertyList[l]) : \A m \in Accessors(p) :
                 m \in DOMAIN Registered(owner) /\ Registered(owner)[m] = p.id
<1>1. PICK list : list = PropertyList[l]
  OBVIOUS
<1>2. PICK table : table = Registered(owner)
  OBVIOUS
<1>3. /\ DOMAIN table = DOMAIN propertyid \cup accessors
      /\ \A m \in DOMAIN propertyid : table[m] = propertyid[m]
      /\ \A m \in accessors : m \notin DOMAIN propertyid => table[m] = owner[m]
  <2>1. DOMAIN owner = accessors
    OBVIOUS
  <2> QED
    BY <1>2, <2>1 DEF Registered
<1>4. \A i \in DOMAIN list : \A m \in Accessors(list[i]) :
         /\ m \in DOMAIN propertyid => propertyid[m] = list[i].id
         /\ \A j \in DOMAIN list : m \in Accessors(list[j]) => list[j].id = list[i].id
  BY <1>1 DEF Clash
<1>5. ASSUME NEW p \in ToSet(list), NEW m \in Accessors(p)
      PROVE  m \in DOMAIN table /\ table[m] = p.id
  <2>1. PICK i \in DOMAIN list : p = list[i]
    BY DEF ToSet
  <2>2. m \in accessors
    BY <1>1, <1>5, <2>1
  <2>3. CASE m \in DOMAIN propertyid
    BY <1>3, <1>4, <1>5, <2>1, <2>3
  <2>4. CASE m \notin DOMAIN propertyid
    <3>1. PICK q : q = CHOOSE x \in ToSet(list) : m \in Accessors(x)
      OBVIOUS
    <3>2. q \in ToSet(list) /\ m \in Accessors(q)
      BY <1>5, <3>1
    <3>3. PICK j \in DOMAIN list : q = list[j]
      BY <3>2 DEF ToSet
    <3>4. q.id = p.id
      BY <1>4, <1>5, <2>1, <3>2, <3>3
    <3>5. table[m] = q.id
      BY <1>1, <1>3, <2>2, <2>4, <3>1
    <3> QED
      BY <1>3, <2>2, <3>4, <3>5
  <2> QED
    BY <2>3, <2>4
<1> QED
  BY <1>1, <1>2, <1>3, <1>5

\* The four operations of the loader that add lists
LEMMA AddPropertyListLists ==
    ASSUME PropIInv, AddPropertyList
    PROVE  ListsInv' /\ PropertyInv'
<1>1. ListsInv /\ PropertyInv /\ todo \in Seq(Operation) /\ todo # <<>> /\ Head(todo).op = "properties"
  BY DEF PropIInv, IInv, ThreadInv, AddPropertyList, Load
<1>2. PICK o \in Operation : o = Head(todo)
  BY <1>1
<1>3. PICK c \in Class, l \in DOMAIN PropertyList \cup {NoList} : c = o.class /\ l = o.list
  BY <1>1, <1>2, ListNames, OperationIds
<1>4. UNCHANGED <<ivarlists, classproperties, classvariables>>
  BY DEF AddPropertyList
<1>5. PICK s \in Seq(SortedLists) : s = propertylists[c]
  BY <1>1 DEF ListsInv
<1>6. DOMAIN propertylists = Class /\ propertylists \in [Class -> Seq(SortedLists)]
  BY <1>1 DEF ListsInv
<1>7. CASE /\ l = NoList
           /\ propertylists' = [propertylists EXCEPT ![c] = WithList(@, NoList)]
           /\ UNCHANGED <<clearable, descriptors, propertyid>>
  <2>1. propertylists'[c] = WithList(s, NoList) /\ WithList(s, NoList) \in Seq(SortedLists)
    BY <1>5, <1>6, <1>7, EmptyIsList, WithListHolds
  <2>2. propertylists' \in [Class -> Seq(SortedLists)]
    BY <1>6, <1>7, <2>1
  <2>3. ListsInv'
    BY <1>1, <1>4, <2>2 DEF ListsInv
  <2>4. \A i \in DOMAIN propertylists'[c] : \A p \in ToSet(PropertyList[propertylists'[c][i]]) : Has(c, p)
    <3>1. CASE s = <<>>
      <4>1. WithList(s, NoList) = <<"empty">> /\ ToSet(PropertyList["empty"]) = {}
        BY <3>1, ListAssumption DEF WithList, ToSet
      <4> QED
        BY <2>1, <4>1
    <3>2. CASE s # <<>>
      <4>1. WithList(s, NoList) = s
        BY <3>2 DEF WithList
      <4> QED
        BY <1>5, <2>1, <4>1 DEF Has
    <3> QED
      BY <3>1, <3>2
  <2>5. PropertyInv'
    BY <1>1, <1>6, <1>7, <2>4, GrowProperties
  <2> QED
    BY <2>3, <2>5
<1>8. CASE UNCHANGED <<propertylists, clearable, descriptors, propertyid>>
  BY <1>1, <1>4, <1>8, KeepLists DEF lists
<1> DEFINE list == PropertyList[l]
<1>a. PICK accessors : accessors = UNION {Accessors(list[i]) : i \in DOMAIN list}
  OBVIOUS
<1>o. PICK owner : owner = [m \in accessors |-> (CHOOSE p \in ToSet(list) : m \in Accessors(p)).id]
  OBVIOUS
<1>9. CASE /\ l # NoList /\ Sorted(list) /\ ~Clash(list)
           /\ clearable' = clearable \cup {d \in {c} : \E i \in DOMAIN list : list[i].clearable}
           /\ descriptors' = descriptors \cup UNION {MadeDescriptors(list[i]) : i \in DOMAIN list}
           /\ propertyid' = Registered(owner)
           /\ propertylists' = [propertylists EXCEPT ![c] = WithList(@, l)]
  <2>2. l \in SortedLists
    BY <1>3, <1>9 DEF SortedLists
  <2>3. propertylists'[c] = Append(s, l) /\ Append(s, l) \in Seq(SortedLists)
    BY <1>5, <1>6, <1>9, <2>2 DEF WithList
  <2>4. propertylists' \in [Class -> Seq(SortedLists)]
    BY <1>6, <1>9, <2>3
  <2>5. ListsInv'
    BY <1>1, <1>4, <2>4 DEF ListsInv
  <2>6. /\ \A m \in DOMAIN propertyid : m \in DOMAIN propertyid' /\ propertyid'[m] = propertyid[m]
        /\ \A p \in ToSet(list) : \A m \in Accessors(p) : m \in DOMAIN propertyid' /\ propertyid'[m] = p.id
    <3>1. ~Clash(PropertyList[l]) /\ propertyid' = Registered(owner)
      BY <1>9
    <3>2. /\ \A m \in DOMAIN propertyid : m \in DOMAIN Registered(owner) /\ Registered(owner)[m] = propertyid[m]
          /\ \A p \in ToSet(PropertyList[l]) : \A m \in Accessors(p) :
                m \in DOMAIN Registered(owner) /\ Registered(owner)[m] = p.id
      BY <1>a, <1>o, <2>2, <3>1, RegisteredHolds
    <3> QED
      BY <3>1, <3>2
  <2>7. ASSUME NEW p \in ToSet(list) PROVE Accounted(p)' /\ (p.clearable => c \in clearable')
    <3>1. PICK i \in DOMAIN list : p = list[i]
      BY DEF ToSet
    <3>2. MadeDescriptors(p) \subseteq descriptors' /\ (p.clearable => c \in clearable')
      BY <1>9, <3>1
    <3>3. ASSUME NEW m \in Accessors(p), p.dynamic, m = p.getter => m = p.name PROVE m \in descriptors'
      <4>1. m \in descriptors \/ m \in MadeDescriptors(p)
        BY <3>3 DEF Accessors, MadeDescriptors
      <4> QED
        BY <3>2, <4>1, <1>9
    <3> QED
      BY <2>6, <2>7, <3>2, <3>3 DEF Accounted
  <2>8. \A i \in DOMAIN propertylists'[c] : \A p \in ToSet(PropertyList[propertylists'[c][i]]) :
           Has(c, p) \/ p \in ToSet(list)
    <3> SUFFICES ASSUME NEW i \in DOMAIN Append(s, l), NEW p \in ToSet(PropertyList[Append(s, l)[i]])
                 PROVE  Has(c, p) \/ p \in ToSet(list)
      BY <2>3
    <3>1. \/ i \in DOMAIN s /\ Append(s, l)[i] = s[i]
          \/ Append(s, l)[i] = l
      BY <2>2
    <3> QED
      BY <1>5, <3>1 DEF Has
  <2>9. \A d \in Class : d # c => propertylists'[d] = propertylists[d]
    BY <1>6, <1>9
  <2>10. PropertyInv'
    <3>1. descriptors \subseteq descriptors' /\ clearable \subseteq clearable'
      BY <1>9
    <3>2. \A i \in DOMAIN propertylists'[c] : \A p \in ToSet(PropertyList[propertylists'[c][i]]) :
              Has(c, p) \/ (Accounted(p)' /\ (p.clearable => c \in clearable'))
      BY <2>7, <2>8
    <3> QED
      BY <1>1, <1>6, <2>6, <2>9, <3>1, <3>2, GrowProperties
  <2> QED
    BY <2>5, <2>10
<1> QED
  BY <1>2, <1>3, <1>7, <1>8, <1>9, <1>a, <1>o DEF AddPropertyList

LEMMA InitPropIInv == Init => PropIInv
<1> SUFFICES ASSUME Init PROVE PropIInv
  OBVIOUS
<1>1. \A S : <<>> \in Seq(S)
  OBVIOUS
<1>2. ListsInv
  BY <1>1 DEF Init, ListsInv
<1>3. \A c \in Class : propertylists[c] = <<>>
  BY DEF Init
<1>4. PropertyInv
  BY <1>3 DEF PropertyInv, Has
<1> QED
  BY <1>2, <1>4, InitIInv DEF PropIInv

LEMMA NextPropIInv == PropIInv /\ [Next]_vars => PropIInv'
<1> SUFFICES ASSUME PropIInv, [Next]_vars PROVE PropIInv'
  OBVIOUS
<1>1. IInv' /\ ListsInv /\ PropertyInv
  BY NextIInv DEF PropIInv
<1>2. CASE AddIvarList \/ AddPropertyList \/ AddClassProperties \/ AddClassVariables
  BY <1>1, <1>2, AddIvarListLists, AddPropertyListLists, AddClassPropertiesLists, AddClassVariablesLists
  DEF PropIInv
<1>3. CASE UNCHANGED lists
  BY <1>1, <1>3, KeepLists DEF PropIInv
<1>4. \/ AddIvarList \/ AddPropertyList \/ AddClassProperties \/ AddClassVariables
      \/ UNCHANGED lists
  <2>1. CASE UNCHANGED vars
    BY <2>1 DEF vars
  <2>2. CASE Next
    BY <2>2 DEF Next, AddProtocols, Lookup, AddMethods, SetRead, Swap, Claim, SetKey, Invalidate, Free,
       AddCopy, AddExchange, LoadProtocols, AddCategory, SetMixin, AddMixin, Done, content
  <2> QED
    BY <2>1, <2>2
<1> QED
  BY <1>2, <1>3, <1>4

\* For any classes and any lists of properties and of instance variables: the
\* table of accessors, the descriptors and the lists agree, and every search by
\* id finds what a walk comes across first (infraclass.c 134-171, 405-485, 592-723).
THEOREM PropertiesAgreed == Spec => []PropertiesAgree
<1>1. Init => PropIInv
  BY InitPropIInv
<1>2. PropIInv /\ [Next]_vars => PropIInv'
  BY NextPropIInv
<1>3. PropIInv => PropertiesAgree
  BY PropIInvAgree
<1> QED
  BY <1>1, <1>2, <1>3, PTL DEF Spec
=============================================================================
