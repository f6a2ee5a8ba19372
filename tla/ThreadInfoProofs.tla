-------------------------- MODULE ThreadInfoProofs --------------------------
(***************************************************************************)
(* For any threads, classes and memory: a block has one owner, an instance *)
(* made of reused memory starts out new, a thread that ends leaves nothing *)
(* behind, and the chain of exception handlers is that of the @try parts   *)
(* the thread is in.                                                       *)
(***************************************************************************)
EXTENDS ThreadInfo, TLAPS

----------------------------------------------------------------------------
(* The inductive invariant *)

Memory == [size : Nat, isa : Class \cup {""}, thread : Thread \cup {NoThread}, retaincount : Int,
           ivars : {"zero", "used", "garbage"}, fresh : BOOLEAN, class : Class \cup {""},
           by : Thread \cup {NoThread}, zeroed : BOOLEAN, extra : Nat]
Frame == [part : {"try", "catch"}, previous : Nat, exception : DOMAIN Super \cup {""}]

\* the types of memory, pools and threads
BlocksOK ==
    /\ memory \in [Block -> Memory] /\ instances \subseteq Block /\ allocated \subseteq Block
    /\ pools \in [Thread -> [Indices -> Seq(Block)]]

\* what the pools hold is as good as new
PoolsAreClean ==
    \A t \in Thread, i \in Indices : \A b \in ToSet(pools[t][i]) :
        /\ memory[b].size >= allocationsize /\ memory[b].ivars = "zero"
        /\ memory[b].retaincount = 0 /\ memory[b].thread = NoThread

\* instances have their class and the room for it
InstancesHaveRoom ==
    \A b \in instances : memory[b].isa \in Class /\ memory[b].size >= allocationsize

\* an instance is autoreleased by one thread
AutoreleasedOnce ==
    /\ autoreleased \in [Thread -> SUBSET instances]
    /\ \A t, u \in Thread : autoreleased[t] \cap autoreleased[u] # {} => t = u

BlockInv == BlocksOK /\ BlocksHaveOneOwner /\ InstancesAreNew /\ PoolsAreClean /\ InstancesHaveRoom

LifeInv == life \in [Thread -> {"none", "running", "unset", "gone"}] /\ NothingLeftBehind

HandlerInv ==
    /\ frames \in [Thread -> Seq(Frame)] /\ top \in [Thread -> Nat]
    /\ HandlersAreLive

IInv == BlockInv /\ AutoreleasedOnce /\ LifeInv /\ HandlerInv

----------------------------------------------------------------------------
(* Sequences *)

\* Putting an element in front
LEMMA PushFront ==
    ASSUME NEW S, NEW s \in Seq(S), NEW b \in S, b \notin ToSet(s), IsInjective(s)
    PROVE  /\ <<b>> \o s \in Seq(S) /\ ToSet(<<b>> \o s) = ToSet(s) \cup {b}
           /\ IsInjective(<<b>> \o s)
  <1>. DEFINE r == <<b>> \o s
  <1>1. r \in Seq(S) /\ DOMAIN r = 1..(Len(s) + 1) /\ Len(s) \in Nat
    OBVIOUS
  <1>2. DOMAIN s = 1..Len(s)
    OBVIOUS
  <1>3. r[1] = b /\ \A i \in 1..Len(s) : r[i + 1] = s[i]
    OBVIOUS
  <1>4. \A i \in DOMAIN r : i = 1 \/ (i - 1 \in 1..Len(s) /\ r[i] = s[i - 1])
    <2>. SUFFICES ASSUME NEW i \in DOMAIN r, i # 1 PROVE i - 1 \in 1..Len(s) /\ r[i] = s[i - 1]
      OBVIOUS
    <2>1. i - 1 \in 1..Len(s) /\ (i - 1) + 1 = i
      BY <1>1
    <2>. QED
      BY <1>3, <2>1
  <1>. HIDE DEF r
  <1>5. ToSet(r) = ToSet(s) \cup {b}
    <2>1. ASSUME NEW x \in ToSet(r) PROVE x \in ToSet(s) \cup {b}
      BY <1>2, <1>3, <1>4 DEF ToSet
    <2>2. ASSUME NEW x \in ToSet(s) PROVE x \in ToSet(r)
      <3>1. PICK i \in 1..Len(s) : x = s[i]
        BY <1>2 DEF ToSet
      <3>2. i + 1 \in DOMAIN r /\ r[i + 1] = x
        BY <1>1, <1>3, <3>1
      <3>. QED
        BY <3>2 DEF ToSet
    <2>3. b \in ToSet(r)
      <3>1. 1 \in DOMAIN r
        BY <1>1
      <3>. QED
        BY <1>3, <3>1 DEF ToSet
    <2>. QED
      BY <2>1, <2>2, <2>3
  <1>6. IsInjective(r)
    <2>. SUFFICES ASSUME NEW i \in DOMAIN r, NEW j \in DOMAIN r, r[i] = r[j] PROVE i = j
      BY DEF IsInjective
    <2>1. CASE i = 1 /\ j # 1
      BY <1>2, <1>3, <1>4, <2>1 DEF ToSet
    <2>2. CASE i # 1 /\ j = 1
      BY <1>2, <1>3, <1>4, <2>2 DEF ToSet
    <2>3. CASE i # 1 /\ j # 1
      <3>1. i - 1 \in DOMAIN s /\ j - 1 \in DOMAIN s /\ s[i - 1] = s[j - 1]
        BY <1>2, <1>4, <2>3
      <3>2. i - 1 = j - 1
        BY <3>1 DEF IsInjective
      <3>. QED
        BY <1>1, <3>2
    <2>. QED
      BY <2>1, <2>2, <2>3
  <1>. QED
    BY <1>1, <1>5, <1>6 DEF r

\* Taking the element in front
LEMMA PopFront ==
    ASSUME NEW S, NEW s \in Seq(S), s # <<>>, IsInjective(s)
    PROVE  /\ Tail(s) \in Seq(S) /\ Head(s) \in ToSet(s) /\ ToSet(Tail(s)) = ToSet(s) \ {Head(s)}
           /\ IsInjective(Tail(s))
  <1>. DEFINE r == Tail(s)
  <1>1. Len(s) \in Nat \ {0} /\ DOMAIN s = 1..Len(s) /\ Head(s) = s[1]
    OBVIOUS
  <1>2. r \in Seq(S) /\ DOMAIN r = 1..(Len(s) - 1)
    OBVIOUS
  <1>3. \A i \in 1..(Len(s) - 1) : r[i] = s[i + 1]
    OBVIOUS
  <1>. HIDE DEF r
  <1>4. Head(s) \in ToSet(s)
    <2>1. 1 \in DOMAIN s
      BY <1>1
    <2>. QED
      BY <1>1, <2>1 DEF ToSet
  <1>5. ToSet(r) = ToSet(s) \ {Head(s)}
    <2>1. ASSUME NEW x \in ToSet(r) PROVE x \in ToSet(s) /\ x # Head(s)
      <3>1. PICK i \in 1..(Len(s) - 1) : x = s[i + 1]
        BY <1>2, <1>3, <2>1 DEF ToSet
      <3>2. i + 1 \in DOMAIN s /\ 1 \in DOMAIN s /\ i + 1 # 1
        BY <1>1, <3>1
      <3>. QED
        BY <1>1, <3>1, <3>2 DEF ToSet, IsInjective
    <2>2. ASSUME NEW x \in ToSet(s), x # Head(s) PROVE x \in ToSet(r)
      <3>1. PICK i \in DOMAIN s : x = s[i]
        BY DEF ToSet
      <3>2. i - 1 \in 1..(Len(s) - 1) /\ (i - 1) + 1 = i
        BY <1>1, <2>2, <3>1
      <3>3. r[i - 1] = x /\ i - 1 \in DOMAIN r
        BY <1>2, <1>3, <3>1, <3>2
      <3>. QED
        BY <3>3 DEF ToSet
    <2>. QED
      BY <2>1, <2>2
  <1>6. IsInjective(r)
    <2>. SUFFICES ASSUME NEW i \in DOMAIN r, NEW j \in DOMAIN r, r[i] = r[j] PROVE i = j
      BY DEF IsInjective
    <2>1. i + 1 \in DOMAIN s /\ j + 1 \in DOMAIN s /\ s[i + 1] = s[j + 1]
      BY <1>1, <1>2, <1>3
    <2>2. i + 1 = j + 1
      BY <2>1 DEF IsInjective
    <2>. QED
      BY <1>2, <2>2
  <1>. QED
    BY <1>2, <1>4, <1>5, <1>6 DEF r

----------------------------------------------------------------------------
(* Blocks *)

\* The pool a class uses
LEMMA IndexOfClass == \A c \in Class : Index[c] \in Indices
  BY DEF Indices

\* What a thread has pooled is in one of its pools.
LEMMA PooledIn ==
    \A t \in Thread : \A b : b \in Pooled(t) <=> \E i \in Indices : b \in ToSet(pools[t][i])
  BY DEF Pooled

\* What the allocator has is typed, too.
LEMMA NoMemoryOK == NoMemory \in Memory
  BY DEF NoMemory, Memory

\* What all threads have pooled
AllPooled == UNION {Pooled(t) : t \in Thread}

\* What is in a pool
LEMMA AllPooledIn ==
    \A b : b \in AllPooled <=> \E t \in Thread, i \in Indices : b \in ToSet(pools[t][i])
  BY DEF AllPooled, Pooled

\* An instance changes, but not its class, and is no longer fresh.
LEMMA TouchBlock ==
    ASSUME BlockInv, NEW b \in instances, NEW m \in Memory, m.isa = memory[b].isa,
           m.size = memory[b].size, m.fresh = FALSE, memory' = [memory EXCEPT ![b] = m],
           UNCHANGED <<instances, allocated, pools>>
    PROVE  BlockInv'
  <1>1. b \in Block /\ memory'[b] = m /\ \A a \in Block \ {b} : memory'[a] = memory[a]
    BY DEF BlockInv, BlocksOK
  <1>2. BlocksOK'
    BY DEF BlockInv, BlocksOK
  <1>3. BlocksHaveOneOwner'
    <2>1. UNCHANGED AllPooled
      BY DEF AllPooled, Pooled
    <2>. QED
      BY <2>1 DEF BlockInv, BlocksHaveOneOwner, AllPooled
  <1>4. InstancesAreNew'
    <2>. SUFFICES ASSUME NEW a \in instances, memory'[a].fresh
                  PROVE  /\ memory'[a].isa = memory'[a].class /\ memory'[a].retaincount = 0
                         /\ memory'[a].thread =
                              IF memory'[a].class \in ThreadAffine THEN memory'[a].by ELSE NoThread
                         /\ memory'[a].zeroed => memory'[a].ivars = "zero"
                         /\ memory'[a].size >= allocationsize + memory'[a].extra
      BY DEF InstancesAreNew
    <2>1. a # b /\ memory'[a] = memory[a]
      BY <1>1 DEF BlockInv, BlocksOK
    <2>. QED
      BY <2>1 DEF BlockInv, InstancesAreNew
  <1>5. PoolsAreClean'
    <2>1. \A t \in Thread, i \in Indices : \A a \in ToSet(pools[t][i]) : a # b /\ a \in Block
      BY DEF BlockInv, BlocksHaveOneOwner, BlocksOK, ToSet
    <2>. QED
      BY <1>1, <2>1 DEF BlockInv, PoolsAreClean
  <1>6. InstancesHaveRoom'
    BY <1>1 DEF BlockInv, InstancesHaveRoom, BlocksOK
  <1>. QED
    BY <1>2, <1>3, <1>4, <1>5, <1>6 DEF BlockInv

\* An instance is freed, into the pool of the thread or to its allocator.
LEMMA KeepBlock ==
    ASSUME BlockInv, NEW t \in Thread, NEW b \in instances, Keep(t, b), instances' = instances \ {b}
    PROVE  /\ BlockInv'
           /\ \A u \in Thread \ {t} : pools'[u] = pools[u]
  <1>. DEFINE c == memory[b].isa
  <1>1. b \in Block /\ memory[b] \in Memory /\ c \in Class /\ memory[b].size >= 1 /\ Index[c] \in Indices
    BY IndexOfClass DEF BlockInv, BlocksOK, InstancesHaveRoom, allocationsize
  <1>2. \A u \in Thread, i \in Indices : pools[u][i] \in Seq(Block) /\ b \notin ToSet(pools[u][i])
    BY DEF BlockInv, BlocksOK, BlocksHaveOneOwner
  <1>3. \A u \in Thread, i \in Indices : \A a \in ToSet(pools[u][i]) : a \in Block /\ a # b
    BY <1>2 DEF ToSet
  <1>4. CASE c \in DefaultAllocator
    <2>. DEFINE i == Index[c]
    <2>1. /\ memory' = [memory EXCEPT ![b] = Kept(memory[b])] /\ UNCHANGED allocated
          /\ pools' = [pools EXCEPT ![t][i] = <<b>> \o pools[t][i]]
      BY <1>4 DEF Keep
    <2>2. Kept(memory[b]) \in Memory /\ Kept(memory[b]).size = memory[b].size
          /\ Kept(memory[b]).ivars = "zero" /\ Kept(memory[b]).retaincount = 0
          /\ Kept(memory[b]).thread = NoThread
      <3>1. Kept(memory[b]) \in Memory
        BY <1>1, NoMemoryOK DEF Kept, Memory
      <3>. QED
        BY <3>1 DEF Kept, NoMemory
    <2>3. memory' \in [Block -> Memory] /\ memory'[b] = Kept(memory[b])
          /\ \A a \in Block \ {b} : memory'[a] = memory[a]
      BY <1>1, <2>1, <2>2 DEF BlockInv, BlocksOK
    <2>4. <<b>> \o pools[t][i] \in Seq(Block) /\ IsInjective(<<b>> \o pools[t][i])
          /\ ToSet(<<b>> \o pools[t][i]) = ToSet(pools[t][i]) \cup {b}
      BY <1>1, <1>2, PushFront DEF BlockInv, BlocksHaveOneOwner
    <2>5. pools' \in [Thread -> [Indices -> Seq(Block)]] /\ pools'[t][i] = <<b>> \o pools[t][i]
          /\ \A u \in Thread, j \in Indices : u # t \/ j # i => pools'[u][j] = pools[u][j]
      BY <1>1, <2>1, <2>4 DEF BlockInv, BlocksOK
    <2>. HIDE DEF i
    <2>6. i \in Indices
      BY <1>1 DEF i
    <2>7. \A u \in Thread, j \in Indices :
            /\ IsInjective(pools'[u][j])
            /\ ToSet(pools'[u][j]) = IF u = t /\ j = i THEN ToSet(pools[u][j]) \cup {b}
                                     ELSE ToSet(pools[u][j])
      BY <2>4, <2>5 DEF BlockInv, BlocksHaveOneOwner
    <2>8. BlocksOK'
      BY <2>1, <2>3, <2>5 DEF BlockInv, BlocksOK
    <2>9. BlocksHaveOneOwner'
      <3>1. \A u \in Thread, j \in Indices :
              IsInjective(pools'[u][j]) /\ ToSet(pools'[u][j]) \cap instances' = {}
        BY <2>7 DEF BlockInv, BlocksHaveOneOwner
      <3>2. ASSUME NEW u \in Thread, NEW v \in Thread, NEW j \in Indices, NEW k \in Indices,
                   NEW a \in ToSet(pools'[u][j]), a \in ToSet(pools'[v][k])
            PROVE  u = v /\ j = k
        <4>1. CASE a = b
          BY <1>2, <2>7, <3>2, <4>1
        <4>2. CASE a # b
          <5>1. a \in ToSet(pools[u][j]) /\ a \in ToSet(pools[v][k])
            BY <2>7, <3>2, <4>2
          <5>. QED
            BY <5>1 DEF BlockInv, BlocksHaveOneOwner
        <4>. QED
          BY <4>1, <4>2
      <3>3. AllPooled' = AllPooled \cup {b}
        <4>1. \A a : a \in AllPooled' <=> \E u \in Thread, j \in Indices : a \in ToSet(pools'[u][j])
          BY DEF AllPooled, Pooled
        <4>2. \A a : (\E u \in Thread, j \in Indices : a \in ToSet(pools'[u][j]))
                    <=> a = b \/ \E u \in Thread, j \in Indices : a \in ToSet(pools[u][j])
          BY <2>6, <2>7
        <4>. QED
          BY <4>1, <4>2, AllPooledIn
      <3>4. allocated' = instances' \cup AllPooled'
        <4>1. allocated = instances \cup AllPooled
          BY DEF BlockInv, BlocksHaveOneOwner, AllPooled
        <4>. QED
          BY <2>1, <3>3, <4>1
      <3>. QED
        BY <3>1, <3>2, <3>4 DEF BlocksHaveOneOwner, AllPooled
    <2>10. PoolsAreClean'
      <3>. SUFFICES ASSUME NEW u \in Thread, NEW j \in Indices, NEW a \in ToSet(pools'[u][j])
                    PROVE  /\ memory'[a].size >= allocationsize /\ memory'[a].ivars = "zero"
                           /\ memory'[a].retaincount = 0 /\ memory'[a].thread = NoThread
        BY DEF PoolsAreClean
      <3>1. CASE a = b
        BY <1>1, <2>2, <2>3, <3>1 DEF allocationsize
      <3>2. CASE a # b
        <4>1. a \in ToSet(pools[u][j])
          BY <2>7, <3>2
        <4>2. memory'[a] = memory[a]
          BY <1>3, <2>3, <4>1
        <4>. QED
          BY <4>1, <4>2 DEF BlockInv, PoolsAreClean
      <3>. QED
        BY <3>1, <3>2
    <2>11. \A a \in instances' : memory'[a] = memory[a] /\ a \in instances
      BY <2>3 DEF BlockInv, BlocksOK
    <2>12. InstancesAreNew' /\ InstancesHaveRoom'
      BY <2>11 DEF BlockInv, InstancesAreNew, InstancesHaveRoom
    <2>13. \A u \in Thread \ {t} : pools'[u] = pools[u]
      BY <2>1 DEF BlockInv, BlocksOK
    <2>. QED
      BY <2>8, <2>9, <2>10, <2>12, <2>13 DEF BlockInv
  <1>5. CASE c \notin DefaultAllocator
    <2>1. /\ memory' = [memory EXCEPT ![b] = NoMemory] /\ UNCHANGED pools
          /\ allocated' = allocated \ {b}
      BY <1>5 DEF Keep
    <2>3. memory' \in [Block -> Memory] /\ \A a \in Block \ {b} : memory'[a] = memory[a]
      BY <1>1, <2>1, NoMemoryOK DEF BlockInv, BlocksOK
    <2>4. BlocksOK'
      BY <2>1, <2>3 DEF BlockInv, BlocksOK
    <2>5. b \notin AllPooled
      BY <1>2, AllPooledIn
    <2>6. BlocksHaveOneOwner'
      <3>1. AllPooled' = AllPooled
        BY <2>1 DEF AllPooled, Pooled
      <3>2. allocated = instances \cup AllPooled
        BY DEF BlockInv, BlocksHaveOneOwner, AllPooled
      <3>3. allocated' = instances' \cup AllPooled'
        BY <2>1, <2>5, <3>1, <3>2
      <3>4. \A u \in Thread, i \in Indices :
              IsInjective(pools[u][i]) /\ ToSet(pools[u][i]) \cap instances' = {}
        BY DEF BlockInv, BlocksHaveOneOwner
      <3>5. \A u, v \in Thread, i, j \in Indices :
              ToSet(pools[u][i]) \cap ToSet(pools[v][j]) # {} => u = v /\ i = j
        BY DEF BlockInv, BlocksHaveOneOwner
      <3>. QED
        BY <2>1, <3>3, <3>4, <3>5 DEF BlocksHaveOneOwner, AllPooled
    <2>7. PoolsAreClean'
      BY <1>3, <2>1, <2>3 DEF BlockInv, PoolsAreClean
    <2>8. \A a \in instances' : memory'[a] = memory[a] /\ a \in instances
      BY <2>3 DEF BlockInv, BlocksOK
    <2>9. InstancesAreNew' /\ InstancesHaveRoom'
      BY <2>8 DEF BlockInv, InstancesAreNew, InstancesHaveRoom
    <2>. QED
      BY <2>1, <2>4, <2>6, <2>7, <2>9 DEF BlockInv
  <1>. QED
    BY <1>4, <1>5

\* What a block of sufficient size is as an instance
New(m, t, c, extra, zeroed) ==
    header_init([m EXCEPT !.fresh = TRUE, !.class = c, !.by = t, !.zeroed = zeroed, !.extra = extra],
                t, c, zeroed)

\* It is new, if it is clean or need not be.
LEMMA NewIsNew ==
    ASSUME NEW m \in Memory, NEW t \in Thread, NEW c \in Class, NEW extra \in Nat, NEW zeroed \in BOOLEAN,
           zeroed => m.ivars = "zero" /\ m.retaincount = 0 /\ m.thread = NoThread
    PROVE  LET n == New(m, t, c, extra, zeroed)
           IN  /\ n \in Memory /\ n.size = m.size /\ n.extra = extra
               /\ n.isa = c /\ n.class = c /\ n.retaincount = 0
               /\ n.thread = IF c \in ThreadAffine THEN n.by ELSE NoThread
               /\ n.zeroed => n.ivars = "zero"
  <1>. DEFINE g == [m EXCEPT !.fresh = TRUE, !.class = c, !.by = t, !.zeroed = zeroed, !.extra = extra]
              r == IF zeroed THEN g.retaincount ELSE 0
              a == IF c \in ThreadAffine THEN t ELSE IF zeroed THEN g.thread ELSE NoThread
              n == [g EXCEPT !.isa = c, !.retaincount = r, !.thread = a]
  <1>1. g \in Memory
    BY DEF Memory
  <1>2. /\ g.class = c /\ g.by = t /\ g.zeroed = zeroed /\ g.extra = extra /\ g.ivars = m.ivars
        /\ g.size = m.size /\ g.retaincount = m.retaincount /\ g.thread = m.thread
    BY DEF Memory
  <1>3. New(m, t, c, extra, zeroed) = n
    BY DEF New, header_init
  <1>4. r = 0 /\ a = IF c \in ThreadAffine THEN t ELSE NoThread
    BY <1>2
  <1>. HIDE DEF g, r, a
  <1>5. n \in Memory
    <2>1. r \in Int /\ a \in Thread \cup {NoThread}
      BY <1>4
    <2>. QED
      BY <1>1, <2>1 DEF Memory
  <1>6. /\ n.isa = c /\ n.retaincount = r /\ n.thread = a /\ n.class = g.class /\ n.by = g.by
        /\ n.zeroed = g.zeroed /\ n.extra = g.extra /\ n.ivars = g.ivars /\ n.size = g.size
    BY <1>1 DEF Memory
  <1>. HIDE DEF n
  <1>. QED
    BY <1>2, <1>3, <1>4, <1>5, <1>6

\* An instance is made, of a block in the thread's pool or of one the allocator has.
LEMMA AllocBlock ==
    ASSUME BlockInv, NEW t \in Thread, NEW c \in Class, NEW extra \in Extra, NEW zeroed \in BOOLEAN,
           NEW b \in Block, AllocInstance(t, c, extra, zeroed, b)
    PROVE  /\ BlockInv'
           /\ \A u \in Thread \ {t} : pools'[u] = pools[u]
  <1>. DEFINE i == Index[c]
  <1>1. i \in Indices /\ extra \in Nat
    BY IndexOfClass, ExtraAssumption
  <1>2. \A u \in Thread, j \in Indices : pools[u][j] \in Seq(Block)
    BY DEF BlockInv, BlocksOK
  <1>3. \A u \in Thread, j \in Indices : \A a \in ToSet(pools[u][j]) : a \in Block
    BY <1>2 DEF ToSet
  <1>4. instances' = instances \cup {b}
    BY DEF AllocInstance
  <1>. HIDE DEF i
  <1>5. ASSUME NEW m \in Memory, memory' = [memory EXCEPT ![b] = New(m, t, c, extra, zeroed)],
               m.size >= allocationsize + extra,
               zeroed => m.ivars = "zero" /\ m.retaincount = 0 /\ m.thread = NoThread,
               b \notin instances
        PROVE  /\ memory' \in [Block -> Memory] /\ \A a \in Block \ {b} : memory'[a] = memory[a]
               /\ InstancesAreNew' /\ InstancesHaveRoom'
    <2>. DEFINE n == New(m, t, c, extra, zeroed)
    <2>1. /\ n \in Memory /\ n.size = m.size /\ n.extra = extra
          /\ n.isa = c /\ n.class = c /\ n.retaincount = 0
          /\ n.thread = IF c \in ThreadAffine THEN n.by ELSE NoThread
          /\ n.zeroed => n.ivars = "zero"
      BY <1>1, <1>5, NewIsNew
    <2>. HIDE DEF n
    <2>2. memory' = [memory EXCEPT ![b] = n]
      BY <1>5 DEF n
    <2>3. memory' \in [Block -> Memory] /\ memory'[b] = n
          /\ \A a \in Block \ {b} : memory'[a] = memory[a]
      BY <2>1, <2>2 DEF BlockInv, BlocksOK
    <2>4. \A a \in instances : a \in Block /\ memory'[a] = memory[a]
      BY <1>5, <2>3 DEF BlockInv, BlocksOK
    <2>5. InstancesAreNew'
      <3>. SUFFICES ASSUME NEW a \in instances', memory'[a].fresh
                    PROVE  /\ memory'[a].isa = memory'[a].class /\ memory'[a].retaincount = 0
                           /\ memory'[a].thread =
                                IF memory'[a].class \in ThreadAffine THEN memory'[a].by ELSE NoThread
                           /\ memory'[a].zeroed => memory'[a].ivars = "zero"
                           /\ memory'[a].size >= allocationsize + memory'[a].extra
        BY DEF InstancesAreNew
      <3>1. CASE a = b
        BY <1>5, <2>1, <2>3, <3>1
      <3>2. CASE a \in instances
        BY <2>4, <3>2 DEF BlockInv, InstancesAreNew
      <3>. QED
        BY <1>4, <3>1, <3>2
    <2>6. n.size >= allocationsize
      <3>1. m.size \in Nat
        BY DEF Memory
      <3>. QED
        BY <1>1, <1>5, <2>1, <3>1 DEF allocationsize
    <2>7. InstancesHaveRoom'
      BY <1>4, <2>1, <2>3, <2>4, <2>6 DEF BlockInv, InstancesHaveRoom
    <2>. QED
      BY <2>3, <2>5, <2>7
  <1>6. CASE Reusable(t, c, extra)
    <2>. DEFINE s == pools[t][i]
    <2>1. /\ b = Head(s) /\ pools' = [pools EXCEPT ![t][i] = Tail(s)] /\ UNCHANGED allocated
          /\ memory' = [memory EXCEPT ![b] = New(memory[b], t, c, extra, zeroed)]
      BY <1>6 DEF AllocInstance, New, i
    <2>2. s \in Seq(Block) /\ s # <<>> /\ IsInjective(s) /\ extra = 0
      BY <1>1, <1>2, <1>6 DEF Reusable, BlockInv, BlocksHaveOneOwner, i
    <2>3. Tail(s) \in Seq(Block) /\ b \in ToSet(s) /\ ToSet(Tail(s)) = ToSet(s) \ {b} /\ IsInjective(Tail(s))
      BY <2>1, <2>2, PopFront
    <2>4. pools' \in [Thread -> [Indices -> Seq(Block)]] /\ pools'[t][i] = Tail(s)
          /\ \A u \in Thread, j \in Indices : u # t \/ j # i => pools'[u][j] = pools[u][j]
      BY <1>1, <2>1, <2>3 DEF BlockInv, BlocksOK
    <2>5. \A u \in Thread, j \in Indices :
            IsInjective(pools'[u][j]) /\ ToSet(pools'[u][j]) = ToSet(pools[u][j]) \ {b}
      <3>. SUFFICES ASSUME NEW u \in Thread, NEW j \in Indices
                    PROVE  IsInjective(pools'[u][j]) /\ ToSet(pools'[u][j]) = ToSet(pools[u][j]) \ {b}
        OBVIOUS
      <3>1. CASE u = t /\ j = i
        BY <2>3, <2>4, <3>1
      <3>2. CASE u # t \/ j # i
        <4>1. b \notin ToSet(pools[u][j])
          BY <1>1, <2>3, <3>2 DEF BlockInv, BlocksHaveOneOwner
        <4>. QED
          BY <2>4, <3>2, <4>1 DEF BlockInv, BlocksHaveOneOwner
      <3>. QED
        BY <3>1, <3>2
    <2>6. b \notin instances
      BY <1>1, <2>3 DEF BlockInv, BlocksHaveOneOwner
    <2>7. memory[b] \in Memory /\ memory[b].size >= allocationsize + extra /\ memory[b].ivars = "zero"
          /\ memory[b].retaincount = 0 /\ memory[b].thread = NoThread
      <3>1. memory[b] \in Memory
        BY DEF BlockInv, BlocksOK
      <3>2. memory[b].size >= allocationsize /\ memory[b].ivars = "zero"
            /\ memory[b].retaincount = 0 /\ memory[b].thread = NoThread
        BY <1>1, <2>3 DEF BlockInv, PoolsAreClean
      <3>. QED
        BY <2>2, <3>1, <3>2 DEF allocationsize
    <2>. HIDE DEF s
    <2>8. /\ memory' \in [Block -> Memory] /\ \A a \in Block \ {b} : memory'[a] = memory[a]
          /\ InstancesAreNew' /\ InstancesHaveRoom'
      BY <1>5, <2>1, <2>6, <2>7
    <2>9. BlocksOK'
      BY <1>4, <2>1, <2>4, <2>8 DEF BlockInv, BlocksOK
    <2>10. BlocksHaveOneOwner'
      <3>1. \A u \in Thread, j \in Indices :
              IsInjective(pools'[u][j]) /\ ToSet(pools'[u][j]) \cap instances' = {}
        BY <1>4, <2>5 DEF BlockInv, BlocksHaveOneOwner
      <3>2. \A u, v \in Thread, j, k \in Indices :
              ToSet(pools'[u][j]) \cap ToSet(pools'[v][k]) # {} => u = v /\ j = k
        BY <2>5 DEF BlockInv, BlocksHaveOneOwner
      <3>3. AllPooled' = AllPooled \ {b}
        <4>1. \A a : a \in AllPooled' <=> \E u \in Thread, j \in Indices : a \in ToSet(pools'[u][j])
          BY DEF AllPooled, Pooled
        <4>2. \A a : (\E u \in Thread, j \in Indices : a \in ToSet(pools'[u][j]))
                    <=> a # b /\ \E u \in Thread, j \in Indices : a \in ToSet(pools[u][j])
          BY <2>5
        <4>. QED
          BY <4>1, <4>2, AllPooledIn
      <3>4. b \in AllPooled
        BY <1>1, <2>3, AllPooledIn DEF s
      <3>5. allocated = instances \cup AllPooled
        BY DEF BlockInv, BlocksHaveOneOwner, AllPooled
      <3>6. allocated' = instances' \cup AllPooled'
        BY <1>4, <2>1, <3>3, <3>4, <3>5
      <3>. QED
        BY <3>1, <3>2, <3>6 DEF BlocksHaveOneOwner, AllPooled
    <2>11. PoolsAreClean'
      <3>1. \A u \in Thread, j \in Indices : \A a \in ToSet(pools'[u][j]) :
              a \in ToSet(pools[u][j]) /\ memory'[a] = memory[a]
        BY <1>3, <2>5, <2>8
      <3>. QED
        BY <3>1 DEF BlockInv, PoolsAreClean
    <2>12. \A u \in Thread \ {t} : pools'[u] = pools[u]
      BY <2>1 DEF BlockInv, BlocksOK
    <2>. QED
      BY <2>8, <2>9, <2>10, <2>11, <2>12 DEF BlockInv
  <1>7. CASE ~Reusable(t, c, extra)
    <2>. DEFINE m == [NoMemory EXCEPT !.size = allocationsize + extra,
                                      !.ivars = IF zeroed THEN "zero" ELSE "garbage",
                                      !.retaincount = IF zeroed THEN 0 ELSE -1]
    <2>1. /\ b \notin allocated /\ allocated' = allocated \cup {b} /\ UNCHANGED pools
          /\ memory' = [memory EXCEPT ![b] = New(m, t, c, extra, zeroed)]
      BY <1>7 DEF AllocInstance, New
    <2>2. m \in Memory
      <3>. DEFINE size == allocationsize + extra
                  v == IF zeroed THEN "zero" ELSE "garbage"
                  r == IF zeroed THEN 0 ELSE -1
      <3>1. size \in Nat /\ v \in {"zero", "garbage"} /\ r \in Int
        BY <1>1 DEF allocationsize
      <3>2. m = [NoMemory EXCEPT !.size = size, !.ivars = v, !.retaincount = r]
        OBVIOUS
      <3>. HIDE DEF m, size, v, r
      <3>. QED
        BY <3>1, <3>2, NoMemoryOK DEF Memory
    <2>3. m.size = allocationsize + extra
          /\ (zeroed => m.ivars = "zero" /\ m.retaincount = 0 /\ m.thread = NoThread)
      BY DEF NoMemory
    <2>. HIDE DEF m
    <2>4. m.size >= allocationsize + extra
      BY <1>1, <2>3 DEF allocationsize
    <2>5. allocated = instances \cup AllPooled
      BY DEF BlockInv, BlocksHaveOneOwner, AllPooled
    <2>6. b \notin instances /\ \A u \in Thread, j \in Indices : b \notin ToSet(pools[u][j])
      BY <2>1, <2>5, AllPooledIn
    <2>7. /\ memory' \in [Block -> Memory] /\ \A a \in Block \ {b} : memory'[a] = memory[a]
          /\ InstancesAreNew' /\ InstancesHaveRoom'
      BY <1>5, <2>1, <2>2, <2>3, <2>4, <2>6
    <2>8. BlocksOK'
      BY <1>4, <2>1, <2>7 DEF BlockInv, BlocksOK
    <2>9. BlocksHaveOneOwner'
      <3>1. AllPooled' = AllPooled
        BY <2>1 DEF AllPooled, Pooled
      <3>2. allocated' = instances' \cup AllPooled'
        BY <1>4, <2>1, <2>5, <3>1
      <3>3. \A u \in Thread, j \in Indices :
              IsInjective(pools[u][j]) /\ ToSet(pools[u][j]) \cap instances' = {}
        BY <1>4, <2>6 DEF BlockInv, BlocksHaveOneOwner
      <3>4. \A u, v \in Thread, j, k \in Indices :
              ToSet(pools[u][j]) \cap ToSet(pools[v][k]) # {} => u = v /\ j = k
        BY DEF BlockInv, BlocksHaveOneOwner
      <3>. QED
        BY <2>1, <3>2, <3>3, <3>4 DEF BlocksHaveOneOwner, AllPooled
    <2>10. PoolsAreClean'
      BY <1>3, <2>1, <2>6, <2>7 DEF BlockInv, PoolsAreClean
    <2>. QED
      BY <2>1, <2>7, <2>8, <2>9, <2>10 DEF BlockInv
  <1>. QED
    BY <1>6, <1>7

\* A thread gives its pools back.
LEMMA FreeBlocks ==
    ASSUME BlockInv, NEW t \in Thread, FreePools(t), UNCHANGED instances
    PROVE  BlockInv' /\ Pooled(t)' = {} /\ \A u \in Thread \ {t} : pools'[u] = pools[u]
  <1>1. /\ allocated' = allocated \ Pooled(t)
        /\ memory' = [b \in Block |-> IF b \in Pooled(t) THEN NoMemory ELSE memory[b]]
        /\ pools' = [pools EXCEPT ![t] = [i \in Indices |-> <<>>]]
    BY DEF FreePools
  <1>2. [i \in Indices |-> <<>>] \in [Indices -> Seq(Block)]
    OBVIOUS
  <1>3. pools' \in [Thread -> [Indices -> Seq(Block)]] /\ \A u \in Thread \ {t} : pools'[u] = pools[u]
    BY <1>1, <1>2 DEF BlockInv, BlocksOK
  <1>4. ToSet(<<>>) = {} /\ IsInjective(<<>>)
    <2>1. DOMAIN <<>> = {}
      OBVIOUS
    <2>. QED
      BY <2>1 DEF ToSet, IsInjective
  <1>5. \A i \in Indices : pools'[t][i] = <<>>
    BY <1>1 DEF BlockInv, BlocksOK
  <1>6. \A u \in Thread, i \in Indices :
          /\ IsInjective(pools'[u][i])
          /\ ToSet(pools'[u][i]) = IF u = t THEN {} ELSE ToSet(pools[u][i])
    BY <1>3, <1>4, <1>5 DEF BlockInv, BlocksHaveOneOwner
  <1>7. Pooled(t)' = {}
    BY <1>6 DEF Pooled
  <1>8. BlocksOK'
    <2>1. memory' \in [Block -> Memory]
      BY <1>1, NoMemoryOK DEF BlockInv, BlocksOK
    <2>. QED
      BY <1>1, <1>3, <2>1 DEF BlockInv, BlocksOK
  <1>9. \A b \in instances : b \notin Pooled(t) /\ b \in Block
    BY PooledIn DEF BlockInv, BlocksHaveOneOwner, BlocksOK
  <1>10. \A u \in Thread \ {t}, i \in Indices : \A b \in ToSet(pools[u][i]) : b \notin Pooled(t) /\ b \in Block
    <2>1. \A u \in Thread \ {t}, i \in Indices : \A b \in ToSet(pools[u][i]) : b \notin Pooled(t)
      BY PooledIn DEF BlockInv, BlocksHaveOneOwner
    <2>2. \A u \in Thread \ {t}, i \in Indices : \A b \in ToSet(pools[u][i]) : b \in Block
      BY DEF BlockInv, BlocksOK, ToSet
    <2>. QED
      BY <2>1, <2>2
  <1>11. BlocksHaveOneOwner'
    <2>1. \A u \in Thread, i \in Indices :
            IsInjective(pools'[u][i]) /\ ToSet(pools'[u][i]) \cap instances' = {}
      BY <1>6 DEF BlockInv, BlocksHaveOneOwner
    <2>2. \A u, v \in Thread, i, j \in Indices :
            ToSet(pools'[u][i]) \cap ToSet(pools'[v][j]) # {} => u = v /\ i = j
      BY <1>6 DEF BlockInv, BlocksHaveOneOwner
    <2>3. AllPooled' = AllPooled \ Pooled(t)
      <3>1. \A a : a \in AllPooled' <=> \E u \in Thread, j \in Indices : a \in ToSet(pools'[u][j])
        BY DEF AllPooled, Pooled
      <3>2. \A a : a \in AllPooled' => a \in AllPooled \ Pooled(t)
        BY <1>6, <1>10, <3>1, AllPooledIn
      <3>3. \A a : a \in AllPooled \ Pooled(t) => a \in AllPooled'
        BY <1>6, <3>1, AllPooledIn, PooledIn
      <3>. QED
        BY <3>2, <3>3
    <2>4. allocated = instances \cup AllPooled
      BY DEF BlockInv, BlocksHaveOneOwner, AllPooled
    <2>5. allocated' = instances' \cup AllPooled'
      BY <1>1, <1>9, <2>3, <2>4
    <2>. QED
      BY <2>1, <2>2, <2>5 DEF BlocksHaveOneOwner, AllPooled
  <1>12. \A b \in instances : memory'[b] = memory[b]
    BY <1>1, <1>9
  <1>13. InstancesAreNew' /\ InstancesHaveRoom'
    BY <1>12 DEF BlockInv, InstancesAreNew, InstancesHaveRoom
  <1>14. PoolsAreClean'
    <2>1. \A u \in Thread, i \in Indices : \A b \in ToSet(pools'[u][i]) :
            u # t /\ b \in ToSet(pools[u][i]) /\ memory'[b] = memory[b]
      BY <1>1, <1>6, <1>10
    <2>. QED
      BY <2>1 DEF BlockInv, PoolsAreClean
  <1>. QED
    BY <1>3, <1>7, <1>8, <1>11, <1>13, <1>14 DEF BlockInv

----------------------------------------------------------------------------
(* Threads and their handlers *)

\* The blocks stay as they are.
LEMMA BlocksKept ==
    ASSUME BlockInv, UNCHANGED <<memory, instances, allocated, pools>>
    PROVE  BlockInv'
  <1>1. UNCHANGED AllPooled
    BY DEF AllPooled, Pooled
  <1>2. allocated' = instances' \cup AllPooled'
    BY <1>1 DEF BlockInv, BlocksHaveOneOwner, AllPooled
  <1>3. BlocksHaveOneOwner'
    BY <1>2 DEF BlockInv, BlocksHaveOneOwner, AllPooled
  <1>. QED
    BY <1>3 DEF BlockInv, BlocksOK, InstancesAreNew, PoolsAreClean, InstancesHaveRoom

\* Instances may become more, and what was autoreleased stays as it was.
LEMMA AutoreleasedKept ==
    ASSUME AutoreleasedOnce, UNCHANGED autoreleased, instances \subseteq instances'
    PROVE  AutoreleasedOnce'
  BY DEF AutoreleasedOnce

\* A thread that has ended is left alone.
LEMMA LifeKept ==
    ASSUME LifeInv, NEW t \in Thread, life[t] # "gone", UNCHANGED life,
           \A u \in Thread \ {t} : autoreleased'[u] = autoreleased[u] /\ pools'[u] = pools[u]
    PROVE  LifeInv'
  <1>1. \A u \in Thread : life[u] = "gone" => autoreleased'[u] = {} /\ Pooled(u)' = {}
    <2>. SUFFICES ASSUME NEW u \in Thread, life[u] = "gone"
                  PROVE  autoreleased'[u] = {} /\ Pooled(u)' = {}
      OBVIOUS
    <2>1. u # t /\ autoreleased[u] = {} /\ Pooled(u) = {}
      BY DEF LifeInv, NothingLeftBehind
    <2>2. Pooled(u)' = Pooled(u)
      BY <2>1 DEF Pooled
    <2>. QED
      BY <2>1, <2>2
  <1>. QED
    BY <1>1 DEF LifeInv, NothingLeftBehind

\* Handlers and frames stay as they are.
LEMMA HandlersKept == ASSUME HandlerInv, UNCHANGED <<frames, top>> PROVE HandlerInv'
  BY DEF HandlerInv, HandlersAreLive

\* A thread gets its threadinfo.
LEMMA SetupStep ==
    ASSUME IInv, NEW t \in Thread, Setup(t)
    PROVE  IInv'
  <1>1. life[t] = "none" /\ life' = [life EXCEPT ![t] = "running"]
        /\ UNCHANGED <<memory, instances, autoreleased, allocated, pools, frames, top>>
    BY DEF Setup, handlers
  <1>2. BlockInv'
    BY <1>1, BlocksKept DEF IInv
  <1>3. AutoreleasedOnce'
    BY <1>1, AutoreleasedKept DEF IInv
  <1>4. LifeInv'
    <2>1. \A u \in Thread : Pooled(u)' = Pooled(u)
      BY <1>1 DEF Pooled
    <2>2. life' \in [Thread -> {"none", "running", "unset", "gone"}] /\ life'[t] = "running"
          /\ \A u \in Thread \ {t} : life'[u] = life[u]
      BY <1>1 DEF IInv, LifeInv
    <2>. QED
      BY <1>1, <2>1, <2>2 DEF IInv, LifeInv, NothingLeftBehind
  <1>. QED
    BY <1>1, <1>2, <1>3, <1>4, HandlersKept DEF IInv

\* A thread makes an instance.
LEMMA AllocStep ==
    ASSUME IInv, NEW t \in Thread, NEW c \in Class, NEW extra \in Extra, NEW zeroed \in BOOLEAN,
           NEW b \in Block, AllocInstance(t, c, extra, zeroed, b)
    PROVE  IInv'
  <1>1. life[t] = "running" /\ instances' = instances \cup {b}
        /\ UNCHANGED <<autoreleased, life, frames, top>>
    BY DEF AllocInstance, Runs, handlers
  <1>2. BlockInv' /\ \A u \in Thread \ {t} : pools'[u] = pools[u]
    BY AllocBlock DEF IInv
  <1>3. AutoreleasedOnce'
    BY <1>1, AutoreleasedKept DEF IInv
  <1>4. LifeInv'
    BY <1>1, <1>2, LifeKept DEF IInv
  <1>. QED
    BY <1>1, <1>2, <1>3, <1>4, HandlersKept DEF IInv

\* What the client may do with an instance
LEMMA OldOK ==
    ASSUME NEW m \in Memory
    PROVE  /\ Old(m) \in Memory /\ Old(m).size = m.size /\ Old(m).isa = m.isa /\ Old(m).fresh = FALSE
  <1>1. Old(m) \in Memory
    BY NoMemoryOK DEF Old, Memory
  <1>. QED
    BY <1>1 DEF Old, NoMemory

\* A thread uses an instance.
LEMMA UseStep ==
    ASSUME IInv, NEW t \in Thread, NEW b \in Block, Use(t, b)
    PROVE  IInv'
  <1>. DEFINE m == [Old(memory[b]) EXCEPT !.ivars = "used", !.retaincount = -1]
  <1>1. life[t] = "running" /\ b \in instances /\ memory' = [memory EXCEPT ![b] = m]
        /\ UNCHANGED <<instances, autoreleased, allocated, pools, life, frames, top>>
    BY DEF Use, MayUse, Runs, handlers
  <1>2. m \in Memory /\ m.size = memory[b].size /\ m.isa = memory[b].isa /\ m.fresh = FALSE
    <2>1. memory[b] \in Memory
      BY DEF IInv, BlockInv, BlocksOK
    <2>2. /\ Old(memory[b]) \in Memory /\ Old(memory[b]).size = memory[b].size
          /\ Old(memory[b]).isa = memory[b].isa /\ Old(memory[b]).fresh = FALSE
      BY <2>1, OldOK
    <2>3. m \in Memory
      <3>1. ASSUME NEW r \in Int
            PROVE  [Old(memory[b]) EXCEPT !.ivars = "used", !.retaincount = r] \in Memory
        BY <2>2 DEF Memory
      <3>2. -1 \in Int
        OBVIOUS
      <3>. QED
        BY <3>1, <3>2
    <2>. QED
      BY <2>2, <2>3 DEF Memory
  <1>. HIDE DEF m
  <1>3. BlockInv'
    BY <1>1, <1>2, TouchBlock DEF IInv
  <1>4. AutoreleasedOnce' /\ LifeInv'
    BY <1>1, AutoreleasedKept, LifeKept DEF IInv
  <1>. QED
    BY <1>1, <1>3, <1>4, HandlersKept DEF IInv

\* A thread gives an instance to another one.
LEMMA SetThreadStep ==
    ASSUME IInv, NEW t \in Thread, NEW b \in Block, NEW u \in Thread, SetThread(t, b, u)
    PROVE  IInv'
  <1>. DEFINE m == [Old(memory[b]) EXCEPT !.thread = u]
  <1>1. life[t] = "running" /\ b \in instances /\ memory' = [memory EXCEPT ![b] = m]
        /\ UNCHANGED <<instances, autoreleased, allocated, pools, life, frames, top>>
    BY DEF SetThread, MayUse, Runs, handlers
  <1>2. m \in Memory /\ m.size = memory[b].size /\ m.isa = memory[b].isa /\ m.fresh = FALSE
    <2>1. memory[b] \in Memory
      BY DEF IInv, BlockInv, BlocksOK
    <2>2. /\ Old(memory[b]) \in Memory /\ Old(memory[b]).size = memory[b].size
          /\ Old(memory[b]).isa = memory[b].isa /\ Old(memory[b]).fresh = FALSE
      BY <2>1, OldOK
    <2>. QED
      BY <2>2 DEF Memory
  <1>. HIDE DEF m
  <1>3. BlockInv'
    BY <1>1, <1>2, TouchBlock DEF IInv
  <1>4. AutoreleasedOnce' /\ LifeInv'
    BY <1>1, AutoreleasedKept, LifeKept DEF IInv
  <1>. QED
    BY <1>1, <1>3, <1>4, HandlersKept DEF IInv

\* A thread leaves an instance to its autorelease pool.
LEMMA AutoreleaseStep ==
    ASSUME IInv, NEW t \in Thread, NEW b \in Block, Autorelease(t, b)
    PROVE  IInv'
  <1>1. /\ life[t] = "running" /\ b \in instances /\ \A u \in Thread : b \notin autoreleased[u]
        /\ autoreleased' = [autoreleased EXCEPT ![t] = autoreleased[t] \cup {b}]
        /\ UNCHANGED <<memory, instances, allocated, pools, life, frames, top>>
    BY DEF Autorelease, MayUse, Runs, handlers
  <1>2. BlockInv'
    BY <1>1, BlocksKept DEF IInv
  <1>3. \A u \in Thread : autoreleased'[u] = IF u = t THEN autoreleased[u] \cup {b} ELSE autoreleased[u]
    BY <1>1 DEF IInv, AutoreleasedOnce
  <1>4. AutoreleasedOnce'
    <2>1. autoreleased' \in [Thread -> SUBSET instances']
      BY <1>1 DEF IInv, AutoreleasedOnce
    <2>2. \A u, v \in Thread : autoreleased'[u] \cap autoreleased'[v] # {} => u = v
      BY <1>1, <1>3 DEF IInv, AutoreleasedOnce
    <2>. QED
      BY <2>1, <2>2 DEF AutoreleasedOnce
  <1>5. LifeInv'
    BY <1>1, <1>3, LifeKept DEF IInv
  <1>. QED
    BY <1>1, <1>2, <1>4, <1>5, HandlersKept DEF IInv

\* A thread frees an instance.
LEMMA FreeInstanceStep ==
    ASSUME IInv, NEW t \in Thread, NEW b \in Block, FreeInstance(t, b)
    PROVE  IInv'
  <1>1. /\ life[t] = "running" /\ b \in instances /\ \A u \in Thread : b \notin autoreleased[u]
        /\ Keep(t, b) /\ instances' = instances \ {b}
        /\ UNCHANGED <<autoreleased, life, frames, top>>
    BY DEF FreeInstance, MayUse, Runs, handlers
  <1>2. BlockInv' /\ \A u \in Thread \ {t} : pools'[u] = pools[u]
    BY <1>1, KeepBlock DEF IInv
  <1>3. AutoreleasedOnce'
    BY <1>1 DEF IInv, AutoreleasedOnce
  <1>4. LifeInv'
    BY <1>1, <1>2, LifeKept DEF IInv
  <1>. QED
    BY <1>1, <1>2, <1>3, <1>4, HandlersKept DEF IInv

\* A thread that ends drains its autorelease pool.
LEMMA UnsetDrainStep ==
    ASSUME IInv, NEW t \in Thread, UnsetDrain(t)
    PROVE  IInv'
  <1>1. /\ life[t] \in {"running", "unset"} /\ life' = [life EXCEPT ![t] = "unset"]
        /\ UNCHANGED <<frames, top>>
    BY DEF UnsetDrain, handlers
  <1>2. PICK b \in autoreleased[t] :
          /\ Keep(t, b) /\ instances' = instances \ {b}
          /\ autoreleased' = [autoreleased EXCEPT ![t] = autoreleased[t] \ {b}]
    BY DEF UnsetDrain
  <1>3. b \in instances /\ \A u \in Thread \ {t} : b \notin autoreleased[u]
    BY DEF IInv, AutoreleasedOnce
  <1>4. BlockInv' /\ \A u \in Thread \ {t} : pools'[u] = pools[u]
    BY <1>2, <1>3, KeepBlock DEF IInv
  <1>5. \A u \in Thread : autoreleased'[u] = autoreleased[u] \ {b}
    BY <1>2, <1>3 DEF IInv, AutoreleasedOnce
  <1>6. AutoreleasedOnce'
    <2>1. \A u \in Thread : autoreleased[u] \subseteq instances
      BY DEF IInv, AutoreleasedOnce
    <2>2. \A u \in Thread : autoreleased'[u] \in SUBSET instances'
      BY <1>2, <1>5, <2>1
    <2>3. autoreleased' \in [Thread -> SUBSET instances']
      BY <1>2, <2>2 DEF IInv, AutoreleasedOnce
    <2>4. \A u, v \in Thread : autoreleased'[u] \cap autoreleased'[v] # {} => u = v
      BY <1>5 DEF IInv, AutoreleasedOnce
    <2>. QED
      BY <2>3, <2>4 DEF AutoreleasedOnce
  <1>7. LifeInv'
    <2>1. life' \in [Thread -> {"none", "running", "unset", "gone"}] /\ life'[t] = "unset"
          /\ \A u \in Thread \ {t} : life'[u] = life[u]
      BY <1>1 DEF IInv, LifeInv
    <2>. SUFFICES ASSUME NEW u \in Thread, life'[u] = "gone"
                  PROVE  autoreleased'[u] = {} /\ Pooled(u)' = {}
      BY <2>1 DEF LifeInv, NothingLeftBehind
    <2>2. u # t /\ autoreleased[u] = {} /\ Pooled(u) = {}
      BY <2>1 DEF IInv, LifeInv, NothingLeftBehind
    <2>3. Pooled(u)' = Pooled(u)
      BY <1>4, <2>2 DEF Pooled
    <2>. QED
      BY <1>5, <2>2, <2>3
  <1>. QED
    BY <1>1, <1>4, <1>6, <1>7, HandlersKept DEF IInv

\* A thread ends.
LEMMA UnsetThreadinfoStep ==
    ASSUME IInv, NEW t \in Thread, UnsetThreadinfo(t)
    PROVE  IInv'
  <1>1. /\ autoreleased[t] = {} /\ FreePools(t) /\ life' = [life EXCEPT ![t] = "gone"]
        /\ UNCHANGED <<instances, autoreleased, frames, top>>
    BY DEF UnsetThreadinfo, handlers
  <1>2. BlockInv' /\ Pooled(t)' = {} /\ \A u \in Thread \ {t} : pools'[u] = pools[u]
    BY <1>1, FreeBlocks DEF IInv
  <1>3. AutoreleasedOnce'
    BY <1>1, AutoreleasedKept DEF IInv
  <1>4. LifeInv'
    <2>1. life' \in [Thread -> {"none", "running", "unset", "gone"}] /\ life'[t] = "gone"
          /\ \A u \in Thread \ {t} : life'[u] = life[u]
      BY <1>1 DEF IInv, LifeInv
    <2>. SUFFICES ASSUME NEW u \in Thread, life'[u] = "gone"
                  PROVE  autoreleased'[u] = {} /\ Pooled(u)' = {}
      BY <2>1 DEF LifeInv, NothingLeftBehind
    <2>2. CASE u = t
      BY <1>1, <1>2, <2>2
    <2>3. CASE u # t
      <3>1. autoreleased[u] = {} /\ Pooled(u) = {}
        BY <2>1, <2>3 DEF IInv, LifeInv, NothingLeftBehind
      <3>2. Pooled(u)' = Pooled(u)
        BY <1>2, <2>3 DEF Pooled
      <3>. QED
        BY <1>1, <3>1, <3>2
    <2>. QED
      BY <2>2, <2>3
  <1>. QED
    BY <1>1, <1>2, <1>3, <1>4, HandlersKept DEF IInv

\* Frames that agree up to n have the same handler there.
LEMMA SameHandler ==
    ASSUME NEW fs, NEW gs, NEW n \in Nat, NEW m \in Nat, IsHandler(fs, n, m),
           \A k \in 1..(n - 1) : gs[k].part = fs[k].part
    PROVE  IsHandler(gs, n, m)
  <1>1. m \in 0..(n - 1) /\ (m # 0 => m \in 1..(n - 1))
    BY DEF IsHandler
  <1>2. \A k \in (m + 1)..(n - 1) : k \in 1..(n - 1)
    OBVIOUS
  <1>. QED
    BY <1>1, <1>2 DEF IsHandler

\* The frames of one thread change, and its handlers are again those of its @try parts.
LEMMA FramesChange ==
    ASSUME HandlerInv, NEW t \in Thread, NEW fs \in Seq(Frame), NEW m \in Nat,
           frames' = [frames EXCEPT ![t] = fs], top' = [top EXCEPT ![t] = m],
           IsHandler(fs, Len(fs) + 1, m),
           \A n \in DOMAIN fs : fs[n].part = "try" => IsHandler(fs, n, fs[n].previous)
    PROVE  HandlerInv'
  <1>1. frames' \in [Thread -> Seq(Frame)] /\ top' \in [Thread -> Nat] /\ frames'[t] = fs /\ top'[t] = m
        /\ \A u \in Thread \ {t} : frames'[u] = frames[u] /\ top'[u] = top[u]
    BY DEF HandlerInv
  <1>2. ASSUME NEW u \in Thread
        PROVE  /\ IsHandler(frames'[u], Len(frames'[u]) + 1, top'[u])
               /\ \A n \in DOMAIN frames'[u] :
                     frames'[u][n].part = "try" => IsHandler(frames'[u], n, frames'[u][n].previous)
    <2>1. CASE u = t
      BY <1>1, <2>1
    <2>2. CASE u # t
      BY <1>1, <2>2 DEF HandlerInv, HandlersAreLive
    <2>. QED
      BY <2>1, <2>2
  <1>. QED
    BY <1>1, <1>2 DEF HandlerInv, HandlersAreLive

\* What else there is stays as it is while a thread enters, leaves or throws.
LEMMA RunningKept == ASSUME IInv, Running PROVE BlockInv' /\ AutoreleasedOnce' /\ LifeInv'
  <1>1. UNCHANGED <<memory, instances, autoreleased, allocated, pools, life>>
    BY DEF Running
  <1>2. \A u \in Thread : Pooled(u)' = Pooled(u)
    BY <1>1 DEF Pooled
  <1>3. LifeInv'
    BY <1>1, <1>2 DEF IInv, LifeInv, NothingLeftBehind
  <1>. QED
    BY <1>1, <1>3, BlocksKept, AutoreleasedKept DEF IInv

\* Leaving the innermost frame
LEMMA FrontFrames ==
    ASSUME NEW fs \in Seq(Frame), fs # <<>>,
           \A n \in DOMAIN fs : fs[n].part = "try" => IsHandler(fs, n, fs[n].previous)
    PROVE  /\ Front(fs) \in Seq(Frame) /\ Len(Front(fs)) = Len(fs) - 1 /\ Len(fs) \in Nat \ {0}
           /\ \A k \in 1..(Len(fs) - 1) : Front(fs)[k] = fs[k]
           /\ \A n \in DOMAIN Front(fs) :
                 Front(fs)[n].part = "try" => IsHandler(Front(fs), n, Front(fs)[n].previous)
  <1>. DEFINE gs == SubSeq(fs, 1, Len(fs) - 1)
  <1>1. Len(fs) \in Nat \ {0} /\ DOMAIN fs = 1..Len(fs)
    OBVIOUS
  <1>2. gs \in Seq(Frame) /\ Len(gs) = Len(fs) - 1 /\ \A k \in 1..(Len(fs) - 1) : gs[k] = fs[k]
    BY <1>1
  <1>3. Front(fs) = gs /\ DOMAIN gs = 1..(Len(fs) - 1)
    BY <1>2 DEF Front
  <1>. HIDE DEF gs
  <1>4. ASSUME NEW n \in DOMAIN gs, gs[n].part = "try" PROVE IsHandler(gs, n, gs[n].previous)
    <2>1. n \in DOMAIN fs /\ n \in Nat /\ gs[n] = fs[n]
      BY <1>1, <1>2, <1>3
    <2>2. IsHandler(fs, n, fs[n].previous)
      BY <1>4, <2>1
    <2>3. fs[n].previous \in Nat
      BY <2>1, <2>2 DEF IsHandler
    <2>4. \A k \in 1..(n - 1) : gs[k].part = fs[k].part
      BY <1>1, <1>2, <1>3
    <2>. QED
      BY <2>1, <2>2, <2>3, <2>4, SameHandler
  <1>. QED
    BY <1>1, <1>2, <1>3, <1>4

\* A thread enters a @try part.
LEMMA TryEnterStep ==
    ASSUME IInv, NEW t \in Thread, TryEnter(t)
    PROVE  IInv'
  <1>. DEFINE fs == frames[t]
              f == [part |-> "try", previous |-> top[t], exception |-> ""]
              gs == Append(fs, f)
  <1>1. frames' = [frames EXCEPT ![t] = gs] /\ top' = [top EXCEPT ![t] = Len(fs) + 1] /\ Running
    BY DEF TryEnter
  <1>2. fs \in Seq(Frame) /\ top[t] \in Nat /\ f \in Frame
    BY DEF IInv, HandlerInv, Frame
  <1>3. IsHandler(fs, Len(fs) + 1, top[t])
        /\ \A n \in DOMAIN fs : fs[n].part = "try" => IsHandler(fs, n, fs[n].previous)
    BY DEF IInv, HandlerInv, HandlersAreLive
  <1>4. f.part = "try" /\ f.previous = top[t]
    OBVIOUS
  <1>. HIDE DEF f, fs
  <1>5. /\ gs \in Seq(Frame) /\ Len(fs) \in Nat /\ Len(gs) = Len(fs) + 1 /\ DOMAIN gs = 1..(Len(fs) + 1)
        /\ gs[Len(fs) + 1] = f /\ \A k \in 1..Len(fs) : gs[k] = fs[k]
    BY <1>2
  <1>6. DOMAIN fs = 1..Len(fs)
    BY <1>2
  <1>. HIDE DEF gs
  <1>7. IsHandler(gs, Len(gs) + 1, Len(fs) + 1)
    BY <1>4, <1>5 DEF IsHandler
  <1>8. ASSUME NEW n \in DOMAIN gs, gs[n].part = "try" PROVE IsHandler(gs, n, gs[n].previous)
    <2>1. n \in Nat /\ \A k \in 1..(n - 1) : gs[k].part = fs[k].part
      BY <1>5
    <2>2. CASE n = Len(fs) + 1
      BY <1>2, <1>3, <1>4, <1>5, <2>1, <2>2, SameHandler
    <2>3. CASE n # Len(fs) + 1
      <3>1. n \in DOMAIN fs /\ gs[n] = fs[n]
        BY <1>5, <1>6, <2>3
      <3>2. IsHandler(fs, n, fs[n].previous)
        BY <1>3, <1>8, <3>1
      <3>3. fs[n].previous \in Nat
        BY <2>1, <3>2 DEF IsHandler
      <3>. QED
        BY <2>1, <3>1, <3>2, <3>3, SameHandler
    <2>. QED
      BY <2>2, <2>3
  <1>9. HandlerInv'
    <2>1. Len(fs) + 1 \in Nat /\ HandlerInv
      BY <1>5 DEF IInv
    <2>. QED
      BY <1>1, <1>5, <1>7, <1>8, <2>1, FramesChange
  <1>. QED
    BY <1>1, <1>9, RunningKept DEF IInv

\* A thread leaves a @try part.
LEMMA TryExitStep ==
    ASSUME IInv, NEW t \in Thread, TryExit(t)
    PROVE  IInv'
  <1>. DEFINE fs == frames[t]
              m == fs[Len(fs)].previous
  <1>1. fs # <<>> /\ fs[Len(fs)].part = "try" /\ top' = [top EXCEPT ![t] = m]
        /\ frames' = [frames EXCEPT ![t] = Front(fs)] /\ Running
    BY DEF TryExit, Last
  <1>2. fs \in Seq(Frame) /\ \A n \in DOMAIN fs : fs[n].part = "try" => IsHandler(fs, n, fs[n].previous)
    BY DEF IInv, HandlerInv, HandlersAreLive
  <1>. HIDE DEF fs
  <1>3. /\ Front(fs) \in Seq(Frame) /\ Len(Front(fs)) = Len(fs) - 1 /\ Len(fs) \in Nat \ {0}
        /\ \A k \in 1..(Len(fs) - 1) : Front(fs)[k] = fs[k]
        /\ \A n \in DOMAIN Front(fs) :
              Front(fs)[n].part = "try" => IsHandler(Front(fs), n, Front(fs)[n].previous)
    BY <1>1, <1>2, FrontFrames
  <1>4. IsHandler(fs, Len(fs), m)
    <2>1. Len(fs) \in DOMAIN fs
      BY <1>2, <1>3
    <2>. QED
      BY <1>1, <1>2, <2>1
  <1>5. m \in Nat
    BY <1>3, <1>4 DEF IsHandler
  <1>. HIDE DEF m
  <1>6. IsHandler(Front(fs), Len(fs), m)
    BY <1>3, <1>4, <1>5, SameHandler
  <1>7. Len(Front(fs)) + 1 = Len(fs)
    BY <1>3
  <1>8. HandlerInv'
    BY <1>1, <1>3, <1>5, <1>6, <1>7, FramesChange DEF IInv
  <1>. QED
    BY <1>1, <1>8, RunningKept DEF IInv

\* The innermost @try part becomes a @catch part, and the frames above it are gone.
LEMMA LandedFrames ==
    ASSUME NEW fs \in Seq(Frame), NEW n \in Nat \ {0}, NEW f \in Frame, f.part = "catch",
           IsHandler(fs, Len(fs) + 1, n),
           \A k \in DOMAIN fs : fs[k].part = "try" => IsHandler(fs, k, fs[k].previous),
           NEW gs, gs = Append(SubSeq(fs, 1, n - 1), f)
    PROVE  /\ gs \in Seq(Frame) /\ fs[n].previous \in Nat
           /\ IsHandler(gs, Len(gs) + 1, fs[n].previous)
           /\ \A k \in DOMAIN gs : gs[k].part = "try" => IsHandler(gs, k, gs[k].previous)
  <1>. DEFINE hs == SubSeq(fs, 1, n - 1)
              m == fs[n].previous
  <1>1. Len(fs) \in Nat /\ DOMAIN fs = 1..Len(fs)
    OBVIOUS
  <1>2. n \in 1..Len(fs) /\ fs[n].part = "try"
    BY <1>1 DEF IsHandler
  <1>5. IsHandler(fs, n, m)
    BY <1>1, <1>2
  <1>6. m \in 0..(n - 1) /\ (m # 0 => fs[m].part = "try")
        /\ \A k \in (m + 1)..(n - 1) : fs[k].part # "try"
    BY <1>5 DEF IsHandler
  <1>7. hs \in Seq(Frame) /\ Len(hs) = n - 1 /\ \A k \in 1..(n - 1) : hs[k] = fs[k]
    BY <1>1, <1>2
  <1>8. gs = Append(hs, f)
    OBVIOUS
  <1>. HIDE DEF hs, m
  <1>9. /\ gs \in Seq(Frame) /\ Len(gs) = n /\ DOMAIN gs = 1..n /\ gs[n] = f
        /\ \A k \in 1..(n - 1) : gs[k] = fs[k]
    BY <1>7, <1>8
  <1>10. IsHandler(gs, Len(gs) + 1, m)
    <2>1. m \in 0..n /\ (m # 0 => gs[m].part = "try")
      BY <1>6, <1>9
    <2>2. ASSUME NEW k \in (m + 1)..n PROVE gs[k].part # "try"
      <3>1. CASE k = n
        BY <1>9, <3>1
      <3>2. CASE k # n
        <4>1. k \in (m + 1)..(n - 1) /\ k \in 1..(n - 1)
          BY <1>6, <3>2
        <4>. QED
          BY <1>6, <1>9, <4>1
      <3>. QED
        BY <3>1, <3>2
    <2>3. (Len(gs) + 1) - 1 = n
      BY <1>9
    <2>. QED
      BY <2>1, <2>2, <2>3 DEF IsHandler
  <1>11. ASSUME NEW k \in DOMAIN gs, gs[k].part = "try" PROVE IsHandler(gs, k, gs[k].previous)
    <2>1. k # n
      BY <1>9, <1>11
    <2>2. k \in 1..(n - 1) /\ gs[k] = fs[k] /\ k \in DOMAIN fs /\ k \in Nat
      BY <1>1, <1>2, <1>9, <2>1
    <2>3. IsHandler(fs, k, fs[k].previous)
      BY <1>11, <2>2
    <2>4. fs[k].previous \in Nat
      BY <2>2, <2>3 DEF IsHandler
    <2>5. \A j \in 1..(k - 1) : gs[j].part = fs[j].part
      BY <1>9, <2>2
    <2>6. k \in Nat
      BY <2>2
    <2>7. IsHandler(gs, k, fs[k].previous)
      BY ONLY <2>3, <2>4, <2>5, <2>6, SameHandler
    <2>. QED
      BY <2>2, <2>7
  <1>. QED
    BY <1>6, <1>9, <1>10, <1>11 DEF m

\* A handler is a frame.
LEMMA HandlerFrame ==
    ASSUME NEW fs \in Seq(Frame), NEW n \in Nat \ {0}, IsHandler(fs, Len(fs) + 1, n)
    PROVE  fs[n] \in Frame
  <1>1. Len(fs) \in Nat /\ DOMAIN fs = 1..Len(fs)
    OBVIOUS
  <1>2. n \in 1..Len(fs)
    BY <1>1 DEF IsHandler
  <1>. QED
    BY <1>1, <1>2

\* An exception lands in the innermost @try part, whose handler is then the next one out.
LEMMA LandHandlers ==
    ASSUME HandlerInv, NEW t \in Thread, NEW e \in DOMAIN Super \cup {""}, Land(t, e)
    PROVE  HandlerInv'
  <1>1. CASE top[t] = 0
    BY <1>1, HandlersKept DEF Land
  <1>2. CASE top[t] # 0
    <2>. DEFINE f == [frames[t][top[t]] EXCEPT !.part = "catch", !.exception = e]
                gs == Append(SubSeq(frames[t], 1, top[t] - 1), f)
    <2>1. /\ frames' = [frames EXCEPT ![t] = gs]
          /\ top' = [top EXCEPT ![t] = frames[t][top[t]].previous]
      BY <1>2 DEF Land
    <2>2. frames[t] \in Seq(Frame) /\ top[t] \in Nat \ {0} /\ IsHandler(frames[t], Len(frames[t]) + 1, top[t])
          /\ \A k \in DOMAIN frames[t] :
                frames[t][k].part = "try" => IsHandler(frames[t], k, frames[t][k].previous)
      BY <1>2 DEF HandlerInv, HandlersAreLive
    <2>3. frames[t][top[t]] \in Frame
      BY <2>2, HandlerFrame
    <2>4. f \in Frame /\ f.part = "catch"
      BY <2>3 DEF Frame
    <2>. HIDE DEF f
    <2>5. /\ gs \in Seq(Frame) /\ frames[t][top[t]].previous \in Nat
          /\ IsHandler(gs, Len(gs) + 1, frames[t][top[t]].previous)
          /\ \A k \in DOMAIN gs : gs[k].part = "try" => IsHandler(gs, k, gs[k].previous)
      BY <2>2, <2>4, LandedFrames
    <2>. HIDE DEF gs
    <2>. QED
      BY <2>1, <2>5, FramesChange
  <1>. QED
    BY <1>1, <1>2

\* A thread throws.
LEMMA ThrowStep ==
    ASSUME IInv, NEW t \in Thread, NEW e \in DOMAIN Super, Throw(t, e)
    PROVE  IInv'
  <1>1. Land(t, e) /\ Running
    BY DEF Throw
  <1>. QED
    BY <1>1, LandHandlers, RunningKept DEF IInv

\* A @catch part handles the exception, or throws it further out.
LEMMA CatchStep ==
    ASSUME IInv, NEW t \in Thread, NEW class \in DOMAIN Super, Catch(t, class)
    PROVE  IInv'
  <1>. DEFINE fs == frames[t]
  <1>1. fs # <<>> /\ fs[Len(fs)].part = "catch" /\ Running
    BY DEF Catch, Last
  <1>2. fs \in Seq(Frame) /\ top[t] \in Nat /\ IsHandler(fs, Len(fs) + 1, top[t])
        /\ \A n \in DOMAIN fs : fs[n].part = "try" => IsHandler(fs, n, fs[n].previous)
    BY DEF IInv, HandlerInv, HandlersAreLive
  <1>3. Len(fs) \in Nat \ {0} /\ fs[Len(fs)] \in Frame
    BY <1>1, <1>2
  <1>4. CASE match_exception(class, fs[Len(fs)].exception)
    <2>1. frames' = [frames EXCEPT ![t] = Front(fs)] /\ UNCHANGED top
      BY <1>4 DEF Catch, Last
    <2>2. top' = [top EXCEPT ![t] = top[t]]
      BY <2>1 DEF IInv, HandlerInv
    <2>. HIDE DEF fs
    <2>3. /\ Front(fs) \in Seq(Frame) /\ Len(Front(fs)) = Len(fs) - 1
          /\ \A k \in 1..(Len(fs) - 1) : Front(fs)[k] = fs[k]
          /\ \A n \in DOMAIN Front(fs) :
                Front(fs)[n].part = "try" => IsHandler(Front(fs), n, Front(fs)[n].previous)
      BY <1>1, <1>2, FrontFrames
    <2>4. IsHandler(fs, Len(fs), top[t])
      <3>1. top[t] \in 0..Len(fs) /\ (top[t] # 0 => fs[top[t]].part = "try")
            /\ \A k \in (top[t] + 1)..Len(fs) : fs[k].part # "try"
        BY <1>2, <1>3 DEF IsHandler
      <3>2. top[t] # Len(fs)
        BY <1>1, <1>3, <3>1
      <3>. QED
        BY <1>2, <1>3, <3>1, <3>2 DEF IsHandler
    <2>5. IsHandler(Front(fs), Len(fs), top[t])
      BY <1>2, <1>3, <2>3, <2>4, SameHandler
    <2>6. Len(Front(fs)) + 1 = Len(fs)
      BY <1>3, <2>3
    <2>7. HandlerInv'
      BY <1>2, <2>1, <2>2, <2>3, <2>5, <2>6, FramesChange DEF IInv
    <2>. QED
      BY <1>1, <2>7, RunningKept DEF IInv
  <1>5. CASE ~match_exception(class, fs[Len(fs)].exception)
    <2>1. Land(t, fs[Len(fs)].exception)
      BY <1>5 DEF Catch, Last
    <2>2. fs[Len(fs)].exception \in DOMAIN Super \cup {""}
      BY <1>3 DEF Frame
    <2>. QED
      BY <1>1, <2>1, <2>2, LandHandlers, RunningKept DEF IInv
  <1>. QED
    BY <1>4, <1>5

----------------------------------------------------------------------------
(* The theorems *)

\* Nothing is allocated at first.
LEMMA InitIInv == Init => IInv
  <1>. SUFFICES ASSUME Init PROVE IInv
    OBVIOUS
  <1>1. ToSet(<<>>) = {} /\ IsInjective(<<>>) /\ DOMAIN <<>> = {}
    <2>1. DOMAIN <<>> = {}
      OBVIOUS
    <2>. QED
      BY <2>1 DEF ToSet, IsInjective
  <1>2. \A t \in Thread, i \in Indices : pools[t][i] = <<>>
    BY DEF Init
  <1>3. \A S : <<>> \in Seq(S)
    OBVIOUS
  <1>4. BlocksOK
    <2>1. pools \in [Thread -> [Indices -> Seq(Block)]]
      BY <1>3 DEF Init
    <2>. QED
      BY <2>1, NoMemoryOK DEF Init, BlocksOK
  <1>5. BlocksHaveOneOwner
    <2>1. AllPooled = {}
      BY <1>1, <1>2, AllPooledIn
    <2>2. allocated = instances \cup AllPooled
      BY <2>1 DEF Init
    <2>. QED
      BY <1>1, <1>2, <2>2 DEF BlocksHaveOneOwner, AllPooled
  <1>6. InstancesAreNew /\ InstancesHaveRoom /\ PoolsAreClean
    BY <1>1, <1>2 DEF Init, InstancesAreNew, InstancesHaveRoom, PoolsAreClean
  <1>7. AutoreleasedOnce
    BY DEF Init, AutoreleasedOnce
  <1>8. LifeInv
    BY DEF Init, LifeInv, NothingLeftBehind
  <1>9. HandlerInv
    <2>1. Len(<<>>) = 0
      OBVIOUS
    <2>2. \A t \in Thread : frames[t] = <<>> /\ top[t] = 0
      BY DEF Init
    <2>3. frames \in [Thread -> Seq(Frame)] /\ top \in [Thread -> Nat]
      BY <1>3 DEF Init
    <2>4. IsHandler(<<>>, 0 + 1, 0)
      BY DEF IsHandler
    <2>. QED
      BY <1>1, <2>1, <2>2, <2>3, <2>4 DEF HandlerInv, HandlersAreLive
  <1>. QED
    BY <1>4, <1>5, <1>6, <1>7, <1>8, <1>9 DEF IInv, BlockInv

\* Every step keeps blocks, threads and handlers in order.
LEMMA NextIInv == IInv /\ [Next]_vars => IInv'
  <1>. SUFFICES ASSUME IInv, [Next]_vars PROVE IInv'
    OBVIOUS
  <1>1. CASE UNCHANGED vars
    BY <1>1, RunningKept, HandlersKept DEF vars, Running, IInv
  <1>2. CASE Next
    BY <1>2, SetupStep, AllocStep, UseStep, AutoreleaseStep, FreeInstanceStep, SetThreadStep,
       UnsetDrainStep, UnsetThreadinfoStep, TryEnterStep, TryExitStep, ThrowStep, CatchStep DEF Next
  <1>. QED
    BY <1>1, <1>2

\* The invariant always holds.
LEMMA Invariance == Spec => []IInv
  BY InitIInv, NextIInv, PTL DEF Spec

\* Memory belongs to one instance, one pool or the allocator, and an instance does
\* not show what its memory was before, whichever threads allocate and free.
THEOREM MemorySound == Spec => []MemoryIsSound
  <1>1. IInv => MemoryIsSound
    BY DEF IInv, BlockInv, MemoryIsSound
  <1>. QED
    BY <1>1, Invariance, PTL

\* A thread that has ended holds neither pooled nor autoreleased memory.
THEOREM ThreadsLeaveNothing == Spec => []NothingLeftBehind
  <1>1. IInv => NothingLeftBehind
    BY DEF IInv, LifeInv
  <1>. QED
    BY <1>1, Invariance, PTL

\* The handlers of a thread are those of the @try parts it is in, whatever it
\* throws and wherever it catches.
THEOREM HandlersLive == Spec => []HandlersAreLive
  <1>1. IInv => HandlersAreLive
    BY DEF IInv, HandlerInv
  <1>. QED
    BY <1>1, Invariance, PTL
=============================================================================
