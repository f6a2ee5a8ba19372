-------------------------- MODULE LoadQueueProofs --------------------------
(***************************************************************************)
(* For any classes, mixins and categories, any dependencies between them   *)
(* and any order of the loadinfos: the wait queues lose and double nothing,*)
(* wake what can be installed, and implement LoadOrder.                    *)
(***************************************************************************)
EXTENDS LoadQueue, WellFoundedInduction, TLAPS

----------------------------------------------------------------------------
(* The inductive invariant *)

Item == [do : {"load"}, arg : Loadable] \cup [do : {"wakeCategories", "wakeClasses"}, arg : ClassId]
Dependency == (ClassId \cup {NoClass}) \X (CategoryId \cup {NoCategory})
Provides(x) == <<ClassOf[x], CategoryOf[x]>>

\* a loader that has something to do holds the lock
BusyInv == work # <<>> \/ loads # <<>> => loading # NoInfo

\* what is installed has what it needs
InstalledInv == \A x \in installed : \A d \in Range(Requirements(x)) : Fulfilled(d)

\* A loadable in the queue of hash h misses a class with this hash, or the list
\* is about to be taken out.
Placed(x, h) == Missing(x) # NoClass /\ Hash[Missing(x)] = h
Woke(q, h) == \E c \in ClassId : WakeItem(q, c) \in Range(work) /\ Hash[c] = h
WakeInv ==
    \A h \in Hashes :
        /\ \A x \in Range(classestoload[h]) :
              Kind[x] = "class" /\ (Placed(x, h) \/ Woke("wakeClasses", h))
        /\ \A x \in Range(categoriestoload[h]) :
              Kind[x] = "category" /\ (Placed(x, h) \/ Woke("wakeCategories", h))

\* The +load of what is installed was called or is queued, once, and after the
\* +load of what it needs.
CallInv ==
    /\ installed \cap HasLoad = Range(called) \cup Range(loads)
    /\ Range(called) \cap Range(loads) = {}
    /\ IsInjective(called) /\ IsInjective(loads)
OrderInv ==
    \A n \in DOMAIN loads : \A y \in installed \cap HasLoad :
        Provides(y) \in Range(Requirements(loads[n])) =>
            y \in Range(called) \/ \E m \in DOMAIN loads : m < n /\ loads[m] = y

IInv ==
    /\ TypeOK /\ BusyInv /\ NoneLostNoneDoubled /\ InstalledInv
    /\ WakeInv /\ CallInv /\ OrderInv

----------------------------------------------------------------------------
(* Sequences *)

\* what Append does to the members of a sequence
LEMMA AppendRange ==
    ASSUME NEW S, NEW s \in Seq(S), NEW x \in S
    PROVE  /\ Append(s, x) \in Seq(S)
           /\ Range(Append(s, x)) = Range(s) \cup {x}
           /\ IsInjective(s) /\ x \notin Range(s) => IsInjective(Append(s, x))
<1>1. /\ Append(s, x) \in Seq(S) /\ Len(s) \in Nat /\ DOMAIN s = 1..Len(s)
      /\ DOMAIN Append(s, x) = 1..(Len(s) + 1) /\ Append(s, x)[Len(s) + 1] = x
      /\ \A n \in 1..Len(s) : Append(s, x)[n] = s[n]
    OBVIOUS
<1>2. \A n \in 1..(Len(s) + 1) : n = Len(s) + 1 \/ n \in 1..Len(s)
    BY <1>1
<1>3. Len(s) + 1 \in DOMAIN Append(s, x) /\ \A n \in 1..Len(s) : n \in DOMAIN Append(s, x)
    BY <1>1
<1>4. Range(Append(s, x)) = Range(s) \cup {x}
  <2>1. Range(Append(s, x)) \subseteq Range(s) \cup {x}
      BY <1>1, <1>2 DEF Range
  <2>2. Range(s) \cup {x} \subseteq Range(Append(s, x))
      BY <1>1, <1>3 DEF Range
  <2> QED BY <2>1, <2>2
<1>5. IsInjective(s) /\ x \notin Range(s) => IsInjective(Append(s, x))
    BY <1>1, <1>2 DEF Range, IsInjective
<1> QED BY <1>1, <1>4, <1>5

\* a sequence is its head and its tail
LEMMA HeadTail ==
    ASSUME NEW S, NEW s \in Seq(S), s # <<>>
    PROVE  /\ Head(s) \in S /\ Tail(s) \in Seq(S)
           /\ Range(s) = {Head(s)} \cup Range(Tail(s))
           /\ IsInjective(s) => IsInjective(Tail(s)) /\ Head(s) \notin Range(Tail(s))
           /\ TryOnce(s) => TryOnce(Tail(s)) /\ (Head(s).do = "load" => Head(s) \notin Range(Tail(s)))
<1>1. Head(s) = s[1] /\ Head(s) \in S /\ Tail(s) \in Seq(S) /\ Len(Tail(s)) = Len(s) - 1
      /\ Len(s) \in Nat \ {0} /\ DOMAIN s = 1..Len(s) /\ DOMAIN Tail(s) = 1..(Len(s) - 1)
      /\ \A n \in 1..(Len(s) - 1) : Tail(s)[n] = s[n + 1]
    OBVIOUS
<1>2. Range(s) = {Head(s)} \cup Range(Tail(s))
  <2>1. \A y \in Range(s) : y = s[1] \/ y \in Range(Tail(s))
    <3> SUFFICES ASSUME NEW n \in DOMAIN s, n # 1 PROVE s[n] \in Range(Tail(s))
        BY DEF Range
    <3>1. n - 1 \in DOMAIN Tail(s) /\ Tail(s)[n - 1] = s[n]
        BY <1>1
    <3> QED BY <3>1 DEF Range
  <2>2. \A y \in Range(Tail(s)) : y \in Range(s)
      BY <1>1 DEF Range
  <2>3. s[1] \in Range(s)
      BY <1>1 DEF Range
  <2> QED BY <1>1, <2>1, <2>2, <2>3
<1>3. IsInjective(s) => IsInjective(Tail(s)) /\ Head(s) \notin Range(Tail(s))
    BY <1>1 DEF Range, IsInjective
<1>4. TryOnce(s) => TryOnce(Tail(s)) /\ (Head(s).do = "load" => Head(s) \notin Range(Tail(s)))
    BY <1>1 DEF Range, TryOnce
<1> QED BY <1>1, <1>2, <1>3, <1>4

\* two sequences one after the other
LEMMA Concat ==
    ASSUME NEW S, NEW s \in Seq(S), NEW r \in Seq(S)
    PROVE  /\ s \o r \in Seq(S)
           /\ Range(s \o r) = Range(s) \cup Range(r)
           /\ TryOnce(s) /\ TryOnce(r) /\ (\A y \in Range(s) \cap Range(r) : y.do # "load") => TryOnce(s \o r)
<1>1. /\ Len(s) \in Nat /\ Len(r) \in Nat /\ DOMAIN s = 1..Len(s) /\ DOMAIN r = 1..Len(r)
      /\ DOMAIN (s \o r) = 1..(Len(s) + Len(r)) /\ s \o r \in Seq(S)
      /\ \A n \in 1..(Len(s) + Len(r)) : (s \o r)[n] = IF n <= Len(s) THEN s[n] ELSE r[n - Len(s)]
    OBVIOUS
<1>2. Range(s \o r) \subseteq Range(s) \cup Range(r)
    BY <1>1 DEF Range
<1>3. Range(s) \subseteq Range(s \o r)
    BY <1>1 DEF Range
<1>4. Range(r) \subseteq Range(s \o r)
  <2> SUFFICES ASSUME NEW n \in DOMAIN r PROVE r[n] \in Range(s \o r)
      BY DEF Range
  <2>1. n + Len(s) \in DOMAIN (s \o r) /\ (s \o r)[n + Len(s)] = r[n]
      BY <1>1
  <2> QED BY <2>1 DEF Range
<1>5. ASSUME TryOnce(s), TryOnce(r), \A y \in Range(s) \cap Range(r) : y.do # "load"
      PROVE  TryOnce(s \o r)
  <2> DEFINE q == s \o r
  <2> SUFFICES ASSUME NEW m \in 1..(Len(s) + Len(r)), NEW n \in 1..(Len(s) + Len(r)),
                      q[m].do = "load", q[m] = q[n]
               PROVE  m = n
      BY <1>1 DEF TryOnce
  <2>1. CASE m <= Len(s) /\ n <= Len(s)
      BY <1>1, <1>5, <2>1 DEF TryOnce
  <2>2. CASE m > Len(s) /\ n > Len(s)
    <3>1. m - Len(s) \in DOMAIN r /\ n - Len(s) \in DOMAIN r /\ q[m] = r[m - Len(s)] /\ q[n] = r[n - Len(s)]
        BY <1>1, <2>2
    <3>2. m - Len(s) = n - Len(s)
        BY <1>5, <3>1 DEF TryOnce
    <3> QED BY <1>1, <3>2
  <2>3. CASE m <= Len(s) /\ n > Len(s)
    <3>1. q[m] \in Range(s) /\ q[n] \in Range(r)
        BY <1>1, <2>3 DEF Range
    <3> QED BY <3>1, <1>5
  <2>4. CASE m > Len(s) /\ n <= Len(s)
    <3>1. q[n] \in Range(s) /\ q[m] \in Range(r)
        BY <1>1, <2>4 DEF Range
    <3> QED BY <3>1, <1>5
  <2> QED BY <1>1, <2>1, <2>2, <2>3, <2>4
<1> QED BY <1>1, <1>2, <1>3, <1>4, <1>5

----------------------------------------------------------------------------
(* Wait queues and lists of things to do *)

Queue == [Hashes -> Seq(Loadable)]

\* what is to be tried according to a list of things to do
TryOf(items) == {x \in Loadable : Load(x) \in Range(items)}

\* a queue with one more at hash h, and without the list of hash h
Added(q, h, x) == [q EXCEPT ![h] = Append(q[h], x)]
TakenOut(q, h) == [q EXCEPT ![h] = <<>>]

\* the step DelayedAdd: one more waits, at one hash
LEMMA QueueAdd ==
    ASSUME NEW q \in Queue, NEW h \in Hashes, NEW x \in Loadable, NEW r,
           r = Added(q, h, x)
    PROVE  /\ r \in Queue
           /\ Members(r) = Members(q) \cup {x}
           /\ \A g \in Hashes : Range(r[g]) = IF g = h THEN Range(q[h]) \cup {x} ELSE Range(q[g])
           /\ WaitOnce(q) /\ x \notin Members(q) => WaitOnce(r)
<1>1. q[h] \in Seq(Loadable)
    BY DEF Queue
<1>2. /\ Append(q[h], x) \in Seq(Loadable)
      /\ Range(Append(q[h], x)) = Range(q[h]) \cup {x}
      /\ IsInjective(q[h]) /\ x \notin Range(q[h]) => IsInjective(Append(q[h], x))
    BY <1>1, AppendRange
<1>3. \A g \in Hashes : r[g] = IF g = h THEN Append(q[h], x) ELSE q[g]
    BY DEF Queue, Added
<1>4. r \in Queue
    BY <1>2 DEF Queue, Added
<1>5. \A g \in Hashes : Range(r[g]) = IF g = h THEN Range(q[h]) \cup {x} ELSE Range(q[g])
  <2> TAKE g \in Hashes
  <2>1. CASE g = h
      BY <2>1, <1>2, <1>3
  <2>2. CASE g # h
      BY <2>2, <1>3
  <2> QED BY <2>1, <2>2
<1>6. Members(r) = Members(q) \cup {x}
    BY <1>5 DEF Members
<1>7. ASSUME WaitOnce(q), x \notin Members(q) PROVE WaitOnce(r)
  <2>1. \A g \in Hashes : x \notin Range(q[g]) /\ IsInjective(q[g])
      BY <1>7 DEF Members, WaitOnce
  <2>2. \A g \in Hashes : IsInjective(r[g])
      BY <2>1, <1>2, <1>3
  <2>3. \A g, k \in Hashes : Range(r[g]) \cap Range(r[k]) # {} => g = k
    <3> SUFFICES ASSUME NEW g \in Hashes, NEW k \in Hashes, NEW y, y \in Range(r[g]), y \in Range(r[k])
                 PROVE  g = k
        OBVIOUS
    <3>1. CASE y = x
        BY <3>1, <1>5, <2>1
    <3>2. CASE y # x
      <4>1. y \in Range(q[g]) \cap Range(q[k])
          BY <3>2, <1>5
      <4> QED BY <4>1, <1>7 DEF WaitOnce
    <3> QED BY <3>1, <3>2
  <2> QED BY <2>2, <2>3 DEF WaitOnce
<1> QED BY <1>4, <1>5, <1>6, <1>7

\* the step of map_f: the list of one hash is taken out
LEMMA QueueTake ==
    ASSUME NEW q \in Queue, NEW h \in Hashes, NEW r, r = TakenOut(q, h), WaitOnce(q)
    PROVE  /\ r \in Queue /\ WaitOnce(r)
           /\ Members(r) = Members(q) \ Range(q[h])
           /\ \A g \in Hashes : Range(r[g]) = IF g = h THEN {} ELSE Range(q[g])
<1>1. <<>> \in Seq(Loadable) /\ Range(<<>>) = {} /\ IsInjective(<<>>)
    BY DEF Range, IsInjective
<1>2. \A g \in Hashes : r[g] = IF g = h THEN <<>> ELSE q[g]
    BY DEF Queue, TakenOut
<1>3. r \in Queue
    BY <1>1 DEF Queue, TakenOut
<1>4. \A g \in Hashes : Range(r[g]) = IF g = h THEN {} ELSE Range(q[g])
  <2> TAKE g \in Hashes
  <2>1. CASE g = h
      BY <2>1, <1>1, <1>2
  <2>2. CASE g # h
      BY <2>2, <1>2
  <2> QED BY <2>1, <2>2
<1>5. Members(r) = Members(q) \ Range(q[h])
  <2>1. \A g \in Hashes : g # h => Range(q[g]) \cap Range(q[h]) = {}
      BY DEF WaitOnce
  <2> QED BY <1>4, <2>1 DEF Members
<1>6. WaitOnce(r)
    BY <1>1, <1>2, <1>4 DEF WaitOnce
<1> QED BY <1>3, <1>4, <1>5, <1>6

\* items to load are what they say
LEMMA LoadItem ==
    ASSUME NEW x \in Loadable, NEW y \in Loadable
    PROVE  Load(x) \in Item /\ Load(x).do = "load" /\ (Load(x) = Load(y) => x = y)
BY DEF Load, Item

\* what an installation adds to the things to do loads nothing by itself
LEMMA WakeItems ==
    ASSUME NEW c \in ClassId
    PROVE  /\ <<WakeItem("wakeCategories", c), WakeItem("wakeClasses", c)>> \in Seq(Item)
           /\ Range(<<WakeItem("wakeCategories", c), WakeItem("wakeClasses", c)>>)
                = {WakeItem("wakeCategories", c), WakeItem("wakeClasses", c)}
           /\ WakeItem("wakeCategories", c).do # "load" /\ WakeItem("wakeClasses", c).do # "load"
           /\ TryOf(<<WakeItem("wakeCategories", c), WakeItem("wakeClasses", c)>>) = {}
           /\ TryOnce(<<WakeItem("wakeCategories", c), WakeItem("wakeClasses", c)>>)
<1>1. WakeItem("wakeCategories", c) \in Item /\ WakeItem("wakeClasses", c) \in Item
    BY DEF WakeItem, Item
<1>2. WakeItem("wakeCategories", c).do = "wakeCategories" /\ WakeItem("wakeClasses", c).do = "wakeClasses"
    BY DEF WakeItem
<1> DEFINE s == <<WakeItem("wakeCategories", c), WakeItem("wakeClasses", c)>>
<1>3. s \in Seq(Item) /\ DOMAIN s = {1, 2} /\ s[1] = WakeItem("wakeCategories", c)
      /\ s[2] = WakeItem("wakeClasses", c)
    BY <1>1
<1>4. Range(s) = {WakeItem("wakeCategories", c), WakeItem("wakeClasses", c)}
    BY <1>3 DEF Range
<1>5. \A x \in Loadable : Load(x) \notin Range(s)
    BY <1>2, <1>4, LoadItem
<1> HIDE DEF s
<1>6. TryOf(s) = {} /\ TryOnce(s)
    BY <1>5, <1>2, <1>3 DEF TryOf, TryOnce
<1> QED BY <1>2, <1>3, <1>4, <1>6 DEF s

\* a list of loadables as things to do
LEMMA LoadList ==
    ASSUME NEW s \in Seq(Loadable)
    PROVE  /\ LoadAll(s) \in Seq(Item) /\ TryOf(LoadAll(s)) = Range(s)
           /\ Range(LoadAll(s)) = {Load(x) : x \in Range(s)}
           /\ IsInjective(s) => TryOnce(LoadAll(s))
<1>1. Len(s) \in Nat /\ DOMAIN s = 1..Len(s) /\ \A n \in 1..Len(s) : s[n] \in Loadable
    OBVIOUS
<1>2. LoadAll(s) = [n \in 1..Len(s) |-> Load(s[n])]
    BY <1>1 DEF LoadAll
<1>3. \A n \in 1..Len(s) : Load(s[n]) \in Item
    BY <1>1, LoadItem
<1>4. LoadAll(s) \in Seq(Item) /\ DOMAIN LoadAll(s) = 1..Len(s)
    BY <1>1, <1>2, <1>3
<1>5. Range(LoadAll(s)) = {Load(x) : x \in Range(s)}
    BY <1>1, <1>2 DEF Range
<1>6. TryOf(LoadAll(s)) = Range(s)
  <2>1. Range(s) \subseteq Loadable
      BY <1>1 DEF Range
  <2> QED BY <2>1, <1>5, LoadItem DEF TryOf
<1>7. IsInjective(s) => TryOnce(LoadAll(s))
    BY <1>1, <1>2, LoadItem DEF IsInjective, TryOnce
<1> QED BY <1>4, <1>5, <1>6, <1>7

\* the things to do of two lists
LEMMA TryConcat ==
    ASSUME NEW s \in Seq(Item), NEW r \in Seq(Item)
    PROVE  /\ s \o r \in Seq(Item)
           /\ Range(s \o r) = Range(s) \cup Range(r)
           /\ TryOf(s \o r) = TryOf(s) \cup TryOf(r)
           /\ TryOnce(s) /\ TryOnce(r) /\ TryOf(s) \cap TryOf(r) = {} => TryOnce(s \o r)
<1>1. s \o r \in Seq(Item) /\ Range(s \o r) = Range(s) \cup Range(r)
    BY Concat
<1>2. ASSUME TryOf(s) \cap TryOf(r) = {} PROVE \A y \in Range(s) \cap Range(r) : y.do # "load"
  <2> SUFFICES ASSUME NEW y \in Range(s), y \in Range(r), y.do = "load" PROVE FALSE
      OBVIOUS
  <2>1. y \in Item
      BY DEF Range
  <2>2. y.arg \in Loadable /\ y = Load(y.arg)
      BY <2>1 DEF Item, Load
  <2>3. y.arg \in TryOf(s) /\ y.arg \in TryOf(r)
      BY <2>2 DEF TryOf
  <2> QED BY <2>3, <1>2
<1>3. TryOnce(s) /\ TryOnce(r) /\ TryOf(s) \cap TryOf(r) = {} => TryOnce(s \o r)
    BY <1>2, Concat
<1>4. TryOf(s \o r) = TryOf(s) \cup TryOf(r)
    BY <1>1 DEF TryOf
<1> QED BY <1>1, <1>3, <1>4

----------------------------------------------------------------------------
(* Dependencies *)

\* A set of naturals has a least one.
LEMMA LeastNatural ==
    ASSUME NEW S, S \subseteq Nat, S # {}
    PROVE  Min(S) \in S /\ \A e \in S : Min(S) <= e
<1> DEFINE R == OpToRel(<, Nat)
<1>1. IsWellFoundedOn(R, Nat)
    BY NatLessThanWellFounded
<1>2. \A x, y \in Nat : x < y => <<x, y>> \in R
    BY DEF OpToRel
<1> HIDE DEF R
<1>3. PICK d \in S : \A e \in S : <<e, d>> \notin R
    BY <1>1, WFMin
<1>4. \A e \in S : ~ (e < d)
    BY <1>2, <1>3, Zenon
<1>5. \A e \in S : d <= e
    BY <1>4
<1> QED BY <1>5 DEF Min

\* what a loadable needs is a sequence of dependencies
LEMMA RequirementsType ==
    ASSUME NEW x \in Loadable
    PROVE  /\ Requirements(x) \in Seq(Dependency)
           /\ Kind[x] = "category" => <<ClassOf[x], NoCategory>> \in Range(Requirements(x))
<1> USE LoadableAssumption
<1>1. CASE Kind[x] = "mixin"
    BY <1>1 DEF Requirements
<1>2. CASE Kind[x] # "mixin"
  <2> DEFINE first == IF Kind[x] = "category" THEN ClassOf[x] ELSE SuperOf[x]
             Other(m) == IF m \in {SuperOf[x], ClassOf[x]} THEN NoClass ELSE m
             others == [n \in DOMAIN MixinsOf[x] |-> Other(MixinsOf[x][n])]
             own == [n \in DOMAIN Inherent(x) |-> <<Inherent(x)[n], NoCategory>>]
  <2>1. first \in ClassId \cup {NoClass}
      OBVIOUS
  <2>2. others \in Seq(ClassId \cup {NoClass})
    <3>1. MixinsOf[x] \in Seq(ClassId)
        OBVIOUS
    <3>2. Len(MixinsOf[x]) \in Nat /\ DOMAIN MixinsOf[x] = 1..Len(MixinsOf[x])
          /\ \A n \in 1..Len(MixinsOf[x]) : MixinsOf[x][n] \in ClassId
        BY <3>1
    <3>3. \A n \in 1..Len(MixinsOf[x]) : Other(MixinsOf[x][n]) \in ClassId \cup {NoClass}
        BY <3>2
    <3> HIDE DEF Other
    <3> QED BY <3>2, <3>3
  <2>3. Inherent(x) = <<first>> \o others
      BY DEF Inherent
  <2> HIDE DEF others, first
  <2>4. Inherent(x) \in Seq(ClassId \cup {NoClass}) /\ Inherent(x)[1] = first /\ 1 \in DOMAIN Inherent(x)
      BY <2>1, <2>2, <2>3
  <2>5. own \in Seq(Dependency) /\ 1 \in DOMAIN own /\ own[1] = <<first, NoCategory>>
    <3>1. \A n \in DOMAIN Inherent(x) : <<Inherent(x)[n], NoCategory>> \in Dependency
        BY <2>4 DEF Dependency
    <3>2. Len(Inherent(x)) \in Nat /\ DOMAIN Inherent(x) = 1..Len(Inherent(x))
        BY <2>4
    <3> QED BY <3>1, <3>2, <2>4
  <2>6. Requirements(x) = own \o Dependencies[x]
      BY <1>2 DEF Requirements
  <2>7. Dependencies[x] \in Seq(Dependency)
    <3>1. Dependencies[x] \in Seq(ClassId \X (CategoryId \cup {NoCategory}))
        OBVIOUS
    <3>2. ClassId \X (CategoryId \cup {NoCategory}) \subseteq Dependency
        BY DEF Dependency
    <3> QED BY <3>1, <3>2
  <2> HIDE DEF own
  <2>8. Requirements(x) \in Seq(Dependency) /\ Requirements(x)[1] = own[1] /\ 1 \in DOMAIN Requirements(x)
      BY <2>5, <2>6, <2>7
  <2>9. Kind[x] = "category" => own[1] = <<ClassOf[x], NoCategory>>
      BY <2>5 DEF first
  <2> QED BY <2>8, <2>9 DEF Range
<1> QED BY <1>1, <1>2

\* Missing is the class of the first dependency that is not fulfilled.
LEMMA MissingFirst ==
    ASSUME NEW x \in Loadable
    PROVE  /\ Missing(x) = NoClass <=> \A d \in Range(Requirements(x)) : Fulfilled(d)
           /\ Missing(x) # NoClass =>
                 /\ Missing(x) \in ClassId
                 /\ Unfulfilled(x) \in Range(Requirements(x)) /\ ~ Fulfilled(Unfulfilled(x))
                 /\ \E n \in DOMAIN Requirements(x) :
                       /\ Unfulfilled(x) = Requirements(x)[n] /\ ~ Fulfilled(Requirements(x)[n])
                       /\ \A m \in DOMAIN Requirements(x) :
                             ~ Fulfilled(Requirements(x)[m]) => n <= m
<1> DEFINE R == Requirements(x)
           open == {n \in DOMAIN R : ~ Fulfilled(R[n])}
<1>0. R \in Seq(Dependency)
    BY RequirementsType
<1>2. Unfulfilled(x) = IF open = {} THEN no_dependency ELSE R[Min(open)]
    BY DEF Unfulfilled
<1> HIDE DEF R
<1>1. R \in Seq(Dependency) /\ open \subseteq Nat
    BY <1>0
<1>3. CASE open = {}
  <2>1. Missing(x) = NoClass
      BY <1>2, <1>3 DEF Missing, no_dependency
  <2>2. \A d \in Range(R) : Fulfilled(d)
      BY <1>3 DEF Range
  <2> QED BY <2>1, <2>2 DEF R
<1>4. CASE open # {}
  <2>1. Min(open) \in open /\ \A e \in open : Min(open) <= e
      BY <1>1, <1>4, LeastNatural
  <2>2. PICK n : n = Min(open)
      OBVIOUS
  <2>3. n \in DOMAIN R /\ ~ Fulfilled(R[n]) /\ Unfulfilled(x) = R[n]
        /\ \A m \in DOMAIN R : ~ Fulfilled(R[m]) => n <= m
      BY <2>1, <2>2, <1>2, <1>4
  <2>4. R[n] \in Dependency /\ R[n] \in Range(R)
      BY <1>1, <2>3 DEF Range
  <2>5. R[n][1] # NoClass
      BY <2>3 DEF Fulfilled
  <2>6. Missing(x) \in ClassId /\ Missing(x) # NoClass
      BY <2>3, <2>4, <2>5 DEF Missing, Dependency
  <2> QED BY <2>3, <2>4, <2>6 DEF R
<1> QED BY <1>3, <1>4

\* What is fulfilled stays so.
LEMMA FulfilledGrows ==
    ASSUME NEW y \in Loadable, installed' = installed \cup {y}, NEW d
    PROVE  /\ Fulfilled(d) => Fulfilled(d)'
           /\ ~ Fulfilled(d) /\ Fulfilled(d)' => d[1] = ClassOf[y]
BY DEF Fulfilled, HasClass, HasCategory

\* While nothing is installed, everybody misses the same.
LEMMA FulfilledSame ==
    ASSUME UNCHANGED installed
    PROVE  /\ \A d : Fulfilled(d)' = Fulfilled(d)
           /\ \A x : Missing(x)' = Missing(x) /\ Unfulfilled(x)' = Unfulfilled(x)
<1>1. \A d : Fulfilled(d)' = Fulfilled(d)
    BY DEF Fulfilled, HasClass, HasCategory
<1>2. \A x : Requirements(x)' = Requirements(x)
    OBVIOUS
<1> QED BY <1>1, <1>2 DEF Missing, Unfulfilled

\* Whoever misses another class than the one that is installed, or that gets a
\* category, goes on missing the same.
LEMMA MissingStays ==
    ASSUME NEW y \in Loadable, installed' = installed \cup {y}, NEW x \in Loadable
    PROVE  Missing(x)' = Missing(x) \/ Missing(x) = ClassOf[y]
<1>0. Requirements(x) \in Seq(Dependency)
    BY RequirementsType
<1>1. PICK R : R = Requirements(x) /\ R = Requirements(x)'
    OBVIOUS
<1>2. PICK old : old = {n \in DOMAIN R : ~ Fulfilled(R[n])}
    OBVIOUS
<1>3. PICK new : new = {n \in DOMAIN R : ~ Fulfilled(R[n])'}
    OBVIOUS
<1>4. Unfulfilled(x) = IF old = {} THEN no_dependency ELSE R[Min(old)]
    BY <1>1, <1>2 DEF Unfulfilled
<1>5. Unfulfilled(x)' = IF new = {} THEN no_dependency ELSE R[Min(new)]
    BY <1>1, <1>3 DEF Unfulfilled, no_dependency
<1>6. new \subseteq old /\ old \subseteq Nat
  <2>1. DOMAIN R \subseteq Nat
      BY <1>0, <1>1
  <2>2. \A n \in DOMAIN R : Fulfilled(R[n]) => Fulfilled(R[n])'
      BY FulfilledGrows
  <2> QED BY <2>1, <2>2, <1>2, <1>3
<1>7. CASE old = {}
    BY <1>4, <1>5, <1>6, <1>7 DEF Missing
<1>8. CASE old # {}
  <2>1. Min(old) \in old /\ \A e \in old : Min(old) <= e
      BY <1>6, <1>8, LeastNatural
  <2>2. CASE Min(old) \in new
    <3>1. Min(new) \in new /\ \A e \in new : Min(new) <= e
        BY <1>6, <2>2, LeastNatural
    <3>3. PICK i, j : i = Min(new) /\ j = Min(old)
        OBVIOUS
    <3>4. i \in Nat /\ j \in Nat /\ i <= j /\ j <= i
        BY <1>6, <2>1, <2>2, <3>1, <3>3
    <3>2. Min(new) = Min(old)
        BY <3>3, <3>4
    <3> QED BY <3>2, <2>2, <1>4, <1>5, <1>8 DEF Missing
  <2>3. CASE Min(old) \notin new
    <3>1. PICK d : d = R[Min(old)]
        OBVIOUS
    <3>2. ~ Fulfilled(d) /\ Fulfilled(d)'
        BY <2>1, <2>3, <3>1, <1>2, <1>3
    <3>3. d[1] = ClassOf[y]
        BY <3>2, FulfilledGrows
    <3> QED BY <3>1, <3>3, <1>4, <1>8 DEF Missing
  <2> QED BY <2>2, <2>3
<1> QED BY <1>7, <1>8

\* A dependency is fulfilled if something installed provides it.
LEMMA FulfilledIsProvided ==
    ASSUME InstalledInv, installed \subseteq Loadable, NEW d \in Dependency, d[1] # NoClass
    PROVE  Fulfilled(d) <=> \E y \in installed : Provides(y) = d
<1> USE LoadableAssumption, CategoryAssumption
<1>1. PICK c \in ClassId, k \in CategoryId \cup {NoCategory} : d = <<c, k>>
    BY DEF Dependency
<1>2. c # NoClass /\ d[1] = c /\ d[2] = k
    BY <1>1
<1>3. ASSUME Fulfilled(d) PROVE \E y \in installed : Provides(y) = d
    BY <1>1, <1>2, <1>3 DEF Fulfilled, HasClass, HasCategory, Provides
<1>4. ASSUME NEW y \in installed, Provides(y) = d PROVE Fulfilled(d)
  <2>1. ClassOf[y] = c /\ CategoryOf[y] = k /\ y \in Loadable
      BY <1>1, <1>4 DEF Provides
  <2>2. CASE Kind[y] # "category"
      BY <2>1, <2>2, <1>2 DEF Fulfilled, HasClass
  <2>3. CASE Kind[y] = "category"
    <3>1. Fulfilled(<<c, NoCategory>>)
        BY <2>1, <2>3, RequirementsType DEF InstalledInv
    <3>2. HasClass(c)
        BY <3>1, <1>2 DEF Fulfilled
    <3>3. HasCategory(c, k)
        BY <2>1, <2>3 DEF HasCategory
    <3> QED BY <3>2, <3>3, <1>2 DEF Fulfilled
  <2> QED BY <2>2, <2>3
<1> QED BY <1>3, <1>4

----------------------------------------------------------------------------
(* The steps of the loader *)

\* a loadable of whose kind there is none yet, with everything it needs
Installs(x) ==
    /\ work # <<>> /\ Head1 = Load(x)
    /\ \A d \in Range(Requirements(x)) : Fulfilled(d)
    /\ \A y \in installed : Provides(y) # Provides(x)
    /\ Install(x)
DelaysClass(x) ==
    /\ work # <<>> /\ Head1 = Load(x) /\ Kind[x] = "class" /\ Missing(x) # NoClass
    /\ classestoload' = DelayedAdd(classestoload, x, Missing(x))
    /\ work' = Tail(work)
    /\ UNCHANGED <<loading, given, installed, categoriestoload, loads, called, failed, initialized>>
DelaysCategory(x) ==
    /\ work # <<>> /\ Head1 = Load(x) /\ Kind[x] = "category" /\ Missing(x) # NoClass
    /\ categoriestoload' = DelayedAdd(categoriestoload, x, Missing(x))
    /\ work' = Tail(work)
    /\ UNCHANGED <<loading, given, installed, classestoload, loads, called, failed, initialized>>

\* what is at the head of the work of a loader that loads
LEMMA Loads ==
    ASSUME TypeOK, Doing("load")
    PROVE  Head1.arg \in Loadable /\ Head1 = Load(Head1.arg) /\ work # <<>>
<1>1. work \in Seq(Item) /\ work # <<>> /\ Head1.do = "load"
    BY DEF TypeOK, Doing, Item
<1>2. Head1 \in Item
    BY <1>1 DEF Head1
<1> QED BY <1>1, <1>2 DEF Item, Load

\* Trying a loadable fails, installs it or lets it wait.
LEMMA LoadSteps ==
    ASSUME TypeOK, LoadClass \/ LoadMixin \/ LoadCategory
    PROVE  Fail \/ \E x \in Loadable : Installs(x) \/ DelaysClass(x) \/ DelaysCategory(x)
<1> USE LoadableAssumption, CategoryAssumption
<1>0. installed \subseteq Loadable
    BY DEF TypeOK
<1>1. CASE LoadClass
  <2>1. PICK x \in Loadable : x = Head1.arg /\ Head1 = Load(x) /\ work # <<>> /\ Kind[x] = "class"
      BY <1>1, Loads DEF LoadClass
  <2>2. CASE Missing(x) # NoClass
      BY <1>1, <2>1, <2>2 DEF LoadClass, DelaysClass
  <2>3. CASE Missing(x) = NoClass /\ ~ Fail
    <3>1. Install(x) /\ ~ HasClass(ClassOf[x])
        BY <1>1, <2>1, <2>3 DEF LoadClass
    <3>2. \A y \in installed : Provides(y) # Provides(x)
        BY <1>0, <2>1, <3>1 DEF HasClass, Provides
    <3>3. \A d \in Range(Requirements(x)) : Fulfilled(d)
        BY <2>3, MissingFirst
    <3> QED BY <2>1, <3>1, <3>2, <3>3 DEF Installs
  <2> QED BY <2>2, <2>3
<1>2. CASE LoadMixin
  <2>1. PICK x \in Loadable : x = Head1.arg /\ Head1 = Load(x) /\ work # <<>> /\ Kind[x] = "mixin"
      BY <1>2, Loads DEF LoadMixin
  <2>2. CASE ~ Fail
    <3>1. Install(x) /\ ~ HasClass(ClassOf[x])
        BY <1>2, <2>1, <2>2 DEF LoadMixin
    <3>2. \A y \in installed : Provides(y) # Provides(x)
        BY <1>0, <2>1, <3>1 DEF HasClass, Provides
    <3>3. \A d \in Range(Requirements(x)) : Fulfilled(d)
        BY <2>1 DEF Requirements, Range
    <3> QED BY <2>1, <3>1, <3>2, <3>3 DEF Installs
  <2> QED BY <2>2
<1>3. CASE LoadCategory
  <2>1. PICK x \in Loadable : x = Head1.arg /\ Head1 = Load(x) /\ work # <<>> /\ Kind[x] = "category"
      BY <1>3, Loads DEF LoadCategory
  <2>2. CASE Missing(x) # NoClass
      BY <1>3, <2>1, <2>2 DEF LoadCategory, DelaysCategory
  <2>3. CASE Missing(x) = NoClass /\ ~ Fail
    <3>1. Install(x) /\ ~ HasCategory(ClassOf[x], CategoryOf[x])
        BY <1>3, <2>1, <2>3 DEF LoadCategory
    <3>2. \A y \in installed : Provides(y) # Provides(x)
        BY <1>0, <2>1, <3>1 DEF HasCategory, Provides
    <3>3. \A d \in Range(Requirements(x)) : Fulfilled(d)
        BY <2>3, MissingFirst
    <3> QED BY <2>1, <3>1, <3>2, <3>3 DEF Installs
  <2> QED BY <2>2, <2>3
<1> QED BY <1>1, <1>2, <1>3

\* the loader goes on to the next thing to do
LEMMA HeadLoad ==
    ASSUME NEW w \in Seq(Item), w # <<>>, TryOnce(w), NEW x \in Loadable, Head(w) = Load(x)
    PROVE  /\ Tail(w) \in Seq(Item) /\ TryOnce(Tail(w))
           /\ x \notin TryOf(Tail(w)) /\ TryOf(w) = TryOf(Tail(w)) \cup {x}
           /\ \A y \in Range(w) : y.do # "load" => y \in Range(Tail(w))
           /\ Range(Tail(w)) \subseteq Range(w)
<1>1. /\ Tail(w) \in Seq(Item) /\ TryOnce(Tail(w)) /\ Range(w) = {Head(w)} \cup Range(Tail(w))
      /\ (Head(w).do = "load" => Head(w) \notin Range(Tail(w)))
    BY HeadTail
<1>2. Head(w).do = "load" /\ Head(w) = Load(x)
    BY LoadItem
<1>3. x \notin TryOf(Tail(w))
    BY <1>1, <1>2 DEF TryOf
<1>4. TryOf(w) = TryOf(Tail(w)) \cup {x}
    BY <1>1, <1>2, LoadItem DEF TryOf
<1> QED BY <1>1, <1>2, <1>3, <1>4

\* the loader wakes up a list, which loads nothing by itself
LEMMA HeadWake ==
    ASSUME NEW w \in Seq(Item), w # <<>>, TryOnce(w), Head(w).do # "load"
    PROVE  /\ Tail(w) \in Seq(Item) /\ TryOnce(Tail(w)) /\ TryOf(w) = TryOf(Tail(w))
           /\ Range(w) = {Head(w)} \cup Range(Tail(w))
           /\ Head(w).arg \in ClassId
<1>1. /\ Tail(w) \in Seq(Item) /\ TryOnce(Tail(w)) /\ Range(w) = {Head(w)} \cup Range(Tail(w))
      /\ Head(w) \in Item
    BY HeadTail
<1>2. TryOf(w) = TryOf(Tail(w))
    BY <1>1, LoadItem DEF TryOf
<1>3. Head(w).arg \in ClassId
    BY <1>1 DEF Item
<1> QED BY <1>1, <1>2, <1>3

\* A class that waits is in its queue and nowhere else.
LEMMA DelayClassStep ==
    ASSUME IInv, NEW x \in Loadable, DelaysClass(x)
    PROVE  IInv'
<1>1. work \in Seq(Item) /\ work # <<>> /\ TryOnce(work) /\ Head(work) = Load(x)
    BY DEF IInv, TypeOK, Item, NoneLostNoneDoubled, DelaysClass, Head1
<1>2. /\ Tail(work) \in Seq(Item) /\ TryOnce(Tail(work))
      /\ x \notin TryOf(Tail(work)) /\ TryOf(work) = TryOf(Tail(work)) \cup {x}
      /\ \A y \in Range(work) : y.do # "load" => y \in Range(Tail(work))
    BY <1>1, HeadLoad
<1>3. PICK h \in Hashes : h = Hash[Missing(x)]
  <2>1. Missing(x) \in ClassId
      BY MissingFirst DEF DelaysClass
  <2> QED BY <2>1, LoadableAssumption DEF Hashes
<1>4. /\ classestoload \in Queue /\ categoriestoload \in Queue
      /\ classestoload' = Added(classestoload, h, x)
      /\ WaitOnce(classestoload) /\ WaitOnce(categoriestoload)
    BY <1>3 DEF IInv, TypeOK, Queue, DelaysClass, DelayedAdd, Added, NoneLostNoneDoubled
<1>5. ToTry = TryOf(work) /\ ToTry' = TryOf(Tail(work)) /\ work' = Tail(work)
    BY DEF ToTry, TryOf, DelaysClass
<1>6. x \notin Members(classestoload) /\ x \notin Members(categoriestoload)
    BY <1>2, <1>5 DEF IInv, NoneLostNoneDoubled, Waiting, WaitingClasses, WaitingCategories
<1>7. /\ classestoload' \in Queue
      /\ Members(classestoload') = Members(classestoload) \cup {x}
      /\ \A g \in Hashes : Range(classestoload'[g]) = IF g = h THEN Range(classestoload[h]) \cup {x}
                                                      ELSE Range(classestoload[g])
      /\ WaitOnce(classestoload')
  <2>1. PICK q, r : q = classestoload /\ r = classestoload'
      OBVIOUS
  <2>2. q \in Queue /\ r = Added(q, h, x) /\ WaitOnce(q) /\ x \notin Members(q)
      BY <1>4, <1>6, <2>1
  <2>3. r \in Queue /\ Members(r) = Members(q) \cup {x}
      BY <2>2, QueueAdd
  <2>4. WaitOnce(r)
      BY <2>2, QueueAdd
  <2>5. \A g \in Hashes : Range(r[g]) = IF g = h THEN Range(q[h]) \cup {x} ELSE Range(q[g])
      BY <2>2, QueueAdd
  <2> QED BY <2>1, <2>3, <2>4, <2>5
<1>8. UNCHANGED <<loading, given, installed, categoriestoload, loads, called, failed, initialized>>
    BY DEF DelaysClass
<1>9. /\ Hashes' = Hashes /\ Members(classestoload)' = Members(classestoload')
      /\ Members(categoriestoload)' = Members(categoriestoload)
      /\ WaitOnce(classestoload)' = WaitOnce(classestoload') /\ WaitOnce(categoriestoload)' = WaitOnce(categoriestoload)
      /\ TryOnce(work)' = TryOnce(Tail(work)) /\ Offered' = Offered
    BY <1>5, <1>8 DEF Hashes, Members, WaitOnce, TryOnce, Offered
<1>10. TypeOK'
    BY <1>2, <1>5, <1>7, <1>8, <1>9 DEF IInv, TypeOK, Item, Queue
<1>11. BusyInv'
    BY <1>1, <1>8 DEF IInv, BusyInv
<1>12. NoneLostNoneDoubled'
  <2>1. /\ Waiting = Members(classestoload) \cup Members(categoriestoload)
        /\ WaitingClasses \cap WaitingCategories = {} /\ Waiting \cap ToTry = {}
        /\ Offered \ installed = Waiting \cup ToTry
        /\ Members(classestoload) \cap Members(categoriestoload) = {}
      BY DEF IInv, NoneLostNoneDoubled, Waiting, WaitingClasses, WaitingCategories
  <2>2. Waiting' = Members(classestoload) \cup {x} \cup Members(categoriestoload)
      BY <1>7, <1>9 DEF Waiting, WaitingClasses, WaitingCategories
  <2>3. (Offered \ installed)' = Waiting' \cup ToTry'
      BY <2>1, <2>2, <1>2, <1>5, <1>8, <1>9
  <2>4. Waiting' \cap ToTry' = {}
      BY <2>1, <2>2, <1>2, <1>5
  <2>5. WaitingClasses' \cap WaitingCategories' = {}
      BY <2>1, <1>6, <1>7, <1>9 DEF WaitingClasses, WaitingCategories
  <2>6. (installed \subseteq Offered)'
      BY <1>8, <1>9 DEF IInv, NoneLostNoneDoubled
  <2> QED BY <2>3, <2>4, <2>5, <2>6, <1>2, <1>4, <1>7, <1>9 DEF NoneLostNoneDoubled
<1>13. InstalledInv'
    BY <1>8, FulfilledSame DEF IInv, InstalledInv
<1>14. WakeInv'
  <2>1. \A g \in Hashes : \A q \in {"wakeClasses", "wakeCategories"} : Woke(q, g) => Woke(q, g)'
    <3> SUFFICES ASSUME NEW g \in Hashes, NEW q \in {"wakeClasses", "wakeCategories"}, Woke(q, g)
                 PROVE  Woke(q, g)'
        OBVIOUS
    <3>1. PICK c \in ClassId : WakeItem(q, c) \in Range(work) /\ Hash[c] = g
        BY DEF Woke
    <3>2. WakeItem(q, c).do # "load"
        BY DEF WakeItem
    <3> QED BY <3>1, <3>2, <1>2, <1>5 DEF Woke
  <2>2. \A y, g : Placed(y, g)' = Placed(y, g)
      BY <1>8, FulfilledSame DEF Placed
  <2>3. Placed(x, h) /\ Kind[x] = "class"
      BY <1>3 DEF Placed, DelaysClass
  <2>4. ASSUME NEW g \in Hashes, NEW y, y \in Range(categoriestoload[g])
        PROVE  /\ Kind[y] = "category"
               /\ Placed(y, g)' \/ Woke("wakeCategories", g)'
      BY <2>1, <2>2, <2>4 DEF IInv, WakeInv
  <2>5. ASSUME NEW g \in Hashes, NEW y, y \in Range(classestoload'[g])
        PROVE  /\ Kind[y] = "class"
               /\ Placed(y, g)' \/ Woke("wakeClasses", g)'
    <3>1. CASE y = x /\ g = h
        BY <3>1, <2>2, <2>3
    <3>2. CASE y \in Range(classestoload[g])
        BY <3>2, <2>1, <2>2 DEF IInv, WakeInv
    <3> QED BY <2>5, <1>7, <3>1, <3>2
  <2> QED BY <2>4, <2>5, <1>8, <1>9 DEF WakeInv
<1>15. CallInv' /\ OrderInv'
    BY <1>8 DEF IInv, CallInv, OrderInv
<1> QED BY <1>10, <1>11, <1>12, <1>13, <1>14, <1>15 DEF IInv

\* A category that waits is in its queue and nowhere else.
LEMMA DelayCategoryStep ==
    ASSUME IInv, NEW x \in Loadable, DelaysCategory(x)
    PROVE  IInv'
<1>1. work \in Seq(Item) /\ work # <<>> /\ TryOnce(work) /\ Head(work) = Load(x)
    BY DEF IInv, TypeOK, Item, NoneLostNoneDoubled, DelaysCategory, Head1
<1>2. /\ Tail(work) \in Seq(Item) /\ TryOnce(Tail(work))
      /\ x \notin TryOf(Tail(work)) /\ TryOf(work) = TryOf(Tail(work)) \cup {x}
      /\ \A y \in Range(work) : y.do # "load" => y \in Range(Tail(work))
    BY <1>1, HeadLoad
<1>3. PICK h \in Hashes : h = Hash[Missing(x)]
  <2>1. Missing(x) \in ClassId
      BY MissingFirst DEF DelaysCategory
  <2> QED BY <2>1, LoadableAssumption DEF Hashes
<1>4. /\ categoriestoload \in Queue /\ classestoload \in Queue
      /\ categoriestoload' = Added(categoriestoload, h, x)
      /\ WaitOnce(categoriestoload) /\ WaitOnce(classestoload)
    BY <1>3 DEF IInv, TypeOK, Queue, DelaysCategory, DelayedAdd, Added, NoneLostNoneDoubled
<1>5. ToTry = TryOf(work) /\ ToTry' = TryOf(Tail(work)) /\ work' = Tail(work)
    BY DEF ToTry, TryOf, DelaysCategory
<1>6. x \notin Members(categoriestoload) /\ x \notin Members(classestoload)
    BY <1>2, <1>5 DEF IInv, NoneLostNoneDoubled, Waiting, WaitingClasses, WaitingCategories
<1>7. /\ categoriestoload' \in Queue
      /\ Members(categoriestoload') = Members(categoriestoload) \cup {x}
      /\ \A g \in Hashes : Range(categoriestoload'[g]) = IF g = h THEN Range(categoriestoload[h]) \cup {x}
                                                      ELSE Range(categoriestoload[g])
      /\ WaitOnce(categoriestoload')
  <2>1. PICK q, r : q = categoriestoload /\ r = categoriestoload'
      OBVIOUS
  <2>2. q \in Queue /\ r = Added(q, h, x) /\ WaitOnce(q) /\ x \notin Members(q)
      BY <1>4, <1>6, <2>1
  <2>3. r \in Queue /\ Members(r) = Members(q) \cup {x}
      BY <2>2, QueueAdd
  <2>4. WaitOnce(r)
      BY <2>2, QueueAdd
  <2>5. \A g \in Hashes : Range(r[g]) = IF g = h THEN Range(q[h]) \cup {x} ELSE Range(q[g])
      BY <2>2, QueueAdd
  <2> QED BY <2>1, <2>3, <2>4, <2>5
<1>8. UNCHANGED <<loading, given, installed, classestoload, loads, called, failed, initialized>>
    BY DEF DelaysCategory
<1>9. /\ Hashes' = Hashes /\ Members(categoriestoload)' = Members(categoriestoload')
      /\ Members(classestoload)' = Members(classestoload)
      /\ WaitOnce(categoriestoload)' = WaitOnce(categoriestoload') /\ WaitOnce(classestoload)' = WaitOnce(classestoload)
      /\ TryOnce(work)' = TryOnce(Tail(work)) /\ Offered' = Offered
    BY <1>5, <1>8 DEF Hashes, Members, WaitOnce, TryOnce, Offered
<1>10. TypeOK'
    BY <1>2, <1>5, <1>7, <1>8, <1>9 DEF IInv, TypeOK, Item, Queue
<1>11. BusyInv'
    BY <1>1, <1>8 DEF IInv, BusyInv
<1>12. NoneLostNoneDoubled'
  <2>1. /\ Waiting = Members(categoriestoload) \cup Members(classestoload)
        /\ WaitingClasses \cap WaitingCategories = {} /\ Waiting \cap ToTry = {}
        /\ Offered \ installed = Waiting \cup ToTry
        /\ Members(categoriestoload) \cap Members(classestoload) = {}
      BY DEF IInv, NoneLostNoneDoubled, Waiting, WaitingClasses, WaitingCategories
  <2>2. Waiting' = Members(categoriestoload) \cup {x} \cup Members(classestoload)
      BY <1>7, <1>9 DEF Waiting, WaitingClasses, WaitingCategories
  <2>3. (Offered \ installed)' = Waiting' \cup ToTry'
      BY <2>1, <2>2, <1>2, <1>5, <1>8, <1>9
  <2>4. Waiting' \cap ToTry' = {}
      BY <2>1, <2>2, <1>2, <1>5
  <2>5. WaitingClasses' \cap WaitingCategories' = {}
      BY <2>1, <1>6, <1>7, <1>9 DEF WaitingClasses, WaitingCategories
  <2>6. (installed \subseteq Offered)'
      BY <1>8, <1>9 DEF IInv, NoneLostNoneDoubled
  <2> QED BY <2>3, <2>4, <2>5, <2>6, <1>2, <1>4, <1>7, <1>9 DEF NoneLostNoneDoubled
<1>13. InstalledInv'
    BY <1>8, FulfilledSame DEF IInv, InstalledInv
<1>14. WakeInv'
  <2>1. \A g \in Hashes : \A q \in {"wakeClasses", "wakeCategories"} : Woke(q, g) => Woke(q, g)'
    <3> SUFFICES ASSUME NEW g \in Hashes, NEW q \in {"wakeClasses", "wakeCategories"}, Woke(q, g)
                 PROVE  Woke(q, g)'
        OBVIOUS
    <3>1. PICK c \in ClassId : WakeItem(q, c) \in Range(work) /\ Hash[c] = g
        BY DEF Woke
    <3>2. WakeItem(q, c).do # "load"
        BY DEF WakeItem
    <3> QED BY <3>1, <3>2, <1>2, <1>5 DEF Woke
  <2>2. \A y, g : Placed(y, g)' = Placed(y, g)
      BY <1>8, FulfilledSame DEF Placed
  <2>3. Placed(x, h) /\ Kind[x] = "category"
      BY <1>3 DEF Placed, DelaysCategory
  <2>4. ASSUME NEW g \in Hashes, NEW y, y \in Range(classestoload[g])
        PROVE  /\ Kind[y] = "class"
               /\ Placed(y, g)' \/ Woke("wakeClasses", g)'
      BY <2>1, <2>2, <2>4 DEF IInv, WakeInv
  <2>5. ASSUME NEW g \in Hashes, NEW y, y \in Range(categoriestoload'[g])
        PROVE  /\ Kind[y] = "category"
               /\ Placed(y, g)' \/ Woke("wakeCategories", g)'
    <3>1. CASE y = x /\ g = h
        BY <3>1, <2>2, <2>3
    <3>2. CASE y \in Range(categoriestoload[g])
        BY <3>2, <2>1, <2>2 DEF IInv, WakeInv
    <3> QED BY <2>5, <1>7, <3>1, <3>2
  <2> QED BY <2>4, <2>5, <1>8, <1>9 DEF WakeInv
<1>15. CallInv' /\ OrderInv'
    BY <1>8 DEF IInv, CallInv, OrderInv
<1> QED BY <1>10, <1>11, <1>12, <1>13, <1>14, <1>15 DEF IInv

\* The list of classes that is taken out is tried.
LEMMA WakeClassesStep ==
    ASSUME IInv, WakeClasses
    PROVE  IInv'
<1>1. work \in Seq(Item) /\ work # <<>> /\ TryOnce(work) /\ Head(work).do = "wakeClasses"
    BY DEF IInv, TypeOK, Item, NoneLostNoneDoubled, WakeClasses, Doing, Head1
<1>2. /\ Tail(work) \in Seq(Item) /\ TryOnce(Tail(work)) /\ TryOf(work) = TryOf(Tail(work))
      /\ Range(work) = {Head(work)} \cup Range(Tail(work))
      /\ Head(work).arg \in ClassId
    BY <1>1, HeadWake
<1>3. PICK h \in Hashes : h = Hash[Head(work).arg]
    BY <1>2, LoadableAssumption DEF Hashes
<1>4. /\ classestoload \in Queue /\ categoriestoload \in Queue
      /\ classestoload' = TakenOut(classestoload, h)
      /\ WaitOnce(classestoload) /\ WaitOnce(categoriestoload)
      /\ work' = LoadAll(classestoload[h]) \o Tail(work)
    BY <1>3 DEF IInv, TypeOK, Queue, WakeClasses, TakenOut, NoneLostNoneDoubled, Woken, Head1
<1>5. PICK list : list = classestoload[h]
    OBVIOUS
<1>6. list \in Seq(Loadable) /\ IsInjective(list) /\ Range(list) \subseteq Members(classestoload)
    BY <1>4, <1>5 DEF Queue, WaitOnce, Members
<1>7. /\ LoadAll(list) \in Seq(Item) /\ TryOf(LoadAll(list)) = Range(list)
      /\ TryOnce(LoadAll(list))
    BY <1>6, LoadList
<1>8. ToTry = TryOf(work) /\ ToTry' = TryOf(work') /\ TryOnce(work)' = TryOnce(work')
    BY DEF ToTry, TryOf, TryOnce
<1>9. Range(list) \cap TryOf(Tail(work)) = {}
    BY <1>2, <1>6, <1>8 DEF IInv, NoneLostNoneDoubled, Waiting, WaitingClasses, WaitingCategories
<1>10. /\ work' \in Seq(Item) /\ TryOnce(work') /\ TryOf(work') = Range(list) \cup TryOf(work)
       /\ Range(Tail(work)) \subseteq Range(work')
  <2>1. PICK s, r, w : s = LoadAll(list) /\ r = Tail(work) /\ w = work'
      OBVIOUS
  <2>2. s \in Seq(Item) /\ r \in Seq(Item) /\ w = s \o r /\ TryOnce(s) /\ TryOnce(r)
        /\ TryOf(s) = Range(list) /\ TryOf(s) \cap TryOf(r) = {}
      BY <1>2, <1>4, <1>5, <1>7, <1>9, <2>1
  <2>3. w \in Seq(Item) /\ Range(w) = Range(s) \cup Range(r) /\ TryOf(w) = TryOf(s) \cup TryOf(r)
      BY <2>2, TryConcat
  <2>4. TryOnce(w)
      BY <2>2, TryConcat
  <2> QED BY <2>1, <2>2, <2>3, <2>4, <1>2
<1>11. /\ classestoload' \in Queue /\ WaitOnce(classestoload')
       /\ Members(classestoload') = Members(classestoload) \ Range(list)
       /\ \A g \in Hashes : Range(classestoload'[g]) = IF g = h THEN {} ELSE Range(classestoload[g])
  <2>1. PICK q, r : q = classestoload /\ r = classestoload'
      OBVIOUS
  <2>2. q \in Queue /\ r = TakenOut(q, h) /\ WaitOnce(q)
      BY <1>4, <2>1
  <2>3. r \in Queue /\ Members(r) = Members(q) \ Range(q[h])
      BY <2>2, QueueTake
  <2>4. WaitOnce(r)
      BY <2>2, QueueTake
  <2>5. \A g \in Hashes : Range(r[g]) = IF g = h THEN {} ELSE Range(q[g])
      BY <2>2, QueueTake
  <2> QED BY <2>1, <2>3, <2>4, <2>5, <1>5
<1>12. UNCHANGED <<loading, given, installed, categoriestoload, loads, called, failed, initialized>>
    BY DEF WakeClasses
<1>13. /\ Hashes' = Hashes /\ Members(classestoload)' = Members(classestoload')
       /\ Members(categoriestoload)' = Members(categoriestoload)
       /\ WaitOnce(classestoload)' = WaitOnce(classestoload') /\ WaitOnce(categoriestoload)' = WaitOnce(categoriestoload)
       /\ Offered' = Offered
    BY <1>12 DEF Hashes, Members, WaitOnce, Offered
<1>14. TypeOK'
    BY <1>10, <1>11, <1>12, <1>13 DEF IInv, TypeOK, Item, Queue
<1>15. BusyInv'
    BY <1>1, <1>12 DEF IInv, BusyInv
<1>16. NoneLostNoneDoubled'
  <2>1. /\ Waiting = Members(classestoload) \cup Members(categoriestoload)
        /\ Waiting \cap ToTry = {}
        /\ Offered \ installed = Waiting \cup ToTry
        /\ Members(classestoload) \cap Members(categoriestoload) = {}
      BY DEF IInv, NoneLostNoneDoubled, Waiting, WaitingClasses, WaitingCategories
  <2>2. Waiting' = (Members(classestoload) \ Range(list)) \cup Members(categoriestoload)
      BY <1>11, <1>13 DEF Waiting, WaitingClasses, WaitingCategories
  <2>3. (Offered \ installed)' = Waiting' \cup ToTry'
      BY <2>1, <2>2, <1>6, <1>8, <1>10, <1>12, <1>13
  <2>4. Waiting' \cap ToTry' = {}
      BY <2>1, <2>2, <1>6, <1>8, <1>10
  <2>5. WaitingClasses' \cap WaitingCategories' = {}
      BY <2>1, <1>11, <1>13 DEF WaitingClasses, WaitingCategories
  <2>6. (installed \subseteq Offered)'
      BY <1>12, <1>13 DEF IInv, NoneLostNoneDoubled
  <2> QED BY <2>3, <2>4, <2>5, <2>6, <1>4, <1>8, <1>10, <1>11, <1>13 DEF NoneLostNoneDoubled
<1>17. InstalledInv'
    BY <1>12, FulfilledSame DEF IInv, InstalledInv
<1>18. WakeInv'
  <2>1. ASSUME NEW g \in Hashes, NEW q \in {"wakeClasses", "wakeCategories"}, Woke(q, g),
               g # h \/ q # "wakeClasses"
        PROVE  Woke(q, g)'
    <3>1. PICK c \in ClassId : WakeItem(q, c) \in Range(work) /\ Hash[c] = g
        BY <2>1 DEF Woke
    <3>2. WakeItem(q, c).do = q /\ WakeItem(q, c).arg = c
        BY DEF WakeItem
    <3>3. WakeItem(q, c) # Head(work)
        BY <2>1, <3>1, <3>2, <1>1, <1>3
    <3> QED BY <3>1, <3>3, <1>2, <1>10 DEF Woke
  <2>2. \A y, g : Placed(y, g)' = Placed(y, g)
      BY <1>12, FulfilledSame DEF Placed
  <2>4. ASSUME NEW g \in Hashes, NEW y, y \in Range(categoriestoload[g])
        PROVE  /\ Kind[y] = "category"
               /\ Placed(y, g)' \/ Woke("wakeCategories", g)'
      BY <2>1, <2>2, <2>4 DEF IInv, WakeInv
  <2>5. ASSUME NEW g \in Hashes, NEW y, y \in Range(classestoload'[g])
        PROVE  /\ Kind[y] = "class"
               /\ Placed(y, g)' \/ Woke("wakeClasses", g)'
    <3>1. g # h /\ y \in Range(classestoload[g])
        BY <2>5, <1>11
    <3> QED BY <3>1, <2>1, <2>2 DEF IInv, WakeInv
  <2> QED BY <2>4, <2>5, <1>12, <1>13 DEF WakeInv
<1>19. CallInv' /\ OrderInv'
    BY <1>12 DEF IInv, CallInv, OrderInv
<1> QED BY <1>14, <1>15, <1>16, <1>17, <1>18, <1>19 DEF IInv

\* The list of categories that is taken out is tried.
LEMMA WakeCategoriesStep ==
    ASSUME IInv, WakeCategories
    PROVE  IInv'
<1>1. work \in Seq(Item) /\ work # <<>> /\ TryOnce(work) /\ Head(work).do = "wakeCategories"
    BY DEF IInv, TypeOK, Item, NoneLostNoneDoubled, WakeCategories, Doing, Head1
<1>2. /\ Tail(work) \in Seq(Item) /\ TryOnce(Tail(work)) /\ TryOf(work) = TryOf(Tail(work))
      /\ Range(work) = {Head(work)} \cup Range(Tail(work))
      /\ Head(work).arg \in ClassId
    BY <1>1, HeadWake
<1>3. PICK h \in Hashes : h = Hash[Head(work).arg]
    BY <1>2, LoadableAssumption DEF Hashes
<1>4. /\ categoriestoload \in Queue /\ classestoload \in Queue
      /\ categoriestoload' = TakenOut(categoriestoload, h)
      /\ WaitOnce(categoriestoload) /\ WaitOnce(classestoload)
      /\ work' = LoadAll(categoriestoload[h]) \o Tail(work)
    BY <1>3 DEF IInv, TypeOK, Queue, WakeCategories, TakenOut, NoneLostNoneDoubled, Woken, Head1
<1>5. PICK list : list = categoriestoload[h]
    OBVIOUS
<1>6. list \in Seq(Loadable) /\ IsInjective(list) /\ Range(list) \subseteq Members(categoriestoload)
    BY <1>4, <1>5 DEF Queue, WaitOnce, Members
<1>7. /\ LoadAll(list) \in Seq(Item) /\ TryOf(LoadAll(list)) = Range(list)
      /\ TryOnce(LoadAll(list))
    BY <1>6, LoadList
<1>8. ToTry = TryOf(work) /\ ToTry' = TryOf(work') /\ TryOnce(work)' = TryOnce(work')
    BY DEF ToTry, TryOf, TryOnce
<1>9. Range(list) \cap TryOf(Tail(work)) = {}
    BY <1>2, <1>6, <1>8 DEF IInv, NoneLostNoneDoubled, Waiting, WaitingClasses, WaitingCategories
<1>10. /\ work' \in Seq(Item) /\ TryOnce(work') /\ TryOf(work') = Range(list) \cup TryOf(work)
       /\ Range(Tail(work)) \subseteq Range(work')
  <2>1. PICK s, r, w : s = LoadAll(list) /\ r = Tail(work) /\ w = work'
      OBVIOUS
  <2>2. s \in Seq(Item) /\ r \in Seq(Item) /\ w = s \o r /\ TryOnce(s) /\ TryOnce(r)
        /\ TryOf(s) = Range(list) /\ TryOf(s) \cap TryOf(r) = {}
      BY <1>2, <1>4, <1>5, <1>7, <1>9, <2>1
  <2>3. w \in Seq(Item) /\ Range(w) = Range(s) \cup Range(r) /\ TryOf(w) = TryOf(s) \cup TryOf(r)
      BY <2>2, TryConcat
  <2>4. TryOnce(w)
      BY <2>2, TryConcat
  <2> QED BY <2>1, <2>2, <2>3, <2>4, <1>2
<1>11. /\ categoriestoload' \in Queue /\ WaitOnce(categoriestoload')
       /\ Members(categoriestoload') = Members(categoriestoload) \ Range(list)
       /\ \A g \in Hashes : Range(categoriestoload'[g]) = IF g = h THEN {} ELSE Range(categoriestoload[g])
  <2>1. PICK q, r : q = categoriestoload /\ r = categoriestoload'
      OBVIOUS
  <2>2. q \in Queue /\ r = TakenOut(q, h) /\ WaitOnce(q)
      BY <1>4, <2>1
  <2>3. r \in Queue /\ Members(r) = Members(q) \ Range(q[h])
      BY <2>2, QueueTake
  <2>4. WaitOnce(r)
      BY <2>2, QueueTake
  <2>5. \A g \in Hashes : Range(r[g]) = IF g = h THEN {} ELSE Range(q[g])
      BY <2>2, QueueTake
  <2> QED BY <2>1, <2>3, <2>4, <2>5, <1>5
<1>12. UNCHANGED <<loading, given, installed, classestoload, loads, called, failed, initialized>>
    BY DEF WakeCategories
<1>13. /\ Hashes' = Hashes /\ Members(categoriestoload)' = Members(categoriestoload')
       /\ Members(classestoload)' = Members(classestoload)
       /\ WaitOnce(categoriestoload)' = WaitOnce(categoriestoload') /\ WaitOnce(classestoload)' = WaitOnce(classestoload)
       /\ Offered' = Offered
    BY <1>12 DEF Hashes, Members, WaitOnce, Offered
<1>14. TypeOK'
    BY <1>10, <1>11, <1>12, <1>13 DEF IInv, TypeOK, Item, Queue
<1>15. BusyInv'
    BY <1>1, <1>12 DEF IInv, BusyInv
<1>16. NoneLostNoneDoubled'
  <2>1. /\ Waiting = Members(categoriestoload) \cup Members(classestoload)
        /\ Waiting \cap ToTry = {}
        /\ Offered \ installed = Waiting \cup ToTry
        /\ Members(categoriestoload) \cap Members(classestoload) = {}
      BY DEF IInv, NoneLostNoneDoubled, Waiting, WaitingClasses, WaitingCategories
  <2>2. Waiting' = (Members(categoriestoload) \ Range(list)) \cup Members(classestoload)
      BY <1>11, <1>13 DEF Waiting, WaitingClasses, WaitingCategories
  <2>3. (Offered \ installed)' = Waiting' \cup ToTry'
      BY <2>1, <2>2, <1>6, <1>8, <1>10, <1>12, <1>13
  <2>4. Waiting' \cap ToTry' = {}
      BY <2>1, <2>2, <1>6, <1>8, <1>10
  <2>5. WaitingClasses' \cap WaitingCategories' = {}
      BY <2>1, <1>11, <1>13 DEF WaitingClasses, WaitingCategories
  <2>6. (installed \subseteq Offered)'
      BY <1>12, <1>13 DEF IInv, NoneLostNoneDoubled
  <2> QED BY <2>3, <2>4, <2>5, <2>6, <1>4, <1>8, <1>10, <1>11, <1>13 DEF NoneLostNoneDoubled
<1>17. InstalledInv'
    BY <1>12, FulfilledSame DEF IInv, InstalledInv
<1>18. WakeInv'
  <2>1. ASSUME NEW g \in Hashes, NEW q \in {"wakeClasses", "wakeCategories"}, Woke(q, g),
               g # h \/ q # "wakeCategories"
        PROVE  Woke(q, g)'
    <3>1. PICK c \in ClassId : WakeItem(q, c) \in Range(work) /\ Hash[c] = g
        BY <2>1 DEF Woke
    <3>2. WakeItem(q, c).do = q /\ WakeItem(q, c).arg = c
        BY DEF WakeItem
    <3>3. WakeItem(q, c) # Head(work)
        BY <2>1, <3>1, <3>2, <1>1, <1>3
    <3> QED BY <3>1, <3>3, <1>2, <1>10 DEF Woke
  <2>2. \A y, g : Placed(y, g)' = Placed(y, g)
      BY <1>12, FulfilledSame DEF Placed
  <2>4. ASSUME NEW g \in Hashes, NEW y, y \in Range(classestoload[g])
        PROVE  /\ Kind[y] = "class"
               /\ Placed(y, g)' \/ Woke("wakeClasses", g)'
      BY <2>1, <2>2, <2>4 DEF IInv, WakeInv
  <2>5. ASSUME NEW g \in Hashes, NEW y, y \in Range(categoriestoload'[g])
        PROVE  /\ Kind[y] = "category"
               /\ Placed(y, g)' \/ Woke("wakeCategories", g)'
    <3>1. g # h /\ y \in Range(categoriestoload[g])
        BY <2>5, <1>11
    <3> QED BY <3>1, <2>1, <2>2 DEF IInv, WakeInv
  <2> QED BY <2>4, <2>5, <1>12, <1>13 DEF WakeInv
<1>19. CallInv' /\ OrderInv'
    BY <1>12 DEF IInv, CallInv, OrderInv
<1> QED BY <1>14, <1>15, <1>16, <1>17, <1>18, <1>19 DEF IInv

\* A loadable that is installed wakes those that wait for its class.
LEMMA InstallStep ==
    ASSUME IInv, NEW x \in Loadable, Installs(x)
    PROVE  IInv'
<1>1. work \in Seq(Item) /\ work # <<>> /\ TryOnce(work) /\ Head(work) = Load(x)
    BY DEF IInv, TypeOK, Item, NoneLostNoneDoubled, Installs, Head1
<1>2. /\ Tail(work) \in Seq(Item) /\ TryOnce(Tail(work))
      /\ x \notin TryOf(Tail(work)) /\ TryOf(work) = TryOf(Tail(work)) \cup {x}
      /\ \A y \in Range(work) : y.do # "load" => y \in Range(Tail(work))
    BY <1>1, HeadLoad
<1>3. PICK c \in ClassId : c = ClassOf[x]
    BY LoadableAssumption
<1>4. PICK wakes : wakes = <<WakeItem("wakeCategories", c), WakeItem("wakeClasses", c)>>
    OBVIOUS
<1>5. /\ wakes \in Seq(Item) /\ TryOf(wakes) = {} /\ TryOnce(wakes)
      /\ WakeItem("wakeCategories", c) \in Range(wakes) /\ WakeItem("wakeClasses", c) \in Range(wakes)
    BY <1>4, WakeItems
<1>6. /\ installed' = installed \cup {x} /\ work' = wakes \o Tail(work)
      /\ loads' = IF x \in HasLoad THEN Append(loads, x) ELSE loads
      /\ UNCHANGED <<loading, given, classestoload, categoriestoload, called, failed, initialized>>
    BY <1>3, <1>4 DEF Installs, Install, add_load_to_callqueue, callqueue_add, queues
<1>7. ToTry = TryOf(work) /\ ToTry' = TryOf(work') /\ TryOnce(work)' = TryOnce(work')
    BY DEF ToTry, TryOf, TryOnce
<1>8. /\ work' \in Seq(Item) /\ TryOnce(work') /\ TryOf(work') = TryOf(Tail(work))
      /\ Range(work') = Range(wakes) \cup Range(Tail(work))
  <2>1. PICK r, w : r = Tail(work) /\ w = work'
      OBVIOUS
  <2>2. r \in Seq(Item) /\ w = wakes \o r /\ TryOnce(r) /\ TryOf(wakes) \cap TryOf(r) = {}
      BY <1>2, <1>5, <1>6, <2>1
  <2>3. w \in Seq(Item) /\ Range(w) = Range(wakes) \cup Range(r) /\ TryOf(w) = TryOf(wakes) \cup TryOf(r)
      BY <2>2, <1>5, TryConcat
  <2>4. TryOnce(w)
      BY <2>2, <1>5, TryConcat
  <2> QED BY <2>1, <2>3, <2>4, <1>5
<1>9. /\ Hashes' = Hashes /\ Waiting' = Waiting /\ WaitingClasses' = WaitingClasses
      /\ WaitingCategories' = WaitingCategories /\ Offered' = Offered
      /\ WaitOnce(classestoload)' = WaitOnce(classestoload)
      /\ WaitOnce(categoriestoload)' = WaitOnce(categoriestoload)
    BY <1>6 DEF Hashes, Members, WaitOnce, Offered, Waiting, WaitingClasses, WaitingCategories
<1>10. x \notin installed /\ installed \subseteq Loadable /\ loads \in Seq(Loadable)
    BY <1>2, <1>7 DEF IInv, NoneLostNoneDoubled, TypeOK
<1>11. loads' \in Seq(Loadable)
    BY <1>6, <1>10
<1>12. TypeOK'
    BY <1>6, <1>8, <1>9, <1>11 DEF IInv, TypeOK, Item
<1>13. BusyInv'
    BY <1>1, <1>6 DEF IInv, BusyInv
<1>14. NoneLostNoneDoubled'
  <2>1. (Offered \ installed)' = Waiting' \cup ToTry'
      BY <1>2, <1>6, <1>7, <1>8, <1>9 DEF IInv, NoneLostNoneDoubled
  <2>2. (Waiting \cap ToTry)' = {}
      BY <1>2, <1>7, <1>8, <1>9 DEF IInv, NoneLostNoneDoubled
  <2>3. (installed \subseteq Offered)'
      BY <1>2, <1>6, <1>7, <1>9 DEF IInv, NoneLostNoneDoubled
  <2> QED BY <2>1, <2>2, <2>3, <1>7, <1>8, <1>9 DEF IInv, NoneLostNoneDoubled
<1>15. InstalledInv'
  <2> SUFFICES ASSUME NEW y \in installed \cup {x}, NEW d \in Range(Requirements(y))
               PROVE  Fulfilled(d)'
      BY <1>6 DEF InstalledInv
  <2>1. Fulfilled(d)
      BY DEF IInv, InstalledInv, Installs
  <2> QED BY <2>1, <1>6, FulfilledGrows
<1>16. WakeInv'
  <2>1. ASSUME NEW g \in Hashes, NEW q \in {"wakeClasses", "wakeCategories"}, Woke(q, g)
        PROVE  Woke(q, g)'
    <3>1. PICK d \in ClassId : WakeItem(q, d) \in Range(work) /\ Hash[d] = g
        BY <2>1 DEF Woke
    <3>2. WakeItem(q, d).do # "load"
        BY DEF WakeItem
    <3> QED BY <3>1, <3>2, <1>2, <1>8 DEF Woke
  <2>2. ASSUME NEW g \in Hashes, NEW q \in {"wakeClasses", "wakeCategories"}, NEW y \in Loadable, Placed(y, g)
        PROVE  Placed(y, g)' \/ Woke(q, g)'
    <3>1. CASE Missing(y)' = Missing(y)
        BY <2>2, <3>1 DEF Placed
    <3>2. CASE Missing(y) = c
      <4>1. Hash[c] = g
          BY <2>2, <3>2 DEF Placed
      <4>2. WakeItem(q, c) \in Range(work')
          BY <1>5, <1>8
      <4> QED BY <4>1, <4>2 DEF Woke
    <3> QED BY <3>1, <3>2, <1>3, <1>6, MissingStays
  <2>3. ASSUME NEW g \in Hashes, NEW y, y \in Range(classestoload[g])
        PROVE  Kind[y] = "class" /\ (Placed(y, g)' \/ Woke("wakeClasses", g)')
    <3>1. y \in Loadable
        BY <2>3 DEF IInv, TypeOK, Range
    <3> QED BY <2>1, <2>2, <2>3, <3>1 DEF IInv, WakeInv
  <2>4. ASSUME NEW g \in Hashes, NEW y, y \in Range(categoriestoload[g])
        PROVE  Kind[y] = "category" /\ (Placed(y, g)' \/ Woke("wakeCategories", g)')
    <3>1. y \in Loadable
        BY <2>4 DEF IInv, TypeOK, Range
    <3> QED BY <2>1, <2>2, <2>4, <3>1 DEF IInv, WakeInv
  <2> QED BY <2>3, <2>4, <1>6, <1>9 DEF WakeInv
<1>17. CASE x \notin HasLoad
  <2>1. UNCHANGED <<loads, called>> /\ (installed \cap HasLoad)' = installed \cap HasLoad
      BY <1>6, <1>17
  <2> QED BY <2>1, <1>12, <1>13, <1>14, <1>15, <1>16 DEF IInv, CallInv, OrderInv
<1>18. CASE x \in HasLoad
  <2>1. loads' = Append(loads, x) /\ called' = called
      BY <1>6, <1>18
  <2>2. Range(loads') = Range(loads) \cup {x} /\ (IsInjective(loads) /\ x \notin Range(loads) => IsInjective(loads'))
      BY <1>10, <2>1, AppendRange
  <2>3. CallInv'
      BY <1>6, <1>10, <1>18, <2>1, <2>2 DEF IInv, CallInv
  <2>4. OrderInv'
    <3> SUFFICES ASSUME NEW n \in DOMAIN loads', NEW y \in (installed \cup {x}) \cap HasLoad,
                        Provides(y) \in Range(Requirements(loads'[n]))
                 PROVE  y \in Range(called) \/ \E m \in DOMAIN loads' : m < n /\ loads'[m] = y
        BY <1>6, <2>1 DEF OrderInv, Provides
    <3>1. /\ Len(loads) \in Nat /\ DOMAIN loads = 1..Len(loads) /\ DOMAIN loads' = 1..(Len(loads) + 1)
          /\ loads'[Len(loads) + 1] = x /\ \A m \in 1..Len(loads) : loads'[m] = loads[m]
        BY <1>10, <2>1
    <3>2. y # x
      <4>1. loads'[n] \in installed \cup {x}
          BY <3>1, <2>2, <1>6 DEF Range, IInv, CallInv
      <4>2. Fulfilled(Provides(y))
          BY <4>1 DEF IInv, InstalledInv, Installs
      <4>3. Provides(x) \in Dependency /\ Provides(x)[1] # NoClass
          BY LoadableAssumption DEF Provides, Dependency
      <4>4. SUFFICES ASSUME y = x PROVE FALSE
          OBVIOUS
      <4>5. \E z \in installed : Provides(z) = Provides(x)
          BY <4>2, <4>3, <4>4, <1>10, FulfilledIsProvided DEF IInv
      <4> QED BY <4>5 DEF Installs
    <3>3. CASE n \in DOMAIN loads
      <4>1. y \in Range(called) \/ \E m \in DOMAIN loads : m < n /\ loads[m] = y
          BY <3>1, <3>2, <3>3 DEF IInv, OrderInv
      <4> QED BY <3>1, <4>1
    <3>4. CASE n = Len(loads) + 1
      <4>1. y \in Range(called) \cup Range(loads)
          BY <3>2 DEF IInv, CallInv
      <4>2. y \in Range(loads) => \E m \in DOMAIN loads' : m < n /\ loads'[m] = y
          BY <3>1, <3>4 DEF Range
      <4> QED BY <4>1, <4>2
    <3> QED BY <3>1, <3>3, <3>4
  <2> QED BY <2>3, <2>4, <1>12, <1>13, <1>14, <1>15, <1>16 DEF IInv
<1> QED BY <1>17, <1>18

\* steps that leave the queues, the work and what is installed alone keep most of IInv
LEMMA QueuesAlone ==
    ASSUME IInv, UNCHANGED <<given, installed, classestoload, categoriestoload, work>>
    PROVE  NoneLostNoneDoubled' /\ InstalledInv' /\ WakeInv'
<1>1. NoneLostNoneDoubled'
  <2>1. WaitingClasses' = WaitingClasses /\ WaitingCategories' = WaitingCategories /\ ToTry' = ToTry
        /\ Offered' = Offered /\ Waiting' = Waiting
      BY DEF Hashes, Members, ToTry, Offered, Waiting, WaitingClasses, WaitingCategories
  <2>2. WaitOnce(classestoload)' = WaitOnce(classestoload)
        /\ WaitOnce(categoriestoload)' = WaitOnce(categoriestoload) /\ TryOnce(work)' = TryOnce(work)
      BY DEF Hashes, WaitOnce, TryOnce
  <2> QED BY <2>1, <2>2 DEF IInv, NoneLostNoneDoubled
<1>2. InstalledInv'
    BY FulfilledSame DEF IInv, InstalledInv
<1>3. WakeInv'
  <2>1. \A y, g : Placed(y, g)' = Placed(y, g)
      BY FulfilledSame DEF Placed
  <2>2. \A q, g : Woke(q, g)' = Woke(q, g)
      BY DEF Woke
  <2> QED BY <2>1, <2>2 DEF IInv, WakeInv, Hashes
<1> QED BY <1>1, <1>2, <1>3

\* The +load at the head of the queue is called.
LEMMA CallLoadStep ==
    ASSUME IInv, CallLoad
    PROVE  IInv'
<1>1. /\ loading # NoInfo /\ loads # <<>> /\ called' = Append(called, Head(loads)) /\ loads' = Tail(loads)
      /\ UNCHANGED <<loading, given, installed, classestoload, categoriestoload, work, failed, initialized>>
    BY DEF CallLoad, queues
<1>2. loads \in Seq(Loadable) /\ called \in Seq(Loadable)
    BY DEF IInv, TypeOK
<1>3. /\ Head(loads) \in Loadable /\ Tail(loads) \in Seq(Loadable)
      /\ Range(loads) = {Head(loads)} \cup Range(Tail(loads))
      /\ (IsInjective(loads) => IsInjective(Tail(loads)) /\ Head(loads) \notin Range(Tail(loads)))
    BY <1>1, <1>2, HeadTail
<1>4. /\ called' \in Seq(Loadable) /\ Range(called') = Range(called) \cup {Head(loads)}
      /\ (IsInjective(called) /\ Head(loads) \notin Range(called) => IsInjective(called'))
    BY <1>1, <1>2, <1>3, AppendRange
<1>5. TypeOK'
    BY <1>1, <1>3, <1>4 DEF IInv, TypeOK, Hashes
<1>6. BusyInv'
    BY <1>1 DEF BusyInv
<1>7. CallInv'
    BY <1>1, <1>3, <1>4 DEF IInv, CallInv
<1>8. OrderInv'
  <2> SUFFICES ASSUME NEW n \in DOMAIN Tail(loads), NEW y \in installed \cap HasLoad,
                      Provides(y) \in Range(Requirements(Tail(loads)[n]))
               PROVE  y \in Range(called') \/ \E m \in DOMAIN Tail(loads) : m < n /\ Tail(loads)[m] = y
      BY <1>1 DEF OrderInv, Provides
  <2>1. /\ Len(loads) \in Nat \ {0} /\ DOMAIN loads = 1..Len(loads) /\ DOMAIN Tail(loads) = 1..(Len(loads) - 1)
        /\ Head(loads) = loads[1] /\ \A m \in 1..(Len(loads) - 1) : Tail(loads)[m] = loads[m + 1]
      BY <1>1, <1>2
  <2>2. n + 1 \in DOMAIN loads /\ Tail(loads)[n] = loads[n + 1]
      BY <2>1
  <2>3. y \in Range(called) \/ \E m \in DOMAIN loads : m < n + 1 /\ loads[m] = y
      BY <2>2 DEF IInv, OrderInv
  <2>4. ASSUME NEW m \in DOMAIN loads, m < n + 1, loads[m] = y, m # 1
        PROVE  \E k \in DOMAIN Tail(loads) : k < n /\ Tail(loads)[k] = y
    <3>1. m - 1 \in DOMAIN Tail(loads) /\ m - 1 < n /\ Tail(loads)[m - 1] = y
        BY <2>1, <2>4
    <3> QED BY <3>1
  <2>5. loads[1] \in Range(called')
      BY <2>1, <1>4
  <2> QED BY <2>3, <2>4, <2>5, <1>4
<1> QED BY <1>1, <1>5, <1>6, <1>7, <1>8, QueuesAlone DEF IInv

\* The lock is released.
LEMMA UnlockStep ==
    ASSUME IInv, Unlock
    PROVE  IInv'
<1>1. /\ work = <<>> /\ loads = <<>> /\ loading' = NoInfo
      /\ UNCHANGED <<given, installed, classestoload, categoriestoload, work, loads, called, failed, initialized>>
    BY DEF Unlock, queues
<1>2. TypeOK' /\ BusyInv' /\ CallInv' /\ OrderInv'
    BY <1>1 DEF IInv, TypeOK, Hashes, BusyInv, CallInv, OrderInv
<1> QED BY <1>1, <1>2, QueuesAlone DEF IInv

\* A class is messaged.
LEMMA MessageStep ==
    ASSUME IInv, NEW x \in Loadable, Message(x)
    PROVE  IInv'
<1>1. /\ x \in installed /\ initialized' = initialized \cup {x}
      /\ UNCHANGED <<loading, given, installed, classestoload, categoriestoload, work, loads, called, failed>>
    BY DEF Message, queues
<1>2. TypeOK' /\ BusyInv' /\ CallInv' /\ OrderInv'
    BY <1>1 DEF IInv, TypeOK, Hashes, BusyInv, CallInv, OrderInv
<1> QED BY <1>1, <1>2, QueuesAlone DEF IInv

\* The program is aborted, or nothing happens.
LEMMA FailStep ==
    ASSUME IInv, Fail \/ UNCHANGED vars
    PROVE  IInv'
<1>1. /\ failed' \in {TRUE, failed}
      /\ UNCHANGED <<loading, given, installed, classestoload, categoriestoload, work, loads, called, initialized>>
    BY DEF Fail, queues, vars
<1>2. TypeOK' /\ BusyInv' /\ CallInv' /\ OrderInv'
    BY <1>1 DEF IInv, TypeOK, Hashes, BusyInv, CallInv, OrderInv
<1> QED BY <1>1, <1>2, QueuesAlone DEF IInv

\* The lists of a loadinfo come one after the other.
LEMMA BeginWork ==
    ASSUME NEW i \in Info, NEW w,
           w = loadclasslist_enqueue(i) \o loadmixinlist_enqueue(i) \o loadcategorylist_enqueue(i)
    PROVE  w \in Seq(Item) /\ TryOnce(w) /\ TryOf(w) = Contents(i) /\ Contents(i) \subseteq Loadable
<1>1. PICK r, s, t : r = i.loadclasslist /\ s = i.loadmixinlist /\ t = i.loadcategorylist
    OBVIOUS
<1>2. /\ r \in Seq(Loadable) /\ s \in Seq(Loadable) /\ t \in Seq(Loadable)
      /\ IsInjective(r) /\ IsInjective(s) /\ IsInjective(t)
      /\ Range(r) \cap Range(s) = {} /\ Range(r) \cap Range(t) = {} /\ Range(s) \cap Range(t) = {}
  <2>1. r \in Lists("class") /\ s \in Lists("mixin") /\ t \in Lists("category")
      BY <1>1, InfoAssumption
  <2> QED BY <2>1 DEF Lists
<1>3. Range(r) \subseteq Loadable /\ Range(s) \subseteq Loadable /\ Range(t) \subseteq Loadable
    BY <1>2 DEF Range
<1>4. PICK a, b, c : a = LoadAll(r) /\ b = LoadAll(s) /\ c = LoadAll(t)
    OBVIOUS
<1>5. w = a \o b \o c
    BY <1>1, <1>4 DEF loadclasslist_enqueue, loadmixinlist_enqueue, loadcategorylist_enqueue
<1>6. a \in Seq(Item) /\ TryOf(a) = Range(r) /\ TryOnce(a)
    BY <1>2, <1>4, LoadList
<1>7. b \in Seq(Item) /\ TryOf(b) = Range(s) /\ TryOnce(b)
    BY <1>2, <1>4, LoadList
<1>8. c \in Seq(Item) /\ TryOf(c) = Range(t) /\ TryOnce(c)
    BY <1>2, <1>4, LoadList
<1>9. PICK ab : ab = a \o b
    OBVIOUS
<1>10. ab \in Seq(Item) /\ TryOf(ab) = TryOf(a) \cup TryOf(b)
    BY <1>6, <1>7, <1>9, TryConcat
<1>11. TryOnce(ab)
    BY <1>2, <1>6, <1>7, <1>9, TryConcat
<1>12. w \in Seq(Item) /\ TryOf(w) = TryOf(ab) \cup TryOf(c)
    BY <1>5, <1>8, <1>9, <1>10, TryConcat
<1>13. TryOf(ab) \cap TryOf(c) = {}
    BY <1>2, <1>6, <1>7, <1>8, <1>10
<1>14. TryOnce(w)
  <2>1. w = ab \o c
      BY <1>5, <1>9
  <2>2. TryOnce(ab \o c)
      BY <1>8, <1>10, <1>11, <1>13, TryConcat
  <2> QED BY <2>1, <2>2
<1> QED BY <1>1, <1>3, <1>6, <1>7, <1>8, <1>10, <1>12, <1>14 DEF Contents

\* A loadinfo is taken on.
LEMMA BeginStep ==
    ASSUME IInv, NEW i \in Info, Begin(i)
    PROVE  /\ IInv' /\ Contents(i) \subseteq Loadable \ Offered
           /\ Offered' = Offered \cup Contents(i)
<1>1. /\ loading = NoInfo /\ i \notin given /\ loading' = i /\ given' = given \cup {i}
      /\ work' = loadclasslist_enqueue(i) \o loadmixinlist_enqueue(i) \o loadcategorylist_enqueue(i)
      /\ UNCHANGED <<installed, classestoload, categoriestoload, loads, called, failed, initialized>>
    BY DEF Begin, queues
<1>2. /\ work' \in Seq(Item) /\ TryOnce(work') /\ TryOf(work') = Contents(i)
      /\ Contents(i) \subseteq Loadable
  <2>1. PICK w : w = work'
      OBVIOUS
  <2>2. w \in Seq(Item) /\ TryOnce(w) /\ TryOf(w) = Contents(i) /\ Contents(i) \subseteq Loadable
      BY <1>1, <2>1, BeginWork
  <2> QED BY <2>1, <2>2
<1>3. Offered' = Offered \cup Contents(i)
    BY <1>1 DEF Offered
<1>4. Contents(i) \cap Offered = {}
  <2> SUFFICES ASSUME NEW j \in given, Contents(i) \cap Contents(j) # {} PROVE FALSE
      BY DEF Offered
  <2>1. j \in Info
      BY DEF IInv, TypeOK
  <2> QED BY <2>1, <1>1, InfoAssumption
<1>5. work = <<>> /\ loads = <<>> /\ loading' # NoInfo
    BY <1>1, LoadableAssumption DEF IInv, BusyInv
<1>6. TypeOK'
    BY <1>1, <1>2 DEF IInv, TypeOK, Hashes, Item
<1>7. BusyInv' /\ CallInv' /\ OrderInv'
    BY <1>1, <1>5 DEF IInv, BusyInv, CallInv, OrderInv
<1>8. /\ Waiting' = Waiting /\ WaitingClasses' = WaitingClasses /\ WaitingCategories' = WaitingCategories
      /\ WaitOnce(classestoload)' = WaitOnce(classestoload)
      /\ WaitOnce(categoriestoload)' = WaitOnce(categoriestoload)
      /\ ToTry' = TryOf(work') /\ TryOnce(work)' = TryOnce(work') /\ ToTry = {}
    BY <1>1, <1>5 DEF Hashes, Members, WaitOnce, Waiting, WaitingClasses, WaitingCategories, ToTry, TryOf,
                      TryOnce, Range
<1>9. NoneLostNoneDoubled'
  <2>1. (installed \subseteq Offered)' /\ (Offered \ installed)' = Waiting' \cup ToTry'
      BY <1>1, <1>2, <1>3, <1>4, <1>8 DEF IInv, NoneLostNoneDoubled
  <2>2. (Waiting \cap ToTry)' = {}
      BY <1>2, <1>4, <1>8 DEF IInv, NoneLostNoneDoubled
  <2> QED BY <2>1, <2>2, <1>2, <1>8 DEF IInv, NoneLostNoneDoubled
<1>10. InstalledInv'
    BY <1>1, FulfilledSame DEF IInv, InstalledInv
<1>11. WakeInv'
  <2>1. \A y, g : Placed(y, g)' = Placed(y, g)
      BY <1>1, FulfilledSame DEF Placed
  <2>2. \A q, g : ~ Woke(q, g)
      BY <1>5 DEF Woke, Range
  <2> QED BY <2>1, <2>2, <1>1 DEF IInv, WakeInv, Hashes
<1> QED BY <1>2, <1>3, <1>4, <1>6, <1>7, <1>9, <1>10, <1>11 DEF IInv

----------------------------------------------------------------------------
(* Theorems *)

\* Nothing is loaded at first.
LEMMA InitInv == Init => IInv
<1> SUFFICES ASSUME Init PROVE IInv
    OBVIOUS
<1>1. /\ loading = NoInfo /\ given = {} /\ installed = {} /\ work = <<>> /\ loads = <<>> /\ called = <<>>
      /\ failed = FALSE /\ initialized = {}
      /\ classestoload = [h \in Hashes |-> <<>>] /\ categoriestoload = [h \in Hashes |-> <<>>]
    BY DEF Init, Hashes
<1>2. Range(<<>>) = {} /\ IsInjective(<<>>) /\ DOMAIN (<<>>) = {} /\ \A S : <<>> \in Seq(S)
    BY DEF Range, IsInjective
<1>3. TypeOK
    BY <1>1, <1>2 DEF TypeOK
<1>4. \A h \in Hashes : classestoload[h] = <<>> /\ categoriestoload[h] = <<>>
    BY <1>1
<1>5. WaitingClasses = {} /\ WaitingCategories = {} /\ Waiting = {}
    BY <1>2, <1>4 DEF WaitingClasses, WaitingCategories, Waiting, Members
<1>6. ToTry = {} /\ Offered = {}
    BY <1>1, <1>2 DEF ToTry, Offered
<1>7. WaitOnce(classestoload) /\ WaitOnce(categoriestoload) /\ TryOnce(work)
    BY <1>1, <1>2, <1>4 DEF WaitOnce, TryOnce
<1>8. NoneLostNoneDoubled
    BY <1>1, <1>5, <1>6, <1>7 DEF NoneLostNoneDoubled
<1>9. BusyInv /\ InstalledInv
    BY <1>1 DEF BusyInv, InstalledInv
<1>10. WakeInv
    BY <1>2, <1>4 DEF WakeInv
<1>11. CallInv /\ OrderInv
    BY <1>1, <1>2 DEF CallInv, OrderInv
<1> QED BY <1>3, <1>8, <1>9, <1>10, <1>11 DEF IInv

\* No step breaks the invariant.
LEMMA NextInv == IInv /\ [Next]_vars => IInv'
<1> SUFFICES ASSUME IInv, [Next]_vars PROVE IInv'
    OBVIOUS
<1>1. CASE LoadClass \/ LoadMixin \/ LoadCategory
  <2>1. TypeOK
      BY DEF IInv
  <2>2. Fail \/ \E x \in Loadable : Installs(x) \/ DelaysClass(x) \/ DelaysCategory(x)
      BY <1>1, <2>1, LoadSteps
  <2> QED BY <2>2, FailStep, InstallStep, DelayClassStep, DelayCategoryStep
<1>2. CASE WakeCategories
    BY <1>2, WakeCategoriesStep
<1>3. CASE WakeClasses
    BY <1>3, WakeClassesStep
<1>4. CASE CallLoad
    BY <1>4, CallLoadStep
<1>5. CASE Unlock
    BY <1>5, UnlockStep
<1>6. CASE \E i \in Info : Begin(i)
    BY <1>6, BeginStep
<1>7. CASE \E x \in Loadable : Message(x)
    BY <1>7, MessageStep
<1>8. CASE UNCHANGED vars
    BY <1>8, FailStep
<1> QED BY <1>1, <1>2, <1>3, <1>4, <1>5, <1>6, <1>7, <1>8 DEF Next, Step

\* The invariant holds for every program and every order of its loadinfos.
THEOREM LoadInductive == Spec => []IInv
BY InitInv, NextInv, PTL DEF Spec

\* When the lock is free, who waits misses something and waits where it will be woken.
LEMMA WaitersFollow ==
    ASSUME IInv, work = <<>>
    PROVE  /\ \A x \in Waiting : Missing(x) # NoClass /\ x \in Loadable
           /\ \A h \in Hashes : \A x \in Range(classestoload[h]) :
                 Kind[x] = "class" /\ Hash[Missing(x)] = h
           /\ \A h \in Hashes : \A x \in Range(categoriestoload[h]) :
                 Kind[x] = "category" /\ Hash[Missing(x)] = h
<1>1. \A q, h : ~ Woke(q, h)
    BY DEF Woke, Range
<1>2. \A h \in Hashes : \A x \in Range(classestoload[h]) :
         x \in Loadable /\ Kind[x] = "class" /\ Missing(x) # NoClass /\ Hash[Missing(x)] = h
    BY <1>1 DEF IInv, WakeInv, Placed, TypeOK, Range
<1>3. \A h \in Hashes : \A x \in Range(categoriestoload[h]) :
         x \in Loadable /\ Kind[x] = "category" /\ Missing(x) # NoClass /\ Hash[Missing(x)] = h
    BY <1>1 DEF IInv, WakeInv, Placed, TypeOK, Range
<1> QED BY <1>2, <1>3 DEF Waiting, WaitingClasses, WaitingCategories, Members

\* Whatever was given to the loader is installed, waits for something that is
\* missing, or is about to be tried, and none of it twice; the report of what is
\* stuck explains itself; +load is called once (load.c 290-330, 870-990, 1735-1934).
THEOREM LoaderLosesNothing == Spec => []NothingLost
<1>1. IInv => NothingLost
  <2> SUFFICES ASSUME IInv PROVE NothingLost
      OBVIOUS
  <2>0. loading = NoInfo => work = <<>>
      BY DEF IInv, BusyInv
  <2>1. WaitersMissSomething
    <3> SUFFICES ASSUME loading = NoInfo, NEW x \in Waiting
                 PROVE  /\ Missing(x) # NoClass
                        /\ x \in Range((IF Kind[x] = "category" THEN categoriestoload
                                        ELSE classestoload)[Hash[Missing(x)]])
        BY DEF WaitersMissSomething
    <3>1. Missing(x) # NoClass
        BY <2>0, WaitersFollow
    <3>2. CASE x \in WaitingClasses
      <4>1. PICK h \in Hashes : x \in Range(classestoload[h])
          BY <3>2 DEF WaitingClasses, Members
      <4>2. Kind[x] = "class" /\ Hash[Missing(x)] = h
          BY <2>0, <4>1, WaitersFollow
      <4> QED BY <3>1, <4>1, <4>2
    <3>3. CASE x \in WaitingCategories
      <4>1. PICK h \in Hashes : x \in Range(categoriestoload[h])
          BY <3>3 DEF WaitingCategories, Members
      <4>2. Kind[x] = "category" /\ Hash[Missing(x)] = h
          BY <2>0, <4>1, WaitersFollow
      <4> QED BY <3>1, <4>1, <4>2
    <3> QED BY <3>2, <3>3 DEF Waiting
  <2>2. ReportExplains
    <3> SUFFICES ASSUME loading = NoInfo
                 PROVE  /\ \A x \in WaitingClasses : loadclass_print_unfulfilled_dependency(x) # {}
                        /\ \A x \in WaitingCategories : loadcategory_print_unfulfilled_dependency(x) # {}
                        /\ \A e \in Report : \A x \in Offered : Provides(x) = e.for => x \in Waiting
        BY DEF ReportExplains, Provides
    <3>1. \A x \in Waiting : Missing(x) # NoClass /\ x \in Loadable /\ Unfulfilled(x)[1] # NoClass
        BY <2>0, WaitersFollow DEF Missing
    <3>2. \A x \in WaitingClasses : loadclass_print_unfulfilled_dependency(x) # {}
        BY <3>1 DEF loadclass_print_unfulfilled_dependency, Waiting
    <3>3. \A x \in WaitingCategories : loadcategory_print_unfulfilled_dependency(x) # {}
        BY <3>1 DEF loadcategory_print_unfulfilled_dependency, Waiting
    <3>4. \A e \in Report : \E y \in Waiting : e.for = Unfulfilled(y)
        BY DEF Report, Waiting, loadclass_print_unfulfilled_dependency,
               loadcategory_print_unfulfilled_dependency
    <3>5. ASSUME NEW y \in Waiting, NEW x \in Offered, Provides(x) = Unfulfilled(y)
          PROVE  x \in Waiting
      <4>1. y \in Loadable /\ Missing(y) # NoClass
          BY <3>1
      <4>2. Unfulfilled(y) \in Range(Requirements(y)) /\ ~ Fulfilled(Unfulfilled(y))
          BY <4>1, MissingFirst
      <4>3. Unfulfilled(y) \in Dependency /\ Unfulfilled(y)[1] # NoClass
          BY <4>1, <4>2, <3>1, RequirementsType DEF Range
      <4>4. x \notin installed
          BY <4>2, <4>3, <3>5, FulfilledIsProvided DEF IInv, TypeOK
      <4>5. ToTry = {}
          BY <2>0 DEF ToTry, Range
      <4> QED BY <4>4, <4>5 DEF IInv, NoneLostNoneDoubled
    <3> QED BY <3>2, <3>3, <3>4, <3>5
  <2> QED BY <2>1, <2>2 DEF NothingLost, IInv, CallInv, LoadOnce
<1> QED BY <1>1, LoadInductive, PTL

----------------------------------------------------------------------------
(* The loader implements LoadOrder *)

\* what LoadOrder calls Needs and Provided
LEMMA Needed ==
    ASSUME IInv, NEW x \in Loadable
    PROVE  (\A d \in Range(Requirements(x)) : Fulfilled(d))
              <=> {d \in Range(Requirements(x)) : d[1] # NoClass} \subseteq {Provides(y) : y \in installed}
<1>1. \A d \in Range(Requirements(x)) : d \in Dependency
    BY RequirementsType DEF Range
<1>2. \A d \in Dependency : d[1] # NoClass => (Fulfilled(d) <=> d \in {Provides(y) : y \in installed})
    BY FulfilledIsProvided DEF IInv, TypeOK
<1>3. \A d \in Dependency : d[1] = NoClass => Fulfilled(d)
    BY DEF Fulfilled
<1> QED BY <1>1, <1>2, <1>3

\* the beginning of LoadQueue is one of LoadOrder
LEMMA AbstractInit == Init => Abstract!Init
BY DEF Init, Abstract!Init, Offered, Range

\* A loadable is installed when LoadOrder allows it.
LEMMA AbstractInstall ==
    ASSUME IInv, NEW x \in Loadable, Installs(x)
    PROVE  Abstract!Install(x)
<1>1. work \in Seq(Item) /\ work # <<>> /\ TryOnce(work) /\ Head(work) = Load(x)
    BY DEF IInv, TypeOK, Item, NoneLostNoneDoubled, Installs, Head1
<1>2. x \in TryOf(work)
    BY <1>1, HeadLoad
<1>3. x \in Offered \ installed
    BY <1>2 DEF IInv, NoneLostNoneDoubled, ToTry, TryOf
<1>4. {d \in Range(Requirements(x)) : d[1] # NoClass} \subseteq {Provides(y) : y \in installed}
    BY Needed DEF Installs
<1>5. {Provides(y) : y \in installed} = Abstract!Provided
    BY DEF Provides, Abstract!Provided, IInv, TypeOK
<1>6. Abstract!Installable(x)
    BY <1>3, <1>4, <1>5 DEF Abstract!Installable
<1>7. loading # NoInfo
    BY <1>1 DEF IInv, BusyInv
<1>8. installed' = installed \cup {x} /\ loading' = loading /\ Offered' = Offered /\ Range(called)' = Range(called)
    BY DEF Installs, Install, Offered
<1> QED BY <1>6, <1>7, <1>8 DEF Abstract!Install

\* A +load is called when LoadOrder allows it.
LEMMA AbstractCallLoad ==
    ASSUME IInv, CallLoad
    PROVE  \E x \in Loadable : Abstract!CallLoad(x)
<1>1. /\ loading # NoInfo /\ loads # <<>> /\ called' = Append(called, Head(loads))
      /\ loading' = loading /\ given' = given /\ installed' = installed
    BY DEF CallLoad
<1>2. loads \in Seq(Loadable) /\ called \in Seq(Loadable)
    BY DEF IInv, TypeOK
<1>3. PICK x \in Loadable : x = Head(loads)
    BY <1>1, <1>2
<1>4. 1 \in DOMAIN loads /\ loads[1] = x /\ ~ \E m \in DOMAIN loads : m < 1
    BY <1>1, <1>2, <1>3
<1>5. x \in (installed \cap HasLoad) \ Range(called)
    BY <1>4 DEF IInv, CallInv, Range
<1>6. \A y \in installed \cap HasLoad : Provides(y) \in Range(Requirements(x)) => y \in Range(called)
    BY <1>4 DEF IInv, OrderInv
<1>7. Range(called') = Range(called) \cup {x}
    BY <1>1, <1>2, <1>3, AppendRange
<1>8. installed \subseteq Loadable
    BY DEF IInv, TypeOK
<1>9. Offered' = Offered
    BY <1>1 DEF Offered
<1>10. Abstract!CallLoad(x)
    BY <1>1, <1>5, <1>6, <1>7, <1>8, <1>9 DEF Abstract!CallLoad, Provides
<1> QED BY <1>10

\* When the lock is released nothing is left that could be installed.
LEMMA AbstractFinish ==
    ASSUME IInv, Unlock
    PROVE  Abstract!Finish
<1>1. /\ loading # NoInfo /\ work = <<>> /\ loads = <<>> /\ loading' = NoInfo
      /\ given' = given /\ installed' = installed /\ called' = called
    BY DEF Unlock
<1>2. \A x \in Loadable : ~ Abstract!Installable(x)
  <2> SUFFICES ASSUME NEW x \in Loadable, Abstract!Installable(x) PROVE FALSE
      OBVIOUS
  <2>1. x \in Offered \ installed /\ {d \in Range(Requirements(x)) : d[1] # NoClass} \subseteq Abstract!Provided
      BY DEF Abstract!Installable
  <2>2. {Provides(y) : y \in installed} = Abstract!Provided
      BY DEF Provides, Abstract!Provided, IInv, TypeOK
  <2>3. \A d \in Range(Requirements(x)) : Fulfilled(d)
      BY <2>1, <2>2, Needed
  <2>4. Missing(x) = NoClass
      BY <2>3, MissingFirst
  <2>5. ToTry = {}
      BY <1>1 DEF ToTry, Range
  <2>6. x \in Waiting
      BY <2>1, <2>5 DEF IInv, NoneLostNoneDoubled
  <2> QED BY <2>4, <2>6, <1>1, WaitersFollow
<1>3. installed \cap HasLoad \subseteq Range(called)
    BY <1>1 DEF IInv, CallInv, Range
<1>4. Offered' = Offered
    BY <1>1 DEF Offered
<1> QED BY <1>1, <1>2, <1>3, <1>4 DEF Abstract!Finish

\* Every step of the loader is one that LoadOrder knows, or none.
LEMMA AbstractStep == IInv /\ [Next]_vars => [Abstract!Next]_(Abstract!vars)
<1> SUFFICES ASSUME IInv, [Next]_vars PROVE [Abstract!Next]_(Abstract!vars)
    OBVIOUS
<1>0. ASSUME UNCHANGED <<loading, given, installed, called>> PROVE UNCHANGED Abstract!vars
    BY <1>0 DEF Abstract!vars, Offered
<1>1. CASE LoadClass \/ LoadMixin \/ LoadCategory
  <2>1. TypeOK
      BY DEF IInv
  <2>2. Fail \/ \E x \in Loadable : Installs(x) \/ DelaysClass(x) \/ DelaysCategory(x)
      BY <1>1, <2>1, LoadSteps
  <2>3. ASSUME NEW x \in Loadable, Installs(x) PROVE Abstract!Next
      BY <2>3, AbstractInstall DEF Abstract!Next
  <2>4. Fail => UNCHANGED <<loading, given, installed, called>>
      BY DEF Fail
  <2>5. \A x \in Loadable : DelaysClass(x) \/ DelaysCategory(x) => UNCHANGED <<loading, given, installed, called>>
      BY DEF DelaysClass, DelaysCategory
  <2> QED BY <2>2, <2>3, <2>4, <2>5, <1>0
<1>2. CASE WakeCategories \/ WakeClasses
    BY <1>0, <1>2 DEF WakeCategories, WakeClasses
<1>3. CASE CallLoad
    BY <1>3, AbstractCallLoad DEF Abstract!Next
<1>4. CASE Unlock
    BY <1>4, AbstractFinish DEF Abstract!Next
<1>5. CASE \E i \in Info : Begin(i)
  <2>1. PICK i \in Info : Begin(i)
      BY <1>5
  <2>2. Contents(i) \subseteq Loadable \ Offered /\ Offered' = Offered \cup Contents(i)
      BY <2>1, BeginStep
  <2>3. loading = NoInfo /\ loading' # NoInfo /\ installed' = installed /\ called' = called
      BY <2>1, LoadableAssumption DEF Begin
  <2>4. Contents(i) \in SUBSET (Loadable \ Offered)
      BY <2>2
  <2>5. Abstract!Offer
      BY <2>2, <2>3, <2>4 DEF Abstract!Offer
  <2> QED BY <2>5 DEF Abstract!Next
<1>6. CASE \E x \in Loadable : Message(x)
    BY <1>0, <1>6 DEF Message
<1>7. CASE UNCHANGED vars
    BY <1>0, <1>7 DEF vars
<1> QED BY <1>1, <1>2, <1>3, <1>4, <1>5, <1>6, <1>7 DEF Next, Step

\* The wait queues implement LoadOrder: nothing is installed before what it needs,
\* +load is called once and after that of what it needs, and nothing that could be
\* installed is left when the lock is released, in whatever order loadinfos come
\* (load.c 90-121, 246-315, 533-651, 1127-1238, 1859-1934).
THEOREM LoadQueueImplements == Spec => ImplementsLoadOrder
BY AbstractInit, AbstractStep, LoadInductive, PTL DEF Spec, ImplementsLoadOrder, Abstract!Spec
=============================================================================
