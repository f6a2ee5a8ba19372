--------------------------- MODULE ImpCacheProofs ---------------------------
(***************************************************************************)
(* For any finite set of threads, any method ids, any hash and any sizes:  *)
(* the lock free method cache counts what it holds, does not fill up, is   *)
(* not freed while it is in use and has under a key only this key's method;*)
(* and a call runs methods whose addition returned before it started.      *)
(***************************************************************************)
EXTENDS ImpCache, FiniteSetTheorems, TLAPS

----------------------------------------------------------------------------
(* The inductive invariant *)

SlotRecord == [key : Key \cup {NoKey}, val : Imp \cup {NoImp}]

SlotTable == UNION {[0 .. s - 1 -> SlotRecord] : s \in Nat}

CacheRecord == [size : Nat, n : Nat, slots : SlotTable]

\* threads that own the slot they took until its key is published
Adding(t) == pc[t] \in {"count", "publish"}

\* threads whose value is in the table and not yet in the count
Counters(c) == {t \in Thread : pc[t] = "count" /\ cache[t] = c}

\* threads that passed the check of the fill level and may yet take a slot
Pending(c) == {t \in Thread : /\ pc[t] \in {"probeKey", "probeValue", "add"}
                              /\ todo[t] = {}
                              /\ cache[t] = c}

\* TypeOK in two halves: the caches, and everything that refers to them
TableOK ==
    /\ caches \in Seq(CacheRecord)
    /\ \A c \in Addresses :
          /\ caches[c].size \in InitialSize .. MaxSize
          /\ caches[c].n \in Nat
          /\ caches[c].slots \in [0 .. caches[c].size - 1 -> SlotRecord]

ThreadOK ==
    /\ pivot \in Addresses
    /\ freed \subseteq Addresses
    /\ methods \in [Key -> {0, 1}]
    /\ pc \in [Thread -> Labels]
    /\ key \in [Thread -> Key \cup {NoKey}]
    /\ imp \in [Thread -> Imp \cup {NoImp}]
    /\ cache \in [Thread -> Addresses]
    /\ off \in [Thread -> Nat]
    /\ fresh \in [Thread -> Addresses]
    /\ todo \in [Thread -> SUBSET Key]
    /\ settled \in [Key -> {0, 1}]

ShapeInv == TableOK /\ ThreadOK

\* which of its two jobs, a call or an invalidation, a thread at a label is at
JobInv ==
    \A t \in Thread :
        /\ pc[t] \in {"idle", "lookupKey", "lookupNext", "lookupValue", "search", "call",
                      "fill", "check", "grow", "add", "taken", "count", "publish"}
              => todo[t] = {}
        /\ pc[t] \in {"invalidate", "invalidateCount", "inspect", "renew", "added"}
              => todo[t] # {}
        /\ pc[t] \notin {"idle", "invalidate", "added"} => key[t] \in Key

\* what a call has found so far belongs to its key
ImpInv ==
    \A t \in Thread :
        /\ (pc[t] = "call" \/ Filling(t)) => imp[t] \in {key[t]} \X {0, 1}
        /\ pc[t] = "lookupValue" => Slot(t).key = key[t]
        /\ Adding(t) => Slot(t).key = NoKey /\ Slot(t).val = imp[t]

\* a published slot has a value of its key
SlotInv ==
    \A c \in Addresses : \A i \in DOMAIN caches[c].slots :
        caches[c].slots[i].key # NoKey =>
            caches[c].slots[i].val \in {caches[c].slots[i].key} \X {0, 1}

\* a slot that is taken and not published has one owner
OwnerInv ==
    \A t, u \in Thread :
        Adding(t) /\ Adding(u) /\ t # u => cache[t] # cache[u] \/ Index(t) # Index(u)

\* every fill had a check of its own
RoomInv ==
    \A c \in Addresses :
        Cardinality(Used(caches[c])) + Cardinality(Pending(c)) <=
            (caches[c].size - 1) \div 3 + Cardinality(Thread)

IInv ==
    /\ ShapeInv /\ JobInv /\ ImpInv /\ SlotInv /\ OwnerInv
    /\ CountLagsByAdders /\ RoomInv /\ PivotNeverFreed

----------------------------------------------------------------------------
(* What the steps do to the tables *)

\* The shape of caches and threads implies the type invariant.
LEMMA ShapeIsTypeOK ==
    ASSUME ShapeInv PROVE TypeOK
  BY DEF ShapeInv, TableOK, ThreadOK, TypeOK, SlotRecord

\* An index is reduced to a slot.
LEMMA ModRange ==
    ASSUME NEW a \in Nat, NEW b \in Nat, b > 0
    PROVE  a % b \in 0 .. b - 1
  OBVIOUS

\* Slots of a cache
LEMMA TableOfSize ==
    ASSUME NEW s \in Nat, NEW f \in [0 .. s - 1 -> SlotRecord]
    PROVE  f \in SlotTable
  BY Zenon DEF SlotTable

\* The probe of a thread is always within a table that exists.
LEMMA ProbeInTable ==
    ASSUME ShapeInv, NEW t \in Thread
    PROVE  /\ cache[t] \in Addresses
           /\ caches[cache[t]].size \in Nat /\ caches[cache[t]].size > 0
           /\ Index(t) \in 0 .. caches[cache[t]].size - 1
           /\ DOMAIN caches[cache[t]].slots = 0 .. caches[cache[t]].size - 1
           /\ Slot(t) \in SlotRecord
  <1>1. cache[t] \in Addresses /\ off[t] \in Nat
    BY DEF ShapeInv, ThreadOK
  <1>2. /\ caches[cache[t]].size \in InitialSize .. MaxSize
        /\ caches[cache[t]].slots \in [0 .. caches[cache[t]].size - 1 -> SlotRecord]
    BY <1>1 DEF ShapeInv, TableOK
  <1>3. caches[cache[t]].size \in Nat /\ caches[cache[t]].size > 0
    BY <1>2, SizeAssumption
  <1>4. Index(t) \in 0 .. caches[cache[t]].size - 1
    BY <1>1, <1>3, ModRange DEF Index
  <1>. QED
    BY <1>1, <1>2, <1>3, <1>4 DEF Slot

\* Storing in the probed slot changes nothing else (cache.c 381-520).
LEMMA StoreSlot ==
    ASSUME ShapeInv, NEW t \in Thread, NEW newslot \in SlotRecord,
           caches' = [caches EXCEPT ![cache[t]].slots[Index(t)] = newslot]
    PROVE  /\ caches' \in Seq(CacheRecord) /\ Len(caches') = Len(caches)
           /\ \A c \in Addresses :
                 /\ caches'[c].size = caches[c].size
                 /\ caches'[c].n = caches[c].n
                 /\ caches'[c].slots \in [0 .. caches[c].size - 1 -> SlotRecord]
                 /\ \A i \in 0 .. caches[c].size - 1 :
                       caches'[c].slots[i] =
                           IF c = cache[t] /\ i = Index(t) THEN newslot
                           ELSE caches[c].slots[i]
  <1>. DEFINE old == caches[cache[t]]
              newslots == [old.slots EXCEPT ![Index(t)] = newslot]
              new == [old EXCEPT !.slots = newslots]
  <1>1. caches' = [caches EXCEPT ![cache[t]] = new]
    OBVIOUS
  <1>2. /\ cache[t] \in 1 .. Len(caches) /\ caches \in Seq(CacheRecord)
        /\ Index(t) \in 0 .. old.size - 1
    BY ProbeInTable DEF ShapeInv, TableOK, Addresses
  <1>3. old \in CacheRecord
    BY <1>2
  <1>4. \A c \in Addresses : caches[c].slots \in [0 .. caches[c].size - 1 -> SlotRecord]
    BY DEF ShapeInv, TableOK
  <1>5. newslots \in [0 .. old.size - 1 -> SlotRecord]
    BY <1>2, <1>4 DEF Addresses
  <1>6. \A i \in 0 .. old.size - 1 :
            newslots[i] = IF i = Index(t) THEN newslot ELSE old.slots[i]
    BY <1>2, <1>4 DEF Addresses
  <1>7. new \in CacheRecord /\ new.size = old.size /\ new.n = old.n /\ new.slots = newslots
    <2>1. old.size \in Nat
      BY <1>3 DEF CacheRecord
    <2>2. newslots \in SlotTable
      BY <1>5, <2>1, TableOfSize
    <2>. HIDE DEF newslots
    <2>. QED
      BY <1>3, <2>2 DEF CacheRecord
  <1>8. caches' \in Seq(CacheRecord) /\ Len(caches') = Len(caches)
    BY <1>1, <1>2, <1>7
  <1>9. \A c \in Addresses : caches'[c] = IF c = cache[t] THEN new ELSE caches[c]
    BY <1>1, <1>2 DEF Addresses
  <1>. HIDE DEF new, newslots
  <1>10. ASSUME NEW c \in Addresses
         PROVE  /\ caches'[c].size = caches[c].size
                /\ caches'[c].n = caches[c].n
                /\ caches'[c].slots \in [0 .. caches[c].size - 1 -> SlotRecord]
                /\ \A i \in 0 .. caches[c].size - 1 :
                      caches'[c].slots[i] =
                          IF c = cache[t] /\ i = Index(t) THEN newslot
                          ELSE caches[c].slots[i]
    <2>1. CASE c = cache[t]
      <3>1. caches'[c] = new /\ caches[c] = old
        BY <1>9, <2>1
      <3>. HIDE DEF old
      <3>. QED
        BY <1>5, <1>6, <1>7, <2>1, <3>1
    <2>2. CASE c # cache[t]
      BY <1>4, <1>9, <2>2
    <2>. QED
      BY <2>1, <2>2
  <1>. QED
    BY <1>8, <1>10

\* Counting an entry changes the count of this cache only.
LEMMA StoreCount ==
    ASSUME ShapeInv, NEW t \in Thread,
           caches' = [caches EXCEPT ![cache[t]].n = @ + 1]
    PROVE  /\ caches' \in Seq(CacheRecord) /\ Len(caches') = Len(caches)
           /\ \A c \in Addresses :
                 /\ caches'[c].size = caches[c].size
                 /\ caches'[c].slots = caches[c].slots
                 /\ caches'[c].n = IF c = cache[t] THEN caches[c].n + 1 ELSE caches[c].n
  <1>. DEFINE old == caches[cache[t]]
              new == [old EXCEPT !.n = old.n + 1]
  <1>1. caches' = [caches EXCEPT ![cache[t]] = new]
    OBVIOUS
  <1>2. cache[t] \in 1 .. Len(caches) /\ caches \in Seq(CacheRecord)
    BY ProbeInTable DEF ShapeInv, TableOK, Addresses
  <1>3. old \in CacheRecord
    BY <1>2
  <1>4. new \in CacheRecord /\ new.size = old.size /\ new.n = old.n + 1 /\ new.slots = old.slots
    BY <1>3 DEF CacheRecord
  <1>5. caches' \in Seq(CacheRecord) /\ Len(caches') = Len(caches)
    BY <1>1, <1>2, <1>4
  <1>6. \A c \in Addresses : caches'[c] = IF c = cache[t] THEN new ELSE caches[c]
    BY <1>1, <1>2 DEF Addresses
  <1>. HIDE DEF new
  <1>. QED
    BY <1>4, <1>5, <1>6

\* A new cache is empty and at a new address.
LEMMA NewCache ==
    ASSUME ShapeInv, NEW strategy,
           caches' = Append(caches, EmptyCache(Resize(caches[pivot], strategy)))
    PROVE  /\ caches' \in Seq(CacheRecord) /\ Len(caches') = Len(caches) + 1
           /\ Len(caches) \in Nat
           /\ \A c \in Addresses : caches'[c] = caches[c]
           /\ LET new == caches'[Len(caches) + 1]
              IN  /\ new.size \in InitialSize .. MaxSize
                  /\ new.n = 0
                  /\ new.slots = [i \in 0 .. new.size - 1 |-> [key |-> NoKey, val |-> NoImp]]
                  /\ new.slots \in [0 .. new.size - 1 -> SlotRecord]
  <1>. DEFINE size == Resize(caches[pivot], strategy)
              slots == [i \in 0 .. size - 1 |-> [key |-> NoKey, val |-> NoImp]]
  <1>1. pivot \in 1 .. Len(caches) /\ caches[pivot].size \in InitialSize .. MaxSize
    BY DEF ShapeInv, TableOK, ThreadOK, Addresses
  <1>2. size \in InitialSize .. MaxSize
    BY <1>1, SizeAssumption DEF Resize
  <1>3. size \in Nat
    BY <1>2, SizeAssumption
  <1>4. slots \in [0 .. size - 1 -> SlotRecord]
    BY DEF SlotRecord
  <1>5. slots \in SlotTable
    BY <1>3, <1>4, TableOfSize
  <1>6. EmptyCache(size) = [size |-> size, n |-> 0, slots |-> slots]
    BY DEF EmptyCache
  <1>. HIDE DEF size, slots
  <1>7. EmptyCache(size) \in CacheRecord
    BY <1>3, <1>5, <1>6 DEF CacheRecord
  <1>8. caches \in Seq(CacheRecord) /\ caches' = Append(caches, EmptyCache(size))
    BY DEF ShapeInv, TableOK, size
  <1>9. /\ caches' \in Seq(CacheRecord) /\ Len(caches') = Len(caches) + 1
        /\ Len(caches) \in Nat
        /\ \A c \in 1 .. Len(caches) : caches'[c] = caches[c]
        /\ caches'[Len(caches) + 1] = EmptyCache(size)
    BY <1>7, <1>8
  <1>. QED
    BY <1>2, <1>4, <1>6, <1>9 DEF Addresses, slots

\* The value goes into the probed slot, and nowhere else.
LEMMA AddValueStores ==
    ASSUME ShapeInv, NEW t \in Thread, AddValue(t), Slot(t).val = NoImp
    PROVE  /\ caches' \in Seq(CacheRecord) /\ Len(caches') = Len(caches)
           /\ \A c \in Addresses :
                 /\ caches'[c].size = caches[c].size
                 /\ caches'[c].n = caches[c].n
                 /\ caches'[c].slots \in [0 .. caches[c].size - 1 -> SlotRecord]
                 /\ \A i \in 0 .. caches[c].size - 1 :
                       caches'[c].slots[i] =
                           IF c = cache[t] /\ i = Index(t)
                           THEN [key |-> Slot(t).key, val |-> imp[t]]
                           ELSE caches[c].slots[i]
  <1>. DEFINE newslot == [key |-> Slot(t).key, val |-> imp[t]]
  <1>1. Slot(t) \in SlotRecord /\ imp[t] \in Imp \cup {NoImp}
    BY ProbeInTable DEF ShapeInv, ThreadOK
  <1>2. newslot \in SlotRecord /\ newslot = [Slot(t) EXCEPT !.val = imp[t]]
    BY <1>1 DEF SlotRecord
  <1>3. caches' = [caches EXCEPT ![cache[t]].slots[Index(t)] = newslot]
    BY <1>2 DEF AddValue, Slot
  <1>. HIDE DEF newslot
  <1>. QED
    BY <1>2, <1>3, StoreSlot DEF newslot

\* The key goes into the probed slot, and nowhere else.
LEMMA AddKeyStores ==
    ASSUME ShapeInv, NEW t \in Thread, AddKey(t)
    PROVE  /\ caches' \in Seq(CacheRecord) /\ Len(caches') = Len(caches)
           /\ \A c \in Addresses :
                 /\ caches'[c].size = caches[c].size
                 /\ caches'[c].n = caches[c].n
                 /\ caches'[c].slots \in [0 .. caches[c].size - 1 -> SlotRecord]
                 /\ \A i \in 0 .. caches[c].size - 1 :
                       caches'[c].slots[i] =
                           IF c = cache[t] /\ i = Index(t)
                           THEN [key |-> key[t], val |-> Slot(t).val]
                           ELSE caches[c].slots[i]
  <1>. DEFINE newslot == [key |-> key[t], val |-> Slot(t).val]
  <1>1. Slot(t) \in SlotRecord /\ key[t] \in Key \cup {NoKey}
    BY ProbeInTable DEF ShapeInv, ThreadOK
  <1>2. newslot \in SlotRecord /\ newslot = [Slot(t) EXCEPT !.key = key[t]]
    BY <1>1 DEF SlotRecord
  <1>3. caches' = [caches EXCEPT ![cache[t]].slots[Index(t)] = newslot]
    BY <1>2 DEF AddKey, Slot
  <1>. HIDE DEF newslot
  <1>. QED
    BY <1>2, <1>3, StoreSlot DEF newslot

\* The four steps that write to a cache.
LEMMA Writers ==
    ASSUME NEW t \in Thread, Step(t) \/ Start(t)
    PROVE  \/ caches' = caches
           \/ AddValue(t) /\ Slot(t).val = NoImp
           \/ AddKey(t) \/ AddCount(t) \/ SwapNew(t)
  BY DEF Step, Start, CallStart, AddMethods, LookupKey, LookupNext, LookupValue, Search,
         Call, FillRead, FillCheck, ProbeKey, ProbeValue, AddValue, AddTaken, SwapRead,
         SwapCas, InvalidateRead, InvalidateCount, InvalidateInspect, AddReturn, shared

----------------------------------------------------------------------------
(* One step *)

\* Every step keeps the tables and the threads' variables well typed.
LEMMA ShapeStep ==
    ASSUME ShapeInv, JobInv, NEW t \in Thread, Step(t) \/ Start(t)
    PROVE  ShapeInv'
  <1>. USE DEF Set, Goto, shared, local, history
  <1>1. CASE caches' = caches
    <2>1. TableOK' /\ Addresses' = Addresses
      BY <1>1 DEF ShapeInv, TableOK, Addresses
    <2>2. ASSUME NEW k \in Key, CallStart(t, k) PROVE ThreadOK'
      BY <2>1, <2>2, HomeAssumption DEF ShapeInv, ThreadOK, CallStart, Labels
    <2>3. ASSUME NEW list \in SUBSET Key, AddMethods(t, list) PROVE ThreadOK'
      BY <2>1, <2>3 DEF ShapeInv, ThreadOK, AddMethods, Labels
    <2>4. CASE LookupKey(t) \/ Call(t) \/ AddTaken(t) \/ ProbeKey(t)
      BY <2>1, <2>4 DEF ShapeInv, ThreadOK, LookupKey, Call, AddTaken, ProbeKey, Found,
                  Labels, FillLabels
    <2>5. CASE LookupNext(t) \/ ProbeValue(t)
      BY <2>1, <2>5 DEF ShapeInv, ThreadOK, LookupNext, ProbeValue, Found, Advance,
                  Labels, FillLabels
    <2>6. CASE LookupValue(t)
      BY <2>1, <2>6, ProbeInTable DEF ShapeInv, ThreadOK, LookupValue, SlotRecord,
                  Labels, FillLabels
    <2>7. CASE Search(t)
      <3>1. key[t] \in Key
        BY <2>1, <2>7 DEF JobInv, Search
      <3>2. <<key[t], methods[key[t]]>> \in Imp
        BY <3>1 DEF ShapeInv, ThreadOK, Imp
      <3>. QED
        BY <2>1, <2>7, <3>2 DEF ShapeInv, ThreadOK, Search, Labels, FillLabels
    <2>8. CASE FillRead(t) \/ SwapRead(t)
      BY <2>1, <2>8 DEF ShapeInv, ThreadOK, FillRead, SwapRead, Labels, FillLabels
    <2>9. CASE FillCheck(t)
      <3>1. Home[key[t]] \in Nat
        BY <2>1, <2>9, HomeAssumption DEF JobInv, FillCheck
      <3>. QED
        BY <2>1, <2>9, <3>1 DEF ShapeInv, ThreadOK, FillCheck, Labels, FillLabels
    <2>10. CASE AddValue(t)
      BY <2>1, <2>10 DEF ShapeInv, ThreadOK, AddValue, Labels, FillLabels
    <2>11. CASE AddCount(t) \/ AddKey(t)
      BY <2>1, <2>11 DEF ShapeInv, ThreadOK, AddCount, AddKey, Labels, FillLabels
    <2>12. CASE SwapNew(t)
      <3>1. Len(caches') = Len(caches) + 1 /\ Len(caches) \in Nat
        BY <2>1, <2>12, NewCache DEF SwapNew
      <3>. QED
        BY <1>1, <3>1
    <2>13. CASE SwapCas(t)
      BY <2>1, <2>13 DEF ShapeInv, ThreadOK, SwapCas, free_impcache, abafree_impcache,
                   Labels, FillLabels
    <2>14. CASE InvalidateRead(t)
      BY <2>1, <2>14 DEF ShapeInv, ThreadOK, InvalidateRead, Labels, FillLabels
    <2>15. CASE InvalidateCount(t)
      <3>1. Home[key[t]] \in Nat
        BY <2>1, <2>15, HomeAssumption DEF JobInv, InvalidateCount
      <3>. QED
        BY <2>1, <2>15, <3>1 DEF ShapeInv, ThreadOK, InvalidateCount, NextMethod,
                           Labels, FillLabels
    <2>16. CASE InvalidateInspect(t)
      BY <2>1, <2>16 DEF ShapeInv, ThreadOK, InvalidateInspect, NextMethod,
                   Labels, FillLabels
    <2>17. CASE AddReturn(t)
      BY <2>1, <2>17 DEF ShapeInv, ThreadOK, AddReturn, Labels, FillLabels
    <2>. QED
      BY <2>1, <2>2, <2>3, <2>4, <2>5, <2>6, <2>7, <2>8, <2>9, <2>10, <2>11, <2>12,
         <2>13, <2>14, <2>15, <2>16, <2>17 DEF Step, Start, ShapeInv
  <1>2. CASE AddValue(t) /\ Slot(t).val = NoImp
    <2>1. TableOK' /\ Addresses' = Addresses
      BY <1>2, AddValueStores DEF ShapeInv, TableOK, Addresses
    <2>. QED
      BY <1>2, <2>1 DEF ShapeInv, ThreadOK, AddValue, Labels, FillLabels
  <1>3. CASE AddKey(t)
    <2>1. TableOK' /\ Addresses' = Addresses
      BY <1>3, AddKeyStores DEF ShapeInv, TableOK, Addresses
    <2>. QED
      BY <1>3, <2>1 DEF ShapeInv, ThreadOK, AddKey, Labels, FillLabels
  <1>4. CASE AddCount(t)
    <2>1. /\ caches' \in Seq(CacheRecord) /\ Len(caches') = Len(caches)
          /\ \A c \in Addresses :
                /\ caches'[c].size = caches[c].size
                /\ caches'[c].slots = caches[c].slots
                /\ caches'[c].n = IF c = cache[t] THEN caches[c].n + 1 ELSE caches[c].n
      BY <1>4, StoreCount DEF AddCount
    <2>2. TableOK' /\ Addresses' = Addresses
      BY <2>1 DEF ShapeInv, TableOK, Addresses
    <2>. QED
      BY <1>4, <2>2 DEF ShapeInv, ThreadOK, AddCount, Labels, FillLabels
  <1>5. CASE SwapNew(t)
    <2>. DEFINE new == caches'[Len(caches) + 1]
    <2>1. /\ caches' \in Seq(CacheRecord) /\ Len(caches') = Len(caches) + 1
          /\ Len(caches) \in Nat
          /\ \A c \in Addresses : caches'[c] = caches[c]
          /\ new.size \in InitialSize .. MaxSize /\ new.n = 0
          /\ new.slots \in [0 .. new.size - 1 -> SlotRecord]
      BY <1>5, NewCache DEF SwapNew
    <2>2. /\ Addresses' = Addresses \cup {Len(caches) + 1}
          /\ Len(caches') \in Addresses'
      BY <2>1 DEF Addresses
    <2>3. ASSUME NEW c \in Addresses'
          PROVE  /\ caches'[c].size \in InitialSize .. MaxSize
                 /\ caches'[c].n \in Nat
                 /\ caches'[c].slots \in [0 .. caches'[c].size - 1 -> SlotRecord]
      <3>1. CASE c \in Addresses
        BY <2>1, <3>1 DEF ShapeInv, TableOK
      <3>2. CASE c = Len(caches) + 1
        BY <2>1, <3>2
      <3>. QED
        BY <2>2, <3>1, <3>2
    <2>4. TableOK'
      BY <2>1, <2>3 DEF TableOK
    <2>. QED
      BY <1>5, <2>2, <2>4 DEF ShapeInv, ThreadOK, SwapNew, Labels, FillLabels
  <1>. QED
    BY <1>1, <1>2, <1>3, <1>4, <1>5, Writers

\* A step of one thread leaves the variables of the others alone.
LEMMA OthersKept ==
    ASSUME ShapeInv, NEW t \in Thread, Step(t) \/ Start(t), NEW u \in Thread, u # t
    PROVE  /\ pc'[u] = pc[u] /\ key'[u] = key[u] /\ imp'[u] = imp[u] /\ todo'[u] = todo[u]
           /\ cache'[u] = cache[u] /\ off'[u] = off[u] /\ fresh'[u] = fresh[u]
  <1>. USE DEF Set, Goto, shared, local, history, ShapeInv, ThreadOK
  <1>1. ASSUME NEW k \in Key, CallStart(t, k)
        PROVE  /\ pc'[u] = pc[u] /\ key'[u] = key[u] /\ imp'[u] = imp[u] /\ todo'[u] = todo[u]
               /\ cache'[u] = cache[u] /\ off'[u] = off[u] /\ fresh'[u] = fresh[u]
    BY <1>1 DEF CallStart
  <1>2. ASSUME NEW list \in SUBSET Key, AddMethods(t, list)
        PROVE  /\ pc'[u] = pc[u] /\ key'[u] = key[u] /\ imp'[u] = imp[u] /\ todo'[u] = todo[u]
               /\ cache'[u] = cache[u] /\ off'[u] = off[u] /\ fresh'[u] = fresh[u]
    BY <1>2 DEF AddMethods
  <1>3. CASE LookupKey(t) \/ LookupNext(t) \/ LookupValue(t) \/ Search(t) \/ Call(t)
    BY <1>3 DEF LookupKey, LookupNext, LookupValue, Search, Call, Advance
  <1>4. CASE FillRead(t) \/ FillCheck(t) \/ ProbeKey(t) \/ ProbeValue(t)
    BY <1>4 DEF FillRead, FillCheck, ProbeKey, ProbeValue, Advance, Found
  <1>5. CASE AddValue(t) \/ AddTaken(t) \/ AddCount(t) \/ AddKey(t)
    BY <1>5 DEF AddValue, AddTaken, AddCount, AddKey
  <1>6. CASE SwapNew(t) \/ SwapRead(t) \/ SwapCas(t)
    BY <1>6 DEF SwapNew, SwapRead, SwapCas
  <1>7. CASE InvalidateRead(t) \/ InvalidateCount(t) \/ InvalidateInspect(t) \/ AddReturn(t)
    BY <1>7 DEF InvalidateRead, InvalidateCount, InvalidateInspect, AddReturn, NextMethod
  <1>. QED
    BY <1>1, <1>2, <1>3, <1>4, <1>5, <1>6, <1>7 DEF Step, Start

\* No cache is moved, and its size is fixed.
LEMMA SizesKept ==
    ASSUME ShapeInv, NEW t \in Thread, Step(t) \/ Start(t)
    PROVE  /\ Addresses \subseteq Addresses'
           /\ \A c \in Addresses : caches'[c].size = caches[c].size
  <1>1. CASE caches' = caches
    BY <1>1 DEF Addresses
  <1>2. CASE AddValue(t) /\ Slot(t).val = NoImp
    BY <1>2, AddValueStores DEF Addresses
  <1>3. CASE AddKey(t)
    BY <1>3, AddKeyStores DEF Addresses
  <1>4. CASE AddCount(t)
    BY <1>4, StoreCount DEF AddCount, Addresses
  <1>5. CASE SwapNew(t)
    <2>1. /\ Len(caches') = Len(caches) + 1 /\ Len(caches) \in Nat
          /\ \A c \in Addresses : caches'[c] = caches[c]
      BY <1>5, NewCache DEF SwapNew
    <2>. QED
      BY <2>1 DEF Addresses
  <1>. QED
    BY <1>1, <1>2, <1>3, <1>4, <1>5, Writers

\* A thread at a label is at the same job as before.
LEMMA JobStep ==
    ASSUME ShapeInv, JobInv, NEW t \in Thread, Step(t) \/ Start(t)
    PROVE  JobInv'
  <1>. DEFINE Job(u) ==
         /\ pc[u] \in {"idle", "lookupKey", "lookupNext", "lookupValue", "search", "call",
                       "fill", "check", "grow", "add", "taken", "count", "publish"}
              => todo[u] = {}
         /\ pc[u] \in {"invalidate", "invalidateCount", "inspect", "renew", "added"}
              => todo[u] # {}
         /\ pc[u] \notin {"idle", "invalidate", "added"} => key[u] \in Key
  <1>1. ASSUME NEW u \in Thread, u # t PROVE Job(u)'
    BY <1>1, OthersKept DEF JobInv
  <1>2. Job(t)
    BY DEF JobInv
  <1>3. Job(t)'
    <2>. USE <1>2 DEF Set, Goto, shared, local, history, ShapeInv, ThreadOK
    <2>1. ASSUME NEW k \in Key, CallStart(t, k) PROVE Job(t)'
      BY <2>1 DEF CallStart
    <2>2. ASSUME NEW list \in SUBSET Key, AddMethods(t, list) PROVE Job(t)'
      BY <2>2 DEF AddMethods
    <2>3. CASE LookupKey(t) \/ LookupNext(t) \/ LookupValue(t) \/ Search(t) \/ Call(t)
      BY <2>3 DEF LookupKey, LookupNext, LookupValue, Search, Call
    <2>4. CASE FillRead(t) \/ FillCheck(t) \/ ProbeKey(t) \/ ProbeValue(t)
      BY <2>4 DEF FillRead, FillCheck, ProbeKey, ProbeValue, Found
    <2>5. CASE AddValue(t) \/ AddTaken(t) \/ AddCount(t) \/ AddKey(t)
      BY <2>5 DEF AddValue, AddTaken, AddCount, AddKey
    <2>6. CASE SwapNew(t) \/ SwapRead(t) \/ SwapCas(t)
      BY <2>6 DEF SwapNew, SwapRead, SwapCas
    <2>7. CASE InvalidateRead(t)
      BY <2>7 DEF InvalidateRead
    <2>8. CASE InvalidateCount(t) \/ InvalidateInspect(t)
      BY <2>8 DEF InvalidateCount, InvalidateInspect, NextMethod
    <2>9. CASE AddReturn(t)
      BY <2>9 DEF AddReturn
    <2>. QED
      BY <2>1, <2>2, <2>3, <2>4, <2>5, <2>6, <2>7, <2>8, <2>9 DEF Step, Start
  <1>4. \A u \in Thread : Job(u)'
    BY <1>1, <1>3
  <1>. QED
    BY <1>4 DEF JobInv

\* A thread that does not move its probe stays at the same slot ...
LEMMA IndexKept ==
    ASSUME ShapeInv, NEW t \in Thread, Step(t) \/ Start(t),
           NEW u \in Thread, cache'[u] = cache[u], off'[u] = off[u]
    PROVE  Index(u)' = Index(u)
  BY SizesKept, ProbeInTable DEF Index

\* ... which nobody but the threads that add to it changes.
LEMMA SlotsKept ==
    ASSUME ShapeInv, NEW t \in Thread, Step(t) \/ Start(t), ~ AddKey(t),
           ~ (AddValue(t) /\ Slot(t).val = NoImp)
    PROVE  \A c \in Addresses : caches'[c].slots = caches[c].slots
  <1>1. CASE caches' = caches
    BY <1>1
  <1>2. CASE AddCount(t)
    BY <1>2, StoreCount DEF AddCount
  <1>3. CASE SwapNew(t)
    BY <1>3, NewCache DEF SwapNew
  <1>. QED
    BY <1>1, <1>2, <1>3, Writers

\* What a thread reads under a key belongs to the key.
LEMMA KeyHasItsValue ==
    ASSUME ShapeInv, SlotInv, NEW t \in Thread, Slot(t).key # NoKey
    PROVE  Slot(t).val \in {Slot(t).key} \X {0, 1}
  BY ProbeInTable DEF SlotInv, Slot

\* A free slot has no key.
LEMMA FreeHasNoKey ==
    ASSUME ShapeInv, SlotInv, NEW t \in Thread, Slot(t).val = NoImp
    PROVE  Slot(t).key = NoKey
  <1>1. Slot(t).key \in Key \cup {NoKey}
    BY ProbeInTable DEF SlotRecord
  <1>. QED
    BY <1>1, KeyHasItsValue, NoImpAssumption

\* A published slot keeps having a value of its key.
LEMMA SlotStep ==
    ASSUME ShapeInv, JobInv, ImpInv, SlotInv, NEW t \in Thread, Step(t) \/ Start(t)
    PROVE  SlotInv'
  <1>. SUFFICES ASSUME NEW c \in Addresses', NEW i \in DOMAIN caches'[c].slots,
                       caches'[c].slots[i].key # NoKey
                PROVE  caches'[c].slots[i].val \in {caches'[c].slots[i].key} \X {0, 1}
    BY DEF SlotInv
  <1>1. CASE caches' = caches
    BY <1>1 DEF SlotInv, Addresses
  <1>2. CASE AddValue(t) /\ Slot(t).val = NoImp
    <2>1. c \in Addresses
      BY <1>2, AddValueStores DEF Addresses
    <2>2. i \in 0 .. caches[c].size - 1 /\ i \in DOMAIN caches[c].slots
      BY <1>2, <2>1, AddValueStores DEF ShapeInv, TableOK
    <2>3. caches'[c].slots[i] = IF c = cache[t] /\ i = Index(t)
                                THEN [key |-> Slot(t).key, val |-> imp[t]]
                                ELSE caches[c].slots[i]
      BY <1>2, <2>1, <2>2, AddValueStores
    <2>. QED
      BY <1>2, <2>1, <2>2, <2>3, FreeHasNoKey DEF SlotInv
  <1>3. CASE AddKey(t)
    <2>1. c \in Addresses
      BY <1>3, AddKeyStores DEF Addresses
    <2>2. i \in 0 .. caches[c].size - 1 /\ i \in DOMAIN caches[c].slots
      BY <1>3, <2>1, AddKeyStores DEF ShapeInv, TableOK
    <2>3. caches'[c].slots[i] = IF c = cache[t] /\ i = Index(t)
                                THEN [key |-> key[t], val |-> Slot(t).val]
                                ELSE caches[c].slots[i]
      BY <1>3, <2>1, <2>2, AddKeyStores
    <2>4. pc[t] = "publish" /\ todo[t] = {}
      BY <1>3 DEF AddKey, JobInv
    <2>5. Slot(t).val \in {key[t]} \X {0, 1}
      BY <2>4 DEF ImpInv, Adding, Filling, FillLabels
    <2>. QED
      BY <2>1, <2>2, <2>3, <2>5 DEF SlotInv
  <1>4. CASE AddCount(t)
    <2>1. c \in Addresses /\ caches'[c].slots = caches[c].slots
      BY <1>4, StoreCount DEF AddCount, Addresses
    <2>. QED
      BY <2>1 DEF SlotInv
  <1>5. CASE SwapNew(t)
    <2>. DEFINE new == caches'[Len(caches) + 1]
    <2>1. /\ Len(caches') = Len(caches) + 1 /\ Len(caches) \in Nat
          /\ \A d \in Addresses : caches'[d] = caches[d]
          /\ new.slots = [j \in 0 .. new.size - 1 |-> [key |-> NoKey, val |-> NoImp]]
      BY <1>5, NewCache DEF SwapNew
    <2>2. CASE c \in Addresses
      BY <2>1, <2>2 DEF SlotInv
    <2>3. CASE c = Len(caches) + 1
      <3>1. i \in DOMAIN new.slots /\ new.slots[i].key # NoKey
        BY <2>3
      <3>2. new.slots[i] = [key |-> NoKey, val |-> NoImp]
        BY <2>1, <3>1, Zenon
      <3>. QED
        BY <3>1, <3>2
    <2>. QED
      BY <2>1, <2>2, <2>3 DEF Addresses
  <1>. QED
    BY <1>1, <1>2, <1>3, <1>4, <1>5, Writers

\* A slot that is taken stays the taker's until it is published.
LEMMA OwnerStep ==
    ASSUME ShapeInv, JobInv, ImpInv, OwnerInv, NEW t \in Thread, Step(t) \/ Start(t)
    PROVE  OwnerInv'
  <1>1. ASSUME NEW u \in Thread, u # t
        PROVE  Adding(u)' <=> Adding(u)
    BY <1>1, OthersKept DEF Adding
  <1>2. ASSUME NEW u \in Thread, u # t
        PROVE  cache'[u] = cache[u] /\ Index(u)' = Index(u)
    BY <1>2, OthersKept, IndexKept
  <1>3. ASSUME Adding(t)'
        PROVE  /\ cache'[t] = cache[t] /\ off'[t] = off[t]
               /\ Adding(t) \/ (AddValue(t) /\ Slot(t).val = NoImp)
    <2>. USE DEF Set, Goto, shared, local, history, ShapeInv, ThreadOK
    <2>1. AddValue(t) \/ AddCount(t)
      BY <1>3 DEF Adding, Step, Start, CallStart, AddMethods, LookupKey, LookupNext,
           LookupValue, Search, Call, FillRead, FillCheck, ProbeKey, ProbeValue, Found,
           AddTaken, AddKey, SwapNew, SwapRead, SwapCas, InvalidateRead, InvalidateCount,
           InvalidateInspect, NextMethod, AddReturn
    <2>. QED
      BY <1>3, <2>1 DEF Adding, AddValue, AddCount
  <1>4. ASSUME NEW u \in Thread, u # t, Adding(u)', Adding(t)'
        PROVE  cache'[t] # cache'[u] \/ Index(t)' # Index(u)'
    <2>1. Index(t)' = Index(t) /\ cache'[t] = cache[t]
      BY <1>3, <1>4, IndexKept
    <2>2. CASE Adding(t)
      BY <1>1, <1>2, <1>4, <2>1, <2>2 DEF OwnerInv
    <2>3. CASE Slot(t).val = NoImp
      <3>1. Adding(u) /\ Slot(u).val = imp[u] /\ imp[u] \in Key \X {0, 1}
        BY <1>1, <1>4 DEF ImpInv, Adding, Filling, FillLabels, JobInv
      <3>2. Slot(u).val # NoImp
        BY <3>1, NoImpAssumption
      <3>3. cache[t] # cache[u] \/ Index(t) # Index(u)
        BY <2>3, <3>2 DEF Slot
      <3>. QED
        BY <1>2, <1>4, <2>1, <3>3
    <2>. QED
      BY <1>3, <1>4, <2>2, <2>3
  <1>5. ASSUME NEW u \in Thread, NEW w \in Thread, u # w, Adding(u)', Adding(w)'
        PROVE  cache'[u] # cache'[w] \/ Index(u)' # Index(w)'
    <2>1. CASE u # t /\ w # t
      BY <1>1, <1>2, <1>5, <2>1 DEF OwnerInv
    <2>2. CASE u = t \/ w = t
      BY <1>4, <1>5, <2>2
    <2>. QED
      BY <2>1, <2>2
  <1>. QED
    BY <1>5 DEF OwnerInv

\* What a call has found keeps belonging to its key.
LEMMA ImpStep ==
    ASSUME ShapeInv, JobInv, ImpInv, SlotInv, OwnerInv, NEW t \in Thread, Step(t) \/ Start(t)
    PROVE  ImpInv'
  <1>1. ASSUME NEW u \in Thread, u # t
        PROVE  /\ Index(u)' = Index(u) /\ cache'[u] = cache[u]
               /\ pc'[u] = pc[u] /\ key'[u] = key[u] /\ imp'[u] = imp[u] /\ todo'[u] = todo[u]
    BY <1>1, OthersKept, IndexKept
  <1>2. ASSUME NEW u \in Thread, u # t
        PROVE  \/ Slot(u)' = Slot(u)
               \/ /\ cache[u] = cache[t] /\ Index(u) = Index(t)
                  /\ \/ AddValue(t) /\ Slot(t).val = NoImp /\ Slot(u)'.key = Slot(u).key
                     \/ AddKey(t)
    <2>0. /\ cache[u] \in Addresses /\ Index(u) \in 0 .. caches[cache[u]].size - 1
          /\ Slot(u) = caches[cache[u]].slots[Index(u)]
          /\ Slot(u)' = caches'[cache[u]].slots[Index(u)]
      BY <1>1, <1>2, ProbeInTable DEF Slot
    <2>1. CASE AddKey(t)
      <3>1. Slot(u)' = IF cache[u] = cache[t] /\ Index(u) = Index(t)
                       THEN [key |-> key[t], val |-> Slot(t).val]
                       ELSE Slot(u)
        BY <2>0, <2>1, AddKeyStores
      <3>. QED
        BY <2>1, <3>1
    <2>2. CASE AddValue(t) /\ Slot(t).val = NoImp
      <3>1. Slot(u)' = IF cache[u] = cache[t] /\ Index(u) = Index(t)
                       THEN [key |-> Slot(t).key, val |-> imp[t]]
                       ELSE Slot(u)
        BY <2>0, <2>2, AddValueStores
      <3>2. cache[u] = cache[t] /\ Index(u) = Index(t) => Slot(u) = Slot(t)
        BY DEF Slot
      <3>. QED
        BY <2>2, <3>1, <3>2
    <2>3. CASE ~ AddKey(t) /\ ~ (AddValue(t) /\ Slot(t).val = NoImp)
      BY <1>1, <1>2, <2>3, ProbeInTable, SlotsKept DEF Slot
    <2>. QED
      BY <2>1, <2>2, <2>3
  <1>3. ASSUME NEW u \in Thread, u # t, pc[u] = "lookupValue"
        PROVE  Slot(u)'.key = key[u]
    <2>1. Slot(u).key = key[u] /\ key[u] \in Key
      BY <1>3 DEF ImpInv, JobInv
    <2>2. CASE AddKey(t) /\ cache[u] = cache[t] /\ Index(u) = Index(t)
      <3>1. Slot(t).key = NoKey /\ Slot(t) = Slot(u)
        BY <2>2 DEF ImpInv, AddKey, Adding, Slot
      <3>. QED
        BY <2>1, <3>1, NoKeyAssumption
    <2>. QED
      BY <1>2, <1>3, <2>1, <2>2
  <1>4. ASSUME NEW u \in Thread, u # t, Adding(u)
        PROVE  Slot(u)' = Slot(u)
    <2>1. /\ Slot(u).val = imp[u] /\ todo[u] = {} /\ key[u] \in Key
          /\ imp[u] \in {key[u]} \X {0, 1}
      BY <1>4 DEF ImpInv, Adding, JobInv, Filling, FillLabels
    <2>2. Slot(u).val # NoImp
      BY <2>1, NoImpAssumption
    <2>3. CASE AddKey(t) /\ cache[u] = cache[t] /\ Index(u) = Index(t)
      BY <1>4, <2>3 DEF OwnerInv, AddKey, Adding
    <2>4. CASE Slot(t).val = NoImp /\ cache[u] = cache[t] /\ Index(u) = Index(t)
      BY <2>2, <2>4 DEF Slot
    <2>. QED
      BY <1>2, <1>4, <2>3, <2>4
  <1>. DEFINE Own(u) ==
         /\ (pc[u] = "call" \/ Filling(u)) => imp[u] \in {key[u]} \X {0, 1}
         /\ pc[u] = "lookupValue" => Slot(u).key = key[u]
         /\ Adding(u) => Slot(u).key = NoKey /\ Slot(u).val = imp[u]
  <1>5. ASSUME NEW u \in Thread, u # t PROVE Own(u)'
    BY <1>1, <1>3, <1>4, <1>5 DEF ImpInv, Adding, Filling
  <1>6. Own(t)'
    <2>. USE DEF Set, Goto, shared, local, history, ShapeInv, ThreadOK
    <2>1. ASSUME NEW k \in Key, CallStart(t, k) PROVE Own(t)'
      BY <2>1 DEF CallStart, Filling, Adding, FillLabels
    <2>2. ASSUME NEW list \in SUBSET Key, AddMethods(t, list) PROVE Own(t)'
      BY <2>2 DEF AddMethods, Filling, Adding, FillLabels
    <2>3. CASE LookupKey(t)
      <3>1. Slot(t)' = Slot(t)
        BY <2>3 DEF LookupKey, Slot, Index
      <3>. QED
        BY <2>3, <3>1 DEF LookupKey, Filling, Adding, FillLabels
    <2>4. CASE LookupNext(t) \/ FillCheck(t) \/ ProbeKey(t) \/ ProbeValue(t)
      BY <2>4 DEF LookupNext, FillCheck, ProbeKey, ProbeValue, Found, ImpInv,
                  Filling, Adding, FillLabels
    <2>5. CASE LookupValue(t)
      <3>1. Slot(t).key = key[t] /\ key[t] \in Key
        BY <2>5 DEF ImpInv, JobInv, LookupValue
      <3>2. Slot(t).val \in {key[t]} \X {0, 1}
        BY <3>1, KeyHasItsValue, NoKeyAssumption
      <3>. QED
        BY <2>5, <3>2 DEF LookupValue, Filling, Adding, FillLabels
    <2>6. CASE Search(t)
      <3>1. key[t] \in Key
        BY <2>6 DEF JobInv, Search
      <3>2. <<key[t], methods[key[t]]>> \in {key[t]} \X {0, 1}
        BY <3>1
      <3>. QED
        BY <2>6, <3>2 DEF Search, Filling, Adding, FillLabels
    <2>7. CASE Call(t) \/ FillRead(t) \/ AddTaken(t) \/ AddReturn(t)
      BY <2>7 DEF Call, FillRead, AddTaken, AddReturn, ImpInv, JobInv, Filling, Adding, FillLabels
    <2>8. CASE SwapNew(t) \/ SwapRead(t) \/ SwapCas(t)
      BY <2>8 DEF SwapNew, SwapRead, SwapCas, ImpInv, JobInv, Filling, Adding, FillLabels
    <2>9. CASE AddValue(t) /\ Slot(t).val = NoImp
      <3>1. Index(t)' = Index(t) /\ cache'[t] = cache[t]
        BY <2>9, IndexKept DEF AddValue
      <3>2. Slot(t)' = [key |-> Slot(t).key, val |-> imp[t]]
        BY <2>9, <3>1, ProbeInTable, AddValueStores DEF Slot
      <3>3. imp[t] \in {key[t]} \X {0, 1}
        BY <2>9 DEF AddValue, ImpInv, JobInv, Filling, FillLabels
      <3>. QED
        BY <2>9, <3>2, <3>3, FreeHasNoKey DEF AddValue, Filling, Adding, FillLabels
    <2>10. CASE AddValue(t) /\ Slot(t).val # NoImp
      BY <2>10 DEF AddValue, ImpInv, JobInv, Filling, Adding, FillLabels
    <2>11. CASE AddCount(t)
      <3>1. Index(t)' = Index(t) /\ cache'[t] = cache[t]
        BY <2>11, IndexKept DEF AddCount
      <3>2. Slot(t)' = Slot(t)
        BY <2>11, <3>1, ProbeInTable, StoreCount DEF AddCount, Slot
      <3>. QED
        BY <2>11, <3>2 DEF AddCount, ImpInv, JobInv, Filling, Adding, FillLabels
    <2>12. CASE AddKey(t)
      BY <2>12 DEF AddKey, ImpInv, JobInv, Filling, Adding, FillLabels
    <2>13. CASE InvalidateRead(t) \/ InvalidateCount(t) \/ InvalidateInspect(t)
      BY <2>13 DEF InvalidateRead, InvalidateCount, InvalidateInspect, NextMethod,
                   JobInv, Filling, Adding, FillLabels
    <2>. QED
      BY <2>1, <2>2, <2>3, <2>4, <2>5, <2>6, <2>7, <2>8, <2>9, <2>10, <2>11, <2>12, <2>13
         DEF Step, Start
  <1>7. \A u \in Thread : Own(u)'
    BY <1>5, <1>6
  <1>. QED
    BY <1>7 DEF ImpInv

----------------------------------------------------------------------------
(* Counting *)

\* The slots in use and the threads on their way are finitely many.
LEMMA Finite ==
    ASSUME ShapeInv, NEW c \in Addresses
    PROVE  /\ IsFiniteSet(Used(caches[c])) /\ Cardinality(Used(caches[c])) \in Nat
           /\ IsFiniteSet(Counters(c)) /\ Cardinality(Counters(c)) \in Nat
           /\ IsFiniteSet(Pending(c)) /\ Cardinality(Pending(c)) \in Nat
           /\ Cardinality(Thread) \in Nat
  <1>1. caches[c].size \in Int /\ DOMAIN caches[c].slots = 0 .. caches[c].size - 1
    BY SizeAssumption DEF ShapeInv, TableOK
  <1>2. IsFiniteSet(0 .. caches[c].size - 1)
    BY <1>1, FS_Interval
  <1>3. IsFiniteSet(Used(caches[c]))
    BY <1>1, <1>2, FS_Subset DEF Used
  <1>4. IsFiniteSet(Counters(c)) /\ IsFiniteSet(Pending(c))
    BY ThreadAssumption, FS_Subset DEF Counters, Pending
  <1>. QED
    BY <1>3, <1>4, ThreadAssumption, FS_CardinalityType

\* Only the value that goes in changes the slots in use.
LEMMA UsedKept ==
    ASSUME ShapeInv, NEW t \in Thread, Step(t) \/ Start(t),
           ~ (AddValue(t) /\ Slot(t).val = NoImp)
    PROVE  \A c \in Addresses : Used(caches'[c]) = Used(caches[c])
  <1>1. CASE AddKey(t)
    <2>. SUFFICES ASSUME NEW c \in Addresses
                  PROVE  Used(caches'[c]) = Used(caches[c])
      OBVIOUS
    <2>1. /\ DOMAIN caches[c].slots = 0 .. caches[c].size - 1
          /\ DOMAIN caches'[c].slots = 0 .. caches[c].size - 1
      BY <1>1, AddKeyStores DEF ShapeInv, TableOK
    <2>2. \A i \in 0 .. caches[c].size - 1 :
             caches'[c].slots[i] = IF c = cache[t] /\ i = Index(t)
                                   THEN [key |-> key[t], val |-> Slot(t).val]
                                   ELSE caches[c].slots[i]
      BY <1>1, AddKeyStores
    <2>3. \A i \in 0 .. caches[c].size - 1 : caches'[c].slots[i].val = caches[c].slots[i].val
      BY <2>2 DEF Slot
    <2>. QED
      BY <2>1, <2>3 DEF Used
  <1>2. CASE ~ AddKey(t)
    BY <1>2, SlotsKept DEF Used
  <1>. QED
    BY <1>1, <1>2

\* A fill of a free slot uses one more.
LEMMA UsedGrows ==
    ASSUME ShapeInv, NEW t \in Thread, AddValue(t), Slot(t).val = NoImp, imp[t] # NoImp
    PROVE  /\ \A c \in Addresses \ {cache[t]} : Used(caches'[c]) = Used(caches[c])
           /\ Used(caches'[cache[t]]) = Used(caches[cache[t]]) \cup {Index(t)}
           /\ Index(t) \notin Used(caches[cache[t]])
  <1>1. /\ cache[t] \in Addresses /\ Index(t) \in 0 .. caches[cache[t]].size - 1
        /\ caches[cache[t]].slots[Index(t)].val = NoImp
    BY ProbeInTable DEF Slot
  <1>2. ASSUME NEW c \in Addresses
        PROVE  /\ DOMAIN caches[c].slots = 0 .. caches[c].size - 1
               /\ DOMAIN caches'[c].slots = 0 .. caches[c].size - 1
    BY AddValueStores DEF ShapeInv, TableOK
  <1>3. ASSUME NEW c \in Addresses, NEW i \in 0 .. caches[c].size - 1
        PROVE  caches'[c].slots[i].val = IF c = cache[t] /\ i = Index(t) THEN imp[t]
                                         ELSE caches[c].slots[i].val
    <2>1. caches'[c].slots[i] = IF c = cache[t] /\ i = Index(t)
                                THEN [key |-> Slot(t).key, val |-> imp[t]]
                                ELSE caches[c].slots[i]
      BY AddValueStores
    <2>. QED
      BY <2>1
  <1>4. ASSUME NEW c \in Addresses \ {cache[t]}
        PROVE  Used(caches'[c]) = Used(caches[c])
    BY <1>2, <1>3 DEF Used
  <1>5. Used(caches'[cache[t]]) = Used(caches[cache[t]]) \cup {Index(t)}
    BY <1>1, <1>2, <1>3 DEF Used
  <1>. QED
    BY <1>1, <1>4, <1>5 DEF Used

\* The threads between the value and the count: AddValue joins, AddCount leaves.
LEMMA CountersStep ==
    ASSUME ShapeInv, JobInv, NEW t \in Thread, Step(t) \/ Start(t), NEW c
    PROVE  Counters(c)' =
             IF AddValue(t) /\ Slot(t).val = NoImp /\ c = cache[t] THEN Counters(c) \cup {t}
             ELSE IF AddCount(t) /\ c = cache[t] THEN Counters(c) \ {t}
             ELSE Counters(c)
  <1>1. ASSUME NEW u \in Thread, u # t
        PROVE  u \in Counters(c)' <=> u \in Counters(c)
    BY <1>1, OthersKept DEF Counters
  <1>. USE DEF Set, Goto, shared, local, history, ShapeInv, ThreadOK
  <1>2. CASE AddValue(t)
    BY <1>1, <1>2 DEF AddValue, AddCount, Counters
  <1>3. CASE AddCount(t)
    BY <1>1, <1>3 DEF AddValue, AddCount, Counters
  <1>4. CASE ~ AddValue(t) /\ ~ AddCount(t)
    <2>1. pc[t] # "count" /\ pc'[t] # "count"
      BY <1>4 DEF Step, Start, CallStart, AddMethods, LookupKey, LookupNext,
           LookupValue, Search, Call, FillRead, FillCheck, ProbeKey, ProbeValue, Found,
           AddTaken, AddKey, SwapNew, SwapRead, SwapCas, InvalidateRead, InvalidateCount,
           InvalidateInspect, NextMethod, AddReturn
    <2>. QED
      BY <1>1, <1>4, <2>1 DEF Counters
  <1>. QED
    BY <1>2, <1>3, <1>4

\* The threads that may yet take a slot: FillCheck joins, AddValue leaves.
LEMMA PendingStep ==
    ASSUME ShapeInv, JobInv, NEW t \in Thread, Step(t) \/ Start(t), NEW c
    PROVE  Pending(c)' =
             IF FillCheck(t) /\ ~ ShouldGrow(caches[cache[t]]) /\ c = cache[t]
             THEN Pending(c) \cup {t}
             ELSE IF AddValue(t) /\ c = cache[t] THEN Pending(c) \ {t}
             ELSE Pending(c)
  <1>1. ASSUME NEW u \in Thread, u # t
        PROVE  u \in Pending(c)' <=> u \in Pending(c)
    BY <1>1, OthersKept DEF Pending
  <1>. USE DEF Set, Goto, shared, local, history, ShapeInv, ThreadOK
  <1>2. CASE AddValue(t)
    BY <1>1, <1>2 DEF AddValue, FillCheck, Pending
  <1>3. CASE FillCheck(t)
    BY <1>1, <1>3 DEF AddValue, FillCheck, Pending, JobInv
  <1>4. CASE ProbeKey(t) \/ ProbeValue(t)
    <2>1. t \in Pending(c)' <=> t \in Pending(c)
      BY <1>4 DEF ProbeKey, ProbeValue, Found, Pending
    <2>2. ~ FillCheck(t) /\ ~ AddValue(t)
      BY <1>4 DEF ProbeKey, ProbeValue, FillCheck, AddValue
    <2>. QED
      BY <1>1, <2>1, <2>2 DEF Pending
  <1>5. CASE ~ AddValue(t) /\ ~ FillCheck(t) /\ ~ ProbeKey(t) /\ ~ ProbeValue(t)
    <2>1. /\ pc[t] \notin {"probeKey", "probeValue", "add"}
          /\ pc'[t] \notin {"probeKey", "probeValue", "add"} \/ todo'[t] # {}
      BY <1>5 DEF Step, Start, CallStart, AddMethods, LookupKey, LookupNext,
           LookupValue, Search, Call, FillRead, Found, JobInv, AddCount,
           AddTaken, AddKey, SwapNew, SwapRead, SwapCas, InvalidateRead, InvalidateCount,
           InvalidateInspect, NextMethod, AddReturn
    <2>. QED
      BY <1>1, <1>5, <2>1 DEF Pending
  <1>. QED
    BY <1>2, <1>3, <1>4, <1>5

\* The count keeps lagging by the adders.
LEMMA CountStep ==
    ASSUME ShapeInv, JobInv, ImpInv, CountLagsByAdders, NEW t \in Thread, Step(t) \/ Start(t)
    PROVE  CountLagsByAdders'
  <1>. DEFINE Lags(c) == Cardinality(Used(caches[c])) = caches[c].n + Cardinality(Counters(c))
  <1>1. ASSUME NEW c \in Addresses PROVE Lags(c)
    BY DEF CountLagsByAdders, Counters
  <1>2. ASSUME NEW c \in Addresses'
        PROVE  Cardinality(Used(caches'[c])) = caches'[c].n + Cardinality(Counters(c)')
    <2>1. CASE AddValue(t) /\ Slot(t).val = NoImp
      <3>1. c \in Addresses /\ caches'[c].n = caches[c].n /\ caches[c].n \in Nat
        BY <2>1, AddValueStores DEF Addresses, ShapeInv, TableOK
      <3>2. imp[t] # NoImp /\ t \notin Counters(c)
        BY <2>1, NoImpAssumption DEF AddValue, ImpInv, JobInv, Filling, FillLabels, Counters
      <3>3. CASE c = cache[t]
        <4>1. Counters(c)' = Counters(c) \cup {t}
          BY <2>1, <3>3, CountersStep
        <4>2. /\ Used(caches'[c]) = Used(caches[c]) \cup {Index(t)}
              /\ Index(t) \notin Used(caches[c])
          BY <2>1, <3>2, <3>3, UsedGrows
        <4>3. /\ Cardinality(Used(caches'[c])) = Cardinality(Used(caches[c])) + 1
              /\ Cardinality(Counters(c)') = Cardinality(Counters(c)) + 1
          BY <3>1, <3>2, <4>1, <4>2, Finite, FS_AddElement
        <4>. QED
          BY <1>1, <3>1, <4>3, Finite
      <3>4. CASE c # cache[t]
        <4>1. Counters(c)' = Counters(c)
          BY <3>4, CountersStep
        <4>2. Used(caches'[c]) = Used(caches[c])
          BY <2>1, <3>1, <3>2, <3>4, UsedGrows
        <4>. QED
          BY <1>1, <3>1, <4>1, <4>2
      <3>. QED
        BY <3>3, <3>4
    <2>2. CASE AddCount(t)
      <3>1. /\ c \in Addresses /\ caches[c].n \in Nat
            /\ caches'[c].n = IF c = cache[t] THEN caches[c].n + 1 ELSE caches[c].n
        BY <2>2, StoreCount DEF AddCount, Addresses, ShapeInv, TableOK
      <3>2. Used(caches'[c]) = Used(caches[c])
        BY <2>2, <3>1, UsedKept DEF AddCount, AddValue
      <3>3. CASE c = cache[t]
        <4>0. pc[t] = "count" /\ ~ AddValue(t)
          BY <2>2 DEF AddCount, AddValue
        <4>1. Counters(c)' = Counters(c) \ {t} /\ t \in Counters(c)
          <5>1. t \in Counters(c)
            BY <3>3, <4>0 DEF Counters
          <5>. QED
            BY <2>2, <3>3, <4>0, <5>1, CountersStep
        <4>2. Cardinality(Counters(c)') = Cardinality(Counters(c)) - 1
          BY <3>1, <4>1, Finite, FS_RemoveElement
        <4>. QED
          BY <1>1, <3>1, <3>2, <3>3, <4>2, Finite
      <3>4. CASE c # cache[t]
        <4>1. Counters(c)' = Counters(c)
          BY <3>4, CountersStep
        <4>. QED
          BY <1>1, <3>1, <3>2, <3>4, <4>1
      <3>. QED
        BY <3>3, <3>4
    <2>3. CASE SwapNew(t)
      <3>1. Counters(c)' = Counters(c)
        BY <2>3, CountersStep DEF SwapNew, AddValue, AddCount
      <3>2. CASE c \in Addresses
        BY <1>1, <2>3, <3>1, <3>2, NewCache DEF SwapNew
      <3>3. CASE c = Len(caches) + 1
        <4>1. /\ caches'[c].n = 0
              /\ caches'[c].slots = [i \in 0 .. caches'[c].size - 1 |->
                                        [key |-> NoKey, val |-> NoImp]]
          BY <2>3, <3>3, NewCache DEF SwapNew
        <4>2. Used(caches'[c]) = {}
          <5>1. \A i \in DOMAIN caches'[c].slots : caches'[c].slots[i].val = NoImp
            BY <4>1
          <5>. QED
            BY <5>1 DEF Used
        <4>3. Counters(c) = {}
          BY <3>3 DEF Counters, ShapeInv, ThreadOK, TableOK, Addresses
        <4>. QED
          BY <3>1, <4>1, <4>2, <4>3, FS_EmptySet
      <3>. QED
        BY <2>3, <3>2, <3>3, NewCache DEF SwapNew, Addresses
    <2>4. CASE ~ (AddValue(t) /\ Slot(t).val = NoImp) /\ ~ AddCount(t) /\ ~ SwapNew(t)
      <3>1. Counters(c)' = Counters(c)
        BY <2>4, CountersStep
      <3>2. c \in Addresses /\ caches'[c].n = caches[c].n
        BY <2>4, Writers, AddKeyStores DEF Addresses
      <3>3. Used(caches'[c]) = Used(caches[c])
        BY <2>4, <3>2, UsedKept
      <3>. QED
        BY <1>1, <3>1, <3>2, <3>3
    <2>. QED
      BY <2>1, <2>2, <2>3, <2>4
  <1>. QED
    BY <1>2 DEF CountLagsByAdders, Counters

\* Passing the check of the fill level leaves room for a slot per thread.
LEMMA CheckLeavesRoom ==
    ASSUME ShapeInv, CountLagsByAdders, NEW t \in Thread, NEW c \in Addresses,
           pc[t] = "check", ~ ShouldGrow(caches[c])
    PROVE  Cardinality(Used(caches[c])) + Cardinality(Pending(c) \cup {t}) <=
               (caches[c].size - 1) \div 3 + Cardinality(Thread)
  <1>. DEFINE P == Pending(c) \cup {t}
              C == Counters(c)
  <1>1. P \cap C = {} /\ P \cup C \subseteq Thread
    BY DEF Pending, Counters
  <1>2. IsFiniteSet(P) /\ IsFiniteSet(C)
    BY Finite, FS_AddElement
  <1>3. Cardinality(P) \in Nat /\ Cardinality(C) \in Nat /\ Cardinality(Thread) \in Nat
    BY <1>2, Finite, FS_CardinalityType
  <1>4. Cardinality(P \cup C) = Cardinality(P) + Cardinality(C)
    <2>. HIDE DEF P, C
    <2>1. Cardinality(P \cup C) = Cardinality(P) + Cardinality(C) - Cardinality(P \cap C)
      BY <1>2, FS_Union
    <2>2. Cardinality(P \cap C) = 0
      BY <1>1, FS_EmptySet
    <2>. QED
      BY <1>3, <2>1, <2>2
  <1>5. Cardinality(P) + Cardinality(C) <= Cardinality(Thread)
    BY <1>1, <1>4, ThreadAssumption, FS_Subset
  <1>6. Cardinality(Used(caches[c])) = caches[c].n + Cardinality(C)
    BY DEF CountLagsByAdders, Counters
  <1>7. /\ caches[c].n \in Nat /\ caches[c].size \in Nat /\ caches[c].size > 0
        /\ caches[c].n * 3 < caches[c].size
    BY SizeAssumption DEF ShapeInv, TableOK, ShouldGrow
  <1>8. caches[c].n <= (caches[c].size - 1) \div 3
    BY <1>7
  <1>. HIDE DEF P, C
  <1>9. (caches[c].size - 1) \div 3 \in Int
    BY <1>7
  <1>10. caches[c].n + Cardinality(C) + Cardinality(P) <=
             (caches[c].size - 1) \div 3 + Cardinality(Thread)
    BY <1>3, <1>5, <1>7, <1>8, <1>9
  <1>. QED
    BY <1>6, <1>10 DEF P

\* However the fills overlap, each has the room its own check left it.
LEMMA RoomStep ==
    ASSUME ShapeInv, JobInv, ImpInv, CountLagsByAdders, RoomInv,
           NEW t \in Thread, Step(t) \/ Start(t)
    PROVE  RoomInv'
  <1>. SUFFICES ASSUME NEW c \in Addresses'
                PROVE  Cardinality(Used(caches'[c])) + Cardinality(Pending(c)') <=
                           (caches'[c].size - 1) \div 3 + Cardinality(Thread)
    BY DEF RoomInv
  <1>1. CASE c \in Addresses
    <2>1. /\ caches'[c].size = caches[c].size
          /\ caches[c].size \in Nat /\ (caches[c].size - 1) \div 3 \in Int
      BY <1>1, SizesKept, SizeAssumption DEF ShapeInv, TableOK
    <2>2. Cardinality(Used(caches[c])) + Cardinality(Pending(c)) <=
              (caches[c].size - 1) \div 3 + Cardinality(Thread)
      BY <1>1 DEF RoomInv
    <2>3. CASE AddValue(t) /\ c = cache[t]
      <3>1. t \in Pending(c) /\ ~ FillCheck(t)
        BY <2>3 DEF AddValue, FillCheck, Pending, JobInv
      <3>2. Pending(c)' = Pending(c) \ {t}
        BY <2>3, <3>1, PendingStep
      <3>3. Cardinality(Pending(c)') = Cardinality(Pending(c)) - 1
        BY <1>1, <3>1, <3>2, Finite, FS_RemoveElement
      <3>4. /\ Cardinality(Used(caches'[c])) \in Nat
            /\ Cardinality(Used(caches'[c])) <= Cardinality(Used(caches[c])) + 1
        <4>1. CASE Slot(t).val = NoImp
          <5>1. imp[t] # NoImp
            BY <2>3, NoImpAssumption DEF AddValue, ImpInv, JobInv, Filling, FillLabels
          <5>2. Used(caches'[c]) = Used(caches[c]) \cup {Index(t)}
            BY <2>3, <4>1, <5>1, UsedGrows
          <5>3. /\ IsFiniteSet(Used(caches'[c]))
                /\ Cardinality(Used(caches'[c])) =
                      IF Index(t) \in Used(caches[c]) THEN Cardinality(Used(caches[c]))
                      ELSE Cardinality(Used(caches[c])) + 1
            BY <1>1, <5>2, Finite, FS_AddElement
          <5>. QED
            BY <1>1, <5>3, Finite, FS_CardinalityType
        <4>2. CASE Slot(t).val # NoImp
          BY <1>1, <4>2, UsedKept, Finite
        <4>. QED
          BY <4>1, <4>2
      <3>. QED
        BY <1>1, <2>1, <2>2, <3>3, <3>4, Finite
    <2>4. CASE FillCheck(t) /\ ~ ShouldGrow(caches[cache[t]]) /\ c = cache[t]
      <3>1. Pending(c)' = Pending(c) \cup {t}
        BY <2>4, PendingStep
      <3>2. Used(caches'[c]) = Used(caches[c])
        BY <1>1, <2>4, UsedKept DEF FillCheck, AddValue
      <3>3. pc[t] = "check" /\ ~ ShouldGrow(caches[c])
        BY <2>4 DEF FillCheck
      <3>. QED
        BY <1>1, <2>1, <3>1, <3>2, <3>3, CheckLeavesRoom
    <2>5. CASE /\ ~ (AddValue(t) /\ c = cache[t])
               /\ ~ (FillCheck(t) /\ ~ ShouldGrow(caches[cache[t]]) /\ c = cache[t])
      <3>1. Pending(c)' = Pending(c)
        BY <2>5, PendingStep
      <3>2. Used(caches'[c]) = Used(caches[c])
        <4>1. CASE AddValue(t) /\ Slot(t).val = NoImp
          <5>1. imp[t] # NoImp
            BY <4>1, NoImpAssumption DEF AddValue, ImpInv, JobInv, Filling, FillLabels
          <5>. QED
            BY <1>1, <2>5, <4>1, <5>1, UsedGrows
        <4>2. CASE ~ (AddValue(t) /\ Slot(t).val = NoImp)
          BY <1>1, <4>2, UsedKept
        <4>. QED
          BY <4>1, <4>2
      <3>. QED
        BY <2>1, <2>2, <3>1, <3>2
    <2>. QED
      BY <2>3, <2>4, <2>5
  <1>2. CASE c \notin Addresses
    <2>1. SwapNew(t)
      BY <1>2, Writers, AddValueStores, AddKeyStores, StoreCount DEF Addresses, AddCount
    <2>2. c = Len(caches) + 1
      BY <1>2, <2>1, NewCache DEF SwapNew, Addresses
    <2>3. /\ caches'[c].slots = [i \in 0 .. caches'[c].size - 1 |->
                                    [key |-> NoKey, val |-> NoImp]]
          /\ caches'[c].size \in InitialSize .. MaxSize
      BY <2>1, <2>2, NewCache DEF SwapNew
    <2>4. Used(caches'[c]) = {}
      <3>1. \A i \in DOMAIN caches'[c].slots : caches'[c].slots[i].val = NoImp
        BY <2>3
      <3>. QED
        BY <3>1 DEF Used
    <2>5. Pending(c) = {}
      BY <1>2 DEF Pending, ShapeInv, ThreadOK
    <2>6. Pending(c)' = {}
      BY <2>1, <2>5, PendingStep DEF SwapNew, FillCheck, AddValue
    <2>7. Cardinality(Thread) \in Nat
      BY ThreadAssumption, FS_CardinalityType
    <2>8. caches'[c].size \in Nat /\ caches'[c].size > 0
      BY <2>3, SizeAssumption
    <2>. QED
      BY <2>4, <2>6, <2>7, <2>8, FS_EmptySet
  <1>. QED
    BY <1>1, <1>2

----------------------------------------------------------------------------
(* Freeing *)

\* A cache is freed by whoever took it out of the pivot, or never put it there.
LEMMA PivotStep ==
    ASSUME ShapeInv, JobInv, PivotNeverFreed, NEW t \in Thread, Step(t) \/ Start(t)
    PROVE  PivotNeverFreed'
  <1>. DEFINE Swapping(u) == pc[u] \in {"swapRead", "swap"}
              Safe(u) == /\ fresh[u] \in Addresses /\ fresh[u] \notin freed
                         /\ fresh[u] # pivot
  <1>0. DOMAIN caches = Addresses /\ Addresses \subseteq Addresses'
    BY SizesKept DEF Addresses, ShapeInv, TableOK
  <1>1. /\ pivot \notin freed /\ pivot \in Addresses
        /\ \A u \in Thread : Swapping(u) => Safe(u)
        /\ \A u, w \in Thread : u # w /\ Swapping(u) /\ Swapping(w) => fresh[u] # fresh[w]
    BY <1>0 DEF PivotNeverFreed, assert_valid_impcache, ShapeInv, ThreadOK
  <1>2. DOMAIN caches' = Addresses'
    BY ShapeStep DEF Addresses, ShapeInv, TableOK
  <1>3. /\ pivot' \notin freed' /\ pivot' \in Addresses'
        /\ \A u \in Thread : Swapping(u)' => Safe(u)'
        /\ \A u, w \in Thread : u # w /\ Swapping(u)' /\ Swapping(w)' => fresh'[u] # fresh'[w]
    <2>. USE DEF Set, Goto, shared, local, history
    <2>1. CASE SwapNew(t)
      <3>1. /\ Len(caches') = Len(caches) + 1 /\ Len(caches) \in Nat
        BY <2>1, NewCache DEF SwapNew
      <3>2. /\ fresh'[t] = Len(caches) + 1 /\ fresh'[t] \in Addresses'
            /\ fresh'[t] \notin Addresses
        BY <2>1, <3>1 DEF SwapNew, Addresses, ShapeInv, ThreadOK
      <3>3. /\ pivot' = pivot /\ freed' = freed /\ freed \subseteq Addresses
        BY <2>1 DEF SwapNew, ShapeInv, ThreadOK
      <3>4. \A u \in Thread : u # t => fresh'[u] = fresh[u] /\ (Swapping(u)' <=> Swapping(u))
        BY OthersKept
      <3>5. \A u \in Thread : fresh[u] \in Addresses
        BY DEF ShapeInv, ThreadOK
      <3>. HIDE DEF Swapping
      <3>. QED
        BY <1>0, <1>1, <3>2, <3>3, <3>4, <3>5
    <2>2. CASE SwapCas(t)
      <3>1. /\ Swapping(t) /\ ~ Swapping(t)' /\ Addresses' = Addresses /\ fresh' = fresh
            /\ \/ pivot' = fresh[t] /\ freed' = freed \cup {pivot}
               \/ pivot' = pivot /\ freed' = freed \cup {fresh[t]}
        BY <2>2 DEF SwapCas, free_impcache, abafree_impcache, Addresses, ShapeInv, ThreadOK
      <3>2. \A u \in Thread : u # t => (Swapping(u)' <=> Swapping(u))
        BY OthersKept
      <3>. HIDE DEF Swapping
      <3>. QED
        BY <1>1, <3>1, <3>2
    <2>3. CASE ~ SwapNew(t) /\ ~ SwapCas(t)
      <3>1. pivot' = pivot /\ freed' = freed /\ fresh' = fresh
        BY <2>3 DEF Step, Start, CallStart, AddMethods, LookupKey, LookupNext, LookupValue,
             Search, Call, FillRead, FillCheck, ProbeKey, ProbeValue, AddValue, AddTaken,
             AddCount, AddKey, SwapRead, InvalidateRead, InvalidateCount,
             InvalidateInspect, AddReturn
      <3>2. Swapping(t)' => Swapping(t)
        BY <2>3 DEF Step, Start, CallStart, AddMethods, LookupKey, LookupNext, LookupValue,
             Search, Call, FillRead, FillCheck, ProbeKey, ProbeValue, Found, AddValue,
             AddTaken, AddCount, AddKey, SwapRead, InvalidateRead, InvalidateCount,
             InvalidateInspect, NextMethod, AddReturn, ShapeInv, ThreadOK
      <3>3. \A u \in Thread : Swapping(u)' => Swapping(u)
        BY <3>2, OthersKept
      <3>. HIDE DEF Swapping
      <3>. QED
        BY <1>0, <1>1, <3>1, <3>3
    <2>. QED
      BY <2>1, <2>2, <2>3
  <1>. QED
    BY <1>2, <1>3 DEF PivotNeverFreed, assert_valid_impcache

----------------------------------------------------------------------------
(* The theorem *)

\* A universe starts a class with one empty cache and nobody in it.
LEMMA InitIInv ==
    ASSUME Init
    PROVE  IInv
  <1>. DEFINE slots == [i \in 0 .. InitialSize - 1 |-> [key |-> NoKey, val |-> NoImp]]
  <1>1. slots \in [0 .. InitialSize - 1 -> SlotRecord]
    BY DEF SlotRecord
  <1>2. \A i \in DOMAIN slots : slots[i].key = NoKey /\ slots[i].val = NoImp
    OBVIOUS
  <1>3. slots \in SlotTable
    BY <1>1, SizeAssumption, TableOfSize
  <1>4. EmptyCache(InitialSize) = [size |-> InitialSize, n |-> 0, slots |-> slots]
    BY DEF EmptyCache
  <1>. HIDE DEF slots
  <1>5. EmptyCache(InitialSize) \in CacheRecord
    BY <1>3, <1>4, SizeAssumption DEF CacheRecord
  <1>6. /\ caches \in Seq(CacheRecord) /\ Len(caches) = 1
        /\ caches[1] = EmptyCache(InitialSize) /\ Addresses = {1}
    BY <1>5 DEF Init, Addresses
  <1>7. caches[1].size = InitialSize /\ caches[1].n = 0 /\ caches[1].slots = slots
    BY <1>4, <1>6
  <1>8. TableOK
    BY <1>1, <1>6, <1>7, SizeAssumption DEF TableOK
  <1>9. ThreadOK
    BY <1>6 DEF Init, ThreadOK, Labels
  <1>10. JobInv /\ ImpInv /\ OwnerInv
    BY DEF Init, JobInv, ImpInv, OwnerInv, Adding, Filling, FillLabels
  <1>11. SlotInv
    BY <1>2, <1>6, <1>7 DEF SlotInv
  <1>12. Used(caches[1]) = {} /\ Counters(1) = {} /\ Pending(1) = {}
    <2>1. \A i \in DOMAIN caches[1].slots : caches[1].slots[i].val = NoImp
      BY <1>2, <1>7
    <2>2. \A t \in Thread : pc[t] = "idle"
      BY DEF Init
    <2>. QED
      BY <2>1, <2>2 DEF Used, Counters, Pending
  <1>13. CountLagsByAdders
    <2>1. Cardinality(Used(caches[1])) = 0 /\ Cardinality(Counters(1)) = 0
      BY <1>12, FS_EmptySet
    <2>2. \A c \in Addresses :
             Cardinality(Used(caches[c])) = caches[c].n + Cardinality(Counters(c))
      BY <1>6, <1>7, <2>1
    <2>. QED
      BY <2>2 DEF CountLagsByAdders, Counters
  <1>14. RoomInv
    <2>1. Cardinality(Thread) \in Nat
      BY ThreadAssumption, FS_CardinalityType
    <2>2. (InitialSize - 1) \div 3 \in Nat
      BY SizeAssumption
    <2>3. Cardinality(Used(caches[1])) = 0 /\ Cardinality(Pending(1)) = 0
      BY <1>12, FS_EmptySet
    <2>. QED
      BY <1>6, <1>7, <2>1, <2>2, <2>3 DEF RoomInv
  <1>15. PivotNeverFreed
    BY DEF Init, PivotNeverFreed
  <1>. QED
    BY <1>8, <1>9, <1>10, <1>11, <1>13, <1>14, <1>15 DEF IInv, ShapeInv

\* Whatever thread takes the next step, the invariant survives it.
LEMMA NextIInv ==
    ASSUME IInv, [Next]_vars
    PROVE  IInv'
  <1>1. CASE UNCHANGED vars
    <2>. USE <1>1 DEF vars, shared, local, history
    <2>1. ShapeInv'
      BY DEF IInv, ShapeInv, TableOK, ThreadOK, Addresses
    <2>2. JobInv' /\ ImpInv' /\ SlotInv' /\ OwnerInv'
      BY DEF IInv, JobInv, ImpInv, SlotInv, OwnerInv, Addresses, Adding, Filling, Index, Slot
    <2>3. CountLagsByAdders'
      BY DEF IInv, CountLagsByAdders, Addresses
    <2>4. RoomInv'
      BY DEF IInv, RoomInv, Addresses, Pending
    <2>5. PivotNeverFreed'
      BY DEF IInv, PivotNeverFreed, assert_valid_impcache
    <2>. QED
      BY <2>1, <2>2, <2>3, <2>4, <2>5 DEF IInv
  <1>2. ASSUME NEW t \in Thread, Step(t) \/ Start(t)
        PROVE  IInv'
    BY <1>2, ShapeStep, JobStep, ImpStep, SlotStep, OwnerStep, CountStep, RoomStep, PivotStep
       DEF IInv
  <1>. QED
    BY <1>1, <1>2 DEF Next

\* Under the invariant the cache is sound.
LEMMA IInvIsSound ==
    ASSUME IInv
    PROVE  CacheIsSound
  <1>1. TypeOK
    BY ShapeIsTypeOK DEF IInv
  <1>2. FillBounded
    <2>1. ASSUME NEW c \in Addresses
          PROVE  Cardinality(Used(caches[c])) <=
                     (caches[c].size - 1) \div 3 + Cardinality(Thread)
      <3>1. Cardinality(Used(caches[c])) + Cardinality(Pending(c)) <=
                (caches[c].size - 1) \div 3 + Cardinality(Thread)
        BY DEF IInv, RoomInv
      <3>2. (caches[c].size - 1) \div 3 \in Int
        BY SizeAssumption DEF IInv, ShapeInv, TableOK
      <3>. QED
        BY <3>1, <3>2, Finite DEF IInv
    <2>. QED
      BY <2>1 DEF FillBounded
  <1>3. NoForeignImplementation
    BY DEF IInv, SlotInv, ImpInv, NoForeignImplementation, Published
  <1>. QED
    BY <1>1, <1>2, <1>3 DEF IInv, CacheIsSound

\* The method cache of a class counts what it holds, lagging exactly by the threads
\* that are adding; takes one slot per thread beyond its growth limit at most; is not
\* freed while the pivot leads to it, or twice; and has under a key only implementations
\* of this key (mulle-objc-cache.c 381-520, mulle-objc-class-impcache.c 60-240).
THEOREM ImpCacheIsSound == Spec => []CacheIsSound
  <1>1. Spec => []IInv
    BY InitIInv, NextIInv, PTL DEF Spec
  <1>2. IInv => CacheIsSound
    BY IInvIsSound
  <1>. QED
    BY <1>1, <1>2, PTL

----------------------------------------------------------------------------
(* Calls are current: the second invariant.  Nothing that is outdated gets into a cache
   once its method was added (SearchedInv), so an outdated entry can only be an old one;
   whoever has its method to invalidate finds it, since a probe for a published key is
   not stopped before it gets there (PathInv), nor by a count of zero (CountedInv), and puts
   an empty cache (FreshInv) into place. *)

\* slot a probe of cache c at offset o looks at
SlotAt(c, o) == caches[c].slots[o % caches[c].size]

\* an entry for k that a search would not find any more is in cache c
Outdated(k) == [key |-> k, val |-> <<k, 0>>]
Stale(c, k) == \E i \in DOMAIN caches[c].slots : caches[c].slots[i] = Outdated(k)

\* no probe that starts at offset a ends before offset b
Passes(c, a, b) == \A o \in a .. b - 1 : SlotAt(c, o).val # NoImp

\* what a call may rely on
FloorInv ==
    /\ floor \in [Thread -> {0, 1}] /\ overlap \in BOOLEAN

\* a cache that is not yet the one in use is nobody's and empty
FreshInv ==
    \A t \in Thread :
        pc[t] \in {"swapRead", "swap"} =>
            /\ \A u \in Thread : cache[u] # fresh[t]
            /\ \A i \in DOMAIN caches[fresh[t]].slots : caches[fresh[t]].slots[i].key = NoKey

\* a published entry is counted
CountedInv ==
    /\ \A c \in Addresses : \A i \in DOMAIN caches[c].slots :
          caches[c].slots[i].key # NoKey => caches[c].n > 0
    /\ \A t \in Thread : pc[t] = "publish" => caches[cache[t]].n > 0

\* a probe for a published key reaches it
PathInv ==
    /\ \A t \in Thread :
          /\ todo[t] = {}
          /\ pc[t] \in {"probeKey", "probeValue", "add", "taken", "count", "publish"}
          => off[t] >= Home[key[t]] /\ Passes(cache[t], Home[key[t]], off[t])
    /\ \A c \in Addresses : \A i \in DOMAIN caches[c].slots :
          LET k == caches[c].slots[i].key
          IN  k # NoKey => \E o \in Nat : /\ o >= Home[k] /\ o % caches[c].size = i
                                          /\ Passes(c, Home[k], o)

\* what is filled in was searched after the methods were added
SearchedInv ==
    ~ overlap =>
        \A t \in Thread : Filling(t) /\ methods[key[t]] = 1 => imp[t][2] = 1

\* the probe of thread t gets from offset a to an outdated entry for k
Ahead(t, k, a) ==
    \E o \in Nat : o >= a /\ SlotAt(cache[t], o) = Outdated(k) /\ Passes(cache[t], off[t], o)

\* thread t is going to replace the cache in use if it has an outdated entry for k
Chasing(t, k) ==
    /\ k \in todo[t]
    /\ \/ pc[t] \in {"invalidate", "renew", "swapRead"}
       \/ pc[t] = "swap" /\ cache[t] = pivot
       \/ pc[t] \in {"invalidateCount", "probeKey", "probeValue", "inspect"} /\ key[t] # k
       \/ pc[t] = "invalidateCount" /\ cache[t] = pivot
       \/ pc[t] = "probeKey" /\ cache[t] = pivot /\ Ahead(t, k, off[t])
       \/ pc[t] = "probeValue" /\ cache[t] = pivot /\ Ahead(t, k, off[t] + 1)
       \/ pc[t] = "inspect" /\ cache[t] = pivot /\ Slot(t).key # NoKey

ChaseInv ==
    ~ overlap =>
        \A k \in Key :
            methods[k] = 1 /\ Stale(pivot, k) => \E t \in Thread : Chasing(t, k)

\* what has been settled is current
SettledInv ==
    ~ overlap =>
        \A k \in Key : settled[k] = 1 => methods[k] = 1 /\ ~ Stale(pivot, k)

Lookups == {"lookupKey", "lookupNext", "lookupValue"}

\* a call that started late enough is current
CurrentInv ==
    ~ overlap =>
        \A t \in Thread :
            floor[t] = 1 =>
                /\ pc[t] \in Lookups \cup {"search", "call"} \/ Filling(t)
                      => methods[key[t]] = 1
                /\ pc[t] \in Lookups => ~ Stale(cache[t], key[t])
                /\ pc[t] = "call" => imp[t][2] = 1

CurrInv ==
    FloorInv /\ FreshInv /\ CountedInv /\ PathInv /\ SearchedInv /\ ChaseInv
    /\ SettledInv /\ CurrentInv

----------------------------------------------------------------------------
(* What a step does to an entry *)

\* The slot of a thread is the one its offset leads to.
LEMMA SlotIsSlotAt ==
    ASSUME NEW t \in Thread
    PROVE  Slot(t) = SlotAt(cache[t], off[t])
  BY DEF Slot, Index, SlotAt

\* Caches have slots.
LEMMA TableShape ==
    ASSUME ShapeInv, NEW c \in Addresses
    PROVE  /\ caches[c].size \in Nat /\ caches[c].size > 0 /\ caches[c].n \in Nat
           /\ DOMAIN caches[c].slots = 0 .. caches[c].size - 1
           /\ 0 \in 0 .. caches[c].size - 1
           /\ \A i \in 0 .. caches[c].size - 1 : caches[c].slots[i] \in SlotRecord
           /\ \A o \in Nat : /\ o % caches[c].size \in 0 .. caches[c].size - 1
                             /\ SlotAt(c, o) = caches[c].slots[o % caches[c].size]
  <1>1. /\ caches[c].size \in InitialSize .. MaxSize /\ caches[c].n \in Nat
        /\ caches[c].slots \in [0 .. caches[c].size - 1 -> SlotRecord]
    BY DEF ShapeInv, TableOK
  <1>2. caches[c].size \in Nat /\ caches[c].size > 0
    BY <1>1, SizeAssumption
  <1>. QED
    BY <1>1, <1>2, ModRange DEF SlotAt

\* A published entry stays as it is, a value stays where it is, and what appears
\* under a key was put there by the thread that publishes it.
LEMMA EntryKept ==
    ASSUME IInv, NEW t \in Thread, Step(t) \/ Start(t), NEW c \in Addresses,
           NEW i \in 0 .. caches[c].size - 1
    PROVE  /\ DOMAIN caches'[c].slots = 0 .. caches[c].size - 1
           /\ caches[c].slots[i].key # NoKey => caches'[c].slots[i] = caches[c].slots[i]
           /\ caches[c].slots[i].val # NoImp =>
                  caches'[c].slots[i].val = caches[c].slots[i].val
           /\ caches'[c].slots[i].key # caches[c].slots[i].key =>
                  /\ AddKey(t) /\ Filling(t) /\ c = cache[t] /\ i = off[t] % caches[c].size
                  /\ caches'[c].slots[i] = [key |-> key[t], val |-> imp[t]]
  <1>. USE DEF IInv
  <1>1. CASE AddValue(t) /\ Slot(t).val = NoImp
    <2>1. /\ caches'[c].slots \in [0 .. caches[c].size - 1 -> SlotRecord]
          /\ caches'[c].slots[i] = IF c = cache[t] /\ i = Index(t)
                                   THEN [key |-> Slot(t).key, val |-> imp[t]]
                                   ELSE caches[c].slots[i]
      BY <1>1, AddValueStores
    <2>2. c = cache[t] /\ i = Index(t) =>
             Slot(t) = caches[c].slots[i] /\ caches[c].slots[i].key = NoKey
      BY <1>1, FreeHasNoKey DEF Slot
    <2>. QED
      BY <1>1, <2>1, <2>2
  <1>2. CASE AddKey(t)
    <2>1. /\ caches'[c].slots \in [0 .. caches[c].size - 1 -> SlotRecord]
          /\ caches'[c].slots[i] = IF c = cache[t] /\ i = Index(t)
                                   THEN [key |-> key[t], val |-> Slot(t).val]
                                   ELSE caches[c].slots[i]
      BY <1>2, AddKeyStores
    <2>2. /\ pc[t] = "publish" /\ todo[t] = {} /\ Slot(t).key = NoKey
          /\ Slot(t).val = imp[t]
      BY <1>2 DEF AddKey, JobInv, ImpInv, Adding
    <2>3. Filling(t)
      BY <2>2 DEF Filling, FillLabels
    <2>4. c = cache[t] /\ i = Index(t) =>
             Slot(t) = caches[c].slots[i] /\ i = off[t] % caches[c].size
      BY DEF Slot, Index
    <2>. QED
      BY <1>2, <2>1, <2>2, <2>3, <2>4
  <1>3. CASE ~ AddKey(t) /\ ~ (AddValue(t) /\ Slot(t).val = NoImp)
    BY <1>3, SlotsKept, TableShape
  <1>. QED
    BY <1>1, <1>2, <1>3

\* The same of what a probe looks at.
LEMMA ProbedKept ==
    ASSUME IInv, NEW t \in Thread, Step(t) \/ Start(t), NEW c \in Addresses, NEW o \in Nat
    PROVE  /\ SlotAt(c, o).key # NoKey => SlotAt(c, o)' = SlotAt(c, o)
           /\ SlotAt(c, o).val # NoImp => SlotAt(c, o)'.val # NoImp
  <1>1. caches'[c].size = caches[c].size
    BY SizesKept DEF IInv
  <1>2. PICK i \in 0 .. caches[c].size - 1 : i = o % caches[c].size
    BY TableShape DEF IInv
  <1>3. SlotAt(c, o) = caches[c].slots[i] /\ SlotAt(c, o)' = caches'[c].slots[i]
    BY <1>1, <1>2 DEF SlotAt
  <1>4. /\ caches[c].slots[i].key # NoKey => caches'[c].slots[i] = caches[c].slots[i]
        /\ caches[c].slots[i].val # NoImp =>
               caches'[c].slots[i].val = caches[c].slots[i].val
    BY EntryKept
  <1>. QED
    BY <1>3, <1>4

\* A probe gets as far as before.
LEMMA PassesKept ==
    ASSUME IInv, NEW t \in Thread, Step(t) \/ Start(t), NEW c \in Addresses,
           NEW a \in Nat, NEW b \in Nat, Passes(c, a, b)
    PROVE  Passes(c, a, b)'
  <1>1. \A o \in a .. b - 1 : o \in Nat
    OBVIOUS
  <1>. QED
    BY <1>1, ProbedKept DEF Passes

\* A cache that a step adds has no keys.
LEMMA NewHasNoKeys ==
    ASSUME ShapeInv, NEW t \in Thread, Step(t) \/ Start(t), NEW c \in Addresses',
           c \notin Addresses
    PROVE  /\ SwapNew(t) /\ c = Len(caches) + 1
           /\ \A i \in DOMAIN caches'[c].slots : caches'[c].slots[i].key = NoKey
  <1>1. SwapNew(t)
    BY Writers, AddValueStores, AddKeyStores, StoreCount DEF Addresses, AddCount
  <1>2. c = Len(caches) + 1
    BY <1>1, NewCache DEF SwapNew, Addresses
  <1>3. caches'[c].slots = [i \in 0 .. caches'[c].size - 1 |->
                                 [key |-> NoKey, val |-> NoImp]]
    BY <1>1, <1>2, NewCache DEF SwapNew
  <1>. QED
    BY <1>1, <1>2, <1>3

\* Once methods were added, no cache gets an outdated entry for one of them any more.
LEMMA StaleKept ==
    ASSUME IInv, SearchedInv, ~ overlap, NEW t \in Thread, Step(t) \/ Start(t),
           NEW c \in Addresses', NEW k \in Key, methods[k] = 1, Stale(c, k)'
    PROVE  c \in Addresses /\ Stale(c, k)
  <1>1. PICK i \in DOMAIN caches'[c].slots : caches'[c].slots[i] = Outdated(k)
    BY DEF Stale, Outdated
  <1>2. caches'[c].slots[i].key = k /\ k # NoKey /\ caches'[c].slots[i].val = <<k, 0>>
    BY <1>1, NoKeyAssumption DEF Outdated
  <1>3. c \in Addresses
    BY <1>1, <1>2, NewHasNoKeys DEF IInv
  <1>4. i \in 0 .. caches[c].size - 1 /\ i \in DOMAIN caches[c].slots
    <2>1. caches[c].size \in Nat /\ caches[c].size > 0
           /\ DOMAIN caches[c].slots = 0 .. caches[c].size - 1
      BY <1>3, TableShape DEF IInv
    <2>2. 0 \in 0 .. caches[c].size - 1
      BY <1>3, TableShape DEF IInv
    <2>3. DOMAIN caches'[c].slots = 0 .. caches[c].size - 1
      BY <1>3, <2>2, EntryKept
    <2>. QED
      BY <1>1, <2>1, <2>3
  <1>5. caches'[c].slots[i].key = caches[c].slots[i].key
    <2>. SUFFICES ASSUME caches'[c].slots[i].key # caches[c].slots[i].key PROVE FALSE
      OBVIOUS
    <2>1. Filling(t) /\ caches'[c].slots[i] = [key |-> key[t], val |-> imp[t]]
      BY <1>3, <1>4, EntryKept
    <2>2. key[t] = k /\ imp[t] = <<k, 0>>
      BY <1>2, <2>1
    <2>3. imp[t][2] = 1
      BY <2>1, <2>2 DEF SearchedInv
    <2>. QED
      BY <2>2, <2>3
  <1>. QED
    BY <1>1, <1>2, <1>3, <1>4, <1>5, EntryKept DEF Stale

----------------------------------------------------------------------------
(* What a step does to the variables of a call *)

\* Methods are only added, and the calls of before are not forgotten.
LEMMA MethodsKept ==
    ASSUME IInv, FloorInv, NEW t \in Thread, Step(t) \/ Start(t)
    PROVE  /\ overlap => overlap'
           /\ \A k \in Key : methods[k] = 1 => methods'[k] = 1
           /\ methods' = methods \/ \E list \in SUBSET Key : AddMethods(t, list)
           /\ settled' = settled \/ AddReturn(t)
           /\ pivot' = pivot \/ (SwapCas(t) /\ pivot = cache[t] /\ pivot' = fresh[t])
           /\ \A u \in Thread : cache'[u] = cache[u] \/ cache'[u] = pivot
  <1>. USE DEF Set, Goto, shared, local, history, IInv, ShapeInv, ThreadOK, FloorInv
  <1>1. overlap => overlap'
    BY DEF Step, Start, CallStart, AddMethods, LookupKey, LookupNext, LookupValue, Search,
           Call, FillRead, FillCheck, ProbeKey, ProbeValue, AddValue, AddTaken, AddCount,
           AddKey, SwapNew, SwapRead, SwapCas, InvalidateRead, InvalidateCount,
           InvalidateInspect, AddReturn
  <1>2. methods' = methods \/ \E list \in SUBSET Key : AddMethods(t, list)
    BY DEF Step, Start, CallStart, LookupKey, LookupNext, LookupValue, Search,
           Call, FillRead, FillCheck, ProbeKey, ProbeValue, AddValue, AddTaken, AddCount,
           AddKey, SwapNew, SwapRead, SwapCas, InvalidateRead, InvalidateCount,
           InvalidateInspect, AddReturn
  <1>3. \A k \in Key : methods[k] = 1 => methods'[k] = 1
    BY <1>2 DEF AddMethods
  <1>4. settled' = settled \/ AddReturn(t)
    BY DEF Step, Start, CallStart, AddMethods, LookupKey, LookupNext, LookupValue, Search,
           Call, FillRead, FillCheck, ProbeKey, ProbeValue, AddValue, AddTaken, AddCount,
           AddKey, SwapNew, SwapRead, SwapCas, InvalidateRead, InvalidateCount,
           InvalidateInspect
  <1>5. pivot' = pivot \/ (SwapCas(t) /\ pivot = cache[t] /\ pivot' = fresh[t])
    BY DEF Step, Start, CallStart, AddMethods, LookupKey, LookupNext, LookupValue, Search,
           Call, FillRead, FillCheck, ProbeKey, ProbeValue, AddValue, AddTaken, AddCount,
           AddKey, SwapNew, SwapRead, SwapCas, InvalidateRead, InvalidateCount,
           InvalidateInspect, AddReturn
  <1>6. ASSUME NEW u \in Thread PROVE cache'[u] = cache[u] \/ cache'[u] = pivot
    BY <1>6 DEF Step, Start, CallStart, AddMethods, LookupKey, LookupNext, LookupValue,
           Search, Call, FillRead, FillCheck, ProbeKey, ProbeValue, AddValue, AddTaken,
           AddCount, AddKey, SwapNew, SwapRead, SwapCas, InvalidateRead, InvalidateCount,
           InvalidateInspect, AddReturn
  <1>. QED
    BY <1>1, <1>2, <1>3, <1>4, <1>5, <1>6

\* A count does not fall.
LEMMA CountKept ==
    ASSUME ShapeInv, NEW t \in Thread, Step(t) \/ Start(t), NEW c \in Addresses
    PROVE  caches'[c].n >= caches[c].n
  <1>1. caches[c].n \in Nat
    BY TableShape
  <1>2. CASE AddValue(t) /\ Slot(t).val = NoImp
    <2>1. caches'[c].n = caches[c].n
      BY <1>2, AddValueStores
    <2>. QED
      BY <1>1, <2>1
  <1>3. CASE AddKey(t)
    <2>1. caches'[c].n = caches[c].n
      BY <1>3, AddKeyStores
    <2>. QED
      BY <1>1, <2>1
  <1>4. CASE AddCount(t)
    <2>1. caches'[c].n = IF c = cache[t] THEN caches[c].n + 1 ELSE caches[c].n
      BY <1>4, StoreCount DEF AddCount
    <2>. QED
      BY <1>1, <2>1
  <1>5. CASE SwapNew(t)
    <2>1. caches'[c] = caches[c]
      BY <1>5, NewCache DEF SwapNew
    <2>. QED
      BY <1>1, <2>1
  <1>6. CASE caches' = caches
    BY <1>1, <1>6
  <1>. QED
    BY <1>2, <1>3, <1>4, <1>5, <1>6, Writers

\* What the history says of a call is well formed.
LEMMA FloorStep ==
    ASSUME ShapeInv, FloorInv, NEW t \in Thread, Step(t) \/ Start(t)
    PROVE  FloorInv'
  <1>. USE DEF Set, Goto, shared, local, history, ShapeInv, ThreadOK, FloorInv
  <1>1. ASSUME NEW k \in Key, CallStart(t, k) PROVE FloorInv'
    BY <1>1 DEF CallStart
  <1>2. ASSUME NEW list \in SUBSET Key, AddMethods(t, list) PROVE FloorInv'
    BY <1>2 DEF AddMethods
  <1>3. CASE Step(t)
    BY <1>3 DEF Step, LookupKey, LookupNext, LookupValue, Search,
           Call, FillRead, FillCheck, ProbeKey, ProbeValue, AddValue, AddTaken, AddCount,
           AddKey, SwapNew, SwapRead, SwapCas, InvalidateRead, InvalidateCount,
           InvalidateInspect, AddReturn
  <1>. QED
    BY <1>1, <1>2, <1>3 DEF Start

\* Only SwapNew brings a thread to a swap.
LEMMA SwapNewFirst ==
    ASSUME ShapeInv, NEW t \in Thread, Step(t) \/ Start(t), ~ SwapNew(t)
    PROVE  /\ fresh' = fresh
           /\ \A u \in Thread : pc'[u] \in {"swapRead", "swap"} => pc[u] \in {"swapRead", "swap"}
  <1>1. fresh' = fresh
    BY DEF Step, Start, CallStart, AddMethods, LookupKey, LookupNext, LookupValue,
         Search, Call, FillRead, FillCheck, ProbeKey, ProbeValue, AddValue, AddTaken,
         AddCount, AddKey, SwapRead, SwapCas, InvalidateRead, InvalidateCount,
         InvalidateInspect, AddReturn, local
  <1>2. pc'[t] \in {"swapRead", "swap"} => pc[t] \in {"swapRead", "swap"}
    BY DEF Step, Start, CallStart, AddMethods, LookupKey, LookupNext, LookupValue,
         Search, Call, FillRead, FillCheck, ProbeKey, ProbeValue, Found, AddValue,
         AddTaken, AddCount, AddKey, SwapRead, SwapCas, InvalidateRead, InvalidateCount,
         InvalidateInspect, NextMethod, AddReturn, ShapeInv, ThreadOK, Goto
  <1>. QED
    BY <1>1, <1>2, OthersKept

\* A cache that is not yet the one in use stays untouched.
LEMMA FreshStep ==
    ASSUME IInv, FloorInv, FreshInv, NEW t \in Thread, Step(t) \/ Start(t)
    PROVE  FreshInv'
  <1>. SUFFICES ASSUME NEW u \in Thread, pc'[u] \in {"swapRead", "swap"}
                PROVE  /\ \A v \in Thread : cache'[v] # fresh'[u]
                       /\ \A i \in DOMAIN caches'[fresh'[u]].slots :
                             caches'[fresh'[u]].slots[i].key = NoKey
    BY DEF FreshInv
  <1>1. \A v \in Thread : cache[v] \in Addresses /\ fresh[v] \in Addresses
    BY DEF IInv, ShapeInv, ThreadOK
  <1>2. CASE SwapNew(t) /\ u = t
    <2>1. Len(caches') = Len(caches) + 1 /\ Len(caches) \in Nat
      BY <1>2, NewCache DEF SwapNew, IInv
    <2>2. fresh'[t] = Len(caches) + 1 /\ cache' = cache
      BY <1>2, <2>1 DEF SwapNew, Set, IInv, ShapeInv, ThreadOK
    <2>3. fresh'[t] \in Addresses' /\ fresh'[t] \notin Addresses
      BY <2>1, <2>2 DEF Addresses
    <2>. QED
      BY <1>1, <1>2, <2>2, <2>3, NewHasNoKeys DEF IInv
  <1>3. CASE ~ (SwapNew(t) /\ u = t)
    <2>1. fresh'[u] = fresh[u] /\ pc[u] \in {"swapRead", "swap"}
      BY <1>3, SwapNewFirst, OthersKept DEF IInv
    <2>2. fresh[u] # pivot
      BY <2>1 DEF IInv, PivotNeverFreed
    <2>3. \A v \in Thread : cache'[v] # fresh[u]
      BY <2>1, <2>2, MethodsKept DEF FreshInv
    <2>4. PICK c \in Addresses : c = fresh[u]
      BY <1>1
    <2>5. DOMAIN caches[c].slots = 0 .. caches[c].size - 1 /\ 0 \in 0 .. caches[c].size - 1
      BY TableShape DEF IInv
    <2>6. DOMAIN caches'[c].slots = DOMAIN caches[c].slots
      <3>1. DOMAIN caches'[c].slots = 0 .. caches[c].size - 1
        BY <2>5, EntryKept
      <3>. QED
        BY <2>5, <3>1
    <2>7. ASSUME NEW i \in DOMAIN caches[c].slots
          PROVE  caches'[c].slots[i].key = NoKey
      <3>1. caches[c].slots[i].key = NoKey /\ c # cache[t]
        BY <2>1, <2>4 DEF FreshInv
      <3>2. i \in 0 .. caches[c].size - 1
        BY <2>5
      <3>3. caches'[c].slots[i].key = caches[c].slots[i].key
        BY <3>1, <3>2, EntryKept
      <3>. QED
        BY <3>1, <3>3
    <2>. QED
      BY <2>1, <2>3, <2>4, <2>6, <2>7
  <1>. QED
    BY <1>2, <1>3

\* An entry is counted before it is published.
LEMMA CountedStep ==
    ASSUME IInv, CountedInv, NEW t \in Thread, Step(t) \/ Start(t)
    PROVE  CountedInv'
  <1>1. ASSUME NEW c \in Addresses', NEW i \in DOMAIN caches'[c].slots,
               caches'[c].slots[i].key # NoKey
        PROVE  caches'[c].n > 0
    <2>1. c \in Addresses
      BY <1>1, NewHasNoKeys DEF IInv
    <2>2. /\ DOMAIN caches[c].slots = 0 .. caches[c].size - 1 /\ 0 \in 0 .. caches[c].size - 1
          /\ caches[c].n \in Nat
      BY <2>1, TableShape DEF IInv
    <2>3. i \in 0 .. caches[c].size - 1
      BY <2>1, <2>2, EntryKept
    <2>4. caches[c].n > 0
      <3>1. CASE caches'[c].slots[i].key = caches[c].slots[i].key
        BY <1>1, <2>1, <2>2, <2>3, <3>1 DEF CountedInv
      <3>2. CASE caches'[c].slots[i].key # caches[c].slots[i].key
        <4>1. AddKey(t) /\ c = cache[t]
          BY <2>1, <2>3, <3>2, EntryKept
        <4>2. pc[t] = "publish"
          BY <4>1 DEF AddKey
        <4>. QED
          BY <4>1, <4>2 DEF CountedInv
      <3>. QED
        BY <3>1, <3>2
    <2>5. caches'[c].n >= caches[c].n
      BY <2>1, CountKept DEF IInv
    <2>6. caches'[c].n \in Nat
      BY <1>1, ShapeStep DEF IInv, ShapeInv, TableOK
    <2>. QED
      BY <2>2, <2>4, <2>5, <2>6
  <1>2. ASSUME NEW u \in Thread, pc'[u] = "publish"
        PROVE  caches'[cache'[u]].n > 0
    <2>1. PICK c \in Addresses : c = cache[u]
      BY DEF IInv, ShapeInv, ThreadOK
    <2>2. caches[c].n \in Nat
      BY TableShape DEF IInv
    <2>3. CASE u # t
      <3>1. pc[u] = "publish" /\ cache'[u] = c
        BY <1>2, <2>1, <2>3, OthersKept DEF IInv
      <3>2. caches[c].n > 0 /\ caches'[c].n >= caches[c].n
        BY <2>1, <3>1, CountKept DEF CountedInv, IInv
      <3>3. caches'[c].n \in Nat
        BY SizesKept, ShapeStep DEF IInv, ShapeInv, TableOK
      <3>. QED
        BY <2>2, <3>1, <3>2, <3>3
    <2>4. CASE u = t
      <3>1. AddCount(t)
        BY <1>2, <2>4 DEF Step, Start, CallStart, AddMethods, LookupKey, LookupNext,
           LookupValue, Search, Call, FillRead, FillCheck, ProbeKey, ProbeValue, Found,
           AddValue, AddTaken, AddKey, SwapNew, SwapRead, SwapCas, InvalidateRead,
           InvalidateCount, InvalidateInspect, NextMethod, AddReturn, IInv, ShapeInv,
           ThreadOK, Goto
      <3>2. cache'[t] = c
        BY <2>1, <2>4, <3>1 DEF AddCount, local
      <3>3. caches' = [caches EXCEPT ![cache[t]].n = @ + 1]
        BY <3>1 DEF AddCount
      <3>4. caches'[c].n = IF c = cache[t] THEN caches[c].n + 1 ELSE caches[c].n
        BY <3>3, StoreCount DEF IInv
      <3>. QED
        BY <2>1, <2>2, <2>4, <3>2, <3>4
    <2>. QED
      BY <2>3, <2>4
  <1>. QED
    BY <1>1, <1>2 DEF CountedInv

----------------------------------------------------------------------------
(* Probing *)

\* A probe that finds a value goes one slot further.
LEMMA PassesOneMore ==
    ASSUME NEW c, NEW a \in Nat, NEW b \in Nat, b >= a, Passes(c, a, b),
           SlotAt(c, b).val # NoImp
    PROVE  Passes(c, a, b + 1)
  <1>1. \A o \in a .. (b + 1) - 1 : o \in a .. b - 1 \/ o = b
    OBVIOUS
  <1>. QED
    BY <1>1 DEF Passes

\* What a probe has passed stays passed, and what is published is where a probe for it
\* gets to.
LEMMA PathStep ==
    ASSUME IInv, PathInv, NEW t \in Thread, Step(t) \/ Start(t)
    PROVE  PathInv'
  <1>. DEFINE Probes == {"probeKey", "probeValue", "add", "taken", "count", "publish"}
  <1>1. \A k \in Key : Home[k] \in Nat
    BY HomeAssumption
  <1>2. ASSUME NEW u \in Thread, todo[u] = {}, pc[u] \in Probes
        PROVE  /\ key[u] \in Key /\ Home[key[u]] \in Nat /\ off[u] \in Nat
               /\ cache[u] \in Addresses /\ off[u] >= Home[key[u]]
               /\ Passes(cache[u], Home[key[u]], off[u])
    BY <1>1, <1>2 DEF PathInv, IInv, JobInv, ShapeInv, ThreadOK
  <1>3. ASSUME NEW u \in Thread, todo[u] = {}, pc[u] \in Probes,
               key'[u] = key[u], cache'[u] = cache[u], off'[u] = off[u]
        PROVE  off'[u] >= Home[key'[u]] /\ Passes(cache[u], Home[key[u]], off[u])'
    <2>1. PICK c \in Addresses, a \in Nat, b \in Nat :
             c = cache[u] /\ a = Home[key[u]] /\ b = off[u]
      BY <1>2, <1>3
    <2>2. Passes(c, a, b)
      BY <1>2, <1>3, <2>1
    <2>3. Passes(c, a, b)'
      BY <2>2, PassesKept
    <2>4. cache'[u] = c /\ Home[key'[u]] = a /\ off'[u] = b /\ b >= a
      BY <1>2, <1>3, <2>1
    <2>. QED
      BY <2>3, <2>4 DEF Passes, SlotAt
  <1>4. ASSUME pc'[t] \in Probes, todo'[t] = {}
        PROVE  off'[t] >= Home[key'[t]] /\ Passes(cache[t], Home[key[t]], off[t])'
    <2>. USE DEF Set, Goto, shared, local, history
    <2>1. /\ todo[t] = {} /\ key'[t] = key[t] /\ cache'[t] = cache[t]
          /\ \/ FillCheck(t) /\ off'[t] = Home[key[t]]
             \/ pc[t] \in Probes /\ off'[t] = off[t]
             \/ /\ ProbeValue(t) /\ pc[t] \in Probes /\ off'[t] = off[t] + 1
                /\ Slot(t).val # NoImp /\ caches' = caches
      <3>1. \/ FillCheck(t) \/ ProbeKey(t) \/ ProbeValue(t) \/ AddValue(t) \/ AddCount(t)
            \/ InvalidateCount(t)
        BY <1>4 DEF Step, Start, CallStart, AddMethods, LookupKey, LookupNext,
           LookupValue, Search, Call, FillRead, AddTaken, AddKey, SwapNew, SwapRead,
           SwapCas, InvalidateRead, InvalidateInspect, NextMethod, AddReturn,
           IInv, ShapeInv, ThreadOK
      <3>2. CASE InvalidateCount(t)
        BY <1>4, <3>2 DEF InvalidateCount, NextMethod, IInv, JobInv, ShapeInv, ThreadOK
      <3>3. CASE FillCheck(t)
        BY <1>4, <3>3 DEF FillCheck, IInv, ShapeInv, ThreadOK
      <3>4. CASE ProbeKey(t) \/ AddValue(t) \/ AddCount(t)
        BY <1>4, <3>4 DEF ProbeKey, Found, AddValue, AddCount, IInv, JobInv, ShapeInv, ThreadOK
      <3>5. CASE ProbeValue(t)
        BY <1>4, <3>5 DEF ProbeValue, Found, Advance, IInv, ShapeInv, ThreadOK
      <3>. QED
        BY <3>1, <3>2, <3>3, <3>4, <3>5
    <2>2. CASE FillCheck(t) /\ off'[t] = Home[key[t]]
      <3>1. Home[key[t]] \in Nat
        BY <1>1, <2>2 DEF FillCheck, IInv, JobInv
      <3>2. Home[key[t]] .. Home[key[t]] - 1 = {}
        BY <3>1
      <3>. QED
        BY <2>1, <2>2, <3>1, <3>2 DEF Passes
    <2>3. CASE pc[t] \in Probes /\ off'[t] = off[t]
      BY <1>3, <2>1, <2>3
    <2>4. CASE /\ pc[t] \in Probes /\ off'[t] = off[t] + 1
               /\ Slot(t).val # NoImp /\ caches' = caches
      <3>1. PICK c \in Addresses, a \in Nat, b \in Nat :
               c = cache[t] /\ a = Home[key[t]] /\ b = off[t]
        BY <1>2, <2>1, <2>4
      <3>2. b >= a /\ Passes(c, a, b) /\ SlotAt(c, b).val # NoImp
        BY <1>2, <2>1, <2>4, <3>1, SlotIsSlotAt
      <3>3. Passes(c, a, b + 1)
        BY <3>2, PassesOneMore
      <3>4. cache'[t] = c /\ Home[key'[t]] = a /\ off'[t] = b + 1
        BY <2>1, <2>4, <3>1
      <3>. QED
        BY <2>4, <3>2, <3>3, <3>4 DEF Passes, SlotAt
    <2>. QED
      BY <2>1, <2>2, <2>3, <2>4
  <1>5. ASSUME NEW u \in Thread, pc'[u] \in Probes, todo'[u] = {}
        PROVE  off'[u] >= Home[key'[u]] /\ Passes(cache[u], Home[key[u]], off[u])'
    <2>1. CASE u = t
      BY <1>4, <1>5, <2>1
    <2>2. CASE u # t
      <3>1. /\ pc[u] \in Probes /\ todo[u] = {}
            /\ key'[u] = key[u] /\ cache'[u] = cache[u] /\ off'[u] = off[u]
        BY <1>5, <2>2, OthersKept DEF IInv
      <3>. QED
        BY <1>3, <3>1
    <2>. QED
      BY <2>1, <2>2
  <1>6. ASSUME NEW c \in Addresses', NEW i \in DOMAIN caches'[c].slots,
               NEW k, k = caches'[c].slots[i].key, k # NoKey
        PROVE  \E o \in Nat : /\ o >= Home[k] /\ o % caches'[c].size = i
                              /\ Passes(c, Home[k], o)'
    <2>1. c \in Addresses
      BY <1>6, NewHasNoKeys DEF IInv
    <2>2. caches'[c].size = caches[c].size
      BY <2>1, SizesKept DEF IInv
    <2>3. /\ DOMAIN caches[c].slots = 0 .. caches[c].size - 1
          /\ 0 \in 0 .. caches[c].size - 1
      BY <2>1, TableShape DEF IInv
    <2>4. i \in 0 .. caches[c].size - 1
      BY <2>1, <2>3, EntryKept
    <2>5. k \in Key /\ \E o \in Nat : /\ o >= Home[k] /\ o % caches[c].size = i
                                      /\ Passes(c, Home[k], o)
      <3>1. CASE caches[c].slots[i].key = k
        <4>1. k \in Key
          BY <1>6, <2>1, <2>4, <3>1, TableShape DEF IInv, SlotRecord
        <4>. QED
          BY <1>6, <2>1, <2>3, <2>4, <3>1, <4>1 DEF PathInv
      <3>2. CASE caches[c].slots[i].key # k
        <4>1. /\ AddKey(t) /\ Filling(t) /\ c = cache[t] /\ i = off[t] % caches[c].size
              /\ caches'[c].slots[i] = [key |-> key[t], val |-> imp[t]]
          BY <1>6, <2>1, <2>4, <3>2, EntryKept
        <4>2. k = key[t] /\ todo[t] = {} /\ pc[t] \in Probes
          BY <1>6, <4>1 DEF AddKey, Filling
        <4>. QED
          BY <1>2, <4>1, <4>2
      <3>. QED
        BY <3>1, <3>2
    <2>6. PICK o \in Nat : /\ o >= Home[k] /\ o % caches[c].size = i
                           /\ Passes(c, Home[k], o)
      BY <2>5
    <2>7. Home[k] \in Nat
      BY <1>1, <2>5
    <2>8. Passes(c, Home[k], o)'
      BY <2>1, <2>6, <2>7, PassesKept
    <2>. QED
      BY <2>2, <2>6, <2>8
  <1>. HIDE DEF Probes
  <1>7. \A c \in Addresses' : \A i \in DOMAIN caches'[c].slots :
            caches'[c].slots[i].key # NoKey =>
                \E o \in Nat : /\ o >= Home[caches'[c].slots[i].key]
                               /\ o % caches'[c].size = i
                               /\ Passes(c, Home[caches[c].slots[i].key], o)'
    BY <1>6
  <1>. QED
    BY <1>5, <1>7 DEF PathInv, Probes

\* What is filled in was searched for after the method was added.
LEMMA SearchedStep ==
    ASSUME IInv, FloorInv, SearchedInv, NEW t \in Thread, Step(t) \/ Start(t)
    PROVE  SearchedInv'
  <1>. SUFFICES ASSUME ~ overlap', NEW u \in Thread, Filling(u)', methods'[key'[u]] = 1
                PROVE  imp'[u][2] = 1
    BY DEF SearchedInv
  <1>1. ~ overlap
    BY MethodsKept
  <1>2. ASSUME NEW v \in Thread, Filling(v)
        PROVE  key[v] \in Key
    BY <1>2 DEF Filling, FillLabels, IInv, JobInv
  <1>3. ASSUME NEW v \in Thread, Filling(v), methods'[key[v]] = 1
        PROVE  imp[v][2] = 1
    <2>1. CASE methods' = methods
      BY <1>1, <1>3, <2>1 DEF SearchedInv
    <2>2. ASSUME NEW list \in SUBSET Key, AddMethods(t, list)
          PROVE  imp[v][2] = 1
      <3>1. key[v] \notin list
        BY <1>3, <2>2 DEF AddMethods
      <3>2. methods[key[v]] = 1
        BY <1>2, <1>3, <2>2, <3>1 DEF AddMethods
      <3>. QED
        BY <1>1, <1>3, <3>2 DEF SearchedInv
    <2>. QED
      BY <2>1, <2>2, MethodsKept
  <1>4. CASE u # t
    <2>1. Filling(u) /\ key'[u] = key[u] /\ imp'[u] = imp[u]
      BY <1>4, OthersKept DEF Filling, IInv
    <2>. QED
      BY <1>3, <2>1
  <1>5. CASE u = t
    <2>1. \/ Filling(t) /\ key'[t] = key[t] /\ imp'[t] = imp[t]
          \/ /\ imp'[t] = <<key[t], methods[key[t]]>> /\ key'[t] = key[t]
             /\ methods' = methods
      <3>. USE DEF Set, Goto, shared, local, history
      <3>1. CASE Search(t)
        BY <3>1 DEF Search, IInv, ShapeInv, ThreadOK
      <3>2. ASSUME NEW list \in SUBSET Key, AddMethods(t, list) PROVE FALSE
        BY <1>5, <3>2 DEF AddMethods, Filling, FillLabels, IInv, ShapeInv, ThreadOK
      <3>3. ASSUME NEW k \in Key, CallStart(t, k) PROVE FALSE
        BY <1>5, <3>3 DEF CallStart, Filling, FillLabels, IInv, ShapeInv, ThreadOK
      <3>4. CASE LookupKey(t) \/ LookupNext(t) \/ LookupValue(t) \/ Call(t) \/ AddKey(t)
                 \/ InvalidateRead(t) \/ AddReturn(t)
        BY <1>5, <3>4 DEF LookupKey, LookupNext, LookupValue, Call, AddKey, InvalidateRead,
                    AddReturn, Filling, FillLabels, IInv, ShapeInv, ThreadOK
      <3>5. CASE FillRead(t) \/ FillCheck(t) \/ ProbeKey(t) \/ ProbeValue(t) \/ AddValue(t)
                 \/ AddTaken(t) \/ AddCount(t)
        BY <1>5, <3>5 DEF FillRead, FillCheck, ProbeKey, ProbeValue, AddValue, AddTaken,
                    AddCount, Filling, FillLabels
      <3>6. CASE SwapNew(t) \/ SwapRead(t) \/ SwapCas(t)
        BY <1>5, <3>6 DEF SwapNew, SwapRead, SwapCas, Filling, FillLabels, IInv, JobInv
      <3>7. CASE InvalidateCount(t) \/ InvalidateInspect(t)
        BY <1>5, <3>7 DEF InvalidateCount, InvalidateInspect, NextMethod, Filling, FillLabels,
                    IInv, JobInv, ShapeInv, ThreadOK
      <3>. QED
        BY <3>1, <3>2, <3>3, <3>4, <3>5, <3>6, <3>7 DEF Step, Start
    <2>2. CASE Filling(t) /\ key'[t] = key[t] /\ imp'[t] = imp[t]
      BY <1>3, <1>5, <2>2
    <2>3. CASE /\ imp'[t] = <<key[t], methods[key[t]]>> /\ key'[t] = key[t]
               /\ methods' = methods
      BY <1>5, <2>3
    <2>. QED
      BY <2>1, <2>2, <2>3
  <1>. QED
    BY <1>4, <1>5

----------------------------------------------------------------------------
(* Outdated entries *)

\* A thread on its way to an outdated entry is not stopped by what others do.
LEMMA AheadKept ==
    ASSUME IInv, NEW t \in Thread, Step(t) \/ Start(t), NEW u \in Thread, u # t,
           NEW k \in Key, NEW a \in Nat, Ahead(u, k, a)
    PROVE  Ahead(u, k, a)'
  <1>1. PICK c \in Addresses, b \in Nat : c = cache[u] /\ b = off[u]
    BY DEF IInv, ShapeInv, ThreadOK
  <1>2. PICK o \in Nat : o >= a /\ SlotAt(c, o) = Outdated(k) /\ Passes(c, b, o)
    BY <1>1 DEF Ahead
  <1>3. SlotAt(c, o).key # NoKey
    BY <1>2, NoKeyAssumption DEF Outdated
  <1>4. SlotAt(c, o)' = Outdated(k)
    BY <1>2, <1>3, ProbedKept
  <1>5. Passes(c, b, o)'
    BY <1>2, PassesKept
  <1>6. cache'[u] = c /\ off'[u] = b
    BY <1>1, OthersKept DEF IInv
  <1>. QED
    BY <1>2, <1>4, <1>5, <1>6 DEF Ahead, Passes, SlotAt, Outdated

\* Nobody takes a thread's purpose to replace the cache.
LEMMA OtherChases ==
    ASSUME IInv, NEW t \in Thread, Step(t) \/ Start(t), NEW u \in Thread, u # t,
           NEW k \in Key, Chasing(u, k), pivot' = pivot
    PROVE  Chasing(u, k)'
  <1>1. /\ pc'[u] = pc[u] /\ key'[u] = key[u] /\ todo'[u] = todo[u]
        /\ cache'[u] = cache[u] /\ off'[u] = off[u]
    BY OthersKept DEF IInv
  <1>2. off[u] \in Nat /\ off[u] + 1 \in Nat /\ cache[u] \in Addresses
    BY DEF IInv, ShapeInv, ThreadOK
  <1>3. k \in todo'[u]
    BY <1>1 DEF Chasing
  <1>4. CASE \/ pc[u] \in {"invalidate", "renew", "swapRead"}
             \/ pc[u] = "swap" /\ cache[u] = pivot
             \/ pc[u] \in {"invalidateCount", "probeKey", "probeValue", "inspect"} /\ key[u] # k
             \/ pc[u] = "invalidateCount" /\ cache[u] = pivot
    BY <1>1, <1>3, <1>4 DEF Chasing
  <1>5. CASE pc[u] = "probeKey" /\ cache[u] = pivot /\ Ahead(u, k, off[u])
    <2>1. PICK a \in Nat : a = off[u]
      BY <1>2
    <2>2. Ahead(u, k, a)'
      BY <1>5, <2>1, AheadKept
    <2>. QED
      BY <1>1, <1>3, <1>5, <2>1, <2>2 DEF Chasing, Ahead
  <1>6. CASE pc[u] = "probeValue" /\ cache[u] = pivot /\ Ahead(u, k, off[u] + 1)
    <2>1. PICK a \in Nat : a = off[u] + 1
      BY <1>2
    <2>2. Ahead(u, k, a)'
      BY <1>6, <2>1, AheadKept
    <2>. QED
      BY <1>1, <1>3, <1>6, <2>1, <2>2 DEF Chasing, Ahead
  <1>7. CASE pc[u] = "inspect" /\ cache[u] = pivot /\ Slot(u).key # NoKey
    <2>1. PICK c \in Addresses, b \in Nat : c = cache[u] /\ b = off[u]
      BY <1>2
    <2>2. SlotAt(c, b).key # NoKey
      BY <1>7, <2>1, SlotIsSlotAt
    <2>3. SlotAt(c, b)' = SlotAt(c, b)
      BY <2>2, ProbedKept
    <2>4. Slot(u)' = SlotAt(c, b)'
      BY <1>1, <2>1 DEF Slot, Index, SlotAt
    <2>. QED
      BY <1>1, <1>3, <1>7, <2>2, <2>3, <2>4 DEF Chasing
  <1>. QED
    BY <1>4, <1>5, <1>6, <1>7 DEF Chasing

\* A thread that has a method to invalidate does not give it up before the cache in use
\* has no outdated entry for it.
LEMMA OwnChase ==
    ASSUME IInv, CountedInv, PathInv, NEW t \in Thread, Step(t), NEW k \in Key,
           Chasing(t, k), Stale(pivot, k), pivot' = pivot
    PROVE  Chasing(t, k)'
  <1>. USE DEF Set, Goto, shared, local, history
  <1>0. /\ k \in todo[t] /\ pivot \in Addresses /\ cache[t] \in Addresses /\ off[t] \in Nat
        /\ pc \in [Thread -> Labels] /\ key \in [Thread -> Key \cup {NoKey}]
        /\ cache \in [Thread -> Addresses] /\ todo \in [Thread -> SUBSET Key]
        /\ off \in [Thread -> Nat] /\ k # NoKey
    BY NoKeyAssumption DEF Chasing, IInv, ShapeInv, ThreadOK
  <1>1. PICK i \in 0 .. caches[pivot].size - 1 : caches[pivot].slots[i] = Outdated(k)
    BY <1>0, TableShape DEF Stale, IInv
  <1>2. caches[pivot].slots[i].key = k /\ caches[pivot].slots[i].val = <<k, 0>>
    BY <1>1 DEF Outdated
  <1>3. CASE InvalidateRead(t)
    BY <1>0, <1>3 DEF InvalidateRead, Chasing
  <1>4. CASE InvalidateCount(t)
    <2>1. CASE key[t] # k
      <3>1. k \in todo'[t] /\ key'[t] # k /\ pc'[t] \in {"invalidate", "probeKey"}
        BY <1>0, <1>4, <2>1 DEF InvalidateCount, NextMethod
      <3>. QED
        BY <3>1 DEF Chasing
    <2>2. CASE key[t] = k
      <3>1. pc[t] = "invalidateCount" /\ cache[t] = pivot
        BY <1>4, <2>2 DEF InvalidateCount, Chasing
      <3>2. caches[pivot].n > 0
        BY <1>0, <1>2, TableShape DEF CountedInv, IInv
      <3>3. caches[cache[t]].n # 0
        BY <1>0, <3>1, <3>2, TableShape DEF IInv
      <3>4. /\ pc'[t] = "probeKey" /\ off'[t] = Home[k] /\ todo' = todo /\ cache' = cache
            /\ caches' = caches /\ key' = key
        BY <1>0, <1>4, <2>2, <3>3 DEF InvalidateCount
      <3>5. PICK o \in Nat : /\ o >= Home[k] /\ o % caches[pivot].size = i
                             /\ Passes(pivot, Home[k], o)
        BY <1>0, <1>2, TableShape DEF PathInv, IInv
      <3>6. SlotAt(pivot, o) = Outdated(k)
        BY <1>1, <3>5 DEF SlotAt
      <3>7. Ahead(t, k, off[t])'
        BY <3>1, <3>4, <3>5, <3>6 DEF Ahead, Passes, SlotAt, Outdated
      <3>. QED
        BY <1>0, <3>1, <3>4, <3>7 DEF Chasing
    <2>. QED
      BY <2>1, <2>2
  <1>5. CASE ProbeKey(t)
    <2>1. /\ todo' = todo /\ cache' = cache /\ caches' = caches /\ key' = key /\ off' = off
          /\ pc'[t] = IF Slot(t).key = key[t] THEN "inspect" ELSE "probeValue"
      BY <1>0, <1>5 DEF ProbeKey, Found
    <2>2. CASE key[t] # k
      BY <1>0, <2>1, <2>2 DEF Chasing
    <2>3. CASE key[t] = k /\ Slot(t).key = k
      <3>1. cache[t] = pivot
        BY <1>5, <2>3 DEF ProbeKey, Chasing
      <3>2. Slot(t)' = Slot(t)
        BY <2>1 DEF Slot, Index
      <3>. QED
        BY <1>0, <2>1, <2>3, <3>1, <3>2 DEF Chasing
    <2>4. CASE key[t] = k /\ Slot(t).key # k
      <3>1. cache[t] = pivot /\ Ahead(t, k, off[t])
        BY <1>5, <2>4 DEF ProbeKey, Chasing
      <3>2. PICK o \in Nat : /\ o >= off[t] /\ SlotAt(cache[t], o) = Outdated(k)
                             /\ Passes(cache[t], off[t], o)
        BY <3>1 DEF Ahead
      <3>3. SlotAt(cache[t], o).key = k
        BY <3>2 DEF Outdated
      <3>4. o # off[t]
        BY <2>4, <3>3, SlotIsSlotAt
      <3>5. o >= off[t] + 1
        BY <1>0, <3>2, <3>4
      <3>6. Ahead(t, k, off[t] + 1)'
        BY <2>1, <3>2, <3>5 DEF Ahead, Passes, SlotAt, Outdated
      <3>. QED
        BY <1>0, <2>1, <2>4, <3>1, <3>6 DEF Chasing
    <2>. QED
      BY <2>2, <2>3, <2>4
  <1>6. CASE ProbeValue(t)
    <2>1. /\ todo' = todo /\ cache' = cache /\ caches' = caches /\ key' = key
          /\ pc'[t] \in {"probeKey", "inspect"}
      BY <1>0, <1>6 DEF ProbeValue, Found
    <2>2. CASE key[t] # k
      BY <1>0, <2>1, <2>2 DEF Chasing
    <2>3. CASE key[t] = k
      <3>1. cache[t] = pivot /\ Ahead(t, k, off[t] + 1)
        BY <1>6, <2>3 DEF ProbeValue, Chasing
      <3>2. PICK o \in Nat : /\ o >= off[t] + 1 /\ SlotAt(cache[t], o) = Outdated(k)
                             /\ Passes(cache[t], off[t], o)
        BY <3>1 DEF Ahead
      <3>3. off[t] \in off[t] .. o - 1
        BY <1>0, <3>2
      <3>4. Slot(t).val # NoImp
        BY <3>2, <3>3, SlotIsSlotAt DEF Passes
      <3>5. pc'[t] = "probeKey" /\ off'[t] = off[t] + 1
        BY <1>0, <1>6, <3>4 DEF ProbeValue, Advance
      <3>6. \A j \in off[t] + 1 .. o - 1 : j \in off[t] .. o - 1
        BY <1>0
      <3>7. Ahead(t, k, off[t])'
        BY <2>1, <3>2, <3>5, <3>6 DEF Ahead, Passes, SlotAt, Outdated
      <3>. QED
        BY <1>0, <2>1, <2>3, <3>1, <3>5, <3>7 DEF Chasing
    <2>. QED
      BY <2>2, <2>3
  <1>7. CASE InvalidateInspect(t)
    <2>1. CASE key[t] # k
      BY <1>0, <1>7, <2>1 DEF InvalidateInspect, NextMethod, Chasing
    <2>2. CASE key[t] = k
      BY <1>0, <1>7, <2>2 DEF InvalidateInspect, NextMethod, Chasing
    <2>. QED
      BY <2>1, <2>2
  <1>8. CASE SwapNew(t)
    BY <1>0, <1>8 DEF SwapNew, Chasing
  <1>9. CASE SwapRead(t)
    BY <1>0, <1>9 DEF SwapRead, Chasing
  <1>10. CASE SwapCas(t)
    <2>1. cache[t] = pivot
      BY <1>10 DEF SwapCas, Chasing
    <2>2. pivot' = fresh[t] /\ fresh[t] # pivot
      BY <1>10, <2>1 DEF SwapCas, IInv, PivotNeverFreed
    <2>. QED
      BY <2>2
  <1>11. CASE ~ (\/ InvalidateRead(t) \/ InvalidateCount(t) \/ ProbeKey(t) \/ ProbeValue(t)
                 \/ InvalidateInspect(t) \/ SwapNew(t) \/ SwapRead(t) \/ SwapCas(t))
    BY <1>11 DEF Step, Chasing, LookupKey, LookupNext, LookupValue, Search, Call, FillRead,
         FillCheck, AddValue, AddTaken, AddCount, AddKey, AddReturn
  <1>. QED
    BY <1>3, <1>4, <1>5, <1>6, <1>7, <1>8, <1>9, <1>10, <1>11

\* An outdated entry in the cache in use after a step was there before, in the same cache.
LEMMA PivotStale ==
    ASSUME IInv, FreshInv, FloorInv, SearchedInv, ~ overlap, NEW t \in Thread,
           Step(t) \/ Start(t), NEW k \in Key, methods[k] = 1,
           \E i \in DOMAIN caches'[pivot'].slots : caches'[pivot'].slots[i] = Outdated(k)
    PROVE  pivot' = pivot /\ Stale(pivot, k)
  <1>1. PICK p \in Addresses' : p = pivot'
    BY ShapeStep DEF IInv, ShapeInv, ThreadOK
  <1>2. Stale(p, k)'
    BY <1>1 DEF Stale, Outdated
  <1>3. Stale(p, k)
    BY <1>2, StaleKept
  <1>4. CASE pivot' # pivot
    <2>1. pc[t] = "swap" /\ p = fresh[t]
      BY <1>1, <1>4, MethodsKept DEF SwapCas
    <2>2. \A i \in DOMAIN caches[p].slots : caches[p].slots[i].key = NoKey
      BY <2>1 DEF FreshInv
    <2>. QED
      BY <1>3, <2>2, NoKeyAssumption DEF Stale, Outdated
  <1>. QED
    BY <1>1, <1>3, <1>4

\* Somebody is after every outdated entry of the cache in use.
LEMMA ChaseStep ==
    ASSUME IInv, FloorInv, FreshInv, CountedInv, PathInv, SearchedInv, ChaseInv,
           NEW t \in Thread, Step(t) \/ Start(t)
    PROVE  ChaseInv'
  <1>. SUFFICES ASSUME ~ overlap', NEW k \in Key, methods'[k] = 1,
                       \E i \in DOMAIN caches'[pivot'].slots :
                           caches'[pivot'].slots[i] = Outdated(k)
                PROVE  \E u \in Thread : Chasing(u, k)'
    BY DEF ChaseInv, Stale, Outdated
  <1>1. ~ overlap
    BY MethodsKept
  <1>2. CASE methods[k] = 1
    <2>1. pivot' = pivot /\ Stale(pivot, k)
      BY <1>1, <1>2, PivotStale
    <2>2. PICK u \in Thread : Chasing(u, k)
      BY <1>1, <1>2, <2>1 DEF ChaseInv
    <2>3. CASE u # t
      BY <2>1, <2>2, <2>3, OtherChases
    <2>4. CASE u = t
      <3>1. pc[t] # "idle"
        BY <2>2, <2>4 DEF Chasing
      <3>2. Step(t)
        BY <3>1 DEF Start, CallStart, AddMethods
      <3>. QED
        BY <2>1, <2>2, <2>4, <3>2, OwnChase
    <2>. QED
      BY <2>3, <2>4
  <1>3. CASE methods[k] # 1
    <2>1. PICK list \in SUBSET Key : AddMethods(t, list)
      BY <1>3, MethodsKept
    <2>2. k \in list
      BY <1>3, <2>1 DEF AddMethods
    <2>3. pc'[t] = "invalidate" /\ todo'[t] = list
      BY <2>1 DEF AddMethods, Goto, Set, IInv, ShapeInv, ThreadOK
    <2>. QED
      BY <2>2, <2>3 DEF Chasing
  <1>. QED
    BY <1>2, <1>3

\* When additions return and no other is under way, the cache in use is up to date.
LEMMA SettledStep ==
    ASSUME IInv, FloorInv, FreshInv, SearchedInv, ChaseInv, SettledInv,
           NEW t \in Thread, Step(t) \/ Start(t)
    PROVE  SettledInv'
  <1>. SUFFICES ASSUME ~ overlap', NEW k \in Key, settled'[k] = 1
                PROVE  /\ methods'[k] = 1
                       /\ ~ \E i \in DOMAIN caches'[pivot'].slots :
                                caches'[pivot'].slots[i] = Outdated(k)
    BY DEF SettledInv, Stale, Outdated
  <1>1. ~ overlap
    BY MethodsKept
  <1>2. methods[k] = 1 /\ ~ Stale(pivot, k)
    <2>1. CASE settled[k] = 1
      BY <1>1, <2>1 DEF SettledInv
    <2>2. CASE settled[k] # 1
      <3>1. AddReturn(t)
        BY <2>2, MethodsKept
      <3>2. pc[t] = "added" /\ methods[k] = 1 /\ \A u \in Thread \ {t} : todo[u] = {}
        BY <2>2, <3>1 DEF AddReturn
      <3>3. \A u \in Thread : ~ Chasing(u, k)
        BY <3>2 DEF Chasing
      <3>. QED
        BY <1>1, <3>2, <3>3 DEF ChaseInv
    <2>. QED
      BY <2>1, <2>2
  <1>. QED
    BY <1>1, <1>2, MethodsKept, PivotStale

\* A call that started after the additions had returned stays up to date.
LEMMA CurrentStep ==
    ASSUME IInv, FloorInv, SearchedInv, SettledInv, CurrentInv,
           NEW t \in Thread, Step(t) \/ Start(t)
    PROVE  CurrentInv'
  <1>. DEFINE Calling(u) == pc[u] \in Lookups \cup {"search", "call"} \/ Filling(u)
  <1>. SUFFICES ASSUME ~ overlap', NEW u \in Thread, floor'[u] = 1
                PROVE  /\ Calling(u)' => methods'[key'[u]] = 1
                       /\ pc'[u] \in Lookups =>
                             ~ \E i \in DOMAIN caches'[cache'[u]].slots :
                                   caches'[cache'[u]].slots[i] = Outdated(key'[u])
                       /\ pc'[u] = "call" => imp'[u][2] = 1
    BY DEF CurrentInv, Lookups, Stale, Outdated
  <1>0. /\ ~ overlap
        /\ pc \in [Thread -> Labels] /\ key \in [Thread -> Key \cup {NoKey}]
        /\ imp \in [Thread -> Imp \cup {NoImp}] /\ floor \in [Thread -> {0, 1}]
        /\ cache \in [Thread -> Addresses] /\ todo \in [Thread -> SUBSET Key]
    BY MethodsKept DEF IInv, ShapeInv, ThreadOK, FloorInv
  <1>1. ASSUME NEW v \in Thread, Calling(v) PROVE key[v] \in Key
    BY <1>1 DEF Filling, FillLabels, Lookups, IInv, JobInv
  <1>2. ASSUME floor[u] = 1, Calling(u)
        PROVE  methods[key[u]] = 1 /\ methods'[key[u]] = 1
    <2>1. methods[key[u]] = 1
      BY <1>0, <1>2 DEF CurrentInv, Lookups
    <2>. QED
      BY <1>1, <1>2, <2>1, MethodsKept
  <1>3. ASSUME floor[u] = 1, pc[u] \in Lookups, cache'[u] = cache[u], key'[u] = key[u]
        PROVE  ~ \E i \in DOMAIN caches'[cache'[u]].slots :
                     caches'[cache'[u]].slots[i] = Outdated(key'[u])
    <2>1. PICK c \in Addresses, k \in Key : c = cache[u] /\ k = key[u]
      BY <1>0, <1>1, <1>3 DEF Lookups
    <2>2. methods[k] = 1 /\ ~ Stale(c, k) /\ c \in Addresses'
      BY <1>0, <1>2, <1>3, <2>1, SizesKept DEF CurrentInv, IInv
    <2>3. ~ Stale(c, k)'
      BY <1>0, <2>2, StaleKept
    <2>. QED
      BY <1>3, <2>1, <2>3 DEF Stale, Outdated
  <1>4. ASSUME NEW k \in Key, CallStart(t, k), u = t
        PROVE  /\ Calling(u)' => methods'[key'[u]] = 1
               /\ ~ \E i \in DOMAIN caches'[cache'[u]].slots :
                        caches'[cache'[u]].slots[i] = Outdated(key'[u])
               /\ pc'[u] # "call"
    <2>1. /\ floor'[t] = settled[k] /\ key'[t] = k /\ cache'[t] = pivot
          /\ pc'[t] = "lookupKey" /\ caches' = caches /\ methods' = methods
      BY <1>0, <1>4 DEF CallStart, Set, Goto, shared
    <2>2. methods[k] = 1 /\ ~ Stale(pivot, k)
      BY <1>0, <1>4, <2>1 DEF SettledInv
    <2>. QED
      BY <1>4, <2>1, <2>2 DEF Stale, Outdated
  <1>5. CASE u # t
    <2>1. /\ pc'[u] = pc[u] /\ key'[u] = key[u] /\ imp'[u] = imp[u] /\ todo'[u] = todo[u]
          /\ cache'[u] = cache[u]
      BY <1>5, OthersKept DEF IInv
    <2>2. floor[u] = 1
      BY <1>0, <1>5 DEF Step, Start, CallStart, AddMethods, LookupKey, LookupNext,
           LookupValue, Search, Call, FillRead, FillCheck, ProbeKey, ProbeValue, AddValue,
           AddTaken, AddCount, AddKey, SwapNew, SwapRead, SwapCas, InvalidateRead,
           InvalidateCount, InvalidateInspect, AddReturn, Set, history
    <2>3. Calling(u)' => Calling(u)
      BY <2>1 DEF Filling
    <2>4. pc[u] = "call" => imp[u][2] = 1
      BY <1>0, <2>2 DEF CurrentInv
    <2>. QED
      BY <1>2, <1>3, <2>1, <2>2, <2>3, <2>4
  <1>6. CASE u = t /\ ~ \E k \in Key : CallStart(t, k)
    <2>. USE DEF Set, Goto, shared, local, history
    <2>1. floor[t] = 1
      BY <1>6 DEF Step, Start, AddMethods, LookupKey, LookupNext,
           LookupValue, Search, Call, FillRead, FillCheck, ProbeKey, ProbeValue, AddValue,
           AddTaken, AddCount, AddKey, SwapNew, SwapRead, SwapCas, InvalidateRead,
           InvalidateCount, InvalidateInspect, AddReturn
    <2>2. Calling(t)' => Calling(t) /\ key'[t] = key[t]
      <3>1. ASSUME NEW list \in SUBSET Key, AddMethods(t, list) PROVE ~ Calling(t)'
        BY <1>0, <3>1 DEF AddMethods, Filling, FillLabels, Lookups
      <3>2. CASE LookupKey(t) \/ LookupNext(t) \/ LookupValue(t) \/ Search(t) \/ Call(t)
        BY <1>0, <3>2 DEF LookupKey, LookupNext, LookupValue, Search, Call, Filling,
                    FillLabels, Lookups
      <3>3. CASE FillRead(t) \/ FillCheck(t) \/ ProbeKey(t) \/ ProbeValue(t) \/ AddValue(t)
        BY <1>0, <3>3 DEF FillRead, FillCheck, ProbeKey, Found, ProbeValue, AddValue,
                    Filling, FillLabels, Lookups
      <3>4. CASE AddTaken(t) \/ AddCount(t) \/ AddKey(t)
        BY <1>0, <3>4 DEF AddTaken, AddCount, AddKey, Filling, FillLabels, Lookups,
                    IInv, JobInv
      <3>5. CASE SwapNew(t) \/ SwapRead(t) \/ SwapCas(t)
        BY <1>0, <3>5 DEF SwapNew, SwapRead, SwapCas, Filling, FillLabels, Lookups,
                    IInv, JobInv
      <3>6. CASE InvalidateRead(t) \/ InvalidateCount(t) \/ InvalidateInspect(t) \/ AddReturn(t)
        BY <1>0, <3>6 DEF InvalidateRead, InvalidateCount, InvalidateInspect, NextMethod,
                    AddReturn, Filling, FillLabels, Lookups, IInv, JobInv
      <3>. QED
        BY <1>6, <3>1, <3>2, <3>3, <3>4, <3>5, <3>6 DEF Step, Start
    <2>3. pc'[t] \in Lookups => pc[t] \in Lookups /\ cache'[t] = cache[t] /\ key'[t] = key[t]
      BY <1>0, <1>6 DEF Step, Start, AddMethods, LookupKey, LookupNext,
           LookupValue, Search, Call, FillRead, FillCheck, ProbeKey, ProbeValue, Found,
           AddValue, AddTaken, AddCount, AddKey, SwapNew, SwapRead, SwapCas,
           InvalidateRead, InvalidateCount, InvalidateInspect, NextMethod, AddReturn, Lookups
    <2>4. ASSUME pc'[t] = "call" PROVE imp'[t][2] = 1
      <3>1. LookupValue(t) \/ AddTaken(t) \/ AddKey(t)
        BY <1>0, <1>6, <2>4 DEF Step, Start, AddMethods, LookupKey, LookupNext,
           Search, Call, FillRead, FillCheck, ProbeKey, ProbeValue, Found,
           AddValue, AddCount, SwapNew, SwapRead, SwapCas,
           InvalidateRead, InvalidateCount, InvalidateInspect, NextMethod, AddReturn
      <3>2. CASE LookupValue(t)
        <4>1. pc[t] = "lookupValue" /\ imp'[t] = Slot(t).val
          BY <1>0, <3>2 DEF LookupValue
        <4>2. Slot(t).key = key[t] /\ key[t] \in Key /\ ~ Stale(cache[t], key[t])
          BY <1>0, <1>6, <2>1, <4>1 DEF IInv, ImpInv, JobInv, CurrentInv, Lookups
        <4>3. Slot(t) \in SlotRecord /\ Slot(t).val \in {key[t]} \X {0, 1}
          BY <4>2, KeyHasItsValue, ProbeInTable, NoKeyAssumption DEF IInv
        <4>4. Slot(t) # Outdated(key[t])
          BY <4>2, ProbeInTable DEF Stale, Slot, IInv
        <4>5. Slot(t) = [key |-> key[t], val |-> Slot(t).val]
          BY <4>2, <4>3 DEF SlotRecord
        <4>6. Slot(t).val # <<key[t], 0>>
          BY <4>4, <4>5 DEF Outdated
        <4>. QED
          BY <4>1, <4>3, <4>6
      <3>3. CASE AddTaken(t) \/ AddKey(t)
        <4>1. Filling(t) /\ imp'[t] = imp[t]
          BY <3>3 DEF AddTaken, AddKey, Filling, FillLabels, IInv, JobInv
        <4>2. methods[key[t]] = 1
          BY <1>2, <1>6, <2>1, <4>1
        <4>. QED
          BY <1>0, <4>1, <4>2 DEF SearchedInv
      <3>. QED
        BY <3>1, <3>2, <3>3
    <2>. QED
      BY <1>2, <1>3, <1>6, <2>1, <2>2, <2>3, <2>4
  <1>. QED
    BY <1>4, <1>5, <1>6

\* A universe starts a class with an empty cache and nothing settled.
LEMMA InitCurrent ==
    ASSUME Init
    PROVE  CurrInv
  <1>1. caches = <<EmptyCache(InitialSize)>> /\ Addresses = {1}
    BY DEF Init, Addresses
  <1>2. \A i \in DOMAIN caches[1].slots : caches[1].slots[i].key = NoKey
    BY <1>1 DEF EmptyCache
  <1>3. \A k \in Key : ~ Stale(pivot, k)
    BY <1>2, NoKeyAssumption DEF Init, Stale, Outdated
  <1>4. FloorInv /\ FreshInv /\ SearchedInv /\ CurrentInv
    <2>1. \A t \in Thread : pc[t] = "idle" /\ floor[t] = 0
      BY DEF Init
    <2>2. FloorInv
      BY DEF Init, FloorInv
    <2>3. FreshInv /\ SearchedInv
      BY <2>1 DEF FreshInv, SearchedInv, Filling, FillLabels
    <2>4. CurrentInv
      BY <2>1 DEF CurrentInv
    <2>. QED
      BY <2>2, <2>3, <2>4
  <1>5. CountedInv /\ PathInv
    BY <1>1, <1>2 DEF Init, CountedInv, PathInv
  <1>6. ChaseInv /\ SettledInv
    BY <1>3 DEF Init, ChaseInv, SettledInv
  <1>. QED
    BY <1>4, <1>5, <1>6 DEF CurrInv

\* Whatever thread takes the next step, entries and calls stay current.
LEMMA NextCurrent ==
    ASSUME IInv, CurrInv, [Next]_vars
    PROVE  CurrInv'
  <1>1. CASE UNCHANGED vars
    <2>. USE <1>1 DEF vars, shared, local, history, CurrInv
    <2>1. FloorInv' /\ FreshInv' /\ CountedInv'
      BY DEF FloorInv, FreshInv, CountedInv, Addresses
    <2>2. PathInv'
      BY DEF PathInv, Passes, SlotAt, Addresses
    <2>3. SearchedInv' /\ SettledInv' /\ CurrentInv'
      BY DEF SearchedInv, SettledInv, CurrentInv, Filling, Stale, Outdated
    <2>4. ChaseInv'
      <3>1. ASSUME NEW u \in Thread, NEW k \in Key
            PROVE  /\ Ahead(u, k, off[u]) => Ahead(u, k, off[u])'
                   /\ Ahead(u, k, off[u] + 1) => Ahead(u, k, off[u] + 1)'
        BY DEF Ahead, Passes, SlotAt, Outdated
      <3>2. ASSUME NEW u \in Thread, NEW k \in Key, Chasing(u, k)
            PROVE  Chasing(u, k)'
        BY <3>1, <3>2 DEF Chasing, Slot, Index
      <3>3. \A k \in Key : Stale(pivot, k)' => Stale(pivot, k)
        BY DEF Stale, Outdated
      <3>. QED
        BY <3>2, <3>3 DEF ChaseInv
    <2>. QED
      BY <2>1, <2>2, <2>3, <2>4
  <1>2. ASSUME NEW t \in Thread, Step(t) \/ Start(t)
        PROVE  CurrInv'
    <2>. USE DEF CurrInv
    <2>1. FloorInv' /\ FreshInv' /\ CountedInv'
      BY <1>2, FloorStep, FreshStep, CountedStep DEF IInv
    <2>2. PathInv' /\ SearchedInv'
      BY <1>2, PathStep, SearchedStep
    <2>3. ChaseInv'
      BY <1>2, ChaseStep
    <2>4. SettledInv' /\ CurrentInv'
      BY <1>2, SettledStep, CurrentStep
    <2>. QED
      BY <2>1, <2>2, <2>3, <2>4
  <1>. QED
    BY <1>1, <1>2 DEF Next

\* A call that starts after the addition of methods has returned runs the added method,
\* whichever threads fill, grow and replace the cache meanwhile, unless a fill of this
\* method was under way when it was added (mulle-objc-class.c 286-535,
\* mulle-objc-class-impcache.c 46-239).
THEOREM CallsRunCurrentMethods == Spec => []CallsAreCurrent
  <1>1. Init => IInv /\ CurrInv
    BY InitIInv, InitCurrent
  <1>2. IInv /\ CurrInv /\ [Next]_vars => (IInv /\ CurrInv)'
    BY NextIInv, NextCurrent
  <1>3. IInv /\ CurrInv => CallsAreCurrent
    <2>. SUFFICES ASSUME IInv, CurrInv, NEW t \in Thread, pc[t] = "call", ~ overlap
                  PROVE  imp[t][2] >= floor[t]
      BY DEF CallsAreCurrent
    <2>1. imp[t][2] \in {0, 1}
      BY DEF IInv, ImpInv
    <2>2. floor[t] \in {0, 1} /\ (floor[t] = 1 => imp[t][2] = 1)
      BY DEF CurrInv, FloorInv, CurrentInv
    <2>. QED
      BY <2>1, <2>2
  <1>. QED
    BY <1>1, <1>2, <1>3, PTL DEF Spec
=============================================================================
