------------------------ MODULE RetainReleaseProofs ------------------------
(***************************************************************************)
(* For any threads, any references that fit the header word and any word   *)
(* width: careful clients never see a wrong count, a second -finalize, a   *)
(* -dealloc that is not alone, or a use of the object after -dealloc.      *)
(***************************************************************************)
EXTENDS RetainRelease, FiniteSetTheorems, SequenceTheorems, TLAPS

\* What the references in use count for: a finite set, at most all of them.
LEMMA HeldFinite ==
    ASSUME TypeOK
    PROVE  /\ IsFiniteSet(Held)
           /\ Cardinality(Held) \in Nat
           /\ Cardinality(Held) <= Cardinality(Ref)
           /\ Cardinality(Held) = 0 <=> Held = {}
  <1>1. Held \subseteq Ref
    BY DEF Held
  <1>2. IsFiniteSet(Held) /\ Cardinality(Held) <= Cardinality(Ref)
    BY <1>1, FS_Subset, RefAssumption
  <1>. QED
    BY <1>2, FS_CardinalityType, FS_EmptySet

\* Taking a free reference (-retain) adds one to the references in use.
LEMMA TakeCounts ==
    ASSUME TypeOK, NEW r \in Ref, NEW t \in Thread, owner[r] = NoOne,
           owner' = [owner EXCEPT ![r] = t]
    PROVE  /\ Held' = Held \cup {r}
           /\ Cardinality(Held') = Cardinality(Held) + 1
  <1>1. Held' = Held \cup {r} /\ r \notin Held
    BY ThreadAssumption DEF Held, TypeOK
  <1>. QED
    BY <1>1, HeldFinite, FS_AddElement

\* Giving one back (-release) takes one away.
LEMMA GiveCounts ==
    ASSUME TypeOK, NEW r \in Ref, NEW t \in Thread, owner[r] = t,
           owner' = [owner EXCEPT ![r] = NoOne]
    PROVE  /\ Held' = Held \ {r}
           /\ Cardinality(Held') = Cardinality(Held) - 1
           /\ r \in Held
  <1>1. Held' = Held \ {r} /\ r \in Held
    BY ThreadAssumption DEF Held, TypeOK
  <1>. QED
    BY <1>1, HeldFinite, FS_RemoveElement

\* Handing a reference to another thread leaves the references in use alone.
LEMMA HandOverCounts ==
    ASSUME TypeOK, NEW r \in Ref, NEW u \in Thread, owner[r] # NoOne,
           owner' = [owner EXCEPT ![r] = u]
    PROVE  Held' = Held
  BY ThreadAssumption DEF Held, TypeOK

\* The state a new object is created in satisfies the invariant.
LEMMA InitIInv ==
    ASSUME RefsFit, Init
    PROVE  IInv
  <1>1. PICK r \in Ref, t \in Thread :
          owner = [x \in Ref |-> IF x = r THEN t ELSE NoOne]
    BY DEF Init
  <1>2. Held = {r}
    BY <1>1, ThreadAssumption DEF Held
  <1>3. Cardinality(Held) = 1
    BY <1>2, FS_Singleton
  <1>4. TypeOK
    BY <1>1, HalfAssumption DEF Init, TypeOK, Word, INTPTR_MIN, INTPTR_MAX
  <1>5. WordInv
    BY <1>3 DEF Init, WordInv, Dead
  <1>6. TokenInv /\ LicenceInv /\ BusyInv
    BY DEF Init, TokenInv, LicenceInv, BusyInv, Busy, InFinalize, TryLabels
  <1>. QED
    BY <1>4, <1>5, <1>6 DEF IInv

\* While a thread works on the object it has not been deallocated.
LEMMA NotDead ==
    ASSUME IInv, NEW t \in Thread,
           \/ pc[t] \in {"try", "mark", "reread", "writeback", "decrement",
                         "increment", "perform", "cas"}
           \/ InFinalize(t)
           \/ OwnedBy(t) # {}
    PROVE  ~ Dead
  <1>1. CASE OwnedBy(t) # {}
    BY <1>1, ThreadAssumption DEF IInv, WordInv, OwnedBy, Held
  <1>2. CASE pc[t] \in {"try", "mark", "reread", "writeback"} \/ InFinalize(t)
    BY <1>2 DEF IInv, TypeOK, WordInv, BusyInv, Busy, TryLabels, Dead
  <1>3. CASE pc[t] = "decrement"
    BY <1>1, <1>3 DEF IInv, TokenInv, OwnedBy
  <1>4. CASE pc[t] \in {"increment", "perform", "cas"}
    BY <1>1, <1>2, <1>4 DEF IInv, LicenceInv
  <1>. QED
    BY <1>1, <1>2, <1>3, <1>4

\* What the word tells about an object that is not deallocated.
LEMMA WordPhase ==
    ASSUME RefsFit, IInv, ~ Dead
    PROVE  /\ finalizes = 1 <=> rc < -1
           /\ finalizes \in {0, 1}
           /\ finalizes = 1 => Counted /\ rc + 1 <= -1 /\ rc <= INLINE_RELEASE
           /\ rc = INTPTR_MIN <=> finalizes = 1 /\ Held = {}
           /\ rc = -1 => finalizes = 0 /\ Held = {}
           /\ finalizes = 0 /\ Counted =>
                  rc = Cardinality(Held) - 1 /\ rc < INLINE_RELEASE
  <1>1. /\ Cardinality(Held) \in Nat
        /\ Cardinality(Held) <= Half - 3
        /\ Cardinality(Held) = 0 <=> Held = {}
    BY HeldFinite, HalfAssumption, FS_CardinalityType, RefAssumption
       DEF IInv, RefsFit, INLINE_RELEASE, INTPTR_MAX
  <1>2. rc \in Int
    BY HalfAssumption DEF IInv, TypeOK, Word, INTPTR_MIN, INTPTR_MAX
  <1>. QED
    BY <1>1, <1>2, HalfAssumption
       DEF IInv, WordInv, Counted, NEVER_RELEASE, SLOW_RELEASE, INLINE_RELEASE,
           INTPTR_MIN, INTPTR_MAX

\* One lemma per action: the step keeps the invariant.  The first read of
\* tryfinalizetrydealloc only chooses where to go.
LEMMA TryReadIInv ==
    ASSUME RefsFit, IInv, NEW t \in Thread, TryRead(t)
    PROVE  IInv'
  <1>. USE DEF IInv
  <1>0. Held' = Held /\ \A u \in Thread : OwnedBy(u)' = OwnedBy(u)
    BY DEF TryRead, Held, OwnedBy
  <1>1. TypeOK'
    BY DEF TryRead, AfterRead, Goto, TypeOK, TryLabels
  <1>2. WordInv'
    BY <1>0 DEF TryRead, AfterRead, Goto, TypeOK, WordInv, Dead, Counted
  <1>3. TokenInv'
    BY DEF TryRead, AfterRead, Goto, TypeOK, TokenInv
  <1>4. LicenceInv'
    BY <1>0 DEF TryRead, AfterRead, Goto, TypeOK, LicenceInv, Counted, InFinalize
  <1>5. BusyInv'
    <2>1. ~ Dead
      BY NotDead DEF TryRead
    <2>2. /\ rc = -1 => finalizes = 0 /\ Held = {}
          /\ rc = INTPTR_MIN => finalizes = 1 /\ Held = {}
      BY <2>1, WordPhase
    <2>. QED
      BY <1>0, <2>2
         DEF TryRead, AfterRead, Goto, TypeOK, BusyInv, Busy, InFinalize, TryLabels
  <1>. QED
    BY <1>1, <1>2, <1>3, <1>4, <1>5 DEF IInv

\* Marking the word before -finalize: -1 becomes INTPTR_MIN, no reference is out.
LEMMA TryMarkIInv ==
    ASSUME RefsFit, IInv, NEW t \in Thread, TryMark(t)
    PROVE  IInv'
  <1>. USE DEF IInv
  <1>0. Held' = Held /\ \A u \in Thread : OwnedBy(u)' = OwnedBy(u)
    BY DEF TryMark, Goto, Held, OwnedBy
  <1>d. ~ Dead
    BY NotDead DEF TryMark
  <1>p. finalizes = 0 /\ Held = {} /\ Cardinality(Held) = 0
    BY FS_EmptySet DEF TryMark, BusyInv
  <1>r. rc' = INTPTR_MIN /\ rc' \in Word /\ rc' < -1 /\ rc' < NEVER_RELEASE
    BY HalfAssumption
       DEF TryMark, Wrap, Word, INTPTR_MIN, INTPTR_MAX, NEVER_RELEASE
  <1>1. TypeOK'
    BY <1>r
       DEF TryMark, Goto, TypeOK, TryLabels
  <1>2. WordInv'
    BY <1>0, <1>d, <1>p, <1>r, HalfAssumption
       DEF TryMark, Goto, TypeOK, WordInv, Dead, Counted, INTPTR_MIN
  <1>3. TokenInv'
    BY DEF TryMark, Goto, TypeOK, TokenInv
  <1>4. LicenceInv'
    BY <1>0, <1>r, HalfAssumption
       DEF TryMark, Goto, TypeOK, LicenceInv, Counted, InFinalize,
           NEVER_RELEASE, SLOW_RELEASE, INTPTR_MAX, INTPTR_MIN
  <1>5. BusyInv'
    BY <1>0, <1>p, <1>d
       DEF TryMark, Goto, TypeOK, BusyInv, Busy, InFinalize, TryLabels
  <1>. QED
    BY <1>1, <1>2, <1>3, <1>4, <1>5 DEF IInv

\* The second read: only a word of INTPTR_MIN, no reference left, goes on to -dealloc.
LEMMA TryRereadIInv ==
    ASSUME RefsFit, IInv, NEW t \in Thread, TryReread(t)
    PROVE  IInv'
  <1>. USE DEF IInv
  <1>0. Held' = Held /\ \A u \in Thread : OwnedBy(u)' = OwnedBy(u)
    BY DEF TryReread, AfterRead, Goto, Held, OwnedBy
  <1>d. ~ Dead
    BY NotDead DEF TryReread
  <1>p. rc = INTPTR_MIN => finalizes = 1 /\ Held = {}
    BY <1>d, WordPhase DEF TryReread
  <1>1. TypeOK'
    BY DEF TryReread, AfterRead, Goto, TypeOK, TryLabels
  <1>2. WordInv'
    BY <1>0
       DEF TryReread, AfterRead, Goto, TypeOK, WordInv, Dead, Counted
  <1>3. TokenInv'
    BY DEF TryReread, AfterRead, Goto, TypeOK, TokenInv
  <1>4. LicenceInv'
    BY <1>0
       DEF TryReread, AfterRead, Goto, TypeOK, LicenceInv, Counted,
           InFinalize
  <1>5. BusyInv'
    BY <1>0, <1>p
       DEF TryReread, AfterRead, Goto, TypeOK, BusyInv, Busy, InFinalize,
           TryLabels
  <1>. QED
    BY <1>1, <1>2, <1>3, <1>4, <1>5 DEF IInv

\* Setting the word back to -1 is alone with a dead object.
LEMMA TryWriteBackIInv ==
    ASSUME RefsFit, IInv, NEW t \in Thread, TryWriteBack(t)
    PROVE  IInv'
  <1>. USE DEF IInv
  <1>0. Held' = Held /\ \A u \in Thread : OwnedBy(u)' = OwnedBy(u)
    BY DEF TryWriteBack, Goto, Held, OwnedBy
  <1>p. finalizes = 1 /\ Held = {} /\ deallocs = 0
    BY DEF TryWriteBack, BusyInv, WordInv
  <1>r. rc' = -1 /\ rc' \in Word /\ rc' # NEVER_RELEASE /\ rc' # SLOW_RELEASE
    BY HalfAssumption
       DEF TryWriteBack, Word, INTPTR_MIN, INTPTR_MAX, NEVER_RELEASE, SLOW_RELEASE
  <1>1. TypeOK'
    BY <1>r
       DEF TryWriteBack, Goto, TypeOK, TryLabels
  <1>2. WordInv'
    BY <1>0, <1>p, <1>r
       DEF TryWriteBack, Goto, TypeOK, WordInv, Dead, Counted
  <1>3. TokenInv'
    BY DEF TryWriteBack, Goto, TypeOK, TokenInv
  <1>4. LicenceInv'
    BY <1>0, <1>r
       DEF TryWriteBack, Goto, TypeOK, LicenceInv, Counted, InFinalize
  <1>5. BusyInv'
    BY <1>0, <1>p
       DEF TryWriteBack, Goto, TypeOK, BusyInv, Busy, InFinalize, TryLabels
  <1>. QED
    BY <1>1, <1>2, <1>3, <1>4, <1>5 DEF IInv

\* -dealloc is called once, with nobody else under way.
LEMMA TryDeallocIInv ==
    ASSUME RefsFit, IInv, NEW t \in Thread, TryDealloc(t)
    PROVE  IInv'
  <1>. USE DEF IInv
  <1>0. Held' = Held /\ \A u \in Thread : OwnedBy(u)' = OwnedBy(u)
    BY DEF TryDealloc, Goto, Held, OwnedBy
  <1>p. Dead /\ rc = -1 /\ Held = {} /\ finalizes = 1 /\ deallocs = 0
    BY DEF TryDealloc, BusyInv, WordInv, Dead
  <1>q. \A u \in Thread : OwnedBy(u) = {}
    BY <1>p, ThreadAssumption DEF OwnedBy, Held
  <1>s. \A u \in Thread : u # t => pc[u] = "run" /\ frames[u] = <<>>
    BY <1>p, <1>q
       DEF TryDealloc, TypeOK, BusyInv, Busy, InFinalize, TryLabels, LicenceInv,
           TokenInv, OwnedBy
  <1>1. TypeOK'
    BY DEF TryDealloc, Goto, TypeOK, TryLabels
  <1>2. WordInv'
    BY <1>0, <1>p
       DEF TryDealloc, Goto, TypeOK, WordInv, Dead, Counted
  <1>3. TokenInv'
    BY DEF TryDealloc, Goto, TypeOK, TokenInv
  <1>4. LicenceInv'
    BY <1>0
       DEF TryDealloc, Goto, TypeOK, LicenceInv, Counted, InFinalize
  <1>5. BusyInv'
    BY <1>0, <1>p, <1>s
       DEF TryDealloc, Goto, TypeOK, BusyInv, Busy, InFinalize, TryLabels
  <1>. QED
    BY <1>1, <1>2, <1>3, <1>4, <1>5 DEF IInv

\* -finalize returning ends the exclusion it held.
LEMMA FinalizeReturnIInv ==
    ASSUME RefsFit, IInv, NEW t \in Thread, FinalizeReturn(t)
    PROVE  IInv'
  <1>. USE DEF IInv
  <1>0. Held' = Held /\ \A u \in Thread : OwnedBy(u)' = OwnedBy(u)
    BY DEF FinalizeReturn, Goto, Held, OwnedBy
  <1>p. finalizes = 1 /\ deallocs = 0 /\ Len(frames[t]) = 1
    BY DEF FinalizeReturn, BusyInv, WordInv, TypeOK
  <1>d. ~ Dead
    BY NotDead DEF FinalizeReturn
  <1>r. Counted
    BY <1>d, <1>p, WordPhase
  <1>f. frames' = [frames EXCEPT ![t] = <<>>]
    <2>1. SubSeq(frames[t], 1, 0) = <<>>
      BY SubSeqEmpty
    <2>2. frames' = [frames EXCEPT ![t] = SubSeq(@, 1, Len(frames[t]) - 1)]
      BY DEF FinalizeReturn
    <2>3. Len(frames[t]) - 1 = 0
      BY <1>p
    <2>. QED
      BY <2>1, <2>2, <2>3
  <1>1. TypeOK'
    BY <1>f, <1>p
       DEF FinalizeReturn, Goto, TypeOK, TryLabels
  <1>2. WordInv'
    BY <1>0, <1>d, <1>p
       DEF FinalizeReturn, Goto, TypeOK, WordInv, Dead, Counted
  <1>3. TokenInv'
    BY DEF FinalizeReturn, Goto, TypeOK, TokenInv
  <1>4. LicenceInv'
    BY <1>0, <1>r
       DEF FinalizeReturn, Goto, TypeOK, LicenceInv, Counted, InFinalize
  <1>5. BusyInv'
    BY <1>0, <1>p, <1>f
       DEF FinalizeReturn, Goto, TypeOK, BusyInv, Busy, InFinalize,
           TryLabels
  <1>. QED
    BY <1>1, <1>2, <1>3, <1>4, <1>5 DEF IInv

\* -retain reserves a free token and is licensed to increment.
LEMMA RetainReadIInv ==
    ASSUME RefsFit, IInv, NEW t \in Thread, RetainRead(t)
    PROVE  IInv'
  <1>. USE DEF IInv
  <1>0. Held' = Held /\ \A u \in Thread : OwnedBy(u)' = OwnedBy(u)
    BY DEF RetainRead, Goto, Held, OwnedBy
  <1>g. PICK r \in Free : tok' = [tok EXCEPT ![t] = r]
    BY DEF RetainRead
  <1>f. r \in Ref /\ owner[r] = NoOne /\ \A u \in Thread : tok[u] # r
    BY <1>g DEF Free
  <1>c. Counted
    BY HalfAssumption DEF RetainRead, Counted, TypeOK, Word, INTPTR_MIN,
       INTPTR_MAX, INLINE_RELEASE, NEVER_RELEASE, SLOW_RELEASE
  <1>m. pc[t] = "run" /\ (OwnedBy(t) # {} \/ InFinalize(t)) /\ deallocs = 0
    BY DEF RetainRead, MayMessage, Running
  <1>1. TypeOK'
    BY <1>g, <1>f
       DEF RetainRead, Goto, TypeOK, TryLabels
  <1>2. WordInv'
    BY <1>0, <1>m
       DEF RetainRead, Goto, TypeOK, WordInv, Dead, Counted
  <1>3. TokenInv'
    BY <1>g, <1>f, <1>m, RefAssumption
       DEF RetainRead, Goto, TypeOK, TokenInv
  <1>4. LicenceInv'
    BY <1>0, <1>c, <1>m
       DEF RetainRead, Goto, TypeOK, LicenceInv, Counted, InFinalize
  <1>5. BusyInv'
    BY <1>0, <1>m
       DEF RetainRead, Goto, TypeOK, BusyInv, Busy, InFinalize, TryLabels
  <1>. QED
    BY <1>1, <1>2, <1>3, <1>4, <1>5 DEF IInv

\* The increment of -retain: word and references in use grow together.
LEMMA RetainIncrementIInv ==
    ASSUME RefsFit, IInv, NEW t \in Thread, RetainIncrement(t)
    PROVE  IInv'
  <1>. USE DEF IInv
  <1>q. /\ tok[t] \in Ref /\ owner[tok[t]] = NoOne
        /\ owner' = [owner EXCEPT ![tok[t]] = t]
    BY DEF RetainIncrement, TokenInv
  <1>h. Held' = Held \cup {tok[t]} /\ Cardinality(Held') = Cardinality(Held) + 1
    BY <1>q, TakeCounts
  <1>o. \A u \in Thread : OwnedBy(u) \subseteq OwnedBy(u)'
    BY <1>q, ThreadAssumption DEF TypeOK, OwnedBy
  <1>d. ~ Dead /\ Counted
    BY NotDead DEF RetainIncrement, LicenceInv
  <1>m. OwnedBy(t) # {} \/ InFinalize(t)
    BY DEF RetainIncrement, LicenceInv
  <1>u. Held # {} \/ finalizes = 1
    BY <1>m, ThreadAssumption DEF OwnedBy, Held, BusyInv
  <1>b. \A u \in Thread : pc[u] \notin {"mark", "writeback"}
    BY <1>m, <1>u, ThreadAssumption
       DEF RetainIncrement, BusyInv, Busy, InFinalize, TryLabels, OwnedBy, Held
  <1>r. rc' = rc + 1 /\ rc' \in Word /\ Counted'
    <2>1. rc < INLINE_RELEASE
      BY <1>d, WordPhase, HalfAssumption
         DEF TypeOK, Word, INTPTR_MIN, INTPTR_MAX, INLINE_RELEASE
    <2>. QED
      BY <2>1, HalfAssumption
         DEF RetainIncrement, TypeOK, Word, Wrap, Counted, INTPTR_MIN, INTPTR_MAX,
             INLINE_RELEASE, NEVER_RELEASE, SLOW_RELEASE
  <1>1. TypeOK'
    BY <1>q, <1>r
       DEF RetainIncrement, Goto, TypeOK, TryLabels
  <1>2. WordInv'
    BY <1>h, <1>d, <1>r, HeldFinite, HalfAssumption
       DEF RetainIncrement, Goto, TypeOK, WordInv, Dead, Counted,
           INTPTR_MIN, Word, INTPTR_MAX
  <1>3. TokenInv'
    BY <1>q, RefAssumption, ThreadAssumption
       DEF RetainIncrement, Goto, TypeOK, TokenInv
  <1>4. LicenceInv'
    BY <1>o, <1>r
       DEF RetainIncrement, Goto, TypeOK, LicenceInv, Counted, InFinalize
  <1>5. BusyInv'
    BY <1>b, <1>u, <1>d, <1>o, <1>m
       DEF RetainIncrement, Goto, TypeOK, BusyInv, Busy, InFinalize,
           TryLabels, Dead
  <1>. QED
    BY <1>1, <1>2, <1>3, <1>4, <1>5 DEF IInv

\* -retain of a constant or slow object leaves the word alone.
LEMMA RetainUncountedIInv ==
    ASSUME RefsFit, IInv, NEW t \in Thread, RetainUncounted(t)
    PROVE  IInv'
  <1>. USE DEF IInv
  <1>g. PICK r \in Free : owner' = [owner EXCEPT ![r] = t]
    BY DEF RetainUncounted
  <1>f. r \in Ref /\ owner[r] = NoOne /\ \A u \in Thread : tok[u] # r
    BY <1>g DEF Free
  <1>o. \A u \in Thread : OwnedBy(u) \subseteq OwnedBy(u)'
    BY <1>g, <1>f, ThreadAssumption DEF TypeOK, OwnedBy
  <1>d. ~ Dead
    BY NotDead DEF RetainUncounted, MayMessage
  <1>c. ~ Counted /\ finalizes = 0
    BY <1>d, WordPhase, HalfAssumption
       DEF RetainUncounted, Counted, TypeOK, Word, INTPTR_MIN, INTPTR_MAX,
           INLINE_RELEASE, NEVER_RELEASE, SLOW_RELEASE
  <1>s. \A u \in Thread : pc[u] = "run"
    BY <1>c DEF LicenceInv
  <1>1. TypeOK'
    BY <1>g, <1>f
       DEF RetainUncounted, TypeOK, TryLabels
  <1>2. WordInv'
    BY <1>d, <1>c
       DEF RetainUncounted, TypeOK, WordInv, Dead, Counted
  <1>3. TokenInv'
    BY <1>g, <1>f, <1>s
       DEF RetainUncounted, TypeOK, TokenInv
  <1>4. LicenceInv'
    BY <1>s, <1>o
       DEF RetainUncounted, TypeOK, LicenceInv, Counted, InFinalize
  <1>5. BusyInv'
    BY <1>s, <1>c, <1>o, <1>d
       DEF RetainUncounted, TypeOK, BusyInv, Busy, InFinalize, TryLabels,
           Dead
  <1>. QED
    BY <1>1, <1>2, <1>3, <1>4, <1>5 DEF IInv

\* -release of a constant or slow object leaves the word alone.
LEMMA ReleaseUncountedIInv ==
    ASSUME RefsFit, IInv, NEW t \in Thread, ReleaseUncounted(t)
    PROVE  IInv'
  <1>. USE DEF IInv
  <1>g. PICK r \in Spare(t) : owner' = [owner EXCEPT ![r] = NoOne]
    BY DEF ReleaseUncounted
  <1>f. r \in Ref /\ owner[r] = t
    BY <1>g DEF Spare, OwnedBy
  <1>d. ~ Dead
    BY <1>f, NotDead DEF OwnedBy
  <1>c. ~ Counted /\ finalizes = 0
    BY <1>d, WordPhase, HalfAssumption
       DEF ReleaseUncounted, Counted, TypeOK, Word, INTPTR_MIN, INTPTR_MAX,
           INLINE_RELEASE, NEVER_RELEASE, SLOW_RELEASE
  <1>s. \A u \in Thread : pc[u] = "run"
    BY <1>c DEF LicenceInv
  <1>1. TypeOK'
    BY <1>g, <1>f
       DEF ReleaseUncounted, TypeOK, TryLabels
  <1>2. WordInv'
    BY <1>d, <1>c
       DEF ReleaseUncounted, TypeOK, WordInv, Dead, Counted
  <1>3. TokenInv'
    BY <1>s
       DEF ReleaseUncounted, TypeOK, TokenInv
  <1>4. LicenceInv'
    BY <1>s
       DEF ReleaseUncounted, TypeOK, LicenceInv, Counted, InFinalize
  <1>5. BusyInv'
    BY <1>s, <1>c, <1>d
       DEF ReleaseUncounted, TypeOK, BusyInv, Busy, InFinalize, TryLabels,
           Dead
  <1>. QED
    BY <1>1, <1>2, <1>3, <1>4, <1>5 DEF IInv

\* A reference changes its thread: the count stays, the giver keeps its licence.
LEMMA HandOverIInv ==
    ASSUME RefsFit, IInv, NEW t \in Thread, HandOver(t)
    PROVE  IInv'
  <1>. USE DEF IInv
  <1>g. PICK r \in Spare(t), v \in Thread \ {t} : owner' = [owner EXCEPT ![r] = v]
    BY DEF HandOver
  <1>f. r \in Ref /\ owner[r] = t /\ owner[r] # NoOne /\ pc[t] = "run"
    BY <1>g, ThreadAssumption DEF Spare, OwnedBy, HandOver, Running
  <1>h. Held' = Held
    BY <1>g, <1>f, HandOverCounts
  <1>o. \A u \in Thread \ {t} : OwnedBy(u) \subseteq OwnedBy(u)'
    BY <1>g, <1>f DEF TypeOK, OwnedBy
  <1>e. InFinalize(t) /\ frames[t][1] = "perform" => OwnedBy(t)' # {}
    <2>. SUFFICES ASSUME InFinalize(t), frames[t][1] = "perform"
                  PROVE  OwnedBy(t)' # {}
      OBVIOUS
    <2>1. OwnedBy(t) # {r} /\ r \in OwnedBy(t)
      BY <1>g DEF Spare, BusyInv
    <2>2. PICK q \in OwnedBy(t) : q # r
      BY <2>1
    <2>. QED
      BY <2>2, <1>g, <1>f DEF OwnedBy, TypeOK
  <1>1. TypeOK'
    BY <1>g, <1>f
       DEF HandOver, TypeOK, TryLabels
  <1>2. WordInv'
    BY <1>h
       DEF HandOver, TypeOK, WordInv, Dead, Counted
  <1>3. TokenInv'
    BY <1>g, <1>f, ThreadAssumption
       DEF HandOver, TypeOK, TokenInv
  <1>4. LicenceInv'
    BY <1>f, <1>o
       DEF HandOver, TypeOK, LicenceInv, Counted, InFinalize
  <1>5. BusyInv'
    BY <1>f, <1>o, <1>h, <1>e
       DEF HandOver, TypeOK, BusyInv, Busy, InFinalize, TryLabels
  <1>. QED
    BY <1>1, <1>2, <1>3, <1>4, <1>5 DEF IInv

\* -performFinalize remembers a word of an object not finalized.
LEMMA PerformReadIInv ==
    ASSUME RefsFit, IInv, NEW t \in Thread, PerformRead(t), Counted, OwnedBy(t) # {}, pc[t] \in {"run", "perform"}
    PROVE  IInv'
  <1>. USE DEF IInv
  <1>0. Held' = Held /\ \A u \in Thread : OwnedBy(u)' = OwnedBy(u)
    BY DEF PerformRead, Goto, Held, OwnedBy
  <1>i. rc \in Int
    BY HalfAssumption DEF TypeOK, Word, INTPTR_MIN, INTPTR_MAX
  <1>d. deallocs = 0
    BY NotDead DEF Dead, WordInv
  <1>1. TypeOK'
    BY DEF PerformRead, Goto, TypeOK, TryLabels
  <1>2. WordInv'
    BY <1>0
       DEF PerformRead, Goto, TypeOK, WordInv, Dead, Counted
  <1>3. TokenInv'
    BY DEF PerformRead, Goto, TypeOK, TokenInv
  <1>4. LicenceInv'
    <2>1. Counted' /\ frames' = frames
      BY DEF Counted, PerformRead
    <2>2. CASE rc < 0
      BY <1>0, <2>1, <2>2 DEF PerformRead, Goto, TypeOK, LicenceInv, InFinalize
    <2>3. CASE rc >= 0
      <3>1. /\ pc' = [pc EXCEPT ![t] = "cas"]
            /\ old' = [old EXCEPT ![t] = rc]
        BY <1>i, <2>3 DEF PerformRead, Goto
      <3>. QED
        BY <1>0, <2>1, <2>3, <3>1 DEF TypeOK, LicenceInv, InFinalize
    <2>. QED
      BY <1>i, <2>2, <2>3
  <1>5. BusyInv'
    BY <1>0, <1>d
       DEF PerformRead, Goto, TypeOK, BusyInv, Busy, InFinalize, TryLabels
  <1>. QED
    BY <1>1, <1>2, <1>3, <1>4, <1>5 DEF IInv

\* The swap of -performFinalize: marked once, with the count unchanged.
LEMMA PerformCasIInv ==
    ASSUME RefsFit, IInv, NEW t \in Thread, PerformCas(t)
    PROVE  IInv'
  <1>. USE DEF IInv
  <1>0. Held' = Held /\ \A u \in Thread : OwnedBy(u)' = OwnedBy(u)
    BY DEF PerformCas, Goto, Held, OwnedBy
  <1>d. ~ Dead /\ Counted /\ OwnedBy(t) # {} /\ Held # {} /\ old[t] >= 0
    BY NotDead, ThreadAssumption DEF PerformCas, LicenceInv, OwnedBy, Held
  <1>p. rc = old[t] => /\ finalizes = 0
                       /\ rc = Cardinality(Held) - 1
    BY <1>d, WordPhase, HalfAssumption
       DEF TypeOK, Word, INTPTR_MIN, INTPTR_MAX
  <1>s. finalizes = 0 => \A u \in Thread : ~ Busy(u)
    BY <1>d DEF BusyInv, Busy, TryLabels, WordInv, Dead
  <1>r. /\ rc' \in Word /\ Counted'
        /\ rc = old[t] => rc' = rc + INTPTR_MIN + 1
    BY <1>d, HalfAssumption
       DEF PerformCas, TypeOK, Word, Wrap, Counted, INTPTR_MIN, INTPTR_MAX,
           NEVER_RELEASE, SLOW_RELEASE
  <1>f. rc = old[t] => frames[t] = <<>> /\ frames'[t] = <<"perform">>
    BY <1>p, <1>s DEF PerformCas, TypeOK, Busy, InFinalize
  <1>1. TypeOK'
    <2>1. Append(frames[t], "perform") \in Seq({"try", "perform"})
      BY AppendProperties DEF TypeOK
    <2>2. frames' \in [Thread -> Seq({"try", "perform"})] /\ finalizes' \in Nat
      <3>1. CASE rc = old[t]
        <4>1. /\ frames' = [frames EXCEPT ![t] = Append(frames[t], "perform")]
              /\ finalizes' = finalizes + 1
          BY <3>1 DEF PerformCas
        <4>2. frames \in [Thread -> Seq({"try", "perform"})] /\ finalizes \in Nat
          BY DEF TypeOK
        <4>. DEFINE S == Seq({"try", "perform"})
        <4>4. \A a \in S, f \in [Thread -> S] : [f EXCEPT ![t] = a] \in [Thread -> S]
          <5>. HIDE DEF S
          <5>. QED
            OBVIOUS
        <4>. QED
          BY <2>1, <4>1, <4>2, <4>4
      <3>2. CASE rc # old[t]
        BY <3>2 DEF PerformCas, TypeOK
      <3>. QED
        BY <3>1, <3>2
    <2>3. pc' \in [Thread -> {"run", "increment", "decrement", "perform", "cas"}
                             \cup TryLabels]
      BY DEF PerformCas, Goto, TypeOK
    <2>. QED
      BY <1>r, <2>2, <2>3 DEF PerformCas, TypeOK
  <1>2. WordInv'
    <2>1. ~ Dead'
      BY <1>d DEF PerformCas, Goto, TypeOK, Dead
    <2>2. CASE rc = old[t]
      <3>1. finalizes' = 1 /\ deallocs' \in {0, 1}
        BY <1>p, <2>2 DEF PerformCas, WordInv
      <3>2. rc' = INTPTR_MIN + Cardinality(Held)
        BY <1>p, <1>r, <2>2, HeldFinite, HalfAssumption DEF INTPTR_MIN
      <3>. QED
        BY <1>0, <2>1, <3>1, <3>2 DEF WordInv
    <2>3. CASE rc # old[t]
      BY <1>0, <1>d, <2>1, <2>3 DEF PerformCas, WordInv, Counted
    <2>. QED
      BY <2>2, <2>3
  <1>3. TokenInv'
    BY DEF PerformCas, Goto, TypeOK, TokenInv
  <1>4. LicenceInv'
    BY <1>0, <1>r, <1>d
       DEF PerformCas, Goto, TypeOK, LicenceInv, Counted, InFinalize
  <1>5. BusyInv'
    <2>1. CASE rc = old[t]
      <3>1. /\ finalizes' = 1 /\ deallocs' = 0
            /\ pc' = [pc EXCEPT ![t] = "run"]
            /\ frames' = [frames EXCEPT ![t] = <<"perform">>]
        BY <1>p, <1>d, <1>f, <2>1 DEF PerformCas, Goto, Dead, WordInv, TypeOK
      <3>2. \A u \in Thread : pc[u] \notin TryLabels /\ frames[u] = <<>>
        BY <1>p, <1>s, <2>1 DEF Busy, InFinalize
      <3>. QED
        BY <1>0, <1>d, <3>1, <3>2 DEF TypeOK, BusyInv, Busy, InFinalize, TryLabels
    <2>2. CASE rc # old[t]
      BY <1>0, <1>d, <2>2
         DEF PerformCas, Goto, TypeOK, BusyInv, Busy, InFinalize, TryLabels
    <2>. QED
      BY <2>1, <2>2
  <1>. QED
    BY <1>1, <1>2, <1>3, <1>4, <1>5 DEF IInv

\* -release picks a token its thread owns.
LEMMA CarefulReleaseIInv ==
    ASSUME RefsFit, IInv, NEW t \in Thread, CarefulRelease(t)
    PROVE  IInv'
  <1>. USE DEF IInv
  <1>0. Held' = Held /\ \A u \in Thread : OwnedBy(u)' = OwnedBy(u)
    BY DEF CarefulRelease, ReleaseRead, Goto, Held, OwnedBy
  <1>g. PICK r \in Spare(t) : tok' = [tok EXCEPT ![t] = r]
    BY DEF CarefulRelease, ReleaseRead
  <1>f. r \in Ref /\ owner[r] = t /\ pc[t] = "run" /\ ~ InFinalize(t)
    BY <1>g DEF Spare, OwnedBy, CarefulRelease, ReleaseRead, Running
  <1>c. Counted
    BY HalfAssumption
       DEF CarefulRelease, ReleaseRead, Counted, TypeOK, Word, INTPTR_MIN,
           INTPTR_MAX, INLINE_RELEASE, NEVER_RELEASE, SLOW_RELEASE
  <1>1. TypeOK'
    BY <1>g, <1>f
       DEF CarefulRelease, ReleaseRead, Goto, TypeOK, TryLabels
  <1>2. WordInv'
    BY <1>0, <1>f
       DEF CarefulRelease, ReleaseRead, Goto, TypeOK, WordInv, Dead, Counted
  <1>3. TokenInv'
    BY <1>g, <1>f, RefAssumption, ThreadAssumption
       DEF CarefulRelease, ReleaseRead, Goto, TypeOK, TokenInv
  <1>4. LicenceInv'
    BY <1>0, <1>f, <1>c
       DEF CarefulRelease, ReleaseRead, Goto, TypeOK, LicenceInv, Counted,
           InFinalize
  <1>5. BusyInv'
    BY <1>0, <1>f
       DEF CarefulRelease, ReleaseRead, Goto, TypeOK, BusyInv, Busy,
           InFinalize, TryLabels, Running
  <1>. QED
    BY <1>1, <1>2, <1>3, <1>4, <1>5 DEF IInv

\* The decrement of -release: only the last one enters tryfinalizetrydealloc.
LEMMA CarefulDecrementIInv ==
    ASSUME RefsFit, IInv, NEW t \in Thread, CarefulDecrement(t)
    PROVE  IInv'
  <1>. USE DEF IInv
  <1>q. /\ tok[t] \in Ref /\ owner[tok[t]] = t
        /\ owner' = [owner EXCEPT ![tok[t]] = NoOne]
    BY DEF CarefulDecrement, ReleaseDecrement, TokenInv
  <1>h. /\ Held' = Held \ {tok[t]} /\ tok[t] \in Held
        /\ Cardinality(Held') = Cardinality(Held) - 1
    BY <1>q, GiveCounts
  <1>o. \A u \in Thread \ {t} : OwnedBy(u)' = OwnedBy(u)
    BY <1>q, ThreadAssumption DEF TypeOK, OwnedBy
  <1>d. ~ Dead /\ Counted /\ pc[t] = "decrement" /\ ~ InFinalize(t)
    BY NotDead DEF CarefulDecrement, ReleaseDecrement, LicenceInv, BusyInv
  <1>c. Cardinality(Held) >= 1 /\ Cardinality(Held) \in Nat
    BY <1>h, HeldFinite
  <1>r. rc' = rc - 1 /\ rc' \in Word /\ Counted'
    <2>1. Half \in Nat /\ Half >= 4 /\ rc \in (-Half)..(Half - 1)
      BY HalfAssumption DEF TypeOK, Word, INTPTR_MIN, INTPTR_MAX
    <2>2. rc > -Half
      BY <1>c, <1>d, <2>1 DEF WordInv, INTPTR_MIN
    <2>3. rc < Half - 2
      BY <1>d, <2>1 DEF Counted, INTPTR_MAX, NEVER_RELEASE, SLOW_RELEASE
    <2>4. rc' = Wrap(rc - 1)
      BY DEF CarefulDecrement, ReleaseDecrement
    <2>. QED
      BY <2>1, <2>2, <2>3, <2>4
         DEF Word, Wrap, Counted, INTPTR_MIN, INTPTR_MAX, NEVER_RELEASE, SLOW_RELEASE
  <1>1. TypeOK'
    BY <1>q, <1>r
       DEF CarefulDecrement, ReleaseDecrement, Goto, TypeOK, TryLabels
  <1>z. rc <= 0 /\ finalizes = 0 => Held' = {}
    <2>1. rc <= 0 /\ finalizes = 0 => Cardinality(Held') = 0
      BY <1>c, <1>d, <1>h DEF WordInv
    <2>. QED
      BY <2>1, <1>h, HeldFinite, FS_Subset, FS_EmptySet
  <1>s. rc <= 0 => \A u \in Thread : ~ Busy(u)
    <2>1. rc < 0 <=> finalizes = 1
      <3>1. rc \in Int
        BY HalfAssumption DEF TypeOK, Word, INTPTR_MIN, INTPTR_MAX
      <3>2. finalizes = 0 => rc = Cardinality(Held) - 1
        BY <1>d DEF WordInv
      <3>3. /\ finalizes = 1 <=> rc < -1
            /\ finalizes \in {0, 1}
        BY <1>d, WordPhase
      <3>. QED
        BY <1>c, <3>1, <3>2, <3>3
    <2>2. finalizes = 0 => \A u \in Thread : ~ Busy(u)
      BY <1>d, <1>h DEF BusyInv, Busy, TryLabels, WordInv, Dead
    <2>. QED
      BY <2>1, <2>2, <1>d
         DEF CarefulDecrement, WordInv
  <1>2. WordInv'
    BY <1>h, <1>d, <1>r, <1>c, HalfAssumption
       DEF CarefulDecrement, ReleaseDecrement, Goto, TypeOK, WordInv, Dead,
           Counted, INTPTR_MIN, Word, INTPTR_MAX
  <1>3. TokenInv'
    BY <1>q, RefAssumption, ThreadAssumption
       DEF CarefulDecrement, ReleaseDecrement, Goto, TypeOK, TokenInv
  <1>4. LicenceInv'
    BY <1>o, <1>r, <1>d
       DEF CarefulDecrement, ReleaseDecrement, Goto, TypeOK, LicenceInv,
           Counted, InFinalize
  <1>5. BusyInv'
    BY <1>s, <1>z, <1>d, <1>o, <1>h
       DEF CarefulDecrement, ReleaseDecrement, Goto, TypeOK, BusyInv, Busy,
           InFinalize, TryLabels, WordInv, Dead
  <1>. QED
    BY <1>1, <1>2, <1>3, <1>4, <1>5 DEF IInv

\* Constantify, slowify and their inverses, by a client alone with its object.
LEMMA SetWordIInv ==
    ASSUME RefsFit, IInv, NEW t \in Thread, NEW word \in {0, NEVER_RELEASE, SLOW_RELEASE}, SetWord(t, word)
    PROVE  IInv'
  <1>. USE DEF IInv
  <1>0. Held' = Held /\ \A u \in Thread : OwnedBy(u)' = OwnedBy(u)
    BY DEF SetWord, Held, OwnedBy
  <1>a. /\ deallocs = 0 /\ finalizes = 0 /\ Cardinality(Held) = 1
        /\ pc[t] = "run" /\ Held = OwnedBy(t)
    BY DEF SetWord, Alone, Running
  <1>s. \A u \in Thread : pc[u] = "run"
    <2>1. \A u \in Thread \ {t} : OwnedBy(u) = {} /\ ~ InFinalize(u)
      BY <1>a, ThreadAssumption DEF OwnedBy, Held, BusyInv
    <2>2. Held # {}
      BY <1>a, FS_EmptySet
    <2>. QED
      BY <1>a, <2>1, <2>2
         DEF TypeOK, TryLabels, TokenInv, LicenceInv, BusyInv, OwnedBy
  <1>r. rc' = word /\ rc' \in Word
    BY HalfAssumption
       DEF SetWord, Word, INTPTR_MIN, INTPTR_MAX, NEVER_RELEASE, SLOW_RELEASE
  <1>1. TypeOK'
    BY <1>r
       DEF SetWord, TypeOK, TryLabels
  <1>2. WordInv'
    BY <1>0, <1>a, <1>s, <1>r
       DEF SetWord, TypeOK, WordInv, Dead, Counted
  <1>3. TokenInv'
    BY DEF SetWord, TypeOK, TokenInv
  <1>4. LicenceInv'
    BY <1>0, <1>s
       DEF SetWord, TypeOK, LicenceInv, Counted, InFinalize
  <1>5. BusyInv'
    BY <1>0, <1>s, <1>a
       DEF SetWord, TypeOK, BusyInv, Busy, InFinalize, TryLabels
  <1>. QED
    BY <1>1, <1>2, <1>3, <1>4, <1>5 DEF IInv

\* Every step of a careful client keeps the invariant.
LEMMA NextIInv ==
    ASSUME RefsFit, IInv, [Next]_vars
    PROVE  IInv'
  <1>1. ASSUME NEW t \in Thread, Progress(t)
        PROVE  IInv'
    <2>1. CASE PerformRetry(t)
      BY <2>1, PerformReadIInv DEF PerformRetry, IInv, LicenceInv
    <2>. QED
      BY <1>1, <2>1, RetainIncrementIInv, TryReadIInv, TryMarkIInv, TryRereadIInv,
         TryWriteBackIInv, TryDeallocIInv, FinalizeReturnIInv, PerformCasIInv
         DEF Progress
  <1>2. ASSUME NEW t \in Thread, Call(t)
        PROVE  IInv'
    BY <1>2, RetainReadIInv, RetainUncountedIInv, ReleaseUncountedIInv, SetWordIInv,
       HandOverIInv
       DEF Call, Constantify, Deconstantify, Slowify, Deslowify
  <1>3. ASSUME NEW t \in Thread, CarefulPerform(t)
        PROVE  IInv'
    BY <1>3, PerformReadIInv DEF CarefulPerform, PerformStart, Running, Counted
  <1>4. CASE UNCHANGED vars
    BY <1>4 DEF vars, IInv, TypeOK, WordInv, TokenInv, LicenceInv, BusyInv, Dead,
       Held, OwnedBy, Counted, Busy, InFinalize
  <1>. QED
    BY <1>1, <1>2, <1>3, <1>4, CarefulReleaseIInv, CarefulDecrementIInv
       DEF Next, CarefulStep

\* The invariant of the whole protocol: header word, references in use,
\* reference tokens under way and the exclusion of -finalize and -dealloc.
THEOREM Inductive ==
    ASSUME RefsFit
    PROVE  Spec => []IInv
  <1>1. Init => IInv
    BY InitIInv
  <1>2. IInv /\ [Next]_vars => IInv'
    BY NextIInv
  <1>. QED
    BY <1>1, <1>2, PTL DEF Spec

\* The variables keep their types: in particular the header word never
\* leaves the range of intptr_t and never wraps.
THEOREM TypeCorrect ==
    ASSUME RefsFit
    PROVE  Spec => []TypeOK
  <1>1. IInv => TypeOK
    BY DEF IInv
  <1>. QED
    BY <1>1, Inductive, PTL

\* __mulle_objc_object_get_retaincount reports the references that are out.
THEOREM RetainCountCorrect ==
    ASSUME RefsFit
    PROVE  Spec => []CountIsTrue
  <1>1. IInv => CountIsTrue
    <2>. SUFFICES ASSUME IInv, Counted, NEW t \in Thread, MayMessage(t)
                  PROVE  RetainCount(rc) = Cardinality(Held)
      BY DEF CountIsTrue
    <2>1. ~ Dead
      BY NotDead DEF MayMessage
    <2>2. finalizes = 0 => Held # {}
      BY ThreadAssumption DEF MayMessage, IInv, BusyInv, OwnedBy, Held
    <2>3. /\ Cardinality(Held) \in Nat
          /\ Cardinality(Held) <= Half - 3
          /\ Cardinality(Held) = 0 <=> Held = {}
      BY HeldFinite, HalfAssumption, FS_CardinalityType, RefAssumption
         DEF IInv, RefsFit, INLINE_RELEASE, INTPTR_MAX
    <2>. QED
      BY <2>1, <2>2, <2>3, HalfAssumption
         DEF IInv, WordInv, RetainCount, Counted, NEVER_RELEASE, SLOW_RELEASE,
             INTPTR_MAX, INTPTR_MIN
  <1>. QED
    BY <1>1, Inductive, PTL

\* _mulle_objc_object_is_finalized is right for everyone who may ask.
THEOREM IsFinalizedCorrect ==
    ASSUME RefsFit
    PROVE  Spec => []FinalizedIsTrue
  <1>1. IInv => FinalizedIsTrue
    <2>. SUFFICES ASSUME IInv, NEW t \in Thread, MayMessage(t)
                  PROVE  IsFinalized(rc) <=> finalizes > 0
      BY DEF FinalizedIsTrue
    <2>1. ~ Dead
      BY NotDead DEF MayMessage
    <2>2. finalizes = 0 => Held # {}
      BY ThreadAssumption DEF MayMessage, IInv, BusyInv, OwnedBy, Held
    <2>. QED
      BY <2>1, <2>2, WordPhase, HalfAssumption
         DEF IsFinalized, IInv, TypeOK, Word, INTPTR_MIN, INTPTR_MAX
  <1>. QED
    BY <1>1, Inductive, PTL

\* -finalize at most once, -dealloc at most once and after it.
THEOREM FinalizeThenDealloc ==
    ASSUME RefsFit
    PROVE  Spec => []FinalizeOnceThenDealloc
  <1>1. IInv => FinalizeOnceThenDealloc
    BY DEF IInv, WordInv, BusyInv, FinalizeOnceThenDealloc, TryLabels
  <1>. QED
    BY <1>1, Inductive, PTL

\* The thread that deallocates is alone with the object.
THEOREM DeallocAlone ==
    ASSUME RefsFit
    PROVE  Spec => []DeallocIsAlone
  <1>1. IInv => DeallocIsAlone
    <2>. SUFFICES ASSUME IInv, NEW t \in Thread, pc[t] \in {"writeback", "dealloc"}
                  PROVE  /\ Held = {}
                         /\ \A u \in Thread \ {t} : pc[u] = "run" /\ ~ InFinalize(u)
      BY DEF DeallocIsAlone
    <2>1. Held = {}
      BY DEF IInv, WordInv, BusyInv, Dead
    <2>2. \A u \in Thread : OwnedBy(u) = {}
      BY <2>1, ThreadAssumption DEF OwnedBy, Held
    <2>3. ASSUME NEW u \in Thread \ {t}
          PROVE  pc[u] = "run" /\ ~ InFinalize(u)
      <3>1. Busy(t)
        BY DEF Busy, TryLabels
      <3>2. ~ InFinalize(u) /\ pc[u] \notin TryLabels
        BY <3>1 DEF IInv, BusyInv, Busy
      <3>3. pc[u] \notin {"increment", "decrement", "perform", "cas"}
        BY <2>2, <3>2 DEF IInv, LicenceInv, TokenInv, OwnedBy
      <3>. QED
        BY <3>2, <3>3 DEF IInv, TypeOK
    <2>. QED
      BY <2>1, <2>3
  <1>. QED
    BY <1>1, Inductive, PTL

\* Nobody touches the object once -dealloc ran.
THEOREM NoUseAfterFree ==
    ASSUME RefsFit
    PROVE  Spec => []NoUseAfterDealloc
  <1>1. IInv => NoUseAfterDealloc
    BY DEF IInv, WordInv, BusyInv, Dead, NoUseAfterDealloc
  <1>. QED
    BY <1>1, Inductive, PTL
=============================================================================
