--------------------------- MODULE RetainRelease ---------------------------
(***************************************************************************)
(* Reference counting of one object: the _retaincount_1 word of the object *)
(* header as it is read, incremented, decremented and compared-and-swapped *)
(* by several threads, and the calls of -finalize and -dealloc it decides. *)
(*                                                                         *)
(* Every atomic access of the header is a step of its own.  -finalize and  *)
(* -dealloc are client code: while -finalize runs its thread may use the   *)
(* object like any other client, so calls nest and frames is a stack.      *)
(*                                                                         *)
(* What the clients own is modelled by reference tokens: a thread may      *)
(* message the object only while it owns a token (or runs its -finalize),  *)
(* it gives one back with -release, and may hand one to another thread.    *)
(***************************************************************************)
EXTENDS Integers, FiniteSets, Sequences

CONSTANTS
    Thread,     \* the threads that use the object
    Ref,        \* reference tokens, one for every balanced -retain
    Half,       \* half the range of intptr_t: INTPTR_MAX = Half - 1
    NoOne,      \* the owner of a token nobody holds
    NoRef       \* the token of a thread that takes or gives back none

ASSUME HalfAssumption == Half \in Nat /\ Half >= 4
ASSUME RefAssumption == IsFiniteSet(Ref) /\ Ref # {} /\ NoRef \notin Ref
ASSUME ThreadAssumption == NoOne \notin Thread

VARIABLES
    rc,         \* header->_retaincount_1
    owner,      \* owner of every reference token (client state)
    pc,         \* where each thread is in the code
    old,        \* the thread's local variable retaincount_1
    tok,        \* the token the thread is taking or giving back
    frames,     \* per thread: callers of the -finalize calls it runs
    finalizes,  \* number of -finalize calls so far
    deallocs    \* number of -dealloc calls so far

vars == <<rc, owner, pc, old, tok, frames, finalizes, deallocs>>

----------------------------------------------------------------------------
(* The header word *)

INTPTR_MAX == Half - 1
INTPTR_MIN == -Half

Word == INTPTR_MIN .. INTPTR_MAX

\* two's complement result of adding two words
Wrap(x) ==
    CASE x > INTPTR_MAX -> x - 2 * Half
      [] x < INTPTR_MIN -> x + 2 * Half
      [] OTHER          -> x

SLOW_RELEASE   == INTPTR_MAX
NEVER_RELEASE  == INTPTR_MAX - 1
INLINE_RELEASE == INTPTR_MAX - 2

\* __mulle_objc_object_get_retaincount, for an object that is not slow
RetainCount(word) ==
    CASE word = NEVER_RELEASE -> NEVER_RELEASE
      [] word = -1            -> 0
      [] word < -1            -> word - INTPTR_MIN
      [] OTHER                -> word + 1

IsFinalized(word) == word < 0

----------------------------------------------------------------------------
(* Client state *)

Held == {r \in Ref : owner[r] # NoOne}

OwnedBy(t) == {r \in Ref : owner[r] = t}

\* tokens for the next -retain; that Ref is finite bounds the retain count
Free == {r \in Ref : owner[r] = NoOne /\ \A t \in Thread : tok[t] # r}

\* the reference count is kept in the header
Counted == rc # NEVER_RELEASE /\ rc # SLOW_RELEASE

InFinalize(t) == frames[t] # <<>>

\* a thread in between two calls, or in the body of -finalize
Running(t) == pc[t] = "run" /\ deallocs = 0

\* the client's licence to message the object
MayMessage(t) == Running(t) /\ (OwnedBy(t) # {} \/ InFinalize(t))

\* -finalize called by -performFinalize runs on a reference of the caller,
\* which it does not give away
Spare(t) ==
    IF InFinalize(t) /\ frames[t][Len(frames[t])] = "perform"
    THEN {r \in OwnedBy(t) : OwnedBy(t) # {r}}
    ELSE OwnedBy(t)

Goto(t, label) == pc' = [pc EXCEPT ![t] = label]

----------------------------------------------------------------------------
(* -retain *)

\* _mulle_objc_object_increment_retaincount: the word is read first ...
RetainRead(t) ==
    /\ MayMessage(t)
    /\ rc <= INLINE_RELEASE
    /\ \E r \in Free : tok' = [tok EXCEPT ![t] = r]
    /\ Goto(t, "increment")
    /\ UNCHANGED <<rc, owner, old, frames, finalizes, deallocs>>

\* ... and atomically incremented, whatever it is by then
RetainIncrement(t) ==
    /\ pc[t] = "increment"
    /\ rc' = Wrap(rc + 1)
    /\ owner' = [owner EXCEPT ![tok[t]] = t]
    /\ tok' = [tok EXCEPT ![t] = NoRef]
    /\ Goto(t, "run")
    /\ UNCHANGED <<old, frames, finalizes, deallocs>>

\* a constant object is not counted, a slow one by its class
RetainUncounted(t) ==
    /\ MayMessage(t)
    /\ rc > INLINE_RELEASE
    /\ \E r \in Free : owner' = [owner EXCEPT ![r] = t]
    /\ UNCHANGED <<rc, pc, old, tok, frames, finalizes, deallocs>>

----------------------------------------------------------------------------
(* -release *)

\* _mulle_objc_object_decrement_retaincount_waszero reads the word
ReleaseRead(t) ==
    /\ Running(t)
    /\ rc <= INLINE_RELEASE
    /\ \E r \in Spare(t) : tok' = [tok EXCEPT ![t] = r]
    /\ Goto(t, "decrement")
    /\ UNCHANGED <<rc, owner, old, frames, finalizes, deallocs>>

\* mutant: the previous value is compared with < 0 instead of <= 0
MutDecrementBelowZero(t) ==
    /\ pc[t] = "decrement"
    /\ rc' = Wrap(rc - 1)
    /\ owner' = [owner EXCEPT ![tok[t]] = NoOne]
    /\ tok' = [tok EXCEPT ![t] = NoRef]
    /\ Goto(t, IF rc < 0 THEN "try" ELSE "run")
    /\ UNCHANGED <<old, frames, finalizes, deallocs>>

\* the atomic decrement returns the previous value
ReleaseDecrement(t) ==
    /\ pc[t] = "decrement"
    /\ rc' = Wrap(rc - 1)
    /\ owner' = [owner EXCEPT ![tok[t]] = NoOne]
    /\ tok' = [tok EXCEPT ![t] = NoRef]
    /\ Goto(t, IF rc <= 0 THEN "try" ELSE "run")
    /\ UNCHANGED <<old, frames, finalizes, deallocs>>

ReleaseUncounted(t) ==
    /\ Running(t)
    /\ rc > INLINE_RELEASE
    /\ \E r \in Spare(t) : owner' = [owner EXCEPT ![r] = NoOne]
    /\ UNCHANGED <<rc, pc, old, tok, frames, finalizes, deallocs>>

----------------------------------------------------------------------------
(* _mulle_objc_object_tryfinalizetrydealloc *)

\* mutant: any finalized object is deallocated
MutAfterReadNegative(t) ==
    Goto(t, IF rc < 0 THEN "writeback" ELSE "run")

AfterRead(t) ==
    Goto(t, IF rc = INTPTR_MIN THEN "writeback" ELSE "run")

\* the first read: -1 finalizes, INTPTR_MIN deallocates, anything else returns
TryRead(t) ==
    /\ pc[t] = "try"
    /\ IF rc = -1 THEN Goto(t, "mark") ELSE AfterRead(t)
    /\ UNCHANGED <<rc, owner, old, tok, frames, finalizes, deallocs>>

\* mutant: the increment of INTPTR_MIN + 1 is missing, the word underflows
MutMarkUnderflow(t) ==
    /\ pc[t] = "mark"
    /\ rc' = -1 + INTPTR_MIN
    /\ frames' = [frames EXCEPT ![t] = Append(@, "try")]
    /\ finalizes' = finalizes + 1
    /\ Goto(t, "run")
    /\ UNCHANGED <<owner, old, tok, deallocs>>

\* mutant: -finalize is called without marking the word
MutMarkMissing(t) ==
    /\ pc[t] = "mark"
    /\ frames' = [frames EXCEPT ![t] = Append(@, "try")]
    /\ finalizes' = finalizes + 1
    /\ Goto(t, "run")
    /\ UNCHANGED <<rc, owner, old, tok, deallocs>>

\* retaincount_1 += INTPTR_MIN + 1 is written, then -finalize is called
TryMark(t) ==
    /\ pc[t] = "mark"
    /\ rc' = Wrap(-1 + INTPTR_MIN + 1)
    /\ frames' = [frames EXCEPT ![t] = Append(@, "try")]
    /\ finalizes' = finalizes + 1
    /\ Goto(t, "run")
    /\ UNCHANGED <<owner, old, tok, deallocs>>

TryReread(t) ==
    /\ pc[t] = "reread"
    /\ AfterRead(t)
    /\ UNCHANGED <<rc, owner, old, tok, frames, finalizes, deallocs>>

\* "set it back to be nice"
TryWriteBack(t) ==
    /\ pc[t] = "writeback"
    /\ rc' = -1
    /\ Goto(t, "dealloc")
    /\ UNCHANGED <<owner, old, tok, frames, finalizes, deallocs>>

\* -dealloc returns the memory
TryDealloc(t) ==
    /\ pc[t] = "dealloc"
    /\ deallocs' = deallocs + 1
    /\ Goto(t, "run")
    /\ UNCHANGED <<rc, owner, old, tok, frames, finalizes>>

\* -finalize returns to its caller
FinalizeReturn(t) ==
    /\ pc[t] = "run"
    /\ InFinalize(t)
    /\ LET n == Len(frames[t])
       IN  /\ Goto(t, IF frames[t][n] = "try" THEN "reread" ELSE "run")
           /\ frames' = [frames EXCEPT ![t] = SubSeq(@, 1, n - 1)]
    /\ UNCHANGED <<rc, owner, old, tok, finalizes, deallocs>>

----------------------------------------------------------------------------
(* _mulle_objc_object_perform_finalize *)

\* the header is read until the swap succeeds or the object is finalized
PerformRead(t) ==
    /\ IF rc < 0
       THEN Goto(t, "run") /\ UNCHANGED old
       ELSE Goto(t, "cas") /\ old' = [old EXCEPT ![t] = rc]
    /\ UNCHANGED <<rc, owner, tok, frames, finalizes, deallocs>>

\* asserted not to be constant
PerformStart(t) ==
    /\ Running(t)
    /\ OwnedBy(t) # {}
    /\ rc # NEVER_RELEASE
    /\ PerformRead(t)

PerformRetry(t) == pc[t] = "perform" /\ PerformRead(t)

\* mutant: a plain write where the compare-and-swap should be
MutCasBlind(t) ==
    /\ pc[t] = "cas"
    /\ rc' = Wrap(old[t] + INTPTR_MIN + 1)
    /\ frames' = [frames EXCEPT ![t] = Append(@, "perform")]
    /\ finalizes' = finalizes + 1
    /\ Goto(t, "run")
    /\ UNCHANGED <<owner, old, tok, deallocs>>

PerformCas(t) ==
    /\ pc[t] = "cas"
    /\ IF rc = old[t]
       THEN /\ rc' = Wrap(old[t] + INTPTR_MIN + 1)
            /\ frames' = [frames EXCEPT ![t] = Append(@, "perform")]
            /\ finalizes' = finalizes + 1
            /\ Goto(t, "run")
       ELSE /\ Goto(t, "perform")
            /\ UNCHANGED <<rc, frames, finalizes>>
    /\ UNCHANGED <<owner, old, tok, deallocs>>

----------------------------------------------------------------------------
(* The non atomic setters: "You should only use it when creating an object,
   not on the fly"; the client still is alone with its first reference. *)

Alone(t) ==
    /\ Running(t)
    /\ finalizes = 0
    /\ Cardinality(Held) = 1 /\ Held = OwnedBy(t)

SetWord(t, word) ==
    /\ Alone(t)
    /\ rc' = word
    /\ UNCHANGED <<owner, pc, old, tok, frames, finalizes, deallocs>>

Constantify(t)   == rc = 0 /\ SetWord(t, NEVER_RELEASE)
Deconstantify(t) == rc = NEVER_RELEASE /\ SetWord(t, 0)
Slowify(t)       == rc = 0 /\ SetWord(t, SLOW_RELEASE)
Deslowify(t)     == rc = SLOW_RELEASE /\ SetWord(t, 0)

\* a client hands one of its references to another thread
HandOver(t) ==
    /\ Running(t)
    /\ \E r \in Spare(t), u \in Thread \ {t} :
         owner' = [owner EXCEPT ![r] = u]
    /\ UNCHANGED <<rc, pc, old, tok, frames, finalizes, deallocs>>

----------------------------------------------------------------------------
Init ==
    /\ rc = 0
    /\ \E r \in Ref, t \in Thread :
         owner = [x \in Ref |-> IF x = r THEN t ELSE NoOne]
    /\ pc = [t \in Thread |-> "run"]
    /\ old = [t \in Thread |-> 0]
    /\ tok = [t \in Thread |-> NoRef]
    /\ frames = [t \in Thread |-> <<>>]
    /\ finalizes = 0
    /\ deallocs = 0

\* the steps of a call that is under way
Progress(t) ==
    \/ RetainIncrement(t)
    \/ TryRead(t) \/ TryMark(t) \/ TryReread(t) \/ TryWriteBack(t)
    \/ TryDealloc(t) \/ FinalizeReturn(t)
    \/ PerformRetry(t) \/ PerformCas(t)

\* calls every client may start
Call(t) ==
    \/ RetainRead(t) \/ RetainUncounted(t) \/ ReleaseUncounted(t)
    \/ Constantify(t) \/ Deconstantify(t) \/ Slowify(t) \/ Deslowify(t)
    \/ HandOver(t)

----------------------------------------------------------------------------
(***************************************************************************)
(* Careful clients know three more rules.  They do not finalize a slow     *)
(* object, whose word is not a count; a -finalize does not release its own *)
(* object; and the references of a finalized object are given back one at  *)
(* a time, none while -finalize runs.                                      *)
(***************************************************************************)

\* past the decrement of a -release
TryLabels == {"try", "mark", "reread", "writeback", "dealloc"}

\* inside tryfinalizetrydealloc, or in a -finalize
Busy(t) == pc[t] \in TryLabels \/ InFinalize(t)

CarefulPerform(t) == rc # SLOW_RELEASE /\ PerformStart(t)

CarefulRelease(t) == ~ InFinalize(t) /\ ReleaseRead(t)

CarefulDecrement(t) ==
    /\ rc < 0 => \A u \in Thread : ~ Busy(u)
    /\ ReleaseDecrement(t)

CarefulStep(t) ==
    \/ Progress(t) \/ Call(t)
    \/ CarefulPerform(t) \/ CarefulRelease(t) \/ CarefulDecrement(t)

Next == \E t \in Thread : CarefulStep(t)

Spec == Init /\ [][Next]_vars

\* a call under way is scheduled, and -finalize returns
FairSpec == Spec /\ \A t \in Thread : WF_vars(Progress(t))

----------------------------------------------------------------------------
(* Properties *)

\* The state is well typed.  That rc stays a word is more than it seems: no
\* increment or decrement may pass over the marks at the ends of the range.
TypeOK ==
    /\ rc \in Word
    /\ owner \in [Ref -> Thread \cup {NoOne}]
    /\ pc \in [Thread -> {"run", "increment", "decrement", "perform", "cas"}
                           \cup TryLabels]
    /\ old \in [Thread -> Word]
    /\ tok \in [Thread -> Ref \cup {NoRef}]
    /\ frames \in [Thread -> Seq({"try", "perform"})]
    /\ finalizes \in Nat
    /\ deallocs \in Nat

\* The retain count __mulle_objc_object_get_retaincount reports is the number
\* of references that are out, before, during and after finalization, for
\* every thread that may ask.
CountIsTrue ==
    (Counted /\ \E t \in Thread : MayMessage(t))
        => RetainCount(rc) = Cardinality(Held)

\* _mulle_objc_object_is_finalized tells whether -finalize was called.
FinalizedIsTrue ==
    (\E t \in Thread : MayMessage(t)) => (IsFinalized(rc) <=> finalizes > 0)

\* -finalize runs at most once ("signal finalized state and running only
\* once"), -dealloc too, and only when -finalize was called and has returned.
FinalizeOnceThenDealloc ==
    /\ finalizes <= 1
    /\ deallocs <= 1
    /\ \A t \in Thread :
         pc[t] \in {"writeback", "dealloc"} => finalizes = 1 /\ ~ InFinalize(t)

\* A thread about to deallocate is alone with the object, as the comment in
\* tryfinalizetrydealloc says ("single threaded(!)"): nobody owns a
\* reference, and no other thread still works on the object's header.
DeallocIsAlone ==
    \A t \in Thread :
        pc[t] \in {"writeback", "dealloc"} =>
            /\ Held = {}
            /\ \A u \in Thread \ {t} : pc[u] = "run" /\ ~ InFinalize(u)

\* Once -dealloc ran no thread owns a reference, runs -finalize or is on its
\* way to the header: the memory is never used again.
NoUseAfterDealloc ==
    deallocs > 0 =>
        /\ Held = {}
        /\ \A t \in Thread : pc[t] = "run" /\ ~ InFinalize(t)

\* When the last reference is given back the object is deallocated, unless
\* -finalize takes a new reference.
LastReleaseDeallocates ==
    (Counted /\ Held = {}) ~> (deallocs = 1 \/ Held # {})

----------------------------------------------------------------------------
(* The inductive invariant behind the safety properties *)

Dead == deallocs > 0 \/ \E t \in Thread : pc[t] = "dealloc"

\* what the header word stands for in each phase of the object's life
WordInv ==
    /\ finalizes \in {0, 1}
    /\ deallocs \in {0, 1}
    /\ Dead => rc = -1 /\ Held = {} /\ finalizes = 1
    /\ ~ Dead /\ finalizes = 0 => ~ Counted \/ rc = Cardinality(Held) - 1
    /\ ~ Dead /\ finalizes = 1 => rc = INTPTR_MIN + Cardinality(Held)

\* a token under way belongs to one thread only
TokenInv ==
    \A t \in Thread :
        /\ pc[t] = "increment" => tok[t] \in Ref /\ owner[tok[t]] = NoOne
        /\ pc[t] = "decrement" => tok[t] \in Ref /\ owner[tok[t]] = t
        /\ pc[t] \notin {"increment", "decrement"} => tok[t] = NoRef
        /\ \A u \in Thread : tok[t] = tok[u] => t = u \/ tok[t] = NoRef

\* a thread in the middle of a call keeps its licence, and no other thread
\* can have been alone with the object
LicenceInv ==
    \A t \in Thread :
        /\ pc[t] # "run" => Counted
        /\ pc[t] = "increment" => OwnedBy(t) # {} \/ InFinalize(t)
        /\ pc[t] \in {"perform", "cas"} => OwnedBy(t) # {}
        /\ pc[t] = "cas" => old[t] >= 0

\* one thread at a time is in tryfinalizetrydealloc or in a -finalize
BusyInv ==
    \A t \in Thread :
        /\ \A u \in Thread : Busy(t) /\ Busy(u) => t = u
        /\ InFinalize(t) => /\ finalizes = 1
                            /\ Len(frames[t]) = 1
                            /\ pc[t] \notin TryLabels \cup {"decrement"}
                            /\ frames[t][1] = "perform" => OwnedBy(t) # {}
        /\ pc[t] = "try" /\ finalizes = 0 => Held = {}
        /\ pc[t] = "mark" => finalizes = 0 /\ Held = {}
        /\ pc[t] \in {"reread", "writeback", "dealloc"} => finalizes = 1
        /\ pc[t] = "writeback" => Held = {}
        /\ deallocs = 1 => pc[t] = "run" /\ ~ InFinalize(t)

\* Header word, tokens, licences and exclusion together: what every step of
\* a careful client preserves.
IInv == TypeOK /\ WordInv /\ TokenInv /\ LicenceInv /\ BusyInv

\* the references fit below INLINE_RELEASE
RefsFit == Cardinality(Ref) <= INLINE_RELEASE
=============================================================================
