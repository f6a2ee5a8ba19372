-------------------------- MODULE ClassSetupProofs --------------------------
(***************************************************************************)
(* For any threads, any finite class hierarchy with any mixins, and any    *)
(* messages sent by +initialize: one thread sets a class up, once, under   *)
(* the lock of its pair, and the counts and caches follow the setup.  If   *)
(* the classes can be ranked so that +initialize messages none above its   *)
(* own, the superclass is messaged first and no threads wait in a circle.  *)
(***************************************************************************)
EXTENDS ClassSetup, FiniteSetTheorems, WellFoundedInduction, TLAPS

----------------------------------------------------------------------------
(* The inductive invariant *)

FrameRecord == [cls : Class, via : Side \cup {"dep"}, pc : Labels, i : Nat, todo : SUBSET Class]

\* the frame of thread t at height b, counted from the outermost one: calls
\* made and finished above it leave it where it is
FrameAt(t, b) == stack[t][Len(stack[t]) + 1 - b]
Pc(t, b)  == FrameAt(t, b).pc
Cls(t, b) == FrameAt(t, b).cls

\* between winning INITIALIZING and setting INITIALIZE_DONE
Mid == {"deps", "empty_meta", "empty_infra", "self", "body", "install_meta",
        "swap_meta", "install_infra", "swap_infra", "done"}

\* a cache of class c is counted, but not installed yet
Swapping(c, side) ==
    \E t \in Thread : \E b \in Depth(t) :
        Cls(t, b) = c /\ Pc(t, b) = IF side = "meta" THEN "swap_meta" ELSE "swap_infra"

\* caches that cachecount_1 counts: installed, or about to be
Counted ==
    {p \in Class \X Side :
        p[1] \notin AlwaysEmpty /\ (p[2] \in ready[p[1]] \/ Swapping(p[1], p[2]))}

StackOK == stack \in [Thread -> Seq(FrameRecord)]

DataOK ==
    /\ lock \in [Class -> Thread \cup {NoThread}]
    /\ thread_id \in [Class -> Thread \cup {NoThread}]
    /\ initializing \subseteq Class
    /\ done \subseteq Class
    /\ cache \in [Class -> [Side -> {"initial", "empty", "real"}]]
    /\ ready \in [Class -> SUBSET Side]
    /\ calls \in 0 .. MaxCalls
    /\ inits \in [Class -> Nat]
    /\ returned \subseteq Class

\* a frame that is not on top is in client code or sets up another class
BelowInv ==
    \A t \in Thread : \A b \in Depth(t) :
        b # Len(stack[t]) => Pc(t, b) \in {"deps", "self", "body"}

\* who is in the locked part of a setup holds the lock, in one frame only
LockInv ==
    /\ \A t \in Thread : \A b \in Depth(t) : Pc(t, b) \in Locked => lock[Cls(t, b)] = t
    /\ \A t \in Thread : \A b, e \in Depth(t) :
          Pc(t, b) \in Locked /\ Pc(t, e) \in Locked /\ Cls(t, b) = Cls(t, e) => b = e
    /\ \A c \in Class : \A t \in Thread :
          lock[c] = t => \E b \in Depth(t) : Cls(t, b) = c /\ Pc(t, b) \in Locked

\* INITIALIZING without INITIALIZE_DONE says that such a frame is in the middle
PhaseInv ==
    /\ done \subseteq initializing
    /\ \A t \in Thread : \A b \in Depth(t) :
          /\ Pc(t, b) \in Mid => Cls(t, b) \in initializing \ done
          /\ Pc(t, b) = "quicker" => Cls(t, b) \in done
          /\ Pc(t, b) \in Locked \ {"locked"} => thread_id[Cls(t, b)] = t
    /\ \A c \in initializing \ done : \E t \in Thread :
          lock[c] = t /\ \E b \in Depth(t) : Cls(t, b) = c /\ Pc(t, b) \in Mid

\* what the frame in the middle has done so far
InitsInv ==
    /\ \A c \in Class : inits[c] \in {0, 1} /\ (inits[c] = 1 => c \in initializing \ IsMixin)
    /\ \A t \in Thread : \A b \in Depth(t) :
          /\ Pc(t, b) \in {"deps", "empty_meta", "empty_infra", "self"} => inits[Cls(t, b)] = 0
          /\ Pc(t, b) \in {"self", "body"} => Cls(t, b) \notin IsMixin
          /\ Pc(t, b) \in {"install_meta", "swap_meta", "install_infra", "swap_infra", "done"}
                => Cls(t, b) \in returned \cup IsMixin
          /\ Pc(t, b) \in {"swap_meta", "swap_infra"} => Cls(t, b) \notin AlwaysEmpty

CacheInv ==
    /\ RealCacheAfterInitialize
    /\ \A c \in Class : \A side \in Side :
          cache[c][side] = "real" => side \in ready[c] /\ c \notin AlwaysEmpty
    /\ cachecount = Cardinality(Counted)

IInv == StackOK /\ DataOK /\ BelowInv /\ LockInv /\ PhaseInv /\ InitsInv /\ CacheInv

----------------------------------------------------------------------------
(* What the steps do to the stack of a thread *)

\* The top of a stack is exchanged.
LEMMA SeqReplaceTop ==
    ASSUME NEW S, NEW s \in Seq(S), s # <<>>, NEW f \in S
    PROVE  /\ <<f>> \o Tail(s) \in Seq(S)
           /\ Len(<<f>> \o Tail(s)) = Len(s) /\ Len(s) \in Nat \ {0}
           /\ (<<f>> \o Tail(s))[1] = f
           /\ \A d \in 2 .. Len(s) : (<<f>> \o Tail(s))[d] = s[d]
  OBVIOUS

\* A frame is pushed,
LEMMA SeqPush ==
    ASSUME NEW S, NEW s \in Seq(S), NEW f \in S
    PROVE  /\ <<f>> \o s \in Seq(S)
           /\ Len(<<f>> \o s) = Len(s) + 1 /\ Len(s) \in Nat
           /\ (<<f>> \o s)[1] = f
           /\ \A d \in 1 .. Len(s) : (<<f>> \o s)[d + 1] = s[d]
  OBVIOUS

\* or the top is exchanged and another one pushed over it,
LEMMA SeqPushOver ==
    ASSUME NEW S, NEW s \in Seq(S), s # <<>>, NEW f \in S, NEW g \in S
    PROVE  /\ <<f, g>> \o Tail(s) \in Seq(S)
           /\ Len(<<f, g>> \o Tail(s)) = Len(s) + 1 /\ Len(s) \in Nat \ {0}
           /\ (<<f, g>> \o Tail(s))[1] = f /\ (<<f, g>> \o Tail(s))[2] = g
           /\ \A d \in 2 .. Len(s) : (<<f, g>> \o Tail(s))[d + 1] = s[d]
  OBVIOUS

\* or the top is popped.
LEMMA SeqPop ==
    ASSUME NEW S, NEW s \in Seq(S), s # <<>>
    PROVE  /\ Tail(s) \in Seq(S)
           /\ Len(Tail(s)) = Len(s) - 1 /\ Len(s) \in Nat \ {0}
           /\ \A d \in 1 .. Len(s) - 1 : Tail(s)[d] = s[d + 1]
  OBVIOUS

\* the height of the stack, and the label and class on top of it
Height(t) == Len(stack[t])

\* the frames of thread t up to height h stay as they are, but for what they
\* still have to do
Kept(t, h) == \A b \in 1 .. h : Pc(t, b)' = Pc(t, b) /\ Cls(t, b)' = Cls(t, b)

\* thread t goes to label pc, calls, or returns
Moved(t, pc) ==
    /\ Height(t) \in Nat \ {0} /\ Height(t)' = Height(t) /\ Kept(t, Height(t) - 1)
    /\ Pc(t, Height(t))' = pc /\ Cls(t, Height(t))' = Cls(t, Height(t))
Called(t, pc) ==
    /\ Height(t) \in Nat /\ Height(t)' = Height(t) + 1 /\ Kept(t, Height(t))
    /\ Pc(t, Height(t))' = pc
Returned(t) ==
    /\ Height(t) \in Nat \ {0} /\ Height(t)' = Height(t) - 1 /\ Kept(t, Height(t) - 1)

OthersKept(t) ==
    \A u \in Thread \ {t} : stack'[u] = stack[u]

\* The top frame is the one at the height of the stack.
LEMMA TopFrame ==
    ASSUME StackOK, NEW t \in Thread, stack[t] # <<>>
    PROVE  /\ Top(t) = FrameAt(t, Height(t)) /\ Top(t) \in FrameRecord
           /\ Height(t) \in Nat \ {0} /\ Height(t) \in Depth(t)
  BY DEF StackOK, Top, FrameAt, Height, Depth

\* What Replace, Goto, Push and their like do in terms of single frames
LEMMA ReplaceMoves ==
    ASSUME StackOK, NEW t \in Thread, stack[t] # <<>>, NEW f \in FrameRecord,
           f.cls = Top(t).cls, Replace(t, f)
    PROVE  StackOK' /\ OthersKept(t) /\ Moved(t, f.pc)
  <1>1. /\ stack[t] \in Seq(FrameRecord)
        /\ stack'[t] = <<f>> \o Tail(stack[t])
        /\ \A u \in Thread \ {t} : stack'[u] = stack[u] /\ stack[u] \in Seq(FrameRecord)
        /\ stack' = [u \in Thread |-> stack'[u]]
    BY DEF StackOK, Replace
  <1>2. /\ stack'[t] \in Seq(FrameRecord) /\ Len(stack'[t]) = Len(stack[t])
        /\ Len(stack[t]) \in Nat \ {0}
        /\ stack'[t][1] = f /\ \A d \in 2 .. Len(stack[t]) : stack'[t][d] = stack[t][d]
    BY <1>1, SeqReplaceTop
  <1>3. StackOK'
    BY <1>1, <1>2 DEF StackOK
  <1>4. FrameAt(t, Height(t))' = f /\ Top(t) = FrameAt(t, Height(t))
    BY <1>2, TopFrame DEF FrameAt, Height
  <1>5. \A b \in 1 .. Height(t) - 1 : FrameAt(t, b)' = FrameAt(t, b)
    BY <1>2 DEF FrameAt, Height
  <1>6. Height(t)' = Height(t) /\ Height(t) \in Nat \ {0}
    BY <1>2 DEF Height
  <1>. QED
    BY <1>1, <1>3, <1>4, <1>5, <1>6 DEF OthersKept, Moved, Kept, Pc, Cls

\* Goto is a move of the top frame.
LEMMA GotoMoves ==
    ASSUME StackOK, NEW t \in Thread, stack[t] # <<>>, NEW pc \in Labels, Goto(t, pc)
    PROVE  StackOK' /\ OthersKept(t) /\ Moved(t, pc)
  <1>. DEFINE f == [Top(t) EXCEPT !.pc = pc]
  <1>1. Top(t) \in FrameRecord
    BY TopFrame
  <1>2. f \in FrameRecord /\ f.cls = Top(t).cls /\ f.pc = pc
    BY <1>1 DEF FrameRecord
  <1>3. Replace(t, f)
    BY DEF Goto
  <1>. HIDE DEF f
  <1>. QED
    BY <1>2, <1>3, ReplaceMoves

\* Push is a call.
LEMMA PushCalls ==
    ASSUME StackOK, NEW t \in Thread, NEW f \in FrameRecord, Push(t, f)
    PROVE  StackOK' /\ OthersKept(t) /\ Called(t, f.pc)
  <1>1. /\ stack[t] \in Seq(FrameRecord)
        /\ stack'[t] = <<f>> \o stack[t]
        /\ \A u \in Thread \ {t} : stack'[u] = stack[u] /\ stack[u] \in Seq(FrameRecord)
        /\ stack' = [u \in Thread |-> stack'[u]]
    BY DEF StackOK, Push
  <1>2. /\ stack'[t] \in Seq(FrameRecord) /\ Len(stack'[t]) = Len(stack[t]) + 1
        /\ Len(stack[t]) \in Nat
        /\ stack'[t][1] = f /\ \A d \in 1 .. Len(stack[t]) : stack'[t][d + 1] = stack[t][d]
    BY <1>1, SeqPush
  <1>3. StackOK'
    BY <1>1, <1>2 DEF StackOK
  <1>4. FrameAt(t, Height(t))' = f
    BY <1>2 DEF FrameAt, Height
  <1>5. \A b \in 1 .. Height(t) : FrameAt(t, b)' = FrameAt(t, b)
    <2>. TAKE b \in 1 .. Height(t)
    <2>1. Len(stack[t]) + 1 - b \in 1 .. Len(stack[t])
      BY <1>2 DEF Height
    <2>2. Len(stack'[t]) + 1 - b = (Len(stack[t]) + 1 - b) + 1
      BY <1>2 DEF Height
    <2>. QED
      BY <1>2, <2>1, <2>2 DEF FrameAt
  <1>6. Height(t)' = Height(t) + 1 /\ Height(t) \in Nat
    BY <1>2 DEF Height
  <1>. QED
    BY <1>1, <1>3, <1>4, <1>5, <1>6 DEF OthersKept, Called, Kept, Pc, Cls

\* A call that changes the caller's frame on the way
LEMMA PushOverCalls ==
    ASSUME StackOK, NEW t \in Thread, stack[t] # <<>>,
           NEW f \in FrameRecord, NEW g \in FrameRecord,
           g.cls = Top(t).cls, g.pc = Top(t).pc,
           stack' = [stack EXCEPT ![t] = <<f, g>> \o Tail(@)]
    PROVE  StackOK' /\ OthersKept(t) /\ Called(t, f.pc)
  <1>1. /\ stack[t] \in Seq(FrameRecord)
        /\ stack'[t] = <<f, g>> \o Tail(stack[t])
        /\ \A u \in Thread \ {t} : stack'[u] = stack[u] /\ stack[u] \in Seq(FrameRecord)
        /\ stack' = [u \in Thread |-> stack'[u]]
    BY DEF StackOK
  <1>2. /\ stack'[t] \in Seq(FrameRecord) /\ Len(stack'[t]) = Len(stack[t]) + 1
        /\ Len(stack[t]) \in Nat \ {0}
        /\ stack'[t][1] = f /\ stack'[t][2] = g
        /\ \A d \in 2 .. Len(stack[t]) : stack'[t][d + 1] = stack[t][d]
    BY <1>1, SeqPushOver
  <1>3. StackOK'
    BY <1>1, <1>2 DEF StackOK
  <1>4. FrameAt(t, Height(t))' = f
    BY <1>2 DEF FrameAt, Height
  <1>5. ASSUME NEW b \in 1 .. Height(t)
        PROVE  Pc(t, b)' = Pc(t, b) /\ Cls(t, b)' = Cls(t, b)
    <2>1. CASE b = Height(t)
      <3>1. FrameAt(t, b) = Top(t)
        BY <2>1, TopFrame
      <3>2. FrameAt(t, b)' = g
        BY <1>2, <2>1 DEF FrameAt, Height
      <3>. QED
        BY <3>1, <3>2 DEF Pc, Cls
    <2>2. CASE b # Height(t)
      <3>1. Len(stack[t]) + 1 - b \in 2 .. Len(stack[t])
        BY <1>2, <2>2 DEF Height
      <3>2. Len(stack'[t]) + 1 - b = (Len(stack[t]) + 1 - b) + 1
        BY <1>2 DEF Height
      <3>. QED
        BY <1>2, <3>1, <3>2 DEF FrameAt, Pc, Cls
    <2>. QED
      BY <2>1, <2>2
  <1>6. Height(t)' = Height(t) + 1 /\ Height(t) \in Nat
    BY <1>2 DEF Height
  <1>. QED
    BY <1>1, <1>3, <1>4, <1>5, <1>6 DEF OthersKept, Called, Kept, Pc

\* Dropping the top is a return.
LEMMA PopReturns ==
    ASSUME StackOK, NEW t \in Thread, stack[t] # <<>>,
           stack' = [stack EXCEPT ![t] = Tail(@)]
    PROVE  StackOK' /\ OthersKept(t) /\ Returned(t)
  <1>1. /\ stack[t] \in Seq(FrameRecord)
        /\ stack'[t] = Tail(stack[t])
        /\ \A u \in Thread \ {t} : stack'[u] = stack[u] /\ stack[u] \in Seq(FrameRecord)
        /\ stack' = [u \in Thread |-> stack'[u]]
    BY DEF StackOK
  <1>2. /\ stack'[t] \in Seq(FrameRecord) /\ Len(stack'[t]) = Len(stack[t]) - 1
        /\ Len(stack[t]) \in Nat \ {0}
        /\ \A d \in 1 .. Len(stack[t]) - 1 : stack'[t][d] = stack[t][d + 1]
    BY <1>1, SeqPop
  <1>3. StackOK'
    BY <1>1, <1>2 DEF StackOK
  <1>4. \A b \in 1 .. Height(t) - 1 : FrameAt(t, b)' = FrameAt(t, b)
    <2>. TAKE b \in 1 .. Height(t) - 1
    <2>1. Len(stack[t]) - b \in 1 .. Len(stack[t]) - 1
      BY <1>2 DEF Height
    <2>2. Len(stack'[t]) + 1 - b = Len(stack[t]) - b /\ Len(stack[t]) + 1 - b = (Len(stack[t]) - b) + 1
      BY <1>2 DEF Height
    <2>. QED
      BY <1>2, <2>1, <2>2 DEF FrameAt
  <1>5. Height(t)' = Height(t) - 1 /\ Height(t) \in Nat \ {0}
    BY <1>2 DEF Height
  <1>. QED
    BY <1>1, <1>3, <1>4, <1>5 DEF OthersKept, Returned, Kept, Pc, Cls

\* Frame by frame: what is different after each kind of step.
LEMMA MovedFrames ==
    ASSUME StackOK, NEW t \in Thread, NEW pc, OthersKept(t), Moved(t, pc)
    PROVE  \A u \in Thread :
             /\ Depth(u)' = Depth(u) /\ Height(u)' = Height(u)
             /\ \A b \in Depth(u) :
                   /\ Cls(u, b)' = Cls(u, b)
                   /\ Pc(u, b)' = IF u = t /\ b = Height(t) THEN pc ELSE Pc(u, b)
  <1>. TAKE u \in Thread
  <1>1. CASE u # t
    BY <1>1 DEF OthersKept, Depth, Height, Cls, Pc, FrameAt
  <1>2. CASE u = t
    <2>1. Height(u)' = Height(u) /\ Depth(u)' = Depth(u) /\ Depth(u) = 1 .. Height(u)
      BY <1>2 DEF Moved, Depth, Height
    <2>2. ASSUME NEW b \in Depth(u)
          PROVE  /\ Cls(u, b)' = Cls(u, b)
                 /\ Pc(u, b)' = IF b = Height(t) THEN pc ELSE Pc(u, b)
      <3>1. CASE b = Height(t)
        <4>1. /\ Pc(t, b)' = Pc(t, Height(t))' /\ Cls(t, b)' = Cls(t, Height(t))'
          BY <2>1, <3>1, <1>2 DEF Pc, Cls, FrameAt
        <4>. QED
          BY <1>2, <3>1, <4>1 DEF Moved
      <3>2. CASE b # Height(t)
        <4>1. b \in 1 .. Height(t) - 1
          BY <1>2, <2>1, <3>2 DEF Moved
        <4>. QED
          BY <1>2, <3>2, <4>1 DEF Moved, Kept
      <3>. QED
        BY <3>1, <3>2
    <2>. QED
      BY <1>2, <2>1, <2>2
  <1>. QED
    BY <1>1, <1>2

\* The frames after a call
LEMMA CalledFrames ==
    ASSUME StackOK, NEW t \in Thread, NEW pc, OthersKept(t), Called(t, pc)
    PROVE  /\ \A u \in Thread :
                /\ u # t => Depth(u)' = Depth(u) /\ Height(u)' = Height(u)
                /\ \A b \in Depth(u) : Cls(u, b)' = Cls(u, b) /\ Pc(u, b)' = Pc(u, b)
           /\ \E h \in Nat : /\ h = Height(t) + 1 /\ Height(t)' = h
                             /\ Depth(t)' = Depth(t) \cup {h} /\ h \notin Depth(t)
                             /\ Pc(t, h)' = pc
  <1>1. /\ Height(t) \in Nat /\ Height(t)' = Height(t) + 1
        /\ Depth(t) = 1 .. Height(t) /\ Depth(t)' = 1 .. Height(t)'
    BY DEF Called, Depth, Height
  <1>2. ASSUME NEW u \in Thread, u # t
        PROVE  /\ Depth(u)' = Depth(u) /\ Height(u)' = Height(u)
               /\ \A b \in Depth(u) : Cls(u, b)' = Cls(u, b) /\ Pc(u, b)' = Pc(u, b)
    BY <1>2 DEF OthersKept, Depth, Height, Cls, Pc, FrameAt
  <1>3. \A b \in Depth(t) : Cls(t, b)' = Cls(t, b) /\ Pc(t, b)' = Pc(t, b)
    BY <1>1 DEF Called, Kept
  <1>4. \A h \in Nat : h = Height(t)' => Pc(t, h)' = pc
    BY DEF Called, Pc, FrameAt
  <1>5. /\ Height(t) + 1 \in Nat /\ Depth(t)' = Depth(t) \cup {Height(t) + 1}
        /\ Height(t) + 1 \notin Depth(t)
    BY <1>1
  <1>. QED
    BY <1>1, <1>2, <1>3, <1>4, <1>5

\* The frames after a return
LEMMA ReturnedFrames ==
    ASSUME StackOK, NEW t \in Thread, OthersKept(t), Returned(t)
    PROVE  /\ \A u \in Thread :
                /\ u # t => Depth(u)' = Depth(u) /\ Height(u)' = Height(u)
                /\ Depth(u)' \subseteq Depth(u)
                /\ \A b \in Depth(u)' : Cls(u, b)' = Cls(u, b) /\ Pc(u, b)' = Pc(u, b)
           /\ Depth(t)' = Depth(t) \ {Height(t)} /\ Height(t) \notin Depth(t)'
           /\ Height(t) \in Depth(t)
  <1>1. /\ Height(t) \in Nat \ {0} /\ Height(t)' = Height(t) - 1
        /\ Depth(t) = 1 .. Height(t) /\ Depth(t)' = 1 .. Height(t)'
    BY DEF Returned, Depth, Height
  <1>2. ASSUME NEW u \in Thread, u # t
        PROVE  /\ Depth(u)' = Depth(u) /\ Height(u)' = Height(u)
               /\ \A b \in Depth(u) : Cls(u, b)' = Cls(u, b) /\ Pc(u, b)' = Pc(u, b)
    BY <1>2 DEF OthersKept, Depth, Height, Cls, Pc, FrameAt
  <1>3. \A b \in Depth(t)' : Cls(t, b)' = Cls(t, b) /\ Pc(t, b)' = Pc(t, b)
    BY <1>1 DEF Returned, Kept
  <1>4. /\ Depth(t)' = Depth(t) \ {Height(t)} /\ Height(t) \notin Depth(t)'
        /\ Height(t) \in Depth(t)
    BY <1>1
  <1>. QED
    BY <1>2, <1>3, <1>4

\* A thread at a label is there with its top frame.
LEMMA AtTop ==
    ASSUME StackOK, NEW t \in Thread, NEW pc, NEW c, At(t, pc, c)
    PROVE  /\ stack[t] # <<>> /\ Top(t) \in FrameRecord
           /\ Height(t) \in Nat \ {0} /\ Height(t) \in Depth(t)
           /\ Pc(t, Height(t)) = pc /\ Cls(t, Height(t)) = c
  BY TopFrame DEF At, Pc, Cls

----------------------------------------------------------------------------
(* Steps that only move on: the shared memory stays as it is *)

FrameInv == BelowInv /\ LockInv /\ PhaseInv /\ InitsInv

Untouched == <<lock, thread_id, initializing, done, cache, ready, cachecount, inits, returned>>

\* Calling out, for a message or for the setup of another class.
LEMMA QuietCall ==
    ASSUME StackOK, DataOK, FrameInv, CacheInv, NEW t \in Thread,
           NEW pc \in {"check", "method"}, OthersKept(t), Called(t, pc), UNCHANGED Untouched,
           stack[t] # <<>> => Pc(t, Height(t)) \in {"deps", "self", "body"}
    PROVE  FrameInv' /\ CacheInv'
  <1>1. PICK h \in Nat : /\ h = Height(t) + 1 /\ Height(t)' = h
                         /\ Depth(t)' = Depth(t) \cup {h} /\ h \notin Depth(t)
                         /\ Pc(t, h)' = pc
    BY CalledFrames
  <1>2. \A u \in Thread :
          /\ u # t => Depth(u)' = Depth(u) /\ Height(u)' = Height(u)
          /\ \A b \in Depth(u) : Cls(u, b)' = Cls(u, b) /\ Pc(u, b)' = Pc(u, b)
    BY CalledFrames
  <1>3. \A u \in Thread : \A b \in Depth(u)' :
          \/ b \in Depth(u) /\ Cls(u, b)' = Cls(u, b) /\ Pc(u, b)' = Pc(u, b)
          \/ u = t /\ b = h /\ Pc(u, b)' \in {"check", "method"}
    BY <1>1, <1>2
  <1>4. BelowInv'
    <2>. SUFFICES ASSUME NEW u \in Thread, NEW b \in Depth(u)', b # Height(u)'
                  PROVE  Pc(u, b)' \in {"deps", "self", "body"}
      BY DEF BelowInv, Height
    <2>1. CASE u # t
      BY <1>2, <2>1 DEF FrameInv, BelowInv, Height
    <2>2. CASE u = t
      <3>1. b \in Depth(t) /\ Pc(u, b)' = Pc(t, b)
        BY <1>1, <1>2, <2>2
      <3>2. stack[t] # <<>>
        BY <3>1 DEF Depth
      <3>. QED
        BY <3>1, <3>2 DEF FrameInv, BelowInv, Height
    <2>. QED
      BY <2>1, <2>2
  <1>. USE DEF Untouched
  <1>5. LockInv'
    <2>1. \A c \in Class : lock[c] # NoThread => lock[c] \in Thread
      BY DEF DataOK
    <2>2. \A u \in Thread : Depth(u) \subseteq Depth(u)'
      BY <1>1, <1>2
    <2>. QED
      BY <1>2, <1>3, <2>1, <2>2 DEF FrameInv, LockInv, Locked
  <1>6. PhaseInv'
    <2>1. \A c \in Class : lock[c] # NoThread => lock[c] \in Thread
      BY DEF DataOK
    <2>2. \A u \in Thread : Depth(u) \subseteq Depth(u)'
      BY <1>1, <1>2
    <2>. QED
      BY <1>2, <1>3, <2>1, <2>2 DEF FrameInv, PhaseInv, Locked, Mid, DataOK
  <1>7. InitsInv'
    BY <1>3 DEF FrameInv, InitsInv
  <1>8. Counted' = Counted
    <2>1. \A u \in Thread : Depth(u) \subseteq Depth(u)'
      BY <1>1, <1>2
    <2>2. ASSUME NEW c, NEW side PROVE Swapping(c, side)' <=> Swapping(c, side)
      BY <1>2, <1>3, <2>1 DEF Swapping
    <2>. QED
      BY <2>2 DEF Counted
  <1>. QED
    BY <1>4, <1>5, <1>6, <1>7, <1>8 DEF FrameInv, CacheInv, RealCacheAfterInitialize

\* Returning from a method, or from the setup of a class that needs none.
LEMMA QuietReturn ==
    ASSUME StackOK, DataOK, FrameInv, CacheInv, NEW t \in Thread,
           OthersKept(t), Returned(t), UNCHANGED Untouched,
           Pc(t, Height(t)) \in {"method", "owner"}
    PROVE  FrameInv' /\ CacheInv'
  <1>1. /\ \A u \in Thread :
             /\ u # t => Depth(u)' = Depth(u) /\ Height(u)' = Height(u)
             /\ Depth(u)' \subseteq Depth(u)
             /\ \A b \in Depth(u)' : Cls(u, b)' = Cls(u, b) /\ Pc(u, b)' = Pc(u, b)
        /\ Depth(t)' = Depth(t) \ {Height(t)}
    BY ReturnedFrames
  <1>2. \A u \in Thread : \A b \in Depth(u) : b \in Depth(u)' \/ (u = t /\ b = Height(t))
    BY <1>1
  <1>3. BelowInv'
    BY <1>1 DEF FrameInv, BelowInv, Height
  <1>. USE DEF Untouched
  <1>4. \A c \in Class : lock[c] # NoThread => lock[c] \in Thread
    BY DEF DataOK
  <1>5. LockInv'
    BY <1>1, <1>2, <1>4 DEF FrameInv, LockInv, Locked
  <1>6. PhaseInv'
    BY <1>1, <1>2, <1>4 DEF FrameInv, PhaseInv, Locked, Mid, DataOK
  <1>7. InitsInv'
    BY <1>1 DEF FrameInv, InitsInv
  <1>8. Counted' = Counted
    <2>1. ASSUME NEW c, NEW side PROVE Swapping(c, side)' <=> Swapping(c, side)
      BY <1>1, <1>2 DEF Swapping
    <2>. QED
      BY <2>1 DEF Counted
  <1>. QED
    BY <1>3, <1>5, <1>6, <1>7, <1>8 DEF FrameInv, CacheInv, RealCacheAfterInitialize

----------------------------------------------------------------------------
(* Steps that go from one label to the next *)

\* thread t moves its frame at height h, on top, from label p to label q
MovesTo(t, h, p, c, q) ==
    /\ h \in Depth(t) /\ h = Height(t) /\ Pc(t, h) = p /\ Cls(t, h) = c
    /\ \A u \in Thread :
          /\ Depth(u)' = Depth(u) /\ Height(u)' = Height(u)
          /\ \A b \in Depth(u) : /\ Cls(u, b)' = Cls(u, b)
                                 /\ Pc(u, b)' = IF u = t /\ b = h THEN q ELSE Pc(u, b)

\* A goto is such a move.
LEMMA GotoMovesTo ==
    ASSUME StackOK, NEW t \in Thread, NEW p, NEW c, At(t, p, c), NEW q \in Labels, Goto(t, q)
    PROVE  StackOK' /\ \E h \in Nat : MovesTo(t, h, p, c, q)
  <1>1. /\ stack[t] # <<>> /\ Height(t) \in Nat /\ Height(t) \in Depth(t)
        /\ Pc(t, Height(t)) = p /\ Cls(t, Height(t)) = c
    BY AtTop
  <1>2. StackOK' /\ OthersKept(t) /\ Moved(t, q)
    BY <1>1, GotoMoves
  <1>3. \A u \in Thread :
             /\ Depth(u)' = Depth(u) /\ Height(u)' = Height(u)
             /\ \A b \in Depth(u) :
                   /\ Cls(u, b)' = Cls(u, b)
                   /\ Pc(u, b)' = IF u = t /\ b = Height(t) THEN q ELSE Pc(u, b)
    BY <1>2, MovedFrames
  <1>4. PICK h \in Nat : h = Height(t)
    BY <1>1
  <1>. QED
    BY <1>1, <1>2, <1>3, <1>4 DEF MovesTo

\* A class is being set up in one frame of one thread.
LEMMA LockedOnce ==
    ASSUME LockInv, NEW t \in Thread, NEW h \in Depth(t), Pc(t, h) \in Locked,
           NEW u \in Thread, NEW b \in Depth(u), Pc(u, b) \in Locked, Cls(u, b) = Cls(t, h)
    PROVE  u = t /\ b = h
  <1>1. u = t
    BY DEF LockInv
  <1>. QED
    BY <1>1 DEF LockInv

\* A move does not touch the frames below the top.
LEMMA MoveBelow ==
    ASSUME BelowInv, NEW t \in Thread, NEW h, NEW p, NEW c, NEW q, MovesTo(t, h, p, c, q)
    PROVE  BelowInv'
  <1>1. \A u \in Thread : \A b \in Depth(u) : b # Height(u) => Pc(u, b) \in {"deps", "self", "body"}
    BY DEF BelowInv, Height
  <1>2. \A u \in Thread : \A b \in Depth(u)' : b # Height(u)' => Pc(u, b)' \in {"deps", "self", "body"}
    BY <1>1 DEF MovesTo
  <1>. QED
    BY <1>2 DEF BelowInv, Height

\* A move within, or outside of, the locked part keeps the locks right.
LEMMA MoveLock ==
    ASSUME DataOK, LockInv, NEW t \in Thread, NEW h, NEW p, NEW c, NEW q, MovesTo(t, h, p, c, q),
           p \in Locked <=> q \in Locked, UNCHANGED lock
    PROVE  LockInv'
  <1>1. \A u \in Thread : /\ Depth(u)' = Depth(u)
                          /\ \A b \in Depth(u) : /\ Cls(u, b)' = Cls(u, b)
                                                 /\ Pc(u, b)' \in Locked <=> Pc(u, b) \in Locked
    BY DEF MovesTo
  <1>2. \A d \in Class : lock[d] # NoThread => lock[d] \in Thread
    BY DEF DataOK
  <1>. QED
    BY <1>1, <1>2 DEF LockInv

\* A move within one phase of setup
LEMMA MovePhase ==
    ASSUME DataOK, PhaseInv, NEW t \in Thread, NEW h, NEW p, NEW c, NEW q, MovesTo(t, h, p, c, q),
           p \in Mid <=> q \in Mid, q # "quicker",
           q \in Locked \ {"locked"} => p \in Locked \ {"locked"},
           UNCHANGED <<lock, thread_id, initializing, done>>
    PROVE  PhaseInv'
  <1>1. \A u \in Thread : /\ Depth(u)' = Depth(u)
                          /\ \A b \in Depth(u) :
                               /\ Cls(u, b)' = Cls(u, b)
                               /\ Pc(u, b)' \in Mid <=> Pc(u, b) \in Mid
                               /\ Pc(u, b)' = "quicker" => Pc(u, b) = "quicker"
                               /\ Pc(u, b)' \in Locked \ {"locked"} => Pc(u, b) \in Locked \ {"locked"}
    BY DEF MovesTo
  <1>2. \A d \in Class : lock[d] # NoThread => lock[d] \in Thread
    BY DEF DataOK
  <1>3. initializing \subseteq Class
    BY DEF DataOK
  <1>. QED
    BY <1>1, <1>2, <1>3 DEF PhaseInv

\* A move that counts no +initialize
LEMMA MoveInits ==
    ASSUME InitsInv, NEW t \in Thread, NEW h, NEW p, NEW c, NEW q, MovesTo(t, h, p, c, q),
           q \in {"deps", "empty_meta", "empty_infra", "self"} => inits[c] = 0,
           q \in {"self", "body"} => c \notin IsMixin,
           q \in {"install_meta", "swap_meta", "install_infra", "swap_infra", "done"}
                => c \in returned' \cup IsMixin,
           q \in {"swap_meta", "swap_infra"} => c \notin AlwaysEmpty,
           UNCHANGED inits, returned \subseteq returned', initializing \subseteq initializing'
    PROVE  InitsInv'
  <1>1. \A d \in Class : inits'[d] \in {0, 1} /\ (inits'[d] = 1 => d \in initializing' \ IsMixin)
    BY DEF InitsInv
  <1>2. ASSUME NEW u \in Thread, NEW b \in Depth(u)'
        PROVE /\ Pc(u, b)' \in {"deps", "empty_meta", "empty_infra", "self"} => inits[Cls(u, b)'] = 0
              /\ Pc(u, b)' \in {"self", "body"} => Cls(u, b)' \notin IsMixin
              /\ Pc(u, b)' \in {"install_meta", "swap_meta", "install_infra", "swap_infra", "done"}
                   => Cls(u, b)' \in returned' \cup IsMixin
              /\ Pc(u, b)' \in {"swap_meta", "swap_infra"} => Cls(u, b)' \notin AlwaysEmpty
    <2>1. b \in Depth(u) /\ Cls(u, b)' = Cls(u, b)
      BY DEF MovesTo
    <2>2. CASE u = t /\ b = h
      BY <2>1, <2>2 DEF MovesTo
    <2>3. CASE ~(u = t /\ b = h)
      <3>1. Pc(u, b)' = Pc(u, b)
        BY <2>1, <2>3 DEF MovesTo
      <3>. QED
        BY <2>1, <3>1 DEF InitsInv
    <2>. QED
      BY <2>2, <2>3
  <1>. QED
    BY <1>1, <1>2 DEF InitsInv

\* A move outside of the installation of caches
LEMMA MoveCounted ==
    ASSUME NEW t \in Thread, NEW h, NEW p, NEW c, NEW q, MovesTo(t, h, p, c, q),
           p \notin {"swap_meta", "swap_infra"}, q \notin {"swap_meta", "swap_infra"}
    PROVE  \A d, side : Swapping(d, side)' <=> Swapping(d, side)
  BY DEF MovesTo, Swapping

\* A move that writes no shared variable keeps all parts of the invariant.
LEMMA QuietMove ==
    ASSUME DataOK, FrameInv, CacheInv, NEW t \in Thread, NEW h, NEW p, NEW c, NEW q,
           MovesTo(t, h, p, c, q), UNCHANGED Untouched,
           <<p, q>> \in {<<"check", "owner">>, <<"check", "lock">>, <<"owner", "lock">>,
                         <<"owner", "method">>, <<"quicker", "unlock">>, <<"deps", "deps">>,
                         <<"deps", "empty_meta">>}
    PROVE  FrameInv' /\ CacheInv'
  <1>. USE DEF Untouched
  <1>1. BelowInv'
    BY MoveBelow DEF FrameInv
  <1>2. LockInv'
    <2>1. p \in Locked <=> q \in Locked
      BY DEF Locked
    <2>. QED
      BY <2>1, MoveLock DEF FrameInv
  <1>3. PhaseInv'
    <2>1. /\ p \in Mid <=> q \in Mid
          /\ q # "quicker" /\ (q \in Locked \ {"locked"} => p \in Locked \ {"locked"})
      BY DEF Locked, Mid
    <2>. QED
      BY <2>1, MovePhase DEF FrameInv
  <1>4. InitsInv'
    <2>1. q \in {"deps", "empty_meta", "empty_infra", "self"} => inits[c] = 0
      BY DEF FrameInv, InitsInv, MovesTo
    <2>2. q \notin {"self", "body", "install_meta", "swap_meta", "install_infra", "swap_infra", "done"}
      OBVIOUS
    <2>. QED
      BY <2>1, <2>2, MoveInits DEF FrameInv
  <1>5. \A d, side : Swapping(d, side)' <=> Swapping(d, side)
    <2>1. p \notin {"swap_meta", "swap_infra"} /\ q \notin {"swap_meta", "swap_infra"}
      OBVIOUS
    <2>. QED
      BY <2>1, MoveCounted
  <1>6. Counted' = Counted
    BY <1>5 DEF Counted
  <1>. QED
    BY <1>1, <1>2, <1>3, <1>4, <1>6 DEF FrameInv, CacheInv, RealCacheAfterInitialize

----------------------------------------------------------------------------
(* The steps that leave the shared memory alone *)

\* New frames are frames.
LEMMA NewFrame ==
    ASSUME NEW c \in Class, NEW via \in Side \cup {"dep"}, NEW pc \in Labels
    PROVE  Frame(c, via, pc) \in FrameRecord /\ Frame(c, via, pc).pc = pc
  BY ClassAssumption DEF Frame, FrameRecord

\* A message goes to the setup of its class or to the method.
LEMMA Dispatched ==
    ASSUME NEW c \in Class, NEW via \in Side
    PROVE  Dispatch(c, via) \in FrameRecord /\ Dispatch(c, via).pc \in {"check", "method"}
  <1>. DEFINE pc == IF cache[c][via] = "initial" THEN "check" ELSE "method"
  <1>1. pc \in Labels /\ pc \in {"check", "method"}
    BY DEF Labels
  <1>. HIDE DEF pc
  <1>2. Frame(c, via, pc) \in FrameRecord /\ Frame(c, via, pc).pc = pc
    BY <1>1, NewFrame
  <1>3. Dispatch(c, via) = Frame(c, via, pc)
    BY DEF Dispatch, pc
  <1>. QED
    BY <1>1, <1>2, <1>3

\* A message from outside.
LEMMA MessageStep ==
    ASSUME IInv, NEW t \in Thread, NEW c \in Class, NEW via \in Side, Message(t, c, via)
    PROVE  IInv'
  <1>1. StackOK' /\ OthersKept(t) /\ Called(t, Dispatch(c, via).pc)
    BY Dispatched, PushCalls DEF IInv, Message
  <1>2. UNCHANGED Untouched /\ stack[t] = <<>>
    BY DEF Untouched, Message, bits, caching
  <1>3. FrameInv' /\ CacheInv'
    BY <1>1, <1>2, Dispatched, QuietCall DEF IInv, FrameInv
  <1>4. DataOK'
    BY <1>2, CallsAssumption DEF IInv, DataOK, Untouched, Message
  <1>. QED
    BY <1>1, <1>3, <1>4 DEF IInv, FrameInv

\* A message is sent from +initialize or from a method.
LEMMA SendStep ==
    ASSUME IInv, NEW t \in Thread, NEW c \in Class, Send(t, c)
    PROVE  IInv'
  <1>1. PICK pc \in {"self", "body"} : At(t, pc, c)
    BY DEF Send
  <1>2. /\ stack[t] # <<>> /\ Top(t) \in FrameRecord
        /\ Pc(t, Height(t)) = pc
    BY <1>1, AtTop DEF IInv
  <1>3. PICK d \in Top(t).todo :
          stack' = [stack EXCEPT ![t] = <<Dispatch(d, "meta"),
                              [Top(t) EXCEPT !.todo = Top(t).todo \ {d}]>> \o Tail(@)]
    BY DEF Send
  <1>. DEFINE f == Dispatch(d, "meta")
              g == [Top(t) EXCEPT !.todo = Top(t).todo \ {d}]
  <1>4. d \in Class
    BY <1>2 DEF FrameRecord
  <1>5. f \in FrameRecord /\ f.pc \in {"check", "method"}
    BY <1>4, Dispatched DEF Side
  <1>6. g \in FrameRecord /\ g.cls = Top(t).cls /\ g.pc = Top(t).pc
    BY <1>2 DEF FrameRecord
  <1>7. stack' = [stack EXCEPT ![t] = <<f, g>> \o Tail(@)]
    BY <1>3
  <1>. HIDE DEF f, g
  <1>8. StackOK' /\ OthersKept(t) /\ Called(t, f.pc)
    BY <1>2, <1>5, <1>6, <1>7, PushOverCalls DEF IInv
  <1>9. UNCHANGED Untouched /\ calls' = calls
    BY DEF Untouched, Send, bits, caching, history
  <1>10. FrameInv' /\ CacheInv'
    BY <1>2, <1>5, <1>8, <1>9, QuietCall DEF IInv, FrameInv
  <1>11. DataOK'
    BY <1>9 DEF IInv, DataOK, Untouched
  <1>. QED
    BY <1>8, <1>10, <1>11 DEF IInv, FrameInv

\* A method returns.
LEMMA MethodReturnStep ==
    ASSUME IInv, NEW t \in Thread, NEW c \in Class, MethodReturn(t, c)
    PROVE  IInv'
  <1>1. stack[t] # <<>> /\ Pc(t, Height(t)) = "method"
    BY AtTop DEF IInv, MethodReturn
  <1>2. StackOK' /\ OthersKept(t) /\ Returned(t)
    BY <1>1, PopReturns DEF IInv, MethodReturn
  <1>3. UNCHANGED Untouched /\ calls' = calls
    BY DEF Untouched, MethodReturn, bits, caching, history
  <1>4. FrameInv' /\ CacheInv'
    BY <1>1, <1>2, <1>3, QuietReturn DEF IInv, FrameInv
  <1>5. DataOK'
    BY <1>3 DEF IInv, DataOK, Untouched
  <1>. QED
    BY <1>2, <1>4, <1>5 DEF IInv, FrameInv

\* The check of the setup bits
LEMMA CheckStep ==
    ASSUME IInv, NEW t \in Thread, NEW c \in Class, Check(t, c)
    PROVE  IInv'
  <1>1. PICK q \in {"owner", "lock"} : Goto(t, q)
    BY DEF Check
  <1>2. StackOK' /\ \E h \in Nat : MovesTo(t, h, "check", c, q)
    BY <1>1, GotoMovesTo DEF IInv, Check, Labels, Locked
  <1>3. UNCHANGED Untouched /\ calls' = calls
    BY DEF Untouched, Check, bits, caching, history
  <1>4. FrameInv' /\ CacheInv'
    BY <1>2, <1>3, QuietMove DEF IInv, FrameInv
  <1>5. DataOK'
    BY <1>3 DEF IInv, DataOK, Untouched
  <1>. QED
    BY <1>2, <1>4, <1>5 DEF IInv, FrameInv

\* The thread that runs +initialize gets through.
LEMMA OwnerStep ==
    ASSUME IInv, NEW t \in Thread, NEW c \in Class, Owner(t, c)
    PROVE  IInv'
  <1>1. UNCHANGED Untouched /\ calls' = calls /\ At(t, "owner", c)
    BY DEF Untouched, Owner, bits, caching, history
  <1>2. DataOK'
    BY <1>1 DEF IInv, DataOK, Untouched
  <1>3. CASE \E q \in {"lock", "method"} : Goto(t, q)
    <2>1. PICK q \in {"lock", "method"} : Goto(t, q)
      BY <1>3
    <2>2. StackOK' /\ \E h \in Nat : MovesTo(t, h, "owner", c, q)
      BY <1>1, <2>1, GotoMovesTo DEF IInv, Labels
    <2>3. FrameInv' /\ CacheInv'
      BY <2>2, <1>1, QuietMove DEF IInv, FrameInv
    <2>. QED
      BY <2>2, <2>3, <1>2 DEF IInv, FrameInv
  <1>4. CASE stack' = [stack EXCEPT ![t] = Tail(@)]
    <2>1. stack[t] # <<>> /\ Pc(t, Height(t)) = "owner"
      BY <1>1, AtTop DEF IInv
    <2>2. StackOK' /\ OthersKept(t) /\ Returned(t)
      BY <1>4, <2>1, PopReturns DEF IInv
    <2>3. FrameInv' /\ CacheInv'
      BY <1>1, <2>1, <2>2, QuietReturn DEF IInv, FrameInv
    <2>. QED
      BY <2>2, <2>3, <1>2 DEF IInv, FrameInv
  <1>. QED
    BY <1>3, <1>4 DEF Owner, Return

\* Another thread was quicker.
LEMMA QuickerStep ==
    ASSUME IInv, NEW t \in Thread, NEW c \in Class, Quicker(t, c)
    PROVE  IInv'
  <1>1. StackOK' /\ \E h \in Nat : MovesTo(t, h, "quicker", c, "unlock")
    BY GotoMovesTo DEF IInv, Quicker, Labels, Locked
  <1>2. UNCHANGED Untouched /\ calls' = calls
    BY DEF Untouched, Quicker, bits, caching, history
  <1>3. FrameInv' /\ CacheInv'
    BY <1>1, <1>2, QuietMove DEF IInv, FrameInv
  <1>4. DataOK'
    BY <1>2 DEF IInv, DataOK, Untouched
  <1>. QED
    BY <1>1, <1>3, <1>4 DEF IInv, FrameInv

\* What a class depends on are classes.
LEMMA DepsAreClasses ==
    ASSUME NEW c \in Class
    PROVE  Len(Deps(c)) \in Nat /\ \A n \in 1 .. Len(Deps(c)) : Deps(c)[n] \in Class
  <1>1. Mixins[c] \in Seq(IsMixin) /\ IsMixin \subseteq Class
    BY ClassAssumption
  <1>2. Mixins[c] \in Seq(Class)
    BY <1>1
  <1>3. Super[c] # NoClass => Super[c] \in Class
    BY ClassAssumption
  <1>4. Deps(c) \in Seq(Class)
    BY <1>2, <1>3 DEF Deps
  <1>. QED
    BY <1>4

\* Superclass and mixins are set up first.
LEMMA SetupDepStep ==
    ASSUME IInv, NEW t \in Thread, NEW c \in Class, SetupDep(t, c)
    PROVE  IInv'
  <1>1. UNCHANGED Untouched /\ calls' = calls /\ At(t, "deps", c)
    BY DEF Untouched, SetupDep, bits, caching, history
  <1>2. DataOK'
    BY <1>1 DEF IInv, DataOK, Untouched
  <1>3. /\ stack[t] # <<>> /\ Top(t) \in FrameRecord /\ Height(t) \in Nat
        /\ Height(t) \in Depth(t)
        /\ Pc(t, Height(t)) = "deps" /\ Cls(t, Height(t)) = c
        /\ Top(t).pc = "deps"
    BY <1>1, AtTop DEF IInv, At
  <1>. DEFINE n == Top(t).i + 1
              next == [Top(t) EXCEPT !.i = n]
  <1>4. n \in Nat \ {0}
    BY <1>3 DEF FrameRecord
  <1>5. next \in FrameRecord /\ next.cls = Top(t).cls /\ next.pc = Top(t).pc
    BY <1>3, <1>4 DEF FrameRecord
  <1>6. \/ Goto(t, "empty_meta")
        \/ Replace(t, next)
        \/ n <= Len(Deps(c)) /\ stack' = [stack EXCEPT ![t] =
                             <<Frame(Deps(c)[n], "dep", "check"), next>> \o Tail(@)]
    <2>1. Len(Deps(c)) \in Nat
      BY DepsAreClasses
    <2>2. ~(n > Len(Deps(c))) => n <= Len(Deps(c))
      BY <1>4, <2>1
    <2>. QED
      BY <2>2, Zenon DEF SetupDep
  <1>. HIDE DEF next
  <1>7. CASE Goto(t, "empty_meta")
    <2>1. StackOK' /\ \E h \in Nat : MovesTo(t, h, "deps", c, "empty_meta")
      BY <1>1, <1>7, GotoMovesTo DEF IInv, Labels, Locked
    <2>2. FrameInv' /\ CacheInv'
      BY <2>1, <1>1, QuietMove DEF IInv, FrameInv
    <2>. QED
      BY <1>2, <2>1, <2>2 DEF IInv, FrameInv
  <1>8. CASE Replace(t, next)
    <2>1. StackOK' /\ OthersKept(t) /\ Moved(t, "deps")
      BY <1>3, <1>5, <1>8, ReplaceMoves DEF IInv
    <2>2. \A u \in Thread :
             /\ Depth(u)' = Depth(u) /\ Height(u)' = Height(u)
             /\ \A b \in Depth(u) :
                   /\ Cls(u, b)' = Cls(u, b)
                   /\ Pc(u, b)' = IF u = t /\ b = Height(t) THEN "deps" ELSE Pc(u, b)
      BY <2>1, MovedFrames DEF IInv
    <2>3. PICK h \in Nat : h = Height(t)
      BY <1>3
    <2>4. MovesTo(t, h, "deps", c, "deps")
      BY <1>3, <2>2, <2>3 DEF MovesTo
    <2>5. FrameInv' /\ CacheInv'
      BY <2>4, <1>1, QuietMove DEF IInv, FrameInv
    <2>. QED
      BY <1>2, <2>1, <2>5 DEF IInv, FrameInv
  <1>9. CASE n <= Len(Deps(c)) /\ stack' = [stack EXCEPT ![t] =
                             <<Frame(Deps(c)[n], "dep", "check"), next>> \o Tail(@)]
    <2>. DEFINE f == Frame(Deps(c)[n], "dep", "check")
    <2>1. Len(Deps(c)) \in Nat
      BY DepsAreClasses
    <2>2. f \in FrameRecord /\ f.pc = "check"
      <3>1. n \in 1 .. Len(Deps(c))
        BY <1>4, <1>9, <2>1
      <3>2. Deps(c)[n] \in Class
        BY <3>1, DepsAreClasses
      <3>3. "check" \in Labels /\ "dep" \in Side \cup {"dep"}
        BY DEF Labels
      <3>. QED
        BY <3>2, <3>3, NewFrame
    <2>. HIDE DEF f
    <2>3. stack' = [stack EXCEPT ![t] = <<f, next>> \o Tail(@)]
      BY <1>9 DEF f
    <2>4. StackOK' /\ OthersKept(t) /\ Called(t, "check")
      BY <1>3, <1>5, <2>2, <2>3, PushOverCalls DEF IInv
    <2>5. FrameInv' /\ CacheInv'
      BY <1>1, <1>3, <2>4, QuietCall DEF IInv, FrameInv
    <2>. QED
      BY <1>2, <2>4, <2>5 DEF IInv, FrameInv
  <1>. QED
    BY <1>6, <1>7, <1>8, <1>9

----------------------------------------------------------------------------
(* The steps that take the lock, mark the class and leave it *)

\* Frames are for classes.
LEMMA FrameClass ==
    ASSUME StackOK
    PROVE  \A u \in Thread : \A b \in Depth(u) : Cls(u, b) \in Class
  <1>. TAKE u \in Thread
  <1>. TAKE b \in Depth(u)
  <1>1. stack[u] \in Seq(FrameRecord) /\ Len(stack[u]) + 1 - b \in 1 .. Len(stack[u])
    BY DEF StackOK, Depth
  <1>2. FrameAt(u, b) \in FrameRecord
    BY <1>1 DEF FrameAt
  <1>. QED
    BY <1>2 DEF FrameRecord, Cls

\* The class lock is taken: nobody else is past it.
LEMMA LockStep ==
    ASSUME IInv, NEW t \in Thread, NEW c \in Class, Lock(t, c)
    PROVE  IInv'
  <1>1. /\ lock[c] = NoThread /\ lock' = [lock EXCEPT ![c] = t] /\ calls' = calls
        /\ UNCHANGED <<thread_id, initializing, done, cache, ready, cachecount, inits, returned>>
    BY DEF Lock, bits, caching, history
  <1>2. StackOK' /\ \E h \in Nat : MovesTo(t, h, "lock", c, "locked")
    BY GotoMovesTo DEF IInv, Lock, Labels, Locked
  <1>3. PICK h \in Nat : MovesTo(t, h, "lock", c, "locked")
    BY <1>2
  <1>4. DataOK'
    BY <1>1 DEF IInv, DataOK
  <1>5. \A u \in Thread : \A b \in Depth(u) : Pc(u, b) \in Locked => Cls(u, b) # c
    BY <1>1, ThreadAssumption DEF IInv, LockInv
  <1>6. /\ lock'[c] = t /\ \A d \in Class \ {c} : lock'[d] = lock[d]
        /\ \A d \in Class : lock[d] # NoThread => lock[d] \in Thread
    BY <1>1 DEF IInv, DataOK
  <1>7. /\ h \in Depth(t) /\ Cls(t, h) = c
        /\ \A u \in Thread : Depth(u)' = Depth(u)
        /\ \A u \in Thread : \A b \in Depth(u) :
             /\ Cls(u, b)' = Cls(u, b)
             /\ Pc(u, b)' = IF u = t /\ b = h THEN "locked" ELSE Pc(u, b)
    BY <1>3 DEF MovesTo
  <1>8. \A u \in Thread : \A b \in Depth(u) : Cls(u, b) \in Class
    BY FrameClass DEF IInv
  <1>9. LockInv'
    <2>1. ASSUME NEW u \in Thread, NEW b \in Depth(u)', Pc(u, b)' \in Locked
          PROVE  lock'[Cls(u, b)'] = u /\ (Cls(u, b)' = c => u = t /\ b = h)
      <3>1. CASE u = t /\ b = h
        BY <1>6, <1>7, <3>1
      <3>2. CASE ~(u = t /\ b = h)
        <4>1. b \in Depth(u) /\ Pc(u, b) \in Locked /\ Cls(u, b)' = Cls(u, b)
          BY <1>7, <2>1, <3>2
        <4>2. lock[Cls(u, b)] = u /\ Cls(u, b) \in Class \ {c}
          BY <1>5, <1>8, <4>1 DEF IInv, LockInv
        <4>. QED
          BY <1>6, <4>1, <4>2
      <3>. QED
        BY <3>1, <3>2
    <2>2. ASSUME NEW u \in Thread, NEW b \in Depth(u)', NEW e \in Depth(u)',
                 Pc(u, b)' \in Locked, Pc(u, e)' \in Locked, Cls(u, b)' = Cls(u, e)'
          PROVE  b = e
      <3>1. CASE Cls(u, b)' = c
        BY <2>1, <2>2, <3>1
      <3>2. CASE Cls(u, b)' # c
        <4>1. /\ b \in Depth(u) /\ e \in Depth(u)
              /\ Cls(u, b)' = Cls(u, b) /\ Cls(u, e)' = Cls(u, e)
          BY <1>7
        <4>2. Pc(u, b)' = Pc(u, b) /\ Pc(u, e)' = Pc(u, e)
          BY <1>7, <2>2, <3>2, <4>1
        <4>. QED
          BY <2>2, <4>1, <4>2 DEF IInv, LockInv
      <3>. QED
        BY <3>1, <3>2
    <2>3. ASSUME NEW d \in Class, NEW u \in Thread, lock'[d] = u
          PROVE  \E b \in Depth(u)' : Cls(u, b)' = d /\ Pc(u, b)' \in Locked
      <3>1. CASE d = c
        <4>1. Cls(t, h)' = c /\ Pc(t, h)' \in Locked /\ h \in Depth(t)'
          BY <1>7 DEF Locked
        <4>. QED
          BY <2>3, <3>1, <4>1, <1>6
      <3>2. CASE d # c
        <4>1. lock[d] = u
          BY <1>6, <2>3, <3>2
        <4>2. PICK b \in Depth(u) : Cls(u, b) = d /\ Pc(u, b) \in Locked
          BY <4>1 DEF IInv, LockInv
        <4>3. b \in Depth(u)' /\ Cls(u, b)' = d /\ Pc(u, b)' \in Locked
          BY <1>7, <3>2, <4>2
        <4>. QED
          BY <4>3
      <3>. QED
        BY <3>1, <3>2
    <2>. QED
      BY <2>1, <2>2, <2>3 DEF LockInv
  <1>10. PhaseInv'
    <2>1. c \notin initializing \ done
      BY <1>1, ThreadAssumption DEF IInv, PhaseInv
    <2>2. initializing \subseteq Class
      BY DEF IInv, DataOK
    <2>3. ASSUME NEW u \in Thread, NEW b \in Depth(u)'
          PROVE  /\ Pc(u, b)' \in Mid => Cls(u, b)' \in initializing \ done
                 /\ Pc(u, b)' = "quicker" => Cls(u, b)' \in done
                 /\ Pc(u, b)' \in Locked \ {"locked"} => thread_id[Cls(u, b)'] = u
      <3>1. CASE u = t /\ b = h
        BY <1>7, <3>1 DEF Mid
      <3>2. CASE ~(u = t /\ b = h)
        <4>1. b \in Depth(u) /\ Cls(u, b)' = Cls(u, b) /\ Pc(u, b)' = Pc(u, b)
          BY <1>7, <3>2
        <4>. QED
          BY <4>1 DEF IInv, PhaseInv
      <3>. QED
        BY <3>1, <3>2
    <2>4. ASSUME NEW d \in initializing \ done
          PROVE  \E u \in Thread : /\ lock'[d] = u
                                    /\ \E b \in Depth(u)' : Cls(u, b)' = d /\ Pc(u, b)' \in Mid
      <3>1. PICK u \in Thread : lock[d] = u /\ \E b \in Depth(u) : Cls(u, b) = d /\ Pc(u, b) \in Mid
        BY DEF IInv, PhaseInv
      <3>2. PICK b \in Depth(u) : Cls(u, b) = d /\ Pc(u, b) \in Mid
        BY <3>1
      <3>3. b \in Depth(u)' /\ Cls(u, b)' = d /\ Pc(u, b)' \in Mid
        BY <1>7, <2>1, <3>2
      <3>. QED
        BY <1>6, <2>1, <2>2, <3>1, <3>3
    <2>. QED
      BY <1>1, <2>3, <2>4 DEF IInv, PhaseInv
  <1>11. InitsInv'
    BY <1>1, <1>3, MoveInits DEF IInv
  <1>12. Counted' = Counted
    BY <1>1, <1>3, MoveCounted DEF Counted
  <1>13. CacheInv'
    BY <1>1, <1>12 DEF IInv, CacheInv, RealCacheAfterInitialize
  <1>14. BelowInv'
    BY <1>3, MoveBelow DEF IInv
  <1>. QED
    BY <1>2, <1>4, <1>9, <1>10, <1>11, <1>13, <1>14 DEF IInv

\* The owner writes its thread id,
LEMMA WriteThreadIdStep ==
    ASSUME IInv, NEW t \in Thread, NEW c \in Class, WriteThreadId(t, c)
    PROVE  IInv'
  <1>1. /\ thread_id' = [thread_id EXCEPT ![c] = t] /\ calls' = calls
        /\ UNCHANGED <<lock, initializing, done, cache, ready, cachecount, inits, returned>>
    BY DEF WriteThreadId, bits, caching, history
  <1>2. StackOK' /\ \E h \in Nat : MovesTo(t, h, "locked", c, "enter")
    BY GotoMovesTo DEF IInv, WriteThreadId, Labels, Locked
  <1>3. PICK h \in Nat : MovesTo(t, h, "locked", c, "enter")
    BY <1>2
  <1>4. DataOK'
    BY <1>1 DEF IInv, DataOK
  <1>5. "locked" \in Locked /\ "enter" \in Locked
    BY DEF Locked
  <1>6. LockInv'
    BY <1>1, <1>3, <1>5, MoveLock DEF IInv
  <1>7. /\ h \in Depth(t) /\ Cls(t, h) = c /\ Pc(t, h) \in Locked
        /\ \A u \in Thread : Depth(u)' = Depth(u)
        /\ \A u \in Thread : \A b \in Depth(u) :
             /\ Cls(u, b)' = Cls(u, b)
             /\ Pc(u, b)' = IF u = t /\ b = h THEN "enter" ELSE Pc(u, b)
    BY <1>3, <1>5 DEF MovesTo
  <1>8. \A u \in Thread : \A b \in Depth(u) : Cls(u, b) \in Class
    BY FrameClass DEF IInv
  <1>9. PhaseInv'
    <2>1. ASSUME NEW u \in Thread, NEW b \in Depth(u)'
          PROVE  /\ Pc(u, b)' \in Mid => Cls(u, b)' \in initializing \ done
                 /\ Pc(u, b)' = "quicker" => Cls(u, b)' \in done
                 /\ Pc(u, b)' \in Locked \ {"locked"} => thread_id'[Cls(u, b)'] = u
      <3>1. CASE u = t /\ b = h
        BY <1>1, <1>4, <1>7, <3>1 DEF Mid, IInv, DataOK
      <3>2. CASE ~(u = t /\ b = h)
        <4>1. Pc(u, b)' = Pc(u, b) /\ Cls(u, b)' = Cls(u, b) /\ b \in Depth(u) /\ Cls(u, b) \in Class
          BY <1>7, <1>8, <3>2
        <4>2. Pc(u, b) \in Locked => Cls(u, b) # c
          BY <4>1, <1>7, <3>2, LockedOnce DEF IInv
        <4>3. Pc(u, b) \in Locked => thread_id'[Cls(u, b)] = thread_id[Cls(u, b)]
          BY <1>1, <4>1, <4>2 DEF IInv, DataOK
        <4>. QED
          BY <4>1, <4>3 DEF IInv, PhaseInv
      <3>. QED
        BY <3>1, <3>2
    <2>2. ASSUME NEW d \in initializing \ done
          PROVE  \E u \in Thread : /\ lock[d] = u
                                    /\ \E b \in Depth(u)' : Cls(u, b)' = d /\ Pc(u, b)' \in Mid
      <3>1. PICK u \in Thread : lock[d] = u /\ \E b \in Depth(u) : Cls(u, b) = d /\ Pc(u, b) \in Mid
        BY DEF IInv, PhaseInv
      <3>2. PICK b \in Depth(u) : Cls(u, b) = d /\ Pc(u, b) \in Mid
        BY <3>1
      <3>3. ~(u = t /\ b = h)
        BY <1>3, <3>2 DEF MovesTo, Mid
      <3>. QED
        BY <1>7, <3>1, <3>2, <3>3
    <2>. QED
      BY <1>1, <2>1, <2>2 DEF IInv, PhaseInv
  <1>10. InitsInv'
    BY <1>1, <1>3, MoveInits DEF IInv
  <1>11. Counted' = Counted
    BY <1>1, <1>3, MoveCounted DEF Counted
  <1>12. CacheInv'
    BY <1>1, <1>11 DEF IInv, CacheInv, RealCacheAfterInitialize
  <1>13. BelowInv'
    BY <1>3, MoveBelow DEF IInv
  <1>. QED
    BY <1>2, <1>4, <1>6, <1>9, <1>10, <1>12, <1>13 DEF IInv

\* sets the bit that lets it through,
LEMMA SetInitializingStep ==
    ASSUME IInv, NEW t \in Thread, NEW c \in Class, SetInitializing(t, c)
    PROVE  IInv'
  <1>1. /\ initializing' = initializing \cup {c} /\ calls' = calls
        /\ UNCHANGED <<lock, thread_id, done, cache, ready, cachecount, inits, returned>>
    BY DEF SetInitializing, caching, history
  <1>2. PICK q \in {"quicker", "deps"} :
           /\ Goto(t, q) /\ (c \in initializing <=> q = "quicker")
    BY DEF SetInitializing
  <1>3. StackOK' /\ \E h \in Nat : MovesTo(t, h, "enter", c, q)
    BY <1>2, GotoMovesTo DEF IInv, SetInitializing, Labels, Locked
  <1>4. PICK h \in Nat : MovesTo(t, h, "enter", c, q)
    BY <1>3
  <1>5. DataOK'
    BY <1>1 DEF IInv, DataOK
  <1>6. "enter" \in Locked \ {"locked"} /\ q \in Locked /\ "enter" \notin Mid
        /\ Mid \subseteq Locked
    BY DEF Locked, Mid
  <1>7. LockInv'
    BY <1>1, <1>4, <1>6, MoveLock DEF IInv
  <1>8. /\ h \in Depth(t) /\ Cls(t, h) = c /\ Pc(t, h) = "enter"
        /\ \A u \in Thread : Depth(u)' = Depth(u)
        /\ \A u \in Thread : \A b \in Depth(u) :
             /\ Cls(u, b)' = Cls(u, b)
             /\ Pc(u, b)' = IF u = t /\ b = h THEN q ELSE Pc(u, b)
    BY <1>4 DEF MovesTo
  <1>9. lock[c] = t /\ thread_id[c] = t
    BY <1>6, <1>8 DEF IInv, LockInv, PhaseInv
  <1>10. c \notin initializing \ done
    <2>. SUFFICES ASSUME c \in initializing \ done PROVE FALSE
      OBVIOUS
    <2>1. PICK b \in Depth(t) : Cls(t, b) = c /\ Pc(t, b) \in Mid
      BY <1>9 DEF IInv, PhaseInv
    <2>2. b = h
      <3>1. Pc(t, b) \in Locked /\ Pc(t, h) \in Locked /\ Cls(t, b) = Cls(t, h)
        BY <1>6, <1>8, <2>1
      <3>. QED
        BY <3>1, <1>8 DEF IInv, LockInv
    <2>. QED
      BY <1>6, <1>8, <2>1, <2>2
  <1>11. done \subseteq initializing
    BY DEF IInv, PhaseInv
  <1>12. PhaseInv'
    <2>1. ASSUME NEW u \in Thread, NEW b \in Depth(u)'
          PROVE  /\ Pc(u, b)' \in Mid => Cls(u, b)' \in initializing' \ done
                 /\ Pc(u, b)' = "quicker" => Cls(u, b)' \in done
                 /\ Pc(u, b)' \in Locked \ {"locked"} => thread_id[Cls(u, b)'] = u
      <3>1. CASE u = t /\ b = h
        BY <1>1, <1>2, <1>8, <1>9, <1>10, <1>11, <3>1 DEF Mid
      <3>2. CASE ~(u = t /\ b = h)
        <4>1. Pc(u, b)' = Pc(u, b) /\ Cls(u, b)' = Cls(u, b) /\ b \in Depth(u)
          BY <1>8, <3>2
        <4>. QED
          BY <1>1, <4>1 DEF IInv, PhaseInv
      <3>. QED
        BY <3>1, <3>2
    <2>2. ASSUME NEW d \in initializing' \ done
          PROVE  \E u \in Thread : /\ lock[d] = u
                                   /\ \E b \in Depth(u)' : Cls(u, b)' = d /\ Pc(u, b)' \in Mid
      <3>1. CASE d \in initializing
        <4>1. PICK u \in Thread : lock[d] = u /\ \E b \in Depth(u) : Cls(u, b) = d /\ Pc(u, b) \in Mid
          BY <3>1 DEF IInv, PhaseInv
        <4>2. PICK b \in Depth(u) : Cls(u, b) = d /\ Pc(u, b) \in Mid
          BY <4>1
        <4>3. ~(u = t /\ b = h)
          BY <1>6, <1>8, <4>2
        <4>. QED
          BY <1>8, <4>1, <4>2, <4>3
      <3>2. CASE d \notin initializing
        <4>1. d = c /\ q = "deps"
          BY <1>1, <1>2, <3>2
        <4>2. h \in Depth(t)' /\ Cls(t, h)' = c /\ Pc(t, h)' \in Mid
          BY <1>8, <4>1 DEF Mid
        <4>. QED
          BY <1>9, <4>1, <4>2
      <3>. QED
        BY <3>1, <3>2
    <2>. QED
      BY <1>1, <1>11, <2>1, <2>2 DEF PhaseInv
  <1>13. InitsInv'
    <2>1. q = "deps" => inits[c] = 0
      BY <1>2 DEF IInv, InitsInv
    <2>. QED
      BY <1>1, <1>4, <2>1, MoveInits DEF IInv
  <1>14. Counted' = Counted
    BY <1>1, <1>4, MoveCounted DEF Counted
  <1>15. CacheInv'
    BY <1>1, <1>14 DEF IInv, CacheInv, RealCacheAfterInitialize
  <1>16. BelowInv'
    BY <1>4, MoveBelow DEF IInv
  <1>. QED
    BY <1>3, <1>5, <1>7, <1>12, <1>13, <1>15, <1>16 DEF IInv

\* and in the end the bit that lets everybody through.
LEMMA SetDoneStep ==
    ASSUME IInv, NEW t \in Thread, NEW c \in Class, SetDone(t, c)
    PROVE  IInv'
  <1>1. /\ done' = done \cup {c} /\ calls' = calls
        /\ UNCHANGED <<lock, thread_id, initializing, cache, ready, cachecount, inits, returned>>
    BY DEF SetDone, caching, history
  <1>2. StackOK' /\ \E h \in Nat : MovesTo(t, h, "done", c, "unlock")
    BY GotoMovesTo DEF IInv, SetDone, Labels, Locked
  <1>3. PICK h \in Nat : MovesTo(t, h, "done", c, "unlock")
    BY <1>2
  <1>4. DataOK'
    BY <1>1 DEF IInv, DataOK
  <1>5. /\ "done" \in Locked \ {"locked"} /\ "done" \in Mid
        /\ "unlock" \in Locked \ {"locked"} /\ "unlock" \notin Mid /\ Mid \subseteq Locked
    BY DEF Locked, Mid
  <1>6. LockInv'
    BY <1>1, <1>3, <1>5, MoveLock DEF IInv
  <1>7. /\ h \in Depth(t) /\ Cls(t, h) = c /\ Pc(t, h) = "done"
        /\ \A u \in Thread : Depth(u)' = Depth(u)
        /\ \A u \in Thread : \A b \in Depth(u) :
             /\ Cls(u, b)' = Cls(u, b)
             /\ Pc(u, b)' = IF u = t /\ b = h THEN "unlock" ELSE Pc(u, b)
    BY <1>3 DEF MovesTo
  <1>8. c \in initializing /\ thread_id[c] = t
    BY <1>5, <1>7 DEF IInv, PhaseInv
  <1>9. PhaseInv'
    <2>1. ASSUME NEW u \in Thread, NEW b \in Depth(u)'
          PROVE  /\ Pc(u, b)' \in Mid => Cls(u, b)' \in initializing \ done'
                 /\ Pc(u, b)' = "quicker" => Cls(u, b)' \in done'
                 /\ Pc(u, b)' \in Locked \ {"locked"} => thread_id[Cls(u, b)'] = u
      <3>1. CASE u = t /\ b = h
        BY <1>5, <1>7, <1>8, <3>1
      <3>2. CASE ~(u = t /\ b = h)
        <4>1. Pc(u, b)' = Pc(u, b) /\ Cls(u, b)' = Cls(u, b) /\ b \in Depth(u)
          BY <1>7, <3>2
        <4>2. Pc(u, b) \in Mid => Cls(u, b) # c
          BY <4>1, <1>5, <1>7, <3>2, LockedOnce DEF IInv
        <4>. QED
          BY <1>1, <4>1, <4>2 DEF IInv, PhaseInv
      <3>. QED
        BY <3>1, <3>2
    <2>2. ASSUME NEW d \in initializing \ done'
          PROVE  \E u \in Thread : /\ lock[d] = u
                                   /\ \E b \in Depth(u)' : Cls(u, b)' = d /\ Pc(u, b)' \in Mid
      <3>0. d \in initializing \ done /\ d # c
        BY <1>1
      <3>1. PICK u \in Thread : lock[d] = u /\ \E b \in Depth(u) : Cls(u, b) = d /\ Pc(u, b) \in Mid
        BY <3>0 DEF IInv, PhaseInv
      <3>2. PICK b \in Depth(u) : Cls(u, b) = d /\ Pc(u, b) \in Mid
        BY <3>1
      <3>3. ~(u = t /\ b = h)
        BY <1>7, <3>0, <3>2
      <3>. QED
        BY <1>7, <3>1, <3>2, <3>3
    <2>3. done' \subseteq initializing
      BY <1>1, <1>8 DEF IInv, PhaseInv
    <2>. QED
      BY <1>1, <2>1, <2>2, <2>3 DEF PhaseInv
  <1>10. InitsInv'
    BY <1>1, <1>3, MoveInits DEF IInv
  <1>11. Counted' = Counted
    BY <1>1, <1>3, MoveCounted DEF Counted
  <1>12. CacheInv'
    BY <1>1, <1>11 DEF IInv, CacheInv, RealCacheAfterInitialize
  <1>13. BelowInv'
    BY <1>3, MoveBelow DEF IInv
  <1>. QED
    BY <1>2, <1>4, <1>6, <1>9, <1>10, <1>12, <1>13 DEF IInv

\* The lock is released by the frame that has it, whether that goes on to run
\* the method or ends.
LEMMA UnlockStep ==
    ASSUME IInv, NEW t \in Thread, NEW c \in Class, Unlock(t, c)
    PROVE  IInv'
  <1>1. /\ lock' = [lock EXCEPT ![c] = NoThread] /\ calls' = calls /\ At(t, "unlock", c)
        /\ UNCHANGED <<thread_id, initializing, done, cache, ready, cachecount, inits, returned>>
    BY DEF Unlock, bits, caching, history
  <1>2. DataOK'
    BY <1>1 DEF IInv, DataOK
  <1>3. PICK h \in Nat : h = Height(t) /\ h \in Depth(t) /\ Cls(t, h) = c /\ Pc(t, h) = "unlock"
    BY <1>1, AtTop DEF IInv
  <1>4. /\ stack[t] # <<>>
        /\ "unlock" \in Locked /\ "unlock" \notin Mid /\ Mid \subseteq Locked
        /\ "method" \notin Locked /\ "method" \notin Mid
    BY <1>1 DEF At, Locked, Mid
  \* every frame after the step is one from before, but for the one that left
  <1>5. /\ StackOK' /\ BelowInv'
        /\ \A u \in Thread : \A b \in Depth(u)' :
             /\ b \in Depth(u) /\ Cls(u, b)' = Cls(u, b)
             /\ IF u = t /\ b = h THEN Pc(u, b)' = "method" ELSE Pc(u, b)' = Pc(u, b)
        /\ \A u \in Thread : \A b \in Depth(u) : b \in Depth(u)' \/ (u = t /\ b = h)
    <2>1. CASE Goto(t, "method")
      <3>1. StackOK' /\ \E k \in Nat : MovesTo(t, k, "unlock", c, "method")
        BY <1>1, <2>1, GotoMovesTo DEF IInv, Labels
      <3>2. MovesTo(t, h, "unlock", c, "method")
        BY <1>3, <3>1 DEF MovesTo
      <3>3. BelowInv'
        BY <3>2, MoveBelow DEF IInv
      <3>. QED
        BY <3>1, <3>2, <3>3 DEF MovesTo
    <2>2. CASE stack' = [stack EXCEPT ![t] = Tail(@)]
      <3>1. StackOK' /\ OthersKept(t) /\ Returned(t)
        BY <1>4, <2>2, PopReturns DEF IInv
      <3>2. /\ \A u \in Thread :
                 /\ u # t => Depth(u)' = Depth(u) /\ Height(u)' = Height(u)
                 /\ Depth(u)' \subseteq Depth(u)
                 /\ \A b \in Depth(u)' : Cls(u, b)' = Cls(u, b) /\ Pc(u, b)' = Pc(u, b)
            /\ Depth(t)' = Depth(t) \ {h}
        BY <1>3, <3>1, ReturnedFrames DEF IInv
      <3>3. BelowInv'
        BY <1>3, <3>2 DEF IInv, BelowInv, Height
      <3>4. \A u \in Thread : \A b \in Depth(u)' : ~(u = t /\ b = h)
        BY <3>2
      <3>. QED
        BY <3>1, <3>2, <3>3, <3>4
    <2>. QED
      BY <2>1, <2>2 DEF Unlock, Return
  <1>6. lock[c] = t
    BY <1>3, <1>4 DEF IInv, LockInv
  <1>7. lock'[c] = NoThread /\ \A d \in Class \ {c} : lock'[d] = lock[d]
    BY <1>1 DEF IInv, DataOK
  <1>8. \A u \in Thread : \A b \in Depth(u) : Pc(u, b) \in Locked /\ Cls(u, b) = c => u = t /\ b = h
    BY <1>3, <1>4, LockedOnce DEF IInv
  <1>9. \A u \in Thread : \A b \in Depth(u) : Cls(u, b) \in Class
    BY FrameClass DEF IInv
  <1>10. LockInv'
    <2>1. ASSUME NEW u \in Thread, NEW b \in Depth(u)', Pc(u, b)' \in Locked
          PROVE  Pc(u, b)' = Pc(u, b) /\ b \in Depth(u) /\ Cls(u, b)' = Cls(u, b) /\ Cls(u, b) # c
      BY <1>4, <1>5, <1>8, <2>1
    <2>2. ASSUME NEW u \in Thread, NEW b \in Depth(u)', Pc(u, b)' \in Locked
          PROVE  lock'[Cls(u, b)'] = u
      BY <1>7, <1>9, <2>1, <2>2 DEF IInv, LockInv
    <2>3. ASSUME NEW u \in Thread, NEW b \in Depth(u)', NEW e \in Depth(u)',
                 Pc(u, b)' \in Locked, Pc(u, e)' \in Locked, Cls(u, b)' = Cls(u, e)'
          PROVE  b = e
      <3>1. Pc(u, b)' = Pc(u, b) /\ b \in Depth(u) /\ Cls(u, b)' = Cls(u, b)
        BY <2>1, <2>3
      <3>2. Pc(u, e)' = Pc(u, e) /\ e \in Depth(u) /\ Cls(u, e)' = Cls(u, e)
        BY <2>1, <2>3
      <3>. QED
        BY <2>3, <3>1, <3>2 DEF IInv, LockInv
    <2>4. ASSUME NEW d \in Class, NEW u \in Thread, lock'[d] = u
          PROVE  \E b \in Depth(u)' : Cls(u, b)' = d /\ Pc(u, b)' \in Locked
      <3>1. d # c /\ lock[d] = u
        BY <1>7, <2>4, ThreadAssumption
      <3>2. PICK b \in Depth(u) : Cls(u, b) = d /\ Pc(u, b) \in Locked
        BY <3>1 DEF IInv, LockInv
      <3>3. ~(u = t /\ b = h)
        BY <1>3, <3>1, <3>2
      <3>. QED
        BY <1>5, <3>2, <3>3
    <2>. QED
      BY <2>2, <2>3, <2>4 DEF LockInv
  <1>11. c \notin initializing \ done
    <2>. SUFFICES ASSUME c \in initializing \ done PROVE FALSE
      OBVIOUS
    <2>1. PICK b \in Depth(t) : Cls(t, b) = c /\ Pc(t, b) \in Mid
      BY <1>6 DEF IInv, PhaseInv
    <2>2. b = h
      BY <1>4, <1>8, <2>1
    <2>. QED
      BY <1>3, <1>4, <2>1, <2>2
  <1>12. PhaseInv'
    <2>1. ASSUME NEW u \in Thread, NEW b \in Depth(u)'
          PROVE  /\ Pc(u, b)' \in Mid => Cls(u, b)' \in initializing \ done
                 /\ Pc(u, b)' = "quicker" => Cls(u, b)' \in done
                 /\ Pc(u, b)' \in Locked \ {"locked"} => thread_id[Cls(u, b)'] = u
      <3>1. CASE u = t /\ b = h
        BY <1>4, <1>5, <3>1
      <3>2. CASE ~(u = t /\ b = h)
        <4>1. Pc(u, b)' = Pc(u, b) /\ Cls(u, b)' = Cls(u, b) /\ b \in Depth(u)
          BY <1>5, <3>2
        <4>. QED
          BY <4>1 DEF IInv, PhaseInv
      <3>. QED
        BY <3>1, <3>2
    <2>2. ASSUME NEW d \in initializing \ done
          PROVE  \E u \in Thread : /\ lock'[d] = u
                                   /\ \E b \in Depth(u)' : Cls(u, b)' = d /\ Pc(u, b)' \in Mid
      <3>1. PICK u \in Thread : lock[d] = u /\ \E b \in Depth(u) : Cls(u, b) = d /\ Pc(u, b) \in Mid
        BY DEF IInv, PhaseInv
      <3>2. PICK b \in Depth(u) : Cls(u, b) = d /\ Pc(u, b) \in Mid
        BY <3>1
      <3>3. ~(u = t /\ b = h)
        BY <1>3, <1>4, <3>2
      <3>4. b \in Depth(u)' /\ Cls(u, b)' = d /\ Pc(u, b)' \in Mid
        BY <1>5, <3>2, <3>3
      <3>5. d \in Class \ {c}
        BY <1>11 DEF IInv, DataOK
      <3>. QED
        BY <1>7, <3>1, <3>4, <3>5
    <2>. QED
      BY <1>1, <2>1, <2>2 DEF IInv, PhaseInv
  <1>13. InitsInv'
    <2>1. ASSUME NEW u \in Thread, NEW b \in Depth(u)'
          PROVE  Cls(u, b)' = Cls(u, b) /\ b \in Depth(u) /\ Pc(u, b)' \in {Pc(u, b), "method"}
      BY <1>5
    <2>. QED
      BY <1>1, <2>1 DEF IInv, InitsInv
  <1>14. Counted' = Counted
    <2>1. ASSUME NEW d, NEW side PROVE Swapping(d, side)' <=> Swapping(d, side)
      BY <1>3, <1>5 DEF Swapping
    <2>. QED
      BY <1>1, <2>1 DEF Counted
  <1>15. CacheInv'
    BY <1>1, <1>14 DEF IInv, CacheInv, RealCacheAfterInitialize
  <1>. QED
    BY <1>2, <1>5, <1>10, <1>12, <1>13, <1>15 DEF IInv

----------------------------------------------------------------------------
(* The steps between INITIALIZING and INITIALIZE_DONE *)

\* Moves within the middle of a setup keep who is in it.
LEMMA MidMove ==
    ASSUME IInv, NEW t \in Thread, NEW h, NEW p \in Mid, NEW c, NEW q \in Mid,
           MovesTo(t, h, p, c, q), UNCHANGED <<lock, thread_id, initializing, done>>
    PROVE  BelowInv' /\ LockInv' /\ PhaseInv'
  <1>1. /\ p \in Locked \ {"locked"} /\ q \in Locked \ {"locked"} /\ q # "quicker"
    BY DEF Mid, Locked
  <1>. QED
    BY <1>1, MoveBelow, MoveLock, MovePhase DEF IInv

\* What the invariant says of the frame that takes the step.
LEMMA MidFrame ==
    ASSUME IInv, NEW t \in Thread, NEW h, NEW p \in Mid, NEW c \in Class, h \in Depth(t),
           Pc(t, h) = p, Cls(t, h) = c
    PROVE  /\ c \in initializing \ done
           /\ p \in {"deps", "empty_meta", "empty_infra", "self"} => inits[c] = 0
           /\ p \in {"self", "body"} => c \notin IsMixin
           /\ p \in {"install_meta", "swap_meta", "install_infra", "swap_infra", "done"}
                => c \in returned \cup IsMixin
           /\ p \in {"swap_meta", "swap_infra"} => c \notin AlwaysEmpty
           /\ \A u \in Thread : \A b \in Depth(u) :
                Pc(u, b) \in Mid /\ Cls(u, b) = c => u = t /\ b = h
  <1>1. Mid \subseteq Locked
    BY DEF Mid, Locked
  <1>2. \A u \in Thread : \A b \in Depth(u) : Pc(u, b) \in Mid /\ Cls(u, b) = c => u = t /\ b = h
    BY <1>1, LockedOnce DEF IInv
  <1>3. c \in initializing \ done
    BY DEF IInv, PhaseInv
  <1>. QED
    BY <1>2, <1>3 DEF IInv, InitsInv

\* A class without a cache of its own
LEMMA EmptyCacheStep ==
    ASSUME IInv, NEW t \in Thread, NEW c \in Class, NEW side \in Side, EmptyCache(t, c, side)
    PROVE  IInv'
  <1>1. /\ cache' = [cache EXCEPT ![c][side] = IF @ = "initial" THEN "empty" ELSE @]
        /\ UNCHANGED <<lock, thread_id, initializing, done, ready, cachecount, calls, inits, returned>>
    BY DEF EmptyCache, bits, history
  <1>2. PICK p \in {"empty_meta", "empty_infra"}, q \in {"empty_infra", "install_meta", "self"} :
          /\ At(t, p, c) /\ Goto(t, q)
          /\ q = "install_meta" => c \in IsMixin
          /\ q = "self" => c \notin IsMixin
    BY DEF EmptyCache
  <1>3. p \in Mid /\ q \in Mid /\ q \in Labels
    BY DEF Mid, Labels, Locked
  <1>4. StackOK' /\ \E h \in Nat : MovesTo(t, h, p, c, q)
    BY <1>2, <1>3, GotoMovesTo DEF IInv
  <1>5. PICK h \in Nat : MovesTo(t, h, p, c, q)
    BY <1>4
  <1>6. BelowInv' /\ LockInv' /\ PhaseInv'
    BY <1>1, <1>3, <1>5, MidMove
  <1>7. cache' \in [Class -> [Side -> {"initial", "empty", "real"}]]
    BY <1>1 DEF IInv, DataOK
  <1>8. DataOK'
    BY <1>1, <1>7 DEF IInv, DataOK
  <1>9. inits[c] = 0
    BY <1>3, <1>5, MidFrame DEF MovesTo
  <1>10. InitsInv'
    BY <1>1, <1>2, <1>5, <1>9, MoveInits DEF IInv
  <1>11. Counted' = Counted
    BY <1>1, <1>5, MoveCounted DEF Counted
  <1>12. \A d \in Class : \A s \in Side : cache'[d][s] = "real" => cache[d][s] = "real"
    BY <1>1 DEF IInv, DataOK
  <1>13. CacheInv'
    BY <1>1, <1>11, <1>12 DEF IInv, CacheInv, RealCacheAfterInitialize
  <1>. QED
    BY <1>4, <1>6, <1>8, <1>10, <1>13 DEF IInv

\* +initialize is counted, for a class that has not had it.
LEMMA CallInitializeStep ==
    ASSUME IInv, NEW t \in Thread, NEW c \in Class, CallInitialize(t, c)
    PROVE  IInv'
  <1>1. /\ inits' = [inits EXCEPT ![c] = inits[c] + 1]
        /\ UNCHANGED <<lock, thread_id, initializing, done, cache, ready, cachecount, calls, returned>>
    BY DEF CallInitialize, bits, caching
  <1>2. "self" \in Mid /\ "body" \in Mid /\ "body" \in Labels
    BY DEF Mid, Labels, Locked
  <1>3. StackOK' /\ \E h \in Nat : MovesTo(t, h, "self", c, "body")
    BY <1>2, GotoMovesTo DEF IInv, CallInitialize
  <1>4. PICK h \in Nat : MovesTo(t, h, "self", c, "body")
    BY <1>3
  <1>5. BelowInv' /\ LockInv' /\ PhaseInv'
    BY <1>1, <1>2, <1>4, MidMove
  <1>6. DataOK'
    BY <1>1 DEF IInv, DataOK
  <1>7. /\ c \in initializing /\ inits[c] = 0 /\ c \notin IsMixin
        /\ \A u \in Thread : \A b \in Depth(u) :
             Pc(u, b) \in Mid /\ Cls(u, b) = c => u = t /\ b = h
    <2>1. h \in Depth(t) /\ Pc(t, h) = "self" /\ Cls(t, h) = c
      BY <1>4 DEF MovesTo
    <2>. QED
      BY <1>2, <2>1, MidFrame
  <1>8. inits'[c] = 1 /\ \A d \in Class \ {c} : inits'[d] = inits[d]
    BY <1>1, <1>7 DEF IInv, DataOK
  <1>9. InitsInv'
    <2>1. \A d \in Class : inits'[d] \in {0, 1} /\ (inits'[d] = 1 => d \in initializing \ IsMixin)
      BY <1>7, <1>8 DEF IInv, InitsInv
    <2>2. ASSUME NEW u \in Thread, NEW b \in Depth(u)'
          PROVE /\ Pc(u, b)' \in {"deps", "empty_meta", "empty_infra", "self"} => inits'[Cls(u, b)'] = 0
                /\ Pc(u, b)' \in {"self", "body"} => Cls(u, b)' \notin IsMixin
                /\ Pc(u, b)' \in {"install_meta", "swap_meta", "install_infra", "swap_infra", "done"}
                     => Cls(u, b)' \in returned \cup IsMixin
                /\ Pc(u, b)' \in {"swap_meta", "swap_infra"} => Cls(u, b)' \notin AlwaysEmpty
      <3>1. b \in Depth(u) /\ Cls(u, b)' = Cls(u, b) /\ Cls(u, b) \in Class
        BY <1>4, FrameClass DEF MovesTo, IInv
      <3>2. CASE u = t /\ b = h
        BY <1>4, <1>7, <3>1, <3>2 DEF MovesTo
      <3>3. CASE ~(u = t /\ b = h)
        <4>1. Pc(u, b)' = Pc(u, b)
          BY <1>4, <3>1, <3>3 DEF MovesTo
        <4>2. Pc(u, b) \in {"deps", "empty_meta", "empty_infra", "self"} => Cls(u, b) # c
          BY <1>7, <3>1, <3>3 DEF Mid
        <4>. QED
          BY <1>8, <3>1, <4>1, <4>2 DEF IInv, InitsInv
      <3>. QED
        BY <3>2, <3>3
    <2>. QED
      BY <1>1, <2>1, <2>2 DEF InitsInv
  <1>10. Counted' = Counted
    BY <1>1, <1>4, MoveCounted DEF Counted
  <1>11. CacheInv'
    BY <1>1, <1>10 DEF IInv, CacheInv, RealCacheAfterInitialize
  <1>. QED
    BY <1>3, <1>5, <1>6, <1>9, <1>11 DEF IInv

\* +initialize returns.
LEMMA InitializeReturnStep ==
    ASSUME IInv, NEW t \in Thread, NEW c \in Class, InitializeReturn(t, c)
    PROVE  IInv'
  <1>1. /\ returned' = returned \cup {c}
        /\ UNCHANGED <<lock, thread_id, initializing, done, cache, ready, cachecount, calls, inits>>
    BY DEF InitializeReturn, bits, caching
  <1>2. "install_meta" \in Mid /\ "body" \in Mid /\ "install_meta" \in Labels
    BY DEF Mid, Labels, Locked
  <1>3. StackOK' /\ \E h \in Nat : MovesTo(t, h, "body", c, "install_meta")
    BY <1>2, GotoMovesTo DEF IInv, InitializeReturn
  <1>4. PICK h \in Nat : MovesTo(t, h, "body", c, "install_meta")
    BY <1>3
  <1>5. BelowInv' /\ LockInv' /\ PhaseInv'
    BY <1>1, <1>2, <1>4, MidMove
  <1>6. DataOK'
    BY <1>1 DEF IInv, DataOK
  <1>7. InitsInv'
    BY <1>1, <1>4, MoveInits DEF IInv
  <1>8. Counted' = Counted
    BY <1>1, <1>4, MoveCounted DEF Counted
  <1>9. CacheInv'
    BY <1>1, <1>8 DEF IInv, CacheInv, RealCacheAfterInitialize
  <1>. QED
    BY <1>3, <1>5, <1>6, <1>7, <1>9 DEF IInv

\* cachecount_1 has room for two caches per class.
LEMMA CountedFinite ==
    ASSUME NEW X, X \subseteq Class \X Side
    PROVE  /\ IsFiniteSet(X) /\ Cardinality(X) \in Nat
           /\ Cardinality(X) <= 2 * Cardinality(Class)
  <1>1. IsFiniteSet(Class) /\ Cardinality(Class) \in Nat
    BY ClassAssumption, FS_CardinalityType
  <1>2. IsFiniteSet({"meta"}) /\ Cardinality({"meta"}) = 1
    BY FS_Singleton
  <1>3. IsFiniteSet({"meta"} \cup {"infra"}) /\ Cardinality({"meta"} \cup {"infra"}) = 2
    BY <1>2, FS_AddElement
  <1>4. IsFiniteSet(Side) /\ Cardinality(Side) = 2
    <2>1. Side = {"meta"} \cup {"infra"}
      BY DEF Side
    <2>. QED
      BY <1>3, <2>1
  <1>5. /\ IsFiniteSet(Class \X Side)
        /\ Cardinality(Class \X Side) = Cardinality(Class) * Cardinality(Side)
    BY <1>1, <1>4, FS_Product
  <1>6. IsFiniteSet(X) /\ Cardinality(X) <= Cardinality(Class \X Side)
    BY <1>5, FS_Subset
  <1>7. Cardinality(X) \in Nat
    BY <1>6, FS_CardinalityType
  <1>8. Cardinality(Class \X Side) = 2 * Cardinality(Class)
    BY <1>1, <1>4, <1>5
  <1>. QED
    BY <1>6, <1>7, <1>8

\* Counting one more cache.
LEMMA CountOne ==
    ASSUME CacheInv, NEW c \in Class, NEW side \in Side, <<c, side>> \notin Counted,
           Counted' = Counted \cup {<<c, side>>}, cachecount' = cachecount + 1
    PROVE  cachecount' = Cardinality(Counted')
  <1>1. Counted \subseteq Class \X Side
    BY DEF Counted
  <1>2. IsFiniteSet(Counted)
    BY <1>1, CountedFinite
  <1>3. Cardinality(Counted \cup {<<c, side>>}) = Cardinality(Counted) + 1
    BY <1>2, FS_AddElement
  <1>. QED
    BY <1>3 DEF CacheInv

\* +initialize may install the cache itself.
LEMMA EarlyInstallStep ==
    ASSUME IInv, NEW t \in Thread, NEW c \in Class, NEW side \in Side, EarlyInstall(t, c, side)
    PROVE  IInv'
  <1>1. /\ c \in EarlyCache \ AlwaysEmpty /\ side \notin ready[c]
        /\ cachecount' = cachecount + 1
        /\ cache' = [cache EXCEPT ![c][side] = IF @ = "empty" THEN "real" ELSE @]
        /\ ready' = [ready EXCEPT ![c] = ready[c] \cup {side}]
        /\ UNCHANGED <<lock, thread_id, initializing, done, stack, calls, inits, returned>>
    BY DEF EarlyInstall, bits, history
  <1>2. StackOK' /\ BelowInv' /\ LockInv' /\ PhaseInv' /\ InitsInv'
    BY <1>1 DEF IInv, StackOK, BelowInv, LockInv, PhaseInv, InitsInv, Pc, Cls, FrameAt, Depth
  <1>3. cache' \in [Class -> [Side -> {"initial", "empty", "real"}]]
    BY <1>1 DEF IInv, DataOK
  <1>4. DataOK'
    BY <1>1, <1>3 DEF IInv, DataOK
  <1>5. \A d, s : Swapping(d, s)' <=> Swapping(d, s)
    BY <1>1 DEF Swapping, Pc, Cls, FrameAt, Depth
  <1>6. ~Swapping(c, side)
    <2>1. Height(t) \in Depth(t) /\ Pc(t, Height(t)) = "body" /\ Cls(t, Height(t)) = c
      BY AtTop DEF IInv, EarlyInstall
    <2>2. \A u \in Thread : \A b \in Depth(u) :
             Pc(u, b) \in Mid /\ Cls(u, b) = c => u = t /\ b = Height(t)
      BY <2>1, MidFrame DEF Mid
    <2>. QED
      BY <2>1, <2>2 DEF Swapping, Mid
  <1>7. /\ side \in ready'[c]
        /\ \A d \in Class, s \in Side : <<d, s>> # <<c, side>> => (s \in ready'[d] <=> s \in ready[d])
        /\ \A d \in Class, s \in Side : s \in ready[d] => s \in ready'[d]
    BY <1>1 DEF IInv, DataOK
  <1>8. <<c, side>> \notin Counted
    BY <1>1, <1>6 DEF Counted
  <1>9. Counted' = Counted \cup {<<c, side>>}
    BY <1>1, <1>5, <1>7 DEF Counted
  <1>10. cachecount' = Cardinality(Counted')
    BY <1>1, <1>8, <1>9, CountOne DEF IInv
  <1>11. \A d \in Class : \A s \in Side :
           cache'[d][s] = "real" => cache[d][s] = "real" \/ (d = c /\ s = side)
    BY <1>1 DEF IInv, DataOK
  <1>12. CacheInv'
    BY <1>1, <1>7, <1>10, <1>11 DEF IInv, CacheInv, RealCacheAfterInitialize
  <1>. QED
    BY <1>2, <1>4, <1>12 DEF IInv

\* The new cache is counted,
LEMMA CountCacheStep ==
    ASSUME IInv, NEW t \in Thread, NEW c \in Class, NEW side \in Side, CountCache(t, c, side)
    PROVE  IInv'
  <1>1. UNCHANGED <<lock, thread_id, initializing, done, cache, calls, inits, returned>>
    BY DEF CountCache, bits, history
  <1>. DEFINE p == IF side = "meta" THEN "install_meta" ELSE "install_infra"
              after == IF side = "meta" THEN "install_infra" ELSE "done"
              swap == IF side = "meta" THEN "swap_meta" ELSE "swap_infra"
  <1>2. At(t, p, c)
    BY DEF CountCache
  <1>3. PICK q :
          \/ /\ q = after /\ Goto(t, q) /\ side \in ready[c] /\ UNCHANGED <<ready, cachecount>>
          \/ /\ q = after /\ Goto(t, q) /\ c \in AlwaysEmpty /\ UNCHANGED cachecount
             /\ ready' = [ready EXCEPT ![c] = ready[c] \cup {side}]
          \/ /\ q = swap /\ Goto(t, q) /\ side \notin ready[c] /\ c \notin AlwaysEmpty
             /\ cachecount' = cachecount + 1 /\ UNCHANGED ready
    BY DEF CountCache, AfterInstall
  <1>4. /\ p \in {"install_meta", "install_infra"} /\ after \in {"install_infra", "done"}
        /\ swap \in {"swap_meta", "swap_infra"}
        /\ p \in Mid /\ after \in Mid /\ swap \in Mid /\ after \in Labels /\ swap \in Labels
    BY DEF Mid, Labels, Locked
  <1>5. swap = IF side = "meta" THEN "swap_meta" ELSE "swap_infra"
    OBVIOUS
  <1>. HIDE DEF p, after, swap
  <1>6. q \in Mid /\ q \in Labels /\ Goto(t, q)
    BY <1>3, <1>4
  <1>7. StackOK' /\ \E h \in Nat : MovesTo(t, h, p, c, q)
    BY <1>2, <1>6, GotoMovesTo DEF IInv
  <1>8. PICK h \in Nat : MovesTo(t, h, p, c, q)
    BY <1>7
  <1>9. BelowInv' /\ LockInv' /\ PhaseInv'
    BY <1>1, <1>4, <1>6, <1>8, MidMove
  <1>10. ready' \in [Class -> SUBSET Side]
    BY <1>3 DEF IInv, DataOK
  <1>11. DataOK'
    BY <1>1, <1>10 DEF IInv, DataOK
  <1>12. h \in Depth(t) /\ Pc(t, h) = p /\ Cls(t, h) = c
    BY <1>8 DEF MovesTo
  <1>13. /\ c \in returned \cup IsMixin
         /\ \A u \in Thread : \A b \in Depth(u) :
               Pc(u, b) \in Mid /\ Cls(u, b) = c => u = t /\ b = h
    BY <1>4, <1>12, MidFrame
  <1>14. InitsInv'
    <2>1. /\ q \notin {"deps", "empty_meta", "empty_infra", "self", "body"}
          /\ q \in {"swap_meta", "swap_infra"} => c \notin AlwaysEmpty
      BY <1>3, <1>4
    <2>. QED
      BY <1>1, <1>8, <1>13, <2>1, MoveInits DEF IInv
  <1>15. cachecount' = Cardinality(Counted')
    <2>1. CASE q = after
      <3>1. \A d, s : Swapping(d, s)' <=> Swapping(d, s)
        BY <1>4, <1>8, <2>1, MoveCounted
      <3>2. Counted' = Counted
        <4>1. \A d \in Class, s \in Side : d \notin AlwaysEmpty => (s \in ready'[d] <=> s \in ready[d])
          BY <1>3, <1>4, <2>1 DEF IInv, DataOK
        <4>. QED
          BY <3>1, <4>1 DEF Counted
      <3>. QED
        BY <1>3, <1>4, <2>1, <3>2 DEF IInv, CacheInv
    <2>2. CASE q = swap
      <3>1. side \notin ready[c] /\ c \notin AlwaysEmpty /\ cachecount' = cachecount + 1 /\ UNCHANGED ready
        BY <1>3, <1>4, <2>2
      <3>2. ~Swapping(c, side)
        BY <1>4, <1>12, <1>13 DEF Swapping, Mid
      <3>3. Swapping(c, side)'
        BY <1>5, <1>8, <2>2 DEF Swapping, MovesTo
      <3>4. ASSUME NEW d \in Class, NEW s \in Side, <<d, s>> # <<c, side>>
            PROVE  Swapping(d, s)' <=> Swapping(d, s)
        <4>. DEFINE w == IF s = "meta" THEN "swap_meta" ELSE "swap_infra"
        <4>1. \A u \in Thread : \A b \in Depth(u) :
                 (Cls(u, b)' = d /\ Pc(u, b)' = w) <=> (Cls(u, b) = d /\ Pc(u, b) = w)
          <5>1. d # c \/ s # side
            BY <3>4
          <5>2. d = c => w # q /\ w # p
            BY <1>4, <1>5, <2>2, <5>1 DEF Side
          <5>. QED
            BY <1>8, <5>2 DEF MovesTo
        <4>2. \A u \in Thread : Depth(u)' = Depth(u)
          BY <1>8 DEF MovesTo
        <4>3. Swapping(d, s) <=> \E u \in Thread : \E b \in Depth(u) : Cls(u, b) = d /\ Pc(u, b) = w
          BY DEF Swapping
        <4>4. Swapping(d, s)' <=> \E u \in Thread : \E b \in Depth(u)' : Cls(u, b)' = d /\ Pc(u, b)' = w
          BY DEF Swapping
        <4>. QED
          BY <4>1, <4>2, <4>3, <4>4
      <3>5. <<c, side>> \notin Counted
        BY <3>1, <3>2 DEF Counted
      <3>6. Counted' = Counted \cup {<<c, side>>}
        BY <3>1, <3>3, <3>4 DEF Counted
      <3>. QED
        BY <3>1, <3>5, <3>6, CountOne DEF IInv
    <2>. QED
      BY <1>3, <2>1, <2>2
  <1>16. \A d \in Class, s \in Side : s \in ready[d] => s \in ready'[d]
    BY <1>3 DEF IInv, DataOK
  <1>17. CacheInv'
    BY <1>1, <1>15, <1>16 DEF IInv, CacheInv, RealCacheAfterInitialize
  <1>. QED
    BY <1>7, <1>9, <1>11, <1>14, <1>17 DEF IInv

\* and the cache is installed.
LEMMA SwapCacheStep ==
    ASSUME IInv, NEW t \in Thread, NEW c \in Class, NEW side \in Side, SwapCache(t, c, side)
    PROVE  IInv'
  <1>1. /\ cache' = [cache EXCEPT ![c][side] = IF @ = "empty" THEN "real" ELSE @]
        /\ ready' = [ready EXCEPT ![c] = ready[c] \cup {side}]
        /\ UNCHANGED <<lock, thread_id, initializing, done, cachecount, calls, inits, returned>>
    BY DEF SwapCache, bits, history
  <1>. DEFINE p == IF side = "meta" THEN "swap_meta" ELSE "swap_infra"
              q == IF side = "meta" THEN "install_infra" ELSE "done"
  <1>2. At(t, p, c) /\ Goto(t, q)
    BY DEF SwapCache, AfterInstall
  <1>3. /\ p \in {"swap_meta", "swap_infra"} /\ q \in {"install_infra", "done"}
        /\ p \in Mid /\ q \in Mid /\ q \in Labels
    BY DEF Mid, Labels, Locked
  <1>4. p = IF side = "meta" THEN "swap_meta" ELSE "swap_infra"
    OBVIOUS
  <1>. HIDE DEF p, q
  <1>5. StackOK' /\ \E h \in Nat : MovesTo(t, h, p, c, q)
    BY <1>2, <1>3, GotoMovesTo DEF IInv
  <1>6. PICK h \in Nat : MovesTo(t, h, p, c, q)
    BY <1>5
  <1>7. BelowInv' /\ LockInv' /\ PhaseInv'
    BY <1>1, <1>3, <1>6, MidMove
  <1>8. cache' \in [Class -> [Side -> {"initial", "empty", "real"}]]
    BY <1>1 DEF IInv, DataOK
  <1>9. DataOK'
    BY <1>1, <1>8 DEF IInv, DataOK
  <1>10. h \in Depth(t) /\ Pc(t, h) = p /\ Cls(t, h) = c
    BY <1>6 DEF MovesTo
  <1>11. c \in returned \cup IsMixin /\ c \notin AlwaysEmpty
    BY <1>3, <1>10, MidFrame
  <1>12. InitsInv'
    BY <1>1, <1>3, <1>6, <1>11, MoveInits DEF IInv
  <1>13. /\ side \in ready'[c]
         /\ \A d \in Class, s \in Side : <<d, s>> # <<c, side>> => (s \in ready'[d] <=> s \in ready[d])
         /\ \A d \in Class, s \in Side : s \in ready[d] => s \in ready'[d]
    BY <1>1 DEF IInv, DataOK
  <1>14. Counted' = Counted
    <2>1. Swapping(c, side)
      BY <1>4, <1>10 DEF Swapping
    <2>2. ASSUME NEW d \in Class, NEW s \in Side, <<d, s>> # <<c, side>>
          PROVE  Swapping(d, s)' <=> Swapping(d, s)
      <3>. DEFINE w == IF s = "meta" THEN "swap_meta" ELSE "swap_infra"
      <3>1. \A u \in Thread : \A b \in Depth(u) :
               (Cls(u, b)' = d /\ Pc(u, b)' = w) <=> (Cls(u, b) = d /\ Pc(u, b) = w)
        <4>1. d # c \/ s # side
          BY <2>2
        <4>2. d = c => w # q /\ w # p
          BY <1>3, <1>4, <4>1 DEF Side
        <4>. QED
          BY <1>6, <4>2 DEF MovesTo
      <3>2. \A u \in Thread : Depth(u)' = Depth(u)
        BY <1>6 DEF MovesTo
      <3>3. Swapping(d, s) <=> \E u \in Thread : \E b \in Depth(u) : Cls(u, b) = d /\ Pc(u, b) = w
        BY DEF Swapping
      <3>4. Swapping(d, s)' <=> \E u \in Thread : \E b \in Depth(u)' : Cls(u, b)' = d /\ Pc(u, b)' = w
        BY DEF Swapping
      <3>. QED
        BY <3>1, <3>2, <3>3, <3>4
    <2>. QED
      BY <1>11, <1>13, <2>1, <2>2 DEF Counted
  <1>15. \A d \in Class : \A s \in Side :
           cache'[d][s] = "real" => cache[d][s] = "real" \/ (d = c /\ s = side)
    BY <1>1 DEF IInv, DataOK
  <1>16. CacheInv'
    BY <1>1, <1>11, <1>13, <1>14, <1>15 DEF IInv, CacheInv, RealCacheAfterInitialize
  <1>. QED
    BY <1>5, <1>7, <1>9, <1>12, <1>16 DEF IInv

----------------------------------------------------------------------------
(* The theorem *)

\* The invariant holds at first,
LEMMA InitIInv == Init => IInv
  <1>. SUFFICES ASSUME Init PROVE IInv
    OBVIOUS
  <1>1. \A t \in Thread : Depth(t) = {}
    BY DEF Init, Depth
  <1>2. StackOK
    BY DEF Init, StackOK
  <1>3. DataOK
    BY CallsAssumption DEF Init, DataOK
  <1>4. BelowInv /\ PhaseInv /\ InitsInv
    BY <1>1 DEF Init, BelowInv, PhaseInv, InitsInv
  <1>5. LockInv
    BY <1>1, ThreadAssumption DEF Init, LockInv
  <1>6. CacheInv
    <2>1. \A c, side : ~Swapping(c, side)
      BY <1>1 DEF Swapping
    <2>2. Counted = {}
      BY <2>1 DEF Counted, Init
    <2>3. Cardinality(Counted) = 0
      BY <2>2, FS_EmptySet
    <2>4. \A c \in Class : \A side \in Side : cache[c][side] # "real"
      BY DEF Init
    <2>. QED
      BY <2>3, <2>4 DEF CacheInv, RealCacheAfterInitialize, Init
  <1>. QED
    BY <1>2, <1>3, <1>4, <1>5, <1>6 DEF IInv

\* and every step keeps it.
LEMMA NextIInv == IInv /\ [Next]_vars => IInv'
  <1>. SUFFICES ASSUME IInv, [Next]_vars PROVE IInv'
    OBVIOUS
  <1>1. CASE UNCHANGED vars
    <2>1. /\ \A t \in Thread : Depth(t)' = Depth(t)
          /\ \A t, b : Pc(t, b)' = Pc(t, b) /\ Cls(t, b)' = Cls(t, b)
      BY <1>1 DEF vars, Depth, Pc, Cls, FrameAt
    <2>2. Counted' = Counted
      BY <1>1, <2>1 DEF vars, Counted, Swapping
    <2>3. StackOK' /\ DataOK' /\ BelowInv' /\ LockInv' /\ PhaseInv' /\ InitsInv'
      BY <1>1, <2>1 DEF vars, IInv, StackOK, DataOK, BelowInv, LockInv, PhaseInv, InitsInv
    <2>4. CacheInv'
      BY <1>1, <2>2 DEF vars, IInv, CacheInv, RealCacheAfterInitialize
    <2>. QED
      BY <2>3, <2>4 DEF IInv
  <1>2. ASSUME NEW t \in Thread, Step(t) PROVE IInv'
    <2>1. PICK c \in Class :
        \/ Send(t, c) \/ MethodReturn(t, c)
        \/ Check(t, c) \/ Owner(t, c) \/ Lock(t, c) \/ WriteThreadId(t, c)
        \/ SetInitializing(t, c) \/ Quicker(t, c) \/ SetupDep(t, c)
        \/ CallInitialize(t, c) \/ InitializeReturn(t, c)
        \/ SetDone(t, c) \/ Unlock(t, c)
        \/ \E side \in Side :
              \/ EmptyCache(t, c, side) \/ EarlyInstall(t, c, side)
              \/ CountCache(t, c, side) \/ SwapCache(t, c, side)
      BY <1>2 DEF Step
    <2>. QED
      BY <2>1, SendStep, MethodReturnStep, CheckStep, OwnerStep, LockStep, WriteThreadIdStep,
         SetInitializingStep, QuickerStep, SetupDepStep, CallInitializeStep, InitializeReturnStep,
         SetDoneStep, UnlockStep, EmptyCacheStep, EarlyInstallStep, CountCacheStep, SwapCacheStep
  <1>3. ASSUME NEW t \in Thread, NEW c \in Class \ IsMixin, NEW via \in Side, Message(t, c, via)
        PROVE  IInv'
    BY <1>3, MessageStep
  <1>. QED
    BY <1>1, <1>2, <1>3 DEF Next

\* The invariant implies what the runs check.
LEMMA IInvIsExclusive == IInv => SetupIsExclusive
  <1>. SUFFICES ASSUME IInv PROVE SetupIsExclusive
    OBVIOUS
  <1>1. Counted \subseteq Class \X Side
    BY DEF Counted
  <1>2. cachecount = Cardinality(Counted)
    BY DEF IInv, CacheInv
  <1>3. TypeOK
    <2>1. cachecount \in 0 .. 2 * Cardinality(Class)
      <3>1. Cardinality(Class) \in Nat
        BY ClassAssumption, FS_CardinalityType
      <3>. QED
        BY <1>1, <1>2, <3>1, CountedFinite
    <2>2. \A t \in Thread : \A d \in Depth(t) : stack[t][d] \in FrameRecord
      BY DEF IInv, StackOK, Depth
    <2>. QED
      BY <2>1, <2>2 DEF IInv, DataOK, TypeOK, FrameRecord
  <1>4. InitializeOnce
    BY DEF IInv, InitsInv, InitializeOnce
  <1>5. QuickerIsDone
    <2>. SUFFICES ASSUME NEW t \in Thread, NEW c \in Class, At(t, "quicker", c) PROVE c \in done
      BY DEF QuickerIsDone
    <2>1. Height(t) \in Depth(t) /\ Pc(t, Height(t)) = "quicker" /\ Cls(t, Height(t)) = c
      BY AtTop DEF IInv
    <2>. QED
      BY <2>1 DEF IInv, PhaseInv
  <1>6. InitializerHoldsLock
    <2>. SUFFICES ASSUME NEW c \in initializing \ done
                  PROVE  lock[c] \in Thread /\ thread_id[c] = lock[c] /\ SettingUp(lock[c], c)
      BY DEF InitializerHoldsLock
    <2>1. PICK t \in Thread : lock[c] = t /\ \E b \in Depth(t) : Cls(t, b) = c /\ Pc(t, b) \in Mid
      BY DEF IInv, PhaseInv
    <2>2. PICK b \in Depth(t) : Cls(t, b) = c /\ Pc(t, b) \in Mid
      BY <2>1
    <2>3. Pc(t, b) \in Locked \ {"locked"}
      BY <2>2 DEF Mid, Locked
    <2>4. thread_id[c] = t
      BY <2>2, <2>3 DEF IInv, PhaseInv
    <2>5. PICK d \in Depth(t) : d = Len(stack[t]) + 1 - b
      <3>1. stack[t] \in Seq(FrameRecord)
        BY DEF IInv, StackOK
      <3>2. Len(stack[t]) \in Nat
        BY <3>1
      <3>3. Len(stack[t]) + 1 - b \in 1 .. Len(stack[t])
        BY <3>2 DEF Depth
      <3>. QED
        BY <3>3 DEF Depth
    <2>6. stack[t][d].cls = c /\ stack[t][d].pc \in Locked
      BY <2>2, <2>3, <2>5 DEF Cls, Pc, FrameAt
    <2>7. SettingUp(t, c)
      BY <2>6 DEF SettingUp
    <2>. QED
      BY <2>1, <2>4, <2>7
  <1>7. RealCacheAfterInitialize
    BY DEF IInv, CacheInv
  <1>8. CacheCountCovers
    <2>. DEFINE R == {p \in Class \X Side : cache[p[1]][p[2]] = "real"}
    <2>1. R \subseteq Counted
      BY DEF IInv, CacheInv, Counted
    <2>. HIDE DEF R
    <2>2. Cardinality(R) <= Cardinality(Counted)
      <3>1. IsFiniteSet(Counted)
        BY <1>1, CountedFinite
      <3>. QED
        BY <2>1, <3>1, FS_Subset
    <2>. QED
      BY <1>2, <2>2 DEF R, CacheCountCovers
  <1>. QED
    BY <1>3, <1>4, <1>5, <1>6, <1>7, <1>8 DEF SetupIsExclusive

\* For any threads, finite class hierarchy, mixins and sends of +initialize: one
\* thread sets a class up, once, under its lock, and nobody takes the class for
\* ready before that is done (_mulle_objc_class_setup, class-initialize.c 96-320).
THEOREM SetupExclusion == Spec => []SetupIsExclusive
  <1>1. Spec => []IInv
    BY InitIInv, NextIInv, PTL DEF Spec
  <1>. QED
    BY <1>1, IInvIsExclusive, PTL

----------------------------------------------------------------------------
(* The order of +initialize: what a thread has done before a frame, and    *)
(* which classes may be above which on its stack.                          *)

\* what has been reached: the classes initializing and done, those +initialize was
\* messaged for, and those that let messages through
World == [initializing |-> initializing, done |-> done, inits |-> inits,
          open |-> {c \in Class : cache[c]["meta"] # "initial"}]

\* the n-th class that c depends on is set up, or c itself at the root
Ready(c, n, w) == Deps(c)[n] \in w.done \cup {c}

\* The frame f by itself
Own(f, w) ==
    /\ f.todo \subseteq Sends[f.cls]
    /\ f.pc \in {"check", "owner", "lock", "locked", "enter"} => f.i = 0
    /\ f.pc = "owner" => f.cls \in w.initializing
    /\ f.pc = "unlock" => f.cls \in w.done
    /\ f.pc = "method" => f.via # "dep"
    /\ f.pc = "deps" => f.i <= Len(Deps(f.cls)) /\ \A n \in 1 .. f.i - 1 : Ready(f.cls, n, w)
    /\ f.pc \in Mid \ {"deps"} => \A n \in 1 .. Len(Deps(f.cls)) : Ready(f.cls, n, w)
    /\ f.pc \in {"empty_infra", "self", "body"} => f.cls \in w.open
    /\ f.pc \in Mid \ {"deps", "empty_meta", "empty_infra", "self"}
          => f.cls \in IsMixin \/ w.inits[f.cls] > 0

\* The frame f on top, and f above g: the class g waits for is set up, or f is
\* the one that does it
Last(f, w) == f.pc = "deps" /\ f.i > 0 => Ready(f.cls, f.i, w)
Upon(f, g, w) ==
    g.pc = "deps" /\ g.i > 0 =>
        Ready(g.cls, g.i, w) \/ (f.via = "dep" /\ f.cls = Deps(g.cls)[g.i])

Follows(s, w) ==
    \A d \in 1 .. Len(s) :
        /\ Own(s[d], w)
        /\ d = 1 => Last(s[d], w)
        /\ d > 1 => Upon(s[d - 1], s[d], w)

\* a frame that sets up its own class, again, gets no further than this
Passing == {"check", "owner", "method"}

\* No class on the stack ranks above one that came before, and what a class depends
\* on ranks below it.
Under(f, g, rank) ==
    /\ rank[f.cls] <= rank[g.cls]
    /\ f.via = "dep" => rank[f.cls] < rank[g.cls] \/ (f.cls = g.cls /\ f.pc \in Passing)
    /\ f.via # "dep" => g.pc \in {"self", "body"}
Ranked(s, rank) ==
    /\ \A d, e \in 1 .. Len(s) : d < e => rank[s[d].cls] <= rank[s[e].cls]
    /\ \A d \in 1 .. Len(s) : d > 1 => Under(s[d - 1], s[d], rank)

\* +initialize of c has led to the setup of d, on the stack s; as d was not open to
\* messages then, its +initialize had led to nothing: no circle is closed.
LeadsIn(s, c, d) ==
    \E k \in 1 .. Len(s) :
        /\ k > 1 /\ s[k].cls = c /\ s[k].pc \in {"self", "body"}
        /\ s[k - 1].cls = d /\ s[k - 1].via # "dep" /\ s[k - 1].pc # "method"
NoCircle ==
    \A C \in SUBSET Class : C # {} =>
        \E c \in C : \A d \in C, t \in Thread : ~ LeadsIn(stack[t], c, d)

\* +initialize was messaged for the classes that are done
DoneInv == \A c \in done \ IsMixin : inits[c] > 0

OrderInv(rank) ==
    /\ \A t \in Thread : Ranked(stack[t], rank) /\ Follows(stack[t], World)
    /\ NoCircle
    /\ DoneInv
    /\ SuperMessagedFirst

\* More classes are initializing, done, messaged and open than before.
Grown(w, x) ==
    /\ w.initializing \subseteq x.initializing /\ w.done \subseteq x.done
    /\ \A c \in Class : w.inits[c] > 0 => x.inits[c] > 0
    /\ w.open \subseteq x.open

\* What is so for a frame stays so as the setups go on.
LEMMA OwnGrows ==
    ASSUME NEW f \in FrameRecord, NEW w, NEW x,
           Grown(w, x)
    PROVE  /\ Own(f, w) => Own(f, x)
           /\ Last(f, w) => Last(f, x)
           /\ \A g : Upon(g, f, w) => Upon(g, f, x)
  <1>1. f.cls \in Class
    BY DEF FrameRecord
  <1>2. \A n : Ready(f.cls, n, w) => Ready(f.cls, n, x)
    BY DEF Ready, Grown
  <1>3. Own(f, w) => Own(f, x)
    BY <1>1, <1>2 DEF Own, Grown
  <1>4. Last(f, w) => Last(f, x)
    BY <1>2 DEF Last
  <1>5. \A g : Upon(g, f, w) => Upon(g, f, x)
    BY <1>2 DEF Upon
  <1>. QED
    BY <1>3, <1>4, <1>5

\* What is so for a stack stays so as the setups go on.
LEMMA FollowsGrows ==
    ASSUME NEW s \in Seq(FrameRecord), NEW w, NEW x,
           Grown(w, x), Follows(s, w)
    PROVE  Follows(s, x)
  <1>. SUFFICES ASSUME NEW d \in 1 .. Len(s)
                PROVE  /\ Own(s[d], x)
                       /\ d = 1 => Last(s[d], x)
                       /\ d > 1 => Upon(s[d - 1], s[d], x)
    BY DEF Follows
  <1>1. s[d] \in FrameRecord
    OBVIOUS
  <1>2. /\ Own(s[d], w)
        /\ d = 1 => Last(s[d], w)
        /\ d > 1 => Upon(s[d - 1], s[d], w)
    BY DEF Follows
  <1>3. PICK f \in FrameRecord : f = s[d]
    BY <1>1
  <1>4. /\ Own(f, w) => Own(f, x)
        /\ Last(f, w) => Last(f, x)
        /\ \A g : Upon(g, f, w) => Upon(g, f, x)
    BY OwnGrows
  <1>. QED
    BY <1>2, <1>3, <1>4

\* The top frame is exchanged.
LEMMA FollowsReplace ==
    ASSUME NEW s \in Seq(FrameRecord), s # <<>>, NEW f \in FrameRecord,
           NEW w, Follows(s, w),
           Own(f, w), Last(f, w), Len(s) > 1 => Upon(f, s[2], w)
    PROVE  Follows(<<f>> \o Tail(s), w)
  <1>. DEFINE r == <<f>> \o Tail(s)
  <1>1. /\ Len(r) = Len(s) /\ Len(s) \in Nat \ {0} /\ r[1] = f
        /\ \A d \in 2 .. Len(s) : r[d] = s[d]
    BY SeqReplaceTop
  <1>. HIDE DEF r
  <1>. SUFFICES ASSUME NEW d \in 1 .. Len(s)
                PROVE  /\ Own(r[d], w)
                       /\ d = 1 => Last(r[d], w)
                       /\ d > 1 => Upon(r[d - 1], r[d], w)
    BY <1>1 DEF Follows, r
  <1>2. CASE d = 1
    BY <1>1, <1>2
  <1>3. CASE d = 2
    <2>1. Own(s[2], w) /\ r[2] = s[2] /\ Len(s) > 1
      BY <1>1, <1>3 DEF Follows
    <2>. QED
      BY <1>1, <1>3, <2>1
  <1>4. CASE d > 2
    <2>1. r[d] = s[d] /\ r[d - 1] = s[d - 1] /\ d # 1
      BY <1>1, <1>4
    <2>. QED
      BY <1>4, <2>1 DEF Follows
  <1>. QED
    BY <1>2, <1>3, <1>4

\* A frame is pushed.
LEMMA FollowsPush ==
    ASSUME NEW s \in Seq(FrameRecord), NEW f \in FrameRecord,
           NEW w, Follows(s, w),
           Own(f, w), Last(f, w), Len(s) > 0 => Upon(f, s[1], w)
    PROVE  Follows(<<f>> \o s, w)
  <1>. DEFINE r == <<f>> \o s
  <1>1. /\ Len(r) = Len(s) + 1 /\ Len(s) \in Nat /\ r[1] = f
        /\ \A d \in 1 .. Len(s) : r[d + 1] = s[d]
    BY SeqPush
  <1>. HIDE DEF r
  <1>. SUFFICES ASSUME NEW d \in 1 .. Len(s) + 1
                PROVE  /\ Own(r[d], w)
                       /\ d = 1 => Last(r[d], w)
                       /\ d > 1 => Upon(r[d - 1], r[d], w)
    BY <1>1 DEF Follows, r
  <1>2. CASE d = 1
    BY <1>1, <1>2
  <1>3. CASE d = 2
    <2>1. Own(s[1], w) /\ r[2] = s[1] /\ Len(s) > 0
      <3>1. 1 \in 1 .. Len(s) /\ r[1 + 1] = s[1]
        BY <1>1, <1>3
      <3>. QED
        BY <3>1 DEF Follows
    <2>. QED
      BY <1>1, <1>3, <2>1
  <1>4. CASE d > 2
    <2>1. PICK e \in 2 .. Len(s) : d = e + 1
      <3>1. d - 1 \in 2 .. Len(s) /\ d = (d - 1) + 1
        BY <1>1, <1>4
      <3>. QED
        BY <3>1
    <2>2. e \in 1 .. Len(s) /\ e - 1 \in 1 .. Len(s) /\ d - 1 = (e - 1) + 1
      BY <1>1, <2>1
    <2>3. r[d] = s[e] /\ r[d - 1] = s[e - 1]
      BY <1>1, <2>1, <2>2
    <2>4. Own(s[e], w) /\ Upon(s[e - 1], s[e], w)
      BY <2>1, <2>2 DEF Follows
    <2>. QED
      BY <1>4, <2>3, <2>4
  <1>. QED
    BY <1>1, <1>2, <1>3, <1>4

\* The top frame is popped.
LEMMA FollowsPop ==
    ASSUME NEW s \in Seq(FrameRecord), s # <<>>,
           NEW w, Follows(s, w),
           Len(s) > 1 => Last(s[2], w)
    PROVE  Follows(Tail(s), w)
  <1>. DEFINE r == Tail(s)
  <1>1. /\ Len(r) = Len(s) - 1 /\ Len(s) \in Nat \ {0}
        /\ \A d \in 1 .. Len(s) - 1 : r[d] = s[d + 1]
    BY SeqPop
  <1>. HIDE DEF r
  <1>. SUFFICES ASSUME NEW d \in 1 .. Len(s) - 1
                PROVE  /\ Own(r[d], w)
                       /\ d = 1 => Last(r[d], w)
                       /\ d > 1 => Upon(r[d - 1], r[d], w)
    BY <1>1 DEF Follows, r
  <1>2. d + 1 \in 1 .. Len(s) /\ r[d] = s[d + 1] /\ d + 1 > 1
    BY <1>1
  <1>3. Own(r[d], w)
    BY <1>2 DEF Follows
  <1>4. d = 1 => Last(r[d], w)
    BY <1>1, <1>2
  <1>5. ASSUME d > 1 PROVE Upon(r[d - 1], r[d], w)
    <2>1. d - 1 \in 1 .. Len(s) - 1 /\ (d - 1) + 1 = d /\ (d + 1) - 1 = d
      BY <1>1, <1>5
    <2>2. r[d - 1] = s[d]
      BY <1>1, <2>1
    <2>3. Upon(s[(d + 1) - 1], s[d + 1], w)
      BY <1>2 DEF Follows
    <2>. QED
      BY <1>2, <2>1, <2>2, <2>3
  <1>. QED
    BY <1>3, <1>4, <1>5

\* Ranks are compared like the numbers they are.
LEMMA RankType ==
    ASSUME NEW rank \in [Class -> Nat], NEW s \in Seq(FrameRecord)
    PROVE  Len(s) \in Nat /\ \A d \in 1 .. Len(s) : rank[s[d].cls] \in Nat
  <1>1. \A d \in 1 .. Len(s) : s[d] \in FrameRecord
    OBVIOUS
  <1>2. \A f \in FrameRecord : rank[f.cls] \in Nat
    BY DEF FrameRecord
  <1>. QED
    BY <1>1, <1>2

\* The top frame is exchanged for one of the same class.
LEMMA RankedReplace ==
    ASSUME NEW s \in Seq(FrameRecord), s # <<>>, NEW f \in FrameRecord, NEW rank,
           Ranked(s, rank), f.cls = s[1].cls, Len(s) > 1 => Under(f, s[2], rank)
    PROVE  Ranked(<<f>> \o Tail(s), rank)
  <1>. DEFINE r == <<f>> \o Tail(s)
  <1>1. /\ Len(r) = Len(s) /\ Len(s) \in Nat \ {0} /\ r[1] = f
        /\ \A d \in 2 .. Len(s) : r[d] = s[d]
    BY SeqReplaceTop
  <1>. HIDE DEF r
  <1>2. \A d \in 1 .. Len(s) : r[d].cls = s[d].cls
    <2>. TAKE d \in 1 .. Len(s)
    <2>1. CASE d = 1
      BY <1>1, <2>1
    <2>2. CASE d # 1
      BY <1>1, <2>2
    <2>. QED
      BY <2>1, <2>2
  <1>3. \A d, e \in 1 .. Len(r) : d < e => rank[r[d].cls] <= rank[r[e].cls]
    BY <1>1, <1>2 DEF Ranked
  <1>4. ASSUME NEW d \in 1 .. Len(r), d > 1 PROVE Under(r[d - 1], r[d], rank)
    <2>1. CASE d = 2
      BY <1>1, <1>4, <2>1
    <2>2. CASE d # 2
      <3>1. r[d] = s[d] /\ r[d - 1] = s[d - 1] /\ d \in 1 .. Len(s)
        BY <1>1, <1>4, <2>2
      <3>. QED
        BY <1>4, <3>1 DEF Ranked
    <2>. QED
      BY <2>1, <2>2
  <1>. QED
    BY <1>3, <1>4 DEF Ranked, r

\* A frame is pushed.
LEMMA RankedPush ==
    ASSUME NEW s \in Seq(FrameRecord), NEW f \in FrameRecord, NEW rank \in [Class -> Nat],
           Ranked(s, rank), Len(s) > 0 => Under(f, s[1], rank)
    PROVE  Ranked(<<f>> \o s, rank)
  <1>. DEFINE r == <<f>> \o s
  <1>1. /\ Len(r) = Len(s) + 1 /\ Len(s) \in Nat /\ r[1] = f
        /\ \A d \in 1 .. Len(s) : r[d + 1] = s[d]
    BY SeqPush
  <1>. HIDE DEF r
  <1>2. \A d \in 1 .. Len(s) : rank[s[d].cls] \in Nat
    BY RankType
  <1>3. rank[f.cls] \in Nat
    BY DEF FrameRecord
  <1>4. \A e \in 1 .. Len(s) : rank[f.cls] <= rank[s[e].cls]
    <2>. TAKE e \in 1 .. Len(s)
    <2>1. 1 \in 1 .. Len(s) /\ Len(s) > 0
      BY <1>1
    <2>2. e = 1 \/ rank[s[1].cls] <= rank[s[e].cls]
      BY <2>1 DEF Ranked
    <2>3. rank[f.cls] <= rank[s[1].cls]
      BY <2>1 DEF Under
    <2>. QED
      BY <1>2, <1>3, <2>1, <2>2, <2>3
  <1>5. \A d \in 2 .. Len(r) : d - 1 \in 1 .. Len(s) /\ r[d] = s[d - 1]
    <2>1. \A d \in 2 .. Len(r) : d - 1 \in 1 .. Len(s) /\ (d - 1) + 1 = d
      BY <1>1
    <2>. QED
      BY <1>1, <2>1
  <1>6. ASSUME NEW d \in 1 .. Len(r), NEW e \in 1 .. Len(r), d < e
        PROVE  rank[r[d].cls] <= rank[r[e].cls]
    <2>1. e - 1 \in 1 .. Len(s) /\ r[e] = s[e - 1]
      BY <1>1, <1>5, <1>6
    <2>2. CASE d = 1
      BY <1>1, <1>4, <2>1, <2>2
    <2>3. CASE d # 1
      <3>1. d - 1 \in 1 .. Len(s) /\ r[d] = s[d - 1] /\ d - 1 < e - 1
        BY <1>1, <1>5, <1>6, <2>3
      <3>. QED
        BY <2>1, <3>1 DEF Ranked
    <2>. QED
      BY <2>2, <2>3
  <1>7. ASSUME NEW d \in 1 .. Len(r), d > 1 PROVE Under(r[d - 1], r[d], rank)
    <2>1. d - 1 \in 1 .. Len(s) /\ r[d] = s[d - 1]
      BY <1>1, <1>5, <1>7
    <2>2. CASE d = 2
      BY <1>1, <2>1, <2>2
    <2>3. CASE d # 2
      <3>1. d - 1 \in 2 .. Len(r) /\ d - 1 > 1
        BY <1>1, <1>7, <2>3
      <3>2. r[d - 1] = s[(d - 1) - 1]
        BY <1>5, <3>1
      <3>. QED
        BY <2>1, <3>1, <3>2 DEF Ranked
    <2>. QED
      BY <2>2, <2>3
  <1>. QED
    BY <1>6, <1>7 DEF Ranked, r

\* The top frame is popped.
LEMMA RankedPop ==
    ASSUME NEW s \in Seq(FrameRecord), s # <<>>, NEW rank, Ranked(s, rank)
    PROVE  Ranked(Tail(s), rank)
  <1>. DEFINE r == Tail(s)
  <1>1. /\ Len(r) = Len(s) - 1 /\ Len(s) \in Nat \ {0}
        /\ \A d \in 1 .. Len(s) - 1 : r[d] = s[d + 1]
    BY SeqPop
  <1>. HIDE DEF r
  <1>2. ASSUME NEW d \in 1 .. Len(r), NEW e \in 1 .. Len(r), d < e
        PROVE  rank[r[d].cls] <= rank[r[e].cls]
    <2>1. /\ d + 1 \in 1 .. Len(s) /\ e + 1 \in 1 .. Len(s) /\ d + 1 < e + 1
          /\ r[d] = s[d + 1] /\ r[e] = s[e + 1]
      BY <1>1, <1>2
    <2>. QED
      BY <2>1 DEF Ranked
  <1>3. ASSUME NEW d \in 1 .. Len(r), d > 1 PROVE Under(r[d - 1], r[d], rank)
    <2>1. /\ d + 1 \in 1 .. Len(s) /\ d + 1 > 1 /\ (d + 1) - 1 = d /\ r[d] = s[d + 1]
          /\ d - 1 \in 1 .. Len(s) - 1 /\ (d - 1) + 1 = d
      BY <1>1, <1>3
    <2>2. r[d - 1] = s[d]
      BY <1>1, <2>1
    <2>3. Under(s[(d + 1) - 1], s[d + 1], rank)
      BY <2>1 DEF Ranked
    <2>. QED
      BY <2>1, <2>2, <2>3
  <1>. QED
    BY <1>2, <1>3 DEF Ranked, r

\* What leads where is the same after a replacement of the top frame that keeps class
\* and way, and no more after a return.
LEMMA LeadsReplace ==
    ASSUME NEW s \in Seq(FrameRecord), s # <<>>, NEW f \in FrameRecord,
           f.cls = s[1].cls, f.via = s[1].via, s[1].pc # "method"
    PROVE  \A c, d : LeadsIn(<<f>> \o Tail(s), c, d) => LeadsIn(s, c, d)
  <1>. DEFINE r == <<f>> \o Tail(s)
  <1>1. /\ Len(r) = Len(s) /\ Len(s) \in Nat \ {0} /\ r[1] = f
        /\ \A d \in 2 .. Len(s) : r[d] = s[d]
    BY SeqReplaceTop
  <1>. HIDE DEF r
  <1>. SUFFICES ASSUME NEW c, NEW d, LeadsIn(r, c, d) PROVE LeadsIn(s, c, d)
    BY DEF r
  <1>2. PICK k \in 1 .. Len(r) :
          /\ k > 1 /\ r[k].cls = c /\ r[k].pc \in {"self", "body"}
          /\ r[k - 1].cls = d /\ r[k - 1].via # "dep" /\ r[k - 1].pc # "method"
    BY DEF LeadsIn
  <1>3. k \in 1 .. Len(s) /\ r[k] = s[k]
    BY <1>1, <1>2
  <1>4. s[k - 1].cls = d /\ s[k - 1].via # "dep" /\ s[k - 1].pc # "method"
    <2>1. CASE k = 2
      BY <1>1, <1>2, <2>1
    <2>2. CASE k # 2
      <3>1. k - 1 \in 2 .. Len(s)
        BY <1>1, <1>2, <2>2
      <3>. QED
        BY <1>1, <1>2, <3>1
    <2>. QED
      BY <2>1, <2>2
  <1>. QED
    BY <1>2, <1>3, <1>4 DEF LeadsIn

\* After a return nothing leads anywhere new.
LEMMA LeadsPop ==
    ASSUME NEW s \in Seq(FrameRecord), s # <<>>
    PROVE  \A c, d : LeadsIn(Tail(s), c, d) => LeadsIn(s, c, d)
  <1>. DEFINE r == Tail(s)
  <1>1. /\ Len(r) = Len(s) - 1 /\ Len(s) \in Nat \ {0}
        /\ \A d \in 1 .. Len(s) - 1 : r[d] = s[d + 1]
    BY SeqPop
  <1>. HIDE DEF r
  <1>. SUFFICES ASSUME NEW c, NEW d, LeadsIn(r, c, d) PROVE LeadsIn(s, c, d)
    BY DEF r
  <1>2. PICK k \in 1 .. Len(r) :
          /\ k > 1 /\ r[k].cls = c /\ r[k].pc \in {"self", "body"}
          /\ r[k - 1].cls = d /\ r[k - 1].via # "dep" /\ r[k - 1].pc # "method"
    BY DEF LeadsIn
  <1>3. /\ k \in 1 .. Len(s) - 1 /\ k + 1 \in 1 .. Len(s) /\ k + 1 > 1 /\ (k + 1) - 1 = k
        /\ k - 1 \in 1 .. Len(s) - 1 /\ (k - 1) + 1 = k
    BY <1>1, <1>2
  <1>4. r[k - 1] = s[(k + 1) - 1] /\ r[k] = s[k + 1]
    BY <1>1, <1>3
  <1>. QED
    BY <1>2, <1>3, <1>4 DEF LeadsIn

\* A call leads from the caller's class to the one that is called.
LEMMA LeadsPushOver ==
    ASSUME NEW s \in Seq(FrameRecord), s # <<>>, NEW f \in FrameRecord, NEW g \in FrameRecord,
           g.cls = s[1].cls, g.via = s[1].via, s[1].pc # "method"
    PROVE  \A c, d : LeadsIn(<<f, g>> \o Tail(s), c, d) =>
              \/ LeadsIn(s, c, d)
              \/ c = g.cls /\ d = f.cls /\ f.via # "dep" /\ f.pc # "method"
  <1>. DEFINE r == <<f, g>> \o Tail(s)
              q == <<g>> \o Tail(s)
  <1>1. /\ Len(r) = Len(s) + 1 /\ Len(s) \in Nat \ {0} /\ r[1] = f /\ r[2] = g
        /\ \A d \in 2 .. Len(s) : r[d + 1] = s[d]
    BY SeqPushOver
  <1>2. /\ Len(q) = Len(s) /\ q[1] = g /\ \A d \in 2 .. Len(s) : q[d] = s[d]
    BY SeqReplaceTop
  <1>3. \A c, d : LeadsIn(q, c, d) => LeadsIn(s, c, d)
    BY LeadsReplace
  <1>. HIDE DEF r, q
  <1>. SUFFICES ASSUME NEW c, NEW d, LeadsIn(r, c, d)
                PROVE  LeadsIn(q, c, d) \/ (c = g.cls /\ d = f.cls /\ f.via # "dep" /\ f.pc # "method")
    BY <1>3 DEF r
  <1>4. PICK k \in 1 .. Len(r) :
          /\ k > 1 /\ r[k].cls = c /\ r[k].pc \in {"self", "body"}
          /\ r[k - 1].cls = d /\ r[k - 1].via # "dep" /\ r[k - 1].pc # "method"
    BY DEF LeadsIn
  <1>5. \A j \in 1 .. Len(s) : r[j + 1] = q[j]
    <2>. TAKE j \in 1 .. Len(s)
    <2>1. CASE j = 1
      BY <1>1, <1>2, <2>1
    <2>2. CASE j # 1
      BY <1>1, <1>2, <2>2
    <2>. QED
      BY <2>1, <2>2
  <1>6. CASE k = 2
    BY <1>1, <1>4, <1>6
  <1>7. CASE k # 2
    <2>1. /\ k - 1 \in 1 .. Len(q) /\ k - 1 > 1 /\ (k - 1) + 1 = k
          /\ (k - 1) - 1 \in 1 .. Len(s) /\ ((k - 1) - 1) + 1 = k - 1
      BY <1>1, <1>2, <1>4, <1>7
    <2>2. r[k] = q[k - 1] /\ r[k - 1] = q[(k - 1) - 1]
      BY <1>2, <1>5, <2>1
    <2>. QED
      BY <1>4, <2>1, <2>2 DEF LeadsIn
  <1>. QED
    BY <1>6, <1>7

\* A call that changes the caller's frame on the way is a replacement and a call.
LEMMA SeqTwoPushes ==
    ASSUME NEW s \in Seq(FrameRecord), s # <<>>, NEW f \in FrameRecord, NEW g \in FrameRecord
    PROVE  <<f, g>> \o Tail(s) = <<f>> \o (<<g>> \o Tail(s))
  <1>. DEFINE x == <<f, g>> \o Tail(s)
              r == <<g>> \o Tail(s)
              y == <<f>> \o r
  <1>1. /\ x \in Seq(FrameRecord) /\ Len(x) = Len(s) + 1 /\ Len(s) \in Nat \ {0}
        /\ x[1] = f /\ x[2] = g /\ \A d \in 2 .. Len(s) : x[d + 1] = s[d]
    BY SeqPushOver
  <1>2. /\ r \in Seq(FrameRecord) /\ Len(r) = Len(s) /\ r[1] = g
        /\ \A d \in 2 .. Len(s) : r[d] = s[d]
    BY SeqReplaceTop
  <1>. HIDE DEF x, r
  <1>3. /\ y \in Seq(FrameRecord) /\ Len(y) = Len(r) + 1 /\ y[1] = f
        /\ \A d \in 1 .. Len(r) : y[d + 1] = r[d]
    BY <1>2, SeqPush
  <1>. HIDE DEF y
  <1>4. ASSUME NEW d \in 1 .. Len(s) + 1 PROVE x[d] = y[d]
    <2>1. CASE d = 1
      BY <1>1, <1>3, <2>1
    <2>2. CASE d = 2
      <3>1. y[1 + 1] = r[1]
        BY <1>1, <1>2, <1>3
      <3>. QED
        BY <1>1, <1>2, <2>2, <3>1
    <2>3. CASE d > 2
      <3>1. d - 1 \in 2 .. Len(s) /\ d - 1 \in 1 .. Len(r) /\ (d - 1) + 1 = d
        BY <1>1, <1>2, <2>3
      <3>. QED
        BY <1>1, <1>2, <1>3, <3>1
    <2>. QED
      BY <2>1, <2>2, <2>3
  <1>5. x = y
    BY <1>1, <1>2, <1>3, <1>4
  <1>. QED
    BY <1>5 DEF x, y, r

\* A frame is pushed, and the one below changes on the way.
LEMMA FollowsPushOver ==
    ASSUME NEW s \in Seq(FrameRecord), s # <<>>,
           NEW f \in FrameRecord, NEW g \in FrameRecord,
           NEW w, Follows(s, w),
           Own(f, w), Last(f, w), Own(g, w), Upon(f, g, w),
           Len(s) > 1 => Upon(g, s[2], w)
    PROVE  Follows(<<f, g>> \o Tail(s), w)
  <1>. DEFINE r == <<f, g>> \o Tail(s)
  <1>1. /\ Len(r) = Len(s) + 1 /\ Len(s) \in Nat \ {0} /\ r[1] = f /\ r[2] = g
        /\ \A d \in 2 .. Len(s) : r[d + 1] = s[d]
    BY SeqPushOver
  <1>. HIDE DEF r
  <1>. SUFFICES ASSUME NEW d \in 1 .. Len(s) + 1
                PROVE  /\ Own(r[d], w)
                       /\ d = 1 => Last(r[d], w)
                       /\ d > 1 => Upon(r[d - 1], r[d], w)
    BY <1>1 DEF Follows, r
  <1>2. CASE d = 1
    BY <1>1, <1>2
  <1>3. CASE d = 2
    BY <1>1, <1>3
  <1>4. CASE d > 2
    <2>1. PICK e \in 2 .. Len(s) : d = e + 1
      <3>1. d - 1 \in 2 .. Len(s) /\ d = (d - 1) + 1
        BY <1>1, <1>4
      <3>. QED
        BY <3>1
    <2>2. Own(s[e], w) /\ Upon(s[e - 1], s[e], w) /\ r[d] = s[e]
      <3>1. e \in 1 .. Len(s) /\ e > 1
        BY <1>1, <2>1
      <3>. QED
        BY <1>1, <2>1, <3>1 DEF Follows
    <2>3. CASE e = 2
      <3>1. Len(s) > 1 /\ d - 1 = 2
        BY <1>1, <2>1, <2>3
      <3>. QED
        BY <1>1, <1>4, <2>2, <2>3, <3>1
    <2>4. CASE e > 2
      <3>1. e - 1 \in 2 .. Len(s) /\ d - 1 = (e - 1) + 1
        BY <1>1, <2>1, <2>4
      <3>2. r[d - 1] = s[e - 1]
        BY <1>1, <3>1
      <3>. QED
        BY <1>4, <2>2, <3>2
    <2>. QED
      BY <2>1, <2>3, <2>4
  <1>. QED
    BY <1>1, <1>2, <1>3, <1>4

\* What the invariants say of the top frame and of the one below it
LEMMA TopFollows ==
    ASSUME NEW rank, IInv, OrderInv(rank), NEW t \in Thread, NEW p, NEW c, At(t, p, c)
    PROVE  /\ stack[t] \in Seq(FrameRecord) /\ stack[t] # <<>> /\ Len(stack[t]) \in Nat \ {0}
           /\ Top(t) = stack[t][1] /\ Top(t) \in FrameRecord
           /\ Top(t).pc = p /\ Top(t).cls = c /\ c \in Class
           /\ Own(Top(t), World) /\ Last(Top(t), World)
           /\ Len(stack[t]) > 1 =>
                 /\ stack[t][2] \in FrameRecord
                 /\ Own(stack[t][2], World)
                 /\ Upon(Top(t), stack[t][2], World) /\ Under(Top(t), stack[t][2], rank)
                 /\ stack[t][2].pc \in {"deps", "self", "body"}
                 /\ stack[t][2].cls \in initializing /\ thread_id[stack[t][2].cls] = t
  <1>1. /\ stack[t] \in Seq(FrameRecord) /\ stack[t] # <<>> /\ Len(stack[t]) \in Nat \ {0}
        /\ Top(t) = stack[t][1] /\ Top(t) \in FrameRecord
        /\ Top(t).pc = p /\ Top(t).cls = c
    <2>1. stack[t] \in Seq(FrameRecord) /\ stack[t] # <<>>
      BY DEF IInv, StackOK, At
    <2>. QED
      BY <2>1 DEF Top, At
  <1>2. c \in Class
    BY <1>1 DEF FrameRecord
  <1>3. Follows(stack[t], World) /\ Ranked(stack[t], rank)
    BY DEF OrderInv
  <1>4. Own(Top(t), World) /\ Last(Top(t), World)
    <2>1. 1 \in 1 .. Len(stack[t])
      BY <1>1
    <2>. QED
      BY <1>1, <1>3, <2>1 DEF Follows
  <1>5. ASSUME Len(stack[t]) > 1
        PROVE  /\ stack[t][2] \in FrameRecord
               /\ Own(stack[t][2], World)
               /\ Upon(Top(t), stack[t][2], World) /\ Under(Top(t), stack[t][2], rank)
               /\ stack[t][2].pc \in {"deps", "self", "body"}
               /\ stack[t][2].cls \in initializing /\ thread_id[stack[t][2].cls] = t
    <2>1. 2 \in 1 .. Len(stack[t]) /\ 2 - 1 = 1
      BY <1>1, <1>5
    <2>2. stack[t][2] \in FrameRecord
      BY <1>1, <2>1
    <2>3. Own(stack[t][2], World) /\ Upon(stack[t][2 - 1], stack[t][2], World)
      BY <1>3, <2>1 DEF Follows
    <2>4. Under(stack[t][2 - 1], stack[t][2], rank)
      BY <1>3, <2>1 DEF Ranked
    <2>5. PICK b \in Depth(t) : b = Len(stack[t]) - 1 /\ Len(stack[t]) + 1 - b = 2
      <3>1. Len(stack[t]) - 1 \in 1 .. Len(stack[t]) /\ Len(stack[t]) + 1 - (Len(stack[t]) - 1) = 2
        BY <1>1, <2>1
      <3>. QED
        BY <3>1 DEF Depth
    <2>6. FrameAt(t, b) = stack[t][2] /\ b # Len(stack[t])
      BY <1>1, <2>5 DEF FrameAt
    <2>7. Pc(t, b) \in {"deps", "self", "body"}
      BY <2>6 DEF IInv, BelowInv
    <2>8. Pc(t, b) \in Mid /\ Pc(t, b) \in Locked \ {"locked"}
      BY <2>7 DEF Mid, Locked
    <2>9. Cls(t, b) \in initializing /\ thread_id[Cls(t, b)] = t
      BY <2>8 DEF IInv, PhaseInv
    <2>. QED
      BY <1>1, <2>1, <2>2, <2>3, <2>4, <2>6, <2>7, <2>9 DEF Pc, Cls
  <1>. QED
    BY <1>1, <1>2, <1>4, <1>5

\* The stacks of the other threads follow the order still.
LEMMA OthersFollow ==
    ASSUME NEW rank, IInv, OrderInv(rank), NEW t \in Thread, OthersKept(t),
           Grown(World, World'),
           Ranked(stack'[t], rank), Follows(stack'[t], World'), NoCircle',
           DoneInv', SuperMessagedFirst'
    PROVE  OrderInv(rank)'
  <1>1. ASSUME NEW u \in Thread
        PROVE  Ranked(stack'[u], rank) /\ Follows(stack'[u], World')
    <2>1. CASE u = t
      BY <2>1
    <2>2. CASE u # t
      <3>1. stack'[u] = stack[u] /\ stack[u] \in Seq(FrameRecord)
        BY <2>2 DEF OthersKept, IInv, StackOK
      <3>2. Ranked(stack[u], rank) /\ Follows(stack[u], World)
        BY DEF OrderInv
      <3>3. Follows(stack[u], World')
        BY <3>1, <3>2, FollowsGrows
      <3>. QED
        BY <3>1, <3>2, <3>3
    <2>. QED
      BY <2>1, <2>2
  <1>. QED
    BY <1>1 DEF OrderInv

\* Nothing new is done or messaged.
LEMMA SameHistory ==
    ASSUME NEW rank, OrderInv(rank), UNCHANGED <<done, inits>>
    PROVE  DoneInv' /\ SuperMessagedFirst'
  BY DEF OrderInv, DoneInv, SuperMessagedFirst

\* A step that sets no bit and exchanges no cache is no step of the world.
LEMMA SameWorld ==
    ASSUME UNCHANGED <<initializing, done, inits, cache>>
    PROVE  World' = World /\ Grown(World, World')
  BY DEF Grown, World

\* Such a step keeps what does not depend on the stacks.
LEMMA NothingNew ==
    ASSUME NEW rank, OrderInv(rank), UNCHANGED <<initializing, done, inits, cache>>
    PROVE  World' = World /\ Grown(World, World') /\ DoneInv' /\ SuperMessagedFirst'
  BY SameHistory, SameWorld

\* Nothing leads on.
LEMMA SameCircle ==
    ASSUME NoCircle, NEW t \in Thread, OthersKept(t),
           \A c, d : LeadsIn(stack'[t], c, d) => LeadsIn(stack[t], c, d)
    PROVE  NoCircle'
  <1>1. \A u \in Thread : \A c, d : LeadsIn(stack'[u], c, d) => LeadsIn(stack[u], c, d)
    BY DEF OthersKept
  <1>. SUFFICES ASSUME NEW C \in SUBSET Class, C # {}
                PROVE  \E c \in C : \A d \in C, u \in Thread : ~ LeadsIn(stack'[u], c, d)
    BY DEF NoCircle
  <1>2. PICK c \in C : \A d \in C, u \in Thread : ~ LeadsIn(stack[u], c, d)
    BY DEF NoCircle
  <1>. QED
    BY <1>1, <1>2

\* What leads on leads to a class from which nothing leads on.
LEMMA OpenCircle ==
    ASSUME NEW rank, IInv, OrderInv(rank), NEW t \in Thread, OthersKept(t),
           NEW g \in Class, NEW f \in Class, g # f, f \notin World.open,
           \A c, d : LeadsIn(stack'[t], c, d) => LeadsIn(stack[t], c, d) \/ (c = g /\ d = f)
    PROVE  NoCircle'
  <1>. SUFFICES ASSUME NEW C \in SUBSET Class, C # {}
                PROVE  \E c \in C : \A d \in C, u \in Thread : ~ LeadsIn(stack'[u], c, d)
    BY DEF NoCircle
  <1>1. \A u \in Thread : \A c, d : LeadsIn(stack'[u], c, d) =>
            LeadsIn(stack[u], c, d) \/ (c = g /\ d = f)
    BY DEF OthersKept
  <1>2. \A u \in Thread : \A d : ~ LeadsIn(stack[u], f, d)
    <2>. SUFFICES ASSUME NEW u \in Thread, NEW d, LeadsIn(stack[u], f, d) PROVE FALSE
      OBVIOUS
    <2>1. PICK k \in 1 .. Len(stack[u]) : stack[u][k].cls = f /\ stack[u][k].pc \in {"self", "body"}
      BY DEF LeadsIn
    <2>2. Own(stack[u][k], World)
      BY DEF OrderInv, Follows
    <2>. QED
      BY <2>1, <2>2 DEF Own
  <1>3. CASE f \in C
    BY <1>1, <1>2, <1>3
  <1>4. CASE f \notin C
    <2>1. PICK c \in C : \A d \in C, u \in Thread : ~ LeadsIn(stack[u], c, d)
      BY DEF OrderInv, NoCircle
    <2>2. \A d \in C, u \in Thread : ~ LeadsIn(stack'[u], c, d)
      BY <1>1, <1>4, <2>1
    <2>. QED
      BY <2>2
  <1>. QED
    BY <1>3, <1>4

\* The frame on top of t is the only one for its class c.
Alone(t, c) == Len(stack[t]) > 1 => stack[t][2].cls # c

\* The top frame goes on to another label.
LEMMA GotoOrder ==
    ASSUME NEW rank \in [Class -> Nat], IInv, OrderInv(rank), NEW t \in Thread,
           NEW p, p # "method", NEW c, NEW q \in Labels, At(t, p, c), Goto(t, q),
           Grown(World, World'),
           Own([Top(t) EXCEPT !.pc = q], World'),
           q = "deps" => Top(t).i = 0,
           q \in Passing \/ p \notin Passing \/ Alone(t, c),
           DoneInv', SuperMessagedFirst'
    PROVE  OrderInv(rank)'
  <1>1. /\ stack[t] \in Seq(FrameRecord) /\ stack[t] # <<>> /\ Len(stack[t]) \in Nat \ {0}
        /\ Top(t) = stack[t][1] /\ Top(t) \in FrameRecord
        /\ Top(t).pc = p /\ Top(t).cls = c
        /\ Len(stack[t]) > 1 =>
                 /\ stack[t][2] \in FrameRecord
                 /\ Upon(Top(t), stack[t][2], World) /\ Under(Top(t), stack[t][2], rank)
    BY TopFollows
  <1>2. Ranked(stack[t], rank) /\ Follows(stack[t], World)
    BY DEF OrderInv
  <1>3. OthersKept(t) /\ stack'[t] = <<[Top(t) EXCEPT !.pc = q]>> \o Tail(stack[t])
    <2>1. OthersKept(t)
      BY <1>1, GotoMoves DEF IInv
    <2>2. stack \in [Thread -> Seq(FrameRecord)]
      BY DEF IInv, StackOK
    <2>. QED
      BY <2>1, <2>2 DEF Goto, Replace
  <1>4. PICK f : f = [Top(t) EXCEPT !.pc = q]
    OBVIOUS
  <1>5. /\ f \in FrameRecord /\ f.cls = c /\ f.pc = q
        /\ f.i = Top(t).i /\ f.via = Top(t).via
    BY <1>1, <1>4 DEF FrameRecord
  <1>6. PICK x : x = World'
    OBVIOUS
  <1>7. PICK s \in Seq(FrameRecord) : s = stack[t]
    BY <1>1
  <1>8. Follows(s, x)
    BY <1>2, <1>6, <1>7, FollowsGrows
  <1>9. Last(f, x)
    BY <1>5 DEF Last, FrameRecord
  <1>10. ASSUME Len(s) > 1 PROVE Upon(f, s[2], x) /\ Under(f, s[2], rank)
    <2>1. Upon(f, s[2], World)
      BY <1>1, <1>5, <1>7, <1>10 DEF Upon
    <2>2. Upon(f, s[2], x)
      BY <1>1, <1>6, <1>7, <1>10, <2>1, OwnGrows
    <2>3. Under(f, s[2], rank)
      BY <1>1, <1>5, <1>7, <1>10 DEF Under, Alone
    <2>. QED
      BY <2>2, <2>3
  <1>11. Own(f, x)
    BY <1>4, <1>6
  <1>12. Follows(<<f>> \o Tail(s), x)
    BY <1>1, <1>5, <1>7, <1>8, <1>9, <1>10, <1>11, FollowsReplace
  <1>13. Ranked(<<f>> \o Tail(s), rank)
    BY <1>1, <1>2, <1>5, <1>7, <1>10, RankedReplace
  <1>14. stack'[t] = <<f>> \o Tail(s)
    BY <1>3, <1>4, <1>7
  <1>15. NoCircle'
    <2>1. s # <<>> /\ f.cls = s[1].cls /\ f.via = s[1].via /\ s[1].pc # "method"
      BY <1>1, <1>5, <1>7
    <2>2. \A d, e : LeadsIn(<<f>> \o Tail(s), d, e) => LeadsIn(s, d, e)
      BY <1>5, <2>1, LeadsReplace
    <2>3. \A d, e : LeadsIn(stack'[t], d, e) => LeadsIn(stack[t], d, e)
      BY <1>7, <1>14, <2>2
    <2>. QED
      BY <1>3, <2>3, SameCircle DEF OrderInv
  <1>. QED
    BY <1>3, <1>6, <1>12, <1>13, <1>14, <1>15, OthersFollow

\* The top frame returns to the one below, which goes on.
LEMMA PopOrder ==
    ASSUME NEW rank \in [Class -> Nat], IInv, OrderInv(rank), NEW t \in Thread, NEW p, NEW c,
           At(t, p, c), stack' = [stack EXCEPT ![t] = Tail(@)],
           UNCHANGED <<initializing, done, inits, cache>>,
           \/ Top(t).via # "dep"
           \/ c \in done
           \/ ~ Alone(t, c)
    PROVE  OrderInv(rank)'
  <1>1. /\ stack[t] \in Seq(FrameRecord) /\ stack[t] # <<>> /\ Len(stack[t]) \in Nat \ {0}
        /\ Top(t) = stack[t][1] /\ Top(t) \in FrameRecord
        /\ Top(t).pc = p /\ Top(t).cls = c
        /\ Len(stack[t]) > 1 =>
                 /\ stack[t][2] \in FrameRecord
                 /\ Own(stack[t][2], World)
                 /\ Upon(Top(t), stack[t][2], World)
    BY TopFollows
  <1>2. Ranked(stack[t], rank) /\ Follows(stack[t], World)
    BY DEF OrderInv
  <1>3. OthersKept(t) /\ stack'[t] = Tail(stack[t])
    <2>1. OthersKept(t)
      BY <1>1, PopReturns DEF IInv
    <2>2. stack \in [Thread -> Seq(FrameRecord)]
      BY DEF IInv, StackOK
    <2>. QED
      BY <2>1, <2>2
  <1>4. Len(stack[t]) > 1 => Last(stack[t][2], World)
    BY <1>1 DEF Upon, Last, Alone, Ready, World
  <1>5. Follows(Tail(stack[t]), World)
    BY <1>1, <1>2, <1>4, FollowsPop
  <1>6. Ranked(Tail(stack[t]), rank)
    BY <1>1, <1>2, RankedPop
  <1>7. World' = World /\ Grown(World, World') /\ DoneInv' /\ SuperMessagedFirst'
    BY SameHistory, SameWorld
  <1>8. Ranked(stack'[t], rank) /\ Follows(stack'[t], World')
    BY <1>3, <1>5, <1>6, <1>7
  <1>9. NoCircle'
    <2>1. \A d, e : LeadsIn(Tail(stack[t]), d, e) => LeadsIn(stack[t], d, e)
      <3>1. PICK s \in Seq(FrameRecord) : s = stack[t] /\ s # <<>>
        BY <1>1
      <3>2. \A d, e : LeadsIn(Tail(s), d, e) => LeadsIn(s, d, e)
        BY <3>1, LeadsPop
      <3>. QED
        BY <3>1, <3>2
    <2>. QED
      BY <1>3, <2>1, SameCircle DEF OrderInv
  <1>. QED
    BY <1>3, <1>7, <1>8, <1>9, OthersFollow

\* A new frame starts with a check or a method.
LEMMA NewOwn ==
    ASSUME NEW f \in FrameRecord, f.todo = Sends[f.cls], f.i = 0,
           f.pc \in {"check", "method"}, f.pc = "method" => f.via # "dep",
           NEW w
    PROVE  Own(f, w) /\ Last(f, w)
  BY DEF Own, Last, Mid

\* A call from the frame on top, which may change on the way
LEMMA CallOrder ==
    ASSUME NEW rank \in [Class -> Nat], IInv, OrderInv(rank), NEW t \in Thread,
           NEW p \in {"deps", "self", "body"}, NEW c, At(t, p, c),
           NEW f \in FrameRecord, NEW g \in FrameRecord,
           stack' = [stack EXCEPT ![t] = <<f, g>> \o Tail(@)],
           UNCHANGED <<initializing, done, inits, cache>>,
           f.via = "dep" \/ f.pc = "method" \/ (f.cls \notin World.open /\ f.cls # c),
           g.cls = c, g.pc = p, g.via = Top(t).via, Own(g, World),
           Upon(f, g, World), Under(f, g, rank),
           Own(f, World), Last(f, World)
    PROVE  OrderInv(rank)'
  <1>1. /\ stack[t] \in Seq(FrameRecord) /\ stack[t] # <<>> /\ Len(stack[t]) \in Nat \ {0}
        /\ Top(t) = stack[t][1] /\ Top(t) \in FrameRecord
        /\ Top(t).pc = p /\ Top(t).cls = c
        /\ Len(stack[t]) > 1 =>
                 /\ stack[t][2] \in FrameRecord
                 /\ Upon(Top(t), stack[t][2], World) /\ Under(Top(t), stack[t][2], rank)
    BY TopFollows
  <1>2. Ranked(stack[t], rank) /\ Follows(stack[t], World)
    BY DEF OrderInv
  <1>3. OthersKept(t) /\ stack'[t] = <<f, g>> \o Tail(stack[t])
    <2>1. OthersKept(t)
      BY <1>1, PushOverCalls DEF IInv
    <2>2. stack \in [Thread -> Seq(FrameRecord)]
      BY DEF IInv, StackOK
    <2>. QED
      BY <2>1, <2>2
  <1>5. PICK s \in Seq(FrameRecord) : s = stack[t]
    BY <1>1
  <1>6. PICK w : w = World
    OBVIOUS
  <1>. DEFINE r == <<g>> \o Tail(s)
  <1>7. /\ r \in Seq(FrameRecord) /\ Len(r) = Len(s) /\ r[1] = g
    BY <1>1, <1>5, SeqReplaceTop
  <1>8. ASSUME Len(s) > 1 PROVE Upon(g, s[2], w) /\ Under(g, s[2], rank)
    <2>1. Upon(g, s[2], w)
      BY <1>1, <1>5, <1>6, <1>8 DEF Upon
    <2>2. Under(g, s[2], rank)
      BY <1>1, <1>5, <1>8 DEF Under
    <2>. QED
      BY <2>1, <2>2
  <1>9. Ranked(r, rank)
    <2>1. s # <<>> /\ g.cls = s[1].cls /\ Ranked(s, rank)
      BY <1>1, <1>2, <1>5
    <2>. QED
      BY <1>8, <2>1, RankedReplace
  <1>10. Follows(<<f, g>> \o Tail(s), w)
    <2>1. s # <<>> /\ Follows(s, w)
      BY <1>1, <1>2, <1>5, <1>6
    <2>2. Own(g, w) /\ Own(f, w) /\ Last(f, w) /\ Upon(f, g, w)
      BY <1>6
    <2>. QED
      BY <1>8, <2>1, <2>2, FollowsPushOver
  <1>11. Ranked(<<f, g>> \o Tail(s), rank)
    <2>1. s # <<>> /\ <<f, g>> \o Tail(s) = <<f>> \o r
      BY <1>1, <1>5, SeqTwoPushes
    <2>2. Under(f, r[1], rank)
      BY <1>7
    <2>. HIDE DEF r
    <2>3. Ranked(<<f>> \o r, rank)
      BY <1>7, <1>9, <2>2, RankedPush
    <2>. QED
      BY <2>1, <2>3
  <1>12. World' = World /\ Grown(World, World') /\ DoneInv' /\ SuperMessagedFirst'
    BY SameHistory, SameWorld
  <1>13. Ranked(stack'[t], rank) /\ Follows(stack'[t], World')
    BY <1>3, <1>5, <1>6, <1>10, <1>11, <1>12
  <1>14. NoCircle'
    <2>1. s # <<>> /\ g.cls = s[1].cls /\ g.via = s[1].via /\ s[1].pc # "method"
      BY <1>1, <1>5
    <2>2. \A d, e : LeadsIn(<<f, g>> \o Tail(s), d, e) =>
              LeadsIn(s, d, e) \/ (d = g.cls /\ e = f.cls /\ f.via # "dep" /\ f.pc # "method")
      BY <2>1, LeadsPushOver
    <2>3. CASE f.via = "dep" \/ f.pc = "method"
      <3>1. \A d, e : LeadsIn(stack'[t], d, e) => LeadsIn(stack[t], d, e)
        BY <1>3, <1>5, <2>2, <2>3
      <3>. QED
        BY <1>3, <3>1, SameCircle DEF OrderInv
    <2>4. CASE f.cls \notin World.open /\ f.cls # c
      <3>1. PICK x, y : x = f.cls /\ y = g.cls
        OBVIOUS
      <3>2. \A d, e : LeadsIn(stack'[t], d, e) => LeadsIn(stack[t], d, e) \/ (d = y /\ e = x)
        BY <1>3, <1>5, <2>2, <3>1
      <3>3. x \notin World.open
        BY <2>4, <3>1
      <3>4. y # x
        BY <2>4, <3>1
      <3>5. OthersKept(t)
        BY <1>3
      <3>6. x \in Class /\ y \in Class
        BY <3>1 DEF FrameRecord
      <3>. HIDE DEF r
      <3>. QED
        BY <3>2, <3>3, <3>4, <3>5, <3>6, OpenCircle
    <2>. QED
      BY <2>3, <2>4
  <1>. QED
    BY <1>3, <1>12, <1>13, <1>14, OthersFollow

\* What a class depends on ranks below it, but for the root, which is its own.
LEMMA DepsBelow ==
    ASSUME NEW rank \in [Class -> Nat], Descending(rank), NEW c \in Class
    PROVE  /\ \A n \in 1 .. Len(Deps(c)) : rank[Deps(c)[n]] < rank[c] \/ Deps(c)[n] = c
           /\ Super[c] # NoClass => \E n \in 1 .. Len(Deps(c)) : Deps(c)[n] = Super[c]
           /\ \A m \in Range(Mixins[c]) : \E n \in 1 .. Len(Deps(c)) : Deps(c)[n] = m
  <1>1. PICK m : m = Mixins[c]
    OBVIOUS
  <1>2. m \in Seq(Class)
    <2>1. Mixins[c] \in Seq(IsMixin) /\ IsMixin \subseteq Class
      BY ClassAssumption
    <2>. QED
      BY <1>1, <2>1
  <1>3. /\ Len(m) \in Nat /\ \A k \in 1 .. Len(m) : m[k] \in Range(m)
        /\ \A x \in Range(m) : \E k \in 1 .. Len(m) : m[k] = x
    BY <1>2 DEF Range
  <1>4. \A k \in 1 .. Len(m) : rank[m[k]] < rank[c]
    BY <1>1, <1>3 DEF Descending
  <1>5. CASE Super[c] = NoClass
    <2>1. Deps(c) = <<c>> \o m
      BY <1>1, <1>5 DEF Deps
    <2>2. /\ Len(Deps(c)) = Len(m) + 1 /\ Deps(c)[1] = c
          /\ \A k \in 1 .. Len(m) : Deps(c)[k + 1] = m[k]
      BY <1>2, <2>1
    <2>3. \A n \in 2 .. Len(m) + 1 : n - 1 \in 1 .. Len(m) /\ (n - 1) + 1 = n
      BY <1>3
    <2>4. \A k \in 1 .. Len(m) : k + 1 \in 1 .. Len(m) + 1
      BY <1>3
    <2>5. \A n \in 2 .. Len(Deps(c)) : rank[Deps(c)[n]] < rank[c]
      BY <1>4, <2>2, <2>3
    <2>6. \A x \in Range(m) : \E n \in 1 .. Len(Deps(c)) : Deps(c)[n] = x
      BY <1>3, <2>2, <2>4
    <2>. QED
      BY <1>1, <1>3, <1>5, <2>2, <2>5, <2>6
  <1>6. CASE Super[c] # NoClass
    <2>1. Super[c] \in Class /\ rank[Super[c]] < rank[c]
      BY <1>6, ClassAssumption DEF Descending
    <2>2. PICK p \in Class : p = Super[c]
      BY <2>1
    <2>3. Deps(c) = <<p>> \o m \o <<p>>
      BY <1>1, <1>6, <2>2 DEF Deps
    <2>4. /\ Len(Deps(c)) = Len(m) + 2 /\ Deps(c)[1] = p /\ Deps(c)[Len(m) + 2] = p
          /\ \A k \in 1 .. Len(m) : Deps(c)[k + 1] = m[k]
      BY <1>2, <2>3
    <2>5. \A n \in 1 .. Len(m) + 2 :
              n = 1 \/ n = Len(m) + 2 \/ (n - 1 \in 1 .. Len(m) /\ (n - 1) + 1 = n)
      BY <1>3
    <2>6. 1 \in 1 .. Len(m) + 2 /\ \A k \in 1 .. Len(m) : k + 1 \in 1 .. Len(m) + 2
      BY <1>3
    <2>7. \A n \in 1 .. Len(Deps(c)) : rank[Deps(c)[n]] < rank[c]
      BY <1>4, <2>1, <2>2, <2>4, <2>5
    <2>8. \A x \in Range(m) : \E n \in 1 .. Len(Deps(c)) : Deps(c)[n] = x
      BY <1>3, <2>4, <2>6
    <2>. QED
      BY <1>1, <2>2, <2>4, <2>6, <2>7, <2>8
  <1>. QED
    BY <1>5, <1>6

\* A message to a class below the sender's, or from outside
LEMMA DispatchOwn ==
    ASSUME NEW c \in Class, NEW via \in Side, NEW w
    PROVE  /\ Dispatch(c, via) \in FrameRecord /\ Dispatch(c, via).cls = c
           /\ Dispatch(c, via).pc \in {"check", "method"}
           /\ Own(Dispatch(c, via), w) /\ Last(Dispatch(c, via), w)
           /\ Dispatch(c, via).pc = "method" \/ cache[c][via] = "initial"
  <1>1. Dispatch(c, via) \in FrameRecord /\ Dispatch(c, via).pc \in {"check", "method"}
    BY Dispatched
  <1>2. /\ Dispatch(c, via).cls = c /\ Dispatch(c, via).via = via /\ Dispatch(c, via).i = 0
        /\ Dispatch(c, via).todo = Sends[c]
        /\ Dispatch(c, via).pc = "method" \/ cache[c][via] = "initial"
    BY DEF Dispatch, Frame
  <1>3. PICK f : f = Dispatch(c, via)
    OBVIOUS
  <1>4. f.via # "dep"
    BY <1>2, <1>3 DEF Side
  <1>. QED
    BY <1>1, <1>2, <1>3, <1>4, NewOwn

\* A message from outside starts a stack.
LEMMA MessageOrder ==
    ASSUME NEW rank \in [Class -> Nat], IInv, OrderInv(rank),
           NEW t \in Thread, NEW c \in Class, NEW via \in Side, Message(t, c, via)
    PROVE  OrderInv(rank)'
  <1>1. PICK f : f = Dispatch(c, via)
    OBVIOUS
  <1>2. PICK w : w = World
    OBVIOUS
  <1>3. f \in FrameRecord /\ Own(f, w) /\ Last(f, w)
    BY <1>1, DispatchOwn
  <1>4. Push(t, f) /\ stack[t] = <<>> /\ UNCHANGED <<initializing, done, inits, cache>>
    BY <1>1 DEF Message, bits, caching
  <1>5. OthersKept(t)
    BY <1>3, <1>4, PushCalls DEF IInv
  <1>6. PICK s \in Seq(FrameRecord) : s = stack[t] /\ Len(s) = 0
    BY <1>4 DEF IInv, StackOK
  <1>7. stack'[t] = <<f>> \o s
    BY <1>4, <1>6 DEF Push, IInv, StackOK
  <1>8. Follows(s, w) /\ Ranked(s, rank)
    BY <1>2, <1>6 DEF OrderInv
  <1>9. Follows(<<f>> \o s, w)
    BY <1>3, <1>6, <1>8, FollowsPush
  <1>10. Ranked(<<f>> \o s, rank)
    BY <1>3, <1>6, <1>8, RankedPush
  <1>11. World' = World /\ Grown(World, World') /\ DoneInv' /\ SuperMessagedFirst'
    BY <1>4, NothingNew
  <1>12. Ranked(stack'[t], rank) /\ Follows(stack'[t], World')
    BY <1>2, <1>7, <1>9, <1>10, <1>11
  <1>13. NoCircle'
    <2>1. Len(stack'[t]) = 1
      BY <1>3, <1>6, <1>7
    <2>2. \A x, y : ~ LeadsIn(stack'[t], x, y)
      BY <2>1 DEF LeadsIn
    <2>. QED
      BY <1>5, <2>2, SameCircle DEF OrderInv
  <1>. QED
    BY <1>5, <1>11, <1>12, <1>13, OthersFollow

\* +initialize messages a class that does not rank above its own; if that class is set up
\* for it, it was not open before, so that its +initialize had led to nothing.
LEMMA SendOrder ==
    ASSUME NEW rank \in [Class -> Nat], Descending(rank), IInv, OrderInv(rank),
           NEW t \in Thread, NEW c \in Class, Send(t, c)
    PROVE  OrderInv(rank)'
  <1>1. PICK pc \in {"self", "body"} : At(t, pc, c)
    BY DEF Send
  <1>2. /\ Top(t) \in FrameRecord /\ Top(t).pc = pc /\ Top(t).cls = c
        /\ Own(Top(t), World)
    BY <1>1, TopFollows
  <1>3. PICK d \in Top(t).todo :
          stack' = [stack EXCEPT ![t] = <<Dispatch(d, "meta"),
                              [Top(t) EXCEPT !.todo = Top(t).todo \ {d}]>> \o Tail(@)]
    BY DEF Send
  <1>4. PICK f : f = Dispatch(d, "meta")
    OBVIOUS
  <1>5. PICK g : g = [Top(t) EXCEPT !.todo = Top(t).todo \ {d}]
    OBVIOUS
  <1>6. d \in Class /\ d \in Sends[c]
    BY <1>2 DEF FrameRecord, Own
  <1>7. /\ f \in FrameRecord /\ f.cls = d /\ f.pc \in {"check", "method"}
        /\ Own(f, World) /\ Last(f, World)
        /\ f.pc = "method" \/ cache[d]["meta"] = "initial"
    <2>1. "meta" \in Side
      BY DEF Side
    <2>. QED
      BY <1>4, <1>6, <2>1, DispatchOwn
  <1>8. /\ g \in FrameRecord /\ g.cls = c /\ g.pc = pc /\ g.via = Top(t).via
        /\ g.i = Top(t).i /\ g.todo \subseteq Top(t).todo
    BY <1>2, <1>5 DEF FrameRecord
  <1>9. Own(g, World)
    BY <1>2, <1>8 DEF Own
  <1>10. Upon(f, g, World)
    BY <1>8 DEF Upon
  <1>11. Under(f, g, rank)
    <2>1. rank[d] <= rank[c] /\ f.via # "dep"
      BY <1>4, <1>6, <1>7 DEF Descending, Dispatch, Frame
    <2>. QED
      BY <1>7, <1>8, <2>1 DEF Under
  <1>12. UNCHANGED <<initializing, done, inits, cache>>
    BY DEF Send, bits, caching, history
  <1>13. stack' = [stack EXCEPT ![t] = <<f, g>> \o Tail(@)]
    BY <1>3, <1>4, <1>5
  <1>14. f.pc = "method" \/ (f.cls \notin World.open /\ f.cls # c)
    <2>1. c \in World.open
      BY <1>2 DEF Own
    <2>2. f.pc = "method" \/ d \notin World.open
      BY <1>7 DEF World
    <2>. QED
      BY <1>7, <2>1, <2>2
  <1>15. pc \in {"deps", "self", "body"}
    OBVIOUS
  <1>. QED
    BY <1>1, <1>7, <1>8, <1>9, <1>10, <1>11, <1>12, <1>13, <1>14, <1>15, CallOrder

\* The return of a method
LEMMA MethodReturnOrder ==
    ASSUME NEW rank \in [Class -> Nat], IInv, OrderInv(rank),
           NEW t \in Thread, NEW c \in Class, MethodReturn(t, c)
    PROVE  OrderInv(rank)'
  <1>1. /\ At(t, "method", c) /\ stack' = [stack EXCEPT ![t] = Tail(@)]
        /\ UNCHANGED <<initializing, done, inits, cache>>
    BY DEF MethodReturn, bits, caching, history
  <1>2. Top(t).via # "dep"
    BY <1>1, TopFollows DEF Own
  <1>. QED
    BY <1>1, <1>2, PopOrder

\* A class that is not initializing, or not by this thread, is not on its stack.
LEMMA AloneOnTop ==
    ASSUME NEW rank, IInv, OrderInv(rank), NEW t \in Thread, NEW p, NEW c, At(t, p, c),
           c \notin initializing \/ thread_id[c] # t
    PROVE  Alone(t, c)
  BY TopFollows DEF Alone

\* The check of INITIALIZING
LEMMA CheckOrder ==
    ASSUME NEW rank \in [Class -> Nat], IInv, OrderInv(rank),
           NEW t \in Thread, NEW c \in Class, Check(t, c)
    PROVE  OrderInv(rank)'
  <1>1. PICK q \in {"owner", "lock"} :
          /\ At(t, "check", c) /\ Goto(t, q)
          /\ IF c \in initializing THEN q = "owner" ELSE q = "lock"
    BY DEF Check
  <1>2. UNCHANGED <<initializing, done, inits, cache>>
    BY DEF Check, bits, caching, history
  <1>3. /\ Top(t) \in FrameRecord /\ Top(t).pc = "check" /\ Top(t).cls = c
        /\ Own(Top(t), World)
    BY <1>1, TopFollows
  <1>4. q \in Passing \/ Alone(t, c)
    BY <1>1, AloneOnTop DEF Passing
  <1>5. Own([Top(t) EXCEPT !.pc = q], World')
    <2>1. Own([Top(t) EXCEPT !.pc = q], World)
      BY <1>1, <1>3 DEF Own, FrameRecord, Mid, World
    <2>. QED
      BY <1>2, <2>1, SameWorld
  <1>6. World' = World /\ Grown(World, World') /\ DoneInv' /\ SuperMessagedFirst'
    BY <1>2, NothingNew
  <1>7. q \in Labels /\ q # "deps"
    BY DEF Labels
  <1>. QED
    BY <1>1, <1>4, <1>5, <1>6, <1>7, GotoOrder

\* A class that this thread initializes is the one below on its stack, or done.
LEMMA OwnerInside ==
    ASSUME NEW rank \in [Class -> Nat], IInv, OrderInv(rank), NEW t \in Thread,
           NEW c \in Class, At(t, "owner", c), Top(t).via = "dep", thread_id[c] = t
    PROVE  c \in done \/ ~ Alone(t, c)
  <1>. SUFFICES ASSUME c \notin done PROVE ~ Alone(t, c)
    OBVIOUS
  <1>1. /\ stack[t] \in Seq(FrameRecord) /\ stack[t] # <<>> /\ Len(stack[t]) \in Nat \ {0}
        /\ Top(t) = stack[t][1] /\ Top(t).pc = "owner" /\ Top(t).cls = c
        /\ Own(Top(t), World)
        /\ Len(stack[t]) > 1 => Under(Top(t), stack[t][2], rank)
    BY TopFollows
  <1>2. c \in initializing \ done
    BY <1>1 DEF Own, World
  <1>3. PICK u \in Thread : lock[c] = u /\ \E b \in Depth(u) : Cls(u, b) = c /\ Pc(u, b) \in Mid
    BY <1>2 DEF IInv, PhaseInv
  <1>4. PICK b \in Depth(u) : Cls(u, b) = c /\ Pc(u, b) \in Mid
    BY <1>3
  <1>5. thread_id[c] = u
    <2>1. Pc(u, b) \in Locked \ {"locked"}
      BY <1>4 DEF Mid, Locked
    <2>. QED
      BY <1>4, <2>1 DEF IInv, PhaseInv
  <1>6. u = t
    BY <1>5
  <1>7. PICK e \in 1 .. Len(stack[t]) : e = Len(stack[t]) + 1 - b
    <2>1. Len(stack[t]) + 1 - b \in 1 .. Len(stack[t])
      BY <1>1, <1>6 DEF Depth
    <2>. QED
      BY <2>1
  <1>8. stack[t][e].cls = c /\ stack[t][e].pc \in Mid
    BY <1>4, <1>6, <1>7 DEF Cls, Pc, FrameAt
  <1>9. e # 1
    BY <1>1, <1>8 DEF Mid
  <1>10. \A d \in 1 .. Len(stack[t]) : rank[stack[t][d].cls] \in Nat
    BY <1>1, RankType
  <1>11. ASSUME stack[t][2].cls # c PROVE FALSE
    <2>1. 2 \in 1 .. Len(stack[t]) /\ e > 2 /\ Len(stack[t]) > 1
      BY <1>1, <1>7, <1>8, <1>9, <1>11
    <2>2. rank[c] < rank[stack[t][2].cls]
      BY <1>1, <1>11, <2>1 DEF Under
    <2>3. rank[stack[t][2].cls] <= rank[c]
      BY <1>8, <2>1 DEF OrderInv, Ranked
    <2>. QED
      BY <1>10, <2>1, <2>2, <2>3
  <1>12. Len(stack[t]) > 1
    BY <1>1, <1>7, <1>9
  <1>. QED
    BY <1>11, <1>12 DEF Alone

\* The check of thread_id: the thread that initializes goes on without the lock.
LEMMA OwnerOrder ==
    ASSUME NEW rank \in [Class -> Nat], IInv, OrderInv(rank),
           NEW t \in Thread, NEW c \in Class, Owner(t, c)
    PROVE  OrderInv(rank)'
  <1>1. At(t, "owner", c) /\ UNCHANGED <<initializing, done, inits, cache>>
    BY DEF Owner, bits, caching, history
  <1>2. /\ Top(t) \in FrameRecord /\ Top(t).pc = "owner" /\ Top(t).cls = c
        /\ Own(Top(t), World)
    BY <1>1, TopFollows
  <1>3. World' = World /\ Grown(World, World') /\ DoneInv' /\ SuperMessagedFirst'
    BY <1>1, NothingNew
  <1>4. CASE thread_id[c] = t /\ Top(t).via = "dep"
    <2>1. stack' = [stack EXCEPT ![t] = Tail(@)]
      BY <1>4 DEF Owner, Return
    <2>2. c \in done \/ ~ Alone(t, c)
      BY <1>1, <1>4, OwnerInside
    <2>. QED
      BY <1>1, <2>1, <2>2, PopOrder
  <1>5. CASE thread_id[c] = t /\ Top(t).via # "dep"
    <2>1. Goto(t, "method")
      BY <1>5 DEF Owner, Return
    <2>2. Own([Top(t) EXCEPT !.pc = "method"], World')
      BY <1>2, <1>3, <1>5 DEF Own, FrameRecord, Mid
    <2>3. "method" \in Labels /\ "method" \in Passing
      BY DEF Labels, Passing
    <2>. QED
      BY <1>1, <1>3, <2>1, <2>2, <2>3, GotoOrder
  <1>6. CASE thread_id[c] # t
    <2>1. Goto(t, "lock")
      BY <1>6 DEF Owner
    <2>2. Own([Top(t) EXCEPT !.pc = "lock"], World')
      BY <1>2, <1>3 DEF Own, FrameRecord, Mid
    <2>3. "lock" \in Labels
      BY DEF Labels
    <2>4. Alone(t, c)
      BY <1>1, <1>6, AloneOnTop
    <2>. QED
      BY <1>1, <1>3, <2>1, <2>2, <2>3, <2>4, GotoOrder
  <1>. QED
    BY <1>4, <1>5, <1>6

\* A step past the check that only moves on
LEMMA MoveOrder ==
    ASSUME NEW rank \in [Class -> Nat], IInv, OrderInv(rank), NEW t \in Thread,
           NEW p \in Labels \ Passing, NEW c, NEW q \in Labels, At(t, p, c), Goto(t, q),
           Grown(World, World'), UNCHANGED <<done, inits>>,
           Own([Top(t) EXCEPT !.pc = q], World'),
           q = "deps" => Top(t).i = 0
    PROVE  OrderInv(rank)'
  <1>1. DoneInv' /\ SuperMessagedFirst'
    BY SameHistory
  <1>2. p \notin Passing /\ p # "method"
    BY DEF Passing
  <1>. QED
    BY <1>1, <1>2, GotoOrder

\* The lock is taken.
LEMMA LockOrder ==
    ASSUME NEW rank \in [Class -> Nat], IInv, OrderInv(rank),
           NEW t \in Thread, NEW c \in Class, Lock(t, c)
    PROVE  OrderInv(rank)'
  <1>1. /\ At(t, "lock", c) /\ Goto(t, "locked") /\ UNCHANGED <<initializing, done, inits, cache>>
    BY DEF Lock, bits, caching, history
  <1>2. Own([Top(t) EXCEPT !.pc = "locked"], World)
    BY <1>1, TopFollows DEF Own, FrameRecord, Mid
  <1>3. "lock" \in Labels \ Passing /\ "locked" \in Labels
    BY DEF Labels, Locked, Passing
  <1>4. World' = World /\ Grown(World, World')
    BY <1>1, SameWorld
  <1>. QED
    BY <1>1, <1>2, <1>3, <1>4, MoveOrder

\* thread_id is written.
LEMMA WriteThreadIdOrder ==
    ASSUME NEW rank \in [Class -> Nat], IInv, OrderInv(rank),
           NEW t \in Thread, NEW c \in Class, WriteThreadId(t, c)
    PROVE  OrderInv(rank)'
  <1>1. /\ At(t, "locked", c) /\ Goto(t, "enter") /\ UNCHANGED <<initializing, done, inits, cache>>
    BY DEF WriteThreadId, bits, caching, history
  <1>2. Own([Top(t) EXCEPT !.pc = "enter"], World)
    BY <1>1, TopFollows DEF Own, FrameRecord, Mid
  <1>3. "locked" \in Labels \ Passing /\ "enter" \in Labels
    BY DEF Labels, Locked, Passing
  <1>4. World' = World /\ Grown(World, World')
    BY <1>1, SameWorld
  <1>. QED
    BY <1>1, <1>2, <1>3, <1>4, MoveOrder

\* INITIALIZING is set, or was set.
LEMMA SetInitializingOrder ==
    ASSUME NEW rank \in [Class -> Nat], IInv, OrderInv(rank),
           NEW t \in Thread, NEW c \in Class, SetInitializing(t, c)
    PROVE  OrderInv(rank)'
  <1>1. PICK q \in {"quicker", "deps"} : Goto(t, q)
    BY DEF SetInitializing
  <1>2. /\ At(t, "enter", c) /\ UNCHANGED <<done, inits, cache>>
        /\ initializing \subseteq initializing'
    BY DEF SetInitializing, caching, history
  <1>3. /\ Top(t) \in FrameRecord /\ Top(t).pc = "enter" /\ Top(t).cls = c
        /\ Own(Top(t), World) /\ Top(t).i = 0
    BY <1>2, TopFollows DEF Own
  <1>4. Len(Deps(c)) \in Nat
    BY DepsAreClasses
  <1>5. Own([Top(t) EXCEPT !.pc = q], World')
    BY <1>2, <1>3, <1>4 DEF Own, FrameRecord, Mid
  <1>6. "enter" \in Labels \ Passing /\ q \in Labels
    BY DEF Labels, Locked, Passing
  <1>7. Grown(World, World')
    BY <1>2 DEF Grown, World
  <1>. QED
    BY <1>1, <1>2, <1>3, <1>5, <1>6, <1>7, MoveOrder

\* Someone else was quicker.
LEMMA QuickerOrder ==
    ASSUME NEW rank \in [Class -> Nat], IInv, OrderInv(rank),
           NEW t \in Thread, NEW c \in Class, Quicker(t, c)
    PROVE  OrderInv(rank)'
  <1>1. /\ At(t, "quicker", c) /\ Goto(t, "unlock") /\ UNCHANGED <<initializing, done, inits, cache>>
    BY DEF Quicker, bits, caching, history
  <1>2. c \in done
    <2>1. Height(t) \in Depth(t) /\ Pc(t, Height(t)) = "quicker" /\ Cls(t, Height(t)) = c
      BY <1>1, AtTop DEF IInv
    <2>. QED
      BY <2>1 DEF IInv, PhaseInv
  <1>3. Own([Top(t) EXCEPT !.pc = "unlock"], World)
    <2>1. Top(t) \in FrameRecord /\ Top(t).cls = c /\ Own(Top(t), World) /\ Top(t).pc = "quicker"
      BY <1>1, TopFollows
    <2>2. c \in World.done
      BY <1>2 DEF World
    <2>. QED
      BY <2>1, <2>2 DEF Own, FrameRecord, Mid
  <1>4. "quicker" \in Labels \ Passing /\ "unlock" \in Labels
    BY DEF Labels, Locked, Passing
  <1>5. World' = World /\ Grown(World, World')
    BY <1>1, SameWorld
  <1>. QED
    BY <1>1, <1>3, <1>4, <1>5, MoveOrder

\* The next class is looked at: it is set up, or it is set up now, or that was all.
LEMMA SetupDepOrder ==
    ASSUME NEW rank \in [Class -> Nat], Descending(rank), IInv, OrderInv(rank),
           NEW t \in Thread, NEW c \in Class, SetupDep(t, c)
    PROVE  OrderInv(rank)'
  <1>1. UNCHANGED <<initializing, done, inits, cache>> /\ At(t, "deps", c)
    BY DEF SetupDep, bits, caching, history
  <1>2. /\ Top(t) \in FrameRecord /\ Top(t).pc = "deps" /\ Top(t).cls = c
        /\ Own(Top(t), World) /\ Last(Top(t), World)
        /\ stack[t] # <<>>
    BY <1>1, TopFollows
  <1>3. PICK n \in Nat : n = Top(t).i + 1
    BY <1>2 DEF FrameRecord
  <1>4. PICK next : next = [Top(t) EXCEPT !.i = n]
    OBVIOUS
  <1>5. /\ next \in FrameRecord /\ next.cls = c /\ next.pc = "deps" /\ next.via = Top(t).via
        /\ next.i = n /\ next.todo = Top(t).todo
    BY <1>2, <1>4 DEF FrameRecord
  <1>6. Top(t).i \in Nat /\ Len(Deps(c)) \in Nat
    BY <1>2, DepsAreClasses DEF FrameRecord
  <1>7. /\ \A m \in 1 .. n - 1 : Ready(c, m, World)
        /\ n - 1 <= Len(Deps(c))
    <2>1. /\ Top(t).i <= Len(Deps(c)) /\ \A m \in 1 .. Top(t).i - 1 : Ready(c, m, World)
          /\ Top(t).i > 0 => Ready(c, Top(t).i, World)
      BY <1>2 DEF Own, Last
    <2>2. n - 1 = Top(t).i
      BY <1>3, <1>6
    <2>3. ASSUME NEW m \in 1 .. n - 1 PROVE Ready(c, m, World)
      <3>1. m \in 1 .. Top(t).i - 1 \/ (m = Top(t).i /\ Top(t).i > 0)
        BY <1>6, <2>2
      <3>. QED
        BY <2>1, <3>1
    <2>. QED
      BY <2>1, <2>2, <2>3
  <1>8. n <= Len(Deps(c)) => Own(next, World)
    BY <1>2, <1>5, <1>7 DEF Own, Mid
  <1>9. \/ n > Len(Deps(c)) /\ Goto(t, "empty_meta")
        \/ n <= Len(Deps(c)) /\ Deps(c)[n] \in done /\ Replace(t, next)
        \/ n <= Len(Deps(c)) /\ stack' = [stack EXCEPT ![t] =
                                   <<Frame(Deps(c)[n], "dep", "check"), next>> \o Tail(@)]
    <2>1. ~(n > Len(Deps(c))) => n <= Len(Deps(c))
      BY <1>6
    <2>. QED
      BY <1>3, <1>4, <2>1, Zenon DEF SetupDep
  <1>10. CASE n > Len(Deps(c)) /\ Goto(t, "empty_meta")
    <2>1. \A m \in 1 .. Len(Deps(c)) : Ready(c, m, World)
      BY <1>6, <1>7, <1>10
    <2>2. Own([Top(t) EXCEPT !.pc = "empty_meta"], World)
      BY <1>2, <2>1 DEF Own, FrameRecord, Mid
    <2>3. "deps" \in Labels \ Passing /\ "empty_meta" \in Labels
      BY DEF Labels, Locked, Passing
    <2>4. World' = World /\ Grown(World, World')
      BY <1>1, SameWorld
    <2>. QED
      BY <1>1, <1>10, <2>2, <2>3, <2>4, MoveOrder
  <1>11. CASE n <= Len(Deps(c)) /\ Deps(c)[n] \in done /\ Replace(t, next)
    <2>1. Last(next, World)
      BY <1>5, <1>11 DEF Last, Ready, World
    <2>2. PICK s \in Seq(FrameRecord) : s = stack[t]
      BY DEF IInv, StackOK
    <2>3. /\ Ranked(s, rank) /\ Follows(s, World) /\ s # <<>>
          /\ next.cls = s[1].cls /\ next.via = s[1].via /\ s[1].pc # "method"
      BY <1>2, <1>5, <2>2 DEF OrderInv, Top
    <2>4. Len(s) > 1 => Upon(next, s[2], World) /\ Under(next, s[2], rank)
      BY <1>1, <1>2, <1>5, <2>2, TopFollows DEF Upon, Under
    <2>5. stack'[t] = <<next>> \o Tail(s) /\ OthersKept(t)
      <3>1. OthersKept(t)
        BY <1>2, <1>5, <1>11, ReplaceMoves DEF IInv
      <3>2. stack \in [Thread -> Seq(FrameRecord)]
        BY DEF IInv, StackOK
      <3>. QED
        BY <1>11, <2>2, <3>1, <3>2 DEF Replace
    <2>6. PICK w : w = World
      OBVIOUS
    <2>7. Follows(<<next>> \o Tail(s), w)
      BY <1>5, <1>8, <1>11, <2>1, <2>3, <2>4, <2>6, FollowsReplace
    <2>8. Ranked(<<next>> \o Tail(s), rank)
      BY <1>5, <2>3, <2>4, RankedReplace
    <2>9. World' = World /\ Grown(World, World') /\ DoneInv' /\ SuperMessagedFirst'
      BY <1>1, NothingNew
    <2>10. Ranked(stack'[t], rank) /\ Follows(stack'[t], World')
      BY <2>5, <2>6, <2>7, <2>8, <2>9
    <2>11. \A x, y : LeadsIn(<<next>> \o Tail(s), x, y) => LeadsIn(s, x, y)
      BY <1>5, <2>3, LeadsReplace
    <2>12. NoCircle'
      BY <2>2, <2>5, <2>11, SameCircle DEF OrderInv
    <2>. QED
      BY <2>5, <2>9, <2>10, <2>12, OthersFollow
  <1>12. CASE n <= Len(Deps(c)) /\ stack' = [stack EXCEPT ![t] =
                                   <<Frame(Deps(c)[n], "dep", "check"), next>> \o Tail(@)]
    <2>1. n \in 1 .. Len(Deps(c))
      BY <1>3, <1>6, <1>12
    <2>2. PICK d \in Class : d = Deps(c)[n]
      BY <2>1, DepsAreClasses
    <2>3. PICK f : f = Frame(d, "dep", "check")
      OBVIOUS
    <2>4. /\ f \in FrameRecord /\ f.cls = d /\ f.via = "dep" /\ f.pc = "check" /\ f.i = 0
          /\ f.todo = Sends[d]
      <3>1. "check" \in Labels /\ "dep" \in Side \cup {"dep"}
        BY DEF Labels
      <3>. QED
        BY <2>3, <3>1, NewFrame DEF Frame
    <2>5. Own(f, World) /\ Last(f, World)
      BY <2>4, NewOwn
    <2>6. Upon(f, next, World)
      BY <1>5, <2>2, <2>4 DEF Upon
    <2>7. Under(f, next, rank)
      <3>1. rank[d] < rank[c] \/ d = c
        BY <2>1, <2>2, DepsBelow
      <3>2. rank[d] \in Nat /\ rank[c] \in Nat
        OBVIOUS
      <3>. QED
        BY <1>5, <2>4, <3>1, <3>2 DEF Under, Passing
    <2>8. stack' = [stack EXCEPT ![t] = <<f, next>> \o Tail(@)]
      BY <1>12, <2>2, <2>3
    <2>9. "deps" \in {"deps", "self", "body"}
      OBVIOUS
    <2>. QED
      BY <1>1, <1>5, <1>8, <1>12, <2>4, <2>5, <2>6, <2>7, <2>8, <2>9, CallOrder
  <1>. QED
    BY <1>9, <1>10, <1>11, <1>12

\* The labels after the call of +initialize
Messaged == Mid \ {"deps", "empty_meta", "empty_infra", "self"}

\* A step between setting up what the class depends on and INITIALIZE_DONE
LEMMA MidOrder ==
    ASSUME NEW rank \in [Class -> Nat], IInv, OrderInv(rank), NEW t \in Thread,
           NEW p \in Mid \ {"deps"}, NEW c, NEW q \in Mid \ {"deps"}, At(t, p, c), Goto(t, q),
           q \in Messaged => p \in Messaged \/ c \in IsMixin,
           q \in {"empty_infra", "self", "body"} => c \in World'.open,
           Grown(World, World'), UNCHANGED <<done, inits>>
    PROVE  OrderInv(rank)'
  <1>1. /\ Top(t) \in FrameRecord /\ Top(t).pc = p /\ Top(t).cls = c
        /\ Own(Top(t), World)
    BY TopFollows
  <1>2. Own(Top(t), World')
    BY <1>1, OwnGrows
  <1>3. Own([Top(t) EXCEPT !.pc = q], World')
    <2>1. PICK x : x = World'
      OBVIOUS
    <2>2. PICK f \in FrameRecord : f = Top(t)
      BY <1>1
    <2>3. f.pc = p /\ f.cls = c /\ Own(f, x)
      BY <1>1, <1>2, <2>1, <2>2
    <2>4. PICK g : g = [f EXCEPT !.pc = q]
      OBVIOUS
    <2>5. /\ g.cls = c /\ g.pc = q /\ g.todo = f.todo /\ g.i = f.i /\ g.via = f.via
      BY <2>2, <2>3, <2>4 DEF FrameRecord
    <2>6. \A n \in 1 .. Len(Deps(c)) : Ready(c, n, x)
      BY <2>3 DEF Own
    <2>7. q \in {"empty_infra", "self", "body"} => c \in x.open
      BY <2>1
    <2>8. q \in Messaged => c \in IsMixin \/ x.inits[c] > 0
      BY <2>3 DEF Own, Messaged
    <2>9. g.todo \subseteq Sends[c]
      BY <2>3, <2>5 DEF Own
    <2>10. q \in Mid \ {"deps"}
      OBVIOUS
    <2>11. Own(g, x)
      BY <2>5, <2>6, <2>7, <2>8, <2>9, <2>10 DEF Own, Messaged, Mid
    <2>. QED
      BY <2>1, <2>2, <2>4, <2>11
  <1>4. p \in Labels \ Passing /\ q \in Labels /\ q # "deps"
    BY DEF Mid, Labels, Locked, Passing
  <1>. QED
    BY <1>3, <1>4, MoveOrder

\* Exchanging a cache opens the class to messages at most.
LEMMA CacheGrows ==
    ASSUME IInv, NEW c \in Class, NEW side \in Side, NEW v,
           v # "initial" \/ cache[c][side] = "initial",
           cache' = [cache EXCEPT ![c][side] = v] \/ cache' = cache,
           UNCHANGED <<initializing, done, inits>>
    PROVE  Grown(World, World')
  <1>1. cache \in [Class -> [Side -> {"initial", "empty", "real"}]]
    BY DEF IInv, DataOK
  <1>2. \A d \in Class : cache[d]["meta"] # "initial" => cache'[d]["meta"] # "initial"
    BY <1>1 DEF Side
  <1>. QED
    BY <1>2 DEF Grown, World

\* The empty caches open the class to messages before +initialize is called.
LEMMA EmptyCacheOrder ==
    ASSUME NEW rank \in [Class -> Nat], IInv, OrderInv(rank),
           NEW t \in Thread, NEW c \in Class, NEW side \in Side, EmptyCache(t, c, side)
    PROVE  OrderInv(rank)'
  <1>1. PICK p \in {"empty_meta", "empty_infra"}, q \in {"empty_infra", "install_meta", "self"} :
          /\ At(t, p, c) /\ Goto(t, q) /\ (q = "install_meta" => c \in IsMixin)
          /\ IF side = "meta" THEN p = "empty_meta" ELSE p = "empty_infra"
    BY DEF EmptyCache
  <1>2. UNCHANGED <<initializing, done, inits>>
    BY DEF EmptyCache, bits, history
  <1>3. cache \in [Class -> [Side -> {"initial", "empty", "real"}]]
    BY DEF IInv, DataOK
  <1>4. cache' = [cache EXCEPT ![c][side] = IF @ = "initial" THEN "empty" ELSE @]
    BY DEF EmptyCache
  <1>5. Grown(World, World')
    <2>1. PICK v : v = IF cache[c][side] = "initial" THEN "empty" ELSE cache[c][side]
      OBVIOUS
    <2>2. v # "initial" /\ cache' = [cache EXCEPT ![c][side] = v]
      BY <1>3, <1>4, <2>1
    <2>. QED
      BY <1>2, <2>2, CacheGrows
  <1>6. c \in World'.open
    <2>1. CASE side = "meta"
      <3>1. cache'[c]["meta"] # "initial"
        BY <1>3, <1>4, <2>1
      <3>. QED
        BY <3>1 DEF World
    <2>2. CASE side # "meta"
      <3>1. Top(t).cls = c /\ Top(t).pc = "empty_infra" /\ Own(Top(t), World)
        BY <1>1, <2>2, TopFollows
      <3>. QED
        BY <1>5, <3>1 DEF Own, Grown
    <2>. QED
      BY <2>1, <2>2
  <1>7. /\ p \in Mid \ {"deps"} /\ q \in Mid \ {"deps"}
        /\ q \in Messaged => q = "install_meta"
    BY DEF Mid, Messaged
  <1>. QED
    BY <1>1, <1>2, <1>5, <1>6, <1>7, MidOrder

\* +initialize returns.
LEMMA InitializeReturnOrder ==
    ASSUME NEW rank \in [Class -> Nat], IInv, OrderInv(rank),
           NEW t \in Thread, NEW c \in Class, InitializeReturn(t, c)
    PROVE  OrderInv(rank)'
  <1>1. /\ At(t, "body", c) /\ Goto(t, "install_meta")
        /\ UNCHANGED <<initializing, done, inits, cache>>
    BY DEF InitializeReturn, bits, caching
  <1>2. /\ "body" \in Mid \ {"deps"} /\ "install_meta" \in Mid \ {"deps"} /\ "body" \in Messaged
    BY DEF Mid, Messaged
  <1>3. Grown(World, World')
    BY <1>1, SameWorld
  <1>. QED
    BY <1>1, <1>2, <1>3, MidOrder

\* The caches are installed after +initialize.
LEMMA InstallOrder ==
    ASSUME NEW rank \in [Class -> Nat], IInv, OrderInv(rank),
           NEW t \in Thread, NEW c \in Class, NEW side \in Side,
           CountCache(t, c, side) \/ SwapCache(t, c, side)
    PROVE  OrderInv(rank)'
  <1>1. PICK p \in {"install_meta", "install_infra", "swap_meta", "swap_infra"},
             q \in {"install_infra", "swap_meta", "swap_infra", "done"} :
          At(t, p, c) /\ Goto(t, q)
    BY DEF CountCache, SwapCache, AfterInstall
  <1>2. UNCHANGED <<initializing, done, inits>>
    BY DEF CountCache, SwapCache, bits, history
  <1>3. p \in Mid \ {"deps"} /\ q \in Mid \ {"deps"} /\ p \in Messaged
    BY DEF Mid, Messaged
  <1>4. PICK v : v = IF cache[c][side] = "empty" THEN "real" ELSE cache[c][side]
    OBVIOUS
  <1>5. cache' = [cache EXCEPT ![c][side] = v] \/ cache' = cache
    BY <1>4 DEF CountCache, SwapCache
  <1>6. Grown(World, World')
    <2>1. v # "initial" \/ cache[c][side] = "initial"
      BY <1>4
    <2>. QED
      BY <1>2, <1>5, <2>1, CacheGrows
  <1>. QED
    BY <1>1, <1>2, <1>3, <1>6, MidOrder

\* +initialize installs a cache itself.
LEMMA EarlyInstallOrder ==
    ASSUME NEW rank \in [Class -> Nat], IInv, OrderInv(rank),
           NEW t \in Thread, NEW c \in Class, NEW side \in Side, EarlyInstall(t, c, side)
    PROVE  OrderInv(rank)'
  <1>1. UNCHANGED <<initializing, done, inits, stack>>
    BY DEF EarlyInstall, bits, history
  <1>2. PICK v : v = IF cache[c][side] = "empty" THEN "real" ELSE cache[c][side]
    OBVIOUS
  <1>3. cache' = [cache EXCEPT ![c][side] = v]
    BY <1>2 DEF EarlyInstall
  <1>4. Grown(World, World')
    <2>1. v # "initial" \/ cache[c][side] = "initial"
      BY <1>2
    <2>. QED
      BY <1>1, <1>3, <2>1, CacheGrows
  <1>5. Ranked(stack'[t], rank) /\ Follows(stack'[t], World')
    <2>1. PICK s \in Seq(FrameRecord) : s = stack[t]
      BY DEF IInv, StackOK
    <2>2. Ranked(s, rank) /\ Follows(s, World)
      BY <2>1 DEF OrderInv
    <2>3. Follows(s, World')
      BY <1>4, <2>2, FollowsGrows
    <2>. QED
      BY <1>1, <2>1, <2>2, <2>3
  <1>6. DoneInv' /\ SuperMessagedFirst'
    BY <1>1, SameHistory
  <1>7. OthersKept(t) /\ NoCircle'
    BY <1>1 DEF OthersKept, OrderInv, NoCircle
  <1>. QED
    BY <1>4, <1>5, <1>6, <1>7, OthersFollow

\* +initialize is messaged: superclass and mixins were before.
LEMMA CallInitializeOrder ==
    ASSUME NEW rank \in [Class -> Nat], Descending(rank), IInv, OrderInv(rank),
           NEW t \in Thread, NEW c \in Class, CallInitialize(t, c)
    PROVE  OrderInv(rank)'
  <1>1. /\ At(t, "self", c) /\ Goto(t, "body") /\ UNCHANGED <<initializing, done, cache>>
        /\ inits' = [inits EXCEPT ![c] = @ + 1]
    BY DEF CallInitialize, bits, caching
  <1>2. inits \in [Class -> Nat] /\ done \subseteq Class
    BY DEF IInv, DataOK
  <1>3. /\ Top(t) \in FrameRecord /\ Top(t).pc = "self" /\ Top(t).cls = c
        /\ Own(Top(t), World)
    BY <1>1, TopFollows
  <1>4. inits'[c] > 0 /\ \A x \in Class : inits[x] > 0 => inits'[x] > 0
    BY <1>1, <1>2
  <1>5. Grown(World, World')
    BY <1>1, <1>4 DEF Grown, World
  <1>6. DoneInv'
    BY <1>1, <1>2, <1>4 DEF DoneInv, OrderInv
  <1>7. \A n \in 1 .. Len(Deps(c)) : Deps(c)[n] \in done \/ Deps(c)[n] = c
    BY <1>3 DEF Own, Mid, Ready, World
  <1>8. Super[c] # NoClass => Super[c] \in done \ IsMixin
    <2>. SUFFICES ASSUME Super[c] # NoClass PROVE Super[c] \in done \ IsMixin
      OBVIOUS
    <2>1. Super[c] \in Class /\ Super[c] \notin IsMixin /\ rank[Super[c]] < rank[c]
      BY ClassAssumption DEF Descending
    <2>2. Super[c] # c
      BY <2>1
    <2>. QED
      BY <1>7, <2>1, <2>2, DepsBelow
  <1>9. Range(Mixins[c]) \subseteq done
    <2>. SUFFICES ASSUME NEW m \in Range(Mixins[c]) PROVE m \in done
      OBVIOUS
    <2>1. rank[m] < rank[c]
      BY DEF Descending
    <2>2. m # c
      BY <2>1
    <2>3. PICK n \in 1 .. Len(Deps(c)) : Deps(c)[n] = m
      BY DepsBelow
    <2>. QED
      BY <1>7, <2>2, <2>3
  <1>10. SuperMessagedFirst'
    <2>. SUFFICES ASSUME NEW x \in Class, inits'[x] > 0
                  PROVE  /\ Super[x] # NoClass => inits'[Super[x]] > 0
                         /\ Range(Mixins[x]) \subseteq done'
      BY DEF SuperMessagedFirst
    <2>1. CASE x = c
      <3>1. Super[c] # NoClass => inits[Super[c]] > 0 /\ Super[c] \in Class
        BY <1>2, <1>8 DEF OrderInv, DoneInv
      <3>. QED
        BY <1>1, <1>4, <1>9, <2>1, <3>1
    <2>2. CASE x # c
      <3>1. inits[x] > 0
        BY <1>1, <1>2, <2>2
      <3>2. /\ Super[x] # NoClass => inits[Super[x]] > 0
            /\ Range(Mixins[x]) \subseteq done
        BY <3>1 DEF OrderInv, SuperMessagedFirst
      <3>3. Super[x] # NoClass => Super[x] \in Class
        BY ClassAssumption
      <3>. QED
        BY <1>1, <1>4, <3>2, <3>3
    <2>. QED
      BY <2>1, <2>2
  <1>11. Own([Top(t) EXCEPT !.pc = "body"], World')
    <2>1. Own(Top(t), World')
      BY <1>3, <1>5, OwnGrows
    <2>2. World'.inits[c] > 0
      BY <1>4 DEF World
    <2>. QED
      BY <1>3, <2>1, <2>2 DEF Own, FrameRecord, Mid
  <1>12. "body" \in Labels /\ "self" \notin Passing
    BY DEF Labels, Locked, Passing
  <1>. QED
    BY <1>1, <1>5, <1>6, <1>10, <1>11, <1>12, GotoOrder

\* INITIALIZE_DONE: +initialize was messaged, unless there is none.
LEMMA SetDoneOrder ==
    ASSUME NEW rank \in [Class -> Nat], IInv, OrderInv(rank),
           NEW t \in Thread, NEW c \in Class, SetDone(t, c)
    PROVE  OrderInv(rank)'
  <1>1. /\ At(t, "done", c) /\ Goto(t, "unlock") /\ UNCHANGED <<initializing, inits, cache>>
        /\ done' = done \cup {c}
    BY DEF SetDone, caching, history
  <1>2. /\ Top(t) \in FrameRecord /\ Top(t).pc = "done" /\ Top(t).cls = c
        /\ Own(Top(t), World)
    BY <1>1, TopFollows
  <1>3. c \in IsMixin \/ inits[c] > 0
    BY <1>2 DEF Own, Mid, World
  <1>4. Grown(World, World')
    BY <1>1 DEF Grown, World
  <1>5. DoneInv'
    BY <1>1, <1>3 DEF DoneInv, OrderInv
  <1>6. SuperMessagedFirst'
    BY <1>1 DEF SuperMessagedFirst, OrderInv
  <1>7. Own([Top(t) EXCEPT !.pc = "unlock"], World')
    <2>1. Own(Top(t), World')
      BY <1>2, <1>4, OwnGrows
    <2>2. c \in World'.done
      BY <1>1 DEF World
    <2>. QED
      BY <1>2, <2>1, <2>2 DEF Own, FrameRecord, Mid
  <1>8. "unlock" \in Labels /\ "done" \notin Passing
    BY DEF Labels, Locked, Passing
  <1>. QED
    BY <1>1, <1>4, <1>5, <1>6, <1>7, <1>8, GotoOrder

\* The lock is released; the class is done.
LEMMA UnlockOrder ==
    ASSUME NEW rank \in [Class -> Nat], IInv, OrderInv(rank),
           NEW t \in Thread, NEW c \in Class, Unlock(t, c)
    PROVE  OrderInv(rank)'
  <1>1. At(t, "unlock", c) /\ UNCHANGED <<initializing, done, inits, cache>>
    BY DEF Unlock, bits, caching, history
  <1>2. /\ Top(t) \in FrameRecord /\ Top(t).pc = "unlock" /\ Top(t).cls = c
        /\ Own(Top(t), World)
    BY <1>1, TopFollows
  <1>3. CASE Top(t).via = "dep"
    <2>1. stack' = [stack EXCEPT ![t] = Tail(@)] /\ c \in done
      BY <1>2, <1>3 DEF Unlock, Return, Own, World
    <2>. QED
      BY <1>1, <2>1, PopOrder
  <1>4. CASE Top(t).via # "dep"
    <2>1. Goto(t, "method")
      BY <1>4 DEF Unlock, Return
    <2>2. Own([Top(t) EXCEPT !.pc = "method"], World)
      BY <1>2, <1>4 DEF Own, FrameRecord, Mid
    <2>3. "unlock" \in Labels \ Passing /\ "method" \in Labels
      BY DEF Labels, Locked, Passing
    <2>4. World' = World /\ Grown(World, World')
      BY <1>1, SameWorld
    <2>. QED
      BY <1>1, <2>1, <2>2, <2>3, <2>4, MoveOrder
  <1>. QED
    BY <1>3, <1>4

\* Nothing is set up at first.
LEMMA InitOrder ==
    ASSUME NEW rank \in [Class -> Nat], Init
    PROVE  OrderInv(rank)
  <1>1. \A t \in Thread : stack[t] = <<>> /\ Len(stack[t]) = 0
    BY DEF Init
  <1>2. \A t \in Thread : Ranked(stack[t], rank) /\ Follows(stack[t], World)
    BY <1>1 DEF Ranked, Follows
  <1>3. DoneInv /\ SuperMessagedFirst
    BY DEF Init, DoneInv, SuperMessagedFirst
  <1>4. NoCircle
    <2>. SUFFICES ASSUME NEW C \in SUBSET Class, C # {}
                  PROVE  \E c \in C : \A d \in C, u \in Thread : ~ LeadsIn(stack[u], c, d)
      BY DEF NoCircle
    <2>1. \A u \in Thread : \A c, d : ~ LeadsIn(stack[u], c, d)
      BY <1>1 DEF LeadsIn
    <2>. QED
      BY <2>1
  <1>. QED
    BY <1>2, <1>3, <1>4 DEF OrderInv

\* Every step keeps the order.
LEMMA NextOrder ==
    ASSUME NEW rank \in [Class -> Nat], Descending(rank), IInv, OrderInv(rank), [Next]_vars
    PROVE  OrderInv(rank)'
  <1>1. CASE UNCHANGED vars
    BY <1>1 DEF vars, bits, caching, history, OrderInv, DoneInv, SuperMessagedFirst, NoCircle, World
  <1>2. ASSUME NEW t \in Thread, Step(t) PROVE OrderInv(rank)'
    <2>1. PICK c \in Class :
        \/ Send(t, c) \/ MethodReturn(t, c)
        \/ Check(t, c) \/ Owner(t, c) \/ Lock(t, c) \/ WriteThreadId(t, c)
        \/ SetInitializing(t, c) \/ Quicker(t, c) \/ SetupDep(t, c)
        \/ CallInitialize(t, c) \/ InitializeReturn(t, c)
        \/ SetDone(t, c) \/ Unlock(t, c)
        \/ \E side \in Side :
              \/ EmptyCache(t, c, side) \/ EarlyInstall(t, c, side)
              \/ CountCache(t, c, side) \/ SwapCache(t, c, side)
      BY <1>2 DEF Step
    <2>. QED
      BY <2>1, SendOrder, MethodReturnOrder, CheckOrder, OwnerOrder, LockOrder,
         WriteThreadIdOrder, SetInitializingOrder, QuickerOrder, SetupDepOrder,
         CallInitializeOrder, InitializeReturnOrder, SetDoneOrder, UnlockOrder,
         EmptyCacheOrder, EarlyInstallOrder, InstallOrder
  <1>3. ASSUME NEW t \in Thread, NEW c \in Class \ IsMixin, NEW via \in Side, Message(t, c, via)
        PROVE  OrderInv(rank)'
    BY <1>3, MessageOrder
  <1>. QED
    BY <1>1, <1>2, <1>3 DEF Next

\* A thread that waits for a lock is at the top of its stack; the classes below, none of
\* which ranks lower, wait for the one above.
LEMMA WaitingStack ==
    ASSUME NEW rank \in [Class -> Nat], IInv, OrderInv(rank),
           NEW t \in Thread, NEW c \in Class, At(t, "lock", c)
    PROVE  /\ stack[t] \in Seq(FrameRecord) /\ Len(stack[t]) \in Nat \ {0}
           /\ stack[t][1].cls = c /\ stack[t][1].pc = "lock"
           /\ \A d \in 1 .. Len(stack[t]) :
                 /\ stack[t][d].pc \in {"lock", "deps", "self", "body"}
                 /\ rank[c] <= rank[stack[t][d].cls]
  <1>1. /\ stack[t] \in Seq(FrameRecord) /\ Len(stack[t]) \in Nat \ {0}
        /\ stack[t][1].cls = c /\ stack[t][1].pc = "lock"
    BY TopFollows
  <1>2. ASSUME NEW d \in 1 .. Len(stack[t]), d # 1
        PROVE  stack[t][d].pc \in {"deps", "self", "body"} /\ rank[c] <= rank[stack[t][d].cls]
    <2>1. PICK b \in Depth(t) : b = Len(stack[t]) + 1 - d
      <3>1. Len(stack[t]) + 1 - d \in 1 .. Len(stack[t])
        BY <1>1
      <3>. QED
        BY <3>1 DEF Depth
    <2>2. Len(stack[t]) + 1 - b = d /\ b # Len(stack[t])
      BY <1>1, <1>2, <2>1
    <2>3. Pc(t, b) \in {"deps", "self", "body"}
      BY <2>2 DEF IInv, BelowInv
    <2>4. 1 \in 1 .. Len(stack[t]) /\ 1 < d
      BY <1>1, <1>2
    <2>5. rank[stack[t][1].cls] <= rank[stack[t][d].cls]
      BY <2>4 DEF OrderInv, Ranked
    <2>. QED
      BY <1>1, <2>2, <2>3, <2>5 DEF Pc, FrameAt
  <1>3. rank[c] \in Nat
    OBVIOUS
  <1>4. ASSUME NEW d \in 1 .. Len(stack[t])
        PROVE  /\ stack[t][d].pc \in {"lock", "deps", "self", "body"}
               /\ rank[c] <= rank[stack[t][d].cls]
    <2>1. CASE d = 1
      BY <1>1, <1>3, <2>1
    <2>2. CASE d # 1
      BY <1>2, <2>2
    <2>. QED
      BY <2>1, <2>2
  <1>. QED
    BY <1>1, <1>4

\* The class that is waited for is below the top on the stack of the thread that
\* holds its lock, if that one waits, too.
LEMMA HeldBelow ==
    ASSUME NEW rank \in [Class -> Nat], IInv, OrderInv(rank),
           NEW u \in Thread, NEW d \in Class, At(u, "lock", d),
           NEW c \in Class, lock[c] = u
    PROVE  \E e \in 2 .. Len(stack[u]) : stack[u][e].cls = c
  <1>1. /\ stack[u] \in Seq(FrameRecord) /\ Len(stack[u]) \in Nat \ {0}
        /\ stack[u][1].pc = "lock"
    BY WaitingStack
  <1>2. PICK b \in Depth(u) : Cls(u, b) = c /\ Pc(u, b) \in Locked
    BY DEF IInv, LockInv
  <1>3. PICK e \in 1 .. Len(stack[u]) : e = Len(stack[u]) + 1 - b
    <2>1. Len(stack[u]) + 1 - b \in 1 .. Len(stack[u])
      BY <1>1 DEF Depth
    <2>. QED
      BY <2>1
  <1>4. stack[u][e].cls = c /\ stack[u][e].pc \in Locked
    BY <1>2, <1>3 DEF Cls, Pc, FrameAt
  <1>5. e # 1
    BY <1>1, <1>4 DEF Locked
  <1>. QED
    BY <1>1, <1>3, <1>4, <1>5

\* Threads that waited for each other would do so over classes of one rank, whose
\* +initialize had led to each other.
LEMMA OrderLetsFinish ==
    ASSUME NEW rank \in [Class -> Nat], IInv, OrderInv(rank)
    PROVE  OtherCanFinish
  <1>. SUFFICES ASSUME NEW S \in SUBSET Thread, S # {},
                       \A t \in S : \E c \in Class : At(t, "lock", c) /\ lock[c] \in S
                PROVE  FALSE
    BY DEF OtherCanFinish
  <1>1. ASSUME NEW t \in S
        PROVE  /\ stack[t] \in Seq(FrameRecord) /\ Len(stack[t]) \in Nat \ {0}
               /\ stack[t][1].cls \in Class /\ rank[stack[t][1].cls] \in Nat
               /\ stack[t][1].pc = "lock"
               /\ \A d \in 1 .. Len(stack[t]) :
                     /\ stack[t][d].pc \in {"lock", "deps", "self", "body"}
                     /\ rank[stack[t][1].cls] <= rank[stack[t][d].cls]
               /\ \E u \in S : \E e \in 2 .. Len(stack[u]) : stack[u][e].cls = stack[t][1].cls
    <2>1. PICK c \in Class : At(t, "lock", c) /\ lock[c] \in S
      BY <1>1
    <2>2. PICK u \in S : u = lock[c]
      BY <2>1
    <2>3. PICK d \in Class : At(u, "lock", d)
      BY <2>2
    <2>4. \E e \in 2 .. Len(stack[u]) : stack[u][e].cls = c
      BY <2>2, <2>3, HeldBelow
    <2>5. /\ stack[t] \in Seq(FrameRecord) /\ Len(stack[t]) \in Nat \ {0}
          /\ stack[t][1].cls = c /\ stack[t][1].pc = "lock"
          /\ \A e \in 1 .. Len(stack[t]) :
                 /\ stack[t][e].pc \in {"lock", "deps", "self", "body"}
                 /\ rank[c] <= rank[stack[t][e].cls]
      BY <2>1, WaitingStack
    <2>. QED
      BY <2>4, <2>5
  <1>. DEFINE R == {n \in Nat : \E t \in S : n = rank[stack[t][1].cls]}
  <1>2. R \subseteq Nat /\ R # {}
    <2>1. PICK t \in S : TRUE
      OBVIOUS
    <2>2. rank[stack[t][1].cls] \in R
      BY <1>1
    <2>. QED
      BY <2>2
  <1>3. PICK x \in R : \A y \in R : ~ (<<y, x>> \in OpToRel(<, Nat))
    BY <1>2, NatLessThanWellFounded, WFMin
  <1>4. ASSUME NEW t \in S PROVE x <= rank[stack[t][1].cls]
    <2>1. PICK y \in R : y = rank[stack[t][1].cls]
      BY <1>1
    <2>2. ~ (y < x)
      BY <1>2, <1>3, <2>1 DEF OpToRel
    <2>. QED
      BY <2>1, <2>2
  <1>. HIDE DEF R
  <1>5. x \in Nat
    BY <1>2, <1>3
  <1>. DEFINE C == {c \in Class : rank[c] = x /\ \E u \in S :
                       \E d \in 2 .. Len(stack[u]) : stack[u][d].cls = c}
  <1>6. \A t \in S : rank[stack[t][1].cls] = x => stack[t][1].cls \in C
    BY <1>1
  <1>7. C \in SUBSET Class /\ C # {}
    <2>1. PICK t \in S : x = rank[stack[t][1].cls]
      BY <1>3 DEF R
    <2>. QED
      BY <1>6, <2>1
  <1>8. PICK c \in C : \A d \in C, u \in Thread : ~ LeadsIn(stack[u], c, d)
    BY <1>7 DEF OrderInv, NoCircle
  <1>9. PICK u \in S : \E k \in 2 .. Len(stack[u]) : stack[u][k].cls = c
    BY <1>8
  <1>10. rank[c] = x /\ c \in Class
    BY <1>8
  <1>11. PICK k \in 2 .. Len(stack[u]) : stack[u][k].cls = c
    BY <1>9
  <1>12. /\ k \in 1 .. Len(stack[u]) /\ k > 1 /\ k - 1 \in 1 .. Len(stack[u])
         /\ k = 2 \/ k - 1 \in 2 .. Len(stack[u])
    <2>1. Len(stack[u]) \in Nat
      BY <1>1
    <2>. QED
      BY <2>1
  <1>13. PICK f, g : f = stack[u][k - 1] /\ g = stack[u][k]
    OBVIOUS
  <1>14. f \in FrameRecord /\ g.cls = c /\ f.cls \in Class
    <2>1. stack[u] \in Seq(FrameRecord)
      BY <1>1
    <2>2. f \in FrameRecord
      BY <1>12, <1>13, <2>1
    <2>3. f.cls \in Class
      BY <2>2 DEF FrameRecord
    <2>. QED
      BY <1>11, <1>13, <2>2, <2>3
  <1>15. Under(f, g, rank)
    BY <1>12, <1>13 DEF OrderInv, Ranked
  <1>16. rank[f.cls] = x
    <2>1. rank[f.cls] \in Nat /\ rank[f.cls] <= x
      BY <1>10, <1>11, <1>14, <1>15 DEF Under
    <2>2. rank[stack[u][1].cls] <= rank[f.cls] /\ rank[stack[u][1].cls] \in Nat
      BY <1>1, <1>12, <1>13
    <2>3. x <= rank[stack[u][1].cls]
      BY <1>4
    <2>. QED
      BY <1>5, <2>1, <2>2, <2>3
  <1>17. f.pc \in {"lock", "deps", "self", "body"}
    BY <1>1, <1>12, <1>13
  <1>18. f.via # "dep" /\ f.pc # "method" /\ g.pc \in {"self", "body"}
    <2>1. f.pc \notin Passing /\ f.pc # "method"
      BY <1>17 DEF Passing
    <2>2. ~ (rank[f.cls] < rank[g.cls])
      BY <1>5, <1>10, <1>11, <1>14, <1>16
    <2>. QED
      BY <1>15, <2>1, <2>2 DEF Under
  <1>19. LeadsIn(stack[u], c, f.cls)
    BY <1>12, <1>13, <1>14, <1>18 DEF LeadsIn
  <1>20. f.cls \in C
    <2>1. CASE k = 2
      <3>1. f = stack[u][1]
        BY <1>13, <2>1
      <3>. QED
        BY <1>6, <1>16, <3>1
    <2>2. CASE k # 2
      BY <1>12, <1>13, <1>14, <1>16, <2>2
    <2>. QED
      BY <2>1, <2>2
  <1>. QED
    BY <1>8, <1>19, <1>20

\* +initialize is messaged to the superclass first, and the mixins are set up before
\* ("It is only guaranteed that +initialize on the superclass is messaged before the
\* subclass", class-initialize.c 603-606): for any classes and messages of +initialize that can
\* be ranked.
THEOREM SuperclassFirst ==
    ASSUME NEW rank \in [Class -> Nat], Descending(rank)
    PROVE  Spec => []SuperMessagedFirst
  <1>1. Spec => []IInv
    BY InitIInv, NextIInv, PTL DEF Spec
  <1>2. Init => OrderInv(rank)
    BY InitOrder
  <1>3. IInv /\ OrderInv(rank) /\ [Next]_vars => OrderInv(rank)'
    BY NextOrder
  <1>4. OrderInv(rank) => SuperMessagedFirst
    BY DEF OrderInv
  <1>. QED
    BY <1>1, <1>2, <1>3, <1>4, PTL DEF Spec

\* The threads that wait for class locks never wait for each other, in a circle of any
\* length: for any classes and messages of +initialize that can be ranked.
THEOREM NobodyWaitsInCircles ==
    ASSUME NEW rank \in [Class -> Nat], Descending(rank)
    PROVE  Spec => []OtherCanFinish
  <1>1. Spec => []IInv
    BY InitIInv, NextIInv, PTL DEF Spec
  <1>2. Init => OrderInv(rank)
    BY InitOrder
  <1>3. IInv /\ OrderInv(rank) /\ [Next]_vars => OrderInv(rank)'
    BY NextOrder
  <1>4. IInv /\ OrderInv(rank) => OtherCanFinish
    BY OrderLetsFinish
  <1>. QED
    BY <1>1, <1>2, <1>3, <1>4, PTL DEF Spec
=============================================================================
