--------------------------- MODULE TaggedPointers ---------------------------
(***************************************************************************)
(* Values in a machine word: tagged pointers (taggedpointer.h), which are    *)
(* objects without memory, and the ids that strings hash to (uniqueid.c).   *)
(*                                                                         *)
(* A word has Width bits instead of 32 or 64.  The code touches the 5 bits  *)
(* at the top and the 4 at the bottom only; the ones between are moved as   *)
(* they are.  The hash of a string is any word.                             *)
(***************************************************************************)
EXTENDS Integers, FiniteSets

CONSTANTS Width,        \* of a word
          FloatWidth,   \* of a float on a 64 bit machine
          TaggedClass,  \* classes that want a tag
          Vacant

ASSUME WidthAssumption ==
    /\ Width \in Nat /\ Width >= 9
    /\ FloatWidth \in Nat /\ FloatWidth + 3 <= Width

VARIABLES bits,          \* of the machine: 32 or 64
          pointerclass,  \* universe->taggedpointers: tag -> class
          wants,         \* classes that have not asked for a tag
          failed,        \* the universe has failed
          object         \* the object at hand

taggedVars == <<bits, pointerclass, wants, failed, object>>

Word == 0..(2^Width - 1)
Shift == IF bits = 32 THEN 2 ELSE 3     \* get_taggedpointer_shift
Mask  == IF bits = 32 THEN 3 ELSE 7     \* get_taggedpointer_mask

shl(w, n) == (w * 2^n) % 2^Width
shr(w, n) == w \div 2^n
rol(w, n) == shl(w, n) + shr(w, Width - n)
clear(w)  == w - (w % (Mask + 1))
\* The n bits at the top
top(w, n) == shr(w, Width - n)

get_index(w) == w % (Mask + 1)

----------------------------------------------------------------------------
(* Encodings: which values fit, how they are packed and unpacked            *)

is_valid_unsigned_value(w) == top(w, Shift) = 0

\* Mutant: forgets the bit that becomes the sign
MutSignedLoses(w) == top(w, Shift) \in {0, 2^Shift - 1}
is_valid_signed_value(w) == top(w, Shift + 1) \in {0, 2^(Shift + 1) - 1}

create_integer(w, index) == shl(w, Shift) + index

get_unsigned_value(p) == shr(p, Shift)
get_signed_value(p) ==
    shr(p, Shift) + IF top(p, 1) = 1 THEN (2^Shift - 1) * 2^(Width - Shift) ELSE 0

\* The bits below the sign are 1000 or 0111 (32 bit: 100 or 011), so three (two) of them
\* can be told from the first, and give way to the tag.
is_valid_exponent(w) == top(w, Shift + 2) % 2^(Shift + 1) \in {2^Shift, 2^Shift - 1}

\* On a 64 bit machine only
is_valid_double_value(w) == bits = 64 /\ is_valid_exponent(w)

create_double(w, index) == clear(rol(w, Shift + 2)) + index

get_double_value(p) ==
    LET restored == IF shr(p, Shift) % 2 = 0 THEN clear(p) + Mask ELSE clear(p)
    IN  rol(restored, Width - (Shift + 2))

\* Every float fits into a 64 bit word; in a 32 bit word it is treated like a double.
is_valid_float_value(w) == IF bits = 64 THEN w < 2^FloatWidth ELSE is_valid_exponent(w)
create_float(w, index) ==
    IF bits = 32 THEN create_double(w, index) ELSE create_integer(w, index)
get_float_value(p) ==
    IF bits = 32 THEN get_double_value(p) ELSE shr(p, 3) % 2^FloatWidth

TaggedKinds == {"unsigned", "signed", "double", "float"}

isValid(kind, w) ==
    CASE kind = "unsigned" -> is_valid_unsigned_value(w)
      [] kind = "signed"   -> is_valid_signed_value(w)
      [] kind = "double"   -> is_valid_double_value(w)
      [] kind = "float"    -> is_valid_float_value(w)
create(kind, w, index) ==
    CASE kind \in {"unsigned", "signed"} -> create_integer(w, index)
      [] kind = "double" -> create_double(w, index)
      [] kind = "float"  -> create_float(w, index)
getValue(kind, p) ==
    CASE kind = "unsigned" -> get_unsigned_value(p)
      [] kind = "signed"   -> get_signed_value(p)
      [] kind = "double"   -> get_double_value(p)
      [] kind = "float"    -> get_float_value(p)

----------------------------------------------------------------------------
(* Classes of tagged pointers                                              *)

\* Class of an object without an isa (object.h 89-103)
get_isa(p) == IF get_index(p) = 0 THEN Vacant ELSE pointerclass[get_index(p)]

\* 0 if there is none (universe.h 344-355).  Tags above the mask are taken.
find_free_taggedpointerclass ==
    LET free == {i \in 1..7 : i <= Mask /\ pointerclass[i] = Vacant}
    IN  IF free = {} THEN 0 ELSE CHOOSE i \in free : \A j \in free : i <= j

\* It is refused outside of 1..Mask; a taken tag fails the universe.
set_taggedpointerclass_at_index(class, index) ==
    /\ failed' = (index \in 1..Mask /\ pointerclass[index] # Vacant)
    /\ pointerclass' = IF index \in 1..Mask /\ ~failed'
                       THEN [pointerclass EXCEPT ![index] = class] ELSE pointerclass
    /\ wants' = wants \ {class}
    /\ UNCHANGED <<bits, object>>

NoObject == [class |-> Vacant]

SetClass ==
    /\ ~failed
    /\ \E class \in wants, index \in (0..7) \cup {find_free_taggedpointerclass} :
          set_taggedpointerclass_at_index(class, index)

\* A class that has a tag packs a value
Create ==
    /\ ~failed /\ object = NoObject
    /\ \E kind \in TaggedKinds, w \in Word, index \in 1..Mask :
          /\ pointerclass[index] # Vacant
          /\ isValid(kind, w)
          /\ object' = [class |-> pointerclass[index], kind |-> kind, value |-> w,
                        pointer |-> create(kind, w, index)]
    /\ UNCHANGED <<bits, pointerclass, wants, failed>>

TaggedInit ==
    /\ bits \in {32, 64}
    /\ pointerclass = [i \in 1..7 |-> Vacant]
    /\ wants = TaggedClass
    /\ failed = FALSE
    /\ object = NoObject

----------------------------------------------------------------------------
(* Ids of strings (uniqueid.c 50-154)                                      *)

NO_UNIQUEID == 0
INVALID_UNIQUEID == 2^Width - 1

\* hash: of the string, or Vacant for a missing or an empty one.  Rotated by 4
uniqueid_from_hash(hash) ==
    IF hash = Vacant THEN INVALID_UNIQUEID
    ELSE LET id == rol(hash, 4) IN IF id = NO_UNIQUEID THEN INVALID_UNIQUEID ELSE id

uniqueid_is_sane(id) == id \notin {NO_UNIQUEID, INVALID_UNIQUEID}

\* With DEBUG the id is compared with the string's
uniqueid_is_sane_string(id, hash, debug) ==
    uniqueid_is_sane(id) /\ (debug => id = uniqueid_from_hash(hash))
----------------------------------------------------------------------------
\* A tagged pointer carries its value and belongs to the class that made it, whatever
\* other classes ask for; it is never mistaken for a pointer to memory.
TaggedKeepsValue ==
    object # NoObject =>
        /\ object.pointer \in Word /\ get_index(object.pointer) # 0
        /\ getValue(object.kind, object.pointer) = object.value
        /\ get_isa(object.pointer) = object.class

\* "all bits are preserved" (uniqueid.c 78): two strings share an id only if they share the
\* hash, or hash badly and have none.  (The state does not matter, so few states do.)
IdsAreHashes ==
    (object = NoObject /\ wants # TaggedClass) =>
        \A hash \in Word :
            LET id == uniqueid_from_hash(hash)
            IN  /\ id \in Word
                /\ uniqueid_is_sane(id) => rol(id, Width - 4) = hash
                /\ uniqueid_is_sane_string(id, hash, TRUE) <=> hash \notin {0, 2^Width - 1}

\* What is put into a word comes out of it again: values and classes of tagged pointers
\* (taggedpointer.h), hashes of strings (uniqueid.c).
WordsKeepValues == TaggedKeepsValue /\ IdsAreHashes
=============================================================================
