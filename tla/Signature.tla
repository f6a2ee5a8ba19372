----------------------------- MODULE Signature -----------------------------
(***************************************************************************)
(* Type encodings: sizes and alignments, the frame of a method call, the   *)
(* MetaABI (whether a parameter block is void, one pointer or a struct),   *)
(* comparisons of signatures and binary compatibility of types.            *)
(*                                                                         *)
(* An encoding is a sequence of tokens.  A token is a character of the     *)
(* encoding, a number, or an extension in quotes or angle brackets as one. *)
(* The architecture is a 64 bit one: the size of a scalar is its alignment.*)
(***************************************************************************)
EXTENDS Integers, Sequences, SequencesExt

Number == [t \in {"0", "1", "2", "3", "5", "8", "9", "16"} |->
              CASE t = "0" -> 0 [] t = "1" -> 1 [] t = "2" -> 2 [] t = "3" -> 3
                [] t = "5" -> 5 [] t = "8" -> 8 [] t = "9" -> 9 [] t = "16" -> 16]
IsNumber(t) == t \in DOMAIN Number

\* The token at i; the terminating zero is the empty token
TokenAt(s, i) == IF i <= Len(s) THEN s[i] ELSE ""

\* mulle_address_align
AlignUp(x, a) == IF a = 0 THEN 0 ELSE ((x + a - 1) \div a) * a

LargerOf(x, y) == IF x > y THEN x ELSE y

SizeOfPointer == 8
AlignOfLongDouble == 16

----------------------------------------------------------------------------
(* Parsing one type *)

\* struct mulle_objc_typeinfo
Typeinfo(size, obj, ret) ==
    [size |-> size, align |-> size, salign |-> 8 * size, bits |-> 8 * size, n |-> 0,
     obj |-> obj, ret |-> ret]
Cleared == Typeinfo(0, FALSE, FALSE)
VoidPointer == Typeinfo(SizeOfPointer, FALSE, FALSE)

SizeOf ==
    [c \in {"v", "c", "C", "B", "s", "S", "i", "I", "l", "L", "q", "Q", "f", "d", ":", "#", "~",
            "=", "@", "*", "?", "%"} |->
        CASE c = "v" -> 0 [] c \in {"c", "C"} -> 1 [] c \in {"s", "S"} -> 2
          [] c \in {"B", "i", "I", "f", ":"} -> 4 [] OTHER -> 8]

\* _mulle_objc_signature_supply_scalar_typeinfo
supply_scalar_typeinfo(c) ==
    Typeinfo(SizeOf[c], c \in {"@", "~", "=", "#"}, c \in {"@", "~", "*"})

IsSimple(c) == c \in DOMAIN SizeOf \ {"@"}      \* the supplier returns 0

is_multi_character_type(c) == c \in {"^", "[", "{", "(", "b", "@"}

\* The result of a parse: the place behind the type, 0 for NULL, and the info
Parsed(next, info) == [next |-> next, info |-> info]
NoType == Parsed(0, Cleared)

supply_bitfield_typeinfo(len) ==
    [Cleared EXCEPT !.n = len, !.bits = len, !.size = (((len + 7) \div 8) + 3) \div 4, !.salign = 1]

update_array_typeinfo(len, tmp) ==
    [tmp EXCEPT !.n = len, !.bits = len * @, !.size = len * @]

MutStructUnaligned(info, tmp, n) ==
    IF n = 0 THEN [tmp EXCEPT !.n = 0, !.size = 0]
    ELSE [info EXCEPT !.bits = @ + tmp.bits, !.align = LargerOf(@, tmp.align),
                      !.salign = LargerOf(@, tmp.salign),
                      !.obj = @ \/ tmp.obj, !.ret = @ \/ tmp.ret]
\* _update_struct_typeinfo_with_first_member_typeinfo and ..._subsequent_...
update_struct_typeinfo(info, tmp, n) ==
    IF n = 0 THEN [tmp EXCEPT !.n = 0, !.size = 0]
    ELSE [info EXCEPT !.bits = AlignUp(@, tmp.salign) + tmp.bits,
                      !.align = LargerOf(@, tmp.align), !.salign = LargerOf(@, tmp.salign),
                      !.obj = @ \/ tmp.obj, !.ret = @ \/ tmp.ret]

finalize_struct_typeinfo(info, n) ==
    LET bits == AlignUp(info.bits, info.salign)
    IN  [info EXCEPT !.bits = bits, !.size = bits \div 8, !.n = n]

\* _update_union_typeinfo_with_member_typeinfo: the size is not rounded up
update_union_typeinfo(info, tmp) ==
    [info EXCEPT !.align = LargerOf(@, tmp.align), !.salign = LargerOf(@, tmp.salign),
                 !.bits = LargerOf(@, tmp.bits), !.size = LargerOf(@, tmp.size),
                 !.obj = @ \/ tmp.obj, !.ret = @ \/ tmp.ret]

RECURSIVE type_parse(_, _, _, _), ParseMembers(_, _, _, _, _, _)

\* _mulle_objc_signature_supply_array_typeinfo, behind the "["
ArrayOf(len, p) ==
    IF p.next = 0 THEN NoType ELSE Parsed(p.next + 1, update_array_typeinfo(len, p.info))
ParseArray(s, i, wanted) ==
    IF IsNumber(TokenAt(s, i)) THEN ArrayOf(Number[s[i]], type_parse(s, i + 1, FALSE, wanted))
    ELSE ArrayOf(0, type_parse(s, i, FALSE, wanted))

\* _mulle_objc_signature_supply_struct_typeinfo and ..._union_typeinfo with n
\* members parsed: the name ends with the first "="
ParseNext(s, p, close, n, info, wanted) ==
    IF p.next = 0 THEN NoType
    ELSE ParseMembers(s, p.next, close, n + 1,
                      IF close = "}" THEN update_struct_typeinfo(info, p.info, n)
                      ELSE update_union_typeinfo(info, p.info),
                      wanted)
ParseMembers(s, i, close, n, info, wanted) ==
    LET c == TokenAt(s, i)
    IN  CASE c = "" -> NoType
          [] c = close -> Parsed(i + 1, IF close = "}" THEN finalize_struct_typeinfo(info, n)
                                        ELSE [info EXCEPT !.n = n])
          [] n = 0 /\ c \notin {"=", close, ""} -> ParseMembers(s, i + 1, close, 0, info, wanted)
          [] OTHER -> ParseNext(s, type_parse(s, IF n = 0 THEN i + 1 ELSE i, FALSE, wanted),
                                close, n, info, wanted)

\* _mulle_objc_type_parse.  outer is a level of -1, where an array is a pointer;
\* wanted is an info that is not NULL.
type_parse(s, i, outer, wanted) ==
    LET c == TokenAt(s, i)
    IN  IF wanted /\ IsSimple(c) THEN Parsed(i + 1, supply_scalar_typeinfo(c))
        ELSE IF ~wanted /\ ~is_multi_character_type(c) THEN Parsed(i + 1, Cleared)
        ELSE
          CASE c = "^" -> IF wanted /\ TokenAt(s, i + 1) = "?" THEN Parsed(i + 2, VoidPointer)
                        ELSE [type_parse(s, i + 1, FALSE, FALSE) EXCEPT !.info = VoidPointer]
          [] c = "[" -> IF outer THEN [ParseArray(s, i + 1, FALSE) EXCEPT !.info = VoidPointer]
                        ELSE ParseArray(s, i + 1, wanted)
          [] c = "b" -> IF IsNumber(TokenAt(s, i + 1))
                        THEN Parsed(i + 2, supply_bitfield_typeinfo(Number[s[i + 1]]))
                        ELSE Parsed(i + 1, supply_bitfield_typeinfo(0))
          [] c = "@" -> IF TokenAt(s, i + 1) = "?" THEN Parsed(i + 2, VoidPointer)    \* a block
                        ELSE Parsed(i + 1, supply_scalar_typeinfo("@"))
          [] c = "{" -> ParseMembers(s, i + 1, "}", 0, Cleared, wanted)
          [] c = "(" -> ParseMembers(s, i + 1, ")", 0, Cleared, wanted)
          [] OTHER -> NoType

\* The rest of _mulle_objc_signature_supply_typeinfo: extensions and an offset
SkipIf(s, i, tokens) == IF TokenAt(s, i) \in tokens THEN i + 1 ELSE i
SkipNumber(s, i) == IF IsNumber(TokenAt(s, i)) THEN i + 1 ELSE i
SkipDecoration(s, i) ==
    SkipNumber(s, SkipIf(s, SkipIf(s, SkipIf(s, SkipIf(s, i, {"<>"}), {"quoted"}), {"-"}), {"+"}))

\* _mulle_objc_signature_supply_typeinfo without a supplier
Supplied(s, i, p) ==
    [next |-> IF p.next = 0 THEN 0 ELSE SkipDecoration(s, p.next), info |-> p.info,
     pure |-> IF p.next = 0 THEN <<>> ELSE SubSeq(s, i, p.next - 1)]
supply_typeinfo(s, i) == Supplied(s, i, type_parse(s, i, FALSE, TRUE))

\* _mulle_objc_signature_skip_extendedtypeinfo: behind an extension one more
\* character is skipped, the first digit of an offset
RECURSIVE skip_extendedtypeinfo(_, _)
skip_extendedtypeinfo(s, i) ==
    CASE TokenAt(s, i) \in {"<>", "quoted"} -> skip_extendedtypeinfo(s, i + 2)
      [] TokenAt(s, i) \in {"-", "+"} \/ IsNumber(TokenAt(s, i)) -> skip_extendedtypeinfo(s, i + 1)
      [] OTHER -> i

\* mulle_objc_signature_next_type; the place behind the last type is not NULL
next_type(s, i) ==
    IF i = 0 \/ TokenAt(s, i) = "" THEN 0
    ELSE LET p == type_parse(s, i, TRUE, FALSE)
         IN  IF p.next = 0 THEN 0 ELSE skip_extendedtypeinfo(s, p.next)

\* mulle_objc_signature_count_typeinfos
RECURSIVE CountTypes(_, _)
CountTypes(s, i) == LET j == next_type(s, i) IN IF j = 0 THEN 0 ELSE 1 + CountTypes(s, j)
count_typeinfos(s) == CountTypes(s, 1)

----------------------------------------------------------------------------
(* The frame of an invocation: mulle_objc_signatureenumerator *)

MutFrameUnaligned(s, i, index, offset) == offset
\* Where argument index goes: the first behind self and _cmd is aligned for all
InvocationOffset(s, i, index, offset) ==
    AlignUp(offset, IF index = 2 THEN AlignOfLongDouble
                    ELSE supply_typeinfo(s, i).info.salign \div 8)

RECURSIVE ArgumentsFrom(_, _, _, _)
Placed(info, offset) ==
    [offset |-> offset, size |-> info.size, align |-> info.align, ret |-> info.ret]
PlaceArgument(s, t, index, offset) ==
    <<Placed(t.info, offset)>> \o ArgumentsFrom(s, t.next, index + 1, offset + t.info.size)
ArgumentsFrom(s, i, index, offset) ==
    IF i = 0 \/ TokenAt(s, i) = "" THEN <<>>
    ELSE PlaceArgument(s, supply_typeinfo(s, i), index, InvocationOffset(s, i, index, offset))

\* mulle_objc_signature_fill_arginfos: self, _cmd, the arguments, and the return
\* value last
arginfos(s) == ArgumentsFrom(s, supply_typeinfo(s, 1).next, 0, 0)
EndOf(a) == a.offset + a.size
EndOfAll(args) == IF args = <<>> THEN 0 ELSE EndOf(Last(args))
rval(s) == Placed(supply_typeinfo(s, 1).info, EndOfAll(arginfos(s)))

\* mulle_metaabi_sizeof_union
sizeof_union(size) == 40 * ((size + 39) \div 40)

\* _mulle_objc_signature_sizeof_metaabistruct
sizeof_metaabistruct(s) == sizeof_union(EndOf(rval(s)))

\* _mulle_metaabi_push and _mulle_metaabi_next: the place of a value pushed to, or
\* read from, a block that is filled up to offset
metaabi_push(offset, info) == AlignUp(offset, info.align)

----------------------------------------------------------------------------
(* MetaABI *)

storage_compatible(size, align) == size <= SizeOfPointer /\ align <= SizeOfPointer

\* _mulle_metaabi_get_metaabiparamtype
get_metaabireturntype(s, i) ==
    LET c == TokenAt(s, i)
    IN  CASE c \in {"", "v"} -> "void"
          [] c = "?" -> "error"
          [] c \in {"l", "L", "q", "Q"} ->
                IF storage_compatible(SizeOf[c], SizeOf[c]) THEN "pointer" ELSE "struct"
          [] c \in {"%", "B", "*", "@", "~", "=", "#", ":", "c", "C", "s", "S", "i", "I", "^"} ->
                "pointer"
          [] OTHER -> "struct"

StructParam(t) ==
    IF t.next = 0 THEN "error"
    ELSE IF storage_compatible(t.info.size, t.info.align) THEN "pointer" ELSE "struct"
\* _mulle_objc_signature_get_metaabiparamtype_for_param: tiny structs go as a pointer
get_metaabiparamtype_for_param(s, i) ==
    IF TokenAt(s, i) \notin {"{", "("} THEN get_metaabireturntype(s, i)
    ELSE StructParam(supply_typeinfo(s, i))

\* mulle_objc_signature_get_metaabiparamtype
get_metaabiparamtype(s) ==
    LET first == next_type(s, next_type(s, next_type(s, 1)))
        p == get_metaabiparamtype_for_param(s, first)
        second == next_type(s, first)
    IN  IF \/ get_metaabireturntype(s, 1) = "struct"
           \/ first # 0 /\ p = "pointer" /\ second # 0 /\ TokenAt(s, second) # ""
        THEN "struct"
        ELSE IF first = 0 THEN "void" ELSE p

----------------------------------------------------------------------------
(* C types as trees, their layout and their encoding *)

\* A type is <<"scalar", c>>, <<"pointer", t>>, <<"array", t, length>>,
\* <<"struct", members>> or <<"union", members>>.
Scalar(c) == <<"scalar", c>>

RECURSIVE AlignOfC(_), SizeOfC(_), Encode(_), Fields(_)
LargestOf(f(_), members) == FoldLeft(LAMBDA x, m : LargerOf(x, f(m)), 1, members)
AlignOfC(t) ==
    CASE t[1] = "scalar" -> SizeOf[t[2]]
      [] t[1] = "pointer" -> SizeOfPointer
      [] t[1] = "array" -> AlignOfC(t[2])
      [] OTHER -> LargestOf(AlignOfC, t[2])
SizeOfC(t) ==
    CASE t[1] = "scalar" -> SizeOf[t[2]]
      [] t[1] = "pointer" -> SizeOfPointer
      [] t[1] = "array" -> Number[t[3]] * SizeOfC(t[2])
      [] t[1] = "struct" ->
            AlignUp(FoldLeft(LAMBDA x, m : AlignUp(x, AlignOfC(m)) + SizeOfC(m), 0, t[2]),
                    AlignOfC(t))
      [] OTHER -> AlignUp(LargestOf(SizeOfC, t[2]), AlignOfC(t))

EncodeAll(members) == FlattenSeq([i \in DOMAIN members |-> Encode(members[i])])
Encode(t) ==
    CASE t[1] = "scalar" -> <<t[2]>>
      [] t[1] = "pointer" -> <<"^">> \o Encode(t[2])
      [] t[1] = "array" -> <<"[", t[3]>> \o Encode(t[2]) \o <<"]">>
      [] t[1] = "struct" -> <<"{", "name", "=">> \o EncodeAll(t[2]) \o <<"}">>
      [] OTHER -> <<"(", "name", "=">> \o EncodeAll(t[2]) \o <<")">>

\* The signature of a method; an object argument may have its class in quotes
EncodeMethod(return, args, quote) ==
    Encode(return) \o <<"8", "@", "0", ":", "8">>
    \o FlattenSeq([i \in DOMAIN args |->
            Encode(args[i]) \o (IF quote /\ args[i] = Scalar("@") THEN <<"quoted">> ELSE <<>>)
            \o <<"16">>])

\* The values a type consists of: for a union those of its first member
Fields(t) ==
    CASE t[1] = "scalar" -> <<t[2]>>
      [] t[1] = "pointer" -> <<"^">>
      [] t[1] = "array" -> FlattenSeq([i \in 1..Number[t[3]] |-> Fields(t[2])])
      [] t[1] = "struct" -> FlattenSeq([i \in DOMAIN t[2] |-> Fields(t[2][i])])
      [] OTHER -> Fields(t[2][1])

----------------------------------------------------------------------------
(* The MetaABI as the C macros of a caller and a callee see it *)

\* mulle_metaabi_is_voidptr_compatible_expression
voidptr_compatible(t) ==
    /\ storage_compatible(SizeOfC(t), AlignOfC(t))
    /\ t \notin {Scalar("f"), Scalar("d")}

\* mulle_metaabi_is_voidptr_compatible_return_expression
voidptr_compatible_return(t) == voidptr_compatible(t) /\ t[1] # "struct"

\* mulle_metaabi_call: how it passes the arguments and expects the return value
metaabi_call(return, args) ==
    LET fits == Len(args) <= 1 /\ (args = <<>> \/ voidptr_compatible(args[1]))
        ok == return = Scalar("v") \/ voidptr_compatible_return(return)
    IN  IF ~fits \/ ~ok THEN "struct" ELSE IF args = <<>> THEN "void" ELSE "pointer"

metaabi_call_return(return) ==
    IF return = Scalar("v") THEN "void"
    ELSE IF voidptr_compatible_return(return) THEN "pointer" ELSE "struct"

\* mulle_metaabi_return, in the method
metaabi_return(return) == IF voidptr_compatible(return) THEN "pointer" ELSE "struct"

\* _mulle_objc_typeinfo_demote_value_to_natural and ..._promote_value_from_natural:
\* the bytes read and written, as if small integers were promoted by the former
demote(info, c) ==
    CASE c = "f" -> [reads |-> 8, writes |-> 4]
      [] c \in {"c", "C", "s", "S"} -> [reads |-> SizeOf[c], writes |-> 4]
      [] OTHER -> [reads |-> info.size, writes |-> info.size]
promote(info, c) ==
    CASE c = "f" -> [reads |-> 4, writes |-> 8]
      [] c \in {"c", "C", "s", "S"} -> [reads |-> 4, writes |-> SizeOf[c]]
      [] OTHER -> [reads |-> info.size, writes |-> info.size]

----------------------------------------------------------------------------
(* Comparisons *)

\* _mulle_objc_methodsignature_compare: from self on
FromSelf(s) ==
    LET at == {k \in 1..(Len(s) - 2) : SubSeq(s, k, k + 2) = <<"@", "0", ":">>}
    IN  IF at = {} THEN <<>>
        ELSE SubSeq(s, CHOOSE k \in at : \A j \in at : k <= j, Len(s))
methodsignature_compare(a, b) == FromSelf(a) = FromSelf(b)

\* _mulle_objc_methodsignature_compare_lenient: argument types without decoration
RECURSIVE LenientFrom(_, _, _, _)
LenientTypes(a, p, b, q) ==
    IF p.next = 0 \/ q.next = 0 THEN p.next = q.next
    ELSE p.pure = q.pure /\ LenientFrom(a, p.next, b, q.next)
LenientFrom(a, i, b, j) == LenientTypes(a, supply_typeinfo(a, i), b, supply_typeinfo(b, j))
methodsignature_compare_lenient(a, b) ==
    LenientFrom(a, supply_typeinfo(a, 1).next, b, supply_typeinfo(b, 1).next)

\* _mulle_objc_ivarsignature_compare
ivarsignature_compare(a, b) ==
    LET p == supply_typeinfo(a, 1)
        q == supply_typeinfo(b, 1)
    IN  IF p.next = 0 \/ q.next = 0 THEN p.next = q.next ELSE p.pure = q.pure

\* _mulle_objc_type_is_equal_to_type: one type, without parsing it
RECURSIVE EqualAggregate(_, _, _, _)
EqualAggregate(a, b, i, level) ==
    LET c == TokenAt(a, i)
        l == CASE c \in {"{", "(", "["} -> level + 1 [] c \in {"}", ")", "]"} -> level - 1
               [] OTHER -> level
    IN  c = TokenAt(b, i) /\ c # "" /\ (l = 0 \/ EqualAggregate(a, b, i + 1, l))
type_is_equal_to_type(a, b) ==
    /\ TokenAt(a, 1) = TokenAt(b, 1)
    /\ CASE TokenAt(a, 1) \in {"@", "=", "~"} -> TokenAt(a, 2) = "<>" => TokenAt(b, 2) = "<>"
         [] TokenAt(a, 1) \in {"{", "(", "["} -> EqualAggregate(a, b, 2, 1)
         [] OTHER -> TRUE

----------------------------------------------------------------------------
(* Binary compatibility: the fields of both types, one after the other *)

MAX_ARRAY_DEPTH == 8
MAX_AGGREGATE_DEPTH == 96

\* mulle_signature_field_enumerator_make
field_enumerator(s) == [curr |-> 1, sentinel |-> Len(s) + 1, stack |-> <<>>, arrays |-> <<>>]

\* skip_past "=": 0 if it is not there
SkipPast(s, r) ==
    LET at == {k \in r.curr..(r.sentinel - 1) : s[k] = "="}
    IN  IF at = {} THEN 0 ELSE 1 + CHOOSE k \in at : \A j \in at : k <= j

NoField(r) == [rover |-> r, field |-> ""]

RECURSIVE NextField(_, _), NextToken(_, _, _)

\* From label next of _mulle_signature_field_enumerator_next: an array goes back
\* to its element as long as it repeats
NextField(s, r) ==
    LET top == IF r.stack = <<>> THEN "" ELSE Last(r.stack)
        array == Last(r.arrays)
    IN  IF top = "[" /\ array.repeat > 0
        THEN NextToken(s, [r EXCEPT !.curr = array.field,
                                    !.arrays = Append(Front(@), [array EXCEPT !.repeat = @ - 1])],
                       top)
        ELSE NextToken(s, r, top)

NextToken(s, r, top) ==
    LET c == TokenAt(s, r.curr)
        q == [r EXCEPT !.curr = @ + 1]
        deeper == [q EXCEPT !.stack = Append(@, c)]
        number == IF IsNumber(TokenAt(s, q.curr)) THEN 1 ELSE 0
        field == q.curr + number
        repeat == IF number = 1 THEN Number[s[q.curr]] ELSE 0
        up == [q EXCEPT !.stack = Front(@),
                        !.arrays = IF c = "]" /\ Len(r.stack) > 1 THEN Front(@) ELSE @]
    IN  CASE c = "[" ->
                IF Len(deeper.stack) >= MAX_AGGREGATE_DEPTH \/ Len(r.arrays) >= MAX_ARRAY_DEPTH
                THEN NoField(deeper)
                ELSE NextField(s, [deeper EXCEPT !.curr = field,
                                      !.arrays = Append(@, [field |-> field, repeat |-> repeat])])
          [] c \in {"{", "("} ->
                IF Len(deeper.stack) >= MAX_AGGREGATE_DEPTH \/ SkipPast(s, deeper) = 0
                THEN NoField(deeper)
                ELSE NextField(s, [deeper EXCEPT !.curr = SkipPast(s, deeper)])
          [] c \in {"]", "}", ")"} ->
                IF up.stack = <<>> THEN NoField([up EXCEPT !.sentinel = up.curr])
                ELSE NextField(s, up)
          [] OTHER ->
                IF top = "union read" THEN NextToken(s, q, top)
                ELSE [rover |-> [q EXCEPT !.stack = IF top = "("
                                                    THEN Append(Front(@), "union read") ELSE @,
                                          !.sentinel = IF r.stack = <<>> THEN q.curr ELSE @],
                      field |-> c]

\* _mulle_signature_field_enumerator_next until it returns 0
RECURSIVE FieldsFrom(_, _)
WithField(s, n) == IF n.field = "" THEN <<>> ELSE <<n.field>> \o FieldsFrom(s, n.rover)
FieldsFrom(s, r) == IF r.curr = r.sentinel THEN <<>> ELSE WithField(s, NextField(s, r))

\* Encodings of one kind: objects, and integers but for their sign
Kind(c) ==
    CASE c \in {"=", "~", "@", "#"} -> "@" [] c = "Q" -> "q" [] c = "L" -> "l" [] c = "I" -> "i"
      [] c = "S" -> "s" [] c = "C" -> "c" [] OTHER -> c
Kinds(fields) == [i \in DOMAIN fields |-> Kind(fields[i])]

\* _mulle_objc_ivarsignature_is_binary_compatible
SameFields(p, q) ==
    IF p.next = 0 \/ q.next = 0 THEN p.next = q.next
    ELSE Kinds(FieldsFrom(p.pure, field_enumerator(p.pure)))
         = Kinds(FieldsFrom(q.pure, field_enumerator(q.pure)))
is_binary_compatible(a, b) == SameFields(supply_typeinfo(a, 1), supply_typeinfo(b, 1))
=============================================================================
