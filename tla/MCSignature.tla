---------------------------- MODULE MCSignature ----------------------------
(***************************************************************************)
(* Types and method signatures for Signature.                              *)
(***************************************************************************)
EXTENDS Signature, FiniteSets

VARIABLE sample

Scalars == {Scalar(c) : c \in {"c", "s", "i", "q", "d", "@"}}
Lists(S, n) == UNION {[1..k -> S] : k \in 1..n}

Flat == Scalars \cup {Scalar("f"), <<"pointer", Scalar("i")>>, <<"pointer", Scalar("?")>>}
        \cup {<<"array", t, n>> : t \in Scalars, n \in {"1", "3"}}
        \cup {<<"struct", m>> : m \in Lists(Scalars, 2)}
        \cup {<<"union", m>> : m \in [1..2 -> Scalars]}
        \cup {<<"struct", <<Scalar("i"), <<"pointer", Scalar("i")>>>> >>}

NestedIn(t) == {t, <<"pointer", t>>} \cup {<<"array", t, n>> : n \in {"2", "5"}}
               \cup {<<"struct", <<t, u>>>> : u \in Flat} \cup {<<"union", <<t, u>>>> : u \in Scalars}
               \cup {<<"struct", <<Scalar("c"), t, u>>>> : u \in Scalars}

Returns == Scalars \cup {Scalar("v"), Scalar("f"), <<"struct", <<Scalar("s"), Scalar("c")>>>>,
                         <<"struct", <<Scalar("q"), Scalar("c")>>>>,
                         <<"union", <<Scalar("i"), Scalar("d")>>>>}
Arguments == {<<>>} \cup Lists(Returns \ {Scalar("v")}, 2) \cup {<<t>> : t \in {u \in Flat : u[1] # "array"}}
             \cup {<<t, u, v>> : t \in Scalars, u \in Returns \ {Scalar("v")}, v \in {Scalar("c"), Scalar("d")}}

SignatureInit == sample \in [kind : {"start"}, seed : Flat \cup Returns]

SampleType ==
    /\ sample.kind = "start" /\ sample.seed \in Flat
    /\ \E t \in NestedIn(sample.seed) : sample' = [kind |-> "type", type |-> t]
SampleMethod ==
    /\ sample.kind = "start" /\ sample.seed \in Returns
    /\ \E args \in Arguments, quote \in BOOLEAN :
          sample' = [kind |-> "method", return |-> sample.seed, args |-> args, quote |-> quote]

----------------------------------------------------------------------------
IsType == sample.kind = "type"
IsMethod == sample.kind = "method"

\* A union whose size C rounds up
RECURSIVE HasRaggedUnion(_)
HasRaggedUnion(t) ==
    CASE t[1] \in {"scalar", "pointer"} -> FALSE
      [] t[1] = "array" -> HasRaggedUnion(t[2])
      [] OTHER -> \/ \E i \in DOMAIN t[2] : HasRaggedUnion(t[2][i])
                  \/ t[1] = "union" /\ \E i \in DOMAIN t[2] :
                        SizeOfC(t) > SizeOfC(t[2][i]) /\ SizeOfC(t[2][i]) % AlignOfC(t) # 0

\* The size and alignment read from an encoding are those of the C type, and
\* skipping a type ends where parsing it does.  (A union whose size C rounds up
\* keeps its size, so it is left out.)  (signature.c 525-626)
LayoutAgrees(t, code, p) ==
    /\ p.next = Len(code) + 1
    /\ next_type(code, 1) = p.next
    /\ p.info.align = AlignOfC(t)
    /\ ~HasRaggedUnion(t) => p.info.size = SizeOfC(t) /\ p.info.bits = 8 * p.info.size
SizesAreThoseOfC ==
    IsType => LayoutAgrees(sample.type, Encode(sample.type),
                           supply_typeinfo(Encode(sample.type), 1))

\* The fields found for an encoding: not those behind a pointer in an aggregate, and
\* only scalars in a union
RECURSIVE HasPlainFields(_)
HasPlainFields(t) ==
    CASE t[1] = "scalar" -> TRUE
      [] t[1] = "pointer" -> FALSE
      [] t[1] = "array" -> HasPlainFields(t[2])
      [] t[1] = "union" -> \A i \in DOMAIN t[2] : t[2][i][1] = "scalar"
      [] OTHER -> \A i \in DOMAIN t[2] : HasPlainFields(t[2][i])

Models == {Scalar("I"), Scalar("~"), <<"array", Scalar("I"), "2">>, <<"array", Scalar("d"), "3">>,
           <<"struct", <<Scalar("i"), Scalar("I")>>>>, <<"struct", <<Scalar("#"), Scalar("Q")>>>>,
           <<"struct", <<Scalar("c"), <<"array", Scalar("S"), "3">>, Scalar("i")>>>>,
           <<"array", <<"struct", <<Scalar("c"), Scalar("d")>>>>, "2">>,
           <<"array", <<"array", Scalar("c"), "3">>, "5">>, <<"union", <<Scalar("Q"), Scalar("c")>>>>}

\* Two types are binary compatible if they have the same fields in the same order,
\* whatever structs, unions and arrays these are in (signature.c 1148-1155).
CompatibleIsFieldwise ==
    IsType /\ HasPlainFields(sample.type) =>
        \A m \in Models : is_binary_compatible(Encode(sample.type), Encode(m))
                          <=> Kinds(Fields(sample.type)) = Kinds(Fields(m))

\* Comparing encodings tells types apart, except that the shallow comparison takes all
\* pointers for equal (signature.c 958-975, 1083-1139).
EqualMeansSame ==
    IsType =>
        \A m \in Models \cup {sample.type, <<"pointer", Scalar("i")>>} :
            LET a == Encode(sample.type)
                b == Encode(m)
            IN  /\ ivarsignature_compare(a, b) <=> sample.type = m
                /\ type_is_equal_to_type(a, b) <=>
                      sample.type = m \/ (sample.type[1] = "pointer" /\ m[1] = "pointer")

s == EncodeMethod(sample.return, sample.args, sample.quote)

\* The arguments of an invocation, and its return value, do not overlap, are aligned,
\* where a writer of a parameter block puts them, and fit into the block
\* (signature.c 725-745, 923-955).
FrameIsSound(args, value, size, infos) ==
    LET all == Append(args, value)
    IN  /\ Len(args) = Len(sample.args) + 2
        /\ count_typeinfos(s) = Len(args) + 1
        /\ \A i \in DOMAIN args : args[i].offset % args[i].align = 0
        /\ \A i, j \in DOMAIN all : i < j => all[i].offset + all[i].size <= all[j].offset
        /\ \A i \in 4..Len(args) :
              metaabi_push(args[i - 1].offset + args[i - 1].size, infos[i - 2]) = args[i].offset
        /\ \A e \in Range(all) : e.offset + e.size <= size
        /\ \A i \in DOMAIN sample.args :
              LET c == Encode(sample.args[i])[1]
              IN  promote(infos[i], c).reads = demote(infos[i], c).writes
FrameHoldsAll ==
    IsMethod =>
        FrameIsSound(arginfos(s), rval(s), sizeof_metaabistruct(s),
                     [i \in DOMAIN sample.args |-> supply_typeinfo(Encode(sample.args[i]), 1).info])

\* A caller that goes by the C types passes parameters, and expects the return value,
\* as the signature says (signature.h 428-433).  (A union as a return value, which C
\* returns in a register if it fits, is left out.)
CallerAgrees ==
    IsMethod /\ sample.return[1] # "union" =>
        /\ metaabi_call(sample.return, sample.args) = get_metaabiparamtype(s)
        /\ metaabi_call_return(sample.return) = get_metaabireturntype(s, 1)
        /\ sample.return[1] = "scalar" /\ sample.return # Scalar("v") =>
              metaabi_return(sample.return) = metaabi_call_return(sample.return)

\* Two signatures are leniently equal if the argument types are, whatever the return
\* type and the class names (signature.c 999-1028).
LenientComparesTypes ==
    IsMethod =>
        \A return \in {Scalar("v"), Scalar("d")}, quote \in BOOLEAN,
           args \in {sample.args, <<>>, <<Scalar("@")>>, <<Scalar("@"), Scalar("i")>>} :
            LET other == EncodeMethod(return, args, quote)
            IN  /\ methodsignature_compare_lenient(s, other) <=> args = sample.args
                /\ methodsignature_compare(s, other) => methodsignature_compare_lenient(s, other)

\* What is read from the encoding of a type is what C makes of the type.
LayoutIsThatOfC == SizesAreThoseOfC /\ CompatibleIsFieldwise /\ EqualMeansSame

\* Caller, invocation and method agree on how arguments and return value travel, and on
\* which signatures do so alike.
CallMatchesSignature == FrameHoldsAll /\ CallerAgrees /\ LenientComparesTypes
============================================================================
