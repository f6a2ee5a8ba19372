----------------------------- MODULE MCRegistry -----------------------------
(***************************************************************************)
(* Two loaders with entries of each kind, clashing or varying, and a       *)
(* foundation that installs its classes before, between or while they add  *)
(* static instances; loadinfos that fit, do not fit, or do not fit to each *)
(* other.                                                                  *)
(***************************************************************************)
EXTENDS Registry, TLC

CONSTANTS t1, t2, t3, s1, s2, s3, A, B

Entry(kind, id, name, type) ==
    [op |-> "register", entry |-> [kind |-> kind, id |-> id, name |-> name, type |-> type]]
String(i) == [op |-> "string", instance |-> i]
Class(slot, class) == [op |-> "class", slot |-> slot, class |-> class]
ScanAll(constantify) == [op |-> "scan", constantify |-> constantify]

Ours == [major |-> 0, minor |-> 2, load |-> 20, foundation |-> 7, user |-> 0]
MCConfig == [version |-> Ours, skip_consistency_checks |-> FALSE, no_tagged_pointer |-> FALSE,
             tao |-> "TAO_LOADS", min_optlevel |-> 0, max_optlevel |-> 7, nofastcalls |-> TRUE,
             utf8staticstrings |-> FALSE]

\* The bits of ordinary code with tagged pointers, optimized -O2
Tps == threadaffineobjects + nofastcalls + 2 * (2 ^ 8)
Version(bits) == Ours @@ [bits |-> bits]
Load(version, strings, hashed, supers) ==
    [op |-> "load", version |-> version, wanted |-> TRUE, named |-> FALSE, strings |-> strings,
     hashed |-> hashed, supers |-> supers]
Nothing == (t1 :> <<>>) @@ (t2 :> <<>>) @@ (t3 :> <<>>)

MCSlotOf == (s1 :> 0) @@ (s2 :> 0) @@ (s3 :> 1)

Strings == <<[id |-> 5, string |-> "e"], [id |-> 2, string |-> "b"], [id |-> 9, string |-> "i"],
             [id |-> 4, string |-> "d"]>>

\* Two loadinfos, with a super of the same id, and a foundation
Loading(super2) ==
    (t1 :> <<Load(Version(Tps + unsorted), <<s1>>, Strings, <<Entry("super", 1, "A", "foo").entry>>),
             Entry("descriptor", 2, "bar", "i"), Entry("category", 1, "x", "")>>)
 @@ (t2 :> <<String(s2), Entry("super", 1, super2, "foo"), Entry("descriptor", 2, "bar", "v"),
             Entry("protocol", 1, "P", "")>>)
 @@ (t3 :> <<Class(0, A), ScanAll(TRUE), String(s3), Entry("descriptor", 2, "bar", "i"),
             Entry("protocol", 1, "P", ""), Class(1, B), ScanAll(FALSE)>>)

\* The classes come last, or from two threads
Installing ==
    (t1 :> <<Load(Version(Tps), <<s1, s3>>, <<>>, <<>>)>>)
 @@ (t2 :> <<Load(Version(Tps), <<s2>>, ById(Strings), <<>>), Class(1, B), ScanAll(FALSE)>>)
 @@ (t3 :> <<Class(0, A), ScanAll(TRUE)>>)

\* Ids that are none, or clash
Clashing(kind) ==
    [Nothing EXCEPT ![t1] = <<Entry(kind, 2, "bar", "")>>, ![t2] = <<Entry(kind, 2, "foo", "")>>,
                    ![t3] = <<Entry(kind, 0, "", "")>>]

\* Code with and without tagged pointers
Mixing ==
    [Nothing EXCEPT ![t1] = <<Load(Version(Tps), <<>>, <<>>, <<>>), Load(Version(Tps), <<>>, <<>>, <<>>)>>,
                    ![t2] = <<Load(Version(Tps + notaggedptrs), <<>>, ById(Strings), <<>>)>>,
                    ![t3] = <<Load(Version(Tps), <<s1>>, <<>>, <<>>)>>]

\* Loadinfos that are refused, or not wanted
Refused ==
    {[Nothing EXCEPT ![t1] = <<Load(v, <<s1>>, <<>>, <<>>)>>] :
        v \in {[Version(Tps) EXCEPT !.minor = 3], [Version(Tps) EXCEPT !.load = 19],
               [Version(Tps) EXCEPT !.foundation = 6], Version(Tps - threadaffineobjects),
               Version(Tps + utf8_strings), Version(Tps - nofastcalls)}}
    \cup {[Nothing EXCEPT ![t1] = <<[Load(Version(Tps), <<>>, <<>>, <<>>) EXCEPT !.named = TRUE]>>],
          [Nothing EXCEPT ![t1] = <<[Load(Version(Tps), <<s1>>, <<>>, <<>>) EXCEPT !.wanted = FALSE]>>]}

MCPrograms == {Loading("A"), Loading("B"), Installing, Mixing} \cup {Clashing(k) : k \in Kind} \cup Refused
=============================================================================
