---------------------------- MODULE MCLoadQueue ----------------------------
(* Instances of LoadQueue for TLC.  A is a root class with the categories
   A(k) and A(l), B its subclass with the mixin M, C a subclass of B; X and Y
   need each other; A2, M2 and Ak2 are duplicates, and D is compiled against
   another A.  The wait queues of B and M share a hash, as ids can on 32 bit. *)
EXTENDS LoadQueue, TLC

CONSTANTS A, B, C, M, X, Y, Ak, Al, A2, M2, Ak2, D, k, l, a, b, c, m, x1, y1, d

MCClassId == {a, b, c, m, x1, y1, d}

MCKind == [x \in Loadable |-> CASE x \in {M, M2} -> "mixin"
                                [] x \in {Ak, Al, Ak2} -> "category"
                                [] OTHER -> "class"]

MCClassOf == [x \in Loadable |-> CASE x \in {A, A2, Ak, Al, Ak2} -> a
                                   [] x = B -> b
                                   [] x = C -> c
                                   [] x \in {M, M2} -> m
                                   [] x = X -> x1
                                   [] x = Y -> y1
                                   [] x = D -> d]

MCCategoryOf == [x \in Loadable |-> CASE x \in {Ak, Ak2} -> k
                                      [] x = Al -> l
                                      [] OTHER -> NoCategory]

MCSuperOf == [x \in Loadable |-> CASE x \in {B, D} -> a
                                   [] x = C -> b
                                   [] x = X -> y1
                                   [] OTHER -> NoClass]

MCMixinsOf == [x \in Loadable |-> CASE x = B  -> <<m, b>>
                                    [] x = Al -> <<m, a>>
                                    [] OTHER  -> <<>>]

\* C needs the category A(l), A(l) the category A(k), A(k) the class B
MCDependencies == [x \in Loadable |-> CASE x = C  -> <<<<a, l>>>>
                                        [] x = Al -> <<<<a, k>>, <<a, NoCategory>>>>
                                        [] x \in {Ak, Ak2} -> <<<<b, NoCategory>>>>
                                        [] x = Y  -> <<<<x1, NoCategory>>>>
                                        [] OTHER  -> <<>>]

MCHash == [i \in ClassId |-> IF i = m THEN b ELSE i]

\* loadinfos of one or two loadables, the last four with errors
Of(classes, mixins, categories) ==
    [loadclasslist |-> classes, loadmixinlist |-> mixins, loadcategorylist |-> categories]
EveryOrder ==
    {Of(list, <<>>, <<>>) : list \in {<<C, B>>, <<A>>, <<Y, X>>, <<A2>>, <<D>>}}
    \cup {Of(<<>>, list, <<>>) : list \in {<<M>>, <<M2>>}}
    \cup {Of(<<>>, <<>>, list) : list \in {<<Ak>>, <<Al>>, <<Ak2>>}}

=============================================================================
