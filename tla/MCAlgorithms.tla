---------------------------- MODULE MCAlgorithms ----------------------------
(***************************************************************************)
(* The algorithms of the runtime, each on its own inputs: the method search,*)
(* signatures, the check of +dependencies, and values in words.  A          *)
(* behaviour is about one topic; the others rest.                           *)
(***************************************************************************)
EXTENDS MCMethodSearch, MCSignature, MCDependencies, TaggedPointers

VARIABLE topic

allVars == <<topic, case, sample, program, taggedVars>>

\* A topic that rests stays in one of its initial states
Init ==
    /\ topic \in {"search", "signature", "dependencies", "tagged"}
    /\ IF topic = "search" THEN SearchInit ELSE case = CHOOSE x \in Shapes : TRUE
    /\ IF topic = "signature" THEN SignatureInit
       ELSE sample = [kind |-> "start", seed |-> Scalar("i")]
    /\ IF topic = "dependencies" THEN DependenciesInit
       ELSE program = [meta |-> FALSE, warn |-> FALSE, dynamic |-> FALSE,
                       lists |-> <<List(NoCategory, {})>>]
    /\ TaggedInit /\ (topic # "tagged" => bits = 64)

Search_ == topic = "search" /\ Implement /\ UNCHANGED <<topic, sample, program, taggedVars>>
Type_   == topic = "signature" /\ SampleType /\ UNCHANGED <<topic, case, program, taggedVars>>
Method_ == topic = "signature" /\ SampleMethod /\ UNCHANGED <<topic, case, program, taggedVars>>
Install_ == topic = "dependencies" /\ Install /\ UNCHANGED <<topic, case, sample, taggedVars>>
Tag_    == topic = "tagged" /\ SetClass /\ UNCHANGED <<topic, case, sample, program>>
Create_ == topic = "tagged" /\ Create /\ UNCHANGED <<topic, case, sample, program>>

Next == Search_ \/ Type_ \/ Method_ \/ Install_ \/ Tag_ \/ Create_

Spec == Init /\ [][Next]_allVars
=============================================================================
