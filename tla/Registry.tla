------------------------------ MODULE Registry ------------------------------
(***************************************************************************)
(* What happens to a loadinfo before the loader takes its lock: it is      *)
(* checked against the configuration of the universe and against what was  *)
(* loaded before, then its static instances, hashed strings and supers are *)
(* added to the tables of the universe, which map ids to what they stand   *)
(* for.  The isa of a static instance, such as a constant string, is the   *)
(* number of a slot until a foundation installs a class there.             *)
(*                                                                         *)
(* Each thread works off a program: it loads loadinfos, registers entries, *)
(* or installs classes for slots.  None of this is done under a lock.      *)
(***************************************************************************)
EXTENDS Integers, Sequences, FiniteSets, Functions, SequencesExt

CONSTANTS Thread,
          Programs,     \* what the threads may be given to do: a sequence of operations each
          Config,       \* universe->config and the versions: see Matches
          SetsAlone,    \* classes are installed while nobody is adding a static instance
          Instance, Slot,
          SlotOf,       \* the slot in the isa of a static instance
          NoClass, NoEntry

\* Operations are records: [op |-> "register", entry |-> [kind, id, name, type]],
\* [op |-> "string", instance], [op |-> "hashed", list, unsorted],
\* [op |-> "class", slot, class], [op |-> "scan", constantify] and
\* [op |-> "load", version, wanted, named, strings, hashed, supers].  The name of an
\* entry is that of a method, protocol or category; of a super, name and type are
\* its class and method.
Kind == {"descriptor", "super", "protocol", "category"}
Given == UNION {UNION {Range(p[t]) : t \in Thread} : p \in Programs}
Entries == {o.entry : o \in {q \in Given : q.op = "register"}}
           \cup UNION {Range(o.supers) : o \in {q \in Given : q.op = "load"}}
Id == {e.id : e \in Entries}
Classes == {o.class : o \in {q \in Given : q.op = "class"}}

VARIABLES table,        \* [Kind -> [Id -> entry or NoEntry]]
          varying,      \* ids in varyingtypedescriptortable
          isa,          \* of the static instances: a slot or a class
          staticinstances,      \* a concurrent pointer array
          staticinstanceclass,  \* of the slots
          constant,     \* instances that were constantified
          hashnames,    \* a concurrent pointer array of lists of hashed strings
          loadbits,     \* bits for what was loaded so far
          overtaken,    \* a thread set a bit after it had checked older ones (history)
          done,         \* operations that were carried out (history)
          todo,         \* the rest of a thread's program
          pc, seen, at, \* a thread's step, the class or the bits it read, its place in the array
          failed        \* the program was aborted

vars == <<table, varying, isa, staticinstances, staticinstanceclass, constant, hashnames, loadbits,
          overtaken, done, todo, pc, seen, at, failed>>
instances == <<isa, staticinstances, staticinstanceclass, constant>>
tables == <<table, varying>>
loads == <<hashnames, loadbits, overtaken>>

Init ==
    /\ table = [k \in Kind |-> [i \in Id |-> NoEntry]] /\ varying = {}
    /\ isa = SlotOf /\ staticinstances = <<>> /\ constant = {}
    /\ staticinstanceclass = [s \in Slot |-> NoClass]
    /\ todo \in Programs /\ pc = [t \in Thread |-> "idle"]
    /\ seen = [t \in Thread |-> NoClass] /\ at = [t \in Thread |-> 0] /\ failed = FALSE
    /\ hashnames = <<>> /\ loadbits = {} /\ overtaken = FALSE /\ done = {}

----------------------------------------------------------------------------
(* Steps of a thread *)

Starts(t, op) == ~failed /\ pc[t] = "idle" /\ todo[t] # <<>> /\ Head(todo[t]).op = op
AtStep(t, p) == ~failed /\ pc[t] = p
Goto(t, p) == pc' = [pc EXCEPT ![t] = p]
Fail == failed' = TRUE /\ UNCHANGED <<todo, pc, done>>
Done(t) ==
    /\ todo' = [todo EXCEPT ![t] = Tail(@)] /\ Goto(t, "idle")
    /\ done' = done \cup {Head(todo[t])}

\* mulle_objc_descriptor_is_sane and its siblings: an id of 0 is none
is_sane(e) == e.id # 0

\* What two entries with the same id have to share
SuperClash(dup, e) == dup.name # e.name \/ dup.type # e.type
ProtocolClash(dup, e) == dup.name # e.name
CategoryClash(dup, e) == dup.name # e.name
DescriptorClash(dup, e) == dup.name # e.name
Clash(dup, e) == CASE e.kind = "super" -> SuperClash(dup, e)
                   [] e.kind = "protocol" -> ProtocolClash(dup, e)
                   [] e.kind = "category" -> CategoryClash(dup, e)
                   [] OTHER -> DescriptorClash(dup, e)
\* Compared for descriptors only: the signature and the bits of the method
Varies(dup, e) == e.kind = "descriptor" /\ dup.type # e.type

----------------------------------------------------------------------------
(* Loading: _mulle_objc_loadinfo_enqueue_nofail up to its lock *)

\* enum _mulle_objc_loadinfobits
unsorted == 1
notaggedptrs == 4
nofastcalls == 8
threadaffineobjects == 16
utf8_strings == 32
Bit(bits, b) == (bits \div b) % 2 = 1

\* The optimization level is read from bit 16 on (the compiler puts it at bit 8)
optlevel(bits) == (bits \div (2 ^ 16)) % 8

\* _mulle_objc_universe_assert_runtimeversion
runtimeversion_matches(version) ==
    /\ version.major = Config.version.major
    /\ version.major = 0 => version.minor = Config.version.minor

\* The bits the universe keeps for what was loaded (universe->loadbits)
LoadBit == {"NO_TPS_LOADS", "TPS_LOADS", "NO_TAO_LOADS", "TAO_LOADS"}
TpsBit(version) == IF Bit(version.bits, notaggedptrs) THEN "NO_TPS_LOADS" ELSE "TPS_LOADS"
TaoBit(version) == IF Bit(version.bits, threadaffineobjects) THEN "TAO_LOADS" ELSE "NO_TAO_LOADS"

\* mulle_objc_universe_assert_loadinfo, the versions
versions_match(version) ==
    /\ version.load = Config.version.load
    /\ Config.skip_consistency_checks
       \/ /\ version.foundation # 0 => version.foundation = Config.version.foundation
          /\ version.user # 0 => version.user = Config.version.user

\* ... tagged pointers: code with and without does not mix
tps_mismatch(version, bits) ==
    \/ TpsBit(version) = "TPS_LOADS" /\ ("NO_TPS_LOADS" \in bits \/ Config.no_tagged_pointer)
    \/ TpsBit(version) = "NO_TPS_LOADS" /\ "TPS_LOADS" \in bits

\* ... and the rest
Matches(version, named) ==
    /\ TaoBit(version) = Config.tao
    /\ named => Config.no_tagged_pointer
    /\ optlevel(version.bits) \in Config.min_optlevel..Config.max_optlevel
    /\ Bit(version.bits, nofastcalls) = Config.nofastcalls
    /\ Bit(version.bits, utf8_strings) => Config.utf8staticstrings

\* What the loader then adds: mulle_objc_loadstringlist_enqueue_nofail,
\* mulle_objc_loadhashedstringlist_enqueue_nofail and
\* mulle_objc_loadsuperlist_enqueue_nofail
loadstringlist_enqueue(list) == [i \in DOMAIN list |-> [op |-> "string", instance |-> list[i]]]
loadsuperlist_enqueue(list) == [i \in DOMAIN list |-> [op |-> "register", entry |-> list[i]]]
Content(info) ==
    loadstringlist_enqueue(info.strings)
    \o <<[op |-> "hashed", list |-> info.hashed, unsorted |-> Bit(info.version.bits, unsorted)]>>
    \o loadsuperlist_enqueue(info.supers)
Proceed(t) ==
    todo' = [todo EXCEPT ![t] = (IF Head(@).wanted THEN Content(Head(@)) ELSE <<>>) \o Tail(@)]

\* The versions are checked and the loadbits are read
LoadCheck(t) ==
    /\ Starts(t, "load")
    /\ LET info == Head(todo[t])
           fits == runtimeversion_matches(info.version)
                   /\ (info.wanted => versions_match(info.version))
           unchecked == ~info.wanted \/ Config.skip_consistency_checks
       IN  \/ ~fits /\ Fail /\ UNCHANGED seen
           \/ fits /\ unchecked /\ Proceed(t) /\ UNCHANGED <<pc, done, seen, failed>>
           \/ /\ fits /\ ~unchecked
              /\ Goto(t, "check") /\ seen' = [seen EXCEPT ![t] = loadbits]
              /\ UNCHANGED <<todo, done, failed>>
    /\ UNCHANGED <<tables, instances, loads, at>>

\* The bits that were read decide; then the universe's bits are set
LoadSet(t) ==
    /\ AtStep(t, "check")
    /\ LET info == Head(todo[t])
       IN  IF tps_mismatch(info.version, seen[t]) \/ ~Matches(info.version, info.named)
           THEN Fail /\ UNCHANGED <<loadbits, overtaken>>
           ELSE /\ loadbits' = loadbits \cup {TpsBit(info.version), TaoBit(info.version)}
                /\ overtaken' = (overtaken \/ seen[t] # loadbits)
                /\ Proceed(t) /\ Goto(t, "idle") /\ UNCHANGED <<done, failed>>
    /\ seen' = [seen EXCEPT ![t] = NoClass]
    /\ UNCHANGED <<tables, instances, hashnames, at>>

\* mulle_objc_loadhashedstringlist_enqueue_nofail: lists that are not sorted get sorted
ById(list) == SortSeq(list, LAMBDA a, b : a.id < b.id)
LoadHashed(t) ==
    /\ Starts(t, "hashed")
    /\ LET list == Head(todo[t]).list
       IN  hashnames' = IF list = <<>> THEN hashnames
                        ELSE Append(hashnames, IF Head(todo[t]).unsorted THEN ById(list) ELSE list)
    /\ Done(t) /\ UNCHANGED <<tables, instances, loadbits, overtaken, seen, at, failed>>

\* _mulle_objc_loadhashedstring_bsearch
loadhashedstring_bsearch(list, id) ==
    LET search[first \in 1..(Len(list) + 1), last \in 0..Len(list)] ==
            LET middle == (first + last) \div 2
            IN  IF first > last THEN ""
                ELSE CASE list[middle].id = id -> list[middle].string
                       [] list[middle].id < id -> search[middle + 1, last]
                       [] list[middle].id > id -> search[first, middle - 1]
    IN  search[1, Len(list)]
\* _mulle_objc_universe_search_hashstring
search_hashstring(id) ==
    LET hits == SelectSeq(hashnames, LAMBDA l : loadhashedstring_bsearch(l, id) # "")
    IN  IF hits = <<>> THEN "" ELSE loadhashedstring_bsearch(hits[1], id)

----------------------------------------------------------------------------
(* Tables *)

\* _mulle_objc_universe_register_descriptor, ..._super, ..._protocol, ..._category
\* and ..._propertyid_for_methodid: the hash map keeps the first entry and gives it
\* to whoever comes later.  Only one thread can be first.
MutRegisterLast(t) ==
    /\ Starts(t, "register")
    /\ LET e == Head(todo[t]).entry
       IN  table' = [table EXCEPT ![e.kind][e.id] = e]
    /\ Done(t) /\ UNCHANGED <<varying, failed, instances, loads, seen, at>>
Register(t) ==
    /\ Starts(t, "register")
    /\ LET e == Head(todo[t]).entry
           dup == table[e.kind][e.id]
       IN  \/ ~is_sane(e) /\ Fail /\ UNCHANGED table
           \/ /\ is_sane(e) /\ dup = NoEntry
              /\ table' = [table EXCEPT ![e.kind][e.id] = e]
              /\ Done(t) /\ UNCHANGED failed
           \/ /\ dup # NoEntry /\ Clash(dup, e)
              /\ Fail /\ UNCHANGED table
           \/ /\ dup # NoEntry /\ ~Clash(dup, e)
              /\ IF Varies(dup, e) THEN Goto(t, "varying") /\ UNCHANGED <<todo, done>> ELSE Done(t)
              /\ UNCHANGED <<table, failed>>
    /\ UNCHANGED <<varying, instances, loads, seen, at>>

\* The id of a method with varying types
RegisterVarying(t) ==
    /\ AtStep(t, "varying")
    /\ varying' = varying \cup {Head(todo[t]).entry.id}
    /\ Done(t) /\ UNCHANGED <<table, instances, loads, seen, at, failed>>

\* _mulle_objc_universe_add_staticinstance: the class of the slot
AddRead(t) ==
    /\ Starts(t, "string")
    /\ LET class == staticinstanceclass[isa[Head(todo[t]).instance]]
       IN  /\ seen' = [seen EXCEPT ![t] = class]
           /\ Goto(t, IF class = NoClass THEN "append" ELSE "isa")
    /\ UNCHANGED <<tables, loads, instances, todo, done, at, failed>>

\* ... goes into the instance if there is one
AddIsa(t) ==
    /\ AtStep(t, "isa")
    /\ isa' = [isa EXCEPT ![Head(todo[t]).instance] = seen[t]]
    /\ Goto(t, "append")
    /\ UNCHANGED <<tables, loads, staticinstances, staticinstanceclass, constant, todo, done, seen, at, failed>>

\* The instance is kept either way
AddAppend(t) ==
    /\ AtStep(t, "append")
    /\ staticinstances' = Append(staticinstances, Head(todo[t]).instance)
    /\ Done(t)
    /\ UNCHANGED <<tables, loads, isa, staticinstanceclass, constant, seen, at, failed>>

\* _mulle_objc_universe_set_staticinstanceclasses, one slot
SetClass(t) ==
    /\ Starts(t, "class")
    /\ SetsAlone => \A u \in Thread : pc[u] \notin {"isa", "append"}
    /\ staticinstanceclass' = [staticinstanceclass EXCEPT ![Head(todo[t]).slot] = Head(todo[t]).class]
    /\ Done(t) /\ UNCHANGED <<tables, loads, isa, staticinstances, constant, seen, at, failed>>

\* _mulle_objc_universe_didchange_staticinstanceclass
ScanStart(t) ==
    /\ Starts(t, "scan")
    /\ Goto(t, IF Head(todo[t]).constantify THEN "constantify" ELSE "scan")
    /\ at' = [at EXCEPT ![t] = 1]
    /\ UNCHANGED <<tables, loads, instances, todo, done, seen, failed>>

Constantify(t) ==
    /\ AtStep(t, "constantify")
    /\ IF at[t] <= Len(staticinstances)
       THEN /\ constant' = constant \cup {staticinstances[at[t]]}
            /\ at' = [at EXCEPT ![t] = @ + 1] /\ UNCHANGED pc
       ELSE at' = [at EXCEPT ![t] = 1] /\ Goto(t, "scan") /\ UNCHANGED constant
    /\ UNCHANGED <<tables, loads, isa, staticinstances, staticinstanceclass, todo, done, seen, failed>>

\* An instance whose isa is still a slot gets the class of the slot
Patched(i) ==
    IF isa[i] \in Slot /\ staticinstanceclass[isa[i]] # NoClass
    THEN staticinstanceclass[isa[i]] ELSE isa[i]

MutScanStops(t) ==
    /\ AtStep(t, "scan")
    /\ LET i == staticinstances[at[t]]
       IN  IF at[t] <= Len(staticinstances) /\ Patched(i) # isa[i]
           THEN isa' = [isa EXCEPT ![i] = Patched(i)] /\ at' = [at EXCEPT ![t] = @ + 1]
                /\ UNCHANGED <<todo, pc, done>>
           ELSE Done(t) /\ UNCHANGED <<isa, at>>
    /\ UNCHANGED <<tables, loads, staticinstances, staticinstanceclass, constant, seen, failed>>
Scan(t) ==
    /\ AtStep(t, "scan")
    /\ IF at[t] <= Len(staticinstances)
       THEN /\ LET i == staticinstances[at[t]] IN isa' = [isa EXCEPT ![i] = Patched(i)]
            /\ at' = [at EXCEPT ![t] = @ + 1] /\ UNCHANGED <<todo, pc, done>>
       ELSE Done(t) /\ UNCHANGED <<isa, at>>
    /\ UNCHANGED <<tables, loads, staticinstances, staticinstanceclass, constant, seen, failed>>

----------------------------------------------------------------------------
TypeOK ==
    /\ table \in [Kind -> [Id -> Entries \cup {NoEntry}]] /\ varying \subseteq Id
    /\ isa \in [Instance -> Slot \cup Classes] /\ staticinstances \in Seq(Instance)
    /\ staticinstanceclass \in [Slot -> Classes \cup {NoClass}] /\ constant \subseteq Instance
    /\ pc \in [Thread -> {"idle", "check", "varying", "isa", "append", "constantify", "scan"}]
    /\ seen \in [Thread -> Classes \cup {NoClass} \cup SUBSET LoadBit] /\ at \in [Thread -> Nat] /\ failed \in BOOLEAN
    /\ loadbits \in SUBSET LoadBit /\ overtaken \in BOOLEAN

Next == \E t \in Thread :
            \/ LoadCheck(t) \/ LoadSet(t) \/ LoadHashed(t) \/ Register(t) \/ RegisterVarying(t) \/ AddRead(t) \/ AddIsa(t) \/ AddAppend(t)
            \/ SetClass(t) \/ ScanStart(t) \/ Constantify(t) \/ Scan(t)

Spec == Init /\ [][Next]_vars

----------------------------------------------------------------------------
Registered == {o.entry : o \in {q \in done : q.op = "register"}}
Hashed == UNION {Range(o.list) : o \in {q \in done : q.op = "hashed"}}

\* _mulle_objc_universe_describe_uniqueid, and _mulle_objc_universe_describe_methodid
\* with its siblings
describe_uniqueid(id) == IF id = 0 THEN "NOT AN ID"
                         ELSE IF search_hashstring(id) # "" THEN search_hashstring(id) ELSE "???"
describe(kind, id) == IF table[kind][id] # NoEntry THEN table[kind][id].name ELSE describe_uniqueid(id)

\* Whoever has registered an entry finds its own name under the id, now and for
\* ever, or the universe was aborted for the clash of the ids (universe.c 2973-2977).
NamesAgree == failed \/ \A e \in Registered : describe(e.kind, e.id) = e.name

\* The string for an id is found once it was loaded, also from a list that came
\* unsorted (load.c 1308-1340, 1434-1472).
HashedIsFound == \A s \in Hashed : describe_uniqueid(s.id) \in {r.string : r \in {q \in Hashed : q.id = s.id}}

\* Code with and code without tagged pointers are loaded into the same universe
\* only if two threads checked at the same time (load.c 1581-1600: "as long as no
\* TPS-code is loaded also").
LoadsAreUniform == {"TPS_LOADS", "NO_TPS_LOADS"} \subseteq loadbits => overtaken

\* If two threads registered descriptors of different types, in any order, the
\* method is known to vary (universe.c 3001-3006).
VaryingIsMarked ==
    failed \/ \A d, e \in Registered :
                 d.kind = "descriptor" /\ e.kind = "descriptor" /\ d.id = e.id /\ d.type # e.type
                     => e.id \in varying

\* Once all have loaded, every static instance has the class of its slot, if there
\* is one (universe.h 1020-1022: "patches all queued instances whose slot is now
\* registered").
StaticInstancesPatched ==
    (\A t \in Thread : todo[t] = <<>>) =>
        \A i \in Instance : isa[i] \in Slot => staticinstanceclass[isa[i]] = NoClass

\* What was registered is what is found, whichever threads registered it in whatever
\* order, and what clashes is either marked or fails the universe.
RegistryAgrees == TypeOK /\ NamesAgree /\ VaryingIsMarked /\ HashedIsFound /\ LoadsAreUniform
=============================================================================
