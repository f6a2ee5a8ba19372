-------------------------- MODULE MCClassContent --------------------------
\* Sub inherits from Root; X is a mixin, Y a root class with an instance variable.
\* One property list is not sorted, and one has an accessor of another property.
EXTENDS ClassContent

ClientSymmetry == Permutations(Client)

Property(id, name, getter, setter, dynamic, clear) ==
    [id |-> id, name |-> name, getter |-> getter, setter |-> setter, dynamic |-> dynamic,
     clearable |-> clear]
A == Property(1, "a", "a", "setA:", TRUE, FALSE)
B == Property(2, "b", "isB", "", TRUE, TRUE)
C == Property(3, "c", "c", "setA:", FALSE, FALSE)
D == Property(4, "d", "d", "", FALSE, FALSE)

MCClass        == {"Root", "Sub", "X", "Y"}
MCSuper        == [c \in MCClass |-> IF c = "Sub" THEN "Root" ELSE NoClass]
MCProtocolId   == [c \in MCClass |-> CASE c = "X" -> 7 [] c = "Y" -> 8 [] OTHER -> 0]
MCPropertyList == [empty |-> <<>>, abd |-> <<A, B, D>>, a |-> <<A>>, ba |-> <<B, A>>, c |-> <<C>>]
MCIvarList     == [empty |-> <<>>, i |-> <<[id |-> 2, at |-> 0]>>,
                   j |-> <<[id |-> 1, at |-> 4], [id |-> 2, at |-> 8], [id |-> 5, at |-> 12]>>]
MCKeyId        == [key \in {"k", "l"} |-> IF key = "k" THEN 1 ELSE 3]

Protocols(c, ids)     == [op |-> "protocols", class |-> c, ids |-> ids]
Category(c, id)       == [op |-> "category", class |-> c, id |-> id]
IsMixin(c)            == [op |-> "ismixin", class |-> c]
Mixin(c, x)           == [op |-> "mixin", class |-> c, mixin |-> x]
Listed(op, c, list)   == [op |-> op, class |-> c, list |-> list]

MCPrograms ==
    {   \* clients only
        [ops |-> 5, todo |-> <<>>],
        \* a mixin and its user, which adopts protocols
        [ops |-> 2, todo |-> <<Protocols("X", {7}), Listed("ivars", "X", "empty"), IsMixin("X"), 
            Protocols("Sub", {2, 7}), Mixin("Sub", "X"), Mixin("Sub", "X")>>],
        \* three categories
        [ops |-> 1, todo |-> <<Category("Sub", 9), Category("Sub", 4), Category("Sub", 6)>>],
        \* the same category twice
        [ops |-> 1, todo |-> <<Category("Root", 4), Category("Root", 9), Category("Root", 4)>>],
        \* Y is not loaded as a mixin
        [ops |-> 1, todo |-> <<Protocols("Y", {8}), Listed("ivars", "Y", "i"), Protocols("Sub", {8}), Mixin("Sub", "Y")>>],
        \* a class and its subclass with lists of all kinds, and a category
        [ops |-> 1, todo |->
            <<Listed("ivars", "Root", "i"), Listed("properties", "Root", "a"),
              Listed("ivars", "Sub", "j"), Listed("properties", "Sub", NoList),
              Listed("classproperties", "Sub", "abd"), Listed("classvariables", "Sub", "j"),
              Listed("classvariables", "Sub", "empty"), Listed("classproperties", "Root", NoList),
              Listed("properties", "Sub", "abd"), Listed("properties", "Sub", NoList)>>],
        \* lists that are refused
        [ops |-> 1, todo |-> <<Listed("properties", "Root", "ba")>>],
        [ops |-> 1, todo |-> <<Listed("classproperties", "Root", "ba")>>],
        [ops |-> 1, todo |-> <<Listed("properties", "Root", "a"), Listed("properties", "Sub", "c")>>]}
=============================================================================
