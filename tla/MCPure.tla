------------------------------ MODULE MCPure -------------------------------
(* For TLC, the modules about data.  Merge: all contacts with one nested   *)
(* object and one leaf, all patches of that shape, and lists of at most    *)
(* two addresses of two fields.  FileNames: all names of up to four code   *)
(* units, which are one of the candidates or another.  VoucherPages: five  *)
(* vouchers; one group mixes two currencies, one voucher has none, one     *)
(* amount is negative.                                                     *)
EXTENDS Merge, FileNames, VoucherPages, TLC

SomeProperties == {"company", "note", "name", "taxId", "street", "countryCode"}
SomeScalars == {"x", "y"}

\* An object with these properties.
With(f) == Object(f @@ Nothing.object)

\* Objects with some of these properties.
SomeOf(keys, values) == {With(f) : f \in [keys -> values \cup {Undefined}]}

Plain == {Leaf(v) : v \in SomeScalars}

AllPatches ==
    {With("company" :> c @@ "note" :> n) :
        c \in Plain \cup SomeOf({"name", "taxId"}, Plain) \cup {Undefined},
        n \in Plain \cup {Undefined}}

Address(values) == SomeOf({"street", "countryCode"}, values)
ListPatches ==
    {<<>>} \cup {<<a>> : a \in Address(Plain)}
    \cup {<<a, b>> : a \in {Nothing, With("street" :> Leaf("y"))}, b \in Address({Leaf("y")})}

AllAddressPatches == {"billing" :> l : l \in ListPatches}
                        \cup {"billing" :> <<Nothing>> @@ "shipping" :> <<Nothing, Nothing>>}

TwoAddresses == "billing" :> <<With("street" :> Leaf("x")), With("countryCode" :> Leaf("x"))>>

SomeContacts ==
    {[fields |-> f, addresses |-> a] :
        f \in {Nothing, With("company" :> With("name" :> Leaf("x")) @@ "note" :> Leaf("x"))},
        a \in {<<>>, TwoAddresses}}

-----------------------------------------------------------------------------
Chunks == {<<"sep">>, <<"ctl">>, <<"space">>, <<"char">>, <<"hi", "lo">>}

\* Names of up to four code units with their pairs whole, and some without.
NamesUpTo[n \in Nat] ==
    {<<>>} \cup {name \o u : name \in IF n = 0 THEN {} ELSE NamesUpTo[n - 1], u \in Chunks}
Short(names, n) == {name \in names : Len(name) <= n}

Halves == {<<"hi">>, <<"lo">>, <<"lo", "char">>, <<"char", "hi">>, <<"char", "char", "hi", "hi">>}
AllNames == Short(NamesUpTo[4], 4) \cup Halves
SomeNames == {<<>>, <<"ctl">>, <<"char", "sep", "space">>, <<"hi", "lo", "char", "char">>}

-----------------------------------------------------------------------------
CONSTANTS r1, r2, r3, r4, r5, g1, g2

MCgroupOf == r1 :> g1 @@ r2 :> g1 @@ r3 :> g2 @@ r4 :> g2 @@ r5 :> g1
MCamountOf == r1 :> 1 @@ r2 :> 2 @@ r3 :> 4 @@ r4 :> -3 @@ r5 :> 8
MCcurrencyOf == r1 :> "EUR" @@ r2 :> "EUR" @@ r3 :> NoCurrency @@ r4 :> "CHF" @@ r5 :> "CHF"

-----------------------------------------------------------------------------
\* They have nothing to do with each other: names are tried beside one of the
\* contacts, once, and vouchers beside that and no name.
NoWalk == list = <<>> /\ status = "walking" /\ pagesScanned = 0 /\ added = 0
NoContact == record = Nothing /\ addresses = <<>>

PureInit == MergeInit /\ NameInit /\ Init /\ (list # <<>> => NoContact)
PureNext ==
    \/ NoWalk /\ offered = <<>> /\ MergeNext /\ UNCHANGED <<nameVars, vars>>
    \/ NoWalk /\ NoContact /\ NameNext /\ UNCHANGED <<contact, vars>>
    \/ NoContact /\ offered = <<>> /\ Next /\ UNCHANGED <<contact, nameVars>>
PureSpec == PureInit /\ [][PureNext]_<<contact, nameVars, vars>>
=============================================================================
