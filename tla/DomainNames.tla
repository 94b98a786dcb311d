---------------------------- MODULE DomainNames ----------------------------
(***************************************************************************)
(* Which names are at or below a domain, by their labels: a reference for  *)
(* HostNames.                                                              *)
(***************************************************************************)
EXTENDS HostNames

\* A dot ends a label; any other character belongs to the last one.
ReadInto(labels, c) ==
    IF c = "." THEN Append(labels, <<>>)
    ELSE [labels EXCEPT ![Len(labels)] = Append(@, Lower[c])]

\* The labels of what has been read of a name after so many characters.
Reading(name) ==
    LET upTo[n \in 0 .. Len(name)] ==
            IF n = 0 THEN <<<<>>>> ELSE ReadInto(upTo[n - 1], name[n])
    IN upTo

Labels(name) == Reading(name)[Len(name)]

\* A last, empty label is the root.
Rooted(name) == IF Last(Labels(name)) = <<>> THEN Labels(name) ELSE Append(Labels(name), <<>>)

\* A name is at or below a domain if its labels end with those of the domain.
Below(name, domain) == domain \notin {<<>>, <<".">>} /\ IsSuffix(Rooted(domain), Rooted(name))
=============================================================================
