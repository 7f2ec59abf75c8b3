------------------------------ MODULE MCIndex -------------------------------
(* A small instance of Index.                                                *)
EXTENDS Index

CONSTANTS Ann, ann, bob, geth, teku, guild, org, manual, o1, o2, nm, client

MCLogins == {Ann, ann, bob}
MCLower == [h \in MCLogins |-> IF h = Ann THEN ann ELSE h]
MCSlugOrder == <<geth, teku>>
MCKindOf == [t \in {geth, teku} |-> IF t = geth THEN client ELSE Nothing]

R(h, t, s, o, n) == [handle |-> h, team |-> t, source |-> s, org |-> o, name |-> n]

\* Two casings of one login, on two teams; a name from the guild document only;
\* org rows with either org; and a row that is incomplete.
MCInputs ==
    {R(h, t, guild, Nothing, n) : h \in {Ann, bob}, t \in {geth, teku}, n \in {Nothing, nm}}
    \cup {R(ann, t, org, o, Nothing) : t \in {geth, teku}, o \in {o1, o2}}
    \cup {R(h, geth, manual, Nothing, Nothing) : h \in {ann, bob}}
    \cup {R(Nothing, geth, manual, Nothing, Nothing), R(bob, Nothing, guild, Nothing, nm)}

=============================================================================
