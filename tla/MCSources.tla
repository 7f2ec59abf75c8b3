------------------------------ MODULE MCSources ------------------------------
(* A small instance of Sources: two teams, three configured sections of      *)
(* which one is claimed twice and one is gone from the document, and two     *)
(* orgs, one of them of both teams.                                          *)
EXTENDS Sources

CONSTANTS alice, bob, carol, ghost, teku, geth, sT, sG, sN, sX, o1, o2

MCTeamSections == [t \in Teams |-> IF t = teku THEN {sT, sG, sN} ELSE {sG}]
MCTeamOrgs == [t \in Teams |-> IF t = teku THEN {o1} ELSE {o1, o2}]
MCTeamMembers == [t \in Teams |-> IF t = teku THEN {carol, Nothing} ELSE {}]
MCOrgOrder == <<o1, o2>>

Header(s, c) == [kind |-> "header", section |-> s, counted |-> c, targets |-> << >>]
MemberRow(ts) == [kind |-> "row", section |-> Nothing, counted |-> FALSE, targets |-> ts]
Heading == [kind |-> "heading", section |-> Nothing, counted |-> FALSE, targets |-> << >>]

\* A heading; the headers of two mapped sections and an unmapped one, with a count
\* or without; nested links that end in a profile, and that do not.
MCLines ==
    {Heading, Header(sT, TRUE), Header(sG, FALSE), Header(sX, FALSE),
     MemberRow(<<Nothing, alice>>), MemberRow(<<bob, Nothing>>)}

\* Two full pages to begin with, a ghost among them, and one in the second org, so that
\* people may move on when someone joins, and back when someone leaves.
MCPublicAtStart ==
    {[o \in {o1, o2} |-> IF o = o1 THEN <<ghost, alice, bob, carol>> ELSE <<carol, alice>>]}

MCToggles == {{}, {"protocolguild"}, {"githuborg"}}
\* Each floor is exercised at one source: on teams at the guild, on members at the orgs.
MCMinMembers == [s \in SourceNames |-> IF s = "githuborg" THEN 3 ELSE 0]
MCMinTeams == [s \in SourceNames |-> IF s = "protocolguild" THEN 1 ELSE 0]

\* Boots that find nothing to restore, and one that finds something of every source.
MCFound ==
    [s \in SourceNames |->
        CASE s = "protocolguild" -> {RowOf(bob, geth, Nothing)}
          [] s = "githuborg" -> {RowOf(carol, geth, o2)}
          [] s = "manual" -> {RowOf(carol, teku, Nothing)}]
MCRestorable == {[s \in SourceNames |-> {}], MCFound}
=============================================================================
