----------------------------- MODULE MCPipeline ------------------------------
(* A small instance of Pipeline: the Protocol Guild document and two orgs of *)
(* which nobody moves.                                                       *)
EXTENDS Pipeline

CONSTANTS pg, org, alice, bob, teku, geth, o1, o2

M(s, h, t) == [handle |-> h, team |-> t, source |-> s]

MCSources == {pg, org}
MCHandles == {alice, bob}
MCTeams == {teku, geth}
MCOutcomes ==
    [s \in MCSources |->
        IF s = pg THEN {{M(pg, alice, teku)}, Broken}
                  ELSE SUBSET {M(org, h, t) : h \in MCHandles, t \in MCTeams}]

\* config.yaml: a floor for the document, none for the orgs.
MCFloors == [s \in MCSources |-> IF s = pg THEN 1 ELSE 0]
MCExcludeLists == {{}}
Always == {TRUE}

MCTeamOrgs == [t \in MCTeams |-> IF t = teku THEN {o1} ELSE {o2}]
NoLists == [t \in MCTeams |-> {}]
MCOrgOrder == <<o1, o2>>
MCPublicAtStart == {[o \in {o1, o2} |-> IF o = o1 THEN <<alice, bob>> ELSE <<bob>>]}
=============================================================================
