------------------------------ MODULE MCSyncer ------------------------------
(* Small instances of Syncer: the Protocol Guild document and a GitHub org,  *)
(* with the outcomes their Fetch functions can give.                         *)
EXTENDS Syncer

CONSTANTS pg, org, alice, bob, teku, pandaops

M(s, h, t) == [handle |-> h, team |-> t, source |-> s]

MCSources == {pg, org}
MCHandles == {alice, bob}
MCTeams == {teku, pandaops}

\* The document parses to one or two members, below or above the floor, or is
\* rejected; the org source never fails, it returns what the reachable orgs gave.
MCOutcomes ==
    [s \in MCSources |->
        IF s = pg THEN {{M(pg, alice, teku), M(pg, bob, teku)}, {M(pg, alice, teku)}, Broken}
                  ELSE {{M(org, bob, pandaops)}, {}}]

\* Both sources have answers that differ and pass the floors.
MCOutcomesWide ==
    [s \in MCSources |->
        IF s = pg THEN {{M(pg, alice, teku), M(pg, bob, teku)}, {M(pg, alice, teku), M(pg, bob, pandaops)},
                        {M(pg, alice, teku)}, Broken}
                  ELSE {{M(org, bob, pandaops)}, {M(org, alice, pandaops)}, {}}]

FloorOfOne == [s \in MCSources |-> 1]
FloorOfTwoAndOne == [s \in MCSources |-> IF s = pg THEN 2 ELSE 1]

MCExcludeLists == {{}, {bob}}
Always == {TRUE}
Never == {FALSE}

=============================================================================
