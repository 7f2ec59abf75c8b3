---------------------------- MODULE ProtocolGuild ----------------------------
(***************************************************************************)
(* The Protocol Guild source (internal/source/protocolguild): it downloads   *)
(* the membership document, walks it line by line, attributes the member     *)
(* rows to the team of the section they are under, and gives up if too many  *)
(* of the configured sections are gone.                                      *)
(*                                                                          *)
(* A line is what the regular expressions make of it: a markdown heading, a  *)
(* section header (with or without a member count inside the bold cell), or  *)
(* a row with the targets of its link, of which there are several when links *)
(* are nested.  Lines that match nothing change nothing and are left out.    *)
(***************************************************************************)
EXTENDS Registry, Sequences

CONSTANTS
    Lines,        \* the lines a document may have
    MaxLines,     \* bound on the lines of a document
    MaxMissing    \* maxMissingSections; 0 tolerates any number

Line == [kind : {"heading", "header", "row"}, section : Sections \cup {Nothing},
         counted : BOOLEAN, targets : Seq(Handles \cup {Nothing})]

ASSUME LinesAssumption ==
    /\ Lines \subseteq Line
    /\ \A l \in Lines : l.kind = "header" => l.section # Nothing
    /\ \A l \in Lines : l.kind = "row" => l.targets # << >>
    /\ MaxLines \in Nat /\ MaxMissing \in Nat
    /\ IsFiniteSet(Configured)

VARIABLES
    sectionTeams,  \* Source.sections
    pgAt,          \* where Fetch stands: idle, parsing, parsed or failed
    lines,         \* the lines of the last document that have been read
    documents,     \* a document has been parsed to its end by this process
    currentTeam,   \* parse: the team of the section, or the empty string
    seen,          \* parse: the section headers met
    memberships,   \* parse: the rows collected
    missing        \* Source.missing: what Warnings returns

parseVars == <<lines, currentTeam, seen, memberships>>
pgVars == <<sectionTeams, pgAt, documents, missing, parseVars>>

-----------------------------------------------------------------------------
(* Helpers.  One that says "faulty" is not part of the specification: it is  *)
(* a plausible bug that a property must notice.                              *)

\* faulty: a header that carries a count is looked up with it
SectionAsWritten(l) == IF l.counted THEN Nothing ELSE l.section
\* sectionName: the header without the count.
SectionName(l) == l.section

\* faulty: the rows of an unmapped section stay with the team before
TeamKept(section) == IF section \in Configured THEN sectionTeams[section] ELSE currentTeam
TeamOf(section) == IF section \in Configured THEN sectionTeams[section] ELSE Nothing

\* parseMemberRow: the profile the link ends in; the pattern is anchored there.
Profile(l) == l.targets[Len(l.targets)]

MissingSections == Configured \ seen

OverBudget == MaxMissing > 0 /\ Cardinality(MissingSections) > MaxMissing

WarningsOfDocument == MissingSections

-----------------------------------------------------------------------------
PGInit ==
    /\ sectionTeams \in SectionTeams
    /\ pgAt = "idle"
    /\ lines = << >>
    /\ documents = FALSE
    /\ currentTeam = Nothing
    /\ seen = {}
    /\ memberships = << >>
    /\ missing = {}

Download ==
    /\ pgAt = "idle"
    /\ pgAt' = "parsing"
    /\ lines' = << >>
    /\ currentTeam' = Nothing
    /\ seen' = {}
    /\ memberships' = << >>
    /\ UNCHANGED <<sectionTeams, documents, missing>>

\* The request or the body fails, or the status is not 200: the warnings stay as
\* they were.
DownloadFails ==
    /\ pgAt = "idle"
    /\ pgAt' = "failed"
    /\ UNCHANGED <<sectionTeams, documents, missing, parseVars>>

NextLine(l) ==
    /\ pgAt = "parsing"
    /\ Len(lines) < MaxLines
    /\ lines' = Append(lines, l)
    /\ UNCHANGED <<sectionTeams, pgAt, documents, missing>>

ReadHeading(l) ==
    /\ NextLine(l) /\ l.kind = "heading"
    /\ currentTeam' = Nothing
    /\ UNCHANGED <<seen, memberships>>

ReadHeader(l) ==
    /\ NextLine(l) /\ l.kind = "header"
    /\ seen' = seen \cup {SectionName(l)}
    /\ currentTeam' = TeamOf(SectionName(l))
    /\ UNCHANGED memberships

Collects(l) == currentTeam # Nothing /\ Profile(l) # Nothing

ReadRow(l) ==
    /\ NextLine(l) /\ l.kind = "row"
    /\ memberships' = IF Collects(l)
                        THEN Append(memberships, RowOf(Profile(l), currentTeam, Nothing))
                        ELSE memberships
    /\ UNCHANGED <<currentTeam, seen>>

\* The missing sections are recorded whether or not they exceed the budget.
EndDocument ==
    /\ pgAt = "parsing"
    /\ pgAt' = IF OverBudget THEN "failed" ELSE "parsed"
    /\ documents' = TRUE
    /\ missing' = WarningsOfDocument
    /\ UNCHANGED <<sectionTeams, parseVars>>

\* Fetch has returned, the rows if "parsed", an error if "failed".
PGReturn ==
    /\ pgAt \in {"parsed", "failed"}
    /\ pgAt' = "idle"
    /\ UNCHANGED <<sectionTeams, documents, missing, parseVars>>

PGFetch ==
    \/ Download \/ DownloadFails
    \/ \E l \in Lines : ReadHeading(l) \/ ReadHeader(l) \/ ReadRow(l)
    \/ EndDocument

\* The process ends and another one starts: New, from the same configuration, where
\* the teams of its map come in an order that is chosen anew.
PGRestart ==
    /\ sectionTeams' \in SectionTeams
    /\ pgAt' = "idle"
    /\ lines' = << >>
    /\ documents' = FALSE
    /\ currentTeam' = Nothing
    /\ seen' = {}
    /\ memberships' = << >>
    /\ missing' = {}

PGNext == PGFetch \/ PGReturn \/ PGRestart

PGSpec == PGInit /\ [][PGNext]_pgVars

-----------------------------------------------------------------------------
(* Properties *)

PGTypeOK ==
    /\ sectionTeams \in SectionTeams
    /\ pgAt \in {"idle", "parsing", "parsed", "failed"}
    /\ lines \in Seq(Lines)
    /\ documents \in BOOLEAN
    /\ currentTeam \in Teams \cup {Nothing}
    /\ seen \subseteq Sections
    /\ memberships \in Seq(Row)
    /\ missing \subseteq Configured

\* The positions of the headers and headings that row i of the document is under, in
\* the sense of nothing else between: at most one.
HeadOf(i) ==
    {j \in 1 .. i - 1 : /\ lines[j].kind # "row"
                        /\ \A k \in j + 1 .. i - 1 : lines[k].kind = "row"}

\* The rows that a reader of the document would count: under a configured section,
\* with a link that ends in a profile.
Counted ==
    {i \in 1 .. Len(lines) :
        /\ lines[i].kind = "row"
        /\ lines[i].targets[Len(lines[i].targets)] # Nothing
        /\ \E j \in HeadOf(i) : lines[j].kind = "header" /\ lines[j].section \in Configured}

TeamAt(i) == sectionTeams[lines[CHOOSE j \in HeadOf(i) : TRUE].section]

\* The k-th row collected is that of the k-th counted line, attributed to the team
\* its own section is mapped to: no member is counted for the team of an earlier
\* table, lost after a header with a count, or counted for nobody's section (parse).
RowsFollowTheirHeader ==
    /\ Len(memberships) = Cardinality(Counted)
    /\ \A i \in Counted :
        memberships[Cardinality(Counted \cap (1 .. i))] =
            RowOf(lines[i].targets[Len(lines[i].targets)], TeamAt(i), Nothing)

\* The configured sections that the last document does not carry.
Absent == Configured \ {lines[i].section : i \in {j \in 1 .. Len(lines) : lines[j].kind = "header"}}

=============================================================================
