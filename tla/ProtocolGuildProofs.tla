------------------------- MODULE ProtocolGuildProofs -------------------------
(* Proofs about ProtocolGuild, for every document, registry and budget.      *)
EXTENDS ProtocolGuild, FiniteSetTheorems, TLAPS

\* Row i is under a configured section.
Mapped(i) == \E j \in HeadOf(i) : lines[j].kind = "header" /\ lines[j].section \in Configured

\* The team of the section that a row coming next would be under.
TeamFollows ==
    currentTeam = IF Mapped(Len(lines) + 1) THEN TeamAt(Len(lines) + 1) ELSE Nothing

SeenAreHeaders == seen = {lines[i].section : i \in {j \in 1 .. Len(lines) : lines[j].kind = "header"}}

\* The row that a reader of the document would write down for line i.
ReaderRow(i) == RowOf(lines[i].targets[Len(lines[i].targets)], TeamAt(i), Nothing)

Gathered == {memberships[k] : k \in 1 .. Len(memberships)} = {ReaderRow(i) : i \in Counted}

ParseInv == PGTypeOK /\ TeamFollows /\ SeenAreHeaders /\ Gathered /\ RowsFollowTheirHeader

-----------------------------------------------------------------------------
(* Types *)

LEMMA TeamOfType ==
    ASSUME sectionTeams \in SectionTeams, NEW section
    PROVE  TeamOf(section) \in Teams \cup {Nothing}
BY DEF SectionTeams, TeamOf, ClaimantsOf

LEMMA ProfileType ==
    ASSUME NEW l \in Lines, l.kind = "row"
    PROVE  /\ Profile(l) \in Handles \cup {Nothing}
           /\ Profile(l) = l.targets[Len(l.targets)]
BY LinesAssumption DEF Line, Profile

LEMMA StepPGTypeOK ==
    ASSUME PGTypeOK, [PGNext]_pgVars
    PROVE  PGTypeOK'
<1>1. CASE Download
  BY <1>1 DEF PGTypeOK, Download
<1>6. CASE DownloadFails \/ PGReturn \/ UNCHANGED pgVars
  <2>1. /\ UNCHANGED <<sectionTeams, documents, missing, lines, currentTeam, seen, memberships>>
        /\ pgAt' \in {pgAt, "idle", "failed"}
    BY <1>6 DEF DownloadFails, PGReturn, pgVars, parseVars
  <2>. QED
    BY <2>1 DEF PGTypeOK
<1>2. ASSUME NEW l \in Lines, ReadHeading(l) PROVE PGTypeOK'
  BY <1>2 DEF PGTypeOK, ReadHeading, NextLine
<1>3. ASSUME NEW l \in Lines, ReadHeader(l) PROVE PGTypeOK'
  <2>1. SectionName(l) \in Sections
    BY <1>3, LinesAssumption DEF ReadHeader, SectionName, Line
  <2>2. currentTeam' \in Teams \cup {Nothing}
    BY <1>3, TeamOfType DEF PGTypeOK, ReadHeader
  <2>. QED
    BY <1>3, <2>1, <2>2 DEF PGTypeOK, ReadHeader, NextLine
<1>4. ASSUME NEW l \in Lines, ReadRow(l) PROVE PGTypeOK'
  <2>1. Collects(l) => RowOf(Profile(l), currentTeam, Nothing) \in Row
    BY <1>4, ProfileType DEF PGTypeOK, ReadRow, Collects, RowOf, Row
  <2>2. memberships' \in Seq(Row)
    BY <1>4, <2>1 DEF PGTypeOK, ReadRow
  <2>. QED
    BY <1>4, <2>2 DEF PGTypeOK, ReadRow, NextLine
<1>5. CASE EndDocument
  BY <1>5 DEF PGTypeOK, EndDocument, parseVars, WarningsOfDocument, MissingSections
<1>7. CASE PGRestart
  <2>1. << >> \in Seq(Lines) /\ << >> \in Seq(Row)
    OBVIOUS
  <2>. QED
    BY <1>7, <2>1 DEF PGTypeOK, PGRestart
<1>. QED
  BY <1>1, <1>2, <1>3, <1>4, <1>5, <1>6, <1>7 DEF PGNext, PGFetch

-----------------------------------------------------------------------------
(* What one more line does to the reader's view of the document. *)

LEMMA AtMostOneHead ==
    ASSUME lines \in Seq(Lines), NEW i \in 1 .. Len(lines) + 1,
           NEW j \in HeadOf(i), NEW k \in HeadOf(i)
    PROVE  j = k
BY DEF HeadOf

LEMMA HeadsKept ==
    ASSUME lines \in Seq(Lines), NEW l \in Lines, lines' = Append(lines, l),
           NEW i \in 1 .. Len(lines) + 1
    PROVE  /\ HeadOf(i)' = HeadOf(i)
           /\ \A j \in HeadOf(i) : j \in 1 .. Len(lines) /\ lines'[j] = lines[j]
<1>1. \A j \in 1 .. Len(lines) : lines'[j] = lines[j]
  OBVIOUS
<1>. QED
  BY <1>1 DEF HeadOf

LEMMA HeadAfterRow ==
    ASSUME lines \in Seq(Lines), NEW l \in Lines, lines' = Append(lines, l), l.kind = "row",
           NEW n \in Nat, n = Len(lines)
    PROVE  HeadOf(n + 2)' = HeadOf(n + 1)
<1>1. \A j \in 1 .. n : lines'[j] = lines[j]
  OBVIOUS
<1>2. lines'[n + 1] = l
  OBVIOUS
<1>3. ASSUME NEW j \in 1 .. n
      PROVE  j \in HeadOf(n + 2)' <=> j \in HeadOf(n + 1)
  BY <1>1, <1>2 DEF HeadOf
<1>4. HeadOf(n + 2)' \subseteq 1 .. n
  BY <1>2 DEF HeadOf
<1>5. HeadOf(n + 1) \subseteq 1 .. n
  BY DEF HeadOf
<1>. QED
  BY <1>3, <1>4, <1>5

LEMMA HeadAfterHead ==
    ASSUME lines \in Seq(Lines), NEW l \in Lines, lines' = Append(lines, l), l.kind # "row",
           NEW n \in Nat, n = Len(lines)
    PROVE  HeadOf(n + 2)' = {n + 1}
<1>1. lines'[n + 1] = l
  OBVIOUS
<1>2. n + 1 \in HeadOf(n + 2)'
  BY <1>1 DEF HeadOf
<1>3. ASSUME NEW j \in HeadOf(n + 2)', j # n + 1 PROVE FALSE
  BY <1>1, <1>3 DEF HeadOf
<1>. QED
  BY <1>2, <1>3

\* The lines before the new one read as they did.
LEMMA ViewKept ==
    ASSUME lines \in Seq(Lines), NEW l \in Lines, lines' = Append(lines, l),
           sectionTeams' = sectionTeams, NEW i \in 1 .. Len(lines) + 1
    PROVE  /\ Mapped(i)' <=> Mapped(i)
           /\ Mapped(i) => TeamAt(i)' = TeamAt(i)
<1>1. /\ HeadOf(i)' = HeadOf(i)
      /\ \A j \in HeadOf(i) : lines'[j] = lines[j]
  BY HeadsKept
<1>2. Mapped(i)' <=> Mapped(i)
  BY <1>1 DEF Mapped
<1>3. ASSUME Mapped(i) PROVE TeamAt(i)' = TeamAt(i)
  <2>1. PICK j \in HeadOf(i) : TRUE
    BY <1>3 DEF Mapped
  <2>2. /\ (CHOOSE k \in HeadOf(i) : TRUE) \in HeadOf(i)
        /\ (CHOOSE k \in HeadOf(i)' : TRUE) = (CHOOSE k \in HeadOf(i) : TRUE)
    BY <2>1, <1>1
  <2>. QED
    BY <1>1, <2>2 DEF TeamAt
<1>. QED
  BY <1>2, <1>3

LEMMA TeamOfNextRow ==
    ASSUME PGTypeOK, TeamFollows, NEW l \in Lines,
           ReadHeading(l) \/ ReadHeader(l) \/ ReadRow(l)
    PROVE  TeamFollows'
<1>1. /\ lines \in Seq(Lines) /\ lines' = Append(lines, l) /\ sectionTeams' = sectionTeams
      /\ l.kind \in {"heading", "header", "row"}
  BY LinesAssumption DEF PGTypeOK, ReadHeading, ReadHeader, ReadRow, NextLine, Line
<1>2. PICK m \in Nat : m = Len(lines) /\ Len(lines') = m + 1 /\ lines'[m + 1] = l
  BY <1>1
<1>3. TeamFollows' <=> currentTeam' = IF Mapped(m + 2)' THEN TeamAt(m + 2)' ELSE Nothing
  <2>1. Len(lines') + 1 = m + 2
    BY <1>2
  <2>. QED
    BY <2>1 DEF TeamFollows
<1>4. CASE ReadRow(l)
  <2>1. /\ HeadOf(m + 2)' = HeadOf(m + 1) /\ currentTeam' = currentTeam
    BY <1>1, <1>2, <1>4, HeadAfterRow DEF ReadRow
  <2>2. \A j \in HeadOf(m + 1) : lines'[j] = lines[j]
    BY <1>1, <1>2, HeadsKept
  <2>3. Mapped(m + 2)' <=> Mapped(m + 1)
    BY <2>1, <2>2 DEF Mapped
  <2>4. ASSUME Mapped(m + 1) PROVE TeamAt(m + 2)' = TeamAt(m + 1)
    <3>1. (CHOOSE k \in HeadOf(m + 1) : TRUE) \in HeadOf(m + 1)
      BY <2>4 DEF Mapped
    <3>. QED
      BY <3>1, <2>1, <2>2, <1>1 DEF TeamAt
  <2>. QED
    BY <1>2, <1>3, <2>1, <2>3, <2>4 DEF TeamFollows
<1>5. CASE ReadHeading(l)
  <2>1. HeadOf(m + 2)' = {m + 1} /\ l.kind = "heading" /\ currentTeam' = Nothing
    BY <1>1, <1>2, <1>5, HeadAfterHead DEF ReadHeading
  <2>2. ~ Mapped(m + 2)'
    BY <2>1, <1>2 DEF Mapped
  <2>. QED
    BY <1>3, <2>1, <2>2
<1>6. CASE ReadHeader(l)
  <2>1. HeadOf(m + 2)' = {m + 1} /\ l.kind = "header" /\ currentTeam' = TeamOf(l.section)
    BY <1>1, <1>2, <1>6, HeadAfterHead DEF ReadHeader, SectionName
  <2>2. Mapped(m + 2)' <=> l.section \in Configured
    BY <2>1, <1>2 DEF Mapped
  <2>3. TeamAt(m + 2)' = sectionTeams[l.section]
    BY <2>1, <1>1, <1>2 DEF TeamAt
  <2>. QED
    BY <1>3, <2>1, <2>2, <2>3 DEF TeamOf
<1>. QED
  BY <1>4, <1>5, <1>6

\* The new line counts if and only if parse collects it.
LEMMA CountedGrows ==
    ASSUME PGTypeOK, TeamFollows, NEW l \in Lines,
           ReadHeading(l) \/ ReadHeader(l) \/ ReadRow(l),
           NEW m \in Nat, m = Len(lines)
    PROVE  /\ Counted \subseteq 1 .. m
           /\ ReadRow(l) /\ Collects(l) =>
                /\ Counted' = Counted \cup {m + 1}
                /\ TeamAt(m + 1)' = currentTeam
           /\ ~(ReadRow(l) /\ Collects(l)) => Counted' = Counted
<1>1. /\ lines \in Seq(Lines) /\ lines' = Append(lines, l) /\ sectionTeams' = sectionTeams
      /\ l.kind \in {"heading", "header", "row"}
      /\ ReadRow(l) <=> l.kind = "row"
  BY LinesAssumption DEF PGTypeOK, ReadHeading, ReadHeader, ReadRow, NextLine, Line
<1>2. /\ Len(lines') = m + 1 /\ lines'[m + 1] = l
      /\ \A i \in 1 .. m : lines'[i] = lines[i]
  BY <1>1
<1>3. \A i : i \in Counted <=> /\ i \in 1 .. m /\ lines[i].kind = "row"
                               /\ lines[i].targets[Len(lines[i].targets)] # Nothing
                               /\ Mapped(i)
  BY <1>2 DEF Counted, Mapped
<1>4. \A i : i \in Counted' <=> /\ i \in 1 .. m + 1 /\ lines'[i].kind = "row"
                                /\ lines'[i].targets[Len(lines'[i].targets)] # Nothing
                                /\ Mapped(i)'
  BY <1>2 DEF Counted, Mapped
<1>5. \A i \in 1 .. m : i \in Counted' <=> i \in Counted
  <2>1. \A i \in 1 .. m : Mapped(i)' <=> Mapped(i)
    BY <1>1, <1>2, ViewKept
  <2>. QED
    BY <1>2, <1>3, <1>4, <2>1
<1>6. /\ Mapped(m + 1)' <=> Mapped(m + 1)
      /\ Mapped(m + 1) => TeamAt(m + 1)' = TeamAt(m + 1)
  BY <1>1, <1>2, ViewKept
<1>7. Mapped(m + 1) => TeamAt(m + 1) # Nothing
  <2>1. ASSUME Mapped(m + 1) PROVE TeamAt(m + 1) \in Teams
    <3>1. PICK j \in HeadOf(m + 1) : lines[j].kind = "header" /\ lines[j].section \in Configured
      BY <2>1 DEF Mapped
    <3>2. (CHOOSE k \in HeadOf(m + 1) : TRUE) = j
      BY <1>1, <1>2, AtMostOneHead
    <3>3. sectionTeams \in [Configured -> Teams]
      BY DEF PGTypeOK, SectionTeams
    <3>. QED
      BY <3>1, <3>2, <3>3 DEF TeamAt
  <2>. QED
    BY <2>1, RegistryAssumption
<1>8. Mapped(m + 1) <=> currentTeam # Nothing
  BY <1>2, <1>7 DEF TeamFollows
<1>9. m + 1 \in Counted' <=> ReadRow(l) /\ Collects(l)
  BY <1>1, <1>2, <1>4, <1>6, <1>8, ProfileType DEF Collects
<1>10. Counted \subseteq 1 .. m /\ Counted' \subseteq 1 .. m + 1
  BY <1>3, <1>4
<1>14. \A i : i \in 1 .. m + 1 <=> i \in 1 .. m \/ i = m + 1
  OBVIOUS
<1>11. ReadRow(l) /\ Collects(l) => TeamAt(m + 1)' = currentTeam
  BY <1>2, <1>6, <1>8 DEF Collects, TeamFollows
<1>12. ReadRow(l) /\ Collects(l) => Counted' = Counted \cup {m + 1}
  BY <1>5, <1>9, <1>10, <1>14
<1>13. ~(ReadRow(l) /\ Collects(l)) => Counted' = Counted
  BY <1>5, <1>9, <1>10, <1>14
<1>. QED
  BY <1>10, <1>11, <1>12, <1>13

-----------------------------------------------------------------------------
(* Rows and headers *)

LEMMA CardinalityUpTo ==
    ASSUME NEW n \in Nat, NEW S \in SUBSET (1 .. n), NEW i \in S
    PROVE  /\ Cardinality(S) \in Nat
           /\ Cardinality(S \cap (1 .. i)) \in 1 .. Cardinality(S)
<1>1. IsFiniteSet(S) /\ Cardinality(S) \in Nat
  <2>1. IsFiniteSet(1 .. n)
    BY FS_Interval
  <2>. QED
    BY <2>1, FS_Subset, FS_CardinalityType
<1>2. /\ IsFiniteSet(S \cap (1 .. i)) /\ Cardinality(S \cap (1 .. i)) \in Nat
      /\ Cardinality(S \cap (1 .. i)) <= Cardinality(S)
  BY <1>1, FS_Subset, FS_CardinalityType
<1>3. Cardinality(S \cap (1 .. i)) # 0
  <2>1. i \in S \cap (1 .. i)
    OBVIOUS
  <2>. QED
    BY <2>1, <1>2, FS_EmptySet
<1>. QED
  BY <1>1, <1>2, <1>3

\* What the property says of one counted row.
RowRight(i) == memberships[Cardinality(Counted \cap (1 .. i))] = ReaderRow(i)

LEMMA CollectedRow ==
    ASSUME PGTypeOK, TeamFollows, Gathered, RowsFollowTheirHeader,
           NEW l \in Lines, ReadRow(l), Collects(l)
    PROVE  RowsFollowTheirHeader' /\ Gathered'
<1>1. PICK m \in Nat : m = Len(lines)
  BY DEF PGTypeOK
<1>2. /\ Counted \subseteq 1 .. m
      /\ Counted' = Counted \cup {m + 1}
      /\ TeamAt(m + 1)' = currentTeam
  BY <1>1, CountedGrows
<1>3. /\ lines \in Seq(Lines) /\ lines' = Append(lines, l) /\ sectionTeams' = sectionTeams
      /\ memberships \in Seq(Row)
      /\ memberships' = Append(memberships, RowOf(Profile(l), currentTeam, Nothing))
      /\ Profile(l) = l.targets[Len(l.targets)]
  BY ProfileType DEF PGTypeOK, ReadRow, NextLine
<1>4. /\ lines'[m + 1] = l
      /\ \A i \in 1 .. m : lines'[i] = lines[i]
  BY <1>1, <1>3
<1>5. PICK c \in Nat : c = Cardinality(Counted) /\ c = Len(memberships)
  BY <1>3 DEF RowsFollowTheirHeader
<1>6. /\ Cardinality(Counted') = c + 1
      /\ Len(memberships') = c + 1
  <2>1. IsFiniteSet(1 .. m)
    BY FS_Interval
  <2>2. IsFiniteSet(Counted)
    BY <2>1, <1>2, FS_Subset
  <2>3. m + 1 \notin Counted
    BY <1>2
  <2>4. Cardinality(Counted') = c + 1
    BY <2>2, <2>3, <1>2, <1>5, FS_AddElement
  <2>. QED
    BY <2>4, <1>3, <1>5
<1>7. /\ \A k \in 1 .. c : memberships'[k] = memberships[k]
      /\ memberships'[c + 1] = RowOf(Profile(l), currentTeam, Nothing)
  BY <1>3, <1>5
<1>8. ASSUME NEW i \in Counted PROVE ReaderRow(i)' = ReaderRow(i)
  <2>1. Mapped(i) /\ i \in 1 .. m + 1
    BY <1>2 DEF Counted, Mapped
  <2>2. TeamAt(i)' = TeamAt(i)
    BY <2>1, <1>1, <1>3, ViewKept
  <2>. QED
    BY <2>2, <1>2, <1>4 DEF ReaderRow
<1>9. ReaderRow(m + 1)' = memberships'[c + 1]
  BY <1>2, <1>3, <1>4, <1>7 DEF ReaderRow
<1>10. ASSUME NEW i \in Counted PROVE RowRight(i)'
  <2>1. Counted' \cap (1 .. i) = Counted \cap (1 .. i)
    BY <1>2
  <2>2. Cardinality(Counted \cap (1 .. i)) \in 1 .. c
    BY <1>2, <1>5, CardinalityUpTo
  <2>3. memberships'[Cardinality(Counted \cap (1 .. i))] = memberships[Cardinality(Counted \cap (1 .. i))]
    BY <2>2, <1>7
  <2>4. RowRight(i)
    BY DEF RowsFollowTheirHeader, RowRight, ReaderRow
  <2>. QED
    BY <2>1, <2>3, <2>4, <1>8 DEF RowRight
<1>11. RowRight(m + 1)'
  <2>1. Counted' \cap (1 .. m + 1) = Counted'
    <3>1. \A i \in Counted' : i \in 1 .. m + 1
      BY <1>2
    <3>. QED
      BY <3>1
  <2>. QED
    BY <2>1, <1>6, <1>9 DEF RowRight
<1>12. \A i \in Counted' : RowRight(i)'
  BY <1>2, <1>10, <1>11
<1>13. RowsFollowTheirHeader'
  BY <1>6, <1>12 DEF RowsFollowTheirHeader, RowRight, ReaderRow
<1>14. Gathered'
  <2> DEFINE was == {memberships[k] : k \in 1 .. c}
  <2>1. {memberships'[k] : k \in 1 .. c + 1} = was \cup {memberships'[c + 1]}
    <3>1. \A k : k \in 1 .. c + 1 <=> k \in 1 .. c \/ k = c + 1
      OBVIOUS
    <3>. QED
      BY <3>1, <1>7
  <2>2. {ReaderRow(i)' : i \in Counted'} = {ReaderRow(i) : i \in Counted} \cup {ReaderRow(m + 1)'}
    BY <1>2, <1>8
  <2>3. was = {ReaderRow(i) : i \in Counted}
    BY <1>5 DEF Gathered
  <2>. QED
    BY <2>1, <2>2, <2>3, <1>6, <1>9 DEF Gathered
<1>. QED
  BY <1>13, <1>14

LEMMA NothingCollected ==
    ASSUME PGTypeOK, TeamFollows, Gathered, RowsFollowTheirHeader, NEW l \in Lines,
           ReadHeading(l) \/ ReadHeader(l) \/ ReadRow(l), ~(ReadRow(l) /\ Collects(l))
    PROVE  RowsFollowTheirHeader' /\ Gathered'
<1>1. PICK m \in Nat : m = Len(lines)
  BY DEF PGTypeOK
<1>2. Counted \subseteq 1 .. m /\ Counted' = Counted
  BY <1>1, CountedGrows
<1>3. /\ lines \in Seq(Lines) /\ lines' = Append(lines, l) /\ sectionTeams' = sectionTeams
      /\ memberships' = memberships
  BY DEF PGTypeOK, ReadHeading, ReadHeader, ReadRow, NextLine
<1>4. ASSUME NEW i \in Counted PROVE ReaderRow(i)' = ReaderRow(i)
  <2>1. lines'[i] = lines[i]
    BY <1>1, <1>2, <1>3
  <2>2. Mapped(i) /\ i \in 1 .. m + 1
    BY <1>2 DEF Counted, Mapped
  <2>3. TeamAt(i)' = TeamAt(i)
    BY <2>2, <1>1, <1>3, ViewKept
  <2>. QED
    BY <2>1, <2>3 DEF ReaderRow
<1>5. ASSUME NEW i \in Counted PROVE RowRight(i)'
  <2>1. RowRight(i)
    BY DEF RowsFollowTheirHeader, RowRight, ReaderRow
  <2>. QED
    BY <2>1, <1>2, <1>3, <1>4 DEF RowRight
<1>6. RowsFollowTheirHeader'
  BY <1>2, <1>3, <1>5 DEF RowsFollowTheirHeader, RowRight, ReaderRow
<1>7. {ReaderRow(i)' : i \in Counted'} = {ReaderRow(i) : i \in Counted}
  BY <1>2, <1>4
<1>. QED
  BY <1>3, <1>6, <1>7 DEF Gathered

LEMMA HeadersSeen ==
    ASSUME PGTypeOK, SeenAreHeaders, NEW l \in Lines,
           ReadHeading(l) \/ ReadHeader(l) \/ ReadRow(l)
    PROVE  SeenAreHeaders'
<1>1. /\ lines \in Seq(Lines) /\ lines' = Append(lines, l)
      /\ l.kind = "header" => seen' = seen \cup {l.section}
      /\ l.kind # "header" => seen' = seen
  BY LinesAssumption DEF PGTypeOK, ReadHeading, ReadHeader, ReadRow, NextLine, SectionName
<1>2. PICK m \in Nat : /\ m = Len(lines) /\ Len(lines') = m + 1 /\ lines'[m + 1] = l
                       /\ \A i \in 1 .. m : lines'[i] = lines[i]
  BY <1>1
<1>3. \A j : j \in 1 .. m + 1 <=> j \in 1 .. m \/ j = m + 1
  OBVIOUS
<1>4. \A j \in 1 .. m + 1 : j # m + 1 => j \in 1 .. m
  OBVIOUS
<1> DEFINE before == {j \in 1 .. m : lines[j].kind = "header"}
           after == {j \in 1 .. m + 1 : lines'[j].kind = "header"}
<1>5. seen = {lines[i].section : i \in before}
  BY <1>2 DEF SeenAreHeaders
<1>6. after = IF l.kind = "header" THEN before \cup {m + 1} ELSE before
  BY <1>2, <1>3, <1>4
<1>7. {lines'[i].section : i \in after} =
        IF l.kind = "header" THEN {lines[i].section : i \in before} \cup {l.section}
                             ELSE {lines[i].section : i \in before}
  BY <1>2, <1>6
<1>8. seen' = {lines'[i].section : i \in after}
  BY <1>1, <1>5, <1>7
<1>. QED
  BY <1>2, <1>8 DEF SeenAreHeaders

\* Nothing has been read of the document.
LEMMA EmptyDocument ==
    ASSUME lines = << >>, memberships = << >>, currentTeam = Nothing, seen = {}
    PROVE  TeamFollows /\ SeenAreHeaders /\ Gathered /\ RowsFollowTheirHeader
<1>1. HeadOf(Len(lines) + 1) = {} /\ Counted = {} /\ Len(lines) = 0 /\ Len(memberships) = 0
  BY DEF HeadOf, Counted
<1>. QED
  BY <1>1, FS_EmptySet DEF TeamFollows, Mapped, SeenAreHeaders, Gathered, RowsFollowTheirHeader

LEMMA InitParseInv == PGInit => ParseInv
<1>1. ASSUME PGInit PROVE PGTypeOK
  <2>1. << >> \in Seq(Lines) /\ << >> \in Seq(Row)
    OBVIOUS
  <2>. QED
    BY <1>1, <2>1 DEF PGInit, PGTypeOK
<1>. QED
  BY <1>1, EmptyDocument DEF PGInit, ParseInv

LEMMA StepParseInv == ParseInv /\ [PGNext]_pgVars => ParseInv'
<1>. SUFFICES ASSUME ParseInv, [PGNext]_pgVars
              PROVE  TeamFollows' /\ SeenAreHeaders' /\ Gathered' /\ RowsFollowTheirHeader'
  BY StepPGTypeOK DEF ParseInv
<1>1. CASE Download \/ PGRestart
  <2>1. lines' = << >> /\ memberships' = << >> /\ currentTeam' = Nothing /\ seen' = {}
    BY <1>1 DEF Download, PGRestart
  <2>2. HeadOf(1)' = {} /\ Counted' = {} /\ Len(lines') + 1 = 1 /\ Len(memberships') = 0
    BY <2>1 DEF HeadOf, Counted
  <2>3. ~ Mapped(1)'
    BY <2>2 DEF Mapped
  <2>4. TeamFollows' /\ SeenAreHeaders'
    BY <2>1, <2>2, <2>3 DEF TeamFollows, SeenAreHeaders
  <2>5. Gathered' /\ RowsFollowTheirHeader'
    BY <2>2, FS_EmptySet DEF Gathered, RowsFollowTheirHeader
  <2>. QED
    BY <2>4, <2>5
<1>2. CASE \E l \in Lines : ReadHeading(l) \/ ReadHeader(l) \/ ReadRow(l)
  BY <1>2, TeamOfNextRow, CollectedRow, NothingCollected, HeadersSeen DEF ParseInv
<1>3. CASE DownloadFails \/ EndDocument \/ PGReturn \/ UNCHANGED pgVars
  <2>1. UNCHANGED <<sectionTeams, lines, currentTeam, memberships, seen>>
    BY <1>3 DEF DownloadFails, EndDocument, PGReturn, pgVars, parseVars
  <2>2. Counted' = Counted
    BY <2>1 DEF Counted, HeadOf
  <2>3. \A i : Mapped(i)' = Mapped(i) /\ TeamAt(i)' = TeamAt(i)
    BY <2>1 DEF Mapped, TeamAt, HeadOf
  <2>4. \A i : ReaderRow(i)' = ReaderRow(i)
    BY <2>1, <2>3 DEF ReaderRow
  <2>5. TeamFollows' /\ SeenAreHeaders'
    BY <2>1, <2>3 DEF ParseInv, TeamFollows, SeenAreHeaders
  <2>6. Gathered' /\ RowsFollowTheirHeader'
    BY <2>1, <2>2, <2>3, <2>4 DEF ParseInv, Gathered, RowsFollowTheirHeader
  <2>. QED
    BY <2>5, <2>6
<1>. QED
  BY <1>1, <1>2, <1>3 DEF PGNext, PGFetch

\* The variables of the source keep their types through every document and failure.
THEOREM ParserTyped == PGSpec => []PGTypeOK
<1>. QED
  BY InitParseInv, StepParseInv, PTL DEF PGSpec, ParseInv

\* Rows are attributed to the team of the section they are under, one by one and in
\* order, for any document and any registry (parse of the Protocol Guild source).
THEOREM ParserRight == PGSpec => []RowsFollowTheirHeader
<1>. QED
  BY InitParseInv, StepParseInv, PTL DEF PGSpec, ParseInv
=============================================================================
