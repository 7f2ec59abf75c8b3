--------------------------- MODULE GitHubOrgProofs ---------------------------
(* Proofs about GitHubOrg, for member lists of any length, pages of any size *)
(* and any number of people who join and leave.                              *)
EXTENDS GitHubOrg, FiniteSetTheorems, TLAPS

\* Who stayed, is listed where the pages have been read already, and was not read.
Missed ==
    {a \in stayed : /\ \E i \in 1 .. ReadUpTo : i <= Len(public[Current]) /\ public[Current][i] = a
                    /\ \A i \in 1 .. Len(logins) : logins[i] # a}

Accounted ==
    Reading => /\ stayed \subseteq Listed(Current)
               /\ IsFiniteSet(Missed)
               /\ Cardinality(Missed) <= left

PagingInv == OrgTypeOK /\ Accounted

-----------------------------------------------------------------------------
(* Sequences *)

LEMMA Inserted ==
    ASSUME NEW S, NEW s \in Seq(S), NEW i \in 1 .. Len(s) + 1, NEW a \in S
    PROVE  /\ InsertAt(s, i, a) \in Seq(S)
           /\ Len(InsertAt(s, i, a)) = Len(s) + 1
           /\ \A j \in 1 .. i - 1 : InsertAt(s, i, a)[j] = s[j]
           /\ InsertAt(s, i, a)[i] = a
           /\ \A j \in i + 1 .. Len(s) + 1 : InsertAt(s, i, a)[j] = s[j - 1]
<1> DEFINE before == SubSeq(s, 1, i - 1)
           after == SubSeq(s, i, Len(s))
<1>1. /\ before \in Seq(S) /\ Len(before) = i - 1
      /\ \A j \in 1 .. i - 1 : before[j] = s[j]
  OBVIOUS
<1>2. /\ after \in Seq(S) /\ Len(after) = Len(s) - i + 1
      /\ \A j \in 1 .. Len(s) - i + 1 : after[j] = s[i + j - 1]
  OBVIOUS
<1>. HIDE DEF before, after
<1>3. /\ before \o <<a>> \in Seq(S) /\ Len(before \o <<a>>) = i
      /\ \A j \in 1 .. i - 1 : (before \o <<a>>)[j] = s[j]
      /\ (before \o <<a>>)[i] = a
  BY <1>1
<1> DEFINE upTo == before \o <<a>>
<1>6. InsertAt(s, i, a) = upTo \o after
  BY DEF InsertAt, before, after
<1>8. upTo \in Seq(S) /\ Len(upTo) = i
  BY <1>3
<1>. HIDE DEF upTo
<1>4. /\ upTo \o after \in Seq(S)
      /\ Len(upTo \o after) = Len(s) + 1
      /\ \A j \in 1 .. i : (upTo \o after)[j] = upTo[j]
      /\ \A j \in i + 1 .. Len(s) + 1 : (upTo \o after)[j] = after[j - i]
  BY <1>2, <1>8
<1>5. \A j \in i + 1 .. Len(s) + 1 : after[j - i] = s[j - 1]
  BY <1>2
<1>7. /\ \A j \in 1 .. i - 1 : upTo[j] = s[j]
      /\ upTo[i] = a
  BY <1>3 DEF upTo
<1>. QED
  BY <1>4, <1>5, <1>6, <1>7

LEMMA Removed ==
    ASSUME NEW S, NEW s \in Seq(S), NEW i \in 1 .. Len(s)
    PROVE  /\ RemoveAt(s, i) \in Seq(S)
           /\ Len(RemoveAt(s, i)) = Len(s) - 1
           /\ \A j \in 1 .. Len(s) - 1 :
                RemoveAt(s, i)[j] = IF j < i THEN s[j] ELSE s[j + 1]
<1> DEFINE before == SubSeq(s, 1, i - 1)
           after == SubSeq(s, i + 1, Len(s))
<1>1. /\ before \in Seq(S) /\ Len(before) = i - 1
      /\ \A j \in 1 .. i - 1 : before[j] = s[j]
  OBVIOUS
<1>2. /\ after \in Seq(S) /\ Len(after) = Len(s) - i
      /\ \A j \in 1 .. Len(s) - i : after[j] = s[i + j]
  OBVIOUS
<1>. HIDE DEF before, after
<1>3. /\ before \o after \in Seq(S)
      /\ Len(before \o after) = Len(s) - 1
      /\ \A j \in 1 .. i - 1 : (before \o after)[j] = before[j]
      /\ \A j \in i .. Len(s) - 1 : (before \o after)[j] = after[j - i + 1]
  <2>1. before \o after \in Seq(S) /\ Len(before \o after) = Len(s) - 1
    BY <1>1, <1>2
  <2>2. \A j \in 1 .. i - 1 : (before \o after)[j] = before[j]
    BY <1>1, <1>2
  <2>3. ASSUME NEW j \in i .. Len(s) - 1
        PROVE  (before \o after)[j] = after[j - i + 1]
    <3>1. j - Len(before) = j - i + 1 /\ j \in 1 .. Len(before) + Len(after) /\ j > Len(before)
      BY <1>1, <1>2
    <3>2. (before \o after)[j] = after[j - Len(before)]
      BY <3>1, <1>1, <1>2
    <3>. QED
      BY <3>1, <3>2
  <2>. QED
    BY <2>1, <2>2, <2>3
<1>4. \A j \in i .. Len(s) - 1 : after[j - i + 1] = s[j + 1]
  BY <1>2
<1>5. RemoveAt(s, i) = before \o after
  BY DEF RemoveAt, before, after
<1>. QED
  BY <1>1, <1>3, <1>4, <1>5

LEMMA Smaller ==
    ASSUME NEW S, IsFiniteSet(S), NEW T \in SUBSET S, NEW n \in Nat, Cardinality(S) <= n
    PROVE  IsFiniteSet(T) /\ Cardinality(T) <= n
BY FS_Subset, FS_CardinalityType

-----------------------------------------------------------------------------
(* Types *)

LEMMA CurrentType ==
    ASSUME OrgTypeOK, Reading
    PROVE  /\ Current \in Orgs /\ Current \in ClaimedOrgs
           /\ public[Current] \in Seq(Accounts)
BY OrgAssumption DEF OrgTypeOK, Reading, Current

LEMMA BatchType ==
    ASSUME OrgTypeOK, Reading
    PROVE  /\ Batch \in Seq(Accounts)
           /\ ReadUpTo \in Nat
           /\ \A j \in 1 .. Len(Batch) : ReadUpTo + j <= Len(public[Current])
           /\ \A j \in 1 .. Len(Batch) : Batch[j] = public[Current][ReadUpTo + j]
           /\ Len(Batch) <= PageSize
           /\ Len(Batch) < PageSize => ReadUpTo + Len(Batch) >= Len(public[Current])
           /\ ReadUpTo + PageSize = page * PageSize
<1>1. PICK s \in Seq(Accounts) : s = public[Current]
  BY CurrentType
<1>2. PICK u \in Nat : u = ReadUpTo /\ page * PageSize = u + PageSize
  BY OrgAssumption DEF OrgTypeOK, ReadUpTo
<1> DEFINE n == IF Len(s) > u + PageSize THEN PageSize
                ELSE IF Len(s) > u THEN Len(s) - u
                ELSE 0
<1>3. /\ n \in Nat
      /\ n <= PageSize
      /\ n < PageSize => u + n >= Len(s)
      /\ \A j \in 1 .. n : u + j \in 1 .. Len(s)
  <2>1. PageSize \in Nat /\ Len(s) \in Nat
    BY OrgAssumption
  <2>. QED
    BY <2>1
<1>4. Batch = [i \in 1 .. n |-> s[u + i]]
  BY <1>1, <1>2 DEF Batch
<1>. HIDE DEF n
<1>5. Batch \in Seq(Accounts) /\ Len(Batch) = n
  BY <1>3, <1>4
<1>. QED
  BY <1>1, <1>2, <1>3, <1>4, <1>5

LEMMA RowsType ==
    ASSUME NEW o \in ClaimedOrgs, NEW s \in Seq(Accounts)
    PROVE  /\ RowsOf(o, s) \subseteq Row
           /\ Cardinality(NamedIn(s)) * Cardinality(OrgTeams[o]) \in Nat
<1>1. o \in Orgs /\ OrgTeams[o] \subseteq Teams
  BY RegistryAssumption DEF ClaimedOrgs, OrgTeams
<1>2. ASSUME NEW i \in NamedIn(s) PROVE s[i] \in Handles
  BY <1>2 DEF NamedIn, Accounts
<1>3. RowsOf(o, s) \subseteq Row
  BY <1>1, <1>2 DEF RowsOf, RowOf, Row
<1>4. Cardinality(OrgTeams[o]) \in Nat
  BY <1>1, RegistryAssumption, FS_Subset, FS_CardinalityType
<1>5. Cardinality(NamedIn(s)) \in Nat
  <2>1. IsFiniteSet(1 .. Len(s)) /\ NamedIn(s) \subseteq 1 .. Len(s)
    BY FS_Interval DEF NamedIn
  <2>. QED
    BY <2>1, FS_Subset, FS_CardinalityType
<1>. QED
  BY <1>3, <1>4, <1>5

LEMMA ListedType ==
    ASSUME OrgTypeOK, NEW o \in Orgs
    PROVE  Listed(o) \subseteq Accounts
BY DEF OrgTypeOK, Listed

\* Where the goroutine goes next, at the first page of the k-th org.
LEMMA GoToType ==
    ASSUME OrgTypeOK, NEW k \in 1 .. Len(OrgOrder) + 1, GoTo(k)
    PROVE  /\ cursor' \in 1 .. Len(OrgOrder) + 1
           /\ page' \in Nat \ {0}
           /\ logins' \in Seq(Accounts)
           /\ stayed' \subseteq Accounts
           /\ left' \in Nat
<1>1. stayed' \subseteq Accounts
  BY ListedType, OrgAssumption DEF GoTo
<1>. QED
  BY <1>1 DEF GoTo

LEMMA StepOrgTypeOK ==
    ASSUME OrgTypeOK, [OrgNext]_orgVars
    PROVE  OrgTypeOK'
<1>1. CASE BeginFetch
  <2>1. 1 \in 1 .. Len(OrgOrder) + 1 /\ GoTo(1)
    BY <1>1, OrgAssumption DEF BeginFetch
  <2>. QED
    BY <1>1, <2>1, GoToType DEF OrgTypeOK, BeginFetch
<1>2. CASE ReadPage
  <2>1. logins' \in Seq(Accounts)
    BY <1>2, BatchType DEF OrgTypeOK, ReadPage
  <2>. QED
    BY <1>2, <2>1 DEF OrgTypeOK, ReadPage
<1>3. CASE ReadLastPage
  <2>1. logins \o Batch \in Seq(Accounts) /\ Current \in ClaimedOrgs
    BY <1>3, BatchType, CurrentType DEF OrgTypeOK, ReadLastPage
  <2>4. PICK n \in Nat : n = Cardinality(NamedIn(logins \o Batch)) * Cardinality(OrgTeams[Current])
    BY <2>1, RowsType
  <2>5. RowsOf(Current, logins \o Batch) \subseteq Row
    BY <2>1, RowsType
  <2>6. rows' = rows \cup RowsOf(Current, logins \o Batch) /\ count' = count + n
    BY <1>3, <2>4 DEF ReadLastPage
  <2>2. rows' \subseteq Row /\ count' \in Nat
    BY <2>5, <2>6 DEF OrgTypeOK
  <2>3. cursor + 1 \in 1 .. Len(OrgOrder) + 1 /\ GoTo(cursor + 1)
    BY <1>3, OrgAssumption DEF OrgTypeOK, ReadLastPage, Reading
  <2>. QED
    BY <1>3, <2>2, <2>3, GoToType DEF OrgTypeOK, ReadLastPage
<1>4. CASE SkipOrg
  <2>1. cursor + 1 \in 1 .. Len(OrgOrder) + 1 /\ GoTo(cursor + 1)
    BY <1>4, OrgAssumption DEF OrgTypeOK, SkipOrg, Reading, AfterFailure
  <2>. QED
    BY <1>4, <2>1, GoToType, CurrentType DEF OrgTypeOK, SkipOrg
<1>5. CASE EndFetch \/ OrgReturn \/ UNCHANGED orgVars
  <2>1. /\ UNCHANGED <<public, moves, rows, count, skipped, cursor, page, logins, stayed, left>>
        /\ orgAt' \in {orgAt, "fetched", "idle"}
    BY <1>5 DEF EndFetch, OrgReturn, orgVars, readVars
  <2>. QED
    BY <2>1 DEF OrgTypeOK
<1>6. ASSUME NEW o \in Orgs, NEW a \in Accounts, NEW i \in 1 .. Len(public[o]) + 1, Join(o, a, i)
      PROVE  OrgTypeOK'
  <2>1. public[o] \in Seq(Accounts) /\ InsertAt(public[o], i, a) \in Seq(Accounts)
    BY Inserted DEF OrgTypeOK
  <2>2. public' \in [Orgs -> Seq(Accounts)] /\ moves' \in 0 .. MaxMoves
    BY <1>6, <2>1, OrgAssumption DEF OrgTypeOK, Join
  <2>. QED
    BY <1>6, <2>2 DEF OrgTypeOK, Join, readVars
<1>7. ASSUME NEW o \in Orgs, NEW i \in 1 .. Len(public[o]), Leave(o, i)
      PROVE  OrgTypeOK'
  <2>1. public[o] \in Seq(Accounts) /\ RemoveAt(public[o], i) \in Seq(Accounts)
    BY Removed DEF OrgTypeOK
  <2>2. public' \in [Orgs -> Seq(Accounts)] /\ moves' \in 0 .. MaxMoves
    BY <1>7, <2>1, OrgAssumption DEF OrgTypeOK, Leave
  <2>3. stayed' \subseteq stayed /\ left' \in {left, left + 1}
    BY <1>7 DEF Leave
  <2>. QED
    BY <1>7, <2>2, <2>3 DEF OrgTypeOK, Leave
<1>8. CASE OrgRestart
  <2>1. 1 \in 1 .. Len(OrgOrder) + 1 /\ << >> \in Seq(Accounts)
    BY OrgAssumption
  <2>. QED
    BY <1>8, <2>1 DEF OrgTypeOK, OrgRestart
<1>. QED
  BY <1>1, <1>2, <1>3, <1>4, <1>5, <1>6, <1>7, <1>8 DEF OrgNext, OrgFetch, Move

-----------------------------------------------------------------------------
(* The accounting *)

\* At the first page of an org nobody is missed yet.
LEMMA FreshOrg ==
    ASSUME OrgTypeOK, NEW k \in Nat \ {0}, GoTo(k), UNCHANGED public
    PROVE  Accounted'
<1>1. SUFFICES ASSUME Reading' PROVE stayed' \subseteq Listed(Current)' /\ Missed' = {}
  <2>1. left' = 0 /\ IsFiniteSet({}) /\ Cardinality({}) = 0
    BY FS_EmptySet DEF GoTo
  <2>. QED
    BY <2>1 DEF Accounted
<1>2. stayed' = Listed(OrgOrder[k]) /\ Current' = OrgOrder[k]
  BY <1>1 DEF GoTo, Reading, Current
<1>3. stayed' \subseteq Listed(Current)'
  BY <1>2 DEF Listed
<1>4. ReadUpTo' = 0
  BY OrgAssumption DEF GoTo, ReadUpTo
<1>. QED
  BY <1>3, <1>4 DEF Missed

\* Reading on only finds people.
LEMMA NextPage ==
    ASSUME OrgTypeOK, Accounted, ReadPage
    PROVE  Accounted'
<1>1. PICK u \in Nat : u = ReadUpTo /\ ReadUpTo' = u + PageSize
  BY BatchType, OrgAssumption DEF ReadPage, OrgTypeOK, ReadUpTo
<1>2. /\ Reading /\ Current' = Current /\ public' = public /\ stayed' = stayed /\ left' = left
      /\ logins' = logins \o Batch
  BY DEF ReadPage, Current
<1>3. /\ logins \in Seq(Accounts) /\ Batch \in Seq(Accounts) /\ Len(Batch) = PageSize
      /\ \A j \in 1 .. Len(Batch) : Batch[j] = public[Current][u + j]
  BY <1>1, <1>2, BatchType, OrgAssumption DEF OrgTypeOK, ReadPage, FullPage
<1>4. /\ \A i \in 1 .. Len(logins) : logins'[i] = logins[i]
      /\ \A j \in 1 .. PageSize : logins'[Len(logins) + j] = Batch[j]
      /\ Len(logins') = Len(logins) + PageSize
  <2>1. PageSize \in Nat
    BY OrgAssumption
  <2>5. logins \in Seq(Accounts) /\ Batch \in Seq(Accounts) /\ Len(Batch) = PageSize
    BY <1>3
  <2>2. Len(logins \o Batch) = Len(logins) + PageSize
    BY <2>5
  <2>3. \A i \in 1 .. Len(logins) : (logins \o Batch)[i] = logins[i]
    BY <1>3, <2>1
  <2>4. ASSUME NEW j \in 1 .. PageSize PROVE (logins \o Batch)[Len(logins) + j] = Batch[j]
    <3>1. PICK k \in Nat : k = Len(logins) + j /\ k - Len(logins) = j
      BY <1>3, <2>1
    <3>2. k \in 1 .. Len(logins) + Len(Batch) /\ k > Len(logins)
      BY <3>1, <1>3, <2>1
    <3>3. (logins \o Batch)[k] = Batch[k - Len(logins)]
      BY <3>2, <1>3
    <3>. QED
      BY <3>1, <3>3
  <2>. QED
    BY <1>2, <2>2, <2>3, <2>4
<1>5. ASSUME NEW a \in Missed' PROVE a \in Missed
  <2>1. /\ a \in stayed
        /\ \A i \in 1 .. Len(logins) + PageSize : logins'[i] # a
    BY <1>2, <1>4, <1>5 DEF Missed
  <2>2. PICK i \in 1 .. u + PageSize : i <= Len(public[Current]) /\ public[Current][i] = a
    BY <1>1, <1>2, <1>5 DEF Missed
  <2>3. ~ (i > u)
    <3>1. SUFFICES ASSUME i > u PROVE FALSE
      OBVIOUS
    <3>2. i - u \in 1 .. PageSize /\ Len(logins) + (i - u) \in 1 .. Len(logins) + PageSize
      BY <3>1, <1>3, OrgAssumption
    <3>3. logins'[Len(logins) + (i - u)] = public[Current][u + (i - u)] /\ u + (i - u) = i
      BY <3>2, <1>3, <1>4
    <3>. QED
      BY <3>2, <3>3, <2>1, <2>2
  <2>4. \A j \in 1 .. Len(logins) : logins[j] # a
    BY <2>1, <1>3, <1>4, OrgAssumption
  <2>. QED
    BY <2>1, <2>2, <2>3, <2>4, <1>1 DEF Missed
<1>6. stayed' \subseteq Listed(Current)'
  BY <1>2 DEF Accounted, Listed
<1>. QED
  BY <1>2, <1>5, <1>6, Smaller DEF Accounted, OrgTypeOK

\* Who joins has not stayed, and pushes the others on, never back.
LEMMA SomeoneJoins ==
    ASSUME OrgTypeOK, Accounted, Reading,
           NEW a \in Accounts, NEW i \in 1 .. Len(public[Current]) + 1, Join(Current, a, i)
    PROVE  Accounted'
<1>1. PICK s \in Seq(Accounts) : s = public[Current]
  BY CurrentType
<1>2. /\ public'[Current] = InsertAt(s, i, a)
      /\ orgAt' = orgAt /\ cursor' = cursor /\ page' = page /\ logins' = logins
      /\ stayed' = stayed /\ left' = left
      /\ a \notin Listed(Current)
  BY <1>1, CurrentType DEF OrgTypeOK, Join, readVars
<1>3. Current' = Current /\ ReadUpTo' = ReadUpTo /\ ReadUpTo \in Nat
  BY <1>2, BatchType DEF Current, ReadUpTo
<1>4. PICK t \in Seq(Accounts) :
        /\ t = public'[Current] /\ Len(t) = Len(s) + 1
        /\ \A j \in 1 .. i - 1 : t[j] = s[j]
        /\ t[i] = a
        /\ \A j \in i + 1 .. Len(s) + 1 : t[j] = s[j - 1]
  <2>1. i \in 1 .. Len(s) + 1
    BY <1>1
  <2>2. InsertAt(s, i, a) \in Seq(Accounts) /\ Len(InsertAt(s, i, a)) = Len(s) + 1
    BY <2>1, Inserted
  <2>3. /\ \A j \in 1 .. i - 1 : InsertAt(s, i, a)[j] = s[j]
        /\ InsertAt(s, i, a)[i] = a
        /\ \A j \in i + 1 .. Len(s) + 1 : InsertAt(s, i, a)[j] = s[j - 1]
    BY <2>1, Inserted
  <2>. QED
    BY <2>2, <2>3, <1>2
<1>5. stayed \subseteq Listed(Current) /\ a \notin stayed
  BY <1>2 DEF Accounted
<1>6. ASSUME NEW b \in Missed' PROVE b \in Missed
  <2>1. b \in stayed /\ b # a /\ \A j \in 1 .. Len(logins) : logins[j] # b
    BY <1>2, <1>5, <1>6 DEF Missed
  <2>2. PICK j \in 1 .. ReadUpTo : j <= Len(t) /\ t[j] = b
    BY <1>3, <1>4, <1>6 DEF Missed
  <2>3. \E k \in 1 .. ReadUpTo : k <= Len(s) /\ s[k] = b
    <3>1. CASE j < i
      <4>1. s[j] = b /\ j <= Len(s)
        BY <3>1, <2>2, <1>1, <1>4
      <4>. QED
        BY <4>1
    <3>2. CASE j > i
      <4>1. s[j - 1] = b /\ j - 1 \in 1 .. ReadUpTo /\ j - 1 <= Len(s)
        BY <3>2, <2>2, <1>1, <1>3, <1>4
      <4>. QED
        BY <4>1
    <3>3. j # i
      BY <2>1, <2>2, <1>1, <1>4
    <3>. QED
      BY <3>1, <3>2, <3>3
  <2>. QED
    BY <2>1, <2>3, <1>1 DEF Missed
<1>7. ASSUME NEW b \in stayed PROVE \E k \in 1 .. Len(t) : t[k] = b
  <2>1. PICK k \in 1 .. Len(s) : s[k] = b
    BY <1>1, <1>5 DEF Listed
  <2>2. CASE k < i
    <3>1. k \in 1 .. Len(t) /\ t[k] = b
      BY <2>1, <2>2, <1>1, <1>4
    <3>. QED
      BY <3>1
  <2>3. CASE k >= i
    <3>1. k + 1 \in 1 .. Len(t) /\ t[k + 1] = b
      BY <2>1, <2>3, <1>1, <1>4
    <3>. QED
      BY <3>1
  <2>. QED
    BY <2>1, <2>2, <2>3, <1>1
<1>8. stayed' \subseteq Listed(Current)'
  BY <1>2, <1>3, <1>4, <1>7 DEF Listed
<1>. QED
  BY <1>2, <1>6, <1>8, Smaller DEF Accounted, OrgTypeOK

\* Who leaves from a page already read moves one other person, at most, behind the
\* place where reading goes on.
LEMMA SomeoneLeaves ==
    ASSUME OrgTypeOK, Accounted, Reading,
           NEW i \in 1 .. Len(public[Current]), Leave(Current, i)
    PROVE  Accounted'
<1>1. PICK s \in Seq(Accounts) : s = public[Current]
  BY CurrentType
<1>2. /\ public'[Current] = RemoveAt(s, i)
      /\ orgAt' = orgAt /\ cursor' = cursor /\ page' = page /\ logins' = logins
      /\ stayed' = stayed \ {s[i]}
      /\ left' = IF i <= ReadUpTo THEN left + 1 ELSE left
  BY <1>1, CurrentType DEF OrgTypeOK, Leave
<1>3. Current' = Current /\ ReadUpTo' = ReadUpTo /\ ReadUpTo \in Nat
  BY <1>2, BatchType DEF Current, ReadUpTo
<1>4. PICK t \in Seq(Accounts) :
        /\ t = public'[Current] /\ Len(t) = Len(s) - 1
        /\ \A j \in 1 .. Len(s) - 1 : t[j] = IF j < i THEN s[j] ELSE s[j + 1]
  <2>1. i \in 1 .. Len(s)
    BY <1>1
  <2>2. /\ RemoveAt(s, i) \in Seq(Accounts)
        /\ Len(RemoveAt(s, i)) = Len(s) - 1
        /\ \A j \in 1 .. Len(s) - 1 :
             RemoveAt(s, i)[j] = IF j < i THEN s[j] ELSE s[j + 1]
    BY ONLY <2>1, s \in Seq(Accounts), Removed
  <2>3. RemoveAt(s, i) = public'[Current]
    BY <1>2
  <2>. QED
    BY Zenon, <2>2, <2>3
<1>5. ASSUME NEW b \in stayed' PROVE \E k \in 1 .. Len(t) : t[k] = b
  <2>4. b \in stayed /\ b # s[i]
    BY <1>2, <1>5
  <2>5. b \in Listed(Current)
    BY <2>4 DEF Accounted
  <2>1. PICK k \in 1 .. Len(s) : s[k] = b /\ k # i
    BY <2>4, <2>5, <1>1 DEF Listed
  <2>2. CASE k < i
    <3>1. k \in 1 .. Len(t) /\ t[k] = b
      BY <2>1, <2>2, <1>1, <1>4
    <3>. QED
      BY <3>1
  <2>3. CASE k > i
    <3>1. k - 1 \in 1 .. Len(t) /\ t[k - 1] = b
      BY <2>1, <2>3, <1>1, <1>4
    <3>. QED
      BY <3>1
  <2>. QED
    BY <2>1, <2>2, <2>3, <1>1
<1>6. stayed' \subseteq Listed(Current)'
  BY <1>3, <1>4, <1>5 DEF Listed
<1>7. ASSUME NEW b \in Missed'
      PROVE  b \in Missed \/ (i <= ReadUpTo /\ ReadUpTo + 1 <= Len(s) /\ b = s[ReadUpTo + 1])
  <2>1. b \in stayed /\ \A j \in 1 .. Len(logins) : logins[j] # b
    BY <1>2, <1>7 DEF Missed
  <2>2. PICK j \in 1 .. ReadUpTo : j <= Len(t) /\ t[j] = b
    BY <1>3, <1>4, <1>7 DEF Missed
  <2>3. \/ \E k \in 1 .. ReadUpTo : k <= Len(s) /\ s[k] = b
        \/ i <= ReadUpTo /\ ReadUpTo + 1 <= Len(s) /\ b = s[ReadUpTo + 1]
    <3>1. CASE j < i
      <4>1. s[j] = b /\ j <= Len(s)
        BY <3>1, <2>2, <1>1, <1>4
      <4>. QED
        BY <4>1
    <3>2. CASE j >= i
      <4>1. s[j + 1] = b /\ j + 1 <= Len(s) /\ j + 1 \in 1 .. ReadUpTo + 1
        BY <3>2, <2>2, <1>1, <1>3, <1>4
      <4>2. i <= ReadUpTo
        BY <3>2, <1>1, <1>3
      <4>3. j + 1 = ReadUpTo + 1 \/ j + 1 \in 1 .. ReadUpTo
        BY <4>1, <1>3
      <4>. QED
        BY <4>1, <4>2, <4>3
    <3>. QED
      BY <3>1, <3>2, <1>1
  <2>. QED
    BY <2>1, <2>3, <1>1 DEF Missed
<1>8. IsFiniteSet(Missed) /\ Cardinality(Missed) <= left /\ left \in Nat /\ Cardinality(Missed) \in Nat
  BY FS_CardinalityType DEF Accounted, OrgTypeOK
<1>9. CASE i > ReadUpTo
  <2>1. Missed' \subseteq Missed /\ left' = left
    BY <1>1, <1>2, <1>3, <1>7, <1>9
  <2>. QED
    BY <2>1, <1>6, <1>8, Smaller DEF Accounted
<1>10. CASE i <= ReadUpTo
  <2>1. PICK b : b = s[ReadUpTo + 1]
    OBVIOUS
  <2>2. Missed' \subseteq Missed \cup {b} /\ left' = left + 1
    BY <2>1, <1>2, <1>7, <1>10
  <2>3. IsFiniteSet(Missed \cup {b}) /\ Cardinality(Missed \cup {b}) <= left + 1
    <3>1. /\ IsFiniteSet(Missed \cup {b})
          /\ \/ Cardinality(Missed \cup {b}) = Cardinality(Missed)
             \/ Cardinality(Missed \cup {b}) = Cardinality(Missed) + 1
      BY <1>8, FS_AddElement
    <3>. QED
      BY <3>1, <1>8
  <2>4. IsFiniteSet(Missed') /\ Cardinality(Missed') <= left + 1
    BY <2>2, <2>3, <1>8, Smaller
  <2>. QED
    BY <2>2, <2>4, <1>6 DEF Accounted
<1>. QED
  BY <1>1, <1>3, <1>9, <1>10

LEMMA InitPagingInv == OrgInit => PagingInv
<1>1. ASSUME OrgInit PROVE OrgTypeOK
  <2>1. << >> \in Seq(Accounts) /\ Len(OrgOrder) \in Nat
    BY OrgAssumption
  <2>. QED
    BY <1>1, <2>1, OrgAssumption DEF OrgInit, OrgTypeOK
<1>. QED
  BY <1>1 DEF OrgInit, PagingInv, Accounted, Reading

LEMMA StepPagingInv == PagingInv /\ [OrgNext]_orgVars => PagingInv'
<1>. SUFFICES ASSUME PagingInv, [OrgNext]_orgVars PROVE Accounted'
  BY StepOrgTypeOK DEF PagingInv
<1>. USE DEF PagingInv
<1>1. CASE BeginFetch
  BY <1>1, FreshOrg DEF BeginFetch
<1>2. CASE ReadPage
  BY <1>2, NextPage
<1>3. CASE ReadLastPage \/ SkipOrg
  <2>1. cursor + 1 \in Nat \ {0} /\ GoTo(cursor + 1) /\ UNCHANGED public
    BY <1>3 DEF OrgTypeOK, ReadLastPage, SkipOrg, AfterFailure
  <2>. QED
    BY <2>1, FreshOrg
<1>4. CASE EndFetch \/ OrgReturn \/ OrgRestart
  <2>1. ~ Reading'
    BY <1>4 DEF EndFetch, OrgReturn, OrgRestart, Reading
  <2>. QED
    BY <2>1 DEF Accounted
<1>5. ASSUME UNCHANGED <<orgAt, cursor, page, logins, stayed, left>>,
             Reading => public'[Current] = public[Current]
      PROVE  Accounted'
  <2>1. /\ Reading' = Reading
        /\ Reading => Current' = Current
        /\ ReadUpTo' = ReadUpTo
    BY <1>5 DEF Reading, Current, ReadUpTo
  <2>2. Reading => Missed' = Missed /\ Listed(Current)' = Listed(Current)
    BY <1>5, <2>1 DEF Missed, Listed
  <2>. QED
    BY <1>5, <2>1, <2>2 DEF Accounted
<1>6. CASE UNCHANGED orgVars
  BY <1>5, <1>6 DEF orgVars, readVars
<1>7. ASSUME NEW o \in Orgs, NEW a \in Accounts, NEW i \in 1 .. Len(public[o]) + 1, Join(o, a, i)
      PROVE  Accounted'
  <2>1. CASE Reading /\ o = Current
    BY <1>7, <2>1, SomeoneJoins
  <2>2. CASE ~ (Reading /\ o = Current)
    <3>1. Reading => public'[Current] = public[Current]
      BY <1>7, <2>2, CurrentType DEF Join, OrgTypeOK
    <3>. QED
      BY <1>5, <1>7, <3>1 DEF Join, readVars
  <2>. QED
    BY <2>1, <2>2
<1>8. ASSUME NEW o \in Orgs, NEW i \in 1 .. Len(public[o]), Leave(o, i)
      PROVE  Accounted'
  <2>1. CASE Reading /\ o = Current
    BY <1>8, <2>1, SomeoneLeaves
  <2>2. CASE ~ (Reading /\ o = Current)
    <3>1. Reading => public'[Current] = public[Current]
      BY <1>8, <2>2, CurrentType DEF Leave, OrgTypeOK
    <3>2. UNCHANGED <<orgAt, cursor, page, logins, stayed, left>>
      BY <1>8, <2>2 DEF Leave
    <3>. QED
      BY <1>5, <3>1, <3>2
  <2>. QED
    BY <2>1, <2>2
<1>. QED
  BY <1>1, <1>2, <1>3, <1>4, <1>6, <1>7, <1>8 DEF OrgNext, OrgFetch, Move

LEMMA PagingInvariant == OrgSpec => []PagingInv
<1>. QED
  BY InitPagingInv, StepPagingInv, PTL DEF OrgSpec

-----------------------------------------------------------------------------
(* The last page *)

LEMMA LastPageLoses ==
    ASSUME PagingInv, ReadLastPage
    PROVE  Cardinality(Hidden(Current, rows')) <= left
<1>1. PICK u \in Nat : u = ReadUpTo
  BY BatchType DEF PagingInv, ReadLastPage
<1>2. /\ Reading /\ Len(Batch) < PageSize
      /\ logins \in Seq(Accounts) /\ Batch \in Seq(Accounts)
  BY BatchType, OrgAssumption DEF PagingInv, OrgTypeOK, ReadLastPage, FullPage
<1>3. /\ \A j \in 1 .. Len(Batch) : Batch[j] = public[Current][u + j]
      /\ u + Len(Batch) >= Len(public[Current])
      /\ Len(public[Current]) \in Nat
  BY <1>1, <1>2, BatchType, CurrentType DEF PagingInv
<1> DEFINE all == logins \o Batch
<1>4. /\ all \in Seq(Accounts) /\ Len(all) = Len(logins) + Len(Batch)
      /\ \A j \in 1 .. Len(logins) : all[j] = logins[j]
      /\ \A j \in 1 .. Len(Batch) : all[Len(logins) + j] = Batch[j]
  BY <1>2
<1>5. rows' = rows \cup RowsOf(Current, all)
  BY DEF ReadLastPage
<1>. HIDE DEF all
<1>6. ASSUME NEW a \in Hidden(Current, rows') PROVE a \in Missed
  <2>1. PICK t \in Teams : Current \in TeamOrgs[t] /\ RowOf(a, t, Current) \notin rows'
    BY <1>6 DEF Hidden
  <2>2. a \in stayed /\ a \notin Nameless
    BY <1>6 DEF Hidden
  <2>3. t \in OrgTeams[Current]
    BY <2>1, <1>2, CurrentType DEF OrgTeams, PagingInv
  <2>4. \A i \in 1 .. Len(all) : all[i] # a
    BY <1>5, <2>1, <2>2, <2>3 DEF RowsOf, NamedIn
  <2>5. PICK p \in 1 .. Len(public[Current]) : public[Current][p] = a
    BY <1>2, <2>2 DEF PagingInv, Accounted, Listed
  <2>6. ~ (p > u)
    <3>1. SUFFICES ASSUME p > u PROVE FALSE
      OBVIOUS
    <3>2. PICK j \in 1 .. Len(Batch) : p = u + j
      BY <3>1, <1>2, <1>3
    <3>3. Len(logins) + j \in 1 .. Len(all) /\ all[Len(logins) + j] = a
      BY <3>2, <2>5, <1>2, <1>3, <1>4
    <3>. QED
      BY <3>3, <2>4
  <2>7. p \in 1 .. ReadUpTo /\ p <= Len(public[Current])
    BY <2>6, <1>1, <1>3
  <2>8. \A i \in 1 .. Len(logins) : logins[i] # a
    BY <2>4, <1>2, <1>4
  <2>. QED
    BY <2>2, <2>5, <2>7, <2>8 DEF Missed
<1>7. IsFiniteSet(Missed) /\ Cardinality(Missed) <= left /\ left \in Nat
  BY <1>2 DEF PagingInv, Accounted, OrgTypeOK
<1>. QED
  BY <1>6, <1>7, Smaller

\* The variables of the source keep their types, whoever joins or leaves and whichever
\* page fails.
THEOREM PagingTyped == OrgSpec => []OrgTypeOK
<1>. QED
  BY PagingInvariant, PTL DEF PagingInv

\* A fetch loses at most one of those who stayed in an org for each one who left from a
\* page already read: for any page size, any lists and any movement (PublicMembers).
THEOREM PagingLoses == OrgSpec => EachLeaveHidesAtMostOne
<1>1. ASSUME PagingInv, [OrgNext]_orgVars,
             Reading, cursor' = cursor + 1, Current \notin skipped'
      PROVE  Cardinality(Hidden(Current, rows')) <= left
  <2>1. ReadLastPage
    <3>1. cursor' # cursor /\ cursor' # 1 /\ orgAt = "fetching"
      BY <1>1 DEF PagingInv, OrgTypeOK, Reading
    <3>2. ~ SkipOrg
      BY <1>1 DEF SkipOrg
    <3>. QED
      BY <1>1, <3>1, <3>2
      DEF OrgNext, OrgFetch, Move, BeginFetch, ReadPage, EndFetch, OrgReturn, OrgRestart, Join,
          Leave, orgVars, readVars
  <2>. QED
    BY <1>1, <2>1, LastPageLoses
<1>. QED
  BY <1>1, PagingInvariant, PTL DEF OrgSpec, EachLeaveHidesAtMostOne
=============================================================================
