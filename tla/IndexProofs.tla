---------------------------- MODULE IndexProofs -----------------------------
(* Proofs about Index: Build and Users, for any rows and any number of them. *)
(*                                                                          *)
(* What a loop computes is proved by induction over the turns it has taken.  *)
(* The induction is a set of naturals without a least element outside it     *)
(* (CountingUp), so it needs no theorem with an operator as a parameter.     *)
EXTENDS Index, FiniteSetTheorems, WellFoundedInduction, TLAPS

-----------------------------------------------------------------------------
(* Lemmas about counting, sequences and the loops. *)

\* A set that has 0 and, with each number below N, the next one, has all up to N.
LEMMA CountingUp ==
    ASSUME NEW N \in Nat, NEW S, 0 \in S,
           \A n \in 0 .. N : (n < N /\ n \in S) => n + 1 \in S
    PROVE  \A n \in 0 .. N : n \in S
<1> DEFINE T == (0 .. N) \ S
<1>1. SUFFICES ASSUME T # {} PROVE FALSE
  OBVIOUS
<1>2. PICK n \in T : \A k \in T : <<k, n>> \notin OpToRel(<, Nat)
  <2>1. T \subseteq Nat
    OBVIOUS
  <2>. QED
    BY <1>1, <2>1, WFMin, NatLessThanWellFounded, Zenon
<1>4. n \in 0 .. N /\ n \notin S /\ n # 0
  BY <1>2
<1>3. ASSUME NEW k \in 0 .. N, k < n PROVE k \in S
  <2>1. <<k, n>> \in OpToRel(<, Nat)
    BY <1>3, <1>4 DEF OpToRel
  <2>. QED
    BY <1>2, <2>1
<1>5. n - 1 \in 0 .. N /\ n - 1 < n /\ n - 1 < N /\ (n - 1) + 1 = n
  BY <1>4
<1>6. n - 1 \in S
  BY <1>3, <1>5
<1>. QED
  BY <1>4, <1>5, <1>6

\* A sequence that lists a finite set has its elements and no others.
LEMMA Listing ==
    ASSUME NEW S, IsFiniteSet(S), NEW p \in SetToSeqs(S)
    PROVE  /\ Len(p) \in Nat /\ Len(p) = Cardinality(S)
           /\ p \in Seq(S)
           /\ \A i \in 1 .. Len(p) : p[i] \in S
           /\ \A x \in S : \E i \in 1 .. Len(p) : p[i] = x
<1> DEFINE D == 1 .. Cardinality(S)
<1>1. Cardinality(S) \in Nat
  BY FS_CardinalityType
<1>2. p \in [D -> S] /\ \A i, j \in D : i # j => p[i] # p[j]
  BY DEF SetToSeqs
<1>3. p \in Seq(S) /\ Len(p) = Cardinality(S)
  BY <1>1, <1>2
<1>4. IsFiniteSet(D) /\ Cardinality(D) = Cardinality(S)
  BY <1>1, FS_Interval
<1>5. p \in Injection(D, S)
  BY <1>2 DEF Injection, IsInjective
<1>6. p \in Surjection(D, S)
  <2>. HIDE DEF D
  <2>. QED
    BY <1>4, <1>5, FS_Injection
<1>. QED
  BY <1>1, <1>2, <1>3, <1>6 DEF Surjection

\* Build's loop has a value after each turn: nothing before the first, and then
\* the last one with the next row folded in.
LEMMA BuildLoop ==
    ASSUME NEW ms \in Seq(Row)
    PROVE  \E f : /\ f = [n \in 0 .. Len(ms) |-> IF n = 0 THEN Empty ELSE Fold(f[n - 1], ms[n])]
                  /\ Build(ms) = f[Len(ms)]
<1> DEFINE Loop(f, n) == f = [k \in 0 .. n |-> IF k = 0 THEN Empty ELSE Fold(f[k - 1], ms[k])]
           S == {n \in 0 .. Len(ms) : \E f : Loop(f, n)}
<1>1. Len(ms) \in Nat
  OBVIOUS
<1>2. 0 \in S
  <2>. DEFINE f == [k \in 0 .. 0 |-> Empty]
  <2>1. Loop(f, 0)
    OBVIOUS
  <2>. HIDE DEF f, Loop
  <2>. QED
    BY <1>1, <2>1
<1>3. ASSUME NEW n \in 0 .. Len(ms), n < Len(ms), n \in S PROVE n + 1 \in S
  <2>1. PICK f : Loop(f, n)
    BY <1>3
  <2>. DEFINE g == [k \in 0 .. n + 1 |-> IF k = n + 1 THEN Fold(f[n], ms[n + 1]) ELSE f[k]]
  <2>2. Loop(g, n + 1)
    <3>1. ASSUME NEW k \in 0 .. n + 1
          PROVE  g[k] = IF k = 0 THEN Empty ELSE Fold(g[k - 1], ms[k])
      <4>1. CASE k = n + 1
        BY <4>1, <1>1
      <4>2. CASE k # n + 1
        <5>1. k \in 0 .. n /\ g[k] = f[k]
          BY <4>2, <1>1
        <5>2. f[k] = IF k = 0 THEN Empty ELSE Fold(f[k - 1], ms[k])
          BY <2>1, <5>1
        <5>3. k # 0 => g[k - 1] = f[k - 1]
          BY <5>1, <1>1
        <5>. QED
          BY <5>1, <5>2, <5>3
      <4>. QED
        BY <4>1, <4>2
    <3>. QED
      BY <3>1
  <2>3. n + 1 \in 0 .. Len(ms)
    BY <1>1, <1>3
  <2>. QED
    BY <2>2, <2>3
<1>4. Len(ms) \in S
  <2>1. \A n \in 0 .. Len(ms) : (n < Len(ms) /\ n \in S) => n + 1 \in S
    BY <1>3
  <2>. HIDE DEF S
  <2>2. \A n \in 0 .. Len(ms) : n \in S
    BY <1>1, <1>2, <2>1, CountingUp
  <2>. QED
    BY <1>1, <2>2
<1>5. PICK f : Loop(f, Len(ms))
  BY <1>4
<1>. DEFINE upTo == CHOOSE g : Loop(g, Len(ms))
<1>6. Loop(upTo, Len(ms))
  BY <1>5
<1>7. Build(ms) = upTo[Len(ms)]
  BY DEF Build
<1>. QED
  BY <1>6, <1>7

-----------------------------------------------------------------------------
(* One turn of Build's loop. *)

\* What one more row changes in the rows about a cell.
LEMMA RowAppended ==
    ASSUME NEW ms \in Seq(Row), NEW m \in Row
    PROVE  /\ Len(ms) \in Nat /\ Len(Append(ms, m)) = Len(ms) + 1
           /\ Append(ms, m) \in Seq(Row)
           /\ Append(ms, m)[Len(ms) + 1] = m
           /\ \A i \in 1 .. Len(ms) : Append(ms, m)[i] = ms[i]
OBVIOUS

LEMMA CountedAppended ==
    ASSUME NEW ms \in Seq(Row), NEW m \in Row
    PROVE  Counted(Append(ms, m)) = Counted(ms) \cup {i \in {Len(ms) + 1} : Counts(m)}
<1> DEFINE new == Append(ms, m)
<1>1. /\ Len(ms) \in Nat /\ Len(new) = Len(ms) + 1 /\ new[Len(ms) + 1] = m
      /\ \A i \in 1 .. Len(ms) : new[i] = ms[i]
  BY RowAppended
<1>2. 1 .. Len(new) = (1 .. Len(ms)) \cup {Len(ms) + 1}
  BY <1>1
<1>. HIDE DEF new
<1>. QED
  BY <1>1, <1>2 DEF Counted, new

LEMMA AboutAppended ==
    ASSUME NEW ms \in Seq(Row), NEW m \in Row, NEW c
    PROVE  /\ Counts(m) /\ Cell(m) = c => About(Append(ms, m), c) = About(ms, c) \cup {Len(ms) + 1}
           /\ ~(Counts(m) /\ Cell(m) = c) => About(Append(ms, m), c) = About(ms, c)
           /\ About(ms, c) \subseteq 1 .. Len(ms)
           /\ \A i \in About(ms, c) : Append(ms, m)[i] = ms[i]
<1>1. /\ Counted(ms) \subseteq 1 .. Len(ms)
      /\ \A i \in Counted(ms) : Append(ms, m)[i] = ms[i]
      /\ Append(ms, m)[Len(ms) + 1] = m
  BY RowAppended DEF Counted
<1>. QED
  BY <1>1, CountedAppended DEF About

\* A row that counts has its cell and casing in range.
LEMMA CellType ==
    ASSUME NEW m \in Row, Counts(m)
    PROVE  /\ m.handle \in Logins /\ m.team \in Slugs /\ m.source \in Sources
           /\ m.org \in Orgs \cup {Nothing} /\ m.name \in Names \cup {Nothing}
           /\ Cell(m) \in Slugs \X Keys
BY IndexAssumption DEF Row, Counts, Cell, Keys

\* A row that counts moves its own cell, and no other.
LEMMA FoldCell ==
    ASSUME NEW index, IsIndex(index), NEW m \in Row, Counts(m),
           NEW old, old = IF Cell(m) \in DOMAIN index THEN index[Cell(m)] ELSE Fresh(m)
    PROVE  /\ DOMAIN Fold(index, m) = DOMAIN index \cup {Cell(m)}
           /\ Fold(index, m)[Cell(m)] = Merged(old, m)
           /\ \A c \in DOMAIN index : c # Cell(m) => Fold(index, m)[c] = index[c]
BY DEF Fold

LEMMA FoldType ==
    ASSUME NEW index, IsIndex(index), NEW m \in Row
    PROVE  IsIndex(Fold(index, m))
<1>1. CASE ~Counts(m)
  BY <1>1 DEF Fold
<1>2. CASE Counts(m)
  <2>1. PICK old : old = IF Cell(m) \in DOMAIN index THEN index[Cell(m)] ELSE Fresh(m)
    OBVIOUS
  <2>2. old \in Member
    BY <1>2, <2>1, CellType DEF IsIndex, Member, Fresh
  <2>3. Merged(old, m) \in Member
    BY <1>2, <2>2, CellType DEF Member, Merged
  <2>4. Fold(index, m) = [c \in DOMAIN index \cup {Cell(m)} |-> Fold(index, m)[c]]
    BY <1>2 DEF Fold
  <2>5. /\ DOMAIN Fold(index, m) = DOMAIN index \cup {Cell(m)}
        /\ Fold(index, m)[Cell(m)] = Merged(old, m)
        /\ \A c \in DOMAIN index : c # Cell(m) => Fold(index, m)[c] = index[c]
    BY <1>2, <2>1, FoldCell
  <2>6. \A c \in DOMAIN index \cup {Cell(m)} : Fold(index, m)[c] \in Member
    BY <2>3, <2>5 DEF IsIndex
  <2>7. Cell(m) \in Slugs \X Keys
    BY <1>2, CellType
  <2>8. DOMAIN Fold(index, m) \subseteq Slugs \X Keys
    BY <2>5, <2>7 DEF IsIndex
  <2>. QED
    BY <2>4, <2>5, <2>6, <2>8 DEF IsIndex
<1>. QED
  BY <1>1, <1>2

\* Rows about another cell leave a member as it is.
LEMMA MemberKept ==
    ASSUME NEW ms \in Seq(Row), NEW m \in Row, NEW c, ~(Counts(m) /\ Cell(m) = c),
           NEW member, MemberOf(ms, c, member)
    PROVE  MemberOf(Append(ms, m), c, member)
<1>1. /\ About(Append(ms, m), c) = About(ms, c)
      /\ \A i \in About(ms, c) : Append(ms, m)[i] = ms[i]
  BY AboutAppended
<1>. QED
  BY <1>1 DEF MemberOf

\* Folding a row into a member that already has rows.
LEMMA MergeKnown ==
    ASSUME NEW ms \in Seq(Row), NEW m \in Row, Counts(m),
           NEW member, MemberOf(ms, Cell(m), member)
    PROVE  MemberOf(Append(ms, m), Cell(m), Merged(member, m))
<1> DEFINE c == Cell(m)
           n == Len(ms) + 1
           new == Append(ms, m)
           merged == Merged(member, m)
<1>1. About(new, c) = About(ms, c) \cup {n}
  BY AboutAppended
<1>2. /\ Len(ms) \in Nat /\ About(ms, c) \subseteq 1 .. Len(ms)
      /\ new[n] = m /\ \A i \in About(ms, c) : new[i] = ms[i]
  BY RowAppended, AboutAppended
<1>3. PICK f \in About(ms, c) : member.handle = ms[f].handle /\ \A j \in About(ms, c) : f <= j
  BY DEF MemberOf
<1>4. /\ member.sources = {ms[i].source : i \in About(ms, c)}
      /\ member.orgs = {ms[i].org : i \in About(ms, c)} \ {Nothing}
      /\ \/ member.name = Nothing /\ \A i \in About(ms, c) : ms[i].name = Nothing
         \/ \E i \in About(ms, c) :
              /\ member.name = ms[i].name /\ ms[i].name # Nothing
              /\ \A j \in About(ms, c) : ms[j].name # Nothing => i <= j
  BY DEF MemberOf
<1>5. /\ merged.handle = member.handle
      /\ merged.name = IF member.name = Nothing THEN m.name ELSE member.name
      /\ merged.sources = member.sources \cup {m.source}
      /\ merged.orgs = member.orgs \cup ({m.org} \ {Nothing})
  BY DEF Merged
<1>6. \A j \in About(ms, c) : j <= n
  BY <1>2
<1> HIDE DEF c, n, new, merged
<1>7. merged.handle = new[f].handle /\ \A j \in About(new, c) : f <= j
  BY <1>1, <1>2, <1>3, <1>5, <1>6
<1>8. merged.sources = {new[i].source : i \in About(new, c)}
  <2>1. {new[i].source : i \in About(ms, c)} = {ms[i].source : i \in About(ms, c)}
    BY <1>2
  <2>. QED
    BY <1>1, <1>2, <1>4, <1>5, <2>1
<1>9. merged.orgs = {new[i].org : i \in About(new, c)} \ {Nothing}
  <2>1. {new[i].org : i \in About(ms, c)} = {ms[i].org : i \in About(ms, c)}
    BY <1>2
  <2>2. {new[i].org : i \in About(new, c)} = {new[i].org : i \in About(ms, c)} \cup {m.org}
    BY <1>1, <1>2
  <2>. QED
    BY <1>4, <1>5, <2>1, <2>2
<1>10. \/ merged.name = Nothing /\ \A i \in About(new, c) : new[i].name = Nothing
       \/ \E i \in About(new, c) :
            /\ merged.name = new[i].name /\ new[i].name # Nothing
            /\ \A j \in About(new, c) : new[j].name # Nothing => i <= j
  <2>1. CASE member.name = Nothing
    <3>1. \A i \in About(ms, c) : ms[i].name = Nothing
      BY <1>4, <2>1
    <3>2. \A i \in About(new, c) : i # n => new[i].name = Nothing
      BY <1>1, <1>2, <3>1
    <3>3. n \in About(new, c) /\ new[n].name = merged.name /\ n <= n
      BY <1>1, <1>2, <1>5, <2>1 DEF n
    <3>. QED
      BY <3>2, <3>3
  <2>2. CASE member.name # Nothing
    <3>1. PICK g \in About(ms, c) :
            /\ member.name = ms[g].name /\ ms[g].name # Nothing
            /\ \A j \in About(ms, c) : ms[j].name # Nothing => g <= j
      BY <1>4, <2>2
    <3>2. g <= n
      BY <1>6
    <3>. QED
      BY <1>1, <1>2, <1>5, <2>2, <3>1, <3>2
  <2>. QED
    BY <2>1, <2>2
<1>. QED
  BY <1>1, <1>3, <1>7, <1>8, <1>9, <1>10 DEF MemberOf, c, new, merged

\* Folding the first row about a cell.
LEMMA MergeFirst ==
    ASSUME NEW ms \in Seq(Row), NEW m \in Row, Counts(m), About(ms, Cell(m)) = {}
    PROVE  MemberOf(Append(ms, m), Cell(m), Merged(Fresh(m), m))
<1> DEFINE n == Len(ms) + 1
           new == Append(ms, m)
           merged == Merged(Fresh(m), m)
<1>1. About(new, Cell(m)) = {n} /\ new[n] = m /\ n <= n
  BY RowAppended, AboutAppended
<1>2. /\ merged.handle = m.handle /\ merged.name = m.name
      /\ merged.sources = {m.source} /\ merged.orgs = {m.org} \ {Nothing}
  BY DEF Merged, Fresh
<1> HIDE DEF n, new, merged
<1>3. /\ \E i \in About(new, Cell(m)) :
            merged.handle = new[i].handle /\ \A j \in About(new, Cell(m)) : i <= j
      /\ merged.sources = {new[i].source : i \in About(new, Cell(m))}
  BY <1>1, <1>2
<1>4. merged.orgs = {new[i].org : i \in About(new, Cell(m))} \ {Nothing}
  <2>1. {new[i].org : i \in About(new, Cell(m))} = {m.org}
    BY <1>1
  <2>. QED
    BY <1>2, <2>1
<1>5. \/ merged.name = Nothing /\ \A i \in About(new, Cell(m)) : new[i].name = Nothing
      \/ \E i \in About(new, Cell(m)) :
            /\ merged.name = new[i].name /\ new[i].name # Nothing
            /\ \A j \in About(new, Cell(m)) : new[j].name # Nothing => i <= j
  BY <1>1, <1>2
<1>. QED
  BY <1>3, <1>4, <1>5 DEF MemberOf, new, merged

LEMMA FoldSuperset ==
    ASSUME NEW ms \in Seq(Row), NEW m \in Row, NEW index, IsIndex(index), SupersetOf(ms, index)
    PROVE  SupersetOf(Append(ms, m), Fold(index, m))
<1> DEFINE new == Append(ms, m)
<1>1. /\ Counted(new) = Counted(ms) \cup {i \in {Len(ms) + 1} : Counts(m)}
      /\ new[Len(ms) + 1] = m /\ \A i \in Counted(ms) : new[i] = ms[i]
  BY CountedAppended, RowAppended DEF Counted
<1>2. {Cell(new[i]) : i \in Counted(new)} = DOMAIN index \cup {x \in {Cell(m)} : Counts(m)}
  <2>1. {Cell(new[i]) : i \in Counted(ms)} = DOMAIN index
    BY <1>1 DEF SupersetOf
  <2>. HIDE DEF new
  <2>. QED
    BY <1>1, <2>1
<1>3. CASE ~Counts(m)
  <2>1. Fold(index, m) = index
    BY <1>3 DEF Fold
  <2>2. \A c \in DOMAIN index : MemberOf(new, c, index[c])
    BY <1>3, MemberKept DEF SupersetOf
  <2>. QED
    BY <1>2, <1>3, <2>1, <2>2 DEF SupersetOf
<1>4. CASE Counts(m)
  <2>1. PICK old : old = IF Cell(m) \in DOMAIN index THEN index[Cell(m)] ELSE Fresh(m)
    OBVIOUS
  <2>2. /\ DOMAIN Fold(index, m) = DOMAIN index \cup {Cell(m)}
        /\ Fold(index, m)[Cell(m)] = Merged(old, m)
        /\ \A c \in DOMAIN index : c # Cell(m) => Fold(index, m)[c] = index[c]
    BY <1>4, <2>1, FoldCell
  <2>3. \A c \in DOMAIN index : c # Cell(m) => MemberOf(new, c, index[c])
    BY MemberKept DEF SupersetOf
  <2>4. MemberOf(new, Cell(m), Merged(old, m))
    <3>1. CASE Cell(m) \in DOMAIN index
      BY <1>4, <2>1, <3>1, MergeKnown DEF SupersetOf
    <3>2. CASE Cell(m) \notin DOMAIN index
      <4>1. About(ms, Cell(m)) = {}
        BY <3>2 DEF SupersetOf, About
      <4>. QED
        BY <1>4, <2>1, <3>2, <4>1, MergeFirst
    <3>. QED
      BY <3>1, <3>2
  <2>5. DOMAIN Fold(index, m) = {Cell(new[i]) : i \in Counted(new)}
    BY <1>2, <1>4, <2>2
  <2>6. \A c \in DOMAIN Fold(index, m) : MemberOf(new, c, Fold(index, m)[c])
    BY <2>2, <2>3, <2>4
  <2>. QED
    BY <2>5, <2>6 DEF SupersetOf
<1>. QED
  BY <1>3, <1>4

LEMMA NoRows == IsIndex(Empty) /\ SupersetOf(<< >>, Empty)
BY DEF IsIndex, SupersetOf, Empty, Counted

-----------------------------------------------------------------------------
(* Build, and its loop in steps of its own. *)

\* Whatever rows Build is given, it makes their superset.
LEMMA BuildRight ==
    ASSUME NEW ms \in Seq(Row)
    PROVE  IsIndex(Build(ms)) /\ SupersetOf(ms, Build(ms))
<1>1. PICK f : /\ f = [n \in 0 .. Len(ms) |-> IF n = 0 THEN Empty ELSE Fold(f[n - 1], ms[n])]
               /\ Build(ms) = f[Len(ms)]
  BY BuildLoop
<1> DEFINE N == Len(ms)
           read(n) == SubSeq(ms, 1, n)
           S == {n \in 0 .. N : IsIndex(f[n]) /\ SupersetOf(read(n), f[n])}
<1>2. N \in Nat
  OBVIOUS
<1>3. 0 \in S
  <2>1. f[0] = Empty /\ read(0) = << >>
    BY <1>1, <1>2
  <2>. HIDE DEF read
  <2>2. IsIndex(f[0]) /\ SupersetOf(read(0), f[0])
    BY <2>1, NoRows
  <2>. QED
    BY <1>2, <2>2
<1>4. ASSUME NEW n \in 0 .. N, n < N, n \in S PROVE n + 1 \in S
  <2>1. n + 1 \in 1 .. N /\ read(n) \in Seq(Row) /\ ms[n + 1] \in Row
    BY <1>2, <1>4
  <2>2. read(n + 1) = Append(read(n), ms[n + 1])
    BY <1>2, <2>1
  <2>3. f[n + 1] = Fold(f[n], ms[n + 1])
    BY <1>1, <1>2, <2>1
  <2>4. IsIndex(f[n]) /\ SupersetOf(read(n), f[n])
    BY <1>4
  <2>. HIDE DEF read
  <2>5. IsIndex(Fold(f[n], ms[n + 1]))
    BY <2>1, <2>4, FoldType
  <2>6. SupersetOf(Append(read(n), ms[n + 1]), Fold(f[n], ms[n + 1]))
    BY <2>1, <2>4, FoldSuperset
  <2>7. IsIndex(f[n + 1]) /\ SupersetOf(read(n + 1), f[n + 1])
    BY <2>2, <2>3, <2>5, <2>6
  <2>. QED
    BY <2>1, <2>7
<1>5. \A n \in 0 .. N : n \in S
  <2>1. \A n \in 0 .. N : (n < N /\ n \in S) => n + 1 \in S
    BY <1>4
  <2>. HIDE DEF S, N
  <2>. QED
    BY <1>2, <1>3, <2>1, CountingUp
<1>6. N \in S
  BY <1>2, <1>5
<1>7. read(N) = ms
  BY <1>2
<1>. QED
  BY <1>1, <1>6, <1>7

LEMMA StepIndex ==
    ASSUME TypeOK, IndexIsSuperset, [Next]_vars
    PROVE  TypeOK' /\ IndexIsSuperset'
<1>1. rows \in Seq(Row)
  BY IndexAssumption DEF TypeOK
<1>2. CASE NextBuild
  <2>1. rows' = << >> /\ idx' = Empty
    BY <1>2 DEF NextBuild
  <2>2. IsIndex(idx') /\ SupersetOf(rows', idx')
    BY <2>1, NoRows
  <2>. QED
    BY <2>1, <2>2 DEF TypeOK, IndexIsSuperset
<1>3. ASSUME NEW m \in Inputs, AddRow(m)
      PROVE  TypeOK' /\ IndexIsSuperset'
  <2>1. rows' = Append(rows, m) /\ idx' = Fold(idx, m) /\ m \in Row
    BY <1>3, IndexAssumption DEF AddRow
  <2>2. rows' \in Seq(Inputs)
    BY <2>1 DEF TypeOK
  <2>3. IsIndex(Fold(idx, m)) /\ SupersetOf(Append(rows, m), Fold(idx, m))
    BY <1>1, <2>1, FoldType, FoldSuperset DEF TypeOK, IndexIsSuperset
  <2>4. IsIndex(idx') /\ SupersetOf(rows', idx')
    BY <2>1, <2>3
  <2>. QED
    BY <2>2, <2>4 DEF TypeOK, IndexIsSuperset
<1>4. CASE UNCHANGED vars
  <2>1. rows' = rows /\ idx' = idx
    BY <1>4 DEF vars
  <2>2. IsIndex(idx') /\ SupersetOf(rows', idx')
    BY <2>1 DEF TypeOK, IndexIsSuperset
  <2>. QED
    BY <2>1, <2>2 DEF TypeOK, IndexIsSuperset
<1>. QED
  BY <1>2, <1>3, <1>4 DEF Next

LEMMA Right == Spec => [](TypeOK /\ IndexIsSuperset)
<1>1. Init => TypeOK /\ IndexIsSuperset
  BY NoRows DEF Init, TypeOK, IndexIsSuperset
<1>. QED
  BY <1>1, StepIndex, PTL DEF Spec

\* The index of any rows maps cells to members.
THEOREM IndexTyped == Spec => []TypeOK
BY Right, PTL

\* Build computes the superset of its rows, whatever rows it is given and however
\* many: exactly their cells, the first casing and name, all sources and orgs, and
\* nothing of another member's.
THEOREM BuildCorrect == Spec => []IndexIsSuperset
BY Right, PTL

-----------------------------------------------------------------------------
(* Flattening an index, and building it again. *)

Inv == TypeOK /\ IndexIsSuperset

\* A row that counts contributes to the member of its cell.
LEMMA CountedRow ==
    ASSUME Inv, NEW i \in Counted(rows)
    PROVE  LET c == Cell(rows[i]) IN
           /\ i \in 1 .. Len(rows) /\ rows[i] \in Inputs /\ rows[i] \in Row /\ Counts(rows[i])
           /\ c \in DOMAIN idx /\ i \in About(rows, c)
           /\ c = <<rows[i].team, Lower[rows[i].handle]>>
           /\ rows[i].source \in idx[c].sources
           /\ rows[i].org \in idx[c].orgs \cup {Nothing}
           /\ rows[i].org # Nothing <=> rows[i].source = OrgSource
<1> DEFINE c == Cell(rows[i])
<1>1. i \in 1 .. Len(rows) /\ rows[i] \in Inputs /\ Counts(rows[i])
  BY DEF Inv, TypeOK, Counted
<1>2. rows[i] \in Row /\ (rows[i].org # Nothing <=> rows[i].source = OrgSource)
  BY <1>1, IndexAssumption
<1>3. c \in DOMAIN idx /\ i \in About(rows, c)
  BY DEF Inv, IndexIsSuperset, SupersetOf, About
<1>4. MemberOf(rows, c, idx[c])
  BY <1>3 DEF Inv, IndexIsSuperset, SupersetOf
<1>5. rows[i].source \in idx[c].sources /\ rows[i].org \in idx[c].orgs \cup {Nothing}
  BY <1>3, <1>4 DEF MemberOf
<1>6. c = <<rows[i].team, Lower[rows[i].handle]>>
  BY DEF Cell
<1>. QED
  BY <1>1, <1>2, <1>3, <1>5, <1>6

\* A member's casing is that of its cell, and each of its sources and orgs comes
\* from one of its rows.
LEMMA MemberOfCell ==
    ASSUME Inv, NEW c \in DOMAIN idx
    PROVE  /\ c \in Slugs \X Keys /\ idx[c] \in Member
           /\ Lower[idx[c].handle] = c[2]
           /\ About(rows, c) # {}
           /\ \A i \in About(rows, c) : i \in Counted(rows) /\ Cell(rows[i]) = c
           /\ \A s \in idx[c].sources : \E i \in About(rows, c) : rows[i].source = s
           /\ \A o \in idx[c].orgs : o # Nothing /\ \E i \in About(rows, c) : rows[i].org = o
<1>1. MemberOf(rows, c, idx[c])
  BY DEF Inv, IndexIsSuperset, SupersetOf
<1>2. PICK f \in About(rows, c) : idx[c].handle = rows[f].handle
  BY <1>1 DEF MemberOf
<1>3. \A i \in About(rows, c) : i \in Counted(rows) /\ Cell(rows[i]) = c
  BY DEF About
<1>4. Lower[idx[c].handle] = c[2]
  BY <1>2, <1>3 DEF Cell
<1>5. c \in Slugs \X Keys /\ idx[c] \in Member
  BY DEF Inv, TypeOK, IsIndex
<1>6. /\ \A s \in idx[c].sources : \E i \in About(rows, c) : rows[i].source = s
      /\ \A o \in idx[c].orgs : o # Nothing /\ \E i \in About(rows, c) : rows[i].org = o
  BY <1>1 DEF MemberOf
<1>. QED
  BY <1>2, <1>3, <1>4, <1>5, <1>6

\* The row a member is flattened to, for one of its sources and orgs.
Flat(c, s, o) == [handle |-> idx[c].handle, team |-> c[1], source |-> s, org |-> o,
                  name |-> idx[c].name]

LEMMA FlatType ==
    ASSUME Inv, NEW c \in DOMAIN idx, NEW s \in idx[c].sources, NEW o \in idx[c].orgs \cup {Nothing}
    PROVE  Flat(c, s, o) \in Row /\ Counts(Flat(c, s, o)) /\ Cell(Flat(c, s, o)) = c
<1>1. /\ c \in Slugs \X Keys /\ idx[c] \in Member /\ Lower[idx[c].handle] = c[2]
  BY MemberOfCell
<1>2. c = <<c[1], c[2]>> /\ c[1] \in Slugs
  BY <1>1
<1>3. Flat(c, s, o) \in Row
  BY <1>1, <1>2 DEF Flat, Row, Member
<1>4. Counts(Flat(c, s, o))
  BY <1>1, <1>2, IndexAssumption DEF Flat, Counts, Member
<1>5. Cell(Flat(c, s, o)) = c
  BY <1>1, <1>2 DEF Flat, Cell
<1>. QED
  BY <1>3, <1>4, <1>5

\* Flattening gives back what each row says, in the display casing and name.
LEMMA FlatRows ==
    ASSUME Inv
    PROVE  Memberships(idx) = {Flat(Cell(rows[i]), rows[i].source, rows[i].org) : i \in Counted(rows)}
<1>1. ASSUME NEW m \in Memberships(idx)
      PROVE  \E i \in Counted(rows) : m = Flat(Cell(rows[i]), rows[i].source, rows[i].org)
  <2>1. PICK c \in DOMAIN idx : \E s \in idx[c].sources : m \in OrgRows(c, idx[c], s)
    BY <1>1 DEF Memberships
  <2>2. PICK s \in idx[c].sources : m \in OrgRows(c, idx[c], s)
    BY <2>1
  <2>3. PICK o \in IF s = OrgSource /\ idx[c].orgs # {} THEN idx[c].orgs ELSE {Nothing} :
            m = Flat(c, s, o)
    BY <2>2 DEF OrgRows, Flat
  <2>4. \E i \in About(rows, c) : rows[i].source = s /\ rows[i].org = o
    <3>1. CASE s = OrgSource /\ idx[c].orgs # {}
      <4>1. PICK i \in About(rows, c) : rows[i].org = o /\ o # Nothing
        BY <2>3, <3>1, MemberOfCell
      <4>2. i \in Counted(rows)
        BY MemberOfCell
      <4>. QED
        BY <3>1, <4>1, <4>2, CountedRow
    <3>2. CASE ~(s = OrgSource /\ idx[c].orgs # {})
      <4>1. PICK i \in About(rows, c) : rows[i].source = s
        BY MemberOfCell
      <4>2. i \in Counted(rows) /\ Cell(rows[i]) = c
        BY MemberOfCell
      <4>3. rows[i].org \in idx[c].orgs \cup {Nothing} /\ (rows[i].org # Nothing <=> s = OrgSource)
        BY <4>1, <4>2, CountedRow
      <4>. QED
        BY <2>3, <3>2, <4>1, <4>3
    <3>. QED
      BY <3>1, <3>2
  <2>5. PICK i \in About(rows, c) : rows[i].source = s /\ rows[i].org = o
    BY <2>4
  <2>. QED
    BY <2>3, <2>5, MemberOfCell
<1>2. ASSUME NEW i \in Counted(rows)
      PROVE  Flat(Cell(rows[i]), rows[i].source, rows[i].org) \in Memberships(idx)
  <2> DEFINE c == Cell(rows[i])
             s == rows[i].source
             o == rows[i].org
  <2>1. /\ c \in DOMAIN idx /\ s \in idx[c].sources /\ o \in idx[c].orgs \cup {Nothing}
        /\ o # Nothing <=> s = OrgSource
    BY CountedRow
  <2>2. Nothing \notin idx[c].orgs
    BY <2>1, MemberOfCell
  <2>. HIDE DEF c, s, o
  <2>3. o \in IF s = OrgSource /\ idx[c].orgs # {} THEN idx[c].orgs ELSE {Nothing}
    BY <2>1, <2>2
  <2>4. Flat(c, s, o) \in OrgRows(c, idx[c], s)
    BY <2>3 DEF OrgRows, Flat
  <2>5. Flat(c, s, o) \in Memberships(idx)
    BY <2>1, <2>4 DEF Memberships
  <2>. QED
    BY <2>5 DEF c, s, o
<1>. QED
  BY <1>1, <1>2

LEMMA CountedFinite == Inv => IsFiniteSet(Counted(rows)) /\ IsFiniteSet(1 .. Len(rows))
<1>1. Inv => Len(rows) \in Nat
  BY DEF Inv, TypeOK
<1>2. Inv => IsFiniteSet(1 .. Len(rows))
  BY <1>1, FS_Interval
<1>3. Counted(rows) \in SUBSET (1 .. Len(rows))
  BY DEF Counted
<1>. QED
  BY <1>2, <1>3, FS_Subset

LEMMA MembershipsFinite == ASSUME Inv PROVE IsFiniteSet(Memberships(idx))
<1> DEFINE f == [i \in Counted(rows) |-> Flat(Cell(rows[i]), rows[i].source, rows[i].org)]
<1>1. f \in Surjection(Counted(rows), Memberships(idx))
  BY FlatRows DEF Surjection
<1>. HIDE DEF f
<1>. QED
  BY <1>1, CountedFinite, FS_Surjection

\* The rows of a cell, and the member it has if they are all there is.
RowsAt(part, c) == {m \in part : Cell(m) = c}
Only(part, c, member) ==
    /\ member.handle = idx[c].handle
    /\ member.name = idx[c].name
    /\ member.sources = {m.source : m \in RowsAt(part, c)}
    /\ member.orgs = {m.org : m \in RowsAt(part, c)} \ {Nothing}

\* What is built of some of the rows an index is flattened to: each of their cells
\* as the index has it, with the sources and orgs of those rows only.
LEMMA Rebuilt ==
    ASSUME Inv, NEW part \in SUBSET Memberships(idx), NEW ms \in SetToSeqs(part),
           NEW b, b = Build(ms)
    PROVE  /\ IsIndex(b)
           /\ \A c : c \in DOMAIN b <=> RowsAt(part, c) # {}
           /\ \A c \in DOMAIN b : c \in DOMAIN idx /\ Only(part, c, b[c])
<1>1. \A m \in part : /\ m \in Row /\ Counts(m) /\ Cell(m) \in DOMAIN idx
                      /\ m.handle = idx[Cell(m)].handle /\ m.name = idx[Cell(m)].name
  <2>1. TAKE m \in part
  <2>2. PICK i \in Counted(rows) : m = Flat(Cell(rows[i]), rows[i].source, rows[i].org)
    BY FlatRows
  <2>3. m \in Row /\ Counts(m) /\ Cell(m) = Cell(rows[i]) /\ Cell(rows[i]) \in DOMAIN idx
    BY <2>2, CountedRow, FlatType
  <2>. QED
    BY <2>2, <2>3 DEF Flat
<1>2. IsFiniteSet(part)
  BY MembershipsFinite, FS_Subset
<1>3. /\ Len(ms) \in Nat /\ ms \in Seq(part)
      /\ \A i \in 1 .. Len(ms) : ms[i] \in part
      /\ \A m \in part : \E i \in 1 .. Len(ms) : ms[i] = m
  BY <1>2, Listing
<1>4. ms \in Seq(Row)
  BY <1>1, <1>3
<1>5. IsIndex(b) /\ SupersetOf(ms, b)
  BY <1>4, BuildRight
<1>6. Counted(ms) = 1 .. Len(ms)
  BY <1>1, <1>3 DEF Counted
<1>7. \A c : c \in DOMAIN b <=> RowsAt(part, c) # {}
  BY <1>3, <1>5, <1>6 DEF SupersetOf, RowsAt
<1>8. ASSUME NEW c \in DOMAIN b
      PROVE  c \in DOMAIN idx /\ Only(part, c, b[c])
  <2>1. MemberOf(ms, c, b[c])
    BY <1>5, <1>8 DEF SupersetOf
  <2>2. \A i \in About(ms, c) : ms[i] \in RowsAt(part, c)
    BY <1>3, <1>6 DEF About, RowsAt
  <2>3. \A m \in RowsAt(part, c) : \E i \in About(ms, c) : ms[i] = m
    BY <1>3, <1>6 DEF About, RowsAt
  <2>4. \A i \in About(ms, c) : ms[i].handle = idx[c].handle /\ ms[i].name = idx[c].name
    BY <1>1, <2>2 DEF RowsAt
  <2>5. PICK f \in About(ms, c) : b[c].handle = ms[f].handle
    BY <2>1 DEF MemberOf
  <2>6. b[c].handle = idx[c].handle /\ c \in DOMAIN idx
    BY <1>1, <2>2, <2>4, <2>5 DEF RowsAt
  <2>7. b[c].name = idx[c].name
    BY <2>1, <2>4, <2>5 DEF MemberOf
  <2>8. b[c].sources = {m.source : m \in RowsAt(part, c)}
    BY <2>1, <2>2, <2>3 DEF MemberOf
  <2>9. b[c].orgs = {m.org : m \in RowsAt(part, c)} \ {Nothing}
    <3>1. {ms[i].org : i \in About(ms, c)} = {m.org : m \in RowsAt(part, c)}
      BY <2>2, <2>3
    <3>. QED
      BY <2>1, <3>1 DEF MemberOf
  <2>. QED
    BY <2>6, <2>7, <2>8, <2>9 DEF Only
<1>. QED
  BY <1>5, <1>7, <1>8

\* The rows a member is flattened to, and what they say of it.
LEMMA RowsOfCell ==
    ASSUME Inv, NEW c \in DOMAIN idx
    PROVE  LET flat == RowsAt(Memberships(idx), c) IN
           /\ flat = {Flat(c, rows[i].source, rows[i].org) : i \in About(rows, c)}
           /\ flat # {}
           /\ {m.source : m \in flat} = idx[c].sources
           /\ {m.org : m \in flat} \ {Nothing} = idx[c].orgs
           /\ \A m \in flat : m.org # Nothing <=> m.source = OrgSource
<1> DEFINE flat == RowsAt(Memberships(idx), c)
<1>1. \A i \in About(rows, c) :
        /\ i \in Counted(rows) /\ Cell(rows[i]) = c
        /\ Cell(Flat(c, rows[i].source, rows[i].org)) = c
        /\ rows[i].org # Nothing <=> rows[i].source = OrgSource
  <2>1. TAKE i \in About(rows, c)
  <2>2. i \in Counted(rows) /\ Cell(rows[i]) = c
    BY MemberOfCell
  <2>. QED
    BY <2>2, CountedRow, FlatType
<1>2. \A i \in Counted(rows) :
        Cell(Flat(Cell(rows[i]), rows[i].source, rows[i].org)) = Cell(rows[i])
  BY CountedRow, FlatType
<1>3. flat = {Flat(c, rows[i].source, rows[i].org) : i \in About(rows, c)}
  BY <1>1, <1>2, FlatRows DEF About, RowsAt
<1>4. MemberOf(rows, c, idx[c])
  BY DEF Inv, IndexIsSuperset, SupersetOf
<1>. HIDE DEF flat
<1> DEFINE at(i) == Flat(c, rows[i].source, rows[i].org)
<1>. \A i : at(i).source = rows[i].source /\ at(i).org = rows[i].org
  BY DEF Flat
<1>a. flat = {at(i) : i \in About(rows, c)}
  BY <1>3
<1>. HIDE DEF at
<1>5. {m.source : m \in flat} = {rows[i].source : i \in About(rows, c)}
  BY <1>a
<1>6. {m.org : m \in flat} = {rows[i].org : i \in About(rows, c)}
  BY <1>a
<1>7. {m.source : m \in flat} = idx[c].sources /\ {m.org : m \in flat} \ {Nothing} = idx[c].orgs
  BY <1>4, <1>5, <1>6 DEF MemberOf
<1>8. \A m \in flat : m.org # Nothing <=> m.source = OrgSource
  BY <1>1, <1>3 DEF Flat
<1>9. flat # {}
  BY <1>3, MemberOfCell
<1>. QED
  BY <1>3, <1>7, <1>8, <1>9 DEF flat

LEMMA RoundTrips ==
    ASSUME Inv, NEW ms \in SetToSeqs(Memberships(idx))
    PROVE  Build(ms) = idx
<1> DEFINE b == Build(ms)
<1>1. /\ IsIndex(b)
      /\ \A c : c \in DOMAIN b <=> RowsAt(Memberships(idx), c) # {}
      /\ \A c \in DOMAIN b : c \in DOMAIN idx /\ Only(Memberships(idx), c, b[c])
  BY Rebuilt
<1>. HIDE DEF b
<1>2. DOMAIN b = DOMAIN idx
  BY <1>1, RowsOfCell
<1>3. ASSUME NEW c \in DOMAIN idx PROVE b[c] = idx[c]
  <2>1. b[c] \in Member /\ idx[c] \in Member
    BY <1>1, <1>2, MemberOfCell DEF IsIndex
  <2>2. Only(Memberships(idx), c, b[c])
    BY <1>1, <1>2
  <2>3. b[c].sources = idx[c].sources /\ b[c].orgs = idx[c].orgs
    BY <2>2, RowsOfCell DEF Only
  <2>. QED
    BY <2>1, <2>2, <2>3 DEF Member, Only
<1>4. b = [c \in DOMAIN b |-> b[c]] /\ idx = [c \in DOMAIN idx |-> idx[c]]
  BY <1>1 DEF IsIndex, Inv, TypeOK
<1>5. b = idx
  BY <1>2, <1>3, <1>4
<1>. QED
  BY <1>5 DEF b

\* A restart that flattens an index into rows, and builds it again, has lost and
\* gained nothing, whatever the index and whatever the order of the rows.
THEOREM RoundTripHolds == Spec => []RoundTrip
<1>1. Inv => RoundTrip
  BY RoundTrips DEF RoundTrip
<1>2. TypeOK /\ IndexIsSuperset => RoundTrip
  BY <1>1 DEF Inv
<1>. QED
  BY <1>2, Right, PTL

-----------------------------------------------------------------------------
(* The order of the rows. *)

\* A member has the sources and orgs of these rows, and a name if one of them has.
Holds(ms, about, member) ==
    /\ member.sources = {ms[i].source : i \in about}
    /\ member.orgs = {ms[i].org : i \in about} \ {Nothing}
    /\ member.name = Nothing <=> \A i \in about : ms[i].name = Nothing

\* Rows picked by a listing of some of the positions: those rows, once each.
LEMMA PickedRows ==
    ASSUME NEW ms \in Seq(Row), NEW some \in SUBSET (1 .. Len(ms)), NEW p \in SetToSeqs(some),
           NEW b, b = Build(Picked(ms, p))
    PROVE  /\ \A c : c \in DOMAIN b <=> \E i \in Counted(ms) \cap some : c = Cell(ms[i])
           /\ \A c \in DOMAIN b : Holds(ms, About(ms, c) \cap some, b[c])
<1> DEFINE new == Picked(ms, p)
<1>1. IsFiniteSet(some)
  <2>1. Len(ms) \in Nat
    OBVIOUS
  <2>2. IsFiniteSet(1 .. Len(ms))
    BY <2>1, FS_Interval
  <2>. QED
    BY <2>2, FS_Subset
<1>2. /\ Len(p) \in Nat
      /\ \A i \in 1 .. Len(p) : p[i] \in some
      /\ \A x \in some : \E i \in 1 .. Len(p) : p[i] = x
  BY <1>1, Listing
<1>3. /\ new \in Seq(Row) /\ Len(new) = Len(p)
      /\ \A i \in 1 .. Len(p) : new[i] = ms[p[i]]
  <2>1. \A i \in 1 .. Len(p) : ms[p[i]] \in Row
    <3>1. \A j \in some : ms[j] \in Row
      OBVIOUS
    <3>. QED
      BY <1>2, <3>1
  <2>2. new = [i \in 1 .. Len(p) |-> ms[p[i]]]
    BY DEF Picked
  <2>. HIDE DEF new
  <2>. QED
    BY <1>2, <2>1, <2>2
<1>4. SupersetOf(new, b)
  BY <1>3, BuildRight
<1>. HIDE DEF new
<1>5. Counted(new) = {i \in 1 .. Len(p) : p[i] \in Counted(ms)}
  BY <1>2, <1>3 DEF Counted
<1>6. DOMAIN b = {Cell(ms[i]) : i \in Counted(ms) \cap some}
  <2>1. /\ \A i \in Counted(new) : p[i] \in Counted(ms) \cap some /\ new[i] = ms[p[i]]
        /\ \A j \in Counted(ms) \cap some : \E i \in Counted(new) : p[i] = j
    BY <1>2, <1>3, <1>5
  <2>2. {Cell(new[i]) : i \in Counted(new)} = {Cell(ms[i]) : i \in Counted(ms) \cap some}
    BY <2>1
  <2>. QED
    BY <1>4, <2>2 DEF SupersetOf
<1>7. ASSUME NEW c \in DOMAIN b
      PROVE  Holds(ms, About(ms, c) \cap some, b[c])
  <2> DEFINE about == About(ms, c) \cap some
  <2>1. MemberOf(new, c, b[c])
    BY <1>4, <1>7 DEF SupersetOf
  <2>2. /\ \A i \in About(new, c) : p[i] \in about /\ new[i] = ms[p[i]]
        /\ \A j \in about : \E i \in About(new, c) : p[i] = j
    BY <1>2, <1>3, <1>5 DEF About
  <2>. HIDE DEF about
  <2>3. b[c].sources = {ms[i].source : i \in about}
    BY <2>1, <2>2 DEF MemberOf
  <2>4. {new[i].org : i \in About(new, c)} = {ms[i].org : i \in about}
    BY <2>2
  <2>5. b[c].orgs = {ms[i].org : i \in about} \ {Nothing}
    BY <2>1, <2>4 DEF MemberOf
  <2>6. b[c].name = Nothing <=> \A i \in About(new, c) : new[i].name = Nothing
    BY <2>1 DEF MemberOf
  <2>7. b[c].name = Nothing <=> \A i \in about : ms[i].name = Nothing
    BY <2>2, <2>6
  <2>. QED
    BY <2>3, <2>5, <2>7 DEF Holds, about
<1>. QED
  BY <1>6, <1>7

LEMMA AnyOrder ==
    ASSUME Inv, NEW p \in SetToSeqs(1 .. Len(rows))
    PROVE  LET other == Build(Picked(rows, p))
           IN  /\ DOMAIN other = DOMAIN idx
               /\ \A c \in DOMAIN idx :
                    /\ other[c].sources = idx[c].sources
                    /\ other[c].orgs = idx[c].orgs
                    /\ other[c].name = Nothing <=> idx[c].name = Nothing
<1> DEFINE b == Build(Picked(rows, p))
           all == 1 .. Len(rows)
<1>1. rows \in Seq(Row)
  BY IndexAssumption DEF Inv, TypeOK
<1>2. Counted(rows) \cap all = Counted(rows) /\ \A c : About(rows, c) \cap all = About(rows, c)
  BY DEF Counted, About
<1>3. /\ \A c : c \in DOMAIN b <=> \E i \in Counted(rows) \cap all : c = Cell(rows[i])
      /\ \A c \in DOMAIN b : Holds(rows, About(rows, c) \cap all, b[c])
  <2>1. all \in SUBSET (1 .. Len(rows)) /\ p \in SetToSeqs(all)
    OBVIOUS
  <2>. HIDE DEF all
  <2>. QED
    BY <1>1, <2>1, PickedRows
<1>. HIDE DEF b, all
<1>4. DOMAIN b = DOMAIN idx
  BY <1>2, <1>3 DEF Inv, IndexIsSuperset, SupersetOf
<1>5. ASSUME NEW c \in DOMAIN idx
      PROVE  /\ b[c].sources = idx[c].sources
             /\ b[c].orgs = idx[c].orgs
             /\ b[c].name = Nothing <=> idx[c].name = Nothing
  <2>1. MemberOf(rows, c, idx[c])
    BY DEF Inv, IndexIsSuperset, SupersetOf
  <2>2. Holds(rows, About(rows, c), b[c])
    BY <1>2, <1>3, <1>4
  <2>. QED
    BY <2>1, <2>2 DEF MemberOf, Holds
<1>. QED
  BY <1>4, <1>5 DEF b

\* However the goroutines of a sync interleave their rows, the index differs in
\* display casing and name only.
THEOREM OrderShowsOnlyInDisplayHolds == Spec => []OrderShowsOnlyInDisplay
<1>1. Inv => OrderShowsOnlyInDisplay
  BY AnyOrder DEF OrderShowsOnlyInDisplay
<1>2. TypeOK /\ IndexIsSuperset => OrderShowsOnlyInDisplay
  BY <1>1 DEF Inv
<1>. QED
  BY <1>2, Right, PTL

-----------------------------------------------------------------------------
(* Users. *)

LEMMA UsersLoop ==
    ASSUME NEW index, Len(SlugOrder) \in Nat
    PROVE  \E f : /\ f = [n \in 0 .. Len(SlugOrder) |->
                            IF n = 0 THEN Empty ELSE AddTeam(index, f[n - 1], SlugOrder[n])]
                  /\ Users(index) = f[Len(SlugOrder)]
<1> DEFINE N == Len(SlugOrder)
           Loop(f, n) ==
               f = [k \in 0 .. n |-> IF k = 0 THEN Empty ELSE AddTeam(index, f[k - 1], SlugOrder[k])]
           S == {n \in 0 .. N : \E f : Loop(f, n)}
<1>1. N \in Nat
  OBVIOUS
<1>2. 0 \in S
  <2>. DEFINE f == [k \in 0 .. 0 |-> Empty]
  <2>1. Loop(f, 0)
    OBVIOUS
  <2>. HIDE DEF f, Loop
  <2>. QED
    BY <1>1, <2>1
<1>3. ASSUME NEW n \in 0 .. N, n < N, n \in S PROVE n + 1 \in S
  <2>1. PICK f : Loop(f, n)
    BY <1>3
  <2>. DEFINE g == [k \in 0 .. n + 1 |->
                        IF k = n + 1 THEN AddTeam(index, f[n], SlugOrder[n + 1]) ELSE f[k]]
  <2>2. Loop(g, n + 1)
    <3>1. ASSUME NEW k \in 0 .. n + 1
          PROVE  g[k] = IF k = 0 THEN Empty ELSE AddTeam(index, g[k - 1], SlugOrder[k])
      <4>1. CASE k = n + 1
        BY <4>1, <1>1
      <4>2. CASE k # n + 1
        <5>1. k \in 0 .. n /\ g[k] = f[k]
          BY <4>2, <1>1
        <5>2. f[k] = IF k = 0 THEN Empty ELSE AddTeam(index, f[k - 1], SlugOrder[k])
          BY <2>1, <5>1
        <5>3. k # 0 => g[k - 1] = f[k - 1]
          BY <5>1, <1>1
        <5>. QED
          BY <5>1, <5>2, <5>3
      <4>. QED
        BY <4>1, <4>2
    <3>. QED
      BY <3>1
  <2>3. n + 1 \in 0 .. N
    BY <1>1, <1>3
  <2>. QED
    BY <2>2, <2>3
<1>4. N \in S
  <2>1. \A n \in 0 .. N : (n < N /\ n \in S) => n + 1 \in S
    BY <1>3
  <2>. HIDE DEF S, N
  <2>2. \A n \in 0 .. N : n \in S
    BY <1>1, <1>2, <2>1, CountingUp
  <2>. QED
    BY <1>1, <2>2
<1>. DEFINE upTo == CHOOSE g : Loop(g, N)
<1>6. Loop(upTo, N)
  BY <1>4
<1>7. Users(index) = upTo[N]
  BY DEF Users
<1>. QED
  BY <1>6, <1>7

\* The positions of a person's teams among the first n slugs.
First(index, k, n) == {i \in TeamsOf(index, k) : i <= n}

\* The people met in the first n slugs.
Met(index, people, n) ==
    /\ DOMAIN people = {k \in Keys : First(index, k, n) # {}}
    /\ \A k \in DOMAIN people : PersonOf(index, k, First(index, k, n), people[k])

LEMMA Slugged ==
    /\ Len(SlugOrder) \in Nat
    /\ \A i \in 1 .. Len(SlugOrder) : SlugOrder[i] \in Slugs
    /\ \A t \in Slugs : \E i \in 1 .. Len(SlugOrder) : SlugOrder[i] = t
BY IndexAssumption, Listing

\* Positions and the slugs at them.
LEMMA FirstNext ==
    ASSUME NEW index, NEW k, NEW n \in 0 .. Len(SlugOrder), n < Len(SlugOrder)
    PROVE  /\ First(index, k, n + 1) = First(index, k, n) \cup
                                       {i \in {n + 1} : <<SlugOrder[n + 1], k>> \in DOMAIN index}
           /\ \A i \in First(index, k, n) : i <= n + 1
<1>1. Len(SlugOrder) \in Nat
  BY Slugged
<1>2. \A i \in 1 .. Len(SlugOrder) : i <= n + 1 <=> i <= n \/ i = n + 1
  BY <1>1
<1>3. n + 1 \in 1 .. Len(SlugOrder)
  BY <1>1
<1>4. First(index, k, n + 1) = First(index, k, n) \cup
                               {i \in {n + 1} : <<SlugOrder[n + 1], k>> \in DOMAIN index}
  BY <1>2, <1>3 DEF First, TeamsOf
<1>5. \A i \in First(index, k, n) : i <= n + 1
  BY <1>1, <1>2 DEF First, TeamsOf
<1>. QED
  BY <1>4, <1>5

\* A person met for the first time, in the slug after the first n.
LEMMA MetFirst ==
    ASSUME NEW index, NEW k, NEW i, i <= i,
           NEW u, NEW member, member = index[<<SlugOrder[i], k>>],
           u.handle = member.handle, u.name = member.name,
           u.teams = {SlugOrder[i]}, u.sources = member.sources, u.orgs = member.orgs
    PROVE  PersonOf(index, k, {i}, u)
<1>1. UNION {index[<<SlugOrder[j], k>>].sources : j \in {i}} = member.sources
  OBVIOUS
<1>2. UNION {index[<<SlugOrder[j], k>>].orgs : j \in {i}} = member.orgs
  OBVIOUS
<1>. QED
  BY <1>1, <1>2 DEF PersonOf

\* A person met before, and again at a later position.
LEMMA MetAgain ==
    ASSUME NEW index, NEW k, NEW ts, NEW i, i <= i, \A j \in ts : j <= i,
           NEW old, PersonOf(index, k, ts, old),
           NEW u, NEW member, member = index[<<SlugOrder[i], k>>],
           u.handle = old.handle, u.name = NameFilled(old, member),
           u.teams = old.teams \cup {SlugOrder[i]}, u.sources = old.sources \cup member.sources,
           u.orgs = old.orgs \cup member.orgs
    PROVE  PersonOf(index, k, ts \cup {i}, u)
<1> DEFINE at(j) == index[<<SlugOrder[j], k>>]
           new == ts \cup {i}
<1>1. /\ old.teams = {SlugOrder[j] : j \in ts}
      /\ old.sources = UNION {at(j).sources : j \in ts}
      /\ old.orgs = UNION {at(j).orgs : j \in ts}
  BY DEF PersonOf
<1>2. PICK f \in ts : old.handle = at(f).handle /\ \A j \in ts : f <= j
  BY DEF PersonOf
<1>3. \/ old.name = Nothing /\ \A j \in ts : at(j).name = Nothing
      \/ \E g \in ts : /\ old.name = at(g).name /\ at(g).name # Nothing
                       /\ \A j \in ts : at(j).name # Nothing => g <= j
  BY DEF PersonOf
<1>4. member = at(i)
  OBVIOUS
<1>. HIDE DEF at
<1>5. u.teams = {SlugOrder[j] : j \in new}
  BY <1>1
<1>6. u.sources = UNION {at(j).sources : j \in new}
  BY <1>1, <1>4
<1>7. u.orgs = UNION {at(j).orgs : j \in new}
  BY <1>1, <1>4
<1>8. f \in new /\ u.handle = at(f).handle /\ \A j \in new : f <= j
  BY <1>2
<1>9. \/ u.name = Nothing /\ \A j \in new : at(j).name = Nothing
      \/ \E g \in new : /\ u.name = at(g).name /\ at(g).name # Nothing
                        /\ \A j \in new : at(j).name # Nothing => g <= j
  <2>1. CASE old.name = Nothing
    <3>1. \A j \in ts : at(j).name = Nothing
      BY <1>3, <2>1
    <3>2. u.name = at(i).name
      BY <1>4, <2>1 DEF NameFilled
    <3>. QED
      BY <3>1, <3>2
  <2>2. CASE old.name # Nothing
    <3>1. u.name = old.name
      BY <2>2 DEF NameFilled
    <3>2. PICK g \in ts : /\ old.name = at(g).name /\ at(g).name # Nothing
                          /\ \A j \in ts : at(j).name # Nothing => g <= j
      BY <1>3, <2>2
    <3>. QED
      BY <3>1, <3>2
  <2>. QED
    BY <2>1, <2>2
<1>. QED
  BY <1>5, <1>6, <1>7, <1>8, <1>9 DEF PersonOf, at

\* One turn of the loop in Users.
LEMMA TeamAdded ==
    ASSUME NEW index, IsIndex(index), NEW n \in 0 .. Len(SlugOrder), n < Len(SlugOrder),
           NEW people, Met(index, people, n)
    PROVE  Met(index, AddTeam(index, people, SlugOrder[n + 1]), n + 1)
<1> DEFINE i == n + 1
           slug == SlugOrder[i]
           here == {k \in Keys : <<slug, k>> \in DOMAIN index}
           new == AddTeam(index, people, slug)
<1>1. \A k : First(index, k, i) = First(index, k, n) \cup
                                  {j \in {i} : <<slug, k>> \in DOMAIN index}
  BY FirstNext
<1>2. \A k : \A j \in First(index, k, n) : j <= i
  BY FirstNext
<1>3. DOMAIN new = DOMAIN people \cup here
  BY DEF AddTeam
<1>4. DOMAIN new = {k \in Keys : First(index, k, i) # {}}
  BY <1>1, <1>3 DEF Met
<1>5. i <= i
  BY Slugged
<1>6. ASSUME NEW k \in DOMAIN new
      PROVE  PersonOf(index, k, First(index, k, i), new[k])
  <2> DEFINE member == index[<<slug, k>>]
             ts == First(index, k, n)
  <2>1. CASE k \notin here
    <3>1. k \in DOMAIN people /\ new[k] = people[k]
      BY <1>3, <2>1 DEF AddTeam
    <3>2. First(index, k, i) = ts
      BY <1>1, <1>4, <2>1
    <3>. QED
      BY <3>1, <3>2 DEF Met
  <2>2. CASE k \in here /\ k \in DOMAIN people
    <3>1. /\ new[k].handle = people[k].handle
          /\ new[k].name = NameFilled(people[k], member)
          /\ new[k].teams = people[k].teams \cup {slug}
          /\ new[k].sources = people[k].sources \cup member.sources
          /\ new[k].orgs = people[k].orgs \cup member.orgs
      BY <2>2 DEF AddTeam
    <3>2. First(index, k, i) = ts \cup {i}
      BY <1>1, <2>2
    <3>3. PersonOf(index, k, ts, people[k])
      BY <2>2 DEF Met
    <3>4. \A j \in ts : j <= i
      BY <1>2
    <3>5. member = index[<<SlugOrder[i], k>>]
      OBVIOUS
    <3>. HIDE DEF i, new, ts, member
    <3>6. PersonOf(index, k, ts \cup {i}, new[k])
      BY <1>5, <3>1, <3>3, <3>4, <3>5, MetAgain
    <3>. QED
      BY <3>2, <3>6
  <2>3. CASE k \in here /\ k \notin DOMAIN people
    <3>1. /\ new[k].handle = member.handle
          /\ new[k].name = member.name
          /\ new[k].teams = {slug}
          /\ new[k].sources = member.sources
          /\ new[k].orgs = member.orgs
      BY <2>3 DEF AddTeam, NameFilled
    <3>2. First(index, k, i) = {i}
      BY <1>1, <2>3 DEF Met
    <3>3. member = index[<<SlugOrder[i], k>>]
      OBVIOUS
    <3>. HIDE DEF i, new, member
    <3>. QED
      BY <1>5, <3>1, <3>2, <3>3, MetFirst
  <2>. QED
    BY <1>3, <2>1, <2>2, <2>3
<1>. QED
  BY <1>4, <1>6 DEF Met

\* Users, of any index.
LEMMA UsersRight ==
    ASSUME NEW index, IsIndex(index)
    PROVE  /\ DOMAIN Users(index) = {c[2] : c \in DOMAIN index}
           /\ \A k \in DOMAIN Users(index) :
                /\ PersonOf(index, k, TeamsOf(index, k), Users(index)[k])
                /\ Users(index)[k].teams = Lookup(index, k)
<1> DEFINE N == Len(SlugOrder)
           people == Users(index)
<1>1. N \in Nat
  BY Slugged
<1>2. PICK f : /\ f = [n \in 0 .. N |->
                        IF n = 0 THEN Empty ELSE AddTeam(index, f[n - 1], SlugOrder[n])]
               /\ people = f[N]
  BY <1>1, UsersLoop
<1> DEFINE S == {n \in 0 .. N : Met(index, f[n], n)}
<1>3. 0 \in S
  <2>1. f[0] = Empty
    BY <1>1, <1>2
  <2>2. \A k : First(index, k, 0) = {}
    BY <1>1 DEF First, TeamsOf
  <2>3. Met(index, Empty, 0)
    BY <2>2 DEF Met, Empty
  <2>. QED
    BY <1>1, <2>1, <2>3
<1>4. ASSUME NEW n \in 0 .. N, n < N, n \in S PROVE n + 1 \in S
  <2>1. n + 1 \in 1 .. N
    BY <1>1, <1>4
  <2>2. f[n + 1] = AddTeam(index, f[n], SlugOrder[n + 1])
    BY <1>1, <1>2, <2>1
  <2>3. Met(index, f[n], n)
    BY <1>4
  <2>4. Met(index, f[n + 1], n + 1)
    BY <1>4, <2>2, <2>3, TeamAdded
  <2>. QED
    BY <2>1, <2>4
<1>5. N \in S
  <2>1. \A n \in 0 .. N : (n < N /\ n \in S) => n + 1 \in S
    BY <1>4
  <2>. HIDE DEF S, N
  <2>2. \A n \in 0 .. N : n \in S
    BY <1>1, <1>3, <2>1, CountingUp
  <2>. QED
    BY <1>1, <2>2
<1>6. Met(index, people, N)
  BY <1>2, <1>5
<1>7. \A k : First(index, k, N) = TeamsOf(index, k)
  BY <1>1 DEF First, TeamsOf
<1>8. \A k : {SlugOrder[i] : i \in TeamsOf(index, k)} = Lookup(index, k)
  BY Slugged DEF TeamsOf, Lookup
<1>. HIDE DEF people, S, N
<1>9. DOMAIN people = {c[2] : c \in DOMAIN index}
  <2>1. \A c \in DOMAIN index : c = <<c[1], c[2]>> /\ c[1] \in Slugs /\ c[2] \in Keys
    BY DEF IsIndex
  <2>2. \A k : k \in DOMAIN people <=> k \in Keys /\ TeamsOf(index, k) # {}
    BY <1>6, <1>7 DEF Met
  <2>3. \A k : TeamsOf(index, k) # {} <=> \E t \in Slugs : <<t, k>> \in DOMAIN index
    BY Slugged DEF TeamsOf
  <2>4. \A k : k \in DOMAIN people <=> \E c \in DOMAIN index : k = c[2]
    <3>1. ASSUME NEW k, k \in DOMAIN people PROVE \E c \in DOMAIN index : k = c[2]
      <4>1. PICK t \in Slugs : <<t, k>> \in DOMAIN index
        BY <3>1, <2>2, <2>3
      <4>2. k = <<t, k>>[2]
        OBVIOUS
      <4>. QED
        BY <4>1, <4>2
    <3>2. ASSUME NEW c \in DOMAIN index PROVE c[2] \in DOMAIN people
      BY <2>1, <2>2, <2>3
    <3>. QED
      BY <3>1, <3>2
  <2>. QED
    BY <2>4
<1>10. ASSUME NEW k \in DOMAIN people
       PROVE  /\ PersonOf(index, k, TeamsOf(index, k), people[k])
              /\ people[k].teams = Lookup(index, k)
  <2>1. PersonOf(index, k, TeamsOf(index, k), people[k])
    BY <1>6, <1>7 DEF Met
  <2>2. people[k].teams = {SlugOrder[i] : i \in TeamsOf(index, k)}
    BY <2>1 DEF PersonOf
  <2>. QED
    BY <1>8, <2>1, <2>2
<1>. QED
  BY <1>9, <1>10 DEF people

\* The people of any index: everyone on a team, with all their teams, the sources and
\* orgs of those, and the casing and name of the first in slug order.
THEOREM UsersFoldTeamsHolds == Spec => []UsersFoldTeams
<1>1. TypeOK => UsersFoldTeams
  BY UsersRight DEF TypeOK, UsersFoldTeams
<1>. QED
  BY <1>1, Right, PTL

-----------------------------------------------------------------------------
(* One source's part of an index. *)

Part(s) == {c \in DOMAIN idx : s \in idx[c].sources}

LEMMA PartOfMembers ==
    ASSUME NEW s \in Sources, Inv
    PROVE  /\ UNION {Members(idx, t, s) : t \in Slugs} = Part(s)
           /\ \A t \in Slugs : CountBySource(idx, t)[s] = Cardinality(Members(idx, t, s))
<1>1. s # Nothing
  BY IndexAssumption
<1>2. \A c \in DOMAIN idx : c[1] \in Slugs
  BY MemberOfCell
<1>3. \A t : Members(idx, t, s) = {c \in DOMAIN idx : c[1] = t /\ s \in idx[c].sources}
  BY <1>1 DEF Members, ComesFrom
<1>4. UNION {Members(idx, t, s) : t \in Slugs} = Part(s)
  BY <1>2, <1>3 DEF Part
<1>5. \A t : Members(idx, t, s) = {c \in Members(idx, t, Nothing) : s \in idx[c].sources}
  BY <1>3 DEF Members, ComesFrom
<1>6. \A t \in Slugs : CountBySource(idx, t)[s] = Cardinality(Members(idx, t, s))
  BY <1>5 DEF CountBySource
<1>. QED
  BY <1>4, <1>6

LEMMA UsersOfSource ==
    ASSUME NEW s \in Sources, Inv
    PROVE  AllUsers(Users(idx), s, Nothing) = {c[2] : c \in Part(s)}
<1> DEFINE people == Users(idx)
<1>1. IsIndex(idx) /\ s # Nothing
  BY IndexAssumption DEF Inv, TypeOK
<1>2. /\ DOMAIN people = {c[2] : c \in DOMAIN idx}
      /\ \A k \in DOMAIN people : PersonOf(idx, k, TeamsOf(idx, k), people[k])
  BY <1>1, UsersRight
<1>. HIDE DEF people
<1>3. \A k \in DOMAIN people :
        people[k].sources = UNION {idx[<<SlugOrder[i], k>>].sources : i \in TeamsOf(idx, k)}
  BY <1>2 DEF PersonOf
<1>4. AllUsers(people, s, Nothing) = {k \in DOMAIN people : s \in people[k].sources}
  BY <1>1 DEF AllUsers, ComesFrom
<1>5. \A c \in DOMAIN idx : c = <<c[1], c[2]>> /\ c[1] \in Slugs
  BY MemberOfCell
<1>6. ASSUME NEW k \in DOMAIN people, s \in people[k].sources
      PROVE  \E c \in Part(s) : k = c[2]
  <2>1. PICK i \in TeamsOf(idx, k) : s \in idx[<<SlugOrder[i], k>>].sources
    BY <1>3, <1>6
  <2>2. <<SlugOrder[i], k>> \in Part(s)
    BY <2>1 DEF TeamsOf, Part
  <2>3. k = <<SlugOrder[i], k>>[2]
    OBVIOUS
  <2>. QED
    BY <2>2, <2>3
<1>7. ASSUME NEW c \in Part(s)
      PROVE  c[2] \in DOMAIN people /\ s \in people[c[2]].sources
  <2>1. c \in DOMAIN idx /\ s \in idx[c].sources /\ c = <<c[1], c[2]>> /\ c[1] \in Slugs
    BY <1>5 DEF Part
  <2>2. c[2] \in DOMAIN people
    BY <1>2, <2>1
  <2>3. PICK i \in 1 .. Len(SlugOrder) : SlugOrder[i] = c[1]
    BY <2>1, Slugged
  <2>4. i \in TeamsOf(idx, c[2]) /\ idx[<<SlugOrder[i], c[2]>>] = idx[c]
    BY <2>1, <2>3 DEF TeamsOf
  <2>. QED
    BY <1>3, <2>1, <2>2, <2>4
<1>8. AllUsers(people, s, Nothing) = {c[2] : c \in Part(s)}
  BY <1>4, <1>6, <1>7
<1>. QED
  BY <1>8 DEF people

LEMMA UsersOfKind ==
    ASSUME Inv, NEW kind, kind # Nothing
    PROVE  AllUsers(Users(idx), Nothing, kind) = {c[2] : c \in {d \in DOMAIN idx : KindOf[d[1]] = kind}}
<1> DEFINE people == Users(idx)
           of == {d \in DOMAIN idx : KindOf[d[1]] = kind}
<1>1. IsIndex(idx)
  BY DEF Inv, TypeOK
<1>2. /\ DOMAIN people = {c[2] : c \in DOMAIN idx}
      /\ \A k \in DOMAIN people : people[k].teams = Lookup(idx, k)
  BY <1>1, UsersRight
<1>. HIDE DEF people
<1>3. AllUsers(people, Nothing, kind) =
        {k \in DOMAIN people : \E t \in people[k].teams : KindOf[t] = kind}
  BY DEF AllUsers, ComesFrom
<1>4. ASSUME NEW k \in DOMAIN people, NEW t \in people[k].teams, KindOf[t] = kind
      PROVE  \E c \in of : k = c[2]
  <2>1. <<t, k>> \in of /\ k = <<t, k>>[2]
    BY <1>2, <1>4 DEF Lookup
  <2>. QED
    BY <2>1
<1>5. ASSUME NEW c \in of
      PROVE  c[2] \in DOMAIN people /\ \E t \in people[c[2]].teams : KindOf[t] = kind
  <2>1. c \in DOMAIN idx /\ c = <<c[1], c[2]>> /\ c[1] \in Slugs
    BY MemberOfCell
  <2>2. c[1] \in Lookup(idx, c[2])
    BY <2>1 DEF Lookup
  <2>. QED
    BY <1>2, <2>1, <2>2
<1>6. AllUsers(people, Nothing, kind) = {c[2] : c \in of}
  BY <1>3, <1>4, <1>5
<1>. QED
  BY <1>6 DEF people

\* What restoreLastGood builds for one source.
LEMMA RestoredPart ==
    ASSUME Inv, NEW s \in Sources, NEW ms \in SetToSeqs(RowsFrom(s)), NEW b, b = Build(ms)
    PROVE  /\ DOMAIN b = Part(s)
           /\ \A c \in Part(s) :
                /\ b[c].sources = {s}
                /\ b[c].orgs = IF s = OrgSource THEN idx[c].orgs ELSE {}
<1> DEFINE mine == RowsFrom(s)
           of(c) == RowsAt(Memberships(idx), c)
           its(c) == RowsAt(mine, c)
<1>1. /\ \A c : c \in DOMAIN b <=> its(c) # {}
      /\ \A c \in DOMAIN b : c \in DOMAIN idx /\ Only(mine, c, b[c])
  <2>1. mine \in SUBSET Memberships(idx) /\ ms \in SetToSeqs(mine)
    BY DEF RowsFrom
  <2>. HIDE DEF mine
  <2>. QED
    BY <2>1, Rebuilt
<1>2. \A c \in DOMAIN idx :
        /\ {m.source : m \in of(c)} = idx[c].sources
        /\ {m.org : m \in of(c)} \ {Nothing} = idx[c].orgs
        /\ \A m \in of(c) : m.org # Nothing <=> m.source = OrgSource
  BY RowsOfCell
<1>3. \A c : its(c) = {m \in of(c) : m.source = s}
  BY DEF RowsFrom, RowsAt
<1>4. \A c \in DOMAIN b : /\ b[c].sources = {m.source : m \in its(c)}
                          /\ b[c].orgs = {m.org : m \in its(c)} \ {Nothing}
  BY <1>1 DEF Only
<1>. HIDE DEF of, its
<1>6. DOMAIN b = Part(s)
  <2>1. \A c \in DOMAIN idx : its(c) # {} <=> s \in idx[c].sources
    BY <1>2, <1>3
  <2>. QED
    BY <1>1, <2>1 DEF Part
<1>7. ASSUME NEW c \in Part(s)
      PROVE  /\ b[c].sources = {s}
             /\ b[c].orgs = IF s = OrgSource THEN idx[c].orgs ELSE {}
  <2>1. c \in DOMAIN b /\ c \in DOMAIN idx /\ its(c) # {}
    BY <1>1, <1>6
  <2>2. b[c].sources = {s}
    BY <1>3, <1>4, <2>1
  <2>3. CASE s = OrgSource
    <3>1. {m.org : m \in its(c)} \ {Nothing} = {m.org : m \in of(c)} \ {Nothing}
      BY <1>2, <1>3, <2>1, <2>3
    <3>. QED
      BY <1>2, <1>4, <2>1, <2>2, <2>3, <3>1
  <2>4. CASE s # OrgSource
    <3>1. \A m \in its(c) : m.org = Nothing
      BY <1>2, <1>3, <2>1, <2>4
    <3>. QED
      BY <1>4, <2>1, <2>2, <2>4, <3>1
  <2>. QED
    BY <2>3, <2>4
<1>. QED
  BY <1>6, <1>7

\* The filters of the API, the counts per source and what a restart restores agree on
\* what a source has in an index, for every index.
THEOREM ViewsOfASourceAgreeHolds == Spec => []ViewsOfASourceAgree
<1>1. ASSUME Inv PROVE ViewsOfASourceAgree
  <2>1. ASSUME NEW s \in Sources
        PROVE  LET part == UNION {Members(idx, t, s) : t \in Slugs}
               IN  /\ AllUsers(Users(idx), s, Nothing) = {c[2] : c \in part}
                   /\ \A t \in Slugs : CountBySource(idx, t)[s] = Cardinality(Members(idx, t, s))
                   /\ \A ms \in SetToSeqs(RowsFrom(s)) :
                        /\ DOMAIN Build(ms) = part
                        /\ \A c \in part :
                            /\ Build(ms)[c].sources = {s}
                            /\ Build(ms)[c].orgs = IF s = OrgSource THEN idx[c].orgs ELSE {}
    <3>1. UNION {Members(idx, t, s) : t \in Slugs} = Part(s)
      BY <1>1, PartOfMembers
    <3>2. \A t \in Slugs : CountBySource(idx, t)[s] = Cardinality(Members(idx, t, s))
      BY <1>1, PartOfMembers
    <3>3. AllUsers(Users(idx), s, Nothing) = {c[2] : c \in Part(s)}
      BY <1>1, UsersOfSource
    <3>4. \A ms \in SetToSeqs(RowsFrom(s)) :
            /\ DOMAIN Build(ms) = Part(s)
            /\ \A c \in Part(s) :
                /\ Build(ms)[c].sources = {s}
                /\ Build(ms)[c].orgs = IF s = OrgSource THEN idx[c].orgs ELSE {}
      BY <1>1, RestoredPart
    <3>. QED
      BY <3>1, <3>2, <3>3, <3>4
  <2>2. ASSUME NEW kind \in {KindOf[t] : t \in Slugs} \ {Nothing}
        PROVE  AllUsers(Users(idx), Nothing, kind) =
                   {c[2] : c \in {d \in DOMAIN idx : KindOf[d[1]] = kind}}
    BY <1>1, UsersOfKind
  <2>. QED
    BY <2>1, <2>2 DEF ViewsOfASourceAgree
<1>2. TypeOK /\ IndexIsSuperset => ViewsOfASourceAgree
  BY <1>1 DEF Inv
<1>. QED
  BY <1>2, Right, PTL

-----------------------------------------------------------------------------
(* Sets of memberships in the place of indexes. *)

\* The membership that a cell and a source stand for.
Entry(c, s) == [handle |-> c[2], team |-> c[1], source |-> s]

LEMMA Entries ==
    ASSUME NEW index
    PROVE  \A m : m \in SetOf(index) <=>
                      \E c \in DOMAIN index : \E s \in index[c].sources : m = Entry(c, s)
BY DEF SetOf, Entry

\* Memberships of cells are different when their cells or sources are.
LEMMA EntryOf ==
    ASSUME NEW c, NEW s
    PROVE  Entry(c, s).handle = c[2] /\ Entry(c, s).team = c[1] /\ Entry(c, s).source = s
BY DEF Entry

LEMMA SetOfRowsRight == ASSUME Inv PROVE SetOf(idx) = SetOfRows(rows)
<1>1. ASSUME NEW m \in SetOf(idx)
      PROVE  m \in SetOfRows(rows)
  <2>1. PICK c \in DOMAIN idx : \E s \in idx[c].sources : m = Entry(c, s)
    BY <1>1, Entries
  <2>2. PICK s \in idx[c].sources : m = Entry(c, s)
    BY <2>1
  <2>3. PICK i \in About(rows, c) : rows[i].source = s
    BY MemberOfCell
  <2>4. i \in Counted(rows) /\ c = <<rows[i].team, Lower[rows[i].handle]>>
    BY MemberOfCell DEF Cell
  <2>5. m = [handle |-> Lower[rows[i].handle], team |-> rows[i].team, source |-> rows[i].source]
    BY <2>2, <2>3, <2>4 DEF Entry
  <2>. QED
    BY <2>4, <2>5 DEF SetOfRows
<1>2. ASSUME NEW i \in Counted(rows)
      PROVE  [handle |-> Lower[rows[i].handle], team |-> rows[i].team, source |-> rows[i].source]
                 \in SetOf(idx)
  <2> DEFINE c == Cell(rows[i])
  <2>1. /\ c \in DOMAIN idx /\ c = <<rows[i].team, Lower[rows[i].handle]>>
        /\ rows[i].source \in idx[c].sources
    BY CountedRow
  <2>. HIDE DEF c
  <2>2. Entry(c, rows[i].source) \in SetOf(idx)
    BY <2>1, Entries
  <2>. QED
    BY <2>1, <2>2 DEF Entry
<1>. QED
  BY <1>1, <1>2 DEF SetOfRows

LEMMA SetOfEmpty == ASSUME Inv PROVE SetOf(idx) = {} <=> idx = Empty
<1>1. \A c \in DOMAIN idx : idx[c].sources # {}
  <2>1. TAKE c \in DOMAIN idx
  <2>2. PICK i \in About(rows, c) : i \in Counted(rows) /\ Cell(rows[i]) = c
    BY MemberOfCell
  <2>3. rows[i].source \in idx[c].sources
    BY <2>2, CountedRow
  <2>. QED
    BY <2>3
<1>2. SetOf(idx) = {} <=> DOMAIN idx = {}
  <2>1. ASSUME NEW c \in DOMAIN idx PROVE SetOf(idx) # {}
    <3>1. PICK s : s \in idx[c].sources
      BY <1>1
    <3>2. Entry(c, s) \in SetOf(idx)
      BY <3>1, Entries
    <3>. QED
      BY <3>2
  <2>2. ASSUME NEW m \in SetOf(idx) PROVE DOMAIN idx # {}
    BY Entries
  <2>. QED
    BY <2>1, <2>2
<1>3. idx = [c \in DOMAIN idx |-> idx[c]]
  BY DEF Inv, TypeOK, IsIndex
<1>4. DOMAIN idx = {} => idx = Empty
  BY <1>3 DEF Empty
<1>5. idx = Empty => DOMAIN idx = {}
  BY DEF Empty
<1>. QED
  BY <1>2, <1>4, <1>5

LEMMA SetOfPart ==
    ASSUME Inv, NEW s \in Sources, NEW ms \in SetToSeqs(RowsFrom(s))
    PROVE  SetOf(Build(ms)) = {m \in SetOf(idx) : m.source = s}
<1> DEFINE b == Build(ms)
<1>1. DOMAIN b = Part(s) /\ \A c \in Part(s) : b[c].sources = {s}
  BY RestoredPart
<1>. HIDE DEF b
<1>2. \A m : m \in SetOf(b) <=> \E c \in Part(s) : m = Entry(c, s)
  BY <1>1, Entries
<1>3. \A m : m \in SetOf(idx) /\ m.source = s <=> \E c \in Part(s) : m = Entry(c, s)
  BY Entries, EntryOf DEF Part
<1>4. SetOf(b) = {m \in SetOf(idx) : m.source = s}
  BY <1>2, <1>3
<1>. QED
  BY <1>4 DEF b

LEMMA SetOfKept ==
    ASSUME Inv, NEW exclude \in SUBSET Keys,
           NEW p \in SetToSeqs({i \in 1 .. Len(rows) : ~Excluded(rows[i], exclude)})
    PROVE  SetOf(Build(Picked(rows, p))) = {m \in SetOf(idx) : m.handle \notin exclude}
<1> DEFINE b == Build(Picked(rows, p))
           kept == {i \in 1 .. Len(rows) : ~Excluded(rows[i], exclude)}
<1>1. rows \in Seq(Row)
  BY IndexAssumption DEF Inv, TypeOK
<1>2. /\ \A c : c \in DOMAIN b <=> \E i \in Counted(rows) \cap kept : c = Cell(rows[i])
      /\ \A c \in DOMAIN b : Holds(rows, About(rows, c) \cap kept, b[c])
  <2>1. kept \in SUBSET (1 .. Len(rows)) /\ p \in SetToSeqs(kept)
    OBVIOUS
  <2>. HIDE DEF kept
  <2>. QED
    BY <1>1, <2>1, PickedRows
<1>3. \A i \in Counted(rows) : i \in kept <=> Cell(rows[i])[2] \notin exclude
  BY DEF Counted, Counts, Excluded, Cell
<1>4. \A i \in Counted(rows) : Cell(rows[i]) \in DOMAIN idx /\ i \in About(rows, Cell(rows[i]))
  BY CountedRow
<1>. HIDE DEF b, kept
<1>5. \A c : c \in DOMAIN b <=> c \in DOMAIN idx /\ c[2] \notin exclude
  <2>1. ASSUME NEW c \in DOMAIN idx PROVE \E i \in Counted(rows) : c = Cell(rows[i])
    BY MemberOfCell
  <2>. QED
    BY <1>2, <1>3, <1>4, <2>1
<1>6. ASSUME NEW c \in DOMAIN b
      PROVE  b[c].sources = idx[c].sources
  <2>1. c \in DOMAIN idx /\ c[2] \notin exclude
    BY <1>5
  <2>2. \A i \in About(rows, c) : i \in Counted(rows) /\ Cell(rows[i]) = c
    BY <2>1, MemberOfCell
  <2>3. About(rows, c) \cap kept = About(rows, c)
    BY <1>3, <2>1, <2>2
  <2>4. Holds(rows, About(rows, c), b[c])
    BY <1>2, <2>3
  <2>5. MemberOf(rows, c, idx[c])
    BY <2>1 DEF Inv, IndexIsSuperset, SupersetOf
  <2>. QED
    BY <2>4, <2>5 DEF Holds, MemberOf
<1>7. SetOf(b) = {m \in SetOf(idx) : m.handle \notin exclude}
  <2>1. \A m : m \in SetOf(b) <=> \E c \in DOMAIN b : \E s \in idx[c].sources : m = Entry(c, s)
    BY <1>6, Entries
  <2>2. \A m : m \in SetOf(idx) /\ m.handle \notin exclude <=>
                   \E c \in DOMAIN b : \E s \in idx[c].sources : m = Entry(c, s)
    BY <1>5, Entries, EntryOf
  <2>. QED
    BY <2>1, <2>2
<1>. QED
  BY <1>7 DEF b

\* Sets of memberships tell of an index all that Syncer needs of it: what it holds,
\* whether it is empty, what is restored of it, and what an exclude list leaves of it.
THEOREM SetsStandForIndexesHolds == Spec => []SetsStandForIndexes
<1>1. Inv => SetsStandForIndexes
  BY SetOfRowsRight, SetOfEmpty, SetOfPart, SetOfKept DEF SetsStandForIndexes
<1>2. TypeOK /\ IndexIsSuperset => SetsStandForIndexes
  BY <1>1 DEF Inv
<1>. QED
  BY <1>2, Right, PTL

=============================================================================
