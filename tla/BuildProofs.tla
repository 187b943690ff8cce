---------------------------- MODULE BuildProofs ----------------------------
(***************************************************************************)
(* What Build (internal/index/writer.go) makes of any two files.           *)
(*                                                                         *)
(* Collecting the places (writeRecords) leaves string tables in which      *)
(* every index that was handed out still finds its string, and records     *)
(* that stand where their ordinals say: a reader's recordAt and decode get *)
(* back what was put in (invariant Collected).                             *)
(*                                                                         *)
(* From the edges, writeIndex makes what a reader searches (invariant      *)
(* Indexed): its sorts put equal prefixes and equal keys together, so that *)
(* collectHot counts each name once and closes each prefix once, and the   *)
(* posting loop writes each list once, in the order vellum demands.        *)
(* The heaps of collectHot hold the best records beneath each prefix       *)
(* (invariant Shortlisted, from HeapLemmas), and no loop leaves the edges  *)
(* (invariant Bounded). The edges themselves are those of the places read  *)
(* by the names read, and the records are those of their places            *)
(* (invariant Linked), and no line read is one that ends a build           *)
(* (invariant Clean).                                                      *)
(* A reader that walks the keys under a prefix therefore finds what the    *)
(* files put there, and what the shortlists say is the best of it          *)
(* (WalkRight, ListedWalks).                                               *)
(***************************************************************************)
EXTENDS Build, HeapLemmas, SequenceTheorems

\* A string table is a sequence of distinct strings.
IsTable(table) ==
  /\ table \in Seq(Column)
  /\ \A m, n \in 1..Len(table) : table[m] = table[n] => m = n

\* What appending appends.
LEMMA Appended ==
  ASSUME NEW S, NEW s \in Seq(S), NEW x \in S
  PROVE  /\ Append(s, x) \in Seq(S) /\ Len(Append(s, x)) = Len(s) + 1
         /\ DOMAIN Append(s, x) = 1..Len(s) + 1 /\ Len(s) \in Nat
         /\ \A n \in 1..Len(s) : Append(s, x)[n] = s[n]
         /\ Append(s, x)[Len(s) + 1] = x
OBVIOUS

\* Interning finds the string or adds it, and moves no other.
Interns(old, new, s) ==
  /\ IsTable(new) /\ Len(old) <= Len(new)
  /\ \A n \in 1..Len(old) : new[n] = old[n]
  /\ \A n \in 1..Len(new) : new[n] = s \/ n <= Len(old)
  /\ IndexIn(new, s) + 1 \in 1..Len(new) /\ new[IndexIn(new, s) + 1] = s

\* intern* returns where the string is, whether it was there or not.
LEMMA InternedTable ==
  ASSUME NEW table, IsTable(table), NEW s \in Column
  PROVE  Interns(table, Interned(table, s), s)
<1> DEFINE new == Interned(table, s)
<1>0. table \in Seq(Column) /\ Len(table) \in Nat /\ DOMAIN table = 1..Len(table)
  BY DEF IsTable
<1>1. CASE s \in ToSet(table)
  <2>1. new = table BY <1>1 DEF Interned
  <2>2. PICK n \in DOMAIN table : table[n] = s BY <1>1 DEF ToSet
  <2>3. IndexIn(table, s) + 1 \in DOMAIN table /\ table[IndexIn(table, s) + 1] = s
    <3> DEFINE m == CHOOSE k \in DOMAIN table : table[k] = s
    <3>1. m \in DOMAIN table /\ table[m] = s BY <2>2
    <3>2. IndexIn(table, s) = m - 1 BY DEF IndexIn
    <3> HIDE DEF m
    <3>3. IndexIn(table, s) + 1 = m BY <1>0, <3>1, <3>2
    <3> QED BY <3>1, <3>3
  <2> HIDE DEF new
  <2>4. \A k \in 1..Len(table) : table[k] = s \/ k <= Len(table) BY <1>0
  <2>5. Interns(table, table, s) BY <1>0, <2>3, <2>4 DEF Interns
  <2> QED BY <2>1, <2>5 DEF new
<1>2. CASE s \notin ToSet(table)
  <2>1. new = Append(table, s) BY <1>2 DEF Interned
  <2> HIDE DEF new
  <2>2. \A n \in 1..Len(table) : table[n] # s BY <1>0, <1>2 DEF ToSet
  <2>3. /\ new \in Seq(Column) /\ Len(new) = Len(table) + 1 /\ DOMAIN new = 1..Len(new)
        /\ \A n \in 1..Len(table) : new[n] = table[n]
        /\ new[Len(table) + 1] = s
    BY <1>0, <2>1, Appended
  <2>4. IndexIn(new, s) + 1 \in DOMAIN new /\ new[IndexIn(new, s) + 1] = s
    <3> DEFINE m == CHOOSE k \in DOMAIN new : new[k] = s
    <3>0. Len(table) + 1 \in DOMAIN new BY <1>0, <2>3
    <3>1. m \in DOMAIN new /\ new[m] = s BY <2>3, <3>0
    <3>2. IndexIn(new, s) = m - 1 BY DEF IndexIn
    <3> HIDE DEF m
    <3>3. IndexIn(new, s) + 1 = m BY <1>0, <2>3, <3>1, <3>2
    <3> QED BY <3>1, <3>3
  <2>5. IsTable(new)
    <3>1. ASSUME NEW m \in 1..Len(new), NEW n \in 1..Len(new), new[m] = new[n] PROVE m = n
      <4>1. CASE m <= Len(table) /\ n <= Len(table)
        BY <1>0, <2>3, <3>1, <4>1 DEF IsTable
      <4>2. CASE m = Len(table) + 1 \/ n = Len(table) + 1
        BY <1>0, <2>2, <2>3, <3>1, <4>2
      <4> QED BY <1>0, <2>3, <4>1, <4>2
    <3> QED BY <2>3, <3>1 DEF IsTable
  <2>6. \A k \in 1..Len(new) : new[k] = s \/ k <= Len(table) BY <1>0, <2>3
  <2>7. Interns(table, new, s) BY <1>0, <2>3, <2>4, <2>5, <2>6 DEF Interns
  <2> QED BY <2>7 DEF new
<1> QED BY <1>1, <1>2

-----------------------------------------------------------------------------
\* What collecting the places keeps of them, and where.
Encoding ==
  [id : Int, population : Nat, name : DOMAIN Fold, size : Nat \ {0}, feature : Int,
   country : Int, region : Int]

\* e is the encoding of r, its strings looked up in the tables.
Reads(e, r) ==
  /\ e.id = r.id /\ e.population = r.population /\ e.name = r.name /\ e.size = r.size
  /\ e.feature + 1 \in 1..Len(features) /\ features[e.feature + 1] = r.feature
  /\ e.country + 1 \in 1..Len(countries) /\ countries[e.country + 1] = r.country
  /\ IF Region(r) = NoRegion THEN e.region = 0
     ELSE e.region \in 1..Len(regions) - 1 /\ regions[e.region + 1] = Region(r)

\* The tables hold strings once each, those of the countries from the places read,
\* and the first region is none.
TablesOK ==
  /\ IsTable(features) /\ IsTable(countries) /\ IsTable(regions)
  /\ regions # <<>> => regions[1] = NoRegion
  /\ \A j \in 1..Len(countries) : \E n \in Places : countries[j] = dump[n].country

\* The places read so far.
Through == IF stage = "records" THEN {n \in Places : n <= line} ELSE Places

\* Where the record of ordinal o - 1 ends.
EndOf(o) == IF o < Len(recOffsets) THEN recOffsets[o + 1] ELSE Len(records)

\* e stands in records.bin where the record of ordinal o - 1 should.
StandsAt(e, o) ==
  /\ o \in 1..Len(recOffsets) /\ (stage # "records" => o < Len(recOffsets))
  /\ recOffsets[o] + e.size = EndOf(o) /\ EndOf(o) <= Len(records)
  /\ \A k \in 1..e.size : records[recOffsets[o] + k] = <<e, k>>

Stands(n) == \E e \in Encoding : Reads(e, dump[n]) /\ StandsAt(e, OrdinalOf(n) + 1)

\* Until the offsets wrap, every place read stands where its ordinal says.
Packed ==
  /\ Len(recOffsets) = Cardinality(Through) + (IF stage = "records" THEN 0 ELSE 1)
  /\ Len(records) < Width => \A n \in Through : Stands(n)

Typed ==
  /\ dump \in Seq(DumpLine) /\ alts \in Seq(AltLine)
  /\ stage \in {"records", "altnames", "index", "failed"}
  /\ line \in Nat /\ (stage = "records" => line <= Len(dump))
  /\ recOffsets \in Seq(Nat) /\ records \in Seq(Encoding \X Nat)

\* A build gives up for a cause only.
Blamed == stage = "failed" => Cause

\* The state the inductive argument runs on.
Collected ==
  Typed /\ TablesOK /\ Blamed /\ (stage # "failed" => Packed)

\* The lines of a file are in finite number, and so are the places among them.
LEMMA PlacesFinite ==
  ASSUME Typed
  PROVE  IsFiniteSet(Places) /\ \A n \in Places : n \in 1..Len(dump) /\ dump[n] \in DumpLine
<1>1. Len(dump) \in Nat /\ DOMAIN dump = 1..Len(dump) /\ \A n \in 1..Len(dump) : dump[n] \in DumpLine
  BY DEF Typed
<1>2. IsFiniteSet(1..Len(dump)) BY <1>1, FS_Interval
<1>3. Places \subseteq 1..Len(dump) BY <1>1 DEF Places
<1> QED BY <1>1, <1>2, <1>3, FS_Subset

\* The string of a row's region, and whether it names one.
LEMMA RegionIsText ==
  ASSUME NEW r \in DumpLine
  PROVE  Region(r) \in Column
BY BuildAssumption DEF Region

\* A table has grown.
Grows(old, new) == Len(old) <= Len(new) /\ \A n \in 1..Len(old) : new[n] = old[n]

\* What an encoding says stays true as the tables grow.
LEMMA ReadsKept ==
  ASSUME NEW e, NEW r, e.region \in Int, e.feature \in Int, e.country \in Int,
         TablesOK, TablesOK', Reads(e, r),
         Grows(features, features'), Grows(countries, countries'), Grows(regions, regions')
  PROVE  Reads(e, r)'
<1>1. /\ Len(features) \in Nat /\ Len(countries) \in Nat /\ Len(regions) \in Nat
      /\ Len(features') \in Nat /\ Len(countries') \in Nat /\ Len(regions') \in Nat
  BY DEF TablesOK, IsTable
<1>2. Region(r)' = Region(r) BY DEF Region
<1>3. e.feature + 1 \in 1..Len(features') /\ features'[e.feature + 1] = r.feature
  <2>1. e.feature + 1 \in 1..Len(features) /\ features[e.feature + 1] = r.feature BY DEF Reads
  <2> QED BY <1>1, <2>1 DEF Grows
<1>4. e.country + 1 \in 1..Len(countries') /\ countries'[e.country + 1] = r.country
  <2>1. e.country + 1 \in 1..Len(countries) /\ countries[e.country + 1] = r.country BY DEF Reads
  <2> QED BY <1>1, <2>1 DEF Grows
<1>5. IF Region(r) = NoRegion THEN e.region = 0
      ELSE e.region \in 1..Len(regions') - 1 /\ regions'[e.region + 1] = Region(r)
  <2>1. CASE Region(r) = NoRegion
    BY <2>1 DEF Reads
  <2>2. CASE Region(r) # NoRegion
    <3>1. e.region \in 1..Len(regions) - 1 /\ regions[e.region + 1] = Region(r)
      BY <2>2 DEF Reads
    <3>2. e.region + 1 \in 1..Len(regions)
      BY <1>1, <3>1
    <3> QED BY <1>1, <2>2, <3>1, <3>2 DEF Grows
  <2> QED BY <2>1, <2>2
<1>6. IF Region(r)' = NoRegion THEN e.region = 0
      ELSE e.region \in 1..Len(regions') - 1 /\ regions'[e.region + 1] = Region(r)'
  BY <1>2, <1>5
<1>7. e.id = r.id /\ e.population = r.population /\ e.name = r.name /\ e.size = r.size
  BY DEF Reads
<1> HIDE DEF Region
<1> QED BY <1>3, <1>4, <1>6, <1>7 DEF Reads

\* The string is in the table, which has grown by nothing else.
Finds(old, new, s) ==
  /\ IsTable(new) /\ Grows(old, new)
  /\ IndexIn(new, s) \in Int /\ IndexIn(new, s) + 1 \in 1..Len(new)
  /\ new[IndexIn(new, s) + 1] = s
  /\ \A n \in 1..Len(new) : new[n] = s \/ (n \in 1..Len(old) /\ new[n] = old[n])

\* A string that was interned is found.
LEMMA InternedGrows ==
  ASSUME NEW table, IsTable(table), NEW s \in Column
  PROVE  Finds(table, Interned(table, s), s)
<1> DEFINE new == Interned(table, s)
           j == IndexIn(new, s)
<1>1. Interns(table, new, s) BY InternedTable
<1>2. Len(table) \in Nat BY DEF IsTable
<1>3. Len(new) \in Nat BY <1>1 DEF Interns, IsTable
<1>4. j \in Int
  <2>1. j = (CHOOSE n \in DOMAIN new : new[n] = s) - 1 BY DEF IndexIn
  <2>2. DOMAIN new = 1..Len(new) BY <1>1 DEF Interns, IsTable
  <2>3. j + 1 \in DOMAIN new /\ new[j + 1] = s BY <1>1, <2>2 DEF Interns
  <2>4. (CHOOSE n \in DOMAIN new : new[n] = s) \in DOMAIN new BY <2>3
  <2> HIDE DEF new, j
  <2> QED BY <1>3, <2>1, <2>2, <2>4
<1> HIDE DEF new
<1>5. \A n \in 1..Len(new) : new[n] = s \/ (n \in 1..Len(table) /\ new[n] = table[n])
  BY <1>1, <1>2, <1>3 DEF Interns
<1> QED BY <1>1, <1>4, <1>5 DEF Interns, Grows, Finds, new

\* The table of regions keeps its first entry for no region, and any other string
\* has an index above 0 (internRegion).
LEMMA RegionInterned ==
  ASSUME IsTable(regions), regions # <<>> => regions[1] = NoRegion, NEW s \in Column
  PROVE  LET new == WithRegion(s)
         IN /\ IsTable(new) /\ Grows(regions, new)
            /\ new # <<>> => new[1] = NoRegion
            /\ RegionIndex(s) \in Int
            /\ IF s = NoRegion THEN RegionIndex(s) = 0
               ELSE RegionIndex(s) \in 1..Len(new) - 1 /\ new[RegionIndex(s) + 1] = s
<1> DEFINE new == WithRegion(s)
<1>0. regions \in Seq(Column) /\ Len(regions) \in Nat BY DEF IsTable
<1>1. CASE s = NoRegion
  <2>1. new = regions /\ RegionIndex(s) = 0 BY <1>1 DEF WithRegion, RegionIndex
  <2>2. Grows(regions, regions) BY <1>0 DEF Grows
  <2> QED BY <1>1, <2>1, <2>2
<1>2. CASE s # NoRegion
  <2> DEFINE base == IF regions = <<>> THEN <<NoRegion>> ELSE regions
  <2>1. new = Interned(base, s) /\ RegionIndex(s) = IndexIn(new, s)
    BY <1>2 DEF WithRegion, RegionIndex
  <2>2. IsTable(base) /\ Len(base) \in Nat /\ Len(base) >= 1 /\ base[1] = NoRegion
        /\ Grows(regions, base)
    <3>1. CASE regions = <<>>
      <4>1. base = <<NoRegion>> BY <3>1
      <4>2. <<NoRegion>> \in Seq(Column) /\ Len(<<NoRegion>>) = 1 BY BuildAssumption
      <4>3. <<NoRegion>>[1] = NoRegion OBVIOUS
      <4>4. Len(regions) = 0 BY <3>1
      <4> HIDE DEF base
      <4>5. Grows(regions, base) BY <4>1, <4>2, <4>4 DEF Grows
      <4>6. IsTable(base) BY <4>1, <4>2 DEF IsTable
      <4> QED BY <4>1, <4>2, <4>3, <4>5, <4>6
    <3>2. CASE regions # <<>>
      <4>1. base = regions BY <3>2
      <4>2. Len(regions) >= 1 BY <1>0, <3>2
      <4>3. Grows(regions, regions) BY <1>0 DEF Grows
      <4> HIDE DEF base
      <4> QED BY <1>0, <3>2, <4>1, <4>2, <4>3
    <3> QED BY <3>1, <3>2
  <2> HIDE DEF base
  <2>3. /\ IsTable(new) /\ Grows(base, new)
        /\ IndexIn(new, s) \in Int /\ IndexIn(new, s) + 1 \in 1..Len(new)
        /\ new[IndexIn(new, s) + 1] = s
    <3>1. Finds(base, Interned(base, s), s) BY <2>2, InternedGrows
    <3> HIDE DEF new
    <3> QED BY <2>1, <3>1 DEF Finds
  <2> HIDE DEF new
  <2>4. Len(new) \in Nat BY <2>3 DEF IsTable
  <2>5. new[1] = NoRegion BY <2>2, <2>3 DEF Grows
  <2>6. Grows(regions, new) BY <1>0, <2>2, <2>3, <2>4 DEF Grows
  <2>7. IndexIn(new, s) # 0 BY <1>2, <2>3, <2>5
  <2>8. IndexIn(new, s) \in 1..Len(new) - 1 BY <2>3, <2>4, <2>7
  <2>9. /\ IsTable(new) /\ Grows(regions, new) /\ (new # <<>> => new[1] = NoRegion)
        /\ RegionIndex(s) \in Int
        /\ RegionIndex(s) \in 1..Len(new) - 1 /\ new[RegionIndex(s) + 1] = s
    BY <2>1, <2>3, <2>5, <2>6, <2>8
  <2> QED BY <1>2, <2>9 DEF new
<1> QED BY <1>1, <1>2

\* A table of more countries than MaxCountries means that many in the dump.
LEMMA TooManyCountries ==
  ASSUME Typed, NEW table, IsTable(table), Len(table) > MaxCountries,
         \A j \in 1..Len(table) : \E n \in Places : table[j] = dump[n].country
  PROVE  Cardinality({dump[n].country : n \in Places}) > MaxCountries
<1> DEFINE C == {dump[n].country : n \in Places}
           f == [n \in Places |-> dump[n].country]
           g == [j \in 1..Len(table) |-> table[j]]
<1>1. IsFiniteSet(C)
  <2>1. IsFiniteSet(Places) BY PlacesFinite
  <2>2. f \in Surjection(Places, C) BY DEF Surjection
  <2> HIDE DEF f, C
  <2> QED BY <2>1, <2>2, FS_Surjection
<1>2. Len(table) \in Nat BY DEF IsTable
<1>3. g \in Injection(1..Len(table), C) BY DEF Injection, IsInjective, IsTable
<1>4. IsFiniteSet(1..Len(table)) /\ Cardinality(1..Len(table)) = Len(table)
  <2>1. PICK n \in Nat : n = Len(table) BY <1>2
  <2>2. \A a, b \in Int : /\ IsFiniteSet(a..b)
                          /\ Cardinality(a..b) = IF a > b THEN 0 ELSE b - a + 1
    BY FS_Interval
  <2>3. IsFiniteSet(1..n) /\ Cardinality(1..n) = n BY <2>2
  <2> QED BY <2>1, <2>3
<1> HIDE DEF C, g
<1>5. Len(table) <= Cardinality(C) BY <1>1, <1>3, <1>4, FS_Injection
<1>6. Cardinality(C) \in Nat BY <1>1, FS_CardinalityType
<1> QED BY <1>2, <1>5, <1>6, BuildAssumption DEF C

\* The place at hand, and its ordinal: as many places come before it as were read.
LEMMA RowIsPlace ==
  ASSUME Typed, ReadingRow, Row.class = "P", Kept(Row)
  PROVE  /\ line + 1 \in Places /\ Row \in DumpLine /\ Row = dump[line + 1]
         /\ OrdinalOf(line + 1) = Cardinality(Through)
         /\ {n \in Places : n <= line + 1} = Through \cup {line + 1}
         /\ Cardinality(Through \cup {line + 1}) = Cardinality(Through) + 1
         /\ Cardinality(Through) \in Nat
<1>1. /\ DOMAIN dump = 1..Len(dump) /\ Len(dump) \in Nat /\ line \in Nat
      /\ line < Len(dump) /\ stage = "records"
  BY DEF Typed, ReadingRow
<1>2. line + 1 \in Places /\ Row = dump[line + 1]
  BY <1>1 DEF Places, Row
<1>3. IsFiniteSet(Places) /\ \A n \in Places : n \in 1..Len(dump) /\ dump[n] \in DumpLine
  BY PlacesFinite
<1>4. Through = {n \in Places : n <= line} BY <1>1 DEF Through
<1>5. {m \in Places : m < line + 1} = Through BY <1>1, <1>3, <1>4
<1>6. {n \in Places : n <= line + 1} = Through \cup {line + 1} BY <1>1, <1>2, <1>3, <1>4
<1>7. line + 1 \notin Through BY <1>1, <1>4
<1>8. IsFiniteSet(Through)
  <2>1. Through \in SUBSET Places BY <1>4
  <2> QED BY <1>3, <2>1, FS_Subset
<1>9. Cardinality(Through) \in Nat BY <1>8, FS_CardinalityType
<1>10. Cardinality(Through \cup {line + 1}) = Cardinality(Through) + 1
  <2>1. Cardinality(Through \cup {line + 1}) =
          IF line + 1 \in Through THEN Cardinality(Through) ELSE Cardinality(Through) + 1
    BY <1>8, FS_AddElement
  <2> QED BY <1>7, <2>1
<1>11. OrdinalOf(line + 1) = Cardinality(Through) BY <1>5 DEF OrdinalOf
<1>12. Row \in DumpLine BY <1>2, <1>3
<1> QED BY <1>2, <1>6, <1>9, <1>10, <1>11, <1>12

\* Adding a record interns its strings, and its encoding finds them.
LEMMA AddTables ==
  ASSUME Typed, TablesOK, AddRecord
  PROVE  /\ TablesOK'
         /\ \A r, e : r = Row /\ e = Encoded(Row) => e \in Encoding /\ Reads(e, r)'
         /\ Grows(features, features') /\ Grows(countries, countries')
         /\ Grows(regions, regions')
<1> SUFFICES ASSUME NEW r, r = Row, NEW e, e = Encoded(r)
             PROVE  /\ TablesOK' /\ e \in Encoding /\ Reads(e, r)'
                    /\ Grows(features, features') /\ Grows(countries, countries')
                    /\ Grows(regions, regions')
  OBVIOUS
<1>1. /\ ReadingRow /\ r.class = "P" /\ Kept(r)
      /\ features' = Interned(features, r.feature)
      /\ countries' = Interned(countries, r.country)
      /\ regions' = WithRegion(Region(r))
      /\ dump' = dump /\ alts' = alts
  BY DEF AddRecord, files
<1>2. r \in DumpLine /\ line + 1 \in Places /\ r = dump[line + 1]
  BY <1>1, RowIsPlace
<1>3. Finds(features, features', r.feature)
  BY <1>1, <1>2, InternedGrows DEF TablesOK, DumpLine
<1>4. Finds(countries, countries', r.country)
  BY <1>1, <1>2, InternedGrows DEF TablesOK, DumpLine
<1>5. /\ IsTable(regions') /\ Grows(regions, regions')
      /\ regions' # <<>> => regions'[1] = NoRegion
      /\ RegionIndex(Region(r)) \in Int
      /\ IF Region(r) = NoRegion THEN RegionIndex(Region(r)) = 0
         ELSE /\ RegionIndex(Region(r)) \in 1..Len(regions') - 1
              /\ regions'[RegionIndex(Region(r)) + 1] = Region(r)
  <2>1. Region(r) \in Column BY <1>2, RegionIsText
  <2> HIDE DEF Region
  <2> QED BY <1>1, <2>1, RegionInterned DEF TablesOK
<1>6. /\ e.id = r.id /\ e.population = r.population /\ e.name = r.name /\ e.size = r.size
      /\ e.feature = IndexIn(features', r.feature)
      /\ e.country = IndexIn(countries', r.country)
      /\ e.region = RegionIndex(Region(r))
  BY <1>1 DEF Encoded
<1>7. e \in Encoding
  <2>1. /\ r.id \in Int /\ r.population \in Nat /\ r.name \in DOMAIN Fold /\ r.size \in Nat \ {0}
    BY <1>2 DEF DumpLine
  <2>2. /\ IndexIn(features', r.feature) \in Int /\ IndexIn(countries', r.country) \in Int
    BY <1>3, <1>4 DEF Finds
  <2>3. e = [id |-> r.id, population |-> r.population, name |-> r.name, size |-> r.size,
             feature |-> IndexIn(features', r.feature),
             country |-> IndexIn(countries', r.country), region |-> RegionIndex(Region(r))]
    BY <1>1 DEF Encoded
  <2> QED BY <1>5, <2>1, <2>2, <2>3 DEF Encoding
<1>8. Reads(e, r)'
  <2>1. Region(r)' = Region(r) BY DEF Region
  <2>2. IF Region(r)' = NoRegion THEN e.region = 0
        ELSE e.region \in 1..Len(regions') - 1 /\ regions'[e.region + 1] = Region(r)'
    BY <1>5, <1>6, <2>1
  <2>3. e.feature + 1 \in 1..Len(features') /\ features'[e.feature + 1] = r.feature
    BY <1>3, <1>6 DEF Finds
  <2>4. e.country + 1 \in 1..Len(countries') /\ countries'[e.country + 1] = r.country
    BY <1>4, <1>6 DEF Finds
  <2>5. e.id = r.id /\ e.population = r.population /\ e.name = r.name /\ e.size = r.size
    BY <1>6
  <2> HIDE DEF Region
  <2> QED BY <2>2, <2>3, <2>4, <2>5 DEF Reads
<1>9. TablesOK'
  <2>1. Places' = Places /\ \A n : dump'[n] = dump[n]
    BY <1>1 DEF Places, Kept, Dead
  <2>2. \A j \in 1..Len(countries') : \E n \in Places : countries'[j] = dump[n].country
    <3> SUFFICES ASSUME NEW j \in 1..Len(countries')
                 PROVE \E n \in Places : countries'[j] = dump[n].country
      OBVIOUS
    <3>1. CASE countries'[j] = r.country BY <1>2, <3>1
    <3>2. CASE j \in 1..Len(countries) /\ countries'[j] = countries[j]
      BY <3>2 DEF TablesOK
    <3> QED BY <1>4, <3>1, <3>2 DEF Finds
  <2>3. IsTable(features') /\ IsTable(countries') BY <1>3, <1>4 DEF Finds
  <2> QED BY <1>5, <2>1, <2>2, <2>3 DEF TablesOK
<1> QED BY <1>3, <1>4, <1>5, <1>7, <1>8, <1>9 DEF Finds

\* A place is encoded as a byte at least, each of them its own cell.
LEMMA CellsOf ==
  ASSUME NEW e \in Encoding
  PROVE  /\ e.size \in Nat \ {0} /\ Cells(e) \in Seq(Encoding \X Nat) /\ Len(Cells(e)) = e.size
         /\ DOMAIN Cells(e) = 1..e.size /\ \A k \in 1..e.size : Cells(e)[k] = <<e, k>>
<1>1. e.size \in Nat \ {0} BY DEF Encoding
<1>2. Cells(e) = [k \in 1..e.size |-> <<e, k>>] BY DEF Cells
<1>3. \A k \in 1..e.size : <<e, k>> \in Encoding \X Nat BY <1>1
<1> HIDE DEF Encoding
<1>4. Cells(e) \in Seq(Encoding \X Nat) BY <1>1, <1>2, <1>3
<1>5. Len(Cells(e)) = e.size BY <1>1, <1>2
<1> QED BY <1>1, <1>2, <1>4, <1>5

\* A number short of the modulus is its own remainder.
LEMMA NoWrap ==
  ASSUME NEW a \in Nat, NEW b \in Nat \ {0}, a < b
  PROVE  a % b = a
OBVIOUS

\* What joining two sequences gives.
LEMMA Joined ==
  ASSUME NEW S, NEW s \in Seq(S), NEW t \in Seq(S)
  PROVE  /\ s \o t \in Seq(S) /\ Len(s \o t) = Len(s) + Len(t)
         /\ \A k \in 1..Len(s) : (s \o t)[k] = s[k]
         /\ \A k \in 1..Len(t) : (s \o t)[Len(s) + k] = t[k]
OBVIOUS

\* Another record after it leaves a record where it stands, as long as the offset of
\* the new one is exact.
LEMMA StandsKept ==
  ASSUME NEW e, e.size \in Nat \ {0}, NEW o, Typed, stage = "records", StandsAt(e, o),
         recOffsets' = Append(recOffsets, Len(records)), Grows(records, records'),
         Len(records') \in Nat
  PROVE  StandsAt(e, o)'
<1>1. /\ recOffsets \in Seq(Nat) /\ Len(records) \in Nat BY DEF Typed
<1>2. /\ Len(recOffsets') = Len(recOffsets) + 1 /\ Len(recOffsets) \in Nat
      /\ \A n \in 1..Len(recOffsets) : recOffsets'[n] = recOffsets[n] /\ recOffsets[n] \in Nat
      /\ recOffsets'[Len(recOffsets) + 1] = Len(records)
  BY <1>1, Appended
<1>3. /\ o \in 1..Len(recOffsets)
      /\ recOffsets[o] + e.size = EndOf(o) /\ EndOf(o) <= Len(records)
      /\ \A k \in 1..e.size : records[recOffsets[o] + k] = <<e, k>>
  BY DEF StandsAt
<1>4. recOffsets'[o] = recOffsets[o] /\ recOffsets[o] \in Nat BY <1>2, <1>3
<1>5. EndOf(o)' = EndOf(o)
  <2>1. EndOf(o)' = recOffsets'[o + 1] BY <1>2, <1>3 DEF EndOf
  <2>2. CASE o < Len(recOffsets) BY <1>2, <1>3, <2>1, <2>2 DEF EndOf
  <2>3. CASE o = Len(recOffsets) BY <1>2, <2>1, <2>3 DEF EndOf
  <2> QED BY <1>2, <1>3, <2>2, <2>3
<1>6. ASSUME NEW k \in 1..e.size PROVE records'[recOffsets[o] + k] = <<e, k>>
  <2>1. PICK x, y, z, w : /\ x = recOffsets[o] /\ y = Len(records) /\ z = EndOf(o)
                          /\ w = e.size
    OBVIOUS
  <2>2. x \in Nat /\ y \in Nat /\ w \in Nat /\ x + w = z /\ z <= y /\ k \in 1..w
    BY <1>1, <1>3, <1>4, <2>1
  <2>3. x + k \in 1..y BY <2>2
  <2>4. recOffsets[o] + k \in 1..Len(records) BY <2>1, <2>3
  <2> QED BY <1>3, <2>4 DEF Grows
<1>7. EndOf(o)' <= Len(records') BY <1>1, <1>3, <1>4, <1>5 DEF Grows
<1>8. o \in 1..Len(recOffsets') /\ o < Len(recOffsets') BY <1>2, <1>3
<1> QED BY <1>3, <1>4, <1>5, <1>6, <1>7, <1>8 DEF StandsAt

\* A place keeps its line and its ordinal while the dump is read.
LEMMA StandsCarried ==
  ASSUME NEW n, NEW e \in Encoding, NEW o, dump' = dump, o = OrdinalOf(n) + 1,
         Reads(e, dump[n])', StandsAt(e, o)'
  PROVE  Stands(n)'
<1>1. OrdinalOf(n)' = OrdinalOf(n) BY DEF OrdinalOf, Places, Kept, Dead
<1>2. StandsAt(e, OrdinalOf(n) + 1)' BY <1>1 DEF StandsAt, EndOf
<1> QED BY <1>2 DEF Stands

\* Adding a record puts it behind the others, where its ordinal says.
LEMMA AddPacked ==
  ASSUME Typed, TablesOK, Packed, AddRecord, ~TooMany(Encoded(Row).country)
  PROVE  Typed' /\ Packed'
<1>0. PICK r, e : r = Row /\ e = Encoded(Row) OBVIOUS
<1>1. /\ ReadingRow /\ r.class = "P" /\ Kept(r)
      /\ recOffsets' = Append(recOffsets, Len(records) % Width)
      /\ records' = records \o Cells(e) /\ line' = line + 1 /\ stage' = stage
      /\ dump' = dump /\ alts' = alts
  BY <1>0 DEF AddRecord, files
<1>2. /\ line + 1 \in Places /\ r \in DumpLine /\ r = dump[line + 1]
      /\ OrdinalOf(line + 1) = Cardinality(Through)
      /\ {n \in Places : n <= line + 1} = Through \cup {line + 1}
      /\ Cardinality(Through \cup {line + 1}) = Cardinality(Through) + 1
      /\ Cardinality(Through) \in Nat
  BY <1>0, <1>1, RowIsPlace
<1>3. /\ TablesOK' /\ e \in Encoding /\ Reads(e, r)'
      /\ Grows(features, features') /\ Grows(countries, countries')
      /\ Grows(regions, regions')
  BY <1>0, AddTables
<1>4. /\ stage = "records" /\ line < Len(dump) /\ line \in Nat /\ Len(dump) \in Nat
      /\ recOffsets \in Seq(Nat) /\ records \in Seq(Encoding \X Nat)
      /\ Len(records) \in Nat /\ Len(recOffsets) \in Nat
  BY <1>1 DEF Typed, ReadingRow
<1>5. /\ e.size \in Nat \ {0} /\ Cells(e) \in Seq(Encoding \X Nat) /\ Len(Cells(e)) = e.size
      /\ \A k \in 1..e.size : Cells(e)[k] = <<e, k>>
  BY <1>3, CellsOf
<1>6. /\ records' \in Seq(Encoding \X Nat) /\ Len(records') = Len(records) + e.size
      /\ Grows(records, records')
      /\ \A k \in 1..e.size : records'[Len(records) + k] = <<e, k>>
  <2> HIDE DEF Encoding, Cells
  <2>1. /\ records' \in Seq(Encoding \X Nat) /\ Len(records') = Len(records) + e.size
    <3>1. PICK S : S = Encoding \X Nat OBVIOUS
    <3>2. records \in Seq(S) /\ Cells(e) \in Seq(S) BY <1>4, <1>5, <3>1
    <3>3. /\ records \o Cells(e) \in Seq(S)
          /\ Len(records \o Cells(e)) = Len(records) + Len(Cells(e))
      BY <3>2
    <3>4. records' = records \o Cells(e) BY <1>1
    <3> QED BY <1>5, <3>1, <3>3, <3>4
  <2>2. \A k \in 1..Len(records) : records'[k] = records[k] BY <1>1, <1>4, <1>5, Joined
  <2>3. ASSUME NEW k \in 1..e.size PROVE records'[Len(records) + k] = <<e, k>>
    <3>1. records'[Len(records) + k] = Cells(e)[k] BY <1>1, <1>4, <1>5, Joined
    <3> QED BY <1>5, <3>1
  <2>4. Grows(records, records')
    <3>1. Len(records) <= Len(records') BY <1>4, <1>5, <2>1
    <3> QED BY <2>2, <3>1 DEF Grows
  <2> QED BY <2>1, <2>3, <2>4
<1>7. Len(records) % Width \in Nat BY <1>4, BuildAssumption
<1>8. /\ recOffsets' \in Seq(Nat) /\ Len(recOffsets') = Len(recOffsets) + 1
      /\ recOffsets'[Len(recOffsets) + 1] = Len(records) % Width
  BY <1>1, <1>4, <1>7, Appended
<1>9. Typed'
  <2> HIDE DEF Encoding
  <2>1. line' \in Nat /\ line' <= Len(dump) BY <1>1, <1>4
  <2> QED BY <1>1, <1>6, <1>8, <2>1 DEF Typed, Encoding
<1>10. Places' = Places BY <1>1 DEF Places, Kept, Dead
<1>11. Through' = Through \cup {line + 1}
  BY <1>1, <1>2, <1>4, <1>10 DEF Through
<1>12. Len(recOffsets) = Cardinality(Through) BY <1>2, <1>4 DEF Packed
<1>13. Len(recOffsets') = Cardinality(Through') BY <1>2, <1>8, <1>11, <1>12
<1>14. ASSUME Len(records') < Width, NEW n \in Through' PROVE Stands(n)'
  <2>1. Len(records) < Width /\ Len(records) % Width = Len(records)
    <3>1. Width \in Nat \ {0} BY BuildAssumption
    <3>2. e.size \in Nat BY <1>5
    <3>3. Len(records) < Width BY <1>4, <1>6, <1>14, <3>1, <3>2
    <3> QED BY <1>4, <3>1, <3>3, NoWrap
  <2>2. recOffsets' = Append(recOffsets, Len(records)) BY <1>1, <2>1
  <2>3. CASE n \in Through
    <3>1. PICK c \in Encoding : Reads(c, dump[n]) /\ StandsAt(c, OrdinalOf(n) + 1)
      BY <2>1, <2>3 DEF Packed, Stands
    <3>2. PICK o : o = OrdinalOf(n) + 1 OBVIOUS
    <3>3. PICK x : x = dump[n] OBVIOUS
    <3>4. c.size \in Nat \ {0} /\ c.region \in Int /\ c.feature \in Int /\ c.country \in Int
      BY DEF Encoding
    <3> HIDE DEF Encoding
    <3>5. StandsAt(c, o)'
      <4>1. StandsAt(c, o) BY <3>1, <3>2
      <4>2. Len(records') \in Nat BY <1>4, <1>5, <1>6
      <4> QED BY <1>4, <1>6, <2>2, <3>4, <4>1, <4>2, StandsKept
    <3>6. Reads(c, x)'
      <4>1. Reads(c, x) BY <3>1, <3>3
      <4> QED BY <1>3, <3>4, <4>1, ReadsKept
    <3>7. Reads(c, dump[n])'
      <4>1. dump'[n] = x BY <1>1, <3>3
      <4> QED BY <3>6, <4>1
    <3> QED BY <1>1, <3>2, <3>5, <3>7, StandsCarried
  <2>4. CASE n = line + 1
    <3>1. PICK o : o = OrdinalOf(n) + 1 OBVIOUS
    <3>2. o = Len(recOffsets') BY <1>2, <1>8, <1>12, <2>4, <3>1
    <3>3. Reads(e, dump[n])'
      <4>1. dump'[n] = r BY <1>1, <1>2, <2>4
      <4> QED BY <1>3, <4>1
    <3>4. recOffsets'[o] = Len(records) BY <1>8, <2>1, <3>2
    <3>5. EndOf(o)' = Len(records') BY <1>4, <1>8, <3>2 DEF EndOf
    <3>6. StandsAt(e, o)'
      <4>1. o \in 1..Len(recOffsets') BY <1>4, <1>8, <3>2
      <4>2. recOffsets'[o] + e.size = EndOf(o)' /\ EndOf(o)' <= Len(records')
        BY <1>4, <1>5, <1>6, <3>4, <3>5
      <4>3. \A k \in 1..e.size : records'[recOffsets'[o] + k] = <<e, k>>
        BY <1>6, <3>4
      <4>4. stage' = "records" BY <1>1, <1>4
      <4> HIDE DEF Encoding
      <4> QED BY <4>1, <4>2, <4>3, <4>4 DEF StandsAt
    <3> QED BY <1>1, <1>3, <3>1, <3>3, <3>6, StandsCarried
  <2> QED BY <1>11, <1>14, <2>3, <2>4
<1>15. stage' = "records" BY <1>1, <1>4
<1> HIDE DEF Encoding
<1> QED BY <1>9, <1>13, <1>14, <1>15 DEF Packed

\* A step that collects nothing leaves every record where it stands.
LEMMA NothingCollected ==
  ASSUME Typed, UNCHANGED <<files, collected>>
  PROVE  /\ dump' = dump /\ alts' = alts /\ Places' = Places
         /\ records' = records /\ recOffsets' = recOffsets
         /\ features' = features /\ countries' = countries /\ regions' = regions
BY DEF files, collected, tables, Places, Kept, Dead

\* As NothingCollected, of the tables.
LEMMA TablesKept ==
  ASSUME Typed, TablesOK, UNCHANGED <<files, collected>>
  PROVE  TablesOK'
<1>1. /\ dump' = dump /\ Places' = Places
      /\ features' = features /\ countries' = countries /\ regions' = regions
  BY NothingCollected
<1>2. \A j \in 1..Len(countries') : \E n \in Places' : countries'[j] = dump'[n].country
  BY <1>1 DEF TablesOK
<1>3. IsTable(features') /\ IsTable(countries') /\ IsTable(regions')
  BY <1>1 DEF TablesOK
<1>4. regions' # <<>> => regions'[1] = NoRegion BY <1>1 DEF TablesOK
<1> QED BY <1>2, <1>3, <1>4 DEF TablesOK

\* As NothingCollected, of the places read.
LEMMA PackedKept ==
  ASSUME Typed, TablesOK, Packed, UNCHANGED <<files, collected>>,
         Through' = Through, stage' = "records" <=> stage = "records"
  PROVE  Packed'
<1>1. /\ dump' = dump /\ Places' = Places
      /\ records' = records /\ recOffsets' = recOffsets
      /\ features' = features /\ countries' = countries /\ regions' = regions
  BY NothingCollected
<1>2. ASSUME Len(records) < Width, NEW n \in Through PROVE Stands(n)'
  <2>1. PICK e \in Encoding : Reads(e, dump[n]) /\ StandsAt(e, OrdinalOf(n) + 1)
    BY <1>2 DEF Packed, Stands
  <2>2. PICK o : o = OrdinalOf(n) + 1 OBVIOUS
  <2>3. PICK x : x = dump[n] OBVIOUS
  <2>4. e.region \in Int /\ e.feature \in Int /\ e.country \in Int BY DEF Encoding
  <2> HIDE DEF Encoding
  <2>5. StandsAt(e, o)'
    <3>1. StandsAt(e, o) BY <2>1, <2>2
    <3> QED BY <1>1, <3>1 DEF StandsAt, EndOf
  <2>6. Reads(e, x)'
    <3>1. Reads(e, x) BY <2>1, <2>3
    <3>2. TablesOK' BY TablesKept
    <3>3. Grows(features, features') /\ Grows(countries, countries') /\ Grows(regions, regions')
      BY <1>1 DEF Grows, TablesOK, IsTable
    <3> QED BY <2>4, <3>1, <3>2, <3>3, ReadsKept
  <2>7. Reads(e, dump[n])'
    <3>1. dump'[n] = x BY <1>1, <2>3
    <3> QED BY <2>6, <3>1
  <2> QED BY <1>1, <2>2, <2>5, <2>7, StandsCarried
<1> QED BY <1>1, <1>2 DEF Packed

\* A row that is no place to keep adds none to those read.
LEMMA SkipPacked ==
  ASSUME Typed, TablesOK, Packed, SkipRow
  PROVE  Typed' /\ Packed'
<1>1. /\ UNCHANGED <<files, collected>> /\ stage' = stage /\ stage = "records"
      /\ line' = line + 1 /\ line < Len(dump) /\ (Row.class # "P" \/ ~Kept(Row))
  BY DEF SkipRow, ReadingRow
<1>2. dump' = dump /\ alts' = alts /\ Places' = Places /\ records' = records
      /\ recOffsets' = recOffsets
  BY <1>1, NothingCollected
<1>3. line \in Nat /\ Len(dump) \in Nat BY DEF Typed
<1>4. line + 1 \notin Places BY <1>1 DEF Row, Places
<1>5. \A n \in Places : n \in 1..Len(dump) BY PlacesFinite
<1>6. Through' = Through BY <1>1, <1>2, <1>3, <1>4, <1>5 DEF Through
<1>7. Packed' BY <1>1, <1>6, PackedKept
<1>8. line' \in Nat /\ line' <= Len(dump) BY <1>1, <1>3
<1> HIDE DEF Encoding
<1> QED BY <1>1, <1>2, <1>7, <1>8 DEF Typed

\* The sentinel ends the last record, and all the places have been read.
LEMMA DonePacked ==
  ASSUME Typed, TablesOK, Packed, RecordsDone
  PROVE  Typed' /\ TablesOK' /\ Packed'
<1>1. /\ stage = "records" /\ line = Len(dump) /\ stage' = "altnames" /\ line' = 0
      /\ recOffsets' = Append(recOffsets, Len(records) % Width)
      /\ dump' = dump /\ alts' = alts /\ records' = records
      /\ features' = features /\ countries' = countries /\ regions' = regions
  BY DEF RecordsDone, files, tables
<1>2. /\ recOffsets \in Seq(Nat) /\ records \in Seq(Encoding \X Nat)
      /\ Len(records) \in Nat /\ Len(recOffsets) \in Nat /\ Len(dump) \in Nat
  BY DEF Typed
<1>3. Len(records) % Width \in Nat BY <1>2, BuildAssumption
<1>4. recOffsets' \in Seq(Nat) /\ Len(recOffsets') = Len(recOffsets) + 1
  BY <1>1, <1>2, <1>3, Appended
<1>5. Typed'
  <2> HIDE DEF Encoding
  <2> QED BY <1>1, <1>2, <1>4 DEF Typed
<1>6. Places' = Places BY <1>1 DEF Places, Kept, Dead
<1>7. \A n \in Places : n \in 1..Len(dump) BY PlacesFinite
<1>8. Through' = Through BY <1>1, <1>2, <1>6, <1>7 DEF Through
<1>9. TablesOK'
  <2>1. \A j \in 1..Len(countries') : \E n \in Places' : countries'[j] = dump'[n].country
    BY <1>1, <1>6 DEF TablesOK
  <2>2. IsTable(features') /\ IsTable(countries') /\ IsTable(regions')
    BY <1>1 DEF TablesOK
  <2>3. regions' # <<>> => regions'[1] = NoRegion BY <1>1 DEF TablesOK
  <2> QED BY <2>1, <2>2, <2>3 DEF TablesOK
<1>10. Len(recOffsets') = Cardinality(Through') + 1
  <2>1. Len(recOffsets) = Cardinality(Through) + 0 BY <1>1 DEF Packed
  <2>2. IsFiniteSet(Through)
    <3>1. Through \in SUBSET Places BY DEF Through
    <3> QED BY <3>1, PlacesFinite, FS_Subset
  <2>3. Cardinality(Through) \in Nat BY <2>2, FS_CardinalityType
  <2> QED BY <1>4, <1>8, <2>1, <2>3
<1>11. ASSUME Len(records) < Width, NEW n \in Through PROVE Stands(n)'
  <2>1. PICK e \in Encoding : Reads(e, dump[n]) /\ StandsAt(e, OrdinalOf(n) + 1)
    BY <1>11 DEF Packed, Stands
  <2>2. PICK o : o = OrdinalOf(n) + 1 OBVIOUS
  <2>3. PICK x : x = dump[n] OBVIOUS
  <2>4. /\ e.size \in Nat \ {0} /\ e.region \in Int /\ e.feature \in Int
        /\ e.country \in Int
    BY DEF Encoding
  <2> HIDE DEF Encoding
  <2>5. StandsAt(e, o)'
    <3>1. StandsAt(e, o) BY <2>1, <2>2
    <3>2. Len(records) % Width = Len(records)
      <4>1. Width \in Nat \ {0} BY BuildAssumption
      <4> QED BY <1>2, <1>11, <4>1, NoWrap
    <3>3. recOffsets' = Append(recOffsets, Len(records)) BY <1>1, <3>2
    <3>4. Grows(records, records') /\ Len(records') \in Nat BY <1>1, <1>2 DEF Grows
    <3> QED BY <1>1, <2>4, <3>1, <3>3, <3>4, StandsKept
  <2>6. Reads(e, x)'
    <3>1. Reads(e, x) BY <2>1, <2>3
    <3>2. Grows(features, features') /\ Grows(countries, countries') /\ Grows(regions, regions')
      BY <1>1 DEF Grows, TablesOK, IsTable
    <3> QED BY <1>9, <2>4, <3>1, <3>2, ReadsKept
  <2>7. Reads(e, dump[n])'
    <3>1. dump'[n] = x BY <1>1, <2>3
    <3> QED BY <2>6, <3>1
  <2> QED BY <1>1, <2>2, <2>5, <2>7, StandsCarried
<1>12. Packed' BY <1>1, <1>8, <1>10, <1>11 DEF Packed
<1> QED BY <1>5, <1>9, <1>12

\* A country too many ends the build with that many countries in the dump.
LEMMA AddFails ==
  ASSUME Typed, TablesOK, AddRecord, TooMany(Encoded(Row).country)
  PROVE  Typed' /\ Blamed' /\ stage' = "failed"
<1>0. PICK r, e, t : r = Row /\ e = Encoded(Row) /\ t = countries' OBVIOUS
<1>1. /\ ReadingRow /\ r.class = "P" /\ Kept(r) /\ e.country >= MaxCountries
      /\ recOffsets' = Append(recOffsets, Len(records) % Width)
      /\ records' = records /\ line' = line /\ stage' = "failed"
      /\ dump' = dump /\ alts' = alts
  BY <1>0 DEF AddRecord, TooMany, files
<1>2. TablesOK' /\ e \in Encoding /\ Reads(e, r)' BY <1>0, AddTables
<1>3. /\ line \in Nat /\ recOffsets \in Seq(Nat) /\ records \in Seq(Encoding \X Nat)
  BY DEF Typed
<1>4. recOffsets' \in Seq(Nat)
  <2>1. Len(records) \in Nat BY <1>3
  <2>2. Len(records) % Width \in Nat BY <2>1, BuildAssumption
  <2> QED BY <1>1, <1>3, <2>2, Appended
<1>5. Typed'
  <2> HIDE DEF Encoding
  <2> QED BY <1>1, <1>3, <1>4 DEF Typed
<1>6. Places' = Places BY <1>1 DEF Places, Kept, Dead
<1>7. /\ IsTable(t) /\ \A j \in 1..Len(t) : \E n \in Places : t[j] = dump[n].country
  BY <1>0, <1>1, <1>2, <1>6 DEF TablesOK
<1>8. Len(t) > MaxCountries
  <2>1. e.country + 1 \in 1..Len(t) /\ e.country \in Int BY <1>0, <1>2 DEF Reads, Encoding
  <2>2. Len(t) \in Nat BY <1>7 DEF IsTable
  <2> QED BY <1>1, <2>1, <2>2, BuildAssumption
<1>9. Cardinality({dump[n].country : n \in Places}) > MaxCountries
  BY <1>7, <1>8, TooManyCountries
<1>10. Blamed' BY <1>1, <1>6, <1>9 DEF Blamed, Cause
<1> QED BY <1>1, <1>5, <1>10

\* Nothing is collected at first.
LEMMA InitCollected == BuildInit => Collected
<1> SUFFICES ASSUME BuildInit PROVE Collected OBVIOUS
<1>1. /\ dump \in Seq(DumpLine) /\ alts \in Seq(AltLine)
      /\ stage = "records" /\ line = 0
      /\ records = <<>> /\ recOffsets = <<>>
      /\ countries = <<>> /\ regions = <<>> /\ features = <<>>
  BY DEF BuildInit
<1>2. Typed
  <2>1. Len(dump) \in Nat BY <1>1
  <2>2. recOffsets \in Seq(Nat) /\ records \in Seq(Encoding \X Nat) BY <1>1
  <2> HIDE DEF Encoding
  <2> QED BY <1>1, <2>1, <2>2 DEF Typed
<1>3. IsTable(<<>>) /\ Len(<<>>) = 0 BY DEF IsTable
<1>4. TablesOK
  <2>1. \A j \in 1..Len(countries) : \E n \in Places : countries[j] = dump[n].country
    BY <1>1, <1>3
  <2> QED BY <1>1, <1>3, <2>1 DEF TablesOK
<1>5. \A n \in Places : n \in 1..Len(dump) BY <1>2, PlacesFinite
<1>6. Through = {} BY <1>1, <1>5 DEF Through
<1>7. Cardinality(Through) = 0 BY <1>6, FS_EmptySet
<1>8. Packed BY <1>1, <1>3, <1>6, <1>7 DEF Packed
<1>9. Blamed BY <1>1 DEF Blamed
<1> QED BY <1>2, <1>4, <1>8, <1>9 DEF Collected

\* The causes are in the files.
LEMMA CauseStays ==
  ASSUME dump' = dump, alts' = alts
  PROVE  Cause' <=> Cause
<1>1. Places' = Places BY DEF Places, Kept, Dead
<1> QED BY <1>1 DEF Cause, Unreadable

\* No step of the build disturbs what has been collected.
LEMMA NextCollected == Collected /\ [BuildNext]_buildVars => Collected'
<1> SUFFICES ASSUME Collected, [BuildNext]_buildVars PROVE Collected' OBVIOUS
<1>0. Typed /\ TablesOK /\ Blamed /\ (stage # "failed" => Packed)
  BY DEF Collected
<1>1. CASE FailRow
  <2>1. /\ UNCHANGED <<files, collected>> /\ stage' = "failed" /\ line' = line
        /\ Unreadable(dump[line + 1])
    BY <1>1 DEF FailRow, Row
  <2>2. dump' = dump /\ alts' = alts /\ records' = records /\ recOffsets' = recOffsets
    BY <1>0, <2>1, NothingCollected
  <2>3. Blamed'
    <3>1. line + 1 \in DOMAIN dump BY <1>0, <1>1 DEF Typed, FailRow, ReadingRow
    <3>2. Cause BY <2>1, <3>1 DEF Cause
    <3>3. Cause' BY <2>2, <3>2, CauseStays
    <3> QED BY <3>3 DEF Blamed
  <2>4. TablesOK' BY <1>0, <2>1, TablesKept
  <2> HIDE DEF Encoding
  <2>5. Typed' BY <1>0, <2>1, <2>2 DEF Typed
  <2> QED BY <2>1, <2>3, <2>4, <2>5 DEF Collected
<1>2. CASE SkipRow
  <2>1. stage = "records" /\ stage' = stage /\ UNCHANGED <<files, collected>>
    BY <1>2 DEF SkipRow, ReadingRow
  <2>2. Typed' /\ Packed' BY <1>0, <1>2, <2>1, SkipPacked
  <2>3. TablesOK' BY <1>0, <2>1, TablesKept
  <2>4. Blamed' BY <2>1 DEF Blamed
  <2> QED BY <2>2, <2>3, <2>4 DEF Collected
<1>3. CASE AddRecord
  <2>1. stage = "records" BY <1>3 DEF AddRecord, ReadingRow
  <2>2. TablesOK' BY <1>0, <1>3, AddTables
  <2>3. CASE TooMany(Encoded(Row).country)
    <3>1. Typed' /\ Blamed' /\ stage' = "failed" BY <1>0, <1>3, <2>3, AddFails
    <3> QED BY <2>2, <3>1 DEF Collected
  <2>4. CASE ~TooMany(Encoded(Row).country)
    <3>1. Typed' /\ Packed' BY <1>0, <1>3, <2>1, <2>4, AddPacked
    <3>2. stage' = stage BY <1>3, <2>4 DEF AddRecord
    <3>3. Blamed' BY <2>1, <3>2 DEF Blamed
    <3> QED BY <2>2, <3>1, <3>3 DEF Collected
  <2> QED BY <2>3, <2>4
<1>4. CASE RecordsDone
  <2>1. stage = "records" /\ stage' = "altnames" BY <1>4 DEF RecordsDone
  <2>2. Typed' /\ TablesOK' /\ Packed' BY <1>0, <1>4, <2>1, DonePacked
  <2>3. Blamed' BY <2>1 DEF Blamed
  <2> QED BY <2>2, <2>3 DEF Collected
<1>5. CASE SkipAlt \/ AddAlt \/ AltsDone \/ WriteIndex
  <2>1. /\ UNCHANGED <<files, collected>> /\ line' \in Nat
        /\ stage \in {"altnames", "index"} /\ stage' \in {"altnames", "index"}
    BY <1>0, <1>5 DEF SkipAlt, AddAlt, AltsDone, WriteIndex, ReadingAlt, Typed
  <2>2. /\ dump' = dump /\ alts' = alts /\ Places' = Places
        /\ records' = records /\ recOffsets' = recOffsets
    BY <1>0, <2>1, NothingCollected
  <2>3. Through' = Through BY <2>1, <2>2 DEF Through
  <2>4. Packed' BY <1>0, <2>1, <2>3, PackedKept
  <2>5. TablesOK' BY <1>0, <2>1, TablesKept
  <2>6. Blamed' BY <2>1 DEF Blamed
  <2> HIDE DEF Encoding
  <2>7. Typed' BY <1>0, <2>1, <2>2 DEF Typed
  <2> QED BY <2>4, <2>5, <2>6, <2>7 DEF Collected
<1>6. CASE FailAlt
  <2>1. /\ UNCHANGED <<files, collected>> /\ stage' = "failed" /\ line' = line
        /\ alts[line + 1].form = "lost" /\ line + 1 \in DOMAIN alts
    BY <1>0, <1>6 DEF FailAlt, ReadingAlt, Alt, Typed
  <2>2. dump' = dump /\ alts' = alts /\ records' = records /\ recOffsets' = recOffsets
    BY <1>0, <2>1, NothingCollected
  <2>3. Blamed' BY <2>1, <2>2 DEF Blamed, Cause
  <2>4. TablesOK' BY <1>0, <2>1, TablesKept
  <2> HIDE DEF Encoding
  <2>5. Typed' BY <1>0, <2>1, <2>2 DEF Typed
  <2> QED BY <2>1, <2>3, <2>4, <2>5 DEF Collected
<1>7. CASE UNCHANGED buildVars
  <2>1. UNCHANGED <<files, collected>> /\ line' = line /\ stage' = stage
    BY <1>7 DEF buildVars
  <2>2. /\ dump' = dump /\ alts' = alts /\ Places' = Places
        /\ records' = records /\ recOffsets' = recOffsets
    BY <1>0, <2>1, NothingCollected
  <2>3. Through' = Through BY <2>1, <2>2 DEF Through
  <2>4. stage' # "failed" => Packed' BY <1>0, <2>1, <2>3, PackedKept
  <2>5. TablesOK' BY <1>0, <2>1, TablesKept
  <2>6. Blamed'
    <3>1. Cause' <=> Cause BY <2>2, CauseStays
    <3> QED BY <1>0, <2>1, <3>1 DEF Blamed
  <2> HIDE DEF Encoding
  <2>7. Typed' BY <1>0, <2>1, <2>2 DEF Typed
  <2> QED BY <2>4, <2>5, <2>6, <2>7 DEF Collected
<1> QED BY <1>1, <1>2, <1>3, <1>4, <1>5, <1>6, <1>7 DEF BuildNext, Failed

\* The invariant, as a property of every build.
LEMMA AlwaysCollected == BuildSpec => []Collected
BY InitCollected, NextCollected, PTL DEF BuildSpec

-----------------------------------------------------------------------------
\* The part of a sequence between two offsets into it.
LEMMA CutOut ==
  ASSUME NEW S, NEW s \in Seq(S), NEW a \in Nat, NEW b \in Nat, a < b, b <= Len(s)
  PROVE  /\ SubSeq(s, a + 1, b) \in Seq(S) /\ Len(SubSeq(s, a + 1, b)) = b - a
         /\ \A k \in 1..b - a : SubSeq(s, a + 1, b)[k] = s[a + k]
<1>1. \A n \in a + 1..b : s[n] \in S
  <2>1. Len(s) \in Nat OBVIOUS
  <2>2. \A n \in a + 1..b : n \in 1..Len(s) BY <2>1
  <2> QED BY <2>2
<1>2. PICK m \in Int : m = a + 1 OBVIOUS
<1>3. /\ SubSeq(s, m, b) \in Seq(S)
      /\ Len(SubSeq(s, m, b)) = IF m <= b THEN b - m + 1 ELSE 0
      /\ \A n \in 1..b - m + 1 : SubSeq(s, m, b)[n] = s[m + n - 1]
  BY <1>1, <1>2, SubSeqProperties
<1>4. \A n \in 1..b - a : n \in 1..b - m + 1 /\ m + n - 1 = a + n BY <1>2
<1>5. Len(SubSeq(s, m, b)) = b - a BY <1>2, <1>3
<1> QED BY <1>2, <1>3, <1>4, <1>5

\* An index short of the table's length is an entry of it.
LEMMA EntryThere ==
  ASSUME NEW table, NEW n, n < Len(table)
  PROVE  EntryOf(table, n) = table[n + 1]
BY Zenon DEF EntryOf

\* A record that stands where its ordinal says is decoded to the place it encodes.
LEMMA StandingReads ==
  ASSUME Typed, TablesOK, NEW e \in Encoding, NEW r, NEW o \in Nat,
         stage # "records", Reads(e, r), StandsAt(e, o + 1)
  PROVE  Decode(o) = [id |-> r.id, name |-> r.name, population |-> r.population,
                      kind |-> r.feature, cc |-> r.country, region |-> Region(r)]
<1>1. /\ recOffsets \in Seq(Nat) /\ records \in Seq(Encoding \X Nat)
      /\ Len(records) \in Nat /\ Len(recOffsets) \in Nat
  BY DEF Typed
<1>2. /\ o + 1 \in 1..Len(recOffsets) /\ o + 1 < Len(recOffsets)
      /\ recOffsets[o + 1] + e.size = EndOf(o + 1) /\ EndOf(o + 1) <= Len(records)
      /\ \A k \in 1..e.size : records[recOffsets[o + 1] + k] = <<e, k>>
  BY DEF StandsAt
<1>3. PICK start \in Nat, end \in Nat : start = recOffsets[o + 1] /\ end = recOffsets[o + 2]
  BY <1>1, <1>2
<1>4. EndOf(o + 1) = end
  <2>1. EndOf(o + 1) = recOffsets[(o + 1) + 1] BY <1>2 DEF EndOf
  <2>2. (o + 1) + 1 = o + 2 OBVIOUS
  <2> QED BY <1>3, <2>1, <2>2
<1>5. /\ e.size \in Nat \ {0} /\ Len(Cells(e)) = e.size /\ DOMAIN Cells(e) = 1..e.size
      /\ Cells(e) \in Seq(Encoding \X Nat) /\ \A k \in 1..e.size : Cells(e)[k] = <<e, k>>
  BY CellsOf
<1>6. start + e.size = end /\ end <= Len(records) BY <1>2, <1>3, <1>4
<1>15. e.size \in Nat \ {0} BY <1>5
<1>16. start < end /\ end - start = e.size BY <1>6, <1>15
<1> HIDE DEF Encoding
<1>7. SubSeq(records, start + 1, end) = Cells(e)
  <2>1. PICK S, c : S = Encoding \X Nat /\ c = SubSeq(records, start + 1, end) OBVIOUS
  <2>2. records \in Seq(S) BY <1>1, <2>1
  <2>3. c \in Seq(S) /\ Len(c) = e.size
    <3>1. /\ SubSeq(records, start + 1, end) \in Seq(S)
          /\ Len(SubSeq(records, start + 1, end)) = end - start
      BY <1>6, <1>16, <2>2, CutOut
    <3> QED BY <1>16, <2>1, <3>1
  <2>4. ASSUME NEW k \in 1..e.size PROVE c[k] = Cells(e)[k]
    <3>2. \A q \in 1..end - start : c[q] = records[start + q]
      <4>1. \A q \in 1..end - start : SubSeq(records, start + 1, end)[q] = records[start + q]
        BY <1>6, <1>16, <2>2, CutOut
      <4> QED BY <2>1, <4>1
    <3>3. c[k] = records[start + k] BY <1>16, <3>2
    <3>4. records[start + k] = <<e, k>> BY <1>2, <1>3
    <3> QED BY <1>5, <3>3, <3>4
  <2>5. Cells(e) \in Seq(S) BY <1>5, <2>1
  <2>6. c = Cells(e)
    BY <1>5, <2>3, <2>4, <2>5, SeqEqual
  <2> QED BY <2>1, <2>6
<1>8. RecordAt(o) = Cells(e)
  <2>1. ~(o + 1 >= Len(recOffsets)) BY <1>1, <1>2
  <2>2. ~(start > end \/ end > Len(records)) BY <1>1, <1>5, <1>6
  <2> QED BY <1>3, <1>7, <2>1, <2>2 DEF RecordAt
<1>9. Cells(e) # <<>> /\ Cells(e)[1][1] = e BY <1>5
<1>10. EntryOf(features, e.feature) = r.feature
  <2>1. e.feature + 1 \in 1..Len(features) /\ features[e.feature + 1] = r.feature
    BY DEF Reads
  <2>2. Len(features) \in Nat /\ e.feature \in Int BY DEF TablesOK, IsTable, Encoding
  <2>3. e.feature < Len(features) BY <2>1, <2>2
  <2> QED BY <2>1, <2>3, EntryThere
<1>11. EntryOf(countries, e.country) = r.country
  <2>1. e.country + 1 \in 1..Len(countries) /\ countries[e.country + 1] = r.country
    BY DEF Reads
  <2>2. Len(countries) \in Nat /\ e.country \in Int BY DEF TablesOK, IsTable, Encoding
  <2>3. e.country < Len(countries) BY <2>1, <2>2
  <2> QED BY <2>1, <2>3, EntryThere
<1>12. (IF e.region > 0 THEN EntryOf(regions, e.region) ELSE NoRegion) = Region(r)
  <2>1. CASE Region(r) = NoRegion BY <2>1 DEF Reads
  <2>2. CASE Region(r) # NoRegion
    <3>1. e.region \in 1..Len(regions) - 1 /\ regions[e.region + 1] = Region(r)
      BY <2>2 DEF Reads
    <3>2. Len(regions) \in Nat BY DEF TablesOK, IsTable
    <3>3. e.region > 0 /\ e.region < Len(regions) BY <3>1, <3>2
    <3>4. EntryOf(regions, e.region) = regions[e.region + 1] BY <3>3, EntryThere
    <3> QED BY <3>1, <3>3, <3>4
  <2> QED BY <2>1, <2>2
<1>13. e.id = r.id /\ e.population = r.population /\ e.name = r.name BY DEF Reads
<1>14. Decode(o) =
        [id |-> e.id, name |-> e.name, population |-> e.population,
         kind |-> EntryOf(features, e.feature), cc |-> EntryOf(countries, e.country),
         region |-> IF e.region > 0 THEN EntryOf(regions, e.region) ELSE NoRegion]
  BY <1>8, <1>9 DEF Decode
<1> HIDE DEF Region
<1> QED BY <1>10, <1>11, <1>12, <1>13, <1>14

\* Every place that was packed reads back as its row, its strings resolved through
\* the string tables, and the ordinal after the last reads as nothing (encodeRecord,
\* internRegion and writeRecordIndex against recordAt and decode), whatever the dump.
THEOREM BuildRecordsReadBack == BuildSpec => []RecordsReadBack
<1>1. Collected => RecordsReadBack
  <2> SUFFICES ASSUME Collected, stage = "index", Len(records) < Width
               PROVE  /\ \A n \in Places :
                           LET r == dump[n]
                           IN Decode(OrdinalOf(n)) =
                                [id |-> r.id, name |-> r.name, population |-> r.population,
                                 kind |-> r.feature, cc |-> r.country, region |-> Region(r)]
                      /\ Decode(Cardinality(Places)) = NoRecord
    BY DEF RecordsReadBack
  <2>1. Typed /\ TablesOK /\ Packed BY DEF Collected
  <2>2. Through = Places BY DEF Through
  <2>3. IsFiniteSet(Places) BY <2>1, PlacesFinite
  <2>4. ASSUME NEW n \in Places
        PROVE  LET r == dump[n]
               IN Decode(OrdinalOf(n)) =
                    [id |-> r.id, name |-> r.name, population |-> r.population,
                     kind |-> r.feature, cc |-> r.country, region |-> Region(r)]
    <3>1. PICK e \in Encoding : Reads(e, dump[n]) /\ StandsAt(e, OrdinalOf(n) + 1)
      BY <2>1, <2>2 DEF Packed, Stands
    <3>2. OrdinalOf(n) \in Nat
      <4>1. {m \in Places : m < n} \in SUBSET Places OBVIOUS
      <4>2. IsFiniteSet({m \in Places : m < n}) BY <2>3, <4>1, FS_Subset
      <4> QED BY <4>2, FS_CardinalityType DEF OrdinalOf
    <3> QED BY <2>1, <3>1, <3>2, StandingReads
  <2>5. Decode(Cardinality(Places)) = NoRecord
    <3>1. Len(recOffsets) = Cardinality(Places) + 1 BY <2>1, <2>2 DEF Packed
    <3>2. Cardinality(Places) \in Nat BY <2>3, FS_CardinalityType
    <3>3. RecordAt(Cardinality(Places)) = <<>> BY <3>1, <3>2 DEF RecordAt
    <3> QED BY <3>3 DEF Decode
  <2> QED BY <2>4, <2>5
<1> QED BY <1>1, AlwaysCollected, PTL

-----------------------------------------------------------------------------
\* A finite set of numbers has a greatest one.
LEMMA MaxIsGreatest ==
  ASSUME NEW S, IsFiniteSet(S), S # {}, S \subseteq Int
  PROVE  Max(S) \in S /\ \A n \in S : n <= Max(S)
<1> DEFINE f == [x \in S |-> -x]
<1>1. \A x \in S : f[x] = -x /\ f[x] \in Int OBVIOUS
<1> HIDE DEF f
<1>2. PICK m \in S : \A x \in S : f[m] <= f[x] BY <1>1, CheapestExists
<1>3. \A n \in S : m >= n BY <1>1, <1>2
<1> QED BY <1>2, <1>3 DEF Max

\* Two strings of bytes agree on their first n.
Agree(a, b, n) == n <= Len(a) /\ n <= Len(b) /\ \A k \in 1..n : a[k] = b[k]

\* They do, and a is before b by what follows.
Splits(a, b, n) == Agree(a, b, n) /\ n < Len(b) /\ (n < Len(a) => a[n + 1] < b[n + 1])

\* A part of a string of bytes from its start, byte by byte.
LEMMA PrefixOf ==
  ASSUME NEW a \in Seq(Nat), NEW n \in Nat, n <= Len(a)
  PROVE  /\ SubSeq(a, 1, n) \in Seq(Nat) /\ Len(SubSeq(a, 1, n)) = n
         /\ \A k \in 1..n : SubSeq(a, 1, n)[k] = a[k]
<1>1. Len(a) \in Nat OBVIOUS
<1>2. \A k \in 1..n : k \in 1..Len(a) /\ a[k] \in Nat BY <1>1
<1>3. PICK m \in Int : m = 1 OBVIOUS
<1>4. /\ SubSeq(a, m, n) \in Seq(Nat)
      /\ Len(SubSeq(a, m, n)) = IF m <= n THEN n - m + 1 ELSE 0
      /\ \A k \in 1..n - m + 1 : SubSeq(a, m, n)[k] = a[m + k - 1]
  BY <1>2, <1>3, SubSeqProperties
<1>5. \A k \in 1..n : k \in 1..n - m + 1 /\ m + k - 1 = k BY <1>3
<1>6. Len(SubSeq(a, m, n)) = n BY <1>3, <1>4
<1> QED BY <1>3, <1>4, <1>5, <1>6

\* Equal parts are what agreeing means.
LEMMA AgreeIsPrefix ==
  ASSUME NEW a \in Seq(Nat), NEW b \in Seq(Nat), NEW n \in Nat, n <= Len(a), n <= Len(b)
  PROVE  SubSeq(a, 1, n) = SubSeq(b, 1, n) <=> Agree(a, b, n)
<1>1. PICK s, t : s = SubSeq(a, 1, n) /\ t = SubSeq(b, 1, n) OBVIOUS
<1>2. s \in Seq(Nat) /\ Len(s) = n /\ \A k \in 1..n : s[k] = a[k] BY <1>1, PrefixOf
<1>3. t \in Seq(Nat) /\ Len(t) = n /\ \A k \in 1..n : t[k] = b[k] BY <1>1, PrefixOf
<1>4. ASSUME s = t PROVE Agree(a, b, n) BY <1>2, <1>3, <1>4 DEF Agree
<1>5. ASSUME Agree(a, b, n) PROVE s = t
  <2>1. \A k \in 1..Len(s) : s[k] = t[k] BY <1>2, <1>3, <1>5 DEF Agree
  <2> QED BY <1>2, <1>3, <2>1, SeqEqual
<1> QED BY <1>1, <1>4, <1>5

\* commonPrefixLen is the longest stretch on which two strings agree.
LEMMA CommonIsLongest ==
  ASSUME NEW a \in Seq(Nat), NEW b \in Seq(Nat)
  PROVE  /\ CommonPrefixLen(a, b) \in Nat /\ Agree(a, b, CommonPrefixLen(a, b))
         /\ \A n \in Nat : Agree(a, b, n) => n <= CommonPrefixLen(a, b)
<1>1. PICK S : S = {n \in 0..Len(a) : n <= Len(b) /\ SubSeq(a, 1, n) = SubSeq(b, 1, n)} OBVIOUS
<1>2. Len(a) \in Nat /\ Len(b) \in Nat OBVIOUS
<1>3. \A n \in Nat : n \in S <=> Agree(a, b, n)
  <2> SUFFICES ASSUME NEW n \in Nat PROVE n \in S <=> Agree(a, b, n) OBVIOUS
  <2>1. CASE n <= Len(a) /\ n <= Len(b) BY <1>1, <1>2, <2>1, AgreeIsPrefix
  <2>2. CASE ~(n <= Len(a) /\ n <= Len(b)) BY <1>1, <1>2, <2>2 DEF Agree
  <2> QED BY <2>1, <2>2
<1>4. S \subseteq Nat /\ 0 \in S
  <2>1. Agree(a, b, 0) BY <1>2 DEF Agree
  <2> QED BY <1>1, <1>2, <1>3, <2>1
<1>5. \A n \in S : n <= Len(a) BY <1>1, <1>2
<1>6. IsFiniteSet(S)
  <2>1. S \in SUBSET (0..Len(a)) BY <1>1
  <2>2. IsFiniteSet(0..Len(a)) BY <1>2, FS_Interval
  <2> QED BY <2>1, <2>2, FS_Subset
<1>7. CommonPrefixLen(a, b) = Max(S) BY <1>1 DEF CommonPrefixLen
<1>8. Max(S) \in S /\ \A n \in S : n <= Max(S)
  <2>1. S \subseteq Int /\ S # {} BY <1>4
  <2> QED BY <1>6, <2>1, MaxIsGreatest
<1> QED BY <1>3, <1>4, <1>7, <1>8

\* strings.Compare says "before" when the strings split somewhere.
LEMMA BeforeSplits ==
  ASSUME NEW a \in Seq(Nat), NEW b \in Seq(Nat)
  PROVE  NameBefore(a, b) <=> \E n \in Nat : Splits(a, b, n)
<1>1. PICK c : c = CommonPrefixLen(a, b) OBVIOUS
<1>2. c \in Nat /\ Agree(a, b, c) /\ \A n \in Nat : Agree(a, b, n) => n <= c
  BY <1>1, CommonIsLongest
<1>3. NameBefore(a, b) <=> c < Len(b) /\ (c < Len(a) => a[c + 1] < b[c + 1])
  BY <1>1 DEF NameBefore
<1>4. NameBefore(a, b) <=> Splits(a, b, c) BY <1>2, <1>3 DEF Splits
<1>5. ASSUME NEW n \in Nat, Splits(a, b, n) PROVE n = c
  <2>1. Agree(a, b, n) /\ n < Len(b) /\ (n < Len(a) => a[n + 1] < b[n + 1])
    BY <1>5 DEF Splits
  <2>2. n <= c BY <1>2, <2>1
  <2>3. CASE n < c
    <3>1. n + 1 \in 1..c /\ n < Len(a) /\ Len(a) \in Nat BY <1>2, <2>3 DEF Agree
    <3>2. a[n + 1] = b[n + 1] BY <1>2, <3>1 DEF Agree
    <3>3. n + 1 \in 1..Len(a) BY <3>1
    <3>4. a[n + 1] \in Nat BY <3>3
    <3> QED BY <2>1, <3>1, <3>2, <3>4
  <2> QED BY <1>2, <2>2, <2>3
<1> QED BY <1>2, <1>4, <1>5

\* The order of strings is one: no string is before itself ...
LEMMA NameIrreflexive ==
  ASSUME NEW a \in Seq(Nat)
  PROVE  ~NameBefore(a, a)
<1> SUFFICES ASSUME NEW n \in Nat, Splits(a, a, n) PROVE FALSE BY BeforeSplits
<1>1. n < Len(a) /\ a[n + 1] < a[n + 1] /\ Len(a) \in Nat BY DEF Splits
<1>2. n + 1 \in 1..Len(a) BY <1>1
<1>3. a[n + 1] \in Nat BY <1>2
<1> QED BY <1>1, <1>3

\* ... what comes before it comes before what comes after it ...
LEMMA NameTransitive ==
  ASSUME NEW a \in Seq(Nat), NEW b \in Seq(Nat), NEW c \in Seq(Nat),
         NameBefore(a, b), NameBefore(b, c)
  PROVE  NameBefore(a, c)
<1>1. PICK m \in Nat : Splits(a, b, m) BY BeforeSplits
<1>2. PICK n \in Nat : Splits(b, c, n) BY BeforeSplits
<1>3. /\ Len(a) \in Nat /\ Len(b) \in Nat /\ Len(c) \in Nat
      /\ \A k \in 1..Len(a) : a[k] \in Nat
      /\ \A k \in 1..Len(b) : b[k] \in Nat
      /\ \A k \in 1..Len(c) : c[k] \in Nat
  OBVIOUS
<1>4. /\ m <= Len(a) /\ m <= Len(b) /\ m < Len(b) /\ \A k \in 1..m : a[k] = b[k]
      /\ m < Len(a) => a[m + 1] < b[m + 1]
  BY <1>1 DEF Splits, Agree
<1>5. /\ n <= Len(b) /\ n <= Len(c) /\ n < Len(c) /\ \A k \in 1..n : b[k] = c[k]
      /\ n < Len(b) => b[n + 1] < c[n + 1]
  BY <1>2 DEF Splits, Agree
<1>6. CASE m < n
  <2>1. Agree(a, c, m) BY <1>3, <1>4, <1>5, <1>6 DEF Agree
  <2>2. m < Len(c) BY <1>3, <1>5, <1>6
  <2>3. b[m + 1] = c[m + 1] BY <1>5, <1>6
  <2>4. Splits(a, c, m) BY <1>4, <2>1, <2>2, <2>3 DEF Splits
  <2> QED BY <2>4, BeforeSplits
<1>7. CASE m = n
  <2>1. Agree(a, c, m) BY <1>3, <1>4, <1>5, <1>7 DEF Agree
  <2>2. ASSUME m < Len(a) PROVE a[m + 1] < c[m + 1]
    <3>0. m + 1 \in 1..Len(a) /\ m + 1 \in 1..Len(b) /\ m + 1 \in 1..Len(c)
      <4>1. PICK x \in Nat, y \in Nat, z \in Nat : x = Len(a) /\ y = Len(b) /\ z = Len(c)
        BY <1>3
      <4>2. m < x /\ m < y /\ m < z BY <1>4, <1>5, <1>7, <2>2, <4>1
      <4>3. m + 1 \in 1..x /\ m + 1 \in 1..y /\ m + 1 \in 1..z BY <4>2
      <4> QED BY <4>1, <4>3
    <3>1. a[m + 1] \in Nat /\ b[m + 1] \in Nat /\ c[m + 1] \in Nat
      BY <1>3, <3>0
    <3>2. a[m + 1] < b[m + 1] BY <1>4, <2>2
    <3>3. b[m + 1] < c[m + 1] BY <1>4, <1>5, <1>7
    <3>4. \A x, y, z \in Nat : x < y /\ y < z => x < z OBVIOUS
    <3> QED BY <3>1, <3>2, <3>3, <3>4
  <2>3. Splits(a, c, m) BY <1>5, <1>7, <2>1, <2>2 DEF Splits
  <2> QED BY <2>3, BeforeSplits
<1>8. CASE n < m
  <2>1. Agree(a, c, n)
    <3>1. \A k \in 1..n : a[k] = b[k] BY <1>4, <1>8
    <3>2. \A k \in 1..n : a[k] = c[k] BY <1>5, <3>1
    <3> QED BY <1>3, <1>4, <1>5, <1>8, <3>2 DEF Agree
  <2>2. a[n + 1] = b[n + 1] /\ n < Len(b) BY <1>3, <1>4, <1>8
  <2>3. Splits(a, c, n) BY <1>5, <2>1, <2>2 DEF Splits
  <2> QED BY <2>3, BeforeSplits
<1> QED BY <1>6, <1>7, <1>8

\* ... and of two strings one comes first.
LEMMA NameTotal ==
  ASSUME NEW a \in Seq(Nat), NEW b \in Seq(Nat), a # b
  PROVE  NameBefore(a, b) \/ NameBefore(b, a)
<1>1. PICK c : c = CommonPrefixLen(a, b) OBVIOUS
<1>2. c \in Nat /\ Agree(a, b, c) /\ \A n \in Nat : Agree(a, b, n) => n <= c
  BY <1>1, CommonIsLongest
<1>3. /\ Len(a) \in Nat /\ Len(b) \in Nat
      /\ \A k \in 1..Len(a) : a[k] \in Nat
      /\ \A k \in 1..Len(b) : b[k] \in Nat
  OBVIOUS
<1>4. Agree(b, a, c) /\ c <= Len(a) /\ c <= Len(b) BY <1>2 DEF Agree
<1>5. CASE c = Len(a) /\ c = Len(b)
  <2>1. \A k \in 1..Len(a) : a[k] = b[k] BY <1>2, <1>5 DEF Agree
  <2>2. a = b BY <1>3, <1>5, <2>1, SeqEqual
  <2> QED BY <2>2
<1>6. CASE c = Len(a) /\ c < Len(b)
  <2>1. Splits(a, b, c) BY <1>2, <1>3, <1>6 DEF Splits
  <2> QED BY <1>2, <2>1, BeforeSplits
<1>7. CASE c < Len(a) /\ c = Len(b)
  <2>1. Splits(b, a, c) BY <1>3, <1>4, <1>7 DEF Splits
  <2> QED BY <1>2, <2>1, BeforeSplits
<1>8. CASE c < Len(a) /\ c < Len(b)
  <2>1. a[c + 1] \in Nat /\ b[c + 1] \in Nat BY <1>2, <1>3, <1>8
  <2>2. a[c + 1] # b[c + 1]
    <3>1. SUFFICES ASSUME a[c + 1] = b[c + 1] PROVE FALSE OBVIOUS
    <3>2. Agree(a, b, c + 1) BY <1>2, <1>3, <1>8, <3>1 DEF Agree
    <3> QED BY <1>2, <3>2
  <2>3. CASE a[c + 1] < b[c + 1]
    <3>1. Splits(a, b, c) BY <1>2, <1>8, <2>3 DEF Splits
    <3> QED BY <1>2, <3>1, BeforeSplits
  <2>4. CASE b[c + 1] < a[c + 1]
    <3>1. Splits(b, a, c) BY <1>4, <1>8, <2>4 DEF Splits
    <3> QED BY <1>2, <3>1, BeforeSplits
  <2> QED BY <2>1, <2>2, <2>3, <2>4
<1> QED BY <1>2, <1>3, <1>4, <1>5, <1>6, <1>7, <1>8

\* The strings between two that agree agree with them.
LEMMA BetweenAgrees ==
  ASSUME NEW a \in Seq(Nat), NEW b \in Seq(Nat), NEW c \in Seq(Nat), NEW L \in Nat,
         ~NameBefore(b, a), ~NameBefore(c, b), Agree(a, c, L)
  PROVE  Agree(a, b, L)
<1>1. CASE a = b \/ b = c BY <1>1 DEF Agree
<1>2. CASE a # b /\ b # c
  <2>1. NameBefore(a, b) /\ NameBefore(b, c) BY <1>2, NameTotal
  <2>2. PICK m \in Nat : Splits(a, b, m) BY <2>1, BeforeSplits
  <2>3. PICK n \in Nat : Splits(b, c, n) BY <2>1, BeforeSplits
  <2>4. /\ Len(a) \in Nat /\ Len(b) \in Nat /\ Len(c) \in Nat
        /\ \A k \in 1..Len(a) : a[k] \in Nat
        /\ \A k \in 1..Len(b) : b[k] \in Nat
        /\ \A k \in 1..Len(c) : c[k] \in Nat
    OBVIOUS
  <2>5. /\ m <= Len(a) /\ m <= Len(b) /\ m < Len(b) /\ \A k \in 1..m : a[k] = b[k]
        /\ m < Len(a) => a[m + 1] < b[m + 1]
    BY <2>2 DEF Splits, Agree
  <2>6. /\ n <= Len(b) /\ n <= Len(c) /\ n < Len(c) /\ \A k \in 1..n : b[k] = c[k]
        /\ n < Len(b) => b[n + 1] < c[n + 1]
    BY <2>3 DEF Splits, Agree
  <2>7. L <= Len(a) /\ L <= Len(c) /\ \A k \in 1..L : a[k] = c[k] BY DEF Agree
  <2>8. ASSUME m < L PROVE FALSE
    <3>1. m < Len(a) /\ a[m + 1] = c[m + 1] /\ m < Len(c) BY <2>4, <2>7, <2>8
    <3>0. m + 1 \in 1..Len(a) /\ m + 1 \in 1..Len(b) /\ m + 1 \in 1..Len(c)
      <4>1. PICK x \in Nat, y \in Nat, z \in Nat : x = Len(a) /\ y = Len(b) /\ z = Len(c)
        BY <2>4
      <4>2. m < x /\ m < y /\ m < z BY <2>5, <3>1, <4>1
      <4>3. m + 1 \in 1..x /\ m + 1 \in 1..y /\ m + 1 \in 1..z BY <4>2
      <4> QED BY <4>1, <4>3
    <3>2. a[m + 1] \in Nat /\ b[m + 1] \in Nat /\ c[m + 1] \in Nat BY <2>4, <3>0
    <3>3. a[m + 1] < b[m + 1] BY <2>5, <3>1
    <3>4. CASE m < n
      <4>1. b[m + 1] = c[m + 1] BY <2>6, <3>4
      <4> QED BY <3>1, <3>2, <3>3, <4>1
    <3>5. CASE m = n
      <4>1. b[m + 1] < c[m + 1] BY <2>5, <2>6, <3>5
      <4> QED BY <3>1, <3>2, <3>3, <4>1
    <3>6. CASE n < m
      <4>1. n + 1 \in 1..m /\ n + 1 \in 1..L BY <2>8, <3>6
      <4>2. a[n + 1] = b[n + 1] /\ a[n + 1] = c[n + 1] BY <2>5, <2>7, <4>1
      <4>3. n < Len(b) /\ b[n + 1] < c[n + 1] BY <2>4, <2>5, <2>6, <3>6
      <4>4. b[n + 1] \in Nat BY <2>4, <4>3
      <4> QED BY <4>2, <4>3, <4>4
    <3> QED BY <3>4, <3>5, <3>6
  <2>9. L <= m BY <2>8
  <2> QED BY <2>4, <2>5, <2>7, <2>9 DEF Agree
<1> QED BY <1>1, <1>2

-----------------------------------------------------------------------------
\* The edges can be told apart by what the sorts look at: names are bytes, scores
\* and countries are numbers.
Comparable(e) ==
  e.name \in Seq(Nat) /\ e.ord \in Nat /\ recCountry[e.ord] \in Nat /\ EdgeScore(e) \in Int

\* An edge between a name and a record, however many records there are.
AnyEdge == [name : Name, ord : Nat, class : Class]

Sortable ==
  /\ keys \in Seq(AnyEdge)
  /\ \A n \in 1..Len(keys) : Comparable(keys[n])

\* No edge comes after one it should be before.
Ordered(byCountry) ==
  \A m, n \in 1..Len(keys) : m < n => ~EdgeBefore(byCountry, keys[n], keys[m])

\* The order of the edges: by four things, one after another.
LEMMA EdgeOrder ==
  ASSUME NEW x, NEW y, NEW z, NEW byCountry \in BOOLEAN,
         Comparable(x), Comparable(y), Comparable(z)
  PROVE  /\ ~EdgeBefore(byCountry, x, x)
         /\ EdgeBefore(byCountry, x, y) /\ EdgeBefore(byCountry, y, z)
              => EdgeBefore(byCountry, x, z)
         /\ ~EdgeBefore(byCountry, y, x) /\ ~EdgeBefore(byCountry, z, y)
              => ~EdgeBefore(byCountry, z, x)
<1> DEFINE C(e) == IF byCountry THEN recCountry[e.ord] ELSE 0
<1>1. /\ C(x) \in Nat /\ C(y) \in Nat /\ C(z) \in Nat
      /\ x.name \in Seq(Nat) /\ y.name \in Seq(Nat) /\ z.name \in Seq(Nat)
      /\ EdgeScore(x) \in Int /\ EdgeScore(y) \in Int /\ EdgeScore(z) \in Int
      /\ x.ord \in Nat /\ y.ord \in Nat /\ z.ord \in Nat
  BY DEF Comparable
<1>4. \A a \in {x.name, y.name, z.name} : ~NameBefore(a, a)
  BY <1>1, NameIrreflexive
<1>5. \A a, b \in {x.name, y.name, z.name} : a = b \/ NameBefore(a, b) \/ NameBefore(b, a)
  BY <1>1, NameTotal
<1>6. \A a, b, c \in {x.name, y.name, z.name} :
         NameBefore(a, b) /\ NameBefore(b, c) => NameBefore(a, c)
  BY <1>1, NameTransitive
<1>7. \A d, e \in {x, y, z} :
        EdgeBefore(byCountry, d, e) <=>
          \/ C(d) < C(e)
          \/ C(d) = C(e) /\ NameBefore(d.name, e.name)
          \/ C(d) = C(e) /\ d.name = e.name /\ EdgeScore(d) > EdgeScore(e)
          \/ /\ C(d) = C(e) /\ d.name = e.name /\ EdgeScore(d) = EdgeScore(e)
             /\ d.ord < e.ord
  BY <1>1, <1>4 DEF EdgeBefore
<1> HIDE DEF C
<1>8. ~EdgeBefore(byCountry, x, x) BY <1>1, <1>4, <1>7
<1>9. ASSUME EdgeBefore(byCountry, x, y), EdgeBefore(byCountry, y, z)
      PROVE  EdgeBefore(byCountry, x, z)
  BY <1>1, <1>4, <1>6, <1>7, <1>9
<1>10. ASSUME ~EdgeBefore(byCountry, y, x), ~EdgeBefore(byCountry, z, y)
       PROVE  ~EdgeBefore(byCountry, z, x)
  BY <1>1, <1>4, <1>5, <1>6, <1>7, <1>10
<1> QED BY <1>8, <1>9, <1>10

\* P is a strict total order of 1..N.
StrictOrder(N, P) ==
  /\ \A a \in 1..N : <<a, a>> \notin P
  /\ \A a, b, c \in 1..N : <<a, b>> \in P /\ <<b, c>> \in P => <<a, c>> \in P
  /\ \A a, b \in 1..N : a = b \/ <<a, b>> \in P \/ <<b, a>> \in P

\* How many come before each, and who has as many before it.
RankIn(N, P) == [a \in 1..N |-> Cardinality({b \in 1..N : <<b, a>> \in P})]
ByRank(N, rank) == [n \in 1..N |-> CHOOSE a \in 1..N : rank[a] = n - 1]

\* A function of which no two values are the same.
LEMMA InjectionOf ==
  ASSUME NEW D, NEW f \in [D -> D], \A a, b \in D : f[a] = f[b] => a = b
  PROVE  f \in Injection(D, D)
BY DEF Injection, IsInjective

\* To go where as many come before is to be sorted, whatever the order.
LEMMA RanksSort ==
  ASSUME NEW N \in Nat, NEW P, StrictOrder(N, P)
  PROVE  /\ ByRank(N, RankIn(N, P)) \in Bijection(1..N, 1..N)
         /\ \A m, n \in 1..N :
              m < n => <<ByRank(N, RankIn(N, P))[m], ByRank(N, RankIn(N, P))[n]>> \in P
<1>0. PICK rank, p : rank = RankIn(N, P) /\ p = ByRank(N, rank) OBVIOUS
<1> DEFINE D == 1..N
           B(a) == {b \in D : <<b, a>> \in P}
<1>1. IsFiniteSet(D) /\ Cardinality(D) = N
  <2>1. \A a, b \in Int : /\ IsFiniteSet(a..b)
                          /\ Cardinality(a..b) = IF a > b THEN 0 ELSE b - a + 1
    BY FS_Interval
  <2> QED BY <2>1
<1>2. \A a \in D : /\ IsFiniteSet(B(a)) /\ Cardinality(B(a)) \in Nat
                   /\ rank[a] = Cardinality(B(a)) /\ B(a) \in SUBSET D
  <2> SUFFICES ASSUME NEW a \in D
               PROVE /\ IsFiniteSet(B(a)) /\ Cardinality(B(a)) \in Nat
                     /\ rank[a] = Cardinality(B(a)) /\ B(a) \in SUBSET D
    OBVIOUS
  <2>1. B(a) \in SUBSET D OBVIOUS
  <2>2. rank[a] = Cardinality(B(a)) BY <1>0 DEF RankIn
  <2> HIDE DEF B, D
  <2>3. IsFiniteSet(B(a)) BY <1>1, <2>1, FS_Subset
  <2> QED BY <2>1, <2>2, <2>3, FS_CardinalityType
<1>3. \A a \in D : rank[a] + 1 \in D
  <2> SUFFICES ASSUME NEW a \in D PROVE rank[a] + 1 \in D OBVIOUS
  <2>1. a \notin B(a) BY DEF StrictOrder
  <2>2. B(a) \cup {a} \in SUBSET D OBVIOUS
  <2>3. D = 1..N OBVIOUS
  <2> HIDE DEF B, D
  <2>4. Cardinality(B(a) \cup {a}) <= N BY <1>1, <2>2, FS_Subset
  <2>5. Cardinality(B(a) \cup {a}) = IF a \in B(a) THEN Cardinality(B(a)) ELSE Cardinality(B(a)) + 1
    BY <1>2, FS_AddElement
  <2> QED BY <1>2, <2>1, <2>3, <2>4, <2>5
<1>4. \A a, b \in D : <<a, b>> \in P => rank[a] < rank[b]
  <2> SUFFICES ASSUME NEW a \in D, NEW b \in D, <<a, b>> \in P PROVE rank[a] < rank[b] OBVIOUS
  <2>1. a \notin B(a) BY DEF StrictOrder
  <2>2. B(a) \cup {a} \in SUBSET B(b) BY DEF StrictOrder
  <2> HIDE DEF B, D
  <2>3. Cardinality(B(a) \cup {a}) <= Cardinality(B(b)) BY <1>2, <2>2, FS_Subset
  <2>4. Cardinality(B(a) \cup {a}) = IF a \in B(a) THEN Cardinality(B(a)) ELSE Cardinality(B(a)) + 1
    BY <1>2, FS_AddElement
  <2>5. /\ rank[a] = Cardinality(B(a)) /\ Cardinality(B(a)) \in Nat
        /\ rank[b] = Cardinality(B(b)) /\ Cardinality(B(b)) \in Nat
    BY <1>2
  <2>6. Cardinality(B(a)) + 1 <= Cardinality(B(b)) BY <2>1, <2>3, <2>4
  <2>7. Cardinality(B(a)) < Cardinality(B(b)) BY <2>5, <2>6
  <2> QED BY <2>5, <2>7
<1>5. \A a, b \in D : rank[a] = rank[b] => a = b
  <2> SUFFICES ASSUME NEW a \in D, NEW b \in D, rank[a] = rank[b] PROVE a = b OBVIOUS
  <2>1. rank[a] \in Nat /\ rank[b] \in Nat BY <1>2
  <2>2. ~(rank[a] < rank[b]) /\ ~(rank[b] < rank[a]) BY <2>1
  <2> QED BY <1>4, <2>2 DEF StrictOrder
<1>6. \A n \in D : \E a \in D : rank[a] = n - 1
  <2> DEFINE r == [a \in D |-> rank[a] + 1]
  <2>1. r \in [D -> D] BY <1>3
  <2>2. \A a, b \in D : r[a] = r[b] => a = b
    <3> SUFFICES ASSUME NEW a \in D, NEW b \in D, r[a] = r[b] PROVE a = b OBVIOUS
    <3>1. rank[a] \in Nat /\ rank[b] \in Nat BY <1>2
    <3>2. rank[a] + 1 = rank[b] + 1 OBVIOUS
    <3> QED BY <1>5, <3>1, <3>2
  <2>3. (\A a \in D : r[a] = rank[a] + 1) /\ \A n \in D : n \in Int OBVIOUS
  <2> HIDE DEF r, D
  <2>4. r \in Injection(D, D) BY <2>1, <2>2 DEF Injection, IsInjective
  <2>5. r \in Surjection(D, D) BY <1>1, <2>4, FS_Injection
  <2>6. \A n \in D : \E a \in D : r[a] = n BY <2>5 DEF Surjection
  <2> SUFFICES ASSUME NEW n \in D PROVE \E a \in D : rank[a] = n - 1 OBVIOUS
  <2>7. PICK a \in D : r[a] = n BY <2>6
  <2>8. rank[a] \in Nat /\ rank[a] + 1 = n BY <1>2, <2>3, <2>7
  <2>9. n \in Int BY <2>3
  <2>10. rank[a] = n - 1 BY <2>8, <2>9
  <2> QED BY <2>10
<1>7. \A n \in D : p[n] \in D /\ rank[p[n]] = n - 1
  <2> SUFFICES ASSUME NEW n \in D PROVE p[n] \in D /\ rank[p[n]] = n - 1 OBVIOUS
  <2>1. p[n] = CHOOSE a \in D : rank[a] = n - 1 BY <1>0 DEF ByRank
  <2> QED BY <1>6, <2>1
<1>8. p \in [D -> D] BY <1>0, <1>7 DEF ByRank
<1>9. \A m, n \in D : p[m] = p[n] => m = n
  <2> SUFFICES ASSUME NEW m \in D, NEW n \in D, p[m] = p[n] PROVE m = n OBVIOUS
  <2>1. rank[p[m]] = m - 1 /\ rank[p[n]] = n - 1 BY <1>7
  <2>2. m \in Int /\ n \in Int OBVIOUS
  <2>3. m - 1 = n - 1 BY <2>1
  <2> QED BY <2>2, <2>3
<1>10. p \in Injection(D, D)
  <2> HIDE DEF D
  <2> QED BY <1>8, <1>9, InjectionOf
<1>11. p \in Bijection(D, D)
  <2> HIDE DEF D
  <2>1. p \in Surjection(D, D) BY <1>1, <1>10, FS_Injection
  <2> QED BY <1>10, <2>1 DEF Bijection
<1>12. ASSUME NEW m \in D, NEW n \in D, m < n PROVE <<p[m], p[n]>> \in P
  <2>1. p[m] \in D /\ p[n] \in D /\ rank[p[m]] = m - 1 /\ rank[p[n]] = n - 1 BY <1>7
  <2>2. ~(rank[p[n]] < rank[p[m]]) /\ rank[p[m]] # rank[p[n]] BY <1>12, <2>1
  <2>3. p[m] # p[n] /\ <<p[n], p[m]>> \notin P BY <1>4, <2>1, <2>2
  <2> QED BY <2>1, <2>3 DEF StrictOrder
<1> QED BY <1>0, <1>11, <1>12

\* sortKeys puts the edges in order, each of them as often as it was there.
LEMMA KeysSort ==
  ASSUME Sortable, NEW byCountry \in BOOLEAN
  PROVE  \E p \in Bijection(1..Len(keys), 1..Len(keys)) :
           /\ SortedKeys(byCountry) = [n \in 1..Len(keys) |-> keys[p[n]]]
           /\ \A m, n \in 1..Len(keys) :
                m < n => ~EdgeBefore(byCountry, keys[p[n]], keys[p[m]])
<1> DEFINE D == 1..Len(keys)
           P == {x \in D \X D : Precedes(byCountry, x[1], x[2])}
           rank == RankIn(Len(keys), P)
           p == ByRank(Len(keys), rank)
<1>1. DOMAIN keys = D /\ Len(keys) \in Nat BY DEF Sortable
<1>2. \A a, b \in D : <<a, b>> \in P <=> Precedes(byCountry, a, b) OBVIOUS
<1>3. \A a \in D : {b \in D : <<b, a>> \in P} = {b \in DOMAIN keys : Precedes(byCountry, b, a)}
  BY <1>1, <1>2
<1>4. rank = [a \in DOMAIN keys |-> Rank(byCountry, a)]
  BY <1>1, <1>3 DEF Rank, RankIn
<1>5. SortedKeys(byCountry) = [n \in D |-> keys[p[n]]]
  <2>1. SortedKeys(byCountry) =
          [n \in DOMAIN keys |-> keys[CHOOSE a \in DOMAIN keys : rank[a] = n - 1]]
    <3> HIDE DEF rank
    <3> QED BY <1>4 DEF SortedKeys
  <2>2. p = [n \in DOMAIN keys |-> CHOOSE a \in DOMAIN keys : rank[a] = n - 1]
    <3>1. p = [n \in D |-> CHOOSE a \in D : rank[a] = n - 1] BY DEF ByRank
    <3> HIDE DEF rank, p, D
    <3> QED BY <1>1, <3>1
  <2> HIDE DEF rank, p
  <2> QED BY <1>1, <2>1, <2>2
<1>6. \A a, b, c \in D :
        /\ ~EdgeBefore(byCountry, keys[a], keys[a])
        /\ EdgeBefore(byCountry, keys[a], keys[b]) /\ EdgeBefore(byCountry, keys[b], keys[c])
             => EdgeBefore(byCountry, keys[a], keys[c])
        /\ ~EdgeBefore(byCountry, keys[b], keys[a]) /\ ~EdgeBefore(byCountry, keys[c], keys[b])
             => ~EdgeBefore(byCountry, keys[c], keys[a])
  <2> HIDE DEF P, rank, p
  <2> SUFFICES ASSUME NEW a \in D, NEW b \in D, NEW c \in D
      PROVE  /\ ~EdgeBefore(byCountry, keys[a], keys[a])
             /\ EdgeBefore(byCountry, keys[a], keys[b]) /\ EdgeBefore(byCountry, keys[b], keys[c])
                  => EdgeBefore(byCountry, keys[a], keys[c])
             /\ ~EdgeBefore(byCountry, keys[b], keys[a]) /\ ~EdgeBefore(byCountry, keys[c], keys[b])
                  => ~EdgeBefore(byCountry, keys[c], keys[a])
    OBVIOUS
  <2>1. PICK x, y, z : x = keys[a] /\ y = keys[b] /\ z = keys[c] OBVIOUS
  <2>2. Comparable(x) /\ Comparable(y) /\ Comparable(z) BY <2>1 DEF Sortable
  <2>3. /\ ~EdgeBefore(byCountry, x, x)
        /\ EdgeBefore(byCountry, x, y) /\ EdgeBefore(byCountry, y, z)
             => EdgeBefore(byCountry, x, z)
        /\ ~EdgeBefore(byCountry, y, x) /\ ~EdgeBefore(byCountry, z, y)
             => ~EdgeBefore(byCountry, z, x)
    BY <2>2, EdgeOrder
  <2> QED BY <2>1, <2>3
<1> HIDE DEF rank, p, P
<1>7. \A a \in D : ~Precedes(byCountry, a, a) BY <1>1, <1>6 DEF Precedes
<1>8. \A a, b, c \in D : Precedes(byCountry, a, b) /\ Precedes(byCountry, b, c)
                           => Precedes(byCountry, a, c)
  <2> SUFFICES ASSUME NEW a \in D, NEW b \in D, NEW c \in D,
                      Precedes(byCountry, a, b), Precedes(byCountry, b, c)
               PROVE  Precedes(byCountry, a, c)
    OBVIOUS
  <2> DEFINE E(k, l) == EdgeBefore(byCountry, keys[k], keys[l])
  <2>1. (E(a, b) \/ (a < b /\ ~E(b, a))) /\ (E(b, c) \/ (b < c /\ ~E(c, b)))
    BY DEF Precedes
  <2>2. \A k, l, m \in {a, b, c} :
          /\ ~E(k, k) /\ (E(k, l) /\ E(l, m) => E(k, m))
          /\ (~E(l, k) /\ ~E(m, l) => ~E(m, k))
    BY <1>6
  <2> HIDE DEF E
  <2>3. ~E(b, a) /\ ~E(c, b) BY <2>1, <2>2
  <2>4. ~E(c, a) BY <2>2, <2>3
  <2>5. E(a, c) \/ a < c
    <3>1. CASE E(a, b)
      <4>1. SUFFICES ASSUME ~E(a, c) PROVE FALSE OBVIOUS
      <4>2. ~E(a, b) BY <2>2, <2>3, <4>1
      <4> QED BY <3>1, <4>2
    <3>2. CASE E(b, c)
      <4>1. SUFFICES ASSUME ~E(a, c) PROVE FALSE OBVIOUS
      <4>2. ~E(b, c) BY <2>2, <2>3, <4>1
      <4> QED BY <3>2, <4>2
    <3>3. CASE a < b /\ b < c BY <1>1, <3>3
    <3> QED BY <2>1, <3>1, <3>2, <3>3
  <2> QED BY <2>4, <2>5 DEF Precedes, E
<1>9. \A a, b \in D : a = b \/ Precedes(byCountry, a, b) \/ Precedes(byCountry, b, a)
  BY <1>1, <1>6 DEF Precedes
<1>10. StrictOrder(Len(keys), P)
  BY <1>2, <1>7, <1>8, <1>9 DEF StrictOrder
<1>11. /\ p \in Bijection(D, D) /\ \A m, n \in D : m < n => <<p[m], p[n]>> \in P
  BY <1>1, <1>10, RanksSort DEF p, rank
<1>12. \A n \in D : p[n] \in D BY <1>11 DEF Bijection, Injection
<1>13. ASSUME NEW m \in D, NEW n \in D, m < n
       PROVE  ~EdgeBefore(byCountry, keys[p[n]], keys[p[m]])
  <2>1. Precedes(byCountry, p[m], p[n]) BY <1>2, <1>11, <1>12, <1>13
  <2> QED BY <1>6, <1>12, <2>1 DEF Precedes
<1> QED BY <1>5, <1>11, <1>13

-----------------------------------------------------------------------------
\* What is known of every record that has a country.
RecordsOK ==
  /\ DOMAIN recCountry \subseteq Nat
  /\ \A o \in DOMAIN recCountry :
       recCountry[o] \in Nat /\ o \in DOMAIN prominence /\ prominence[o] \in Int

\* The edges are edges of such records.
KeysOK ==
  /\ keys \in Seq(AnyEdge)
  /\ \A n \in 1..Len(keys) : keys[n].ord \in DOMAIN recCountry

\* Nothing of the index is written yet.
Unwritten ==
  /\ i = 1 /\ levels = FreshLevels /\ counts = NoCounts
  /\ hots = <<>> /\ hotFST = <<>> /\ ccHotFST = <<>> /\ postings = <<>> /\ fst = <<>>

\* What the collection leaves for writeIndex.
Gathered ==
  /\ \A n \in DOMAIN dump : <<dump[n].population, dump[n].feature>> \in DOMAIN ProminenceOf
  /\ RecordsOK /\ KeysOK
  /\ stage # "failed" => \A x \in DOMAIN idToOrd : idToOrd[x] \in DOMAIN recCountry
  /\ stage # "index" => pc = "start"
  /\ pc = "start" => Unwritten

\* Such edges can be sorted.
LEMMA EdgesSortable ==
  ASSUME RecordsOK, KeysOK
  PROVE  Sortable
<1> SUFFICES ASSUME NEW n \in 1..Len(keys) PROVE Comparable(keys[n])
  BY DEF Sortable, KeysOK
<1>1. keys[n] \in AnyEdge BY DEF KeysOK
<1>2. /\ keys[n].name \in Seq(Nat) /\ keys[n].ord \in Nat /\ keys[n].class \in Class
  BY <1>1, WriterAssumption DEF AnyEdge
<1>3. keys[n].ord \in DOMAIN recCountry BY DEF KeysOK
<1>4. recCountry[keys[n].ord] \in Nat /\ prominence[keys[n].ord] \in Int
  BY <1>3 DEF RecordsOK
<1>5. Penalty[keys[n].class] \in Nat BY <1>2, WriterAssumption
<1>6. EdgeScore(keys[n]) \in Int BY <1>4, <1>5 DEF EdgeScore
<1> QED BY <1>2, <1>4, <1>6 DEF Comparable

\* A name becomes an edge of its record, or none when it folds to nothing or to too much.
LEMMA KeyForType ==
  ASSUME NEW s \in DOMAIN Fold, NEW o \in Nat, NEW c \in 0..3
  PROVE  /\ KeyFor(s, o, c) \in Seq(AnyEdge)
         /\ \A n \in 1..Len(KeyFor(s, o, c)) : KeyFor(s, o, c)[n].ord = o
<1>1. Fold[s] \in Seq(Nat) /\ (Len(Fold[s]) \in 1..MaxKeyLen => Fold[s] \in Name)
  BY BuildAssumption
<1>2. CASE Fold[s] = <<>> \/ Len(Fold[s]) > MaxKeyLen
  BY <1>2 DEF KeyFor
<1>3. CASE ~(Fold[s] = <<>> \/ Len(Fold[s]) > MaxKeyLen)
  <2>1. Len(Fold[s]) \in 1..MaxKeyLen BY <1>1, <1>3, BuildAssumption
  <2>2. PICK e : e = [name |-> Fold[s], ord |-> o, class |-> c] OBVIOUS
  <2>3. e \in AnyEdge /\ e.ord = o BY <1>1, <2>1, <2>2, BuildAssumption DEF AnyEdge
  <2>4. KeyFor(s, o, c) = <<e>> BY <1>3, <2>2 DEF KeyFor
  <2> HIDE DEF AnyEdge
  <2> QED BY <2>3, <2>4
<1> QED BY <1>2, <1>3

\* More edges of records that are known.
LEMMA MoreKeys ==
  ASSUME NEW more \in Seq(AnyEdge), KeysOK, NEW o,
         \A n \in 1..Len(more) : more[n].ord = o,
         keys' = keys \o more, DOMAIN recCountry \subseteq DOMAIN recCountry',
         o \in DOMAIN recCountry'
  PROVE  KeysOK'
<1>1. keys \in Seq(AnyEdge) /\ \A n \in 1..Len(keys) : keys[n].ord \in DOMAIN recCountry
  BY DEF KeysOK
<1>2. Len(keys) \in Nat /\ Len(more) \in Nat BY <1>1
<1> HIDE DEF AnyEdge
<1>3. keys' \in Seq(AnyEdge) /\ Len(keys') = Len(keys) + Len(more)
  BY <1>1, Joined
<1>4. ASSUME NEW n \in 1..Len(keys') PROVE keys'[n].ord \in DOMAIN recCountry'
  <2>1. CASE n \in 1..Len(keys)
    <3>1. keys'[n] = keys[n] BY <1>1, <2>1, Joined
    <3> QED BY <1>1, <2>1, <3>1
  <2>2. CASE n > Len(keys)
    <3>1. PICK k \in 1..Len(more) : n = Len(keys) + k
      <4>1. n - Len(keys) \in 1..Len(more) BY <1>2, <1>3, <2>2
      <4> QED BY <1>2, <4>1
    <3>2. keys'[n] = more[k] BY <1>1, <3>1, Joined
    <3> QED BY <3>2
  <2> QED BY <1>2, <1>3, <2>1, <2>2
<1> QED BY <1>3, <1>4 DEF KeysOK

\* Before the files are read nothing is gathered.
LEMMA InitGathered == BuildInit => Gathered
<1> SUFFICES ASSUME BuildInit PROVE Gathered OBVIOUS
<1>1. /\ keys = <<>> /\ recCountry = <<>> /\ prominence = <<>> /\ idToOrd = <<>>
      /\ Unwritten /\ stage = "records" /\ pc = "start"
      /\ \A n \in DOMAIN dump : <<dump[n].population, dump[n].feature>> \in DOMAIN ProminenceOf
  BY DEF BuildInit, Init, Unwritten
<1>2. DOMAIN recCountry = {} /\ DOMAIN idToOrd = {} BY <1>1
<1>3. KeysOK BY <1>1 DEF KeysOK
<1> QED BY <1>1, <1>2, <1>3 DEF Gathered, RecordsOK

\* The names of a row become edges of its record.
LEMMA OwnKeysType ==
  ASSUME NEW r \in DumpLine, NEW o \in Nat
  PROVE  /\ OwnKeys(r, o) \in Seq(AnyEdge)
         /\ \A n \in 1..Len(OwnKeys(r, o)) : OwnKeys(r, o)[n].ord = o
<1>1. r.name \in DOMAIN Fold /\ r.ascii \in DOMAIN Fold BY DEF DumpLine
<1>2. 0 \in 0..3 OBVIOUS
<1>3. PICK a, b : a = KeyFor(r.name, o, 0)
                  /\ b = IF r.ascii \in {NoName, r.name} THEN <<>> ELSE KeyFor(r.ascii, o, 0)
  OBVIOUS
<1>4. /\ a \in Seq(AnyEdge) /\ \A n \in 1..Len(a) : a[n].ord = o
  BY <1>1, <1>2, <1>3, KeyForType
<1>5. /\ b \in Seq(AnyEdge) /\ \A n \in 1..Len(b) : b[n].ord = o
  <2>1. CASE r.ascii \in {NoName, r.name}
    <3>1. b = <<>> BY <1>3, <2>1
    <3> QED BY <3>1
  <2>2. CASE r.ascii \notin {NoName, r.name}
    <3>1. b = KeyFor(r.ascii, o, 0) BY <1>3, <2>2
    <3> QED BY <1>1, <1>2, <3>1, KeyForType
  <2> QED BY <2>1, <2>2
<1> HIDE DEF AnyEdge
<1>6. OwnKeys(r, o) = a \o b BY <1>3 DEF OwnKeys
<1>7. a \o b \in Seq(AnyEdge) /\ Len(a \o b) = Len(a) + Len(b) BY <1>4, <1>5, Joined
<1>8. ASSUME NEW n \in 1..Len(a \o b) PROVE (a \o b)[n].ord = o
  <2>1. CASE n \in 1..Len(a)
    <3>1. (a \o b)[n] = a[n] BY <1>4, <1>5, <2>1, Joined
    <3> QED BY <1>4, <2>1, <3>1
  <2>2. CASE n \notin 1..Len(a)
    <3>1. Len(a) \in Nat /\ Len(b) \in Nat BY <1>4, <1>5
    <3>2. PICK k \in 1..Len(b) : n = Len(a) + k
      <4>1. n - Len(a) \in 1..Len(b) /\ n \in Int BY <1>7, <2>2, <3>1
      <4>2. n = Len(a) + (n - Len(a)) BY <3>1, <4>1
      <4> QED BY <4>1, <4>2
    <3>3. (a \o b)[n] = b[k] BY <1>4, <1>5, <3>2, Joined
    <3> QED BY <1>5, <3>3
  <2> QED BY <2>1, <2>2
<1> QED BY <1>6, <1>7, <1>8

\* Adding a record leaves edges of records that have a country, and scores.
LEMMA AddGathers ==
  ASSUME Typed, TablesOK, Gathered, AddRecord
  PROVE  Gathered'
<1>0. PICK r, o, e : r = Row /\ o = Len(recOffsets) /\ e = Encoded(Row) OBVIOUS
<1>1. /\ ReadingRow /\ r.class = "P" /\ Kept(r)
      /\ idToOrd' = Put(idToOrd, r.id, o)
      /\ prominence' = Put(prominence, o, ProminenceOf[<<r.population, r.feature>>])
      /\ IF TooMany(e.country)
         THEN stage' = "failed" /\ UNCHANGED <<line, recCountry, records, keys>>
         ELSE /\ recCountry' = Put(recCountry, o, e.country % MaxCountries)
              /\ keys' = keys \o OwnKeys(r, o) /\ stage' = stage
      /\ UNCHANGED <<files, writing>>
  BY <1>0 DEF AddRecord
<1>2. r \in DumpLine /\ r = dump[line + 1] /\ line + 1 \in Places
  BY <1>0, <1>1, RowIsPlace
<1>3. <<r.population, r.feature>> \in DOMAIN ProminenceOf
  BY <1>2 DEF Gathered, Places
<1>4. PICK v \in Int : v = ProminenceOf[<<r.population, r.feature>>] BY <1>3, BuildAssumption
<1>5. o \in Nat BY <1>0 DEF Typed
<1>6. e \in Encoding /\ e.country \in Int
  <2>1. e \in Encoding BY <1>0, AddTables
  <2> QED BY <2>1 DEF Encoding
<1>7. stage = "records" /\ pc = "start" /\ Unwritten
  BY <1>1 DEF ReadingRow, Gathered
<1>8. pc' = "start" /\ Unwritten' /\ dump' = dump
  BY <1>1, <1>7 DEF writing, files, Unwritten, FreshLevels, NoCounts
<1>9. /\ DOMAIN prominence' = DOMAIN prominence \cup {o} /\ prominence'[o] \in Int
      /\ \A p \in DOMAIN prominence : p # o => prominence'[p] = prominence[p]
  <2>1. prominence' = Put(prominence, o, v) BY <1>1, <1>4
  <2> QED BY <2>1 DEF Put
<1>11. CASE TooMany(e.country)
  <2>1. recCountry' = recCountry /\ keys' = keys /\ stage' = "failed" BY <1>1, <1>11
  <2>2. RecordsOK' BY <1>5, <1>9, <2>1 DEF Gathered, RecordsOK
  <2>3. KeysOK' BY <2>1 DEF Gathered, KeysOK
  <2> QED BY <1>8, <2>1, <2>2, <2>3 DEF Gathered
<1>12. CASE ~TooMany(e.country)
  <2>1. /\ recCountry' = Put(recCountry, o, e.country % MaxCountries)
        /\ keys' = keys \o OwnKeys(r, o) /\ stage' = "records"
    BY <1>1, <1>7, <1>12
  <2>2. PICK c \in Nat : c = e.country % MaxCountries
    <3>1. MaxCountries \in Nat \ {0} BY BuildAssumption
    <3> QED BY <1>6, <3>1
  <2>3. /\ DOMAIN recCountry' = DOMAIN recCountry \cup {o} /\ recCountry'[o] \in Nat
        /\ \A p \in DOMAIN recCountry : p # o => recCountry'[p] = recCountry[p]
    <3>1. recCountry' = Put(recCountry, o, c) BY <2>1, <2>2
    <3> QED BY <2>2, <3>1 DEF Put
  <2>4. RecordsOK' BY <1>5, <1>9, <2>3 DEF Gathered, RecordsOK
  <2>5. KeysOK'
    <3>1. /\ OwnKeys(r, o) \in Seq(AnyEdge)
          /\ \A n \in 1..Len(OwnKeys(r, o)) : OwnKeys(r, o)[n].ord = o
      BY <1>2, <1>5, OwnKeysType
    <3>2. KeysOK /\ DOMAIN recCountry \subseteq DOMAIN recCountry' /\ o \in DOMAIN recCountry'
      BY <2>3 DEF Gathered
    <3> QED BY <2>1, <3>1, <3>2, MoreKeys
  <2>6. \A x \in DOMAIN idToOrd' : idToOrd'[x] \in DOMAIN recCountry'
    <3>1. \A x \in DOMAIN idToOrd : idToOrd[x] \in DOMAIN recCountry
      BY <1>7 DEF Gathered
    <3>2. /\ DOMAIN idToOrd' = DOMAIN idToOrd \cup {r.id} /\ idToOrd'[r.id] = o
          /\ \A x \in DOMAIN idToOrd : x # r.id => idToOrd'[x] = idToOrd[x]
      <4>1. PICK x : x = r.id OBVIOUS
      <4>2. idToOrd' = Put(idToOrd, x, o) BY <1>1, <4>1
      <4> QED BY <4>1, <4>2 DEF Put
    <3> QED BY <2>3, <3>1, <3>2
  <2> QED BY <1>8, <2>1, <2>4, <2>5, <2>6 DEF Gathered
<1> QED BY <1>11, <1>12

\* An alternate name becomes an edge of a record that has a country.
LEMMA AltGathers ==
  ASSUME Typed, Gathered, AddAlt
  PROVE  Gathered'
<1>1. /\ ReadingAlt /\ Wanted(Alt)
      /\ keys' = keys \o KeyFor(Alt.name, idToOrd[Alt.id], ClassOf(Alt))
      /\ UNCHANGED <<files, stage, collected, recCountry, prominence, writing>>
  BY DEF AddAlt
<1>2. stage = "altnames" /\ line < Len(alts) /\ line \in Nat /\ alts \in Seq(AltLine)
  BY <1>1 DEF ReadingAlt, Typed
<1>3. Alt \in AltLine
  <2>1. line + 1 \in 1..Len(alts) BY <1>2
  <2> HIDE DEF AltLine
  <2> QED BY <1>2, <2>1 DEF Alt
<1>4. Alt.name \in DOMAIN Fold /\ ClassOf(Alt) \in 0..3
  <2>1. Alt.name \in DOMAIN Fold BY <1>3 DEF AltLine
  <2>2. ClassOf(Alt) \in 0..3 BY DEF ClassOf
  <2> QED BY <2>1, <2>2
<1>5. idToOrd[Alt.id] \in DOMAIN recCountry BY <1>1, <1>2 DEF Wanted, Gathered
<1>6. idToOrd[Alt.id] \in Nat BY <1>5 DEF Gathered, RecordsOK
<1>7. /\ dump' = dump /\ recCountry' = recCountry /\ prominence' = prominence
      /\ idToOrd' = idToOrd /\ stage' = stage /\ pc' = pc /\ (Unwritten => Unwritten')
  BY <1>1 DEF files, collected, writing, Unwritten, FreshLevels, NoCounts
<1>8. KeysOK'
  <2>1. PICK o, more : o = idToOrd[Alt.id] /\ more = KeyFor(Alt.name, o, ClassOf(Alt)) OBVIOUS
  <2>2. more \in Seq(AnyEdge) /\ \A n \in 1..Len(more) : more[n].ord = o
    BY <1>4, <1>6, <2>1, KeyForType
  <2>3. keys' = keys \o more BY <1>1, <2>1
  <2>4. KeysOK /\ DOMAIN recCountry \subseteq DOMAIN recCountry' /\ o \in DOMAIN recCountry'
    BY <1>5, <1>7, <2>1 DEF Gathered
  <2> QED BY <2>2, <2>3, <2>4, MoreKeys
<1>9. RecordsOK' BY <1>7 DEF Gathered, RecordsOK
<1> QED BY <1>2, <1>7, <1>8, <1>9 DEF Gathered

-----------------------------------------------------------------------------
\* Sorting leaves the same edges, in order.
LEMMA SortingOrders ==
  ASSUME RecordsOK, KeysOK, NEW byCountry \in BOOLEAN, keys' = SortedKeys(byCountry),
         recCountry' = recCountry, prominence' = prominence
  PROVE  /\ KeysOK' /\ Ordered(byCountry)' /\ Len(keys') = Len(keys)
         /\ ToSet(keys') = ToSet(keys)
<1>1. Sortable BY EdgesSortable
<1>2. PICK p \in Bijection(1..Len(keys), 1..Len(keys)) :
        /\ SortedKeys(byCountry) = [n \in 1..Len(keys) |-> keys[p[n]]]
        /\ \A m, n \in 1..Len(keys) :
             m < n => ~EdgeBefore(byCountry, keys[p[n]], keys[p[m]])
  BY <1>1, KeysSort
<1>3. PICK N \in Nat, s \in Seq(AnyEdge) :
        N = Len(keys) /\ s = keys /\ DOMAIN s = 1..N /\ \A n \in 1..N : s[n] \in AnyEdge
  BY DEF KeysOK
<1>4. /\ \A n \in 1..N : p[n] \in 1..N
      /\ \A n \in 1..N : \E m \in 1..N : p[m] = n
  BY <1>3 DEF Bijection, Injection, Surjection
<1>5. keys' = [n \in 1..N |-> s[p[n]]] BY <1>2, <1>3
<1> HIDE DEF AnyEdge
<1>6. keys' \in Seq(AnyEdge) /\ Len(keys') = N BY <1>3, <1>4, <1>5
<1>7. \A n \in 1..N : keys'[n] = s[p[n]] BY <1>5
<1>8. KeysOK'
  <2>1. \A n \in 1..N : s[n].ord \in DOMAIN recCountry BY <1>3 DEF KeysOK
  <2>2. \A n \in 1..N : keys'[n].ord \in DOMAIN recCountry' BY <1>4, <1>7, <2>1
  <2> QED BY <1>6, <2>2 DEF KeysOK
<1>9. Ordered(byCountry)'
  <2>1. ASSUME NEW m \in 1..N, NEW n \in 1..N, m < n
        PROVE  ~EdgeBefore(byCountry, keys[n], keys[m])'
    <3>1. PICK x, y : x = s[p[n]] /\ y = s[p[m]] OBVIOUS
    <3>2. ~EdgeBefore(byCountry, x, y) BY <1>2, <1>3, <2>1, <3>1
    <3>3. EdgeBefore(byCountry, x, y)' <=> EdgeBefore(byCountry, x, y)
      BY DEF EdgeBefore, EdgeScore
    <3>4. keys'[n] = x /\ keys'[m] = y BY <1>7, <3>1
    <3>5. EdgeBefore(byCountry, keys[n], keys[m])' <=> EdgeBefore(byCountry, x, y)'
      BY <3>4 DEF EdgeBefore, EdgeScore
    <3> QED BY <3>2, <3>3, <3>5
  <2> QED BY <1>6, <2>1 DEF Ordered
<1>10. ToSet(keys') = ToSet(keys)
  <2>1. DOMAIN keys' = 1..N BY <1>5
  <2>2. ToSet(keys') \subseteq ToSet(keys)
    <3> SUFFICES ASSUME NEW n \in 1..N PROVE keys'[n] \in ToSet(keys) BY <2>1 DEF ToSet
    <3>1. keys'[n] = keys[p[n]] /\ p[n] \in DOMAIN keys BY <1>3, <1>4, <1>7
    <3> QED BY <3>1 DEF ToSet
  <2>3. ToSet(keys) \subseteq ToSet(keys')
    <3> SUFFICES ASSUME NEW n \in 1..N PROVE s[n] \in ToSet(keys') BY <1>3 DEF ToSet
    <3>1. PICK m \in 1..N : p[m] = n BY <1>4
    <3> QED BY <1>7, <2>1, <3>1 DEF ToSet
  <2> QED BY <2>2, <2>3
<1> QED BY <1>3, <1>6, <1>8, <1>9, <1>10

\* The prefix of length L of the edge at n, and the edges it is a prefix of too.
KeyAt(byCountry, n, L) == <<Spans(byCountry, keys[n]), SubSeq(keys[n].name, 1, L)>>
Shares(byCountry, m, n, L) ==
  /\ Spans(byCountry, keys[m]) = Spans(byCountry, keys[n])
  /\ Agree(keys[m].name, keys[n].name, L)

\* To have a prefix of some length in common is an equivalence.
LEMMA SharingIsMutual ==
  ASSUME Sortable, NEW byCountry, NEW m \in 1..Len(keys), NEW n \in 1..Len(keys),
         NEW o \in 1..Len(keys), NEW L \in Nat
  PROVE  /\ Shares(byCountry, m, m, L) <=> L <= Len(keys[m].name)
         /\ Shares(byCountry, m, n, L) => /\ Shares(byCountry, n, m, L)
                                          /\ L <= Len(keys[m].name) /\ L <= Len(keys[n].name)
         /\ Shares(byCountry, m, n, L) /\ Shares(byCountry, n, o, L)
              => Shares(byCountry, m, o, L)
BY DEF Shares, Agree

\* Two prefixes are the same key when they have one length and are shared.
LEMMA SameKey ==
  ASSUME Sortable, NEW byCountry, NEW m \in 1..Len(keys), NEW n \in 1..Len(keys),
         NEW L \in Nat, NEW M \in Nat, L <= Len(keys[m].name), M <= Len(keys[n].name)
  PROVE  KeyAt(byCountry, m, L) = KeyAt(byCountry, n, M)
           <=> L = M /\ Shares(byCountry, m, n, L)
<1>1. PICK a \in Seq(Nat), b \in Seq(Nat) : a = keys[m].name /\ b = keys[n].name
  BY DEF Sortable, Comparable
<1>2. KeyAt(byCountry, m, L) = KeyAt(byCountry, n, M)
        <=> Spans(byCountry, keys[m]) = Spans(byCountry, keys[n])
            /\ SubSeq(a, 1, L) = SubSeq(b, 1, M)
  BY <1>1 DEF KeyAt
<1>3. SubSeq(a, 1, L) = SubSeq(b, 1, M) <=> L = M /\ Agree(a, b, L)
  <2>1. Len(SubSeq(a, 1, L)) = L BY <1>1, PrefixOf
  <2>2. Len(SubSeq(b, 1, M)) = M BY <1>1, PrefixOf
  <2>3. SubSeq(a, 1, L) = SubSeq(b, 1, M) => L = M BY <2>1, <2>2
  <2>4. L = M => (SubSeq(a, 1, L) = SubSeq(b, 1, L) <=> Agree(a, b, L))
    BY <1>1, AgreeIsPrefix
  <2> QED BY <2>3, <2>4
<1> QED BY <1>1, <1>2, <1>3 DEF Shares

\* The prefixes of one edge are told apart by their lengths.
LEMMA PrefixesDiffer ==
  ASSUME Sortable, NEW byCountry, NEW n \in 1..Len(keys),
         NEW L, NEW M, L \in Nat /\ M \in Nat /\ L <= Len(keys[n].name) /\ M <= Len(keys[n].name),
         KeyAt(byCountry, n, L) = KeyAt(byCountry, n, M)
  PROVE  L = M
<1>1. PICK a \in Seq(Nat) : a = keys[n].name BY DEF Sortable, Comparable
<1>2. SubSeq(a, 1, L) = SubSeq(a, 1, M) BY <1>1 DEF KeyAt
<1>3. Len(SubSeq(a, 1, L)) = L BY <1>1, PrefixOf
<1>4. Len(SubSeq(a, 1, M)) = M BY <1>1, PrefixOf
<1> QED BY <1>2, <1>3, <1>4

\* In sorted edges, those that share a prefix stand together.
LEMMA SharingIsContiguous ==
  ASSUME Sortable, NEW byCountry \in BOOLEAN, Ordered(byCountry), NEW L \in Nat,
         NEW m \in 1..Len(keys), NEW n \in 1..Len(keys), NEW o \in 1..Len(keys),
         m <= n, n <= o, Shares(byCountry, m, o, L)
  PROVE  Shares(byCountry, m, n, L) /\ Shares(byCountry, n, o, L)
<1>1. CASE m = n \/ n = o BY <1>1, SharingIsMutual
<1>2. CASE m < n /\ n < o
  <2>1. PICK a, b, c : a = keys[m] /\ b = keys[n] /\ c = keys[o] OBVIOUS
  <2>2. Comparable(a) /\ Comparable(b) /\ Comparable(c) BY <2>1 DEF Sortable
  <2>3. ~EdgeBefore(byCountry, b, a) /\ ~EdgeBefore(byCountry, c, b)
    BY <1>2, <2>1 DEF Ordered
  <2>4. Spans(byCountry, a) = Spans(byCountry, c) /\ Agree(a.name, c.name, L)
    BY <2>1 DEF Shares
  <2>5. byCountry => recCountry[a.ord] = recCountry[b.ord] /\ recCountry[b.ord] = recCountry[c.ord]
    <3>1. SUFFICES ASSUME byCountry
                   PROVE  /\ recCountry[a.ord] = recCountry[b.ord]
                          /\ recCountry[b.ord] = recCountry[c.ord]
      OBVIOUS
    <3>2. PICK x \in Nat, y \in Nat, z \in Nat :
            x = recCountry[a.ord] /\ y = recCountry[b.ord] /\ z = recCountry[c.ord]
      BY <2>2 DEF Comparable
    <3>3. ~(y < x) /\ ~(z < y) BY <2>3, <3>1, <3>2 DEF EdgeBefore
    <3>4. x = z BY <2>4, <3>1, <3>2 DEF Spans
    <3>5. x = y /\ y = z BY <3>3, <3>4
    <3> QED BY <3>2, <3>5
  <2>6. ~NameBefore(b.name, a.name) /\ ~NameBefore(c.name, b.name)
    <3>1. a.name \in Seq(Nat) /\ b.name \in Seq(Nat) /\ c.name \in Seq(Nat)
      BY <2>2 DEF Comparable
    <3>2. ~NameBefore(a.name, a.name) /\ ~NameBefore(b.name, b.name)
      BY <3>1, NameIrreflexive
    <3> QED BY <2>3, <2>5, <3>2 DEF EdgeBefore
  <2>7. Agree(a.name, b.name, L) BY <2>2, <2>4, <2>6, BetweenAgrees DEF Comparable
  <2>8. Spans(byCountry, a) = Spans(byCountry, b) BY <2>5 DEF Spans
  <2>9. Shares(byCountry, m, n, L) BY <2>1, <2>7, <2>8 DEF Shares
  <2> QED BY <2>9, SharingIsMutual
<1> QED BY <1>1, <1>2

-----------------------------------------------------------------------------
\* The names that share a prefix of the edge at m, among the first n edges.
NamesWith(byCountry, m, L, n) ==
  {keys[j].name : j \in {k \in 1..n : Shares(byCountry, m, k, L)}}
NamesCount(byCountry, m, L, n) == Cardinality(NamesWith(byCountry, m, L, n))

HotSet(hs) == {hs[n].key : n \in DOMAIN hs}

\* A finite set as a sequence: each of its elements once.
LEMMA SetToSeqLists ==
  ASSUME NEW S, IsFiniteSet(S)
  PROVE  /\ SetToSeq(S) \in Seq(S)
         /\ \A m, n \in DOMAIN SetToSeq(S) : SetToSeq(S)[m] = SetToSeq(S)[n] => m = n
         /\ \A x \in S : \E n \in DOMAIN SetToSeq(S) : SetToSeq(S)[n] = x
<1>1. PICK N \in Nat : N = Cardinality(S) /\ ExistsBijection(1..N, S)
  BY FS_CardinalityType
<1>2. PICK b : b \in Bijection(1..N, S) BY <1>1 DEF ExistsBijection
<1>3. b \in [1..N -> S] /\ IsInjective(b) BY <1>2 DEF Bijection, Injection
<1>4. PICK f : f = SetToSeq(S) OBVIOUS
<1>5. f \in [1..N -> S] /\ IsInjective(f) BY <1>1, <1>3, <1>4 DEF SetToSeq
<1>6. f \in Seq(S) /\ DOMAIN f = 1..N BY <1>5
<1>7. f \in Surjection(1..N, S)
  <2>1. \A a, c \in Int : /\ IsFiniteSet(a..c)
                          /\ Cardinality(a..c) = IF a > c THEN 0 ELSE c - a + 1
    BY FS_Interval
  <2>2. IsFiniteSet(1..N) /\ Cardinality(1..N) = N BY <2>1
  <2>3. f \in Injection(1..N, S) BY <1>5 DEF Injection
  <2> QED BY <1>1, <2>2, <2>3, FS_Injection
<1>8. \A x \in S : \E n \in 1..N : f[n] = x BY <1>7 DEF Surjection
<1> QED BY <1>4, <1>5, <1>6, <1>8 DEF IsInjective

\* Lists of prefixes that have no key in common, one after the other.
LEMMA DistinctJoin ==
  ASSUME NEW S, NEW s \in Seq(S), NEW t \in Seq(S), Distinct(s), Distinct(t),
         HotSet(s) \cap HotSet(t) = {}
  PROVE  Distinct(s \o t) /\ HotSet(s \o t) = HotSet(s) \cup HotSet(t)
<1>1. PICK u : u = s \o t OBVIOUS
<1>2. /\ Len(s) \in Nat /\ Len(t) \in Nat
      /\ DOMAIN s = 1..Len(s) /\ DOMAIN t = 1..Len(t) /\ DOMAIN u = 1..Len(s) + Len(t)
      /\ \A k \in 1..Len(s) : u[k] = s[k]
      /\ \A k \in 1..Len(t) : u[Len(s) + k] = t[k]
  BY <1>1, Joined
<1>3. \A n \in DOMAIN u : n \notin DOMAIN s => n - Len(s) \in DOMAIN t /\ u[n] = t[n - Len(s)]
  <2> SUFFICES ASSUME NEW n \in DOMAIN u, n \notin DOMAIN s
               PROVE  n - Len(s) \in DOMAIN t /\ u[n] = t[n - Len(s)]
    OBVIOUS
  <2>1. PICK k : k = n - Len(s) OBVIOUS
  <2>2. k \in 1..Len(t) /\ n = Len(s) + k BY <1>2, <2>1
  <2> QED BY <1>2, <2>1, <2>2
<1>4. \A n \in DOMAIN s : n \in DOMAIN u /\ u[n] = s[n] BY <1>2
<1>5. \A k \in DOMAIN t : Len(s) + k \in DOMAIN u /\ u[Len(s) + k] = t[k] BY <1>2
<1>6. HotSet(u) = HotSet(s) \cup HotSet(t)
  <2>1. HotSet(u) \subseteq HotSet(s) \cup HotSet(t) BY <1>3, <1>4 DEF HotSet
  <2>2. HotSet(s) \subseteq HotSet(u) BY <1>4 DEF HotSet
  <2>3. HotSet(t) \subseteq HotSet(u) BY <1>5 DEF HotSet
  <2> QED BY <2>1, <2>2, <2>3
<1>7. ASSUME NEW m \in DOMAIN u, NEW n \in DOMAIN u, u[m].key = u[n].key PROVE m = n
  <2>1. CASE m \in DOMAIN s /\ n \in DOMAIN s
    BY <1>4, <1>7, <2>1 DEF Distinct
  <2>2. CASE m \notin DOMAIN s /\ n \notin DOMAIN s
    <3>1. m - Len(s) = n - Len(s) BY <1>3, <1>7, <2>2 DEF Distinct
    <3>2. m \in Int /\ n \in Int BY <1>2
    <3> QED BY <1>2, <3>1, <3>2
  <2>3. CASE m \in DOMAIN s /\ n \notin DOMAIN s
    <3>1. u[m].key \in HotSet(s) BY <1>4, <2>3 DEF HotSet
    <3>2. u[n].key \in HotSet(t) BY <1>3, <2>3 DEF HotSet
    <3> QED BY <1>7, <3>1, <3>2
  <2>4. CASE m \notin DOMAIN s /\ n \in DOMAIN s
    <3>1. u[n].key \in HotSet(s) BY <1>4, <2>4 DEF HotSet
    <3>2. u[m].key \in HotSet(t) BY <1>3, <2>4 DEF HotSet
    <3> QED BY <1>7, <3>1, <3>2
  <2> QED BY <2>1, <2>2, <2>3, <2>4
<1>8. Distinct(u) BY <1>7 DEF Distinct
<1> QED BY <1>1, <1>6, <1>8

\* Of the first n edges, hs has the hot prefixes that the last of them does not share,
\* each once; cs counts the others.
HotAt(byCountry, n, hs, cs) ==
  /\ (\E S : hs \in Seq(S)) /\ Distinct(hs)
  /\ \A k : k \in HotSet(hs) <=>
       \E m \in 1..n, L \in Levels :
         /\ k = KeyAt(byCountry, m, L) /\ L <= Len(keys[m].name)
         /\ ~Shares(byCountry, m, n, L)
         /\ NamesCount(byCountry, m, L, n) >= HotThreshold
  /\ \A L \in Levels :
       cs[L] = IF n > 0 /\ L <= Len(keys[n].name) THEN NamesCount(byCountry, n, L, n) ELSE 0

\* What collectHot knows of the edges behind it.
HotInv(byCountry) ==
  /\ i \in 1..Len(keys) + 1 /\ (i = 1 => hots = <<>>)
  /\ HotAt(byCountry, i - 1, hots, counts)

\* t lists the hot prefixes of the edge at n, from some length on, each once.
ListsClosed(byCountry, n, from, t) ==
  /\ \E S : t \in Seq(S)
  /\ Distinct(t)
  /\ \A k : k \in HotSet(t) <=>
       \E L \in Levels : /\ L >= from /\ L <= Len(keys[n].name)
                         /\ counts[L] >= HotThreshold
                         /\ k = KeyAt(byCountry, n, L)

\* A flush closes finitely many prefixes.
LEMMA ClosedFinite ==
  ASSUME NEW byCountry, NEW n \in 1..Len(keys), NEW from \in Nat \ {0}
  PROVE  IsFiniteSet(Closed(byCountry, keys[n], from))
<1> DEFINE D == {M \in from..MaxPrefixLen : counts[M] >= HotThreshold /\ M <= Len(keys[n].name)}
           C == Closed(byCountry, keys[n], from)
           f == [L \in D |->
                  [key  |-> <<Spans(byCountry, keys[n]), SubSeq(keys[n].name, 1, L)>>,
                   list |-> [j \in DOMAIN levels[L].e |->
                      LET c == Drain(levels[L])[j] IN Entry(c.ord, Fixed(c.score))]]]
<1>1. C = {f[L] : L \in D} /\ DOMAIN f = D BY DEF Closed
<1>2. MaxPrefixLen \in Nat \ {0} BY WriterAssumption
<1>3. D \in SUBSET (from..MaxPrefixLen) BY <1>2
<1>4. f = [L \in D |-> f[L]] OBVIOUS
<1> HIDE DEF D, f, C
<1>5. IsFiniteSet(from..MaxPrefixLen) BY <1>2, FS_Interval
<1>6. IsFiniteSet(D) BY <1>3, <1>5, FS_Subset
<1>7. f \in Surjection(D, C)
  <2>1. f \in [D -> C] BY <1>1, <1>4
  <2> QED BY <1>1, <2>1 DEF Surjection
<1>8. IsFiniteSet(C) BY <1>6, <1>7, FS_Surjection
<1> QED BY <1>8 DEF C

\* What flush closes: the hot prefixes of the edge before, from some length on.
LEMMA ClosedKeys ==
  ASSUME Sortable, NEW byCountry, NEW n \in 1..Len(keys), NEW from \in Nat \ {0},
         NEW t, t = SetToSeq(Closed(byCountry, keys[n], from))
  PROVE  ListsClosed(byCountry, n, from, t)
<1> DEFINE D == {M \in from..MaxPrefixLen : counts[M] >= HotThreshold /\ M <= Len(keys[n].name)}
           C == Closed(byCountry, keys[n], from)
           f == [L \in D |->
                  [key  |-> <<Spans(byCountry, keys[n]), SubSeq(keys[n].name, 1, L)>>,
                   list |-> [j \in DOMAIN levels[L].e |->
                      LET c == Drain(levels[L])[j] IN Entry(c.ord, Fixed(c.score))]]]
<1>1. C = {f[L] : L \in D} /\ DOMAIN f = D BY DEF Closed
<1>2. \A L \in D : f[L].key = KeyAt(byCountry, n, L) BY DEF KeyAt
<1>3. MaxPrefixLen \in Nat \ {0} BY WriterAssumption
<1>4. \A L : L \in D <=> /\ L \in Levels /\ L >= from /\ L <= Len(keys[n].name)
                         /\ counts[L] >= HotThreshold
  BY <1>3 DEF Levels
<1>5. \A L \in D : L \in Nat BY <1>3
<1>7. IsFiniteSet(C) BY ClosedFinite
<1> HIDE DEF D, f, C
<1>8. /\ t \in Seq(C) /\ DOMAIN t = 1..Len(t)
      /\ \A j, k \in DOMAIN t : t[j] = t[k] => j = k
      /\ \A x \in C : \E j \in DOMAIN t : t[j] = x
  BY <1>7, SetToSeqLists DEF C
<1>9. \A j \in DOMAIN t : t[j] \in C BY <1>8
<1>10. Distinct(t)
  <2> SUFFICES ASSUME NEW j \in DOMAIN t, NEW k \in DOMAIN t, t[j].key = t[k].key PROVE j = k
    BY DEF Distinct
  <2>1. PICK L \in D, M \in D : t[j] = f[L] /\ t[k] = f[M] BY <1>1, <1>9
  <2>2. KeyAt(byCountry, n, L) = KeyAt(byCountry, n, M) BY <1>2, <2>1
  <2>3. L \in Nat /\ M \in Nat /\ L <= Len(keys[n].name) /\ M <= Len(keys[n].name)
    BY <1>4, <1>5
  <2>4. L = M BY <2>2, <2>3, PrefixesDiffer
  <2> QED BY <1>8, <2>1, <2>4
<1>11. ASSUME NEW k
       PROVE  k \in HotSet(t) <=> \E L \in D : k = KeyAt(byCountry, n, L)
  <2>1. ASSUME NEW j \in DOMAIN t, k = t[j].key PROVE \E L \in D : k = KeyAt(byCountry, n, L)
    BY <1>1, <1>2, <1>9, <2>1
  <2>2. ASSUME NEW L \in D, k = KeyAt(byCountry, n, L) PROVE \E j \in DOMAIN t : k = t[j].key
    <3>1. f[L] \in C BY <1>1
    <3>2. PICK j \in DOMAIN t : t[j] = f[L] BY <1>8, <3>1
    <3> QED BY <1>2, <2>2, <3>2
  <2> QED BY <2>1, <2>2 DEF HotSet
<1> QED BY <1>4, <1>8, <1>10, <1>11 DEF ListsClosed

\* The edges between two that span the same are between them by name.
LEMMA NamesBetween ==
  ASSUME Sortable, NEW byCountry \in BOOLEAN, Ordered(byCountry),
         NEW m \in 1..Len(keys), NEW n \in 1..Len(keys), NEW o \in 1..Len(keys),
         m <= n, n <= o, Spans(byCountry, keys[m]) = Spans(byCountry, keys[o])
  PROVE  /\ Spans(byCountry, keys[n]) = Spans(byCountry, keys[o])
         /\ ~NameBefore(keys[n].name, keys[m].name) /\ ~NameBefore(keys[o].name, keys[n].name)
<1>1. PICK a, b, c : a = keys[m] /\ b = keys[n] /\ c = keys[o] OBVIOUS
<1>2. Comparable(a) /\ Comparable(b) /\ Comparable(c) BY <1>1 DEF Sortable
<1>3. \A x \in {a, b, c} : ~NameBefore(x.name, x.name)
  BY <1>2, NameIrreflexive DEF Comparable
<1>4. ~EdgeBefore(byCountry, b, a)
  <2>1. CASE m = n BY <1>1, <1>2, <2>1, EdgeOrder
  <2>2. CASE m < n BY <1>1, <2>2 DEF Ordered
  <2> QED BY <2>1, <2>2
<1>5. ~EdgeBefore(byCountry, c, b)
  <2>1. CASE n = o BY <1>1, <1>2, <2>1, EdgeOrder
  <2>2. CASE n < o BY <1>1, <2>2 DEF Ordered
  <2> QED BY <2>1, <2>2
<1>6. ASSUME byCountry
      PROVE  recCountry[a.ord] = recCountry[b.ord] /\ recCountry[b.ord] = recCountry[c.ord]
  <2>1. recCountry[a.ord] = recCountry[c.ord] BY <1>1, <1>6 DEF Spans
  <2>2. ~(recCountry[b.ord] < recCountry[a.ord]) BY <1>2, <1>4, <1>6 DEF EdgeBefore, Comparable
  <2>3. ~(recCountry[c.ord] < recCountry[b.ord]) BY <1>2, <1>5, <1>6 DEF EdgeBefore, Comparable
  <2>4. recCountry[a.ord] \in Nat /\ recCountry[b.ord] \in Nat BY <1>2 DEF Comparable
  <2> QED BY <2>1, <2>2, <2>3, <2>4
<1>7. ~NameBefore(b.name, a.name) /\ ~NameBefore(c.name, b.name)
  BY <1>3, <1>4, <1>5, <1>6 DEF EdgeBefore
<1>8. Spans(byCountry, b) = Spans(byCountry, c) BY <1>6 DEF Spans
<1> QED BY <1>1, <1>7, <1>8

\* Edges that share a prefix count the same names under it.
LEMMA NamesShared ==
  ASSUME Sortable, NEW byCountry, NEW m \in 1..Len(keys), NEW o \in 1..Len(keys),
         NEW L \in Nat, Shares(byCountry, m, o, L), NEW n \in 0..Len(keys)
  PROVE  NamesWith(byCountry, m, L, n) = NamesWith(byCountry, o, L, n)
<1>1. Len(keys) \in Nat BY DEF Sortable
<1>2. ASSUME NEW k \in 1..n
      PROVE  Shares(byCountry, m, k, L) <=> Shares(byCountry, o, k, L)
  <2>1. k \in 1..Len(keys) BY <1>1
  <2>2. Shares(byCountry, o, m, L) BY SharingIsMutual
  <2> QED BY <2>1, <2>2, SharingIsMutual
<1> QED BY <1>2 DEF NamesWith

\* The next edge adds its name when it shares the prefix.
LEMMA NamesGrow ==
  ASSUME Sortable, NEW byCountry, NEW m, NEW L, NEW n \in Nat, n + 1 <= Len(keys)
  PROVE  NamesWith(byCountry, m, L, n + 1) =
           NamesWith(byCountry, m, L, n)
             \cup (IF Shares(byCountry, m, n + 1, L) THEN {keys[n + 1].name} ELSE {})
<1>1. \A k : k \in 1..n + 1 <=> k \in 1..n \/ k = n + 1 OBVIOUS
<1> QED BY <1>1 DEF NamesWith

\* They are finitely many.
LEMMA NamesFinite ==
  ASSUME NEW byCountry, NEW m, NEW L, NEW n \in Nat
  PROVE  /\ IsFiniteSet(NamesWith(byCountry, m, L, n))
         /\ NamesCount(byCountry, m, L, n) \in Nat
<1> DEFINE D == {k \in 1..n : Shares(byCountry, m, k, L)}
           W == NamesWith(byCountry, m, L, n)
           f == [j \in D |-> keys[j].name]
<1>1. f \in Surjection(D, W) BY DEF NamesWith, Surjection
<1>2. D \in SUBSET (1..n) OBVIOUS
<1>3. IsFiniteSet(1..n) BY FS_Interval
<1> HIDE DEF D, f, W
<1>4. IsFiniteSet(D) BY <1>2, <1>3, FS_Subset
<1>5. IsFiniteSet(W) BY <1>1, <1>4, FS_Surjection
<1>6. Cardinality(W) \in Nat BY <1>5, FS_CardinalityType
<1> QED BY <1>5, <1>6 DEF W, NamesCount

\* hs has the hot prefixes of the edges before i that the last of them does not share,
\* or that are as long as from, each once.
FlushedAt(byCountry, from, hs) ==
  /\ (\E S : hs \in Seq(S)) /\ Distinct(hs)
  /\ \A k : k \in HotSet(hs) <=>
       \E m \in 1..i - 1, L \in Levels :
         /\ k = KeyAt(byCountry, m, L) /\ L <= Len(keys[m].name)
         /\ ~Shares(byCountry, m, i - 1, L) \/ L >= from
         /\ NamesCount(byCountry, m, L, i - 1) >= HotThreshold

\* Flushing closes the hot prefixes of the edge before, from some length on.
LEMMA HotFlush ==
  ASSUME Sortable, NEW byCountry \in BOOLEAN, HotInv(byCountry), i > 1,
         NEW from \in Nat \ {0}, NEW hs,
         hs = hots \o SetToSeq(Closed(byCountry, keys[i - 1], from))
  PROVE  FlushedAt(byCountry, from, hs)
<1>1. PICK t : t = SetToSeq(Closed(byCountry, keys[i - 1], from)) OBVIOUS
<1>2. PICK n : n = i - 1 OBVIOUS
<1>3. n \in 1..Len(keys) /\ Len(keys) \in Nat /\ i = n + 1 BY <1>2 DEF HotInv, Sortable
<1>4. \A L \in Levels : L \in Nat BY WriterAssumption DEF Levels
<1>5. /\ \E S : t \in Seq(S)
      /\ Distinct(t)
      /\ \A k : k \in HotSet(t) <=>
           \E L \in Levels : /\ L >= from /\ L <= Len(keys[n].name)
                             /\ counts[L] >= HotThreshold
                             /\ k = KeyAt(byCountry, n, L)
  <2>1. t = SetToSeq(Closed(byCountry, keys[n], from)) BY <1>1, <1>2
  <2>2. ListsClosed(byCountry, n, from, t) BY <1>3, <2>1, ClosedKeys
  <2> QED BY <2>2 DEF ListsClosed
<1>6. /\ \E S : hots \in Seq(S)
      /\ Distinct(hots)
      /\ \A k : k \in HotSet(hots) <=>
           \E m \in 1..n, L \in Levels :
             /\ k = KeyAt(byCountry, m, L) /\ L <= Len(keys[m].name)
             /\ ~Shares(byCountry, m, n, L)
             /\ NamesCount(byCountry, m, L, n) >= HotThreshold
      /\ \A L \in Levels : L <= Len(keys[n].name) => counts[L] = NamesCount(byCountry, n, L, n)
  BY <1>2, <1>3 DEF HotInv, HotAt
<1>7. HotSet(hots) \cap HotSet(t) = {}
  <2> SUFFICES ASSUME NEW k, k \in HotSet(hots), k \in HotSet(t) PROVE FALSE OBVIOUS
  <2>1. PICK L \in Levels : L <= Len(keys[n].name) /\ k = KeyAt(byCountry, n, L) BY <1>5
  <2>2. PICK m \in 1..n, M \in Levels :
          /\ k = KeyAt(byCountry, m, M) /\ M <= Len(keys[m].name)
          /\ ~Shares(byCountry, m, n, M)
    BY <1>6
  <2>3. m \in 1..Len(keys) /\ L \in Nat /\ M \in Nat BY <1>3, <1>4
  <2>4. KeyAt(byCountry, m, M) = KeyAt(byCountry, n, L) BY <2>1, <2>2
  <2>5. L <= Len(keys[n].name) /\ M <= Len(keys[m].name) BY <2>1, <2>2
  <2>6. n \in 1..Len(keys) BY <1>3
  <2>7. Shares(byCountry, m, n, M) BY <2>3, <2>4, <2>5, <2>6, SameKey
  <2> QED BY <2>2, <2>7
<1>8. PICK S : hots \in Seq(S) /\ t \in Seq(S)
  <2>1. PICK A : hots \in Seq(A) BY <1>6
  <2>2. PICK B : t \in Seq(B) BY <1>5
  <2>3. hots \in Seq(A \cup B) BY <2>1
  <2>4. t \in Seq(A \cup B) BY <2>2
  <2> QED BY <2>3, <2>4
<1>9. hs \in Seq(S) /\ Distinct(hs) /\ HotSet(hs) = HotSet(hots) \cup HotSet(t)
  <2>1. hots \o t \in Seq(S) BY <1>8, Joined
  <2>2. Distinct(hots \o t) /\ HotSet(hots \o t) = HotSet(hots) \cup HotSet(t)
    BY <1>5, <1>6, <1>7, <1>8, DistinctJoin
  <2> QED BY <1>1, <2>1, <2>2
<1>10. ASSUME NEW k
       PROVE  k \in HotSet(hs) <=>
                \E m \in 1..n, L \in Levels :
                  /\ k = KeyAt(byCountry, m, L) /\ L <= Len(keys[m].name)
                  /\ ~Shares(byCountry, m, n, L) \/ L >= from
                  /\ NamesCount(byCountry, m, L, n) >= HotThreshold
  <2>1. ASSUME k \in HotSet(hots)
        PROVE  \E m \in 1..n, L \in Levels :
                 /\ k = KeyAt(byCountry, m, L) /\ L <= Len(keys[m].name)
                 /\ ~Shares(byCountry, m, n, L) \/ L >= from
                 /\ NamesCount(byCountry, m, L, n) >= HotThreshold
    BY <1>6, <2>1
  <2>2. ASSUME k \in HotSet(t)
        PROVE  \E m \in 1..n, L \in Levels :
                 /\ k = KeyAt(byCountry, m, L) /\ L <= Len(keys[m].name)
                 /\ ~Shares(byCountry, m, n, L) \/ L >= from
                 /\ NamesCount(byCountry, m, L, n) >= HotThreshold
    <3>1. PICK L \in Levels : /\ L >= from /\ L <= Len(keys[n].name)
                              /\ counts[L] >= HotThreshold
                              /\ k = KeyAt(byCountry, n, L)
      BY <1>5, <2>2
    <3>2. n \in 1..n BY <1>3
    <3> QED BY <1>6, <3>1, <3>2
  <2>3. ASSUME NEW m \in 1..n, NEW L \in Levels,
               k = KeyAt(byCountry, m, L), L <= Len(keys[m].name),
               ~Shares(byCountry, m, n, L) \/ L >= from,
               NamesCount(byCountry, m, L, n) >= HotThreshold
        PROVE  k \in HotSet(hots) \/ k \in HotSet(t)
    <3>1. CASE ~Shares(byCountry, m, n, L) BY <1>6, <2>3, <3>1
    <3>2. CASE Shares(byCountry, m, n, L)
      <4>1. m \in 1..Len(keys) /\ L \in Nat /\ n \in 0..Len(keys) BY <1>3, <1>4
      <4>2. L <= Len(keys[n].name) BY <1>3, <3>2, <4>1, SharingIsMutual
      <4>3. KeyAt(byCountry, m, L) = KeyAt(byCountry, n, L)
        BY <1>3, <2>3, <3>2, <4>1, <4>2, SameKey
      <4>4. NamesWith(byCountry, m, L, n) = NamesWith(byCountry, n, L, n)
        BY <1>3, <3>2, <4>1, NamesShared
      <4>5. counts[L] >= HotThreshold BY <1>6, <2>3, <4>2, <4>4 DEF NamesCount
      <4>6. L >= from BY <2>3, <3>2
      <4> QED BY <1>5, <2>3, <4>2, <4>3, <4>5, <4>6
    <3> QED BY <3>1, <3>2
  <2>4. k \in HotSet(hs) <=> k \in HotSet(hots) \/ k \in HotSet(t) BY <1>9
  <2> QED BY <2>1, <2>2, <2>3, <2>4
<1> QED BY <1>2, <1>9, <1>10 DEF FlushedAt

\* A prefix of the edge at i or the one before it is shared when it is shorter than from.
SharedTo(byCountry, L, newKey, from) ==
  /\ from \in Nat \ {0}
  /\ L <= Len(keys[i - 1].name) \/ L <= Len(keys[i].name) =>
       (Shares(byCountry, i - 1, i, L) <=> L < from)
  /\ ~newKey => keys[i - 1].name = keys[i].name

\* The edge at i and the one before it share the prefixes up to the length at which
\* collectHot flushes.
LEMMA SharedBelow ==
  ASSUME Sortable, NEW byCountry, i \in 2..Len(keys), NEW L \in Levels,
         NEW newKey, newKey = IsNewKey(byCountry), NEW from,
         from = IF i > 1 /\ newKey THEN FlushFrom(byCountry, keys[i - 1], keys[i])
                ELSE MaxPrefixLen + 1
  PROVE  SharedTo(byCountry, L, newKey, from)
<1>1. L \in Nat /\ L < MaxPrefixLen + 1 /\ MaxPrefixLen + 1 \in Nat \ {0} /\ L >= 1
  BY WriterAssumption DEF Levels
<1>2. PICK n : n = i - 1 OBVIOUS
<1>3. Len(keys) \in Nat /\ n \in 1..Len(keys) /\ i \in 1..Len(keys) /\ i > 1 BY <1>2 DEF Sortable
<1>4. PICK a, b : a = keys[n] /\ b = keys[i] OBVIOUS
<1>5. a.name \in Seq(Nat) /\ b.name \in Seq(Nat) BY <1>3, <1>4 DEF Sortable, Comparable
<1>6. CASE ~newKey
  <2>1. a.name = b.name /\ Spans(byCountry, a) = Spans(byCountry, b)
    BY <1>2, <1>4, <1>6 DEF IsNewKey
  <2>2. from = MaxPrefixLen + 1 BY <1>6
  <2>3. L <= Len(a.name) => Agree(a.name, b.name, L) BY <2>1 DEF Agree
  <2>4. Shares(byCountry, n, i, L) <=> L <= Len(a.name)
    BY <1>4, <2>1, <2>3 DEF Shares, Agree
  <2>5. L <= Len(a.name) \/ L <= Len(b.name) => (Shares(byCountry, n, i, L) <=> L < from)
    BY <1>1, <2>1, <2>2, <2>4
  <2> QED BY <1>1, <1>2, <1>4, <2>1, <2>2, <2>5 DEF SharedTo
<1>7. CASE newKey
  <2>1. from = FlushFrom(byCountry, a, b) BY <1>2, <1>3, <1>4, <1>7
  <2>2. CASE Spans(byCountry, b) # Spans(byCountry, a)
    <3>1. from = 1 BY <2>1, <2>2 DEF FlushFrom
    <3>2. ~Shares(byCountry, n, i, L) BY <1>4, <2>2 DEF Shares
    <3> QED BY <1>1, <1>2, <1>7, <3>1, <3>2 DEF SharedTo
  <2>3. CASE Spans(byCountry, b) = Spans(byCountry, a)
    <3>1. PICK c : c = CommonPrefixLen(b.name, a.name) OBVIOUS
    <3>2. from = c + 1 BY <2>1, <2>3, <3>1 DEF FlushFrom
    <3>3. /\ c \in Nat /\ Agree(b.name, a.name, c)
          /\ \A m \in Nat : Agree(b.name, a.name, m) => m <= c
      BY <1>5, <3>1, CommonIsLongest
    <3>4. Shares(byCountry, n, i, L) <=> Agree(b.name, a.name, L)
      BY <1>4, <2>3 DEF Shares, Agree
    <3>5. L <= c => Agree(b.name, a.name, L)
      <4>1. SUFFICES ASSUME L <= c PROVE Agree(b.name, a.name, L) OBVIOUS
      <4>2. c <= Len(b.name) /\ c <= Len(a.name) /\ \A k \in 1..c : b.name[k] = a.name[k]
        BY <3>3 DEF Agree
      <4>3. Len(b.name) \in Nat /\ Len(a.name) \in Nat BY <1>5
      <4>4. L <= Len(b.name) /\ L <= Len(a.name) BY <1>1, <3>3, <4>1, <4>2, <4>3
      <4>5. \A k \in 1..L : k \in 1..c BY <1>1, <3>3, <4>1
      <4> QED BY <4>2, <4>4, <4>5 DEF Agree
    <3>6. Shares(byCountry, n, i, L) <=> L <= c BY <1>1, <3>3, <3>4, <3>5
    <3>7. Shares(byCountry, n, i, L) <=> L < from BY <1>1, <3>2, <3>3, <3>6
    <3> QED BY <1>2, <1>7, <3>2, <3>3, <3>7 DEF SharedTo
  <2> QED BY <2>2, <2>3
<1> QED BY <1>6, <1>7

\* An edge at a key of its own has a name that none before it has there.
LEMMA NewKeyNewName ==
  ASSUME Sortable, NEW byCountry \in BOOLEAN, Ordered(byCountry), i \in 1..Len(keys),
         NEW L \in Nat, L <= Len(keys[i].name)
  PROVE  keys[i].name \in NamesWith(byCountry, i, L, i - 1) <=> ~IsNewKey(byCountry)
<1>1. PICK n : n = i - 1 OBVIOUS
<1>2. Len(keys) \in Nat /\ i \in 1..Len(keys) /\ n \in 0..Len(keys) BY <1>1 DEF Sortable
<1>3. ASSUME ~IsNewKey(byCountry)
      PROVE  keys[i].name \in NamesWith(byCountry, i, L, n)
  <2>1. /\ i # 1 /\ Spans(byCountry, keys[i]) = Spans(byCountry, keys[n])
        /\ keys[i].name = keys[n].name
    BY <1>1, <1>3 DEF IsNewKey
  <2>2. n \in 1..n BY <1>1, <1>2, <2>1
  <2>3. Agree(keys[i].name, keys[i].name, L) BY DEF Agree
  <2>4. Shares(byCountry, i, n, L) BY <2>1, <2>3 DEF Shares
  <2> QED BY <2>1, <2>2, <2>4 DEF NamesWith
<1>4. ASSUME keys[i].name \in NamesWith(byCountry, i, L, n)
      PROVE  ~IsNewKey(byCountry)
  <2>1. PICK j \in 1..n : Shares(byCountry, i, j, L) /\ keys[j].name = keys[i].name
    BY <1>4 DEF NamesWith
  <2>2. Spans(byCountry, keys[j]) = Spans(byCountry, keys[i]) BY <2>1 DEF Shares
  <2>3. j \in 1..Len(keys) /\ n \in 1..Len(keys) /\ j <= n /\ n <= i /\ i # 1
    BY <1>1, <1>2
  <2>4. /\ Spans(byCountry, keys[n]) = Spans(byCountry, keys[i])
        /\ ~NameBefore(keys[n].name, keys[j].name) /\ ~NameBefore(keys[i].name, keys[n].name)
    BY <1>2, <2>2, <2>3, NamesBetween
  <2>5. keys[n].name \in Seq(Nat) /\ keys[i].name \in Seq(Nat)
    BY <1>2, <2>3 DEF Sortable, Comparable
  <2>6. keys[n].name = keys[i].name BY <2>1, <2>4, <2>5, NameTotal
  <2>7. i # 1 /\ keys[n] = keys[i - 1] BY <1>1, <2>3
  <2> QED BY <2>4, <2>6, <2>7 DEF IsNewKey
<1> QED BY <1>1, <1>3, <1>4

\* What the edge at i leaves of a count.
LEMMA CountStep ==
  ASSUME Sortable, NEW byCountry \in BOOLEAN, Ordered(byCountry), HotInv(byCountry),
         i <= Len(keys), NEW L \in Levels,
         NEW newKey, newKey = IsNewKey(byCountry), NEW from,
         from = IF i > 1 /\ newKey THEN FlushFrom(byCountry, keys[i - 1], keys[i])
                ELSE MaxPrefixLen + 1,
         NEW c, c = IF L >= from THEN 0 ELSE counts[L]
  PROVE  (IF newKey /\ L <= Len(keys[i].name) THEN c + 1 ELSE c)
           = IF L <= Len(keys[i].name) THEN NamesCount(byCountry, i, L, i) ELSE 0
<1>1. PICK n, e : n = i - 1 /\ e = keys[i] OBVIOUS
<1>2. Len(keys) \in Nat /\ i \in 1..Len(keys) /\ n \in 0..Len(keys) /\ i = n + 1 /\ n \in Nat
  BY <1>1 DEF HotInv, Sortable
<1>3. L \in Nat /\ L < MaxPrefixLen + 1 /\ MaxPrefixLen + 1 \in Nat \ {0} /\ L >= 1
  BY WriterAssumption DEF Levels
<1>4. e.name \in Seq(Nat) /\ Len(e.name) \in Nat BY <1>1, <1>2 DEF Sortable, Comparable
<1>5. counts[L] = IF n > 0 /\ L <= Len(keys[n].name) THEN NamesCount(byCountry, n, L, n) ELSE 0
  BY <1>1 DEF HotInv, HotAt
<1>6. n > 0 => /\ i \in 2..Len(keys) /\ n \in 1..Len(keys)
               /\ keys[n].name \in Seq(Nat) /\ Len(keys[n].name) \in Nat
  BY <1>2 DEF Sortable, Comparable
<1>7. n > 0 => /\ from \in Nat \ {0}
               /\ L <= Len(keys[n].name) \/ L <= Len(e.name) =>
                    (Shares(byCountry, n, i, L) <=> L < from)
               /\ ~newKey => keys[n].name = e.name
  <2> SUFFICES ASSUME n > 0
               PROVE  /\ from \in Nat \ {0}
                      /\ L <= Len(keys[n].name) \/ L <= Len(e.name) =>
                           (Shares(byCountry, n, i, L) <=> L < from)
                      /\ ~newKey => keys[n].name = e.name
    OBVIOUS
  <2>1. i \in 2..Len(keys) BY <1>6
  <2>2. SharedTo(byCountry, L, newKey, from) BY <2>1, SharedBelow
  <2> QED BY <1>1, <2>2 DEF SharedTo
<1>8. n = 0 => newKey /\ from = MaxPrefixLen + 1 BY <1>2 DEF IsNewKey
<1>9. CASE L <= Len(e.name)
  <2>1. c = NamesCount(byCountry, i, L, n)
    <3>1. CASE n = 0
      <4>1. NamesWith(byCountry, i, L, n) = {}
        <5>1. 1..n = {} BY <3>1
        <5> QED BY <5>1 DEF NamesWith
      <4>2. c = 0 BY <1>3, <1>5, <1>8, <3>1
      <4> QED BY <4>1, <4>2, FS_EmptySet DEF NamesCount
    <3>2. CASE n > 0 /\ Shares(byCountry, n, i, L)
      <4>1. L <= Len(keys[n].name) BY <1>2, <1>3, <1>6, <3>2, SharingIsMutual
      <4>2. ~(L >= from) BY <1>3, <1>7, <1>9, <3>2
      <4>3. c = NamesCount(byCountry, n, L, n) BY <1>5, <3>2, <4>1, <4>2
      <4>4. NamesWith(byCountry, n, L, n) = NamesWith(byCountry, i, L, n)
        BY <1>2, <1>3, <1>6, <3>2, NamesShared
      <4> QED BY <4>3, <4>4 DEF NamesCount
    <3>3. CASE n > 0 /\ ~Shares(byCountry, n, i, L)
      <4>1. L >= from BY <1>3, <1>7, <1>9, <3>3
      <4>2. ASSUME NEW k \in 1..n, Shares(byCountry, i, k, L) PROVE FALSE
        <5>1. k \in 1..Len(keys) /\ k <= n /\ n <= i BY <1>2
        <5>2. Shares(byCountry, k, i, L) BY <1>2, <1>3, <4>2, <5>1, SharingIsMutual
        <5>3. Shares(byCountry, n, i, L)
          BY <1>2, <1>3, <1>6, <3>3, <5>1, <5>2, SharingIsContiguous
        <5> QED BY <3>3, <5>3
      <4>3. NamesWith(byCountry, i, L, n) = {} BY <4>2 DEF NamesWith
      <4>4. c = 0 BY <4>1
      <4> QED BY <4>3, <4>4, FS_EmptySet DEF NamesCount
    <3> QED BY <1>2, <3>1, <3>2, <3>3
  <2>2. PICK W : W = NamesWith(byCountry, i, L, n) OBVIOUS
  <2>3. IsFiniteSet(W) /\ Cardinality(W) \in Nat /\ Cardinality(W) = c
    BY <1>2, <2>1, <2>2, NamesFinite DEF NamesCount
  <2>4. Shares(byCountry, i, i, L) BY <1>1, <1>2, <1>3, <1>9, SharingIsMutual
  <2>5. NamesWith(byCountry, i, L, i) = W \cup {e.name}
    <3>1. n + 1 <= Len(keys) /\ n \in Nat BY <1>2
    <3>2. NamesWith(byCountry, i, L, n + 1) =
            NamesWith(byCountry, i, L, n)
              \cup (IF Shares(byCountry, i, n + 1, L) THEN {keys[n + 1].name} ELSE {})
      BY <3>1, NamesGrow
    <3>3. NamesWith(byCountry, i, L, n + 1) =
            W \cup (IF Shares(byCountry, i, n + 1, L) THEN {keys[n + 1].name} ELSE {})
      BY <2>2, <3>2
    <3> QED BY <1>1, <1>2, <2>4, <3>3
  <2>6. e.name \in W <=> ~newKey
    BY <1>1, <1>2, <1>3, <1>9, <2>2, NewKeyNewName
  <2>7. Cardinality(W \cup {e.name}) = IF e.name \in W THEN Cardinality(W) ELSE Cardinality(W) + 1
    BY <2>3, FS_AddElement
  <2>8. NamesCount(byCountry, i, L, i) = IF newKey THEN c + 1 ELSE c
    BY <2>3, <2>5, <2>6, <2>7 DEF NamesCount
  <2> QED BY <1>1, <1>9, <2>8
<1>10. CASE ~(L <= Len(e.name))
  <2>1. c = 0
    <3>1. CASE n = 0 \/ L >= from BY <1>5, <3>1
    <3>2. CASE n > 0 /\ ~(L >= from)
      <4>1. SUFFICES ASSUME L <= Len(keys[n].name) PROVE FALSE BY <1>5, <3>2
      <4>2. L < from BY <1>3, <1>7, <3>2
      <4>3. Shares(byCountry, n, i, L) BY <1>7, <3>2, <4>1, <4>2
      <4>4. L <= Len(keys[i].name) BY <1>2, <1>3, <1>6, <3>2, <4>3, SharingIsMutual
      <4> QED BY <1>1, <1>10, <4>4
    <3> QED BY <1>2, <3>1, <3>2
  <2> QED BY <1>1, <1>10, <2>1
<1> QED BY <1>9, <1>10

\* A step of collectHot takes the edge at i in.
LEMMA HotTakes ==
  ASSUME Sortable, NEW byCountry \in BOOLEAN, Ordered(byCountry), HotInv(byCountry),
         HotEdge(byCountry), NEW hs, hs = hots', NEW cs, cs = counts'
  PROVE  HotAt(byCountry, i, hs, cs)
<1>1. PICK n, e, newKey, from :
        /\ n = i - 1 /\ e = keys[i] /\ newKey = IsNewKey(byCountry)
        /\ from = IF i > 1 /\ newKey THEN FlushFrom(byCountry, keys[i - 1], e)
                  ELSE MaxPrefixLen + 1
  OBVIOUS
<1>2. /\ i <= Len(keys)
      /\ hs = IF i = 1 THEN hots ELSE hots \o SetToSeq(Closed(byCountry, keys[i - 1], from))
      /\ cs = [L \in Levels |-> IF newKey /\ L <= Len(e.name)
                                THEN (IF L >= from THEN 0 ELSE counts[L]) + 1
                                ELSE (IF L >= from THEN 0 ELSE counts[L])]
  <2>1. i <= Len(keys) BY DEF HotEdge
  <2>2. hots' = IF i = 1 THEN hots ELSE hots \o SetToSeq(Closed(byCountry, keys[i - 1], from))
    BY <1>1 DEF HotEdge
  <2>3. counts' = [L \in Levels |->
                     IF newKey /\ L <= Len(e.name)
                     THEN [M \in Levels |-> IF M >= from THEN 0 ELSE counts[M]][L] + 1
                     ELSE [M \in Levels |-> IF M >= from THEN 0 ELSE counts[M]][L]]
    BY <1>1 DEF HotEdge
  <2>4. \A L \in Levels : [M \in Levels |-> IF M >= from THEN 0 ELSE counts[M]][L]
                            = IF L >= from THEN 0 ELSE counts[L]
    OBVIOUS
  <2> HIDE DEF Levels
  <2>5. counts' = [L \in Levels |-> IF newKey /\ L <= Len(e.name)
                                    THEN (IF L >= from THEN 0 ELSE counts[L]) + 1
                                    ELSE (IF L >= from THEN 0 ELSE counts[L])]
    BY <2>3, <2>4
  <2> QED BY <2>1, <2>2, <2>5
<1>3. /\ Len(keys) \in Nat /\ i \in 1..Len(keys) /\ n \in 0..Len(keys)
      /\ i = n + 1 /\ n \in Nat /\ (i = 1 <=> n = 0)
      /\ i \in 0..Len(keys)
  BY <1>1, <1>2 DEF HotInv, Sortable
<1>4. \A L \in Levels : L \in Nat BY WriterAssumption DEF Levels
<1>5. ASSUME NEW L \in Levels
      PROVE  cs[L] = IF i > 0 /\ L <= Len(keys[i].name)
                     THEN NamesCount(byCountry, i, L, i) ELSE 0
  <2>1. PICK c : c = IF L >= from THEN 0 ELSE counts[L] OBVIOUS
  <2>2. (IF newKey /\ L <= Len(keys[i].name) THEN c + 1 ELSE c)
          = IF L <= Len(keys[i].name) THEN NamesCount(byCountry, i, L, i) ELSE 0
    BY <1>1, <1>2, <2>1, CountStep
  <2>3. cs[L] = IF newKey /\ L <= Len(keys[i].name) THEN c + 1 ELSE c
    BY <1>1, <1>2, <2>1
  <2> QED BY <1>3, <2>2, <2>3
<1>6. CASE i = 1
  <2>1. hs = <<>> /\ DOMAIN hs = {} BY <1>2, <1>6 DEF HotInv
  <2>2. Distinct(hs) /\ HotSet(hs) = {} BY <2>1 DEF Distinct, HotSet
  <2>3. \E S : hs \in Seq(S) BY <2>1
  <2>4. ASSUME NEW m \in 1..i, NEW L \in Levels, L <= Len(keys[m].name)
        PROVE  Shares(byCountry, m, i, L)
    <3>1. m = i BY <1>6
    <3> QED BY <1>3, <1>4, <2>4, <3>1, SharingIsMutual
  <2> QED BY <1>5, <2>2, <2>3, <2>4 DEF HotAt
<1>7. CASE i # 1
  <2>0. i > 1 /\ n \in 1..Len(keys) /\ i \in 2..Len(keys) /\ n <= i BY <1>3, <1>7
  <2>1. \A L \in Levels : SharedTo(byCountry, L, newKey, from)
    BY <1>1, <2>0, SharedBelow
  <2>2. from \in Nat \ {0}
    <3>1. 1 \in Levels BY WriterAssumption DEF Levels
    <3> QED BY <2>1, <3>1 DEF SharedTo
  <2>3. hs = hots \o SetToSeq(Closed(byCountry, keys[i - 1], from)) BY <1>2, <1>7
  <2>4. /\ (\E S : hs \in Seq(S)) /\ Distinct(hs)
        /\ \A k : k \in HotSet(hs) <=>
             \E m \in 1..n, L \in Levels :
               /\ k = KeyAt(byCountry, m, L) /\ L <= Len(keys[m].name)
               /\ ~Shares(byCountry, m, n, L) \/ L >= from
               /\ NamesCount(byCountry, m, L, n) >= HotThreshold
    <3>1. FlushedAt(byCountry, from, hs) BY <2>0, <2>2, <2>3, HotFlush
    <3> QED BY <1>1, <3>1 DEF FlushedAt
  <2>5. ASSUME NEW m \in 1..n, NEW L \in Levels, L <= Len(keys[m].name)
        PROVE  /\ ~Shares(byCountry, m, n, L) \/ L >= from <=> ~Shares(byCountry, m, i, L)
               /\ ~Shares(byCountry, m, i, L) =>
                    NamesCount(byCountry, m, L, n) = NamesCount(byCountry, m, L, i)
    <3>1. m \in 1..Len(keys) /\ L \in Nat /\ m <= n /\ from \in Nat BY <1>3, <1>4, <2>2
    <3>2. SharedTo(byCountry, L, newKey, from) BY <2>1
    <3>3. L <= Len(keys[n].name) \/ L <= Len(keys[i].name) =>
            (Shares(byCountry, n, i, L) <=> L < from)
      BY <1>1, <3>2 DEF SharedTo
    <3>4. Shares(byCountry, m, i, L) => Shares(byCountry, m, n, L) /\ Shares(byCountry, n, i, L)
      BY <1>3, <2>0, <3>1, SharingIsContiguous
    <3>5. Shares(byCountry, m, n, L) /\ Shares(byCountry, n, i, L) => Shares(byCountry, m, i, L)
      BY <1>3, <2>0, <3>1, SharingIsMutual
    <3>6. Shares(byCountry, m, n, L) => L <= Len(keys[n].name)
      BY <2>0, <3>1, SharingIsMutual
    <3>7. ~Shares(byCountry, m, n, L) \/ L >= from <=> ~Shares(byCountry, m, i, L)
      BY <3>1, <3>3, <3>4, <3>5, <3>6
    <3>8. ASSUME ~Shares(byCountry, m, i, L)
          PROVE  NamesCount(byCountry, m, L, n) = NamesCount(byCountry, m, L, i)
      <4>1. NamesWith(byCountry, m, L, n + 1) =
              NamesWith(byCountry, m, L, n)
                \cup (IF Shares(byCountry, m, n + 1, L) THEN {keys[n + 1].name} ELSE {})
        BY <1>3, NamesGrow
      <4>2. NamesWith(byCountry, m, L, i) = NamesWith(byCountry, m, L, n)
        BY <1>3, <3>8, <4>1
      <4> QED BY <4>2 DEF NamesCount
    <3> QED BY <3>7, <3>8
  <2>6. ASSUME NEW k
        PROVE  k \in HotSet(hs) <=>
                 \E m \in 1..i, L \in Levels :
                   /\ k = KeyAt(byCountry, m, L) /\ L <= Len(keys[m].name)
                   /\ ~Shares(byCountry, m, i, L)
                   /\ NamesCount(byCountry, m, L, i) >= HotThreshold
    <3>1. ASSUME k \in HotSet(hs)
          PROVE  \E m \in 1..i, L \in Levels :
                   /\ k = KeyAt(byCountry, m, L) /\ L <= Len(keys[m].name)
                   /\ ~Shares(byCountry, m, i, L)
                   /\ NamesCount(byCountry, m, L, i) >= HotThreshold
      <4>1. PICK m \in 1..n, L \in Levels :
              /\ k = KeyAt(byCountry, m, L) /\ L <= Len(keys[m].name)
              /\ ~Shares(byCountry, m, n, L) \/ L >= from
              /\ NamesCount(byCountry, m, L, n) >= HotThreshold
        BY <2>4, <3>1
      <4>2. m \in 1..i BY <1>3
      <4>3. ~Shares(byCountry, m, i, L) BY <2>5, <4>1
      <4>4. NamesCount(byCountry, m, L, i) >= HotThreshold BY <2>5, <4>1, <4>3
      <4> QED BY <4>1, <4>2, <4>3, <4>4
    <3>2. ASSUME NEW m \in 1..i, NEW L \in Levels,
                 k = KeyAt(byCountry, m, L), L <= Len(keys[m].name),
                 ~Shares(byCountry, m, i, L),
                 NamesCount(byCountry, m, L, i) >= HotThreshold
          PROVE  k \in HotSet(hs)
      <4>1. m # i BY <1>3, <1>4, <3>2, SharingIsMutual
      <4>2. m \in 1..n BY <1>3, <4>1
      <4>3. ~Shares(byCountry, m, n, L) \/ L >= from BY <2>5, <3>2, <4>2
      <4>4. NamesCount(byCountry, m, L, n) >= HotThreshold BY <2>5, <3>2, <4>2
      <4> QED BY <2>4, <3>2, <4>2, <4>3, <4>4
    <3> QED BY <3>1, <3>2
  <2> QED BY <1>5, <2>4, <2>6 DEF HotAt
<1> QED BY <1>6, <1>7

\* So collectHot keeps its invariant.
LEMMA HotKept ==
  ASSUME Sortable, NEW byCountry \in BOOLEAN, Ordered(byCountry), HotInv(byCountry),
         HotEdge(byCountry)
  PROVE  HotInv(byCountry)'
<1>1. PICK n, hs, cs : n = i /\ hs = hots' /\ cs = counts' OBVIOUS
<1>2. HotAt(byCountry, n, hs, cs) BY <1>1, HotTakes
<1>3. i' = i + 1 /\ keys' = keys /\ recCountry' = recCountry /\ i <= Len(keys)
  BY DEF HotEdge, build
<1>4. HotAt(byCountry, n, hs, cs)'
  <2>1. /\ \A m, j, L : Shares(byCountry, m, j, L)' <=> Shares(byCountry, m, j, L)
        /\ \A m, L : KeyAt(byCountry, m, L)' = KeyAt(byCountry, m, L)
    BY <1>3 DEF Shares, KeyAt, Spans
  <2>2. \A m, L, j : NamesWith(byCountry, m, L, j)' = NamesWith(byCountry, m, L, j)
    BY <1>3, <2>1 DEF NamesWith
  <2>3. \A m, L, j : NamesCount(byCountry, m, L, j)' = NamesCount(byCountry, m, L, j)
    BY <2>2 DEF NamesCount
  <2> QED BY <1>2, <1>3, <2>1, <2>3 DEF HotAt
<1>5. n \in 1..Len(keys) /\ Len(keys) \in Nat BY <1>1, <1>3 DEF HotInv, Sortable
<1>6. i' - 1 = n /\ i' \in 1..Len(keys') + 1 /\ i' # 1 BY <1>1, <1>3, <1>5
<1> QED BY <1>1, <1>4, <1>6 DEF HotInv

\* The edges among the first n that share L bytes, and the country, with the edge at m.
EdgesWith(byCountry, m, L, n) == {keys[j] : j \in {k \in 1..n : Shares(byCountry, m, k, L)}}

\* The edges that share a prefix are the ones beneath it.
LEMMA EdgesUnder ==
  ASSUME Sortable, NEW byCountry \in BOOLEAN, NEW m \in 1..Len(keys), NEW L \in Levels,
         L <= Len(keys[m].name), NEW k, k = KeyAt(byCountry, m, L)
  PROVE  EdgesBeneath(k[1], k[2]) = EdgesWith(byCountry, m, L, Len(keys))
<1>1. PICK a, c, p : a = keys[m].name /\ c = Spans(byCountry, keys[m]) /\ p = SubSeq(a, 1, L)
  OBVIOUS
<1>2. k[1] = c /\ k[2] = p BY <1>1 DEF KeyAt
<1>3. L \in Nat BY WriterAssumption DEF Levels
<1>4. a \in Seq(Nat) BY <1>1 DEF Sortable, Comparable
<1>5. p \in Seq(Nat) /\ Len(p) = L /\ \A q \in 1..L : p[q] = a[q]
  BY <1>1, <1>3, <1>4, PrefixOf
<1>6. ASSUME NEW j \in 1..Len(keys)
      PROVE  keys[j] \in EdgesBeneath(c, p) <=> Shares(byCountry, m, j, L)
  <2>1. PICK b : b = keys[j].name OBVIOUS
  <2>2. b \in Seq(Nat) BY <2>1 DEF Sortable, Comparable
  <2>3. IsPrefix(p, b) <=> L <= Len(b) /\ SubSeq(p, 1, L) = SubSeq(b, 1, L)
    BY <1>5 DEF IsPrefix
  <2>4. L <= Len(b) => (SubSeq(p, 1, L) = SubSeq(b, 1, L) <=> Agree(p, b, L))
    <3>1. L <= Len(p) BY <1>3, <1>5
    <3> QED BY <1>3, <1>5, <2>2, <3>1, AgreeIsPrefix
  <2>5. IsPrefix(p, b) <=> Agree(a, b, L)
    BY <1>1, <1>3, <1>5, <2>3, <2>4 DEF Agree
  <2>6. c = World \/ recCountry[keys[j].ord] = c <=> Spans(byCountry, keys[j]) = c
    <3>1. recCountry[keys[m].ord] \in Nat /\ recCountry[keys[j].ord] \in Nat
      BY DEF Sortable, Comparable
    <3> QED BY <1>1, <3>1 DEF Spans, World
  <2>7. keys[j] \in Edges BY DEF Edges, ToSet, Sortable
  <2> QED BY <1>1, <2>1, <2>5, <2>6, <2>7 DEF EdgesBeneath, Shares
<1>7. DOMAIN keys = 1..Len(keys) BY DEF Sortable
<1>8. \A e : e \in EdgesBeneath(c, p) => \E j \in 1..Len(keys) : e = keys[j]
  BY <1>7 DEF EdgesBeneath, Edges, ToSet
<1>9. \A e : e \in EdgesBeneath(c, p) <=> e \in EdgesWith(byCountry, m, L, Len(keys))
  BY <1>6, <1>8 DEF EdgesWith
<1> QED BY <1>2, <1>9

\* Their names are the names that are counted.
LEMMA NamesBeneath ==
  ASSUME Sortable, NEW byCountry \in BOOLEAN, NEW m \in 1..Len(keys), NEW L \in Levels,
         L <= Len(keys[m].name), NEW k, k = KeyAt(byCountry, m, L)
  PROVE  {e.name : e \in EdgesBeneath(k[1], k[2])} = NamesWith(byCountry, m, L, Len(keys))
<1>1. EdgesBeneath(k[1], k[2]) = EdgesWith(byCountry, m, L, Len(keys)) BY EdgesUnder
<1> QED BY <1>1 DEF EdgesWith, NamesWith

\* The keys of all prefixes of all edges.
LEMMA AllKeys ==
  ASSUME Sortable, NEW byCountry \in BOOLEAN, NEW k
  PROVE  k \in UNION {{Spans(byCountry, e)} \X LevelPrefixes(e) : e \in Edges}
           <=> \E m \in 1..Len(keys), L \in Levels :
                 k = KeyAt(byCountry, m, L) /\ L <= Len(keys[m].name)
<1>1. DOMAIN keys = 1..Len(keys) BY DEF Sortable
<1>2. \A e : e \in Edges <=> \E m \in 1..Len(keys) : e = keys[m]
  BY <1>1 DEF Edges, ToSet
<1>3. ASSUME NEW m \in 1..Len(keys)
      PROVE  k \in {Spans(byCountry, keys[m])} \X LevelPrefixes(keys[m])
               <=> \E L \in Levels : k = KeyAt(byCountry, m, L) /\ L <= Len(keys[m].name)
  <2>1. LevelPrefixes(keys[m]) = {SubSeq(keys[m].name, 1, L) : L \in {M \in Levels : M <= Len(keys[m].name)}}
    BY DEF LevelPrefixes
  <2>2. ASSUME k \in {Spans(byCountry, keys[m])} \X LevelPrefixes(keys[m])
        PROVE  \E L \in Levels : k = KeyAt(byCountry, m, L) /\ L <= Len(keys[m].name)
    <3>1. PICK p \in LevelPrefixes(keys[m]) : k = <<Spans(byCountry, keys[m]), p>> BY <2>2
    <3> QED BY <2>1, <3>1 DEF KeyAt
  <2>3. ASSUME NEW L \in Levels, k = KeyAt(byCountry, m, L), L <= Len(keys[m].name)
        PROVE  k \in {Spans(byCountry, keys[m])} \X LevelPrefixes(keys[m])
    <3>1. SubSeq(keys[m].name, 1, L) \in LevelPrefixes(keys[m]) BY <2>1, <2>3
    <3> QED BY <2>3, <3>1 DEF KeyAt
  <2> QED BY <2>2, <2>3
<1> QED BY <1>2, <1>3

\* When it has seen all edges, collectHot has every hot prefix once.
LEMMA HotEnds ==
  ASSUME Sortable, NEW byCountry \in BOOLEAN, HotInv(byCountry), i > Len(keys)
  PROVE  Distinct(AllHot(byCountry)) /\ HotSet(AllHot(byCountry)) = HotKeys(byCountry)
<1>1. PICK hs : hs = AllHot(byCountry) OBVIOUS
<1>2. Len(keys) \in Nat /\ i = Len(keys) + 1 /\ DOMAIN keys = 1..Len(keys)
  BY DEF HotInv, Sortable
<1>3. ASSUME NEW k
      PROVE  k \in HotKeys(byCountry) <=>
               \E m \in 1..Len(keys), L \in Levels :
                 /\ k = KeyAt(byCountry, m, L) /\ L <= Len(keys[m].name)
                 /\ NamesCount(byCountry, m, L, Len(keys)) >= HotThreshold
  <2>1. \A m \in 1..Len(keys), L \in Levels :
          k = KeyAt(byCountry, m, L) /\ L <= Len(keys[m].name)
            => {e.name : e \in EdgesBeneath(k[1], k[2])} = NamesWith(byCountry, m, L, Len(keys))
    BY NamesBeneath
  <2>2. k \in HotKeys(byCountry) <=>
          /\ \E m \in 1..Len(keys), L \in Levels :
               k = KeyAt(byCountry, m, L) /\ L <= Len(keys[m].name)
          /\ Cardinality({e.name : e \in EdgesBeneath(k[1], k[2])}) >= HotThreshold
    BY AllKeys DEF HotKeys
  <2> QED BY <2>1, <2>2 DEF NamesCount
<1>4. CASE keys = <<>>
  <2>1. hs = <<>> BY <1>1, <1>2, <1>4 DEF AllHot, HotInv
  <2>2. Distinct(hs) /\ HotSet(hs) = {} BY <2>1 DEF Distinct, HotSet
  <2>3. 1..Len(keys) = {} BY <1>4
  <2>4. HotKeys(byCountry) = {} BY <1>3, <2>3
  <2> QED BY <1>1, <2>2, <2>4
<1>5. CASE keys # <<>>
  <2>1. hs = hots \o SetToSeq(Closed(byCountry, keys[i - 1], 1)) /\ i > 1
    <3>1. i - 1 = Len(keys) /\ Len(keys) > 0 BY <1>2, <1>5 DEF Sortable
    <3> QED BY <1>1, <1>2, <1>5, <3>1 DEF AllHot
  <2>2. FlushedAt(byCountry, 1, hs)
    <3>1. 1 \in Nat \ {0} OBVIOUS
    <3> QED BY <2>1, <3>1, HotFlush
  <2>3. \A L \in Levels : L >= 1 BY WriterAssumption DEF Levels
  <2>4. i - 1 = Len(keys) BY <1>2
  <2>5. \A k : k \in HotSet(hs) <=> k \in HotKeys(byCountry)
    BY <1>3, <2>2, <2>3, <2>4 DEF FlushedAt
  <2>6. Distinct(hs) BY <2>2 DEF FlushedAt
  <2> QED BY <1>1, <2>5, <2>6
<1> QED BY <1>4, <1>5

-----------------------------------------------------------------------------
\* A key of names.fst.
IsKey(k) == k[1] \in Nat /\ k[2] \in Seq(Nat)

\* The byte order of such keys is a strict total order.
LEMMA KeyOrder ==
  ASSUME NEW j, NEW k, NEW l, IsKey(j), IsKey(k), IsKey(l)
  PROVE  /\ ~KeyBefore(j, j)
         /\ KeyBefore(j, k) /\ KeyBefore(k, l) => KeyBefore(j, l)
         /\ (j[1] # k[1] \/ j[2] # k[2]) => KeyBefore(j, k) \/ KeyBefore(k, j)
<1>1. ~NameBefore(j[2], j[2]) BY NameIrreflexive DEF IsKey
<1>2. NameBefore(j[2], k[2]) /\ NameBefore(k[2], l[2]) => NameBefore(j[2], l[2])
  BY NameTransitive DEF IsKey
<1>3. j[2] # k[2] => NameBefore(j[2], k[2]) \/ NameBefore(k[2], j[2])
  BY NameTotal DEF IsKey
<1>4. j[1] \in Nat /\ k[1] \in Nat /\ l[1] \in Nat BY DEF IsKey
<1> QED BY <1>1, <1>2, <1>3, <1>4 DEF KeyBefore

\* Sorted by country, the edges come in the order of their keys; at one key, the best first.
LEMMA KeysInOrder ==
  ASSUME Sortable, Ordered(TRUE), NEW m \in 1..Len(keys), NEW n \in 1..Len(keys), m < n
  PROVE  /\ KeyOf(keys[m]) # KeyOf(keys[n]) => KeyBefore(KeyOf(keys[m]), KeyOf(keys[n]))
         /\ ~KeyBefore(KeyOf(keys[n]), KeyOf(keys[m]))
         /\ KeyOf(keys[m]) = KeyOf(keys[n]) => EdgeScore(keys[n]) <= EdgeScore(keys[m])
<1>1. PICK a, b : a = keys[m] /\ b = keys[n] OBVIOUS
<1>2. Comparable(a) /\ Comparable(b) BY <1>1 DEF Sortable
<1>3. ~EdgeBefore(TRUE, b, a) BY <1>1 DEF Ordered
<1>4. IsKey(KeyOf(a)) /\ IsKey(KeyOf(b)) BY <1>2 DEF KeyOf, IsKey, Comparable
<1>5. KeyOf(a)[1] = recCountry[a.ord] /\ KeyOf(a)[2] = a.name
      /\ KeyOf(b)[1] = recCountry[b.ord] /\ KeyOf(b)[2] = b.name
  BY DEF KeyOf
<1>6. recCountry[a.ord] \in Nat /\ recCountry[b.ord] \in Nat
      /\ EdgeScore(a) \in Int /\ EdgeScore(b) \in Int
  BY <1>2 DEF Comparable
<1>7. ~NameBefore(b.name, b.name) BY <1>2, NameIrreflexive DEF Comparable
<1>8. ~KeyBefore(KeyOf(b), KeyOf(a))
  BY <1>3, <1>5, <1>6, <1>7 DEF EdgeBefore, KeyBefore
<1>9. KeyOf(a) # KeyOf(b) => KeyOf(a)[1] # KeyOf(b)[1] \/ KeyOf(a)[2] # KeyOf(b)[2]
  BY <1>5 DEF KeyOf
<1>10. KeyOf(a) # KeyOf(b) => KeyBefore(KeyOf(a), KeyOf(b))
  BY <1>4, <1>8, <1>9, KeyOrder
<1>11. ASSUME KeyOf(a) = KeyOf(b) PROVE EdgeScore(b) <= EdgeScore(a)
  <2>1. recCountry[a.ord] = recCountry[b.ord] /\ a.name = b.name BY <1>5, <1>11
  <2>2. EdgeScore(b) # EdgeScore(a) => ~(EdgeScore(b) > EdgeScore(a))
    BY <1>3, <2>1 DEF EdgeBefore
  <2> QED BY <1>6, <2>2
<1> QED BY <1>1, <1>8, <1>10, <1>11

\* The edges at one key stand together.
LEMMA KeysTogether ==
  ASSUME Sortable, Ordered(TRUE), NEW m \in 1..Len(keys), NEW n \in 1..Len(keys),
         NEW o \in 1..Len(keys), m <= n, n <= o, KeyOf(keys[m]) = KeyOf(keys[o])
  PROVE  KeyOf(keys[n]) = KeyOf(keys[o])
<1>1. CASE m = n \/ n = o BY <1>1
<1>2. CASE m < n /\ n < o
  <2>1. ~KeyBefore(KeyOf(keys[n]), KeyOf(keys[m])) BY <1>2, KeysInOrder
  <2>2. KeyOf(keys[n]) # KeyOf(keys[o]) => KeyBefore(KeyOf(keys[n]), KeyOf(keys[o]))
    BY <1>2, KeysInOrder
  <2> QED BY <2>1, <2>2
<1> QED BY <1>1, <1>2

\* int64 of a score keeps the order of scores.
LEMMA FixedMonotone ==
  ASSUME NEW s \in Int, NEW t \in Int, s <= t
  PROVE  Fixed(s) \in Int /\ Fixed(t) \in Int /\ Fixed(s) <= Fixed(t)
<1>1. PICK d \in Nat \ {0} : d = Fine BY WriterAssumption
<1>2. \A x \in Nat : x \div d \in Nat BY <1>1
<1>3. \A x, y \in Nat : x <= y => x \div d <= y \div d
  BY <1>1
<1>4. /\ Fixed(s) = IF s >= 0 THEN s \div d ELSE -((-s) \div d)
      /\ Fixed(t) = IF t >= 0 THEN t \div d ELSE -((-t) \div d)
  BY <1>1 DEF Fixed
<1>5. CASE s >= 0 BY <1>2, <1>3, <1>4, <1>5
<1>6. CASE s < 0 /\ t >= 0
  <2>1. -s \in Nat /\ t \in Nat BY <1>6
  <2>2. (-s) \div d \in Nat /\ t \div d \in Nat BY <1>2, <2>1
  <2> QED BY <1>4, <1>6, <2>2
<1>7. CASE s < 0 /\ t < 0
  <2>1. -s \in Nat /\ -t \in Nat /\ -t <= -s BY <1>7
  <2>2. (-s) \div d \in Nat /\ (-t) \div d \in Nat /\ (-t) \div d <= (-s) \div d
    BY <1>2, <1>3, <2>1
  <2> QED BY <1>4, <1>7, <2>2
<1> QED BY <1>5, <1>6, <1>7

\* ps are the edges the posting list of the key at n is made of, after n edges: of each
\* record the best, best first.
PostingsAt(ps, n) ==
  /\ ps \in Seq(AnyEdge) /\ Len(ps) > 0
  /\ \A j \in 1..Len(ps) :
       /\ \E m \in 1..n : ps[j] = keys[m] /\ KeyOf(keys[m]) = KeyOf(keys[n])
       /\ EdgeScore(ps[j]) >= EdgeScore(keys[n])
  /\ \A j, k \in 1..Len(ps) : /\ ps[j].ord = ps[k].ord => j = k
                              /\ j < k => EdgeScore(ps[k]) <= EdgeScore(ps[j])
  /\ \A m \in 1..n : KeyOf(keys[m]) = KeyOf(keys[n]) =>
       \E j \in 1..Len(ps) : ps[j].ord = keys[m].ord /\ EdgeScore(ps[j]) >= EdgeScore(keys[m])

ListOf(ps) == [j \in DOMAIN ps |-> Entry(ps[j].ord, Fixed(EdgeScore(ps[j])))]

\* The posting list of key k is what it should be.
RightList(k, list) ==
  /\ WellListed(list) /\ Listed(list) = BestScores(EdgesAt(k[1], k[2]))
  /\ \A j, m \in DOMAIN list : list[j].ord = list[m].ord => j = m

\* An edge at a key of its own starts a list.
LEMMA PostingsStart ==
  ASSUME Sortable, Ordered(TRUE), NEW n \in 1..Len(keys),
         \A m \in 1..n - 1 : KeyOf(keys[m]) # KeyOf(keys[n])
  PROVE  PostingsAt(<<keys[n]>>, n)
<1>1. PICK e, ps : e = keys[n] /\ ps = <<e>> OBVIOUS
<1>2. e \in AnyEdge /\ EdgeScore(e) \in Int BY <1>1 DEF Sortable, Comparable
<1>3. n \in Nat /\ n >= 1 /\ n \in 1..n BY DEF Sortable
<1> HIDE DEF AnyEdge
<1>4. ps \in Seq(AnyEdge) /\ Len(ps) = 1 /\ ps[1] = e BY <1>1, <1>2
<1>5. \A j \in 1..Len(ps) : j = 1 BY <1>4
<1>6. \A m \in 1..n : KeyOf(keys[m]) = KeyOf(keys[n]) => m = n BY <1>3
<1>7. \A j \in 1..Len(ps) :
        /\ \E m \in 1..n : ps[j] = keys[m] /\ KeyOf(keys[m]) = KeyOf(keys[n])
        /\ EdgeScore(ps[j]) >= EdgeScore(keys[n])
  BY <1>1, <1>2, <1>3, <1>4, <1>5
<1>8. \A j, k \in 1..Len(ps) : /\ ps[j].ord = ps[k].ord => j = k
                               /\ j < k => EdgeScore(ps[k]) <= EdgeScore(ps[j])
  BY <1>5
<1>9. ASSUME NEW m \in 1..n, KeyOf(keys[m]) = KeyOf(keys[n])
      PROVE  \E j \in 1..Len(ps) : ps[j].ord = keys[m].ord /\ EdgeScore(ps[j]) >= EdgeScore(keys[m])
  <2>1. m = n /\ 1 \in 1..Len(ps) BY <1>4, <1>6, <1>9
  <2> QED BY <1>1, <1>2, <1>4, <2>1
<1> QED BY <1>1, <1>4, <1>7, <1>8, <1>9 DEF PostingsAt

\* An edge at the key of the one before joins the list, or its record is there already.
LEMMA PostingsJoin ==
  ASSUME Sortable, Ordered(TRUE), NEW n \in Nat \ {0}, n + 1 \in 1..Len(keys), NEW ps,
         PostingsAt(ps, n), KeyOf(keys[n + 1]) = KeyOf(keys[n])
  PROVE  PostingsAt(WithPosting(ps, keys[n + 1]), n + 1)
<1>1. PICK e, o : e = keys[n + 1] /\ o = n + 1 OBVIOUS
<1>2. /\ e \in AnyEdge /\ EdgeScore(e) \in Int /\ n \in 1..Len(keys) /\ o \in 1..Len(keys)
      /\ EdgeScore(keys[n]) \in Int /\ Len(keys) \in Nat
  BY <1>1 DEF Sortable, Comparable
<1>3. EdgeScore(e) <= EdgeScore(keys[n])
  BY <1>1, <1>2, KeysInOrder
<1>4. /\ ps \in Seq(AnyEdge) /\ Len(ps) > 0 /\ Len(ps) \in Nat /\ DOMAIN ps = 1..Len(ps)
      /\ \A j \in 1..Len(ps) :
           /\ \E m \in 1..n : ps[j] = keys[m] /\ KeyOf(keys[m]) = KeyOf(keys[n])
           /\ EdgeScore(ps[j]) >= EdgeScore(keys[n])
      /\ \A j, k \in 1..Len(ps) : /\ ps[j].ord = ps[k].ord => j = k
                                  /\ j < k => EdgeScore(ps[k]) <= EdgeScore(ps[j])
      /\ \A m \in 1..n : KeyOf(keys[m]) = KeyOf(keys[n]) =>
           \E j \in 1..Len(ps) : ps[j].ord = keys[m].ord /\ EdgeScore(ps[j]) >= EdgeScore(keys[m])
  BY DEF PostingsAt
<1>5. \A m \in 1..n : m \in 1..o /\ m \in 1..Len(keys) BY <1>1, <1>2
<1>6. \A m \in 1..o : m \in 1..n \/ m = o BY <1>1
<1>7. \A m \in 1..Len(keys) : EdgeScore(keys[m]) \in Int BY DEF Sortable, Comparable
<1>8. \A j \in 1..Len(ps) :
        /\ EdgeScore(ps[j]) \in Int
        /\ \E m \in 1..o : ps[j] = keys[m] /\ KeyOf(keys[m]) = KeyOf(keys[o])
        /\ EdgeScore(ps[j]) >= EdgeScore(keys[o])
  <2> SUFFICES ASSUME NEW j \in 1..Len(ps)
      PROVE  /\ EdgeScore(ps[j]) \in Int
             /\ \E m \in 1..o : ps[j] = keys[m] /\ KeyOf(keys[m]) = KeyOf(keys[o])
             /\ EdgeScore(ps[j]) >= EdgeScore(keys[o])
    OBVIOUS
  <2>1. PICK m \in 1..n : ps[j] = keys[m] /\ KeyOf(keys[m]) = KeyOf(keys[n]) BY <1>4
  <2>2. EdgeScore(ps[j]) \in Int BY <1>5, <1>7, <2>1
  <2>3. EdgeScore(ps[j]) >= EdgeScore(keys[n]) BY <1>4
  <2>4. EdgeScore(ps[j]) >= EdgeScore(keys[o]) BY <1>1, <1>2, <1>3, <2>2, <2>3
  <2> QED BY <1>1, <1>5, <2>1, <2>2, <2>4
<1> HIDE DEF AnyEdge
<1>9. CASE \E j \in DOMAIN ps : ps[j].ord = e.ord
  <2>1. WithPosting(ps, e) = ps BY <1>9 DEF WithPosting
  <2>2. ASSUME NEW m \in 1..o, KeyOf(keys[m]) = KeyOf(keys[o])
        PROVE  \E j \in 1..Len(ps) : ps[j].ord = keys[m].ord /\ EdgeScore(ps[j]) >= EdgeScore(keys[m])
    <3>1. CASE m \in 1..n BY <1>1, <1>4, <2>2, <3>1
    <3>2. CASE m = o BY <1>1, <1>4, <1>8, <1>9, <3>2
    <3> QED BY <1>6, <3>1, <3>2
  <2>3. PostingsAt(ps, o) BY <1>4, <1>8, <2>2 DEF PostingsAt
  <2> QED BY <1>1, <2>1, <2>3
<1>10. CASE ~\E j \in DOMAIN ps : ps[j].ord = e.ord
  <2>1. PICK qs : qs = Append(ps, e) OBVIOUS
  <2>2. WithPosting(ps, e) = qs BY <1>10, <2>1 DEF WithPosting
  <2>3. /\ qs \in Seq(AnyEdge) /\ Len(qs) = Len(ps) + 1
        /\ \A j \in 1..Len(ps) : qs[j] = ps[j]
        /\ qs[Len(ps) + 1] = e
    BY <1>2, <1>4, <2>1, Appended
  <2>4. \A j \in 1..Len(qs) : j \in 1..Len(ps) \/ j = Len(ps) + 1 BY <1>4, <2>3
  <2>5. Len(ps) + 1 \in 1..Len(qs) /\ \A j \in 1..Len(ps) : j \in 1..Len(qs) BY <1>4, <2>3
  <2>6. o \in 1..o BY <1>1
  <2>7. \A j \in 1..Len(qs) :
          /\ \E m \in 1..o : qs[j] = keys[m] /\ KeyOf(keys[m]) = KeyOf(keys[o])
          /\ EdgeScore(qs[j]) >= EdgeScore(keys[o])
    <3> SUFFICES ASSUME NEW j \in 1..Len(qs)
        PROVE  /\ \E m \in 1..o : qs[j] = keys[m] /\ KeyOf(keys[m]) = KeyOf(keys[o])
               /\ EdgeScore(qs[j]) >= EdgeScore(keys[o])
      OBVIOUS
    <3>1. CASE j \in 1..Len(ps) BY <1>8, <2>3, <3>1
    <3>2. CASE j = Len(ps) + 1 BY <1>1, <1>2, <2>3, <2>6, <3>2
    <3> QED BY <2>4, <3>1, <3>2
  <2>8. \A j, k \in 1..Len(qs) : /\ qs[j].ord = qs[k].ord => j = k
                                 /\ j < k => EdgeScore(qs[k]) <= EdgeScore(qs[j])
    <3> SUFFICES ASSUME NEW j \in 1..Len(qs), NEW k \in 1..Len(qs)
                 PROVE  /\ qs[j].ord = qs[k].ord => j = k
                        /\ j < k => EdgeScore(qs[k]) <= EdgeScore(qs[j])
      OBVIOUS
    <3>1. CASE j \in 1..Len(ps) /\ k \in 1..Len(ps) BY <1>4, <2>3, <3>1
    <3>2. CASE j \in 1..Len(ps) /\ k = Len(ps) + 1
      <4>1. qs[j].ord # e.ord BY <1>4, <1>10, <2>3, <3>2
      <4>2. EdgeScore(e) <= EdgeScore(qs[j]) BY <1>1, <1>2, <1>8, <2>3, <3>2
      <4> QED BY <2>3, <3>2, <4>1, <4>2
    <3>3. CASE j = Len(ps) + 1 /\ k \in 1..Len(ps)
      <4>1. qs[k].ord # e.ord BY <1>4, <1>10, <2>3, <3>3
      <4>2. ~(j < k) BY <1>4, <3>3
      <4> QED BY <2>3, <3>3, <4>1, <4>2
    <3>4. CASE j = Len(ps) + 1 /\ k = Len(ps) + 1 BY <1>4, <3>4
    <3> QED BY <2>4, <3>1, <3>2, <3>3, <3>4
  <2>9. ASSUME NEW m \in 1..o, KeyOf(keys[m]) = KeyOf(keys[o])
        PROVE  \E j \in 1..Len(qs) : qs[j].ord = keys[m].ord /\ EdgeScore(qs[j]) >= EdgeScore(keys[m])
    <3>1. CASE m \in 1..n
      <4>1. PICK j \in 1..Len(ps) : ps[j].ord = keys[m].ord /\ EdgeScore(ps[j]) >= EdgeScore(keys[m])
        BY <1>1, <1>4, <2>9, <3>1
      <4> QED BY <2>3, <2>5, <4>1
    <3>2. CASE m = o BY <1>1, <1>2, <2>3, <2>5, <3>2
    <3> QED BY <1>6, <3>1, <3>2
  <2>10. Len(qs) > 0 BY <1>4, <2>3
  <2>11. PostingsAt(qs, o) BY <2>3, <2>7, <2>8, <2>9, <2>10 DEF PostingsAt
  <2> QED BY <1>1, <2>2, <2>11
<1> QED BY <1>9, <1>10

\* A list of distinct records, best first, is encoded as it should be.
LEMMA ListedAre ==
  ASSUME NEW ps \in Seq(AnyEdge), \A j \in 1..Len(ps) : EdgeScore(ps[j]) \in Int,
         \A j, k \in 1..Len(ps) : /\ ps[j].ord = ps[k].ord => j = k
                                  /\ j < k => EdgeScore(ps[k]) <= EdgeScore(ps[j])
  PROVE  /\ WellListed(ListOf(ps))
         /\ DOMAIN Listed(ListOf(ps)) = {ps[j].ord : j \in 1..Len(ps)}
         /\ Listed(ListOf(ps)) = [o \in DOMAIN Listed(ListOf(ps)) |-> Listed(ListOf(ps))[o]]
         /\ \A j \in 1..Len(ps) : Listed(ListOf(ps))[ps[j].ord] = Fixed(EdgeScore(ps[j]))
         /\ \A j, k \in DOMAIN ListOf(ps) : ListOf(ps)[j].ord = ListOf(ps)[k].ord => j = k
<1>1. PICK N, list, L : N = Len(ps) /\ list = ListOf(ps) /\ L = Listed(list) OBVIOUS
<1>2. N \in Nat /\ DOMAIN ps = 1..N BY <1>1
<1>3. /\ list = [j \in 1..N |-> Entry(ps[j].ord, Fixed(EdgeScore(ps[j])))]
  BY <1>1, <1>2 DEF ListOf
<1>4. /\ DOMAIN list = 1..N /\ Len(list) = N
      /\ \A j \in 1..N : list[j].ord = ps[j].ord /\ list[j].score = Fixed(EdgeScore(ps[j]))
  BY <1>2, <1>3 DEF Entry
<1>5. \A j, k \in 1..N : list[j].ord = list[k].ord => j = k BY <1>1, <1>4
<1>6. DOMAIN L = {list[j].ord : j \in 1..N}
      /\ L = [o \in {list[j].ord : j \in 1..N} |->
                list[CHOOSE j \in 1..N : list[j].ord = o].score]
  BY <1>1, <1>4 DEF Listed
<1>7. ASSUME NEW j \in 1..N PROVE L[list[j].ord] = list[j].score
  <2>1. (CHOOSE k \in 1..N : list[k].ord = list[j].ord) = j BY <1>5
  <2>2. list[j].ord \in {list[k].ord : k \in 1..N} OBVIOUS
  <2> QED BY <1>6, <2>1, <2>2
<1>8. Cardinality(DOMAIN L) = N
  <2> DEFINE D == 1..N
             R == DOMAIN L
             f == [j \in D |-> list[j].ord]
  <2>0. R = {list[j].ord : j \in D} BY <1>6
  <2>1. f \in Surjection(D, R) BY <2>0 DEF Surjection
  <2>2. f \in Injection(D, R)
    <3>1. \A j, k \in D : list[j].ord = list[k].ord => j = k BY <1>5
    <3>2. \A j \in D : f[j] = list[j].ord OBVIOUS
    <3>3. f \in [D -> R] BY <2>0
    <3> HIDE DEF D, R, f
    <3>4. IsInjective(f) BY <3>1, <3>2, <3>3 DEF IsInjective
    <3> QED BY <3>3, <3>4 DEF Injection
  <2>3. IsFiniteSet(D) /\ Cardinality(D) = N
    <3>1. \A a, b \in Int : /\ IsFiniteSet(a..b)
                            /\ Cardinality(a..b) = IF a > b THEN 0 ELSE b - a + 1
      BY FS_Interval
    <3> QED BY <1>2, <3>1
  <2> HIDE DEF D, R, f
  <2>4. Cardinality(R) = Cardinality(D) BY <2>1, <2>2, <2>3, FS_Surjection
  <2> QED BY <2>3, <2>4 DEF R
<1>9. ASSUME NEW j \in 2..N PROVE list[j].score <= list[j - 1].score
  <2>1. j \in 1..N /\ j - 1 \in 1..N /\ j - 1 < j BY <1>2
  <2>2. EdgeScore(ps[j]) <= EdgeScore(ps[j - 1]) BY <1>1, <2>1
  <2>3. EdgeScore(ps[j]) \in Int /\ EdgeScore(ps[j - 1]) \in Int BY <1>1, <2>1
  <2>4. Fixed(EdgeScore(ps[j])) <= Fixed(EdgeScore(ps[j - 1])) BY <2>2, <2>3, FixedMonotone
  <2> QED BY <1>4, <2>1, <2>4
<1>10. WellListed(list)
  <2>1. Len(list) = N /\ Cardinality(DOMAIN Listed(list)) = N BY <1>1, <1>4, <1>8
  <2>2. \A j \in 2..Len(list) : list[j].score <= list[j - 1].score BY <1>9, <2>1
  <2> QED BY <2>1, <2>2 DEF WellListed
<1>11. DOMAIN L = {ps[j].ord : j \in 1..N}
  <2>1. \A j \in 1..N : list[j].ord = ps[j].ord BY <1>4
  <2>2. {list[j].ord : j \in 1..N} = {ps[j].ord : j \in 1..N} BY <2>1
  <2> QED BY <1>6, <2>2
<1>12. L = [o \in DOMAIN L |-> L[o]] BY <1>6
<1>13. \A j \in 1..N : L[ps[j].ord] = Fixed(EdgeScore(ps[j])) BY <1>4, <1>7
<1>14. \A j, k \in DOMAIN list : list[j].ord = list[k].ord => j = k BY <1>4, <1>5
<1> QED BY <1>1, <1>10, <1>11, <1>12, <1>13, <1>14

\* The greatest of some numbers is the one no other exceeds.
LEMMA MaxIs ==
  ASSUME NEW S, S \subseteq Int, NEW x \in S, \A y \in S : y <= x
  PROVE  Max(S) = x
<1>1. \A z \in S : (\A y \in S : z >= y) => z = x
  <2> SUFFICES ASSUME NEW z \in S, \A y \in S : z >= y PROVE z = x OBVIOUS
  <2>1. z >= x /\ z <= x /\ z \in Int /\ x \in Int OBVIOUS
  <2> QED BY <2>1
<1>2. \A y \in S : x >= y
  <2> SUFFICES ASSUME NEW y \in S PROVE x >= y OBVIOUS
  <2>1. y <= x /\ y \in Int /\ x \in Int OBVIOUS
  <2> QED BY <2>1
<1>3. (CHOOSE z \in S : \A y \in S : z >= y) = x BY <1>1, <1>2
<1> QED BY <1>3 DEF Max

\* What flush writes when the last edge of a key has been read.
LEMMA ListRight ==
  ASSUME Sortable, Ordered(TRUE), NEW n \in 1..Len(keys), NEW ps, PostingsAt(ps, n),
         n < Len(keys) => KeyOf(keys[n + 1]) # KeyOf(keys[n])
  PROVE  RightList(KeyOf(keys[n]), ListOf(ps))
<1>1. PICK k, E, N : /\ k = KeyOf(keys[n]) /\ E = EdgesAt(k[1], k[2]) /\ N = Len(ps)
  OBVIOUS
<1>2. Len(keys) \in Nat /\ n \in Nat /\ DOMAIN keys = 1..Len(keys)
  BY DEF Sortable
<1>3. /\ ps \in Seq(AnyEdge)
      /\ \A j \in 1..N :
           \E m \in 1..n : ps[j] = keys[m] /\ KeyOf(keys[m]) = k
      /\ \A j, q \in 1..N : /\ ps[j].ord = ps[q].ord => j = q
                            /\ j < q => EdgeScore(ps[q]) <= EdgeScore(ps[j])
      /\ \A m \in 1..n : KeyOf(keys[m]) = k =>
           \E j \in 1..N : ps[j].ord = keys[m].ord /\ EdgeScore(ps[j]) >= EdgeScore(keys[m])
  BY <1>1 DEF PostingsAt
<1>4. \A e : e \in E <=> \E m \in 1..Len(keys) : e = keys[m] /\ KeyOf(keys[m]) = k
  <2>1. \A e : e \in Edges <=> \E m \in 1..Len(keys) : e = keys[m]
    BY <1>2 DEF Edges, ToSet
  <2>2. \A e : KeyOf(e) = k <=> e.name = k[2] /\ recCountry[e.ord] = k[1]
    BY <1>1 DEF KeyOf
  <2> QED BY <1>1, <2>1, <2>2 DEF EdgesAt
<1>5. ASSUME NEW m \in 1..Len(keys), KeyOf(keys[m]) = k PROVE m \in 1..n
  <2>1. SUFFICES ASSUME m > n PROVE FALSE BY <1>2
  <2>2. n + 1 \in 1..Len(keys) /\ n + 1 <= m /\ n <= n + 1 /\ n < Len(keys) BY <1>2, <2>1
  <2>3. KeyOf(keys[n]) = KeyOf(keys[m]) BY <1>1, <1>5
  <2>4. KeyOf(keys[n + 1]) = KeyOf(keys[m]) BY <2>2, <2>3, KeysTogether
  <2> QED BY <2>2, <2>3, <2>4
<1>6. \A e \in E : EdgeScore(e) \in Int BY <1>4 DEF Sortable, Comparable
<1>7. \A j \in 1..N : ps[j] \in E /\ EdgeScore(ps[j]) \in Int
  <2>1. \A m \in 1..n : m \in 1..Len(keys) BY <1>2
  <2>2. \A j \in 1..N : ps[j] \in E BY <1>3, <1>4, <2>1
  <2> QED BY <1>6, <2>2
<1>8. \A e \in E : \E j \in 1..N : ps[j].ord = e.ord /\ EdgeScore(ps[j]) >= EdgeScore(e)
  <2> SUFFICES ASSUME NEW e \in E
               PROVE  \E j \in 1..N : ps[j].ord = e.ord /\ EdgeScore(ps[j]) >= EdgeScore(e)
    OBVIOUS
  <2>1. PICK m \in 1..Len(keys) : e = keys[m] /\ KeyOf(keys[m]) = k BY <1>4
  <2>2. m \in 1..n BY <1>5, <2>1
  <2>3. \E j \in 1..N : ps[j].ord = keys[m].ord /\ EdgeScore(ps[j]) >= EdgeScore(keys[m])
    BY <1>3, <2>1, <2>2
  <2> QED BY <2>1, <2>3
<1>9. PICK L : L = Listed(ListOf(ps)) OBVIOUS
<1>10. /\ WellListed(ListOf(ps))
       /\ DOMAIN L = {ps[j].ord : j \in 1..N}
       /\ L = [o \in DOMAIN L |-> L[o]]
       /\ \A j \in 1..N : L[ps[j].ord] = Fixed(EdgeScore(ps[j]))
       /\ \A j, m \in DOMAIN ListOf(ps) : ListOf(ps)[j].ord = ListOf(ps)[m].ord => j = m
  BY <1>1, <1>3, <1>7, <1>9, ListedAre
<1>11. {ps[j].ord : j \in 1..N} = {e.ord : e \in E} BY <1>7, <1>8
<1>12. ASSUME NEW o \in {e.ord : e \in E}
       PROVE  L[o] = Fixed(Max({EdgeScore(e) : e \in {d \in E : d.ord = o}}))
  <2>1. PICK j \in 1..N : ps[j].ord = o BY <1>11
  <2>2. PICK S : S = {EdgeScore(e) : e \in {d \in E : d.ord = o}} OBVIOUS
  <2>3. S \subseteq Int BY <1>6, <2>2
  <2>4. EdgeScore(ps[j]) \in S BY <1>7, <2>1, <2>2
  <2>5. ASSUME NEW y \in S PROVE y <= EdgeScore(ps[j])
    <3>1. PICK e \in E : e.ord = o /\ y = EdgeScore(e) BY <2>2, <2>5
    <3>2. PICK q \in 1..N : ps[q].ord = e.ord /\ EdgeScore(ps[q]) >= EdgeScore(e) BY <1>8
    <3>3. q = j
      <4>1. ps[q].ord = ps[j].ord BY <2>1, <3>1, <3>2
      <4>2. \A a, b \in 1..N : ps[a].ord = ps[b].ord => a = b BY <1>3
      <4> QED BY <4>1, <4>2
    <3>4. EdgeScore(e) \in Int /\ EdgeScore(ps[j]) \in Int BY <1>6, <1>7
    <3> QED BY <3>1, <3>2, <3>3, <3>4
  <2>6. Max(S) = EdgeScore(ps[j]) BY <2>3, <2>4, <2>5, MaxIs
  <2> QED BY <1>10, <2>1, <2>2, <2>6
<1>13. L = BestScores(E)
  <2>1. BestScores(E) =
          [o \in {e.ord : e \in E} |-> Fixed(Max({EdgeScore(e) : e \in {d \in E : d.ord = o}}))]
    BY DEF BestScores
  <2>2. L = [o \in {e.ord : e \in E} |-> L[o]] BY <1>10, <1>11
  <2> QED BY <1>12, <2>1, <2>2
<1> QED BY <1>1, <1>9, <1>10, <1>13 DEF RightList

-----------------------------------------------------------------------------
\* f has the lists of the keys among the first n edges, but the key at n.
FstAt(f, n) ==
  /\ (\E S : f \in Seq(S)) /\ Accepted(f)
  /\ \A q \in 1..Len(f) :
       /\ RightList(f[q][1], f[q][2])
       /\ \E m \in 1..n : f[q][1] = KeyOf(keys[m]) /\ KeyOf(keys[m]) # KeyOf(keys[n])
  /\ \A m \in 1..n : KeyOf(keys[m]) # KeyOf(keys[n]) =>
       \E q \in 1..Len(f) : f[q][1] = KeyOf(keys[m])

\* f has the lists of all the keys among the first n edges.
FstFull(f, n) ==
  /\ (\E S : f \in Seq(S)) /\ Accepted(f)
  /\ \A q \in 1..Len(f) :
       RightList(f[q][1], f[q][2]) /\ \E m \in 1..n : f[q][1] = KeyOf(keys[m])
  /\ \A m \in 1..n : \E q \in 1..Len(f) : f[q][1] = KeyOf(keys[m])

\* flush completes the FST: the FST takes the key, as it comes after all it has.
LEMMA FlushCompletes ==
  ASSUME Sortable, Ordered(TRUE), NEW n \in 1..Len(keys), NEW ps, PostingsAt(ps, n),
         n < Len(keys) => KeyOf(keys[n + 1]) # KeyOf(keys[n]), FstAt(fst, n)
  PROVE  FstFull(Flushed(ps), n)
<1>1. PICK k, x, f : /\ k = KeyOf(keys[n]) /\ x = <<k, ListOf(ps)>> /\ f = Append(fst, x)
  OBVIOUS
<1>2. RightList(k, ListOf(ps)) BY <1>1, ListRight
<1>3. ps # <<>> /\ KeyOf(ps[1]) = k
  <2>1. ps \in Seq(AnyEdge) /\ Len(ps) > 0 /\ Len(ps) \in Nat BY DEF PostingsAt
  <2>2. 1 \in 1..Len(ps) BY <2>1
  <2>3. \E m \in 1..n : ps[1] = keys[m] /\ KeyOf(keys[m]) = k BY <1>1, <2>2 DEF PostingsAt
  <2>4. ps # <<>> BY <2>1
  <2> QED BY <2>3, <2>4
<1>4. Flushed(ps) = f BY <1>1, <1>3 DEF Flushed, ListOf
<1>5. PICK S : fst \in Seq(S) BY DEF FstAt
<1>6. PICK T : T = S \cup {x} OBVIOUS
<1>7. fst \in Seq(T) /\ x \in T /\ Len(fst) \in Nat
  <2>1. \A q \in 1..Len(fst) : fst[q] \in T BY <1>5, <1>6
  <2> QED BY <1>5, <1>6, <2>1
<1>8. /\ f \in Seq(T) /\ Len(f) = Len(fst) + 1
      /\ \A q \in 1..Len(fst) : f[q] = fst[q]
      /\ f[Len(fst) + 1] = x
  BY <1>1, <1>7, Appended
<1>9. x[1] = k /\ x[2] = ListOf(ps) BY <1>1
<1>10. \A q \in 1..Len(f) : q \in 1..Len(fst) \/ q = Len(fst) + 1 BY <1>7, <1>8
<1>11. Len(fst) + 1 \in 1..Len(f) /\ \A q \in 1..Len(fst) : q \in 1..Len(f) BY <1>7, <1>8
<1>12. n \in 1..n /\ \A m \in 1..n : m \in 1..Len(keys) /\ (m # n => m < n) OBVIOUS
<1>13. /\ \A q \in 1..Len(fst) :
            /\ RightList(fst[q][1], fst[q][2])
            /\ \E m \in 1..n : fst[q][1] = KeyOf(keys[m]) /\ KeyOf(keys[m]) # k
       /\ \A m \in 1..n : KeyOf(keys[m]) # k => \E q \in 1..Len(fst) : fst[q][1] = KeyOf(keys[m])
  BY <1>1 DEF FstAt
<1>14. Accepted(f)
  <2>1. SUFFICES ASSUME Len(f) > 1 PROVE KeyBefore(f[Len(f) - 1][1], f[Len(f)][1])
    BY DEF Accepted
  <2>2. PICK q \in 1..Len(fst) : q = Len(f) - 1 /\ q = Len(fst)
    <3>1. Len(fst) \in 1..Len(fst) /\ Len(f) - 1 = Len(fst) BY <1>7, <1>8, <2>1
    <3> QED BY <3>1
  <2>3. PICK m \in 1..n : fst[q][1] = KeyOf(keys[m]) /\ KeyOf(keys[m]) # k BY <1>13
  <2>4. m \in 1..Len(keys) /\ m < n BY <1>1, <1>12, <2>3
  <2>5. KeyBefore(KeyOf(keys[m]), k) BY <1>1, <2>3, <2>4, KeysInOrder
  <2>6. f[Len(f) - 1][1] = KeyOf(keys[m]) BY <1>8, <2>2, <2>3
  <2>7. f[Len(f)][1] = k BY <1>8, <1>9
  <2> QED BY <2>5, <2>6, <2>7
<1>15. ASSUME NEW q \in 1..Len(f)
       PROVE  RightList(f[q][1], f[q][2]) /\ \E m \in 1..n : f[q][1] = KeyOf(keys[m])
  <2>1. CASE q \in 1..Len(fst)
    <3>1. f[q] = fst[q] BY <1>8, <2>1
    <3>2. RightList(fst[q][1], fst[q][2]) BY <1>13, <2>1
    <3>3. \E m \in 1..n : fst[q][1] = KeyOf(keys[m]) BY <1>13, <2>1
    <3> QED BY <3>1, <3>2, <3>3
  <2>2. CASE q = Len(fst) + 1
    <3>1. f[q][1] = k /\ f[q][2] = ListOf(ps) BY <1>8, <1>9, <2>2
    <3> QED BY <1>1, <1>2, <1>12, <3>1
  <2> QED BY <1>10, <2>1, <2>2
<1>16. ASSUME NEW m \in 1..n PROVE \E q \in 1..Len(f) : f[q][1] = KeyOf(keys[m])
  <2>1. CASE KeyOf(keys[m]) = k BY <1>8, <1>9, <1>11, <2>1
  <2>2. CASE KeyOf(keys[m]) # k
    <3>1. PICK q \in 1..Len(fst) : fst[q][1] = KeyOf(keys[m]) BY <1>13, <2>2
    <3>2. f[q][1] = KeyOf(keys[m]) BY <1>8, <3>1
    <3> QED BY <1>11, <3>2
  <2> QED BY <2>1, <2>2
<1>17. FstFull(f, n) BY <1>8, <1>14, <1>15, <1>16 DEF FstFull
<1> QED BY <1>4, <1>17

\* The next edge is at the same key or at one not seen before.
LEMMA FstNext ==
  ASSUME Sortable, Ordered(TRUE), NEW n \in Nat \ {0}, n + 1 \in 1..Len(keys), NEW f,
         IF KeyOf(keys[n + 1]) # KeyOf(keys[n]) THEN FstFull(f, n) ELSE FstAt(f, n)
  PROVE  FstAt(f, n + 1)
<1>1. PICK o \in Nat : o = n + 1 OBVIOUS
<1>2. /\ n \in 1..Len(keys) /\ o \in 1..Len(keys) /\ n <= o /\ Len(keys) \in Nat
  BY <1>1 DEF Sortable
<1>3. \A m \in 1..n : m \in 1..Len(keys) /\ m \in 1..o /\ m <= n BY <1>1, <1>2
<1>4. \A m \in 1..o : m \in 1..n \/ m = o BY <1>1
<1>5. CASE KeyOf(keys[o]) # KeyOf(keys[n])
  <2>1. FstFull(f, n) BY <1>1, <1>5
  <2>2. ASSUME NEW m \in 1..n PROVE KeyOf(keys[m]) # KeyOf(keys[o])
    <3>1. SUFFICES ASSUME KeyOf(keys[m]) = KeyOf(keys[o]) PROVE FALSE OBVIOUS
    <3>2. KeyOf(keys[n]) = KeyOf(keys[o]) BY <1>2, <1>3, <3>1, KeysTogether
    <3> QED BY <1>5, <3>2
  <2>3. FstAt(f, o) BY <1>3, <1>4, <2>1, <2>2 DEF FstAt, FstFull
  <2> QED BY <1>1, <2>3
<1>6. CASE KeyOf(keys[o]) = KeyOf(keys[n])
  <2>1. FstAt(f, n) BY <1>1, <1>6
  <2>2. FstAt(f, o) BY <1>3, <1>4, <1>6, <2>1 DEF FstAt
  <2> QED BY <1>1, <2>2
<1> QED BY <1>5, <1>6

\* What the third pass knows of the edges behind it.
PostAt(j, ps, f) ==
  /\ j \in 1..Len(keys) + 1
  /\ IF j = 1 THEN ps = <<>> /\ f = <<>> ELSE PostingsAt(ps, j - 1) /\ FstAt(f, j - 1)

\* The hot prefixes are the same in whatever order the edges stand.
LEMMA HotKeysStay ==
  ASSUME ToSet(keys') = ToSet(keys), recCountry' = recCountry
  PROVE  \A b : HotKeys(b)' = HotKeys(b)
<1>1. Edges' = Edges BY DEF Edges
<1>2. \A b, e : Spans(b, e)' = Spans(b, e) BY DEF Spans
<1>3. \A c, p : EdgesBeneath(c, p)' = EdgesBeneath(c, p) BY <1>1 DEF EdgesBeneath
<1>4. \A k : Cardinality({e.name : e \in EdgesBeneath(k[1], k[2])})'
               = Cardinality({e.name : e \in EdgesBeneath(k[1], k[2])})
  BY <1>3
<1>5. \A e : LevelPrefixes(e)' = LevelPrefixes(e) BY DEF LevelPrefixes
<1>6. \A b : (UNION {{Spans(b, e)} \X LevelPrefixes(e) : e \in Edges})'
               = UNION {{Spans(b, e)} \X LevelPrefixes(e) : e \in Edges}
  BY <1>1, <1>2, <1>5
<1> QED BY <1>4, <1>6 DEF HotKeys

\* The two sides of a step see the same edges.
LEMMA SameEdges ==
  ASSUME UNCHANGED build
  PROVE  /\ Sortable' <=> Sortable
         /\ \A b : Ordered(b)' <=> Ordered(b)
         /\ \A b : HotKeys(b)' = HotKeys(b)
         /\ \A b, n, hs, cs : HotAt(b, n, hs, cs)' <=> HotAt(b, n, hs, cs)
         /\ \A j, ps, f : PostAt(j, ps, f)' <=> PostAt(j, ps, f)
         /\ \A k, list : RightList(k, list)' <=> RightList(k, list)
         /\ \A e : KeyOf(e)' = KeyOf(e)
<1>1. keys' = keys /\ recCountry' = recCountry /\ prominence' = prominence BY DEF build
<1>2. \A e : EdgeScore(e)' = EdgeScore(e) BY <1>1 DEF EdgeScore
<1>3. \A e : KeyOf(e)' = KeyOf(e) BY <1>1 DEF KeyOf
<1>4. Sortable' <=> Sortable BY <1>1, <1>2 DEF Sortable, Comparable
<1>5. \A b : Ordered(b)' <=> Ordered(b)
  <2>1. \A b, x, y : EdgeBefore(b, x, y)' <=> EdgeBefore(b, x, y) BY <1>1, <1>2 DEF EdgeBefore
  <2> QED BY <1>1, <2>1 DEF Ordered
<1>6. Edges' = Edges BY <1>1 DEF Edges
<1>7. \A b, e : Spans(b, e)' = Spans(b, e) BY <1>1 DEF Spans
<1>8. \A b : HotKeys(b)' = HotKeys(b) BY <1>1, HotKeysStay
<1>9. \A b, n, hs, cs : HotAt(b, n, hs, cs)' <=> HotAt(b, n, hs, cs)
  <2>1. /\ \A b, m, j, L : Shares(b, m, j, L)' <=> Shares(b, m, j, L)
        /\ \A b, m, L : KeyAt(b, m, L)' = KeyAt(b, m, L)
    BY <1>1 DEF Shares, KeyAt, Spans
  <2>2. \A b, m, L, j : NamesWith(b, m, L, j)' = NamesWith(b, m, L, j)
    BY <1>1, <2>1 DEF NamesWith
  <2>3. \A b, m, L, j : NamesCount(b, m, L, j)' = NamesCount(b, m, L, j)
    BY <2>2 DEF NamesCount
  <2> QED BY <1>1, <2>1, <2>3 DEF HotAt
<1>10. \A k, list : RightList(k, list)' <=> RightList(k, list)
  <2>1. \A c, p : EdgesAt(c, p)' = EdgesAt(c, p) BY <1>1, <1>6 DEF EdgesAt
  <2>2. \A E : BestScores(E)' = BestScores(E) BY <1>2 DEF BestScores
  <2>3. \A c, p : BestScores(EdgesAt(c, p))' = BestScores(EdgesAt(c, p)) BY <2>1, <2>2
  <2> QED BY <2>3 DEF RightList
<1>11. \A j, ps, f : PostAt(j, ps, f)' <=> PostAt(j, ps, f)
  <2>1. \A m : KeyOf(keys[m])' = KeyOf(keys[m]) /\ EdgeScore(keys[m])' = EdgeScore(keys[m])
    BY <1>1, <1>2, <1>3
  <2>2. \A ps, n : PostingsAt(ps, n)' <=> PostingsAt(ps, n)
    <3>1. \A ps, j : EdgeScore(ps[j])' = EdgeScore(ps[j]) BY <1>2
    <3> QED BY <1>1, <2>1, <3>1 DEF PostingsAt
  <2>3. \A f, n : FstAt(f, n)' <=> FstAt(f, n) BY <1>10, <2>1 DEF FstAt
  <2> QED BY <1>1, <2>2, <2>3 DEF PostAt
<1> QED BY <1>3, <1>4, <1>5, <1>8, <1>9, <1>10, <1>11

\* A step of the third pass is not refused and keeps what is known.
LEMMA PostingKept ==
  ASSUME Sortable, Ordered(TRUE), PostAt(i, postings, fst), PostingEdge
  PROVE  PostAt(i, postings, fst)' /\ pc' = pc
<1>1. PICK n, e, other, f :
        /\ n = i /\ e = keys[n]
        /\ other = (n > 1 /\ KeyOf(e) # KeyOf(keys[n - 1]))
        /\ f = IF other THEN Flushed(postings) ELSE fst
  OBVIOUS
<1>2. /\ n <= Len(keys) /\ UNCHANGED build
      /\ IF Accepted(f)
         THEN /\ fst' = f
              /\ postings' = WithPosting(IF other THEN <<>> ELSE postings, e)
              /\ i' = n + 1 /\ pc' = pc
         ELSE pc' = "refused"
  BY <1>1 DEF PostingEdge
<1>3. Len(keys) \in Nat /\ n \in 1..Len(keys) BY <1>1, <1>2 DEF PostAt, Sortable
<1>4. WithPosting(<<>>, e) = <<e>>
  <2>1. DOMAIN <<>> = {} OBVIOUS
  <2> QED BY <2>1 DEF WithPosting
<1>5. CASE n = 1
  <2>1. postings = <<>> /\ fst = <<>> BY <1>1, <1>5 DEF PostAt
  <2>2. f = <<>>
    <3>1. (n > 1 /\ KeyOf(e) # KeyOf(keys[n - 1])) = FALSE BY <1>5
    <3>2. other = FALSE BY <1>1, <3>1
    <3> QED BY <1>1, <2>1, <3>2
  <2>3. Accepted(f) BY <2>2 DEF Accepted
  <2>4. fst' = f /\ postings' = <<e>> /\ i' = 2 /\ pc' = pc
    BY <1>1, <1>2, <1>4, <1>5, <2>1, <2>3
  <2>5. 1..n - 1 = {} BY <1>5
  <2>6. PostingsAt(<<keys[n]>>, n) BY <1>3, <2>5, PostingsStart
  <2>7. FstAt(f, n)
    <3>1. f \in Seq(Nat) /\ Len(f) = 0 /\ 1..Len(f) = {} BY <2>2
    <3>2. \A m \in 1..n : m = n BY <1>5
    <3> QED BY <2>3, <3>1, <3>2 DEF FstAt
  <2>8. PICK j, ps : j = i' /\ ps = postings' OBVIOUS
  <2>9. PostAt(j, ps, f)
    <3>1. j - 1 = n /\ j \in 1..Len(keys) + 1 /\ j # 1 BY <1>3, <1>5, <2>4, <2>8
    <3> QED BY <1>1, <2>4, <2>6, <2>7, <2>8, <3>1 DEF PostAt
  <2>10. PostAt(j, ps, f)' BY <1>2, <2>9, SameEdges
  <2> QED BY <2>4, <2>8, <2>10
<1>6. CASE n > 1
  <2>1. PICK o \in Nat \ {0} : o = n - 1 /\ n = o + 1
    <3>1. n - 1 \in Nat \ {0} /\ n = n - 1 + 1 BY <1>3, <1>6
    <3> QED BY <3>1
  <2>2. o \in 1..Len(keys) /\ o + 1 \in 1..Len(keys) BY <1>3, <2>1
  <2>3. PostingsAt(postings, o) /\ FstAt(fst, o) BY <1>1, <1>6, <2>1 DEF PostAt
  <2>4. KeyOf(e) = KeyOf(keys[o + 1]) /\ other = (KeyOf(keys[o + 1]) # KeyOf(keys[o]))
    BY <1>1, <1>6, <2>1
  <2>5. Accepted(f) /\ FstAt(f, o + 1)
    <3>1. CASE other
      <4>1. o < Len(keys) => KeyOf(keys[o + 1]) # KeyOf(keys[o]) BY <2>4, <3>1
      <4>2. FstFull(Flushed(postings), o) BY <2>2, <2>3, <4>1, FlushCompletes
      <4>3. FstFull(f, o) BY <1>1, <3>1, <4>2
      <4>4. IF KeyOf(keys[o + 1]) # KeyOf(keys[o]) THEN FstFull(f, o) ELSE FstAt(f, o)
        BY <2>4, <3>1, <4>3
      <4>5. Accepted(f) BY <4>3 DEF FstFull
      <4>6. FstAt(f, o + 1) BY <2>2, <4>4, FstNext
      <4> QED BY <4>5, <4>6
    <3>2. CASE ~other
      <4>1. FstAt(f, o) BY <1>1, <2>3, <3>2
      <4>2. IF KeyOf(keys[o + 1]) # KeyOf(keys[o]) THEN FstFull(f, o) ELSE FstAt(f, o)
        BY <2>4, <3>2, <4>1
      <4>3. Accepted(f) BY <4>1 DEF FstAt
      <4>4. FstAt(f, o + 1) BY <2>2, <4>2, FstNext
      <4> QED BY <4>3, <4>4
    <3> QED BY <3>1, <3>2
  <2>6. PICK ps : ps = WithPosting(IF other THEN <<>> ELSE postings, e) OBVIOUS
  <2>7. PostingsAt(ps, o + 1)
    <3>1. CASE other
      <4>1. ASSUME NEW m \in 1..n - 1, KeyOf(keys[m]) = KeyOf(keys[n]) PROVE FALSE
        <5>1. m \in 1..Len(keys) /\ m <= o /\ o <= n BY <1>3, <2>1
        <5>2. KeyOf(keys[o]) = KeyOf(keys[n]) BY <1>3, <2>2, <4>1, <5>1, KeysTogether
        <5> QED BY <2>1, <2>4, <3>1, <5>2
      <4>2. PostingsAt(<<keys[n]>>, n) BY <1>3, <4>1, PostingsStart
      <4>3. ps = <<keys[n]>> BY <1>1, <1>4, <2>6, <3>1
      <4> QED BY <2>1, <4>2, <4>3
    <3>2. CASE ~other
      <4>1. KeyOf(keys[o + 1]) = KeyOf(keys[o]) BY <2>4, <3>2
      <4>2. PostingsAt(WithPosting(postings, keys[o + 1]), o + 1)
        BY <2>2, <2>3, <4>1, PostingsJoin
      <4>3. ps = WithPosting(postings, keys[o + 1]) BY <1>1, <2>1, <2>6, <3>2
      <4> QED BY <4>2, <4>3
    <3> QED BY <3>1, <3>2
  <2>8. fst' = f /\ postings' = ps /\ i' = n + 1 /\ pc' = pc BY <1>2, <2>5, <2>6
  <2>9. PICK j : j = n + 1 OBVIOUS
  <2>10. PostAt(j, ps, f)
    <3>1. j - 1 = o + 1 /\ j \in 1..Len(keys) + 1 /\ j # 1 BY <1>3, <1>6, <2>1, <2>9
    <3> QED BY <2>5, <2>7, <3>1 DEF PostAt
  <2>11. PostAt(j, ps, f)' BY <1>2, <2>10, SameEdges
  <2> QED BY <2>8, <2>9, <2>11
<1> QED BY <1>3, <1>5, <1>6

\* f is what names.fst should be.
FstRight(f) ==
  /\ {f[n][1] : n \in DOMAIN f} = {KeyOf(e) : e \in Edges}
  /\ \A n \in DOMAIN f : RightList(f[n][1], f[n][2])

\* The last flush is not refused and completes the lists.
LEMMA PostingsEnd ==
  ASSUME Sortable, Ordered(TRUE), PostAt(i, postings, fst), i > Len(keys)
  PROVE  Accepted(Flushed(postings)) /\ FstRight(Flushed(postings))
<1>1. PICK f, n : f = Flushed(postings) /\ n = Len(keys) OBVIOUS
<1>2. n \in Nat /\ DOMAIN keys = 1..n /\ i = n + 1 BY <1>1 DEF PostAt, Sortable
<1>3. CASE n = 0
  <2>1. postings = <<>> /\ fst = <<>> BY <1>2, <1>3 DEF PostAt
  <2>2. f = <<>> BY <1>1, <2>1 DEF Flushed
  <2>3. DOMAIN f = {} /\ Len(f) = 0 BY <2>2
  <2>4. Edges = {} BY <1>2, <1>3 DEF Edges, ToSet
  <2> QED BY <1>1, <2>3, <2>4 DEF Accepted, FstRight
<1>4. CASE n > 0
  <2>1. n \in 1..Len(keys) /\ i - 1 = n /\ i # 1 BY <1>1, <1>2, <1>4
  <2>2. PostingsAt(postings, n) /\ FstAt(fst, n) BY <2>1 DEF PostAt
  <2>3. n < Len(keys) => KeyOf(keys[n + 1]) # KeyOf(keys[n]) BY <1>1, <1>2
  <2>4. FstFull(f, n) BY <1>1, <2>1, <2>2, <2>3, FlushCompletes
  <2>5. DOMAIN f = 1..Len(f) BY <2>4 DEF FstFull
  <2>6. \A k : (\E e \in Edges : k = KeyOf(e)) <=> \E m \in 1..n : k = KeyOf(keys[m])
    BY <1>2 DEF Edges, ToSet
  <2>7. \A k : (\E q \in DOMAIN f : k = f[q][1]) <=> \E m \in 1..n : k = KeyOf(keys[m])
    <3>1. \A q \in DOMAIN f : \E m \in 1..n : f[q][1] = KeyOf(keys[m]) BY <2>4, <2>5 DEF FstFull
    <3>2. \A m \in 1..n : \E q \in DOMAIN f : f[q][1] = KeyOf(keys[m]) BY <2>4, <2>5 DEF FstFull
    <3> QED BY <3>1, <3>2
  <2>8. {f[q][1] : q \in DOMAIN f} = {KeyOf(e) : e \in Edges} BY <2>6, <2>7
  <2>9. \A q \in DOMAIN f : RightList(f[q][1], f[q][2]) BY <2>4, <2>5 DEF FstFull
  <2> QED BY <1>1, <2>4, <2>8, <2>9 DEF FstFull, FstRight
<1> QED BY <1>2, <1>3, <1>4

-----------------------------------------------------------------------------
\* What writeIndex has made of the edges so far; it is never refused.
Written ==
  /\ pc \in {"start", "hot", "cchot", "postings", "done"}
  /\ pc = "hot" => Ordered(FALSE) /\ HotInv(FALSE)
  /\ pc = "cchot" => Ordered(TRUE) /\ HotInv(TRUE)
  /\ pc \in {"hot", "cchot"} => postings = <<>> /\ fst = <<>>
  /\ pc = "postings" => Ordered(TRUE) /\ PostAt(i, postings, fst)
  /\ pc \in {"cchot", "postings", "done"} => DOMAIN hotFST = HotKeys(FALSE)
  /\ pc \in {"postings", "done"} => DOMAIN ccHotFST = HotKeys(TRUE)
  /\ pc = "done" => FstRight(fst)

\* A new collectHot has seen no edge.
LEMMA HotFresh ==
  ASSUME NEW byCountry, Len(keys') \in Nat, i' = 1, hots' = <<>>, counts' = NoCounts
  PROVE  HotInv(byCountry)'
<1>1. PICK hs, cs, n : hs = <<>> /\ cs = NoCounts /\ n = 0 OBVIOUS
<1>2. hs \in Seq(Nat) /\ DOMAIN hs = {} /\ 1..n = {} /\ ~(n > 0) BY <1>1
<1>3. Distinct(hs) /\ HotSet(hs) = {} BY <1>2 DEF Distinct, HotSet
<1>4. \A L \in Levels : cs[L] = 0 BY <1>1 DEF NoCounts
<1>5. HotAt(byCountry, n, hs, cs)' BY <1>2, <1>3, <1>4 DEF HotAt
<1>6. i' - 1 = n /\ i' \in 1..Len(keys') + 1 BY <1>1
<1> QED BY <1>1, <1>5, <1>6 DEF HotInv

\* The prefixes of an FST are those of the list it is written from.
LEMMA WrittenKeys == \A hs : DOMAIN WrittenHot(hs) = HotSet(hs)
BY DEF WrittenHot, HotSet

\* The first sort.
LEMMA StartWrites ==
  ASSUME RecordsOK, KeysOK, Unwritten, Start
  PROVE  KeysOK' /\ pc' # "start" /\ Written'
<1>1. /\ keys' = SortedKeys(FALSE) /\ recCountry' = recCountry /\ prominence' = prominence
      /\ pc' = "hot" /\ i' = 1 /\ hots' = <<>> /\ counts' = NoCounts
      /\ postings' = <<>> /\ fst' = <<>>
  BY DEF Start, Unwritten
<1>2. KeysOK' /\ Ordered(FALSE)' BY <1>1, SortingOrders
<1>3. Len(keys') \in Nat BY <1>2 DEF KeysOK
<1>4. HotInv(FALSE)' BY <1>1, <1>3, HotFresh
<1> QED BY <1>1, <1>2, <1>4 DEF Written

\* A step of collectHot, in either pass.
LEMMA HotStepWrites ==
  ASSUME RecordsOK, KeysOK, Written, HotPass \/ CountryHotPass
  PROVE  pc' # "start" /\ keys' = keys /\ Written'
<1>1. PICK byCountry \in BOOLEAN :
        HotEdge(byCountry) /\ pc = IF byCountry THEN "cchot" ELSE "hot"
  BY DEF HotPass, CountryHotPass
<1>2. UNCHANGED build /\ pc' = pc /\ UNCHANGED <<hotFST, ccHotFST, postings, fst>>
  BY <1>1 DEF HotEdge
<1>3. Sortable BY EdgesSortable
<1>4. Ordered(byCountry) /\ HotInv(byCountry) BY <1>1 DEF Written
<1>5. HotInv(byCountry)' BY <1>1, <1>3, <1>4, HotKept
<1>6. Ordered(byCountry)' BY <1>2, <1>4, SameEdges
<1>7. HotKeys(FALSE)' = HotKeys(FALSE) BY <1>2, SameEdges
<1>8. keys' = keys BY <1>2 DEF build
<1>9. CASE byCountry = TRUE BY <1>1, <1>2, <1>5, <1>6, <1>7, <1>8, <1>9 DEF Written
<1>10. CASE byCountry = FALSE BY <1>1, <1>2, <1>5, <1>6, <1>8, <1>10 DEF Written
<1> QED BY <1>9, <1>10

\* The end of the first pass, and the second sort.
LEMMA HotDoneWrites ==
  ASSUME RecordsOK, KeysOK, Written, HotDone
  PROVE  KeysOK' /\ pc' # "start" /\ Written'
<1>1. Sortable BY EdgesSortable
<1>2. pc = "hot" /\ i > Len(keys) /\ recCountry' = recCountry /\ prominence' = prominence
  BY DEF HotDone
<1>3. HotInv(FALSE) /\ postings = <<>> /\ fst = <<>> BY <1>2 DEF Written
<1>4. Distinct(AllHot(FALSE)) /\ HotSet(AllHot(FALSE)) = HotKeys(FALSE)
  BY <1>1, <1>2, <1>3, HotEnds
<1>5. /\ hotFST' = WrittenHot(AllHot(FALSE)) /\ pc' = "cchot" /\ keys' = SortedKeys(TRUE)
      /\ i' = 1 /\ hots' = <<>> /\ counts' = NoCounts /\ postings' = <<>> /\ fst' = <<>>
  BY <1>3, <1>4 DEF HotDone
<1>6. KeysOK' /\ Ordered(TRUE)' /\ ToSet(keys') = ToSet(keys) BY <1>2, <1>5, SortingOrders
<1>7. Len(keys') \in Nat BY <1>6 DEF KeysOK
<1>8. HotInv(TRUE)' BY <1>5, <1>7, HotFresh
<1>9. HotKeys(FALSE)' = HotKeys(FALSE) BY <1>2, <1>6, HotKeysStay
<1>10. DOMAIN hotFST' = HotKeys(FALSE) BY <1>4, <1>5, WrittenKeys
<1> QED BY <1>5, <1>6, <1>8, <1>9, <1>10 DEF Written

\* The end of the second pass.
LEMMA CountryDoneWrites ==
  ASSUME RecordsOK, KeysOK, Written, CountryHotDone
  PROVE  pc' # "start" /\ keys' = keys /\ Written'
<1>1. Sortable BY EdgesSortable
<1>2. pc = "cchot" /\ i > Len(keys) /\ UNCHANGED build /\ UNCHANGED <<hotFST, postings, fst>>
  BY DEF CountryHotDone
<1>3. /\ Ordered(TRUE) /\ HotInv(TRUE) /\ postings = <<>> /\ fst = <<>>
      /\ DOMAIN hotFST = HotKeys(FALSE)
  BY <1>2 DEF Written
<1>4. Distinct(AllHot(TRUE)) /\ HotSet(AllHot(TRUE)) = HotKeys(TRUE)
  BY <1>1, <1>2, <1>3, HotEnds
<1>5. ccHotFST' = WrittenHot(AllHot(TRUE)) /\ pc' = "postings" /\ i' = 1
  BY <1>4 DEF CountryHotDone
<1>6. Ordered(TRUE)' /\ HotKeys(FALSE)' = HotKeys(FALSE) /\ HotKeys(TRUE)' = HotKeys(TRUE)
  BY <1>2, <1>3, SameEdges
<1>7. DOMAIN ccHotFST' = HotKeys(TRUE) BY <1>4, <1>5, WrittenKeys
<1>8. PostAt(i, postings, fst)'
  <2>1. Len(keys) \in Nat BY DEF KeysOK
  <2>2. PostAt(1, <<>>, <<>>) BY <2>1 DEF PostAt
  <2>3. PostAt(1, <<>>, <<>>)' BY <1>2, <2>2, SameEdges
  <2> QED BY <1>2, <1>3, <1>5, <2>3
<1>9. keys' = keys BY <1>2 DEF build
<1> QED BY <1>2, <1>3, <1>5, <1>6, <1>7, <1>8, <1>9 DEF Written

\* The third pass.
LEMMA PostingWrites ==
  ASSUME RecordsOK, KeysOK, Written, PostingEdge
  PROVE  pc' # "start" /\ keys' = keys /\ Written'
<1>1. Sortable BY EdgesSortable
<1>2. pc = "postings" /\ UNCHANGED build /\ UNCHANGED <<hotFST, ccHotFST>>
  BY DEF PostingEdge
<1>3. /\ Ordered(TRUE) /\ PostAt(i, postings, fst)
      /\ DOMAIN hotFST = HotKeys(FALSE) /\ DOMAIN ccHotFST = HotKeys(TRUE)
  BY <1>2 DEF Written
<1>4. PostAt(i, postings, fst)' /\ pc' = pc BY <1>1, <1>3, PostingKept
<1>5. Ordered(TRUE)' /\ HotKeys(FALSE)' = HotKeys(FALSE) /\ HotKeys(TRUE)' = HotKeys(TRUE)
  BY <1>2, <1>3, SameEdges
<1>6. keys' = keys BY <1>2 DEF build
<1> QED BY <1>2, <1>3, <1>4, <1>5, <1>6 DEF Written

\* names.fst stays right while the edges stay.
LEMMA FstRightStays ==
  ASSUME UNCHANGED build
  PROVE  \A f : FstRight(f)' <=> FstRight(f)
<1>1. Edges' = Edges BY DEF Edges, build
<1>2. {KeyOf(e) : e \in Edges}' = {KeyOf(e) : e \in Edges} BY <1>1, SameEdges
<1>3. \A f, n : RightList(f[n][1], f[n][2])' <=> RightList(f[n][1], f[n][2]) BY SameEdges
<1> QED BY <1>2, <1>3 DEF FstRight

\* The end of the third pass.
LEMMA PostingsDoneWrites ==
  ASSUME RecordsOK, KeysOK, Written, PostingsDone
  PROVE  pc' # "start" /\ keys' = keys /\ Written'
<1>1. Sortable BY EdgesSortable
<1>2. pc = "postings" /\ i > Len(keys) /\ UNCHANGED build /\ UNCHANGED <<hotFST, ccHotFST>>
  BY DEF PostingsDone
<1>3. /\ Ordered(TRUE) /\ PostAt(i, postings, fst)
      /\ DOMAIN hotFST = HotKeys(FALSE) /\ DOMAIN ccHotFST = HotKeys(TRUE)
  BY <1>2 DEF Written
<1>4. Accepted(Flushed(postings)) /\ FstRight(Flushed(postings))
  BY <1>1, <1>2, <1>3, PostingsEnd
<1>5. PICK f : f = Flushed(postings) OBVIOUS
<1>6. pc' = "done" /\ fst' = f BY <1>4, <1>5 DEF PostingsDone
<1>7. HotKeys(FALSE)' = HotKeys(FALSE) /\ HotKeys(TRUE)' = HotKeys(TRUE)
  BY <1>2, SameEdges
<1>8. keys' = keys BY <1>2 DEF build
<1>9. FstRight(f)' BY <1>2, <1>4, <1>5, FstRightStays
<1> QED BY <1>2, <1>3, <1>6, <1>7, <1>8, <1>9 DEF Written

\* A step that changes none of the writer's variables.
LEMMA WrittenStays ==
  ASSUME Written, UNCHANGED vars
  PROVE  Written'
<1>1. UNCHANGED <<build, pc, i, hots, counts, hotFST, ccHotFST, postings, fst>> BY DEF vars
<1>2. keys' = keys BY <1>1 DEF build
<1>3. \A b : HotInv(b)' <=> HotInv(b)
  <2>1. PICK n, hs, cs : n = i - 1 /\ hs = hots /\ cs = counts OBVIOUS
  <2>2. \A b : HotAt(b, n, hs, cs)' <=> HotAt(b, n, hs, cs) BY <1>1, SameEdges
  <2> QED BY <1>1, <1>2, <2>1, <2>2 DEF HotInv
<1>4. \A b : (Ordered(b)' <=> Ordered(b)) /\ HotKeys(b)' = HotKeys(b) BY <1>1, SameEdges
<1>5. PostAt(i, postings, fst)' <=> PostAt(i, postings, fst)
  <2>1. PICK j, ps, f : j = i /\ ps = postings /\ f = fst OBVIOUS
  <2>2. PostAt(j, ps, f)' <=> PostAt(j, ps, f) BY <1>1, SameEdges
  <2> QED BY <1>1, <2>1, <2>2
<1>6. FstRight(fst)' <=> FstRight(fst)
  <2>1. PICK f : f = fst OBVIOUS
  <2>2. FstRight(f)' <=> FstRight(f) BY <1>1, FstRightStays
  <2> QED BY <1>1, <2>1, <2>2
<1> QED BY <1>1, <1>3, <1>4, <1>5, <1>6 DEF Written

\* Any step of writeIndex.
LEMMA NextWrites ==
  ASSUME RecordsOK, KeysOK, pc = "start" => Unwritten, Written, Next
  PROVE  KeysOK' /\ pc' # "start" /\ Written'
<1>1. keys' = keys /\ recCountry' = recCountry => KeysOK' BY DEF KeysOK
<1>2. CASE Start
  <2>1. Unwritten BY <1>2 DEF Start
  <2> QED BY <1>2, <2>1, StartWrites
<1>3. CASE HotPass \/ CountryHotPass
  <2>1. recCountry' = recCountry BY <1>3 DEF HotPass, CountryHotPass, HotEdge, build
  <2> QED BY <1>1, <1>3, <2>1, HotStepWrites
<1>4. CASE HotDone BY <1>4, HotDoneWrites
<1>5. CASE CountryHotDone
  <2>1. recCountry' = recCountry BY <1>5 DEF CountryHotDone, build
  <2> QED BY <1>1, <1>5, <2>1, CountryDoneWrites
<1>6. CASE PostingEdge
  <2>1. recCountry' = recCountry BY <1>6 DEF PostingEdge, build
  <2> QED BY <1>1, <1>6, <2>1, PostingWrites
<1>7. CASE PostingsDone
  <2>1. recCountry' = recCountry BY <1>7 DEF PostingsDone, build
  <2> QED BY <1>1, <1>7, <2>1, PostingsDoneWrites
<1>8. CASE Done
  <2>1. pc' = pc /\ pc # "start" /\ UNCHANGED vars BY <1>8 DEF Done, vars
  <2>2. Written' BY <2>1, WrittenStays
  <2>3. keys' = keys /\ recCountry' = recCountry BY <2>1 DEF vars, build
  <2> QED BY <1>1, <2>1, <2>2, <2>3
<1> QED BY <1>2, <1>3, <1>4, <1>5, <1>6, <1>7, <1>8 DEF Next

\* Where the writer does nothing and the files stay, what was gathered does.
LEMMA GatheredStays ==
  ASSUME Gathered, UNCHANGED <<files, vars, idToOrd>>,
         stage' # "failed" => stage # "failed", stage' # "index" => stage # "index"
  PROVE  Gathered'
<1>1. /\ dump' = dump /\ idToOrd' = idToOrd /\ keys' = keys /\ recCountry' = recCountry
      /\ prominence' = prominence /\ pc' = pc /\ i' = i /\ levels' = levels
      /\ counts' = counts /\ hots' = hots /\ hotFST' = hotFST /\ ccHotFST' = ccHotFST
      /\ postings' = postings /\ fst' = fst
  BY DEF files, vars, build
<1>2. RecordsOK' /\ KeysOK' BY <1>1 DEF Gathered, RecordsOK, KeysOK
<1>3. Unwritten' <=> Unwritten BY <1>1 DEF Unwritten
<1> QED BY <1>1, <1>2, <1>3 DEF Gathered

\* Gathered and written: what holds in every build.
Indexed == Gathered /\ Written

\* A build starts so ...
LEMMA InitIndexed == BuildInit => Indexed
<1>1. BuildInit => pc = "start" BY DEF BuildInit, Init
<1>2. pc = "start" => Written BY DEF Written
<1> QED BY <1>1, <1>2, InitGathered DEF Indexed

\* ... and no step changes it.
LEMMA NextIndexed == Typed /\ TablesOK /\ Indexed /\ [BuildNext]_buildVars => Indexed'
<1> SUFFICES ASSUME Typed, TablesOK, Indexed, [BuildNext]_buildVars PROVE Indexed'
  OBVIOUS
<1>1. Gathered /\ Written BY DEF Indexed
<1>2. pc' = "start" => Written' BY DEF Written
<1>3. CASE FailRow \/ SkipRow \/ RecordsDone \/ FailAlt \/ SkipAlt \/ AltsDone \/ Failed
           \/ UNCHANGED buildVars
  <2>1. /\ UNCHANGED <<files, vars, idToOrd>>
        /\ stage' # "failed" => stage # "failed"
        /\ stage' # "index" => stage # "index"
    BY <1>3 DEF FailRow, SkipRow, RecordsDone, FailAlt, SkipAlt, AltsDone, Failed, buildVars,
                ReadingRow, ReadingAlt, collected
  <2>2. Gathered' BY <1>1, <2>1, GatheredStays
  <2>3. Written' BY <1>1, <2>1, WrittenStays
  <2> QED BY <2>2, <2>3 DEF Indexed
<1>4. CASE AddRecord
  <2>1. Gathered' BY <1>1, <1>4, AddGathers
  <2>2. stage = "records" /\ pc' = pc BY <1>4 DEF AddRecord, ReadingRow, writing
  <2>3. pc = "start" BY <1>1, <2>2 DEF Gathered
  <2> QED BY <1>2, <2>1, <2>2, <2>3 DEF Indexed
<1>5. CASE AddAlt
  <2>1. Gathered' BY <1>1, <1>5, AltGathers
  <2>2. stage = "altnames" /\ pc' = pc BY <1>5 DEF AddAlt, ReadingAlt, writing
  <2>3. pc = "start" BY <1>1, <2>2 DEF Gathered
  <2> QED BY <1>2, <2>1, <2>2, <2>3 DEF Indexed
<1>6. CASE WriteIndex
  <2>1. stage = "index" /\ Next /\ UNCHANGED <<files, stage, line, collected>>
    BY <1>6 DEF WriteIndex
  <2>2. RecordsOK /\ KeysOK /\ (pc = "start" => Unwritten) BY <1>1 DEF Gathered
  <2>3. recCountry' = recCountry /\ prominence' = prominence
    BY <2>1 DEF Next, Start, HotPass, CountryHotPass, HotEdge, HotDone, CountryHotDone,
                PostingEdge, PostingsDone, Done, build, vars
  <2>4. KeysOK' /\ pc' # "start" /\ Written' BY <1>1, <2>1, <2>2, NextWrites
  <2>5. RecordsOK' BY <2>2, <2>3 DEF RecordsOK
  <2>6. dump' = dump /\ idToOrd' = idToOrd /\ stage' = stage BY <2>1 DEF files, collected
  <2>7. Gathered' BY <1>1, <2>1, <2>3, <2>4, <2>5, <2>6 DEF Gathered
  <2> QED BY <2>4, <2>7 DEF Indexed
<1> QED BY <1>3, <1>4, <1>5, <1>6 DEF BuildNext

\* The two invariants, as a property of every build.
LEMMA AlwaysIndexed == BuildSpec => []Indexed
<1>1. Collected => Typed /\ TablesOK BY DEF Collected
<1>2. Collected /\ Indexed /\ [BuildNext]_buildVars => Indexed' BY <1>1, NextIndexed
<1> QED BY <1>2, AlwaysCollected, InitIndexed, PTL DEF BuildSpec

-----------------------------------------------------------------------------
\* Each record's best score among the edges of E.
RawBest(E) ==
  [o \in {e.ord : e \in E} |-> Max({EdgeScore(e) : e \in {d \in E : d.ord = o}})]

\* E is a finite set of edges with scores.
Rated(E) == IsFiniteSet(E) /\ \A e \in E : EdgeScore(e) \in Score

\* r gives the best score of each record of E: it is that of one of its edges, and none
\* has a better one.
IsBest(E, r) ==
  /\ DOMAIN r = {e.ord : e \in E} /\ IsFiniteSet(DOMAIN r) /\ r \in [DOMAIN r -> Score]
  /\ \A o \in DOMAIN r : /\ \E e \in E : e.ord = o /\ r[o] = EdgeScore(e)
                         /\ \A e \in E : e.ord = o => EdgeScore(e) <= r[o]

\* So does RawBest.
LEMMA RawBestIs ==
  ASSUME NEW E, Rated(E)
  PROVE  IsBest(E, RawBest(E))
<1> DEFINE D == {e.ord : e \in E}
           S(o) == {EdgeScore(e) : e \in {d \in E : d.ord = o}}
           f == [e \in E |-> e.ord]
           r == RawBest(E)
<1>1. r = [o \in D |-> Max(S(o))] BY DEF RawBest
<1>2. IsFiniteSet(E) /\ \A e \in E : EdgeScore(e) \in Score BY DEF Rated
<1>3. IsFiniteSet(D)
  <2>1. f \in Surjection(E, D) BY DEF Surjection
  <2> HIDE DEF f, D
  <2> QED BY <1>2, <2>1, FS_Surjection
<1>4. ASSUME NEW o \in D
      PROVE  Max(S(o)) \in S(o) /\ \A n \in S(o) : n <= Max(S(o))
  <2> DEFINE F == {d \in E : d.ord = o}
             g == [e \in F |-> EdgeScore(e)]
  <2>1. g \in Surjection(F, S(o)) BY DEF Surjection
  <2>2. F \subseteq E OBVIOUS
  <2>3. S(o) # {} BY <1>4
  <2>4. S(o) \subseteq Int BY <1>2, ScoreAssumption
  <2> HIDE DEF F, g, S
  <2>5. IsFiniteSet(F) BY <1>2, <2>2, FS_Subset
  <2>6. IsFiniteSet(S(o)) BY <2>1, <2>5, FS_Surjection
  <2> QED BY <2>3, <2>4, <2>6, MaxIsGreatest
<1>5. ASSUME NEW o \in D
      PROVE  /\ \E e \in E : e.ord = o /\ r[o] = EdgeScore(e)
             /\ \A e \in E : e.ord = o => EdgeScore(e) <= r[o]
  <2>1. r[o] = Max(S(o)) BY <1>1, <1>5
  <2> QED BY <1>4, <1>5, <2>1
<1> HIDE DEF r, D, S
<1>6. DOMAIN r = D BY <1>1
<1>7. \A o \in D : r[o] \in Score BY <1>2, <1>5
<1>8. r \in [D -> Score] BY <1>1, <1>7
<1> QED BY <1>3, <1>5, <1>6, <1>8 DEF D, r, IsBest

\* One more edge raises its record's best score.
LEMMA RawBestGrows ==
  ASSUME NEW E, Rated(E), NEW e, EdgeScore(e) \in Score
  PROVE  Rated(E \cup {e}) /\ RawBest(E \cup {e}) = Risen(RawBest(E), e.ord, EdgeScore(e))
<1>1. PICK F, f, g, o, s, h : /\ F = E \cup {e} /\ f = RawBest(E) /\ g = RawBest(F)
                              /\ o = e.ord /\ s = EdgeScore(e) /\ h = Risen(f, o, s)
  OBVIOUS
<1>2. Rated(F)
  <2>1. IsFiniteSet(E) /\ \A d \in E : EdgeScore(d) \in Score BY DEF Rated
  <2>2. IsFiniteSet(F) BY <1>1, <2>1, FS_AddElement
  <2>3. \A d \in F : EdgeScore(d) \in Score BY <1>1, <2>1
  <2> QED BY <2>2, <2>3 DEF Rated
<1>3. IsBest(E, f) /\ IsBest(F, g) BY <1>1, <1>2, RawBestIs
<1>4. /\ DOMAIN f = {d.ord : d \in E} /\ f \in [DOMAIN f -> Score]
      /\ DOMAIN g = {d.ord : d \in F} /\ g \in [DOMAIN g -> Score]
      /\ \A p \in DOMAIN f : /\ \E d \in E : d.ord = p /\ f[p] = EdgeScore(d)
                             /\ \A d \in E : d.ord = p => EdgeScore(d) <= f[p]
      /\ \A p \in DOMAIN g : /\ \E d \in F : d.ord = p /\ g[p] = EdgeScore(d)
                             /\ \A d \in F : d.ord = p => EdgeScore(d) <= g[p]
  BY <1>3 DEF IsBest
<1>5. PICK B : B = DOMAIN f OBVIOUS
<1>6. IsRaise(B, f, o, s, h) BY <1>1, <1>4, <1>5, RisenType
<1>7. /\ h \in [B \cup {o} -> Score] /\ h[o] >= s /\ (o \in B => h[o] >= f[o])
      /\ \A p \in B \ {o} : h[p] = f[p]
      /\ h[o] = s \/ (o \in B /\ h[o] = f[o])
  BY <1>6 DEF IsRaise
<1>8. DOMAIN g = B \cup {o}
  <2>1. {d.ord : d \in F} = {d.ord : d \in E} \cup {o} BY <1>1
  <2> QED BY <1>4, <1>5, <2>1
<1>9. ASSUME NEW p \in B \cup {o} PROVE g[p] = h[p]
  <2>1. g[p] \in Int /\ h[p] \in Int /\ s \in Int /\ (p \in B => f[p] \in Int)
    BY <1>1, <1>4, <1>5, <1>7, <1>8, ScoreAssumption
  <2>2. PICK d \in F : d.ord = p /\ g[p] = EdgeScore(d) BY <1>4, <1>8
  <2>3. \A c \in F : c.ord = p => EdgeScore(c) <= g[p] BY <1>4, <1>8
  <2>4. CASE p # o
    <3>1. d \in E /\ p \in B BY <1>1, <2>2, <2>4
    <3>2. g[p] <= f[p] BY <1>4, <1>5, <2>2, <3>1
    <3>3. f[p] <= g[p] BY <1>1, <1>4, <1>5, <2>3, <3>1
    <3>4. h[p] = f[p] BY <1>7, <2>4, <3>1
    <3> QED BY <2>1, <3>1, <3>2, <3>3, <3>4
  <2>5. CASE p = o
    <3>1. g[o] <= h[o]
      <4>1. CASE d = e BY <1>1, <1>7, <2>1, <2>2, <2>5, <4>1
      <4>2. CASE d # e
        <5>1. d \in E /\ o \in B BY <1>1, <1>4, <1>5, <2>2, <2>5, <4>2
        <5>2. EdgeScore(d) <= f[o] BY <1>4, <1>5, <2>2, <2>5, <5>1
        <5> QED BY <1>7, <2>1, <2>2, <2>5, <5>1, <5>2
      <4> QED BY <4>1, <4>2
    <3>2. h[o] <= g[o]
      <4>1. CASE h[o] = s BY <1>1, <2>3, <2>5, <4>1
      <4>2. CASE o \in B /\ h[o] = f[o]
        <5>1. PICK c \in E : c.ord = o /\ f[o] = EdgeScore(c) BY <1>4, <1>5, <4>2
        <5> QED BY <1>1, <2>3, <2>5, <4>2, <5>1
      <4> QED BY <1>7, <4>1, <4>2
    <3> QED BY <2>1, <2>5, <3>1, <3>2
  <2> QED BY <2>4, <2>5
<1>10. g = h
  <2>1. g \in [B \cup {o} -> Score] BY <1>4, <1>8
  <2> QED BY <1>7, <1>9, <2>1
<1> QED BY <1>1, <1>2, <1>10

\* Every edge is one of a record, and has a score.
Scored == \A n \in 1..Len(keys) : keys[n].ord \in Ord /\ EdgeScore(keys[n]) \in Score

\* They are scored edges.
LEMMA EdgesRated ==
  ASSUME Sortable, Scored, NEW byCountry, NEW m, NEW L, NEW n \in 0..Len(keys)
  PROVE  Rated(EdgesWith(byCountry, m, L, n))
<1> DEFINE D == {k \in 1..n : Shares(byCountry, m, k, L)}
           E == EdgesWith(byCountry, m, L, n)
           f == [j \in D |-> keys[j]]
<1>1. f \in Surjection(D, E) BY DEF EdgesWith, Surjection
<1>2. D \in SUBSET (1..n) OBVIOUS
<1>3. Len(keys) \in Nat BY DEF Sortable
<1>4. IsFiniteSet(1..n) BY <1>3, FS_Interval
<1>5. \A e \in E : EdgeScore(e) \in Score
  <2>1. \A j \in D : j \in 1..Len(keys) BY <1>2, <1>3
  <2> QED BY <2>1 DEF EdgesWith, Scored
<1> HIDE DEF D, f, E
<1>6. IsFiniteSet(D) BY <1>2, <1>4, FS_Subset
<1>7. IsFiniteSet(E) BY <1>1, <1>6, FS_Surjection
<1> QED BY <1>5, <1>7 DEF Rated, E

\* Edges that share the bytes with one another see the same edges.
LEMMA EdgesShared ==
  ASSUME Sortable, NEW byCountry, NEW m \in 1..Len(keys), NEW o \in 1..Len(keys),
         NEW L \in Nat, Shares(byCountry, m, o, L), NEW n \in 0..Len(keys)
  PROVE  EdgesWith(byCountry, m, L, n) = EdgesWith(byCountry, o, L, n)
<1>1. \A k \in 1..n : k \in 1..Len(keys) BY DEF Sortable
<1>2. \A k \in 1..n : Shares(byCountry, m, k, L) <=> Shares(byCountry, o, k, L)
  <2> SUFFICES ASSUME NEW k \in 1..n
               PROVE  Shares(byCountry, m, k, L) <=> Shares(byCountry, o, k, L)
    OBVIOUS
  <2>1. k \in 1..Len(keys) BY <1>1
  <2>2. Shares(byCountry, o, m, L) BY SharingIsMutual
  <2>3. Shares(byCountry, m, k, L) => Shares(byCountry, o, k, L)
    BY <2>1, <2>2, SharingIsMutual
  <2>4. Shares(byCountry, o, k, L) => Shares(byCountry, m, k, L)
    BY <2>1, SharingIsMutual
  <2> QED BY <2>3, <2>4
<1> QED BY <1>2 DEF EdgesWith

\* topK.add behind collectHot's guard, when h lists the best records of E.
LEMMA OfferRight ==
  ASSUME NEW E, Rated(E), NEW e, EdgeScore(e) \in Score, e.ord \in Ord,
         NEW h, NEW g, NEW m, IsTopK(h, g, m), IsShortlist(RawBest(E), g),
         NEW t, t = IF BeatsMin(h, EdgeScore(e)) THEN Added(h, e.ord, EdgeScore(e)) ELSE h
  PROVE  \E f, n : IsTopK(t, f, n) /\ IsShortlist(RawBest(E \cup {e}), f)
<1>1. PICK o, s, r : o = e.ord /\ s = EdgeScore(e) /\ r = RawBest(E) OBVIOUS
<1>2. o \in Ord /\ s \in Score BY <1>1
<1>3. PICK f, n : IsTopK(t, f, n) /\ Takes(g, o, s, f)
  <2>1. \E f, n : /\ IsTopK(IF BeatsMin(h, s) THEN Added(h, o, s) ELSE h, f, n)
                  /\ Takes(g, o, s, f)
    BY <1>2, OfferedTakes
  <2> QED BY <1>1, <2>1
<1>4. RawBest(E \cup {e}) = Risen(r, o, s) BY <1>1, RawBestGrows
<1>5. IsFiniteSet(DOMAIN r) /\ r \in [DOMAIN r -> Score]
  <2>1. IsBest(E, r) BY <1>1, RawBestIs
  <2> QED BY <2>1 DEF IsBest
<1>6. g \in [DOMAIN g -> Score] BY DEF IsTopK
<1>7. IsShortlist(r, g) /\ DOMAIN g \in SUBSET DOMAIN r BY <1>1 DEF IsShortlist
<1>8. IsShortlist(Risen(r, o, s), f)
  <2>1. PICK B, D : B = DOMAIN r /\ D = DOMAIN g OBVIOUS
  <2>2. /\ r \in [B -> Score] /\ IsFiniteSet(B) /\ D \in SUBSET B /\ g \in [D -> Score]
    BY <1>5, <1>6, <1>7, <2>1
  <2> QED BY <1>2, <1>3, <1>7, <2>2, TakesKeeps
<1> QED BY <1>3, <1>4, <1>8

\* t, the list of level L after n edges, has the best records beneath the prefix of the
\* n-th; it is empty when that one is shorter.
ListAt(byCountry, n, L, t) ==
  IF n > 0 /\ L <= Len(keys[n].name)
  THEN \E g, m : IsTopK(t, g, m) /\ IsShortlist(RawBest(EdgesWith(byCountry, n, L, n)), g)
  ELSE t = NewTopK

\* What collectHot starts the edge at i with, after the flush.
LEMMA ListStart ==
  ASSUME Sortable, NEW byCountry \in BOOLEAN, Ordered(byCountry), i \in 1..Len(keys),
         NEW L \in Levels, ListAt(byCountry, i - 1, L, levels[L]),
         NEW newKey, newKey = IsNewKey(byCountry), NEW from,
         from = IF i > 1 /\ newKey THEN FlushFrom(byCountry, keys[i - 1], keys[i])
                ELSE MaxPrefixLen + 1,
         NEW h, h = IF L >= from THEN NewTopK ELSE levels[L]
  PROVE  IF L <= Len(keys[i].name)
         THEN \E g, m : IsTopK(h, g, m)
                        /\ IsShortlist(RawBest(EdgesWith(byCountry, i, L, i - 1)), g)
         ELSE h = NewTopK
<1>1. PICK n, e : n = i - 1 /\ e = keys[i] OBVIOUS
<1>2. Len(keys) \in Nat /\ i \in 1..Len(keys) /\ n \in 0..Len(keys) /\ i = n + 1 /\ n \in Nat
  BY <1>1 DEF Sortable
<1>3. L \in Nat /\ L < MaxPrefixLen + 1 /\ MaxPrefixLen + 1 \in Nat \ {0} /\ L >= 1
  BY WriterAssumption DEF Levels
<1>4. e.name \in Seq(Nat) /\ Len(e.name) \in Nat BY <1>1, <1>2 DEF Sortable, Comparable
<1>5. n > 0 => /\ i \in 2..Len(keys) /\ n \in 1..Len(keys)
               /\ keys[n].name \in Seq(Nat) /\ Len(keys[n].name) \in Nat
  BY <1>2 DEF Sortable, Comparable
<1>6. n > 0 => /\ from \in Nat \ {0}
               /\ L <= Len(keys[n].name) \/ L <= Len(e.name) =>
                    (Shares(byCountry, n, i, L) <=> L < from)
  <2> SUFFICES ASSUME n > 0
               PROVE  /\ from \in Nat \ {0}
                      /\ L <= Len(keys[n].name) \/ L <= Len(e.name) =>
                           (Shares(byCountry, n, i, L) <=> L < from)
    OBVIOUS
  <2>1. i \in 2..Len(keys) BY <1>5
  <2>2. SharedTo(byCountry, L, newKey, from) BY <2>1, SharedBelow
  <2> QED BY <1>1, <2>2 DEF SharedTo
<1>7. n = 0 => from = MaxPrefixLen + 1 BY <1>2
<1>8. IF n > 0 /\ L <= Len(keys[n].name)
      THEN \E g, m : /\ IsTopK(levels[L], g, m)
                     /\ IsShortlist(RawBest(EdgesWith(byCountry, n, L, n)), g)
      ELSE levels[L] = NewTopK
  BY <1>1 DEF ListAt
<1>9. CASE L <= Len(e.name)
  <2>1. CASE n > 0 /\ Shares(byCountry, n, i, L)
    <3>1. L <= Len(keys[n].name) BY <1>2, <1>3, <1>5, <2>1, SharingIsMutual
    <3>2. ~(L >= from) BY <1>3, <1>6, <1>9, <2>1
    <3>3. EdgesWith(byCountry, n, L, n) = EdgesWith(byCountry, i, L, n)
      BY <1>2, <1>3, <1>5, <2>1, EdgesShared
    <3>4. h = levels[L] BY <3>2
    <3> QED BY <1>1, <1>8, <1>9, <2>1, <3>1, <3>3, <3>4
  <2>2. CASE ~(n > 0 /\ Shares(byCountry, n, i, L))
    <3>1. h = NewTopK
      <4>1. CASE n = 0 BY <1>3, <1>7, <1>8, <4>1
      <4>2. CASE n > 0
        <5>1. L >= from BY <1>3, <1>6, <1>9, <2>2, <4>2
        <5> QED BY <5>1
      <4> QED BY <1>2, <4>1, <4>2
    <3>2. ASSUME NEW k \in 1..n, Shares(byCountry, i, k, L) PROVE FALSE
      <4>1. k \in 1..Len(keys) /\ k <= n /\ n <= i /\ n > 0 BY <1>2
      <4>2. Shares(byCountry, k, i, L) BY <1>2, <1>3, <3>2, <4>1, SharingIsMutual
      <4>3. Shares(byCountry, n, i, L)
        BY <1>2, <1>3, <1>5, <4>1, <4>2, SharingIsContiguous
      <4> QED BY <2>2, <4>1, <4>3
    <3>3. EdgesWith(byCountry, i, L, n) = {} BY <3>2 DEF EdgesWith
    <3>4. PICK b : b = [o \in {} |-> 0] OBVIOUS
    <3>5. IsTopK(h, b, 0) /\ IsShortlist(b, b) BY <3>1, <3>4, EmptyTopK
    <3>6. RawBest({}) = b BY <3>4 DEF RawBest
    <3> QED BY <1>1, <1>9, <3>3, <3>5, <3>6
  <2> QED BY <2>1, <2>2
<1>10. CASE ~(L <= Len(e.name))
  <2>1. h = NewTopK
    <3>1. CASE n = 0 BY <1>8, <3>1
    <3>2. CASE n > 0 /\ L >= from BY <3>2
    <3>3. CASE n > 0 /\ ~(L >= from)
      <4>1. SUFFICES ASSUME L <= Len(keys[n].name) PROVE FALSE BY <1>8, <3>3
      <4>2. L < from BY <1>3, <1>6, <3>3
      <4>3. Shares(byCountry, n, i, L) BY <1>6, <3>3, <4>1, <4>2
      <4>4. L <= Len(keys[i].name) BY <1>2, <1>3, <1>5, <3>3, <4>3, SharingIsMutual
      <4> QED BY <1>1, <1>10, <4>4
    <3> QED BY <1>2, <3>1, <3>2, <3>3
  <2> QED BY <1>1, <1>10, <2>1
<1> QED BY <1>9, <1>10

\* What it ends the edge with.
LEMMA ListStep ==
  ASSUME Sortable, Scored, NEW byCountry \in BOOLEAN, Ordered(byCountry), i \in 1..Len(keys),
         NEW L \in Levels, ListAt(byCountry, i - 1, L, levels[L]),
         NEW newKey, newKey = IsNewKey(byCountry), NEW from,
         from = IF i > 1 /\ newKey THEN FlushFrom(byCountry, keys[i - 1], keys[i])
                ELSE MaxPrefixLen + 1,
         NEW h, h = IF L >= from THEN NewTopK ELSE levels[L],
         NEW t, t = IF L <= Len(keys[i].name) /\ BeatsMin(h, EdgeScore(keys[i]))
                    THEN Added(h, keys[i].ord, EdgeScore(keys[i])) ELSE h
  PROVE  ListAt(byCountry, i, L, t)
<1>1. PICK n, e, E : n = i - 1 /\ e = keys[i] /\ E = EdgesWith(byCountry, i, L, n) OBVIOUS
<1>2. Len(keys) \in Nat /\ i \in 1..Len(keys) /\ n \in 0..Len(keys) /\ i = n + 1 /\ n \in Nat
  BY <1>1 DEF Sortable
<1>3. L \in Nat BY WriterAssumption DEF Levels
<1>4. IF L <= Len(e.name)
      THEN \E g, m : IsTopK(h, g, m) /\ IsShortlist(RawBest(E), g)
      ELSE h = NewTopK
  BY <1>1, ListStart
<1>5. CASE L <= Len(e.name)
  <2>1. PICK g, m : IsTopK(h, g, m) /\ IsShortlist(RawBest(E), g) BY <1>4, <1>5
  <2>2. Rated(E) BY <1>1, <1>2, EdgesRated
  <2>3. e.ord \in Ord /\ EdgeScore(e) \in Score BY <1>1 DEF Scored
  <2>4. t = IF BeatsMin(h, EdgeScore(e)) THEN Added(h, e.ord, EdgeScore(e)) ELSE h
    BY <1>1, <1>5
  <2>5. \E f, k : IsTopK(t, f, k) /\ IsShortlist(RawBest(E \cup {e}), f)
    BY <2>1, <2>2, <2>3, <2>4, OfferRight
  <2>6. EdgesWith(byCountry, i, L, i) = E \cup {e}
    <3>1. Shares(byCountry, i, i, L) BY <1>1, <1>2, <1>3, <1>5, SharingIsMutual
    <3>2. \A k : k \in 1..i <=> k \in 1..n \/ k = i BY <1>2
    <3> QED BY <1>1, <3>1, <3>2 DEF EdgesWith
  <2>7. i > 0 BY <1>2
  <2> QED BY <1>1, <1>5, <2>5, <2>6, <2>7 DEF ListAt
<1>6. CASE ~(L <= Len(e.name)) BY <1>1, <1>4, <1>6 DEF ListAt
<1> QED BY <1>5, <1>6

-----------------------------------------------------------------------------
\* What Closed makes of the list of a level.
DrainedList(h) ==
  [j \in DOMAIN h.e |-> LET c == Drain(h)[j] IN Entry(c.ord, Fixed(c.score))]

\* It is well listed, and has the scores of the list as they are stored.
LEMMA DrainLists ==
  ASSUME NEW h, NEW g, NEW m, IsTopK(h, g, m), NEW list, list = DrainedList(h)
  PROVE  WellListed(list) /\ Listed(list) = [o \in DOMAIN g |-> Fixed(g[o])]
<1>1. PICK x : x = Drain(h) OBVIOUS
<1>2. /\ m \in Nat /\ DOMAIN g \subseteq Ord /\ g \in [DOMAIN g -> Score] /\ h \in Lists(g, m)
  BY KAssumption DEF IsTopK
<1>3. /\ h.e \in [1..m -> Cand]
      /\ \A q \in 1..m : h.e[q].ord \in DOMAIN g /\ h.e[q].score = g[h.e[q].ord]
      /\ \A o \in DOMAIN g : h.pos[o] \in 1..m /\ h.e[h.pos[o]].ord = o
  BY <1>2 DEF Lists
<1>4. Drained(x, h.e, m, m) BY <1>1, <1>2, <1>3, DrainOrders
<1>5. x \in [1..m -> Cand] /\ Entries(x, m) = Entries(h.e, m) /\ Falling(Scores(x, m), m)
  BY <1>4 DEF Drained
<1>6. \A j \in 1..m : x[j].ord \in DOMAIN g /\ x[j].score = g[x[j].ord] /\ x[j].score \in Score
  <2> SUFFICES ASSUME NEW j \in 1..m
               PROVE  x[j].ord \in DOMAIN g /\ x[j].score = g[x[j].ord] /\ x[j].score \in Score
    OBVIOUS
  <2>1. x[j] \in Entries(h.e, m) BY <1>5 DEF Entries
  <2>2. PICK q \in 1..m : x[j] = h.e[q] BY <2>1 DEF Entries
  <2>3. x[j] \in Cand BY <1>5
  <2> QED BY <1>3, <2>2, <2>3 DEF Cand
<1>7. \A o \in DOMAIN g : \E j \in 1..m : x[j].ord = o
  <2> SUFFICES ASSUME NEW o \in DOMAIN g PROVE \E j \in 1..m : x[j].ord = o OBVIOUS
  <2>1. h.pos[o] \in 1..m /\ h.e[h.pos[o]].ord = o BY <1>3
  <2>2. h.e[h.pos[o]] \in Entries(x, m) BY <1>5, <2>1 DEF Entries
  <2>3. PICK j \in 1..m : h.e[h.pos[o]] = x[j] BY <2>2 DEF Entries
  <2> QED BY <2>1, <2>3
<1>8. list = [j \in 1..m |-> Entry(x[j].ord, Fixed(x[j].score))]
  <2>1. DOMAIN h.e = 1..m BY <1>3
  <2> QED BY <1>1, <2>1 DEF DrainedList
<1>9. \A j \in 1..m : list[j].ord = x[j].ord /\ list[j].score = Fixed(x[j].score)
  BY <1>8 DEF Entry
<1>10. DOMAIN list = 1..m /\ Len(list) = m
  <2>1. PICK V : V = [ord : DOMAIN g, score : {Fixed(s) : s \in Score}] OBVIOUS
  <2>2. \A j \in 1..m : Entry(x[j].ord, Fixed(x[j].score)) \in V BY <1>6, <2>1 DEF Entry
  <2>3. list \in [1..m -> V] BY <1>8, <2>2
  <2> QED BY <1>2, <2>3, AsSequence
<1>11. {list[j].ord : j \in DOMAIN list} = DOMAIN g
  <2>1. \A j \in 1..m : list[j].ord \in DOMAIN g BY <1>6, <1>9
  <2>2. \A o \in DOMAIN g : \E j \in 1..m : list[j].ord = o BY <1>7, <1>9
  <2>3. \A o : o \in DOMAIN g <=> \E j \in 1..m : list[j].ord = o BY <2>1, <2>2
  <2> QED BY <1>10, <2>3
<1>12. Listed(list) = [o \in DOMAIN g |-> Fixed(g[o])]
  <2>1. Listed(list) = [o \in DOMAIN g |->
                          list[CHOOSE j \in DOMAIN list : list[j].ord = o].score]
    BY <1>11 DEF Listed
  <2>2. ASSUME NEW o \in DOMAIN g
        PROVE  list[CHOOSE j \in DOMAIN list : list[j].ord = o].score = Fixed(g[o])
    <3>1. PICK j : j = CHOOSE q \in DOMAIN list : list[q].ord = o OBVIOUS
    <3>2. \E q \in DOMAIN list : list[q].ord = o BY <1>11
    <3>3. j \in 1..m /\ list[j].ord = o BY <1>10, <3>1, <3>2
    <3>4. x[j].ord = o /\ list[j].score = Fixed(x[j].score) /\ x[j].score = g[x[j].ord]
      BY <1>6, <1>9, <3>3
    <3> QED BY <3>1, <3>4
  <2> QED BY <2>1, <2>2
<1>13. Cardinality(DOMAIN Listed(list)) = Len(list)
  <2>1. Cardinality(DOMAIN g) = m BY HoldsHeld
  <2> QED BY <1>10, <1>12, <2>1
<1>14. ASSUME NEW j \in 2..Len(list) PROVE list[j].score <= list[j - 1].score
  <2>1. j \in 2..m /\ j \in 1..m /\ j - 1 \in 1..m BY <1>2, <1>10
  <2>2. Scores(x, m)[j] <= Scores(x, m)[j - 1] BY <1>5, <2>1 DEF Falling
  <2>3. x[j].score <= x[j - 1].score BY <2>1, <2>2 DEF Scores
  <2>4. x[j].score \in Int /\ x[j - 1].score \in Int BY <1>6, <2>1, ScoreAssumption
  <2>5. Fixed(x[j].score) <= Fixed(x[j - 1].score) BY <2>3, <2>4, FixedMonotone
  <2> QED BY <1>9, <2>1, <2>5
<1> QED BY <1>12, <1>13, <1>14 DEF WellListed

\* Storing the scores leaves a shortlist one.
LEMMA FixedShortlist ==
  ASSUME NEW f, f \in [DOMAIN f -> Score], NEW g, IsShortlist(f, g)
  PROVE  IsShortlist([o \in DOMAIN f |-> Fixed(f[o])], [o \in DOMAIN g |-> Fixed(g[o])])
<1>1. PICK F, G : F = [o \in DOMAIN f |-> Fixed(f[o])] /\ G = [o \in DOMAIN g |-> Fixed(g[o])]
  OBVIOUS
<1>2. DOMAIN F = DOMAIN f /\ DOMAIN G = DOMAIN g BY <1>1
<1>3. /\ DOMAIN g \subseteq DOMAIN f /\ \A o \in DOMAIN g : g[o] = f[o]
      /\ Cardinality(DOMAIN g) <= K /\ (DOMAIN g # DOMAIN f => Cardinality(DOMAIN g) = K)
      /\ \A p \in DOMAIN g, o \in DOMAIN f \ DOMAIN g : f[o] <= g[p]
  BY DEF IsShortlist
<1>4. \A o \in DOMAIN G : G[o] = F[o] BY <1>1, <1>2, <1>3
<1>5. ASSUME NEW p \in DOMAIN G, NEW o \in DOMAIN F \ DOMAIN G PROVE F[o] <= G[p]
  <2>1. f[o] <= f[p] BY <1>2, <1>3
  <2>2. f[o] \in Int /\ f[p] \in Int BY <1>2, <1>3, ScoreAssumption
  <2>3. Fixed(f[o]) <= Fixed(f[p]) BY <2>1, <2>2, FixedMonotone
  <2> QED BY <1>1, <1>2, <1>3, <2>3
<1> QED BY <1>1, <1>2, <1>3, <1>4, <1>5 DEF IsShortlist

-----------------------------------------------------------------------------
\* list has the best records beneath the prefix k, best first.
RightHot(k, list) ==
  WellListed(list) /\ IsShortlist(BestScores(EdgesBeneath(k[1], k[2])), Listed(list))

\* So has the list of a level that is closed after the last edge beneath its prefix.
LEMMA LevelRight ==
  ASSUME Sortable, Scored, NEW byCountry \in BOOLEAN, Ordered(byCountry),
         NEW n \in 1..Len(keys), NEW L \in Levels, L <= Len(keys[n].name),
         NEW h, ListAt(byCountry, n, L, h),
         n < Len(keys) => ~Shares(byCountry, n, n + 1, L)
  PROVE  RightHot(KeyAt(byCountry, n, L), DrainedList(h))
<1>1. PICK k, list, E, r : /\ k = KeyAt(byCountry, n, L) /\ list = DrainedList(h)
                           /\ E = EdgesWith(byCountry, n, L, n) /\ r = RawBest(E)
  OBVIOUS
<1>2. Len(keys) \in Nat /\ n \in Nat /\ n > 0 BY DEF Sortable
<1>3. L \in Nat BY WriterAssumption DEF Levels
<1>4. PICK g, m : IsTopK(h, g, m) /\ IsShortlist(r, g) BY <1>1, <1>2 DEF ListAt
<1>5. ASSUME NEW j \in 1..Len(keys), Shares(byCountry, n, j, L) PROVE j \in 1..n
  <2>1. SUFFICES ASSUME j > n PROVE FALSE BY <1>2
  <2>2. n + 1 \in 1..Len(keys) /\ n + 1 <= j /\ n <= n + 1 /\ n < Len(keys) BY <1>2, <2>1
  <2>3. Shares(byCountry, n, n + 1, L) BY <1>3, <1>5, <2>2, SharingIsContiguous
  <2> QED BY <2>2, <2>3
<1>6. EdgesBeneath(k[1], k[2]) = E
  <2>1. EdgesBeneath(k[1], k[2]) = EdgesWith(byCountry, n, L, Len(keys)) BY <1>1, EdgesUnder
  <2>2. \A j : j \in {q \in 1..Len(keys) : Shares(byCountry, n, q, L)}
                 <=> j \in {q \in 1..n : Shares(byCountry, n, q, L)}
    <3>1. \A j \in 1..n : j \in 1..Len(keys) BY <1>2
    <3> QED BY <1>5, <3>1
  <2>3. {q \in 1..Len(keys) : Shares(byCountry, n, q, L)}
          = {q \in 1..n : Shares(byCountry, n, q, L)}
    BY <2>2
  <2> QED BY <1>1, <2>1, <2>3 DEF EdgesWith
<1>7. Rated(E)
  <2>1. n \in 0..Len(keys) BY <1>2
  <2> QED BY <1>1, <2>1, EdgesRated
<1>8. r \in [DOMAIN r -> Score] /\ DOMAIN r = {e.ord : e \in E}
  <2>1. IsBest(E, r) BY <1>1, <1>7, RawBestIs
  <2> QED BY <2>1 DEF IsBest
<1>9. BestScores(E) = [o \in DOMAIN r |-> Fixed(r[o])]
  <2>1. BestScores(E) = [o \in DOMAIN r |->
                           Fixed(Max({EdgeScore(e) : e \in {d \in E : d.ord = o}}))]
    BY <1>8 DEF BestScores
  <2>2. \A o \in DOMAIN r : r[o] = Max({EdgeScore(e) : e \in {d \in E : d.ord = o}})
    BY <1>1, <1>8 DEF RawBest
  <2> QED BY <2>1, <2>2
<1>10. WellListed(list) /\ Listed(list) = [o \in DOMAIN g |-> Fixed(g[o])]
  BY <1>1, <1>4, DrainLists
<1>11. IsShortlist([o \in DOMAIN r |-> Fixed(r[o])], [o \in DOMAIN g |-> Fixed(g[o])])
  BY <1>4, <1>8, FixedShortlist
<1>12. IsShortlist(BestScores(EdgesBeneath(k[1], k[2])), Listed(list))
  BY <1>6, <1>9, <1>10, <1>11
<1> QED BY <1>1, <1>10, <1>12 DEF RightHot

\* All lists of hs are right.
ListsRight(hs) == \A q \in DOMAIN hs : RightHot(hs[q].key, hs[q].list)

\* They stay so when a flush after the last edge beneath its prefixes adds to them.
LEMMA FlushRight ==
  ASSUME Sortable, Scored, NEW byCountry \in BOOLEAN, Ordered(byCountry),
         NEW n \in 1..Len(keys), NEW from \in Nat \ {0},
         \A L \in Levels : ListAt(byCountry, n, L, levels[L]),
         \A L \in Levels : L >= from /\ L <= Len(keys[n].name) /\ n < Len(keys)
                             => ~Shares(byCountry, n, n + 1, L),
         NEW S, NEW hs \in Seq(S), ListsRight(hs)
  PROVE  ListsRight(hs \o SetToSeq(Closed(byCountry, keys[n], from)))
<1>1. PICK C, t : C = Closed(byCountry, keys[n], from) /\ t = SetToSeq(C) OBVIOUS
<1>2. t \in Seq(C)
  <2>1. IsFiniteSet(C) BY <1>1, ClosedFinite
  <2> QED BY <1>1, <2>1, SetToSeqLists
<1>3. ASSUME NEW x \in C PROVE RightHot(x.key, x.list)
  <2>1. MaxPrefixLen \in Nat BY WriterAssumption
  <2>2. PICK L \in from..MaxPrefixLen :
          /\ L <= Len(keys[n].name)
          /\ x = [key  |-> <<Spans(byCountry, keys[n]), SubSeq(keys[n].name, 1, L)>>,
                  list |-> [j \in DOMAIN levels[L].e |->
                              LET c == Drain(levels[L])[j] IN Entry(c.ord, Fixed(c.score))]]
    BY <1>1, <1>3 DEF Closed
  <2>3. L \in Levels /\ L >= from BY <2>1, <2>2 DEF Levels
  <2>4. x.key = KeyAt(byCountry, n, L) /\ x.list = DrainedList(levels[L])
    BY <2>2 DEF KeyAt, DrainedList
  <2>5. PICK h : h = levels[L] OBVIOUS
  <2>6. ListAt(byCountry, n, L, h) BY <2>3, <2>5
  <2>7. n < Len(keys) => ~Shares(byCountry, n, n + 1, L) BY <2>2, <2>3
  <2>8. RightHot(KeyAt(byCountry, n, L), DrainedList(h))
    BY <2>2, <2>3, <2>6, <2>7, LevelRight
  <2> QED BY <2>4, <2>5, <2>8
<1>4. hs \in Seq(S \cup C) /\ t \in Seq(S \cup C) /\ DOMAIN hs = 1..Len(hs)
  BY <1>2
<1>5. /\ hs \o t \in Seq(S \cup C)
      /\ Len(hs \o t) = Len(hs) + Len(t) /\ Len(hs) \in Nat /\ Len(t) \in Nat
      /\ \A k \in 1..Len(hs) : (hs \o t)[k] = hs[k]
      /\ \A k \in 1..Len(t) : (hs \o t)[Len(hs) + k] = t[k]
  BY <1>4, Joined
<1>6. ASSUME NEW q \in 1..Len(hs) + Len(t)
      PROVE  RightHot((hs \o t)[q].key, (hs \o t)[q].list)
  <2>1. CASE q \in 1..Len(hs) BY <1>4, <1>5, <2>1 DEF ListsRight
  <2>2. CASE q \notin 1..Len(hs)
    <3>1. PICK k \in 1..Len(t) : q = Len(hs) + k
      <4>1. q - Len(hs) \in 1..Len(t) /\ q = Len(hs) + (q - Len(hs)) BY <1>5, <2>2
      <4> QED BY <4>1
    <3>2. t[k] \in C BY <1>2
    <3> QED BY <1>3, <1>5, <3>1, <3>2
  <2> QED BY <2>1, <2>2
<1>7. DOMAIN (hs \o t) = 1..Len(hs) + Len(t) BY <1>5
<1> QED BY <1>1, <1>6, <1>7 DEF ListsRight

\* The lists collectHot holds and the ones it has made, before the edge at i.
ListInv(byCountry) ==
  /\ \A L \in Levels : ListAt(byCountry, i - 1, L, levels[L])
  /\ ListsRight(hots)

\* A step of it takes the edge at i in.
LEMMA ListTakes ==
  ASSUME Sortable, Scored, NEW byCountry \in BOOLEAN, Ordered(byCountry), HotInv(byCountry),
         ListInv(byCountry), HotEdge(byCountry), NEW hs, hs = hots', NEW ls, ls = levels'
  PROVE  ListsRight(hs) /\ \A L \in Levels : ListAt(byCountry, i, L, ls[L])
<1>1. PICK e, newKey, from :
        /\ e = keys[i] /\ newKey = IsNewKey(byCountry)
        /\ from = IF i > 1 /\ newKey THEN FlushFrom(byCountry, keys[i - 1], e)
                  ELSE MaxPrefixLen + 1
  OBVIOUS
<1>2. /\ i <= Len(keys)
      /\ hs = IF i = 1 THEN hots ELSE hots \o SetToSeq(Closed(byCountry, keys[i - 1], from))
      /\ ls = LET kept == [L \in Levels |-> IF L >= from THEN NewTopK ELSE levels[L]]
              IN [L \in Levels |->
                    IF L <= Len(e.name) /\ BeatsMin(kept[L], EdgeScore(e))
                    THEN Added(kept[L], e.ord, EdgeScore(e)) ELSE kept[L]]
  BY <1>1 DEF HotEdge
<1>3. /\ Len(keys) \in Nat /\ i \in 1..Len(keys) BY <1>2 DEF HotInv, Sortable
<1>4. ASSUME NEW L \in Levels PROVE ListAt(byCountry, i, L, ls[L])
  <2>1. PICK h, t : /\ h = IF L >= from THEN NewTopK ELSE levels[L]
                    /\ t = IF L <= Len(e.name) /\ BeatsMin(h, EdgeScore(e))
                           THEN Added(h, e.ord, EdgeScore(e)) ELSE h
    OBVIOUS
  <2>2. ls[L] = t BY <1>2, <2>1
  <2>3. ListAt(byCountry, i - 1, L, levels[L]) BY DEF ListInv
  <2>4. ListAt(byCountry, i, L, t) BY <1>1, <1>3, <2>1, <2>3, ListStep
  <2> QED BY <2>2, <2>4
<1>5. ListsRight(hs)
  <2>1. CASE i = 1 BY <1>2, <2>1 DEF ListInv
  <2>2. CASE i # 1
    <3>1. PICK n : n = i - 1 OBVIOUS
    <3>2. n \in 1..Len(keys) /\ i \in 2..Len(keys) /\ n + 1 = i BY <1>3, <2>2, <3>1
    <3>3. \A L \in Levels : SharedTo(byCountry, L, newKey, from) BY <1>1, <3>2, SharedBelow
    <3>4. from \in Nat \ {0}
      <4>1. 1 \in Levels BY WriterAssumption DEF Levels
      <4> QED BY <3>3, <4>1 DEF SharedTo
    <3>5. ASSUME NEW L \in Levels, L >= from, L <= Len(keys[n].name)
          PROVE  ~Shares(byCountry, n, n + 1, L)
      <4>1. L \in Nat BY WriterAssumption DEF Levels
      <4>2. Shares(byCountry, n, i, L) <=> L < from BY <3>1, <3>3, <3>5 DEF SharedTo
      <4> QED BY <3>2, <3>4, <3>5, <4>1, <4>2
    <3>6. \A L \in Levels : ListAt(byCountry, n, L, levels[L]) BY <3>1 DEF ListInv
    <3>7. PICK S : hots \in Seq(S) BY DEF HotInv, HotAt
    <3>8. ListsRight(hots) BY DEF ListInv
    <3>9. ListsRight(hots \o SetToSeq(Closed(byCountry, keys[n], from)))
      BY <3>2, <3>4, <3>5, <3>6, <3>7, <3>8, FlushRight
    <3> QED BY <1>2, <2>2, <3>1, <3>9
  <2> QED BY <2>1, <2>2
<1> QED BY <1>4, <1>5

\* When it has seen all edges, every list it made is right.
LEMMA ListEnds ==
  ASSUME Sortable, Scored, NEW byCountry \in BOOLEAN, Ordered(byCountry), HotInv(byCountry),
         ListInv(byCountry), i > Len(keys)
  PROVE  ListsRight(AllHot(byCountry))
<1>1. Len(keys) \in Nat /\ i = Len(keys) + 1 BY DEF HotInv, Sortable
<1>2. ListsRight(hots) BY DEF ListInv
<1>3. CASE keys = <<>> BY <1>2, <1>3 DEF AllHot
<1>4. CASE keys # <<>>
  <2>1. PICK n : n = Len(keys) OBVIOUS
  <2>2. n \in 1..Len(keys) /\ i - 1 = n /\ ~(n < Len(keys)) BY <1>1, <1>4, <2>1 DEF Sortable
  <2>3. \A L \in Levels : ListAt(byCountry, n, L, levels[L]) BY <2>2 DEF ListInv
  <2>4. PICK S : hots \in Seq(S) BY DEF HotInv, HotAt
  <2>5. ListsRight(hots \o SetToSeq(Closed(byCountry, keys[n], 1)))
    BY <1>2, <2>2, <2>3, <2>4, FlushRight
  <2> QED BY <1>4, <2>1, <2>5 DEF AllHot
<1> QED BY <1>3, <1>4

\* The lists of an FST are those of the list it is written from.
LEMMA WrittenLists ==
  ASSUME NEW hs, ListsRight(hs)
  PROVE  \A k \in DOMAIN WrittenHot(hs) : RightHot(k, WrittenHot(hs)[k])
<1> SUFFICES ASSUME NEW k \in {hs[n].key : n \in DOMAIN hs}
             PROVE  RightHot(k, hs[CHOOSE n \in DOMAIN hs : hs[n].key = k].list)
  BY DEF WrittenHot
<1>1. PICK q : q = CHOOSE n \in DOMAIN hs : hs[n].key = k OBVIOUS
<1>2. q \in DOMAIN hs /\ hs[q].key = k
  <2>1. \E n \in DOMAIN hs : hs[n].key = k OBVIOUS
  <2> QED BY <1>1, <2>1
<1> QED BY <1>1, <1>2 DEF ListsRight

-----------------------------------------------------------------------------
\* Lines, and so records, have ordinals; records have countries and scores.
Graded ==
  /\ 0..Len(dump) - 1 \subseteq Ord
  /\ \A o \in DOMAIN recCountry : o \in Ord /\ recCountry[o] \in Country
  /\ \A o \in DOMAIN prominence : \A c \in Class : prominence[o] - Penalty[c] \in Score
  /\ \A x \in DOMAIN idToOrd : idToOrd[x] \in Ord

\* So do the edges.
LEMMA EdgesScored ==
  ASSUME RecordsOK, KeysOK, Graded
  PROVE  Scored
<1> SUFFICES ASSUME NEW n \in 1..Len(keys)
             PROVE  keys[n].ord \in Ord /\ EdgeScore(keys[n]) \in Score
  BY DEF Scored
<1>1. keys[n] \in AnyEdge /\ keys[n].ord \in DOMAIN recCountry BY DEF KeysOK
<1>2. keys[n].class \in Class BY <1>1 DEF AnyEdge
<1>3. keys[n].ord \in Ord BY <1>1 DEF Graded
<1>4. keys[n].ord \in DOMAIN prominence BY <1>1 DEF RecordsOK
<1> QED BY <1>2, <1>3, <1>4 DEF Graded, EdgeScore

\* The next record gets an ordinal, a country and scores.
LEMMA AddGrades ==
  ASSUME Typed, TablesOK, Packed, Gathered, Graded, AddRecord
  PROVE  Graded'
<1>0. PICK r, o, e : r = Row /\ o = Len(recOffsets) /\ e = Encoded(Row) OBVIOUS
<1>1. /\ ReadingRow /\ r.class = "P" /\ Kept(r)
      /\ idToOrd' = Put(idToOrd, r.id, o)
      /\ prominence' = Put(prominence, o, ProminenceOf[<<r.population, r.feature>>])
      /\ recCountry' = recCountry \/ recCountry' = Put(recCountry, o, e.country % MaxCountries)
      /\ UNCHANGED files
  BY <1>0 DEF AddRecord
<1>2. /\ r \in DumpLine /\ r = dump[line + 1] /\ line + 1 \in Places
      /\ Cardinality(Through) \in Nat
  BY <1>0, <1>1, RowIsPlace
<1>3. <<r.population, r.feature>> \in DOMAIN ProminenceOf
  BY <1>2 DEF Gathered, Places
<1>4. PICK v : v = ProminenceOf[<<r.population, r.feature>>] OBVIOUS
<1>5. \A c \in Class : v - Penalty[c] \in Score BY <1>3, <1>4, BuildAssumption
<1>6. o \in Ord
  <2>1. stage = "records" /\ line < Len(dump) BY <1>1 DEF ReadingRow
  <2>2. o = Cardinality(Through) /\ Through = {n \in Places : n <= line}
    BY <1>0, <1>2, <2>1 DEF Packed, Through
  <2>3. line \in Nat /\ Len(dump) \in Nat BY DEF Typed
  <2>4. Through \subseteq 1..line
    <3>1. \A n \in Places : n \in 1..Len(dump) BY PlacesFinite
    <3> QED BY <2>2, <2>3, <3>1
  <2>5. IsFiniteSet(1..line) /\ Cardinality(1..line) = line
    <3>1. PICK n \in Nat : n = line BY <2>3
    <3>2. \A a, b \in Int : /\ IsFiniteSet(a..b)
                            /\ Cardinality(a..b) = IF a > b THEN 0 ELSE b - a + 1
      BY FS_Interval
    <3>3. IsFiniteSet(1..n) /\ Cardinality(1..n) = n BY <3>2
    <3> QED BY <3>1, <3>3
  <2>6. Cardinality(Through) <= line BY <2>4, <2>5, FS_Subset
  <2>7. o \in 0..Len(dump) - 1 BY <1>2, <2>1, <2>2, <2>3, <2>6
  <2> QED BY <2>7 DEF Graded
<1>7. \A p \in DOMAIN prominence' : \A c \in Class : prominence'[p] - Penalty[c] \in Score
  <2>1. prominence' = Put(prominence, o, v) BY <1>1, <1>4
  <2>2. /\ DOMAIN prominence' = DOMAIN prominence \cup {o} /\ prominence'[o] = v
        /\ \A p \in DOMAIN prominence : p # o => prominence'[p] = prominence[p]
    BY <2>1 DEF Put
  <2> QED BY <1>5, <2>2 DEF Graded
<1>8. \A x \in DOMAIN idToOrd' : idToOrd'[x] \in Ord
  <2>1. PICK x : x = r.id OBVIOUS
  <2>2. idToOrd' = Put(idToOrd, x, o) BY <1>1, <2>1
  <2>3. /\ DOMAIN idToOrd' = DOMAIN idToOrd \cup {x} /\ idToOrd'[x] = o
        /\ \A y \in DOMAIN idToOrd : y # x => idToOrd'[y] = idToOrd[y]
    BY <2>2 DEF Put
  <2> QED BY <1>6, <2>3 DEF Graded
<1>9. \A p \in DOMAIN recCountry' : p \in Ord /\ recCountry'[p] \in Country
  <2>1. CASE recCountry' = recCountry BY <2>1 DEF Graded
  <2>2. CASE recCountry' = Put(recCountry, o, e.country % MaxCountries)
    <3>1. PICK c : c = e.country % MaxCountries OBVIOUS
    <3>2. c \in Country
      <4>1. e \in Encoding BY <1>0, AddTables
      <4>2. e.country \in Int BY <4>1 DEF Encoding
      <4>3. MaxCountries \in Nat \ {0} /\ Country = 0..MaxCountries - 1 BY BuildAssumption
      <4> QED BY <3>1, <4>2, <4>3
    <3>3. recCountry' = Put(recCountry, o, c) BY <2>2, <3>1
    <3>4. /\ DOMAIN recCountry' = DOMAIN recCountry \cup {o} /\ recCountry'[o] = c
          /\ \A p \in DOMAIN recCountry : p # o => recCountry'[p] = recCountry[p]
      BY <3>3 DEF Put
    <3> QED BY <1>6, <3>2, <3>4 DEF Graded
  <2> QED BY <1>1, <2>1, <2>2
<1>10. dump' = dump BY <1>1 DEF files
<1> QED BY <1>7, <1>8, <1>9, <1>10 DEF Graded

\* Every step leaves it so.
LEMMA NextGraded ==
  ASSUME Collected, Gathered, Graded, [BuildNext]_buildVars
  PROVE  Graded'
<1>1. CASE AddRecord
  <2>1. stage # "failed" BY <1>1 DEF AddRecord, ReadingRow
  <2> QED BY <1>1, <2>1, AddGrades DEF Collected
<1>2. CASE ~AddRecord
  <2>1. UNCHANGED <<dump, recCountry, prominence, idToOrd>>
    BY <1>2 DEF BuildNext, FailRow, SkipRow, RecordsDone, FailAlt, SkipAlt, AddAlt, AltsDone,
                WriteIndex, Failed, buildVars, files, collected, vars, build, Next, Start,
                HotPass, CountryHotPass, HotEdge, HotDone, CountryHotDone, PostingEdge,
                PostingsDone, Done
  <2> QED BY <2>1 DEF Graded
<1> QED BY <1>1, <1>2

\* The hot lists say the same in whatever order the edges stand.
LEMMA RightHotStays ==
  ASSUME ToSet(keys') = ToSet(keys), recCountry' = recCountry, prominence' = prominence
  PROVE  \A k, list : RightHot(k, list)' <=> RightHot(k, list)
<1>1. Edges' = Edges BY DEF Edges
<1>2. \A c, p : EdgesBeneath(c, p)' = EdgesBeneath(c, p) BY <1>1 DEF EdgesBeneath
<1>3. \A E : BestScores(E)' = BestScores(E) BY DEF BestScores, EdgeScore
<1>4. \A c, p : BestScores(EdgesBeneath(c, p))' = BestScores(EdgesBeneath(c, p))
  BY <1>2, <1>3
<1> QED BY <1>4 DEF RightHot

\* The two sides of a step see the same lists.
LEMMA SameLists ==
  ASSUME UNCHANGED build
  PROVE  /\ \A k, list : RightHot(k, list)' <=> RightHot(k, list)
         /\ \A hs : ListsRight(hs)' <=> ListsRight(hs)
         /\ \A b, n, L, t : ListAt(b, n, L, t)' <=> ListAt(b, n, L, t)
<1>1. keys' = keys /\ recCountry' = recCountry /\ prominence' = prominence BY DEF build
<1>2. \A k, list : RightHot(k, list)' <=> RightHot(k, list) BY <1>1, RightHotStays
<1>3. \A hs : ListsRight(hs)' <=> ListsRight(hs) BY <1>2 DEF ListsRight
<1>4. \A b, m, j, L : Shares(b, m, j, L)' <=> Shares(b, m, j, L)
  BY <1>1 DEF Shares, Spans
<1>5. \A b, m, L, n : EdgesWith(b, m, L, n)' = EdgesWith(b, m, L, n)
  BY <1>1, <1>4 DEF EdgesWith
<1>6. \A E : RawBest(E)' = RawBest(E) BY <1>1 DEF RawBest, EdgeScore
<1>7. \A b, m, L, n : RawBest(EdgesWith(b, m, L, n))' = RawBest(EdgesWith(b, m, L, n))
  BY <1>5, <1>6
<1>8. \A b, n, L, t : ListAt(b, n, L, t)' <=> ListAt(b, n, L, t)
  BY <1>1, <1>7 DEF ListAt
<1> QED BY <1>2, <1>3, <1>8

\* A new collectHot has made no list.
LEMMA ListsFresh ==
  ASSUME NEW byCountry, i' = 1, hots' = <<>>, levels' = FreshLevels
  PROVE  ListInv(byCountry)'
<1>1. PICK hs, ls, n : hs = <<>> /\ ls = FreshLevels /\ n = 0 OBVIOUS
<1>2. DOMAIN hs = {} /\ ~(n > 0) /\ \A L \in Levels : ls[L] = NewTopK BY <1>1 DEF FreshLevels
<1>3. ListsRight(hs)' BY <1>2 DEF ListsRight
<1>4. \A L \in Levels : ListAt(byCountry, n, L, ls[L])' BY <1>2 DEF ListAt
<1>5. hots' = hs /\ levels' = ls /\ i' - 1 = n BY <1>1
<1> QED BY <1>3, <1>4, <1>5 DEF ListInv

\* All lists of a hot FST are right.
FstLists(f) == \A k \in DOMAIN f : RightHot(k, f[k])

\* The lists of the two hot passes, and of the FSTs they leave.
Shortlisted ==
  /\ pc = "hot" => ListInv(FALSE)
  /\ pc = "cchot" => ListInv(TRUE)
  /\ pc \in {"cchot", "postings", "done"} => FstLists(hotFST)
  /\ pc \in {"postings", "done"} => FstLists(ccHotFST)

\* A step of collectHot, in either pass.
LEMMA HotStepLists ==
  ASSUME RecordsOK, KeysOK, Graded, Written, Shortlisted, HotPass \/ CountryHotPass
  PROVE  Shortlisted'
<1>1. PICK byCountry \in BOOLEAN :
        HotEdge(byCountry) /\ pc = IF byCountry THEN "cchot" ELSE "hot"
  BY DEF HotPass, CountryHotPass
<1>2. UNCHANGED build /\ pc' = pc /\ UNCHANGED <<hotFST, ccHotFST>> /\ i' = i + 1
      /\ i <= Len(keys)
  BY <1>1 DEF HotEdge
<1>3. Sortable /\ Scored BY EdgesSortable, EdgesScored
<1>4. Ordered(byCountry) /\ HotInv(byCountry) /\ ListInv(byCountry)
  BY <1>1 DEF Written, Shortlisted
<1>5. ListInv(byCountry)'
  <2>1. PICK hs, ls, n : hs = hots' /\ ls = levels' /\ n = i OBVIOUS
  <2>2. ListsRight(hs) /\ \A L \in Levels : ListAt(byCountry, n, L, ls[L])
    BY <1>1, <1>3, <1>4, <2>1, ListTakes
  <2>3. ListsRight(hs)' BY <1>2, <2>2, SameLists
  <2>4. \A L \in Levels : ListAt(byCountry, n, L, ls[L])' BY <1>2, <2>2, SameLists
  <2>5. i' - 1 = n
    <3>1. i \in 1..Len(keys) + 1 /\ Len(keys) \in Nat BY <1>3, <1>4 DEF HotInv, Sortable
    <3> QED BY <1>2, <2>1, <3>1
  <2> QED BY <2>1, <2>3, <2>4, <2>5 DEF ListInv
<1>6. FstLists(hotFST)' <=> FstLists(hotFST)
  <2>1. PICK f : f = hotFST OBVIOUS
  <2>2. \A k : RightHot(k, f[k])' <=> RightHot(k, f[k]) BY <1>2, SameLists
  <2> QED BY <1>2, <2>1, <2>2 DEF FstLists
<1>7. CASE byCountry = TRUE BY <1>1, <1>2, <1>5, <1>6, <1>7 DEF Shortlisted
<1>8. CASE byCountry = FALSE BY <1>1, <1>2, <1>5, <1>8 DEF Shortlisted
<1> QED BY <1>7, <1>8

\* The end of the first pass, and the second sort.
LEMMA HotDoneLists ==
  ASSUME RecordsOK, KeysOK, Graded, Written, Shortlisted, HotDone
  PROVE  Shortlisted'
<1>1. Sortable /\ Scored BY EdgesSortable, EdgesScored
<1>2. pc = "hot" /\ i > Len(keys) /\ recCountry' = recCountry /\ prominence' = prominence
  BY DEF HotDone
<1>3. Ordered(FALSE) /\ HotInv(FALSE) /\ ListInv(FALSE) BY <1>2 DEF Written, Shortlisted
<1>4. Distinct(AllHot(FALSE)) BY <1>1, <1>2, <1>3, HotEnds
<1>5. PICK hs, f : hs = AllHot(FALSE) /\ f = WrittenHot(hs) OBVIOUS
<1>6. /\ hotFST' = f /\ pc' = "cchot" /\ keys' = SortedKeys(TRUE)
      /\ i' = 1 /\ hots' = <<>> /\ levels' = FreshLevels
  BY <1>4, <1>5 DEF HotDone
<1>7. ListsRight(hs) BY <1>1, <1>2, <1>3, <1>5, ListEnds
<1>8. \A k \in DOMAIN f : RightHot(k, f[k]) BY <1>5, <1>7, WrittenLists
<1>9. ToSet(keys') = ToSet(keys) BY <1>2, <1>6, SortingOrders
<1>10. \A k \in DOMAIN f : RightHot(k, f[k])' BY <1>2, <1>8, <1>9, RightHotStays
<1>11. FstLists(hotFST)' BY <1>6, <1>10 DEF FstLists
<1>12. ListInv(TRUE)' BY <1>6, ListsFresh
<1> QED BY <1>6, <1>11, <1>12 DEF Shortlisted

\* The end of the second pass.
LEMMA CountryDoneLists ==
  ASSUME RecordsOK, KeysOK, Graded, Written, Shortlisted, CountryHotDone
  PROVE  Shortlisted'
<1>1. Sortable /\ Scored BY EdgesSortable, EdgesScored
<1>2. pc = "cchot" /\ i > Len(keys) /\ UNCHANGED build /\ hotFST' = hotFST
  BY DEF CountryHotDone
<1>3. Ordered(TRUE) /\ HotInv(TRUE) /\ ListInv(TRUE) /\ FstLists(hotFST)
  BY <1>2 DEF Written, Shortlisted
<1>4. Distinct(AllHot(TRUE)) BY <1>1, <1>2, <1>3, HotEnds
<1>5. PICK hs, f, g : hs = AllHot(TRUE) /\ f = WrittenHot(hs) /\ g = hotFST OBVIOUS
<1>6. ccHotFST' = f /\ pc' = "postings" BY <1>4, <1>5 DEF CountryHotDone
<1>7. ListsRight(hs) BY <1>1, <1>2, <1>3, <1>5, ListEnds
<1>8. \A k \in DOMAIN f : RightHot(k, f[k]) BY <1>5, <1>7, WrittenLists
<1>9. \A k \in DOMAIN g : RightHot(k, g[k]) BY <1>3, <1>5 DEF FstLists
<1>10. /\ \A k \in DOMAIN f : RightHot(k, f[k])'
       /\ \A k \in DOMAIN g : RightHot(k, g[k])'
  BY <1>2, <1>8, <1>9, SameLists
<1>11. FstLists(hotFST)' BY <1>2, <1>5, <1>10 DEF FstLists
<1>12. FstLists(ccHotFST)' BY <1>6, <1>10 DEF FstLists
<1> QED BY <1>6, <1>11, <1>12 DEF Shortlisted

\* A step that leaves the edges and the FSTs, and no list in the making.
LEMMA ListsStay ==
  ASSUME Shortlisted, UNCHANGED <<build, hotFST, ccHotFST>>,
         \/ UNCHANGED <<pc, i, levels, hots>>
         \/ pc = "postings" /\ pc' \in {"postings", "done", "refused"}
  PROVE  Shortlisted'
<1>1. FstLists(hotFST)' <=> FstLists(hotFST)
  <2>1. PICK f : f = hotFST OBVIOUS
  <2>2. \A k : RightHot(k, f[k])' <=> RightHot(k, f[k]) BY SameLists
  <2> QED BY <2>1, <2>2 DEF FstLists
<1>2. FstLists(ccHotFST)' <=> FstLists(ccHotFST)
  <2>1. PICK f : f = ccHotFST OBVIOUS
  <2>2. \A k : RightHot(k, f[k])' <=> RightHot(k, f[k]) BY SameLists
  <2> QED BY <2>1, <2>2 DEF FstLists
<1>3. CASE UNCHANGED <<pc, i, levels, hots>>
  <2>1. PICK hs, ls, n : hs = hots /\ ls = levels /\ n = i - 1 OBVIOUS
  <2>2. ListsRight(hs)' <=> ListsRight(hs) BY SameLists
  <2>3. \A b, L : ListAt(b, n, L, ls[L])' <=> ListAt(b, n, L, ls[L]) BY SameLists
  <2>4. hots' = hs /\ levels' = ls /\ i' - 1 = n BY <1>3, <2>1
  <2>5. \A b : ListInv(b)' <=> ListInv(b) BY <2>1, <2>2, <2>3, <2>4 DEF ListInv
  <2> QED BY <1>1, <1>2, <1>3, <2>5 DEF Shortlisted
<1>4. CASE pc = "postings" /\ pc' \in {"postings", "done", "refused"}
  BY <1>1, <1>2, <1>4 DEF Shortlisted
<1> QED BY <1>3, <1>4

\* Any step of a build.
LEMMA NextShortlisted ==
  ASSUME Collected, Indexed, Graded, Shortlisted, [BuildNext]_buildVars
  PROVE  Shortlisted'
<1>1. RecordsOK /\ KeysOK /\ Written BY DEF Indexed, Gathered
<1>2. CASE WriteIndex
  <2>1. Next BY <1>2 DEF WriteIndex
  <2>2. CASE Start
    <3>1. pc' = "hot" /\ i = 1 /\ levels = FreshLevels /\ hots = <<>> /\ pc = "start"
      BY <2>2 DEF Start, Indexed, Gathered, Unwritten
    <3>2. i' = 1 /\ levels' = FreshLevels /\ hots' = <<>> BY <2>2, <3>1 DEF Start, FreshLevels
    <3>3. ListInv(FALSE)' BY <3>2, ListsFresh
    <3> QED BY <3>1, <3>3 DEF Shortlisted
  <2>3. CASE HotPass \/ CountryHotPass BY <1>1, <2>3, HotStepLists
  <2>4. CASE HotDone BY <1>1, <2>4, HotDoneLists
  <2>5. CASE CountryHotDone BY <1>1, <2>5, CountryDoneLists
  <2>6. CASE PostingEdge
    <3>1. /\ UNCHANGED <<build, hotFST, ccHotFST>> /\ pc = "postings"
          /\ pc' \in {"postings", "refused"}
      BY <2>6 DEF PostingEdge
    <3> QED BY <3>1, ListsStay
  <2>7. CASE PostingsDone
    <3>1. /\ UNCHANGED <<build, hotFST, ccHotFST>> /\ pc = "postings"
          /\ pc' \in {"done", "refused"}
      BY <2>7 DEF PostingsDone
    <3> QED BY <3>1, ListsStay
  <2>8. CASE Done
    <3>1. UNCHANGED <<build, hotFST, ccHotFST, pc, i, levels, hots>> BY <2>8 DEF Done, vars
    <3> QED BY <3>1, ListsStay
  <2> QED BY <2>1, <2>2, <2>3, <2>4, <2>5, <2>6, <2>7, <2>8 DEF Next
<1>3. CASE AddRecord \/ AddAlt
  <2>1. pc' = "start"
    <3>1. stage # "index" /\ pc' = pc
      BY <1>3 DEF AddRecord, AddAlt, ReadingRow, ReadingAlt, writing
    <3> QED BY <3>1 DEF Indexed, Gathered
  <2> QED BY <2>1 DEF Shortlisted
<1>4. CASE FailRow \/ SkipRow \/ RecordsDone \/ FailAlt \/ SkipAlt \/ AltsDone \/ Failed
           \/ UNCHANGED buildVars
  <2>1. UNCHANGED <<build, hotFST, ccHotFST, pc, i, levels, hots>>
    BY <1>4 DEF FailRow, SkipRow, RecordsDone, FailAlt, SkipAlt, AltsDone, Failed, buildVars, vars
  <2> QED BY <2>1, ListsStay
<1> QED BY <1>2, <1>3, <1>4 DEF BuildNext

\* The lists are right in every build.
LEMMA AlwaysShortlisted == BuildSpec => [](Graded /\ Shortlisted)
<1>1. BuildInit => Graded /\ Shortlisted
  BY DEF BuildInit, Init, Graded, Shortlisted
<1>2. Collected /\ Indexed /\ Graded /\ Shortlisted /\ [BuildNext]_buildVars
        => Graded' /\ Shortlisted'
  BY NextGraded, NextShortlisted DEF Indexed
<1> QED BY <1>1, <1>2, AlwaysCollected, AlwaysIndexed, PTL DEF BuildSpec

-----------------------------------------------------------------------------
\* The third pass starts with empty lists; each edge it has read gave it at most one
\* posting list, the one in the making included.
Bounded ==
  pc \in {"postings", "done"} =>
    /\ i \in 1..Len(keys) + 1 /\ levels = FreshLevels /\ counts = NoCounts
    /\ postings \in Seq(AnyEdge) /\ ToSet(postings) \subseteq Edges
    /\ (\E S : fst \in Seq(S))
    /\ Len(fst) + (IF postings = <<>> THEN 0 ELSE 1) <= i - 1

\* A flush adds the list in the making.
LEMMA FlushedLength ==
  ASSUME NEW ps, \E S : fst \in Seq(S), NEW f, f = Flushed(ps)
  PROVE  /\ \E S : f \in Seq(S)
         /\ Len(f) = Len(fst) + (IF ps = <<>> THEN 0 ELSE 1) /\ Len(fst) \in Nat
<1>1. PICK S : fst \in Seq(S) OBVIOUS
<1>2. PICK x : ps # <<>> => f = Append(fst, x) BY DEF Flushed
<1>3. CASE ps = <<>> BY <1>1, <1>3 DEF Flushed
<1>4. CASE ps # <<>>
  <2>1. fst \in Seq(S \cup {x}) /\ x \in S \cup {x} BY <1>1
  <2> QED BY <1>2, <1>4, <2>1
<1> QED BY <1>3, <1>4

\* Every step of the third pass, and the one that leads to it.
LEMMA NextBounded ==
  ASSUME Indexed, Bounded, [BuildNext]_buildVars
  PROVE  Bounded'
<1>1. RecordsOK /\ KeysOK /\ Written BY DEF Indexed, Gathered
<1>2. keys \in Seq(AnyEdge) /\ Len(keys) \in Nat BY <1>1 DEF KeysOK
<1>3. CASE pc' \notin {"postings", "done"} BY <1>3 DEF Bounded
<1>4. CASE WriteIndex /\ CountryHotDone
  <2>1. /\ pc = "cchot" /\ UNCHANGED build /\ i' = 1 /\ levels' = FreshLevels
        /\ counts' = NoCounts /\ postings' = postings /\ fst' = fst
    BY <1>4 DEF CountryHotDone
  <2>2. postings = <<>> /\ fst = <<>> BY <1>1, <2>1 DEF Written
  <2>3. keys' = keys BY <2>1 DEF build
  <2>4. fst' = <<>> /\ postings' = <<>> /\ <<>> \in Seq(AnyEdge) /\ Len(<<>>) = 0
        /\ ToSet(<<>>) = {}
    BY <2>1, <2>2 DEF ToSet
  <2>5. ToSet(postings') = {} BY <2>4
  <2>6. levels' = FreshLevels' /\ counts' = NoCounts' BY <2>1 DEF FreshLevels, NoCounts
  <2>7. i' \in 1..Len(keys') + 1 /\ i' - 1 = 0 BY <1>2, <2>1, <2>3
  <2> QED BY <2>4, <2>5, <2>6, <2>7 DEF Bounded
<1>5. CASE WriteIndex /\ PostingEdge
  <2>1. pc = "postings" /\ i <= Len(keys) BY <1>5 DEF PostingEdge
  <2>2. /\ i \in 1..Len(keys) + 1 /\ levels = FreshLevels /\ counts = NoCounts
        /\ postings \in Seq(AnyEdge) /\ ToSet(postings) \subseteq Edges
        /\ (\E S : fst \in Seq(S))
        /\ Len(fst) + (IF postings = <<>> THEN 0 ELSE 1) <= i - 1
    BY <2>1 DEF Bounded
  <2>3. CASE pc' = "refused" BY <1>3, <2>3
  <2>4. CASE pc' # "refused"
    <3>1. PICK e, other : e = keys[i] /\ other = (i > 1 /\ KeyOf(e) # KeyOf(keys[i - 1]))
      OBVIOUS
    <3>2. PICK f, ps : /\ f = IF other THEN Flushed(postings) ELSE fst
                       /\ ps = IF other THEN <<>> ELSE postings
      OBVIOUS
    <3>3. /\ fst' = f /\ postings' = WithPosting(ps, e) /\ i' = i + 1
          /\ UNCHANGED <<build, levels, counts>>
      <4>1. Accepted(f) BY <1>5, <2>4, <3>1, <3>2 DEF PostingEdge
      <4> QED BY <1>5, <3>1, <3>2, <4>1 DEF PostingEdge
    <3>4. keys' = keys BY <3>3 DEF build
    <3>5. e \in AnyEdge /\ e \in Edges BY <1>2, <2>1, <2>2, <3>1 DEF Edges, ToSet
    <3>6. ps \in Seq(AnyEdge) /\ ToSet(ps) \subseteq Edges
      <4>1. <<>> \in Seq(AnyEdge) /\ ToSet(<<>>) = {} BY DEF ToSet
      <4> QED BY <2>2, <3>2, <4>1
    <3>7. PICK qs : qs = WithPosting(ps, e) OBVIOUS
    <3>8. qs \in Seq(AnyEdge) /\ ToSet(qs) \subseteq Edges /\ qs # <<>>
      <4>1. CASE \E j \in DOMAIN ps : ps[j].ord = e.ord
        <5>1. qs = ps /\ DOMAIN ps # {} BY <3>7, <4>1 DEF WithPosting
        <5>2. ps # <<>> BY <5>1
        <5> QED BY <3>6, <5>1, <5>2
      <4>2. CASE ~\E j \in DOMAIN ps : ps[j].ord = e.ord
        <5>1. qs = Append(ps, e) BY <3>7, <4>2 DEF WithPosting
        <5>2. /\ qs \in Seq(AnyEdge) /\ Len(qs) = Len(ps) + 1 /\ DOMAIN qs = 1..Len(ps) + 1
              /\ Len(ps) \in Nat
              /\ \A n \in 1..Len(ps) : qs[n] = ps[n]
              /\ qs[Len(ps) + 1] = e
          <6> HIDE DEF AnyEdge
          <6> QED BY <3>5, <3>6, <5>1, Appended
        <5>3. DOMAIN ps = 1..Len(ps) BY <3>6
        <5>4. \A n \in DOMAIN qs : qs[n] \in Edges
          <6>1. \A n \in 1..Len(ps) : ps[n] \in Edges BY <3>6, <5>3 DEF ToSet
          <6>2. \A n \in 1..Len(ps) + 1 : n \in 1..Len(ps) \/ n = Len(ps) + 1 BY <5>2
          <6> QED BY <3>5, <5>2, <6>1, <6>2
        <5>5. ToSet(qs) \subseteq Edges BY <5>4 DEF ToSet
        <5>6. Len(qs) # 0 /\ Len(<<>>) = 0 BY <5>2
        <5> QED BY <5>2, <5>5, <5>6
      <4> QED BY <4>1, <4>2
    <3>9. (\E S : f \in Seq(S)) /\ Len(f) <= i - 1 /\ Len(f) \in Nat
      <4>1. PICK g : g = Flushed(postings) OBVIOUS
      <4>2. /\ \E S : g \in Seq(S)
            /\ Len(g) = Len(fst) + (IF postings = <<>> THEN 0 ELSE 1) /\ Len(fst) \in Nat
        BY <2>2, <4>1, FlushedLength
      <4>3. i \in Nat BY <1>2, <2>2
      <4> QED BY <2>2, <3>2, <4>1, <4>2, <4>3
    <3>10. Edges' = Edges BY <3>4 DEF Edges
    <3>11. i' \in 1..Len(keys') + 1 /\ Len(f) + 1 <= i' - 1
      BY <1>2, <2>1, <2>2, <3>3, <3>4, <3>9
    <3>12. levels' = FreshLevels' /\ counts' = NoCounts' BY <2>2, <3>3 DEF FreshLevels, NoCounts
    <3> QED BY <3>3, <3>7, <3>8, <3>9, <3>10, <3>11, <3>12 DEF Bounded
  <2> QED BY <2>3, <2>4
<1>6. CASE WriteIndex /\ PostingsDone
  <2>1. pc = "postings" /\ UNCHANGED <<build, i, levels, counts>> BY <1>6 DEF PostingsDone
  <2>2. /\ i \in 1..Len(keys) + 1 /\ levels = FreshLevels /\ counts = NoCounts
        /\ (\E S : fst \in Seq(S))
        /\ Len(fst) + (IF postings = <<>> THEN 0 ELSE 1) <= i - 1
    BY <2>1 DEF Bounded
  <2>3. CASE pc' = "refused" BY <1>3, <2>3
  <2>4. CASE pc' # "refused"
    <3>1. PICK f : f = Flushed(postings) OBVIOUS
    <3>2. fst' = f /\ postings' = <<>> BY <1>6, <2>4, <3>1 DEF PostingsDone
    <3>3. /\ \E S : f \in Seq(S)
          /\ Len(f) = Len(fst) + (IF postings = <<>> THEN 0 ELSE 1) /\ Len(fst) \in Nat
      BY <2>2, <3>1, FlushedLength
    <3>4. keys' = keys /\ i' = i BY <2>1 DEF build
    <3>5. ToSet(postings') = {} /\ <<>> \in Seq(AnyEdge) BY <3>2 DEF ToSet
    <3>6. i \in Nat BY <1>2, <2>2
    <3>7. Len(f) + 0 <= i - 1 BY <2>2, <3>3, <3>6
    <3>8. levels' = FreshLevels' /\ counts' = NoCounts' BY <2>1, <2>2 DEF FreshLevels, NoCounts
    <3> QED BY <2>2, <3>2, <3>3, <3>4, <3>5, <3>7, <3>8 DEF Bounded
  <2> QED BY <2>3, <2>4
<1>7. CASE UNCHANGED vars
  <2>1. /\ keys' = keys /\ pc' = pc /\ i' = i /\ levels' = levels /\ counts' = counts
        /\ postings' = postings /\ fst' = fst
    BY <1>7 DEF vars, build
  <2> QED BY <2>1 DEF Bounded, Edges, FreshLevels, NoCounts
<1>8. CASE WriteIndex /\ ~(CountryHotDone \/ PostingEdge \/ PostingsDone)
  <2>1. CASE Done BY <1>7, <2>1 DEF Done
  <2>2. CASE ~Done
    <3>1. Start \/ HotPass \/ HotDone \/ CountryHotPass BY <1>8, <2>2 DEF WriteIndex, Next
    <3>2. pc' \notin {"postings", "done"}
      BY <3>1 DEF Start, HotPass, HotDone, CountryHotPass, HotEdge
    <3> QED BY <1>3, <3>2
  <2> QED BY <2>1, <2>2
<1>9. CASE AddRecord \/ AddAlt
  <2>1. stage # "index" /\ pc' = pc
    BY <1>9 DEF AddRecord, AddAlt, ReadingRow, ReadingAlt, writing
  <2>2. pc' = "start" BY <2>1 DEF Indexed, Gathered
  <2> QED BY <1>3, <2>2
<1>10. CASE ~WriteIndex /\ ~AddRecord /\ ~AddAlt
  <2>1. UNCHANGED vars
    BY <1>10 DEF BuildNext, FailRow, SkipRow, RecordsDone, FailAlt, SkipAlt, AltsDone, Failed, buildVars
  <2> QED BY <1>7, <2>1
<1> QED BY <1>4, <1>5, <1>6, <1>8, <1>9, <1>10

\* The third pass is bounded in every build.
LEMMA AlwaysBounded == BuildSpec => []Bounded
<1>1. BuildInit => Bounded BY DEF BuildInit, Init, Bounded
<1>2. Indexed /\ Bounded /\ [BuildNext]_buildVars => Bounded' BY NextBounded
<1> QED BY <1>1, <1>2, AlwaysIndexed, PTL DEF BuildSpec

\* The list of a level has at most K entries, and no level counts more names than there
\* are edges.
LEMMA LevelsTyped ==
  ASSUME Sortable, NEW byCountry, HotInv(byCountry), ListInv(byCountry), NEW L \in Levels
  PROVE  Len(levels[L].e) <= K /\ counts[L] \in 0..Len(keys)
<1>1. PICK n : n = i - 1 OBVIOUS
<1>2. Len(keys) \in Nat /\ n \in 0..Len(keys) /\ K \in Nat
  BY <1>1, KAssumption DEF HotInv, Sortable
<1>3. Len(levels[L].e) <= K
  <2>1. PICK t : t = levels[L] OBVIOUS
  <2>2. ListAt(byCountry, n, L, t) BY <1>1, <2>1 DEF ListInv
  <2>3. CASE t = NewTopK
    <3>1. Len(t.e) = 0 BY <2>3 DEF NewTopK
    <3> QED BY <1>2, <2>1, <3>1
  <2>4. ASSUME NEW g, NEW m, IsTopK(t, g, m) PROVE Len(t.e) <= K
    <3>1. m \in 0..K /\ t.e \in [1..m -> Cand] BY <2>4 DEF IsTopK, Lists
    <3>2. Len(t.e) = m
      <4>1. m \in Nat BY <1>2, <3>1
      <4> QED BY <3>1, <4>1, AsSequence
    <3> QED BY <1>2, <3>1, <3>2
  <2> QED BY <2>1, <2>2, <2>3, <2>4 DEF ListAt
<1>4. counts[L] \in 0..Len(keys)
  <2>1. counts[L] = IF n > 0 /\ L <= Len(keys[n].name)
                    THEN NamesCount(byCountry, n, L, n) ELSE 0
    BY <1>1 DEF HotInv, HotAt
  <2>2. NamesCount(byCountry, n, L, n) \in 0..n
    <3> DEFINE D == {k \in 1..n : Shares(byCountry, n, k, L)}
               W == NamesWith(byCountry, n, L, n)
               f == [j \in D |-> keys[j].name]
    <3>1. f \in Surjection(D, W) BY DEF NamesWith, Surjection
    <3>2. D \in SUBSET (1..n) OBVIOUS
    <3>3. IsFiniteSet(1..n) /\ Cardinality(1..n) = n
      <4>1. PICK j \in Nat : j = n BY <1>2
      <4>2. \A a, b \in Int : /\ IsFiniteSet(a..b)
                              /\ Cardinality(a..b) = IF a > b THEN 0 ELSE b - a + 1
        BY FS_Interval
      <4>3. IsFiniteSet(1..j) /\ Cardinality(1..j) = j BY <4>2
      <4> QED BY <4>1, <4>3
    <3> HIDE DEF D, f, W
    <3>4. IsFiniteSet(D) /\ Cardinality(D) <= n BY <3>2, <3>3, FS_Subset
    <3>5. IsFiniteSet(W) /\ Cardinality(W) <= Cardinality(D) BY <3>1, <3>4, FS_Surjection
    <3>6. Cardinality(W) \in Nat /\ Cardinality(D) \in Nat BY <3>4, <3>5, FS_CardinalityType
    <3>7. Cardinality(W) \in 0..n BY <1>2, <3>4, <3>5, <3>6
    <3> QED BY <3>7 DEF NamesCount, W
  <2> QED BY <1>2, <2>1, <2>2
<1> QED BY <1>3, <1>4

-----------------------------------------------------------------------------
\* The names a line of alternate names and the line of a place give, with their classes.
AltName(a) == <<Fold[a.name], ClassOf(a)>>
OwnNames(n) == {<<Fold[dump[n].name], 0>>, <<Fold[dump[n].ascii], 0>>}

\* The line of alternate names is about the place at line n.
GivenTo(n, a) == Usable(a) /\ IsPlaceOf(n, a.id)

\* x is a name of the place at line n when N alternate names have been read.
NamedSo(n, N, x) ==
  x \in OwnNames(n) \/ \E k \in 1..N : GivenTo(n, alts[k]) /\ x = AltName(alts[k])
CanSearch(x) == x[1] # <<>> /\ Len(x[1]) <= MaxKeyLen

\* e is the edge of the place at line n, of ordinal o, by the name x; by one it has.
EdgeBy(e, o, x) == CanSearch(x) /\ e = [name |-> x[1], ord |-> o, class |-> x[2]]
EdgeOf(e, n, N) == \E x : NamedSo(n, N, x) /\ EdgeBy(e, OrdinalOf(n), x)

\* How many alternate names have been read.
AltsRead ==
  IF stage = "records" THEN 0 ELSE IF stage = "altnames" THEN line ELSE Len(alts)

\* The edges are those of the places read, by the names read.
EdgesLinked == \A e : e \in Edges <=> \E n \in Through : EdgeOf(e, n, AltsRead)

\* The record of ordinal o has the country and the prominence of the place r.
RecordOf(r, o) ==
  /\ o \in DOMAIN recCountry /\ o \in DOMAIN prominence
  /\ recCountry[o] + 1 \in 1..Len(countries) /\ countries[recCountry[o] + 1] = r.country
  /\ prominence[o] = ProminenceOf[<<r.population, r.feature>>]
RecordsLinked == \A n \in Through : RecordOf(dump[n], OrdinalOf(n))

\* An id stands for the last place read that has it.
LastSoFar(n) == \A m \in Through : m > n => dump[m].id # dump[n].id
IdsLinked ==
  /\ \A x : x \in DOMAIN idToOrd <=> \E n \in Through : dump[n].id = x
  /\ \A n \in Through : LastSoFar(n) => idToOrd[dump[n].id] = OrdinalOf(n)

\* What was collected is what the lines read say.
Linked ==
  /\ EdgesLinked /\ RecordsLinked /\ IdsLinked
  /\ stage = "altnames" => line <= Len(alts)

\* Two places have two ordinals.
LEMMA OrdinalsDiffer ==
  ASSUME Typed, NEW m \in Places, NEW n \in Places, m < n
  PROVE  OrdinalOf(m) # OrdinalOf(n)
<1> DEFINE A == {k \in Places : k < m}
           B == {k \in Places : k < n}
<1>1. IsFiniteSet(Places) /\ \A k \in Places : k \in Nat
  <2>1. \A k \in Places : k \in 1..Len(dump) BY PlacesFinite
  <2> QED BY <2>1, PlacesFinite DEF Typed
<1>2. A \in SUBSET Places /\ B \in SUBSET Places OBVIOUS
<1>3. A \cup {m} \subseteq B BY <1>1
<1>4. m \notin A BY <1>1
<1>5. OrdinalOf(m) = Cardinality(A) /\ OrdinalOf(n) = Cardinality(B) BY DEF OrdinalOf
<1> HIDE DEF A, B
<1>6. IsFiniteSet(A) /\ IsFiniteSet(B) BY <1>1, <1>2, FS_Subset
<1>7. Cardinality(A \cup {m}) = Cardinality(A) + 1 BY <1>4, <1>6, FS_AddElement
<1>8. Cardinality(A \cup {m}) <= Cardinality(B) BY <1>3, <1>6, FS_Subset
<1>9. Cardinality(A) \in Nat /\ Cardinality(B) \in Nat BY <1>6, FS_CardinalityType
<1> QED BY <1>5, <1>7, <1>8, <1>9

\* As OrdinalsDiffer, whichever line comes first.
LEMMA OrdinalsTell ==
  ASSUME Typed, NEW m \in Places, NEW n \in Places, OrdinalOf(m) = OrdinalOf(n)
  PROVE  m = n
<1>1. m \in Int /\ n \in Int
  <2>1. \A k \in Places : k \in 1..Len(dump) BY PlacesFinite
  <2> QED BY <2>1
<1> QED BY <1>1, OrdinalsDiffer

\* The elements of a sequence of two parts.
LEMMA JoinedSet ==
  ASSUME NEW S, NEW s \in Seq(S), NEW t \in Seq(S)
  PROVE  \A e : e \in ToSet(s \o t) <=> e \in ToSet(s) \/ e \in ToSet(t)
<1>1. PICK a \in Nat, b \in Nat : a = Len(s) /\ b = Len(t) OBVIOUS
<1>2. /\ DOMAIN s = 1..a /\ DOMAIN t = 1..b /\ DOMAIN (s \o t) = 1..(a + b)
      /\ \A k \in 1..a : (s \o t)[k] = s[k]
      /\ \A k \in 1..b : (s \o t)[a + k] = t[k]
  BY <1>1, Joined
<1>3. PICK u : u = s \o t OBVIOUS
<1>4. ASSUME NEW k \in 1..(a + b) PROVE u[k] \in ToSet(s) \/ u[k] \in ToSet(t)
  <2>1. CASE k \in 1..a BY <1>2, <1>3, <2>1 DEF ToSet
  <2>2. CASE k \notin 1..a
    <3>1. k - a \in 1..b /\ k = a + (k - a) BY <2>2
    <3>2. u[k] = t[k - a] BY <1>2, <1>3, <3>1
    <3> QED BY <1>2, <3>1, <3>2 DEF ToSet
  <2> QED BY <2>1, <2>2
<1>5. ASSUME NEW k \in 1..a PROVE s[k] \in ToSet(u)
  <2>1. k \in 1..(a + b) /\ u[k] = s[k] BY <1>2, <1>3
  <2> QED BY <1>2, <1>3, <2>1 DEF ToSet
<1>6. ASSUME NEW k \in 1..b PROVE t[k] \in ToSet(u)
  <2>1. a + k \in 1..(a + b) /\ u[a + k] = t[k] BY <1>2, <1>3
  <2> QED BY <1>2, <1>3, <2>1 DEF ToSet
<1>7. ASSUME NEW e, e \in ToSet(u) PROVE e \in ToSet(s) \/ e \in ToSet(t)
  <2>1. PICK k \in 1..(a + b) : e = u[k] BY <1>2, <1>3, <1>7 DEF ToSet
  <2> QED BY <1>4, <2>1
<1>8. ASSUME NEW e, e \in ToSet(s) \/ e \in ToSet(t) PROVE e \in ToSet(u)
  <2>1. CASE e \in ToSet(s)
    <3>1. PICK k \in 1..a : e = s[k] BY <1>2, <2>1 DEF ToSet
    <3> QED BY <1>5, <3>1
  <2>2. CASE e \in ToSet(t)
    <3>1. PICK k \in 1..b : e = t[k] BY <1>2, <2>2 DEF ToSet
    <3> QED BY <1>6, <3>1
  <2> QED BY <1>8, <2>1, <2>2
<1> QED BY <1>3, <1>7, <1>8

\* A spelling becomes the edge by its folded name, unless that cannot be searched.
LEMMA KeyForEdge ==
  ASSUME NEW s \in DOMAIN Fold, NEW o, NEW c, NEW x, x = <<Fold[s], c>>
  PROVE  \A e : e \in ToSet(KeyFor(s, o, c)) <=> EdgeBy(e, o, x)
<1>1. x[1] = Fold[s] /\ x[2] = c OBVIOUS
<1>2. PICK f : f = [name |-> x[1], ord |-> o, class |-> x[2]] OBVIOUS
<1>3. \A e : EdgeBy(e, o, x) <=> CanSearch(x) /\ e = f BY <1>2 DEF EdgeBy
<1>4. Len(Fold[s]) \in Nat /\ MaxKeyLen \in Nat BY BuildAssumption
<1>5. CanSearch(x) <=> ~(Fold[s] = <<>> \/ Len(Fold[s]) > MaxKeyLen)
  BY <1>1, <1>4 DEF CanSearch
<1>6. CASE CanSearch(x)
  <2>1. KeyFor(s, o, c) = <<f>> BY <1>1, <1>2, <1>5, <1>6 DEF KeyFor
  <2>2. \A e : e \in ToSet(<<f>>) <=> e = f
    <3>1. DOMAIN <<f>> = {1} /\ <<f>>[1] = f OBVIOUS
    <3> QED BY <3>1 DEF ToSet
  <2> QED BY <1>3, <1>6, <2>1, <2>2
<1>7. CASE ~CanSearch(x)
  <2>1. KeyFor(s, o, c) = <<>> BY <1>5, <1>7 DEF KeyFor
  <2>2. ToSet(<<>>) = {}
    <3>1. DOMAIN <<>> = {} OBVIOUS
    <3> QED BY <3>1 DEF ToSet
  <2> QED BY <1>3, <1>7, <2>1, <2>2
<1> QED BY <1>6, <1>7

\* The line of a place gives the edges by its two names.
LEMMA OwnEdges ==
  ASSUME Typed, NEW n \in Places, NEW o \in Nat
  PROVE  \A e : e \in ToSet(OwnKeys(dump[n], o)) <=> \E x \in OwnNames(n) : EdgeBy(e, o, x)
<1>1. PICK r : r = dump[n] OBVIOUS
<1>2. r.name \in DOMAIN Fold /\ r.ascii \in DOMAIN Fold /\ NoName \in DOMAIN Fold
  BY <1>1, PlacesFinite, BuildAssumption DEF DumpLine
<1>3. PICK a, b : a = KeyFor(r.name, o, 0)
                  /\ b = IF r.ascii \in {NoName, r.name} THEN <<>> ELSE KeyFor(r.ascii, o, 0)
  OBVIOUS
<1>4. PICK x, y : x = <<Fold[r.name], 0>> /\ y = <<Fold[r.ascii], 0>> OBVIOUS
<1>5. a \in Seq(AnyEdge) /\ KeyFor(r.ascii, o, 0) \in Seq(AnyEdge)
  <2>1. 0 \in 0..3 OBVIOUS
  <2> QED BY <1>2, <1>3, <2>1, KeyForType
<1>6. b \in Seq(AnyEdge)
  <2>1. <<>> \in Seq(AnyEdge) OBVIOUS
  <2> QED BY <1>3, <1>5, <2>1
<1>7. \A e : e \in ToSet(a) <=> EdgeBy(e, o, x) BY <1>2, <1>3, <1>4, KeyForEdge
<1>8. \A e : e \in ToSet(a) \/ e \in ToSet(b) <=> EdgeBy(e, o, x) \/ EdgeBy(e, o, y)
  <2>1. CASE r.ascii \notin {NoName, r.name}
    <3>1. \A e : e \in ToSet(b) <=> EdgeBy(e, o, y) BY <1>2, <1>3, <1>4, <2>1, KeyForEdge
    <3> QED BY <1>7, <3>1
  <2>2. CASE r.ascii \in {NoName, r.name}
    <3>1. ToSet(b) = {}
      <4>1. b = <<>> /\ DOMAIN <<>> = {} BY <1>3, <2>2
      <4> QED BY <4>1 DEF ToSet
    <3>2. \A e : EdgeBy(e, o, y) => EdgeBy(e, o, x)
      <4>1. CASE r.ascii = r.name BY <1>4, <4>1
      <4>2. CASE r.ascii = NoName
        <5>1. y[1] = <<>> BY <1>4, <4>2, BuildAssumption
        <5> QED BY <5>1 DEF EdgeBy, CanSearch
      <4> QED BY <2>2, <4>1, <4>2
    <3> QED BY <1>7, <3>1, <3>2
  <2> QED BY <2>1, <2>2
<1> HIDE DEF AnyEdge
<1>9. OwnKeys(r, o) = a \o b BY <1>3 DEF OwnKeys
<1>10. \A e : e \in ToSet(a \o b) <=> e \in ToSet(a) \/ e \in ToSet(b)
  BY <1>5, <1>6, JoinedSet
<1>11. OwnNames(n) = {x, y} BY <1>1, <1>4 DEF OwnNames
<1> QED BY <1>1, <1>8, <1>9, <1>10, <1>11

\* What the files say does not change while they are read.
LEMMA FilesStay ==
  ASSUME UNCHANGED files
  PROVE  /\ dump' = dump /\ alts' = alts /\ Places' = Places
         /\ \A n : OrdinalOf(n)' = OrdinalOf(n)
         /\ \A n, x : IsPlaceOf(n, x)' <=> IsPlaceOf(n, x)
         /\ \A n, N, x : NamedSo(n, N, x)' <=> NamedSo(n, N, x)
         /\ \A e, n, N : EdgeOf(e, n, N)' <=> EdgeOf(e, n, N)
<1>1. dump' = dump /\ alts' = alts BY DEF files
<1>2. Places' = Places BY <1>1 DEF Places, Kept, Dead
<1>3. \A n : OrdinalOf(n)' = OrdinalOf(n) BY <1>2 DEF OrdinalOf
<1>4. \A n, x : IsPlaceOf(n, x)' <=> IsPlaceOf(n, x) BY <1>1, <1>2 DEF IsPlaceOf
<1>5. \A n, a : GivenTo(n, a)' <=> GivenTo(n, a) BY <1>4 DEF GivenTo
<1>6. \A n, N, x : NamedSo(n, N, x)' <=> NamedSo(n, N, x)
  BY <1>1, <1>5 DEF NamedSo, OwnNames
<1>7. \A e, n, N : EdgeOf(e, n, N)' <=> EdgeOf(e, n, N) BY <1>3, <1>6 DEF EdgeOf
<1> QED BY <1>1, <1>2, <1>3, <1>4, <1>6, <1>7

\* Before the files are read there is nothing to link.
LEMMA InitLinked == BuildInit => Linked
<1> SUFFICES ASSUME BuildInit PROVE Linked OBVIOUS
<1>1. keys = <<>> /\ idToOrd = <<>> /\ stage = "records" /\ line = 0 BY DEF BuildInit
<1>2. DOMAIN <<>> = {} OBVIOUS
<1>3. Through = {}
  <2>1. Typed BY InitCollected DEF Collected
  <2>2. \A n \in Places : n \in 1..Len(dump) BY <2>1, PlacesFinite
  <2> QED BY <1>1, <2>2 DEF Through
<1>4. Edges = {} BY <1>1, <1>2 DEF Edges, ToSet
<1> QED BY <1>1, <1>2, <1>3, <1>4 DEF Linked, EdgesLinked, RecordsLinked, IdsLinked

\* A step that collects nothing links the same.
LEMMA LinkedStays ==
  ASSUME Linked, UNCHANGED <<files, countries, recCountry, prominence, idToOrd>>,
         Edges' = Edges, Through' = Through,
         \A e : \A n \in Through : EdgeOf(e, n, AltsRead') <=> EdgeOf(e, n, AltsRead),
         stage' = "altnames" => line' <= Len(alts)
  PROVE  Linked'
<1>1. dump' = dump /\ alts' = alts /\ \A n : OrdinalOf(n)' = OrdinalOf(n) BY FilesStay
<1>2. EdgesLinked'
  <2>1. PICK N : N = AltsRead' OBVIOUS
  <2>2. \A e, n : EdgeOf(e, n, N)' <=> EdgeOf(e, n, N) BY FilesStay
  <2>3. \A e, n : EdgeOf(e, n, AltsRead)' <=> EdgeOf(e, n, N)'
    BY <2>1 DEF EdgeOf, NamedSo
  <2>4. \A e : e \in Edges <=> \E n \in Through : EdgeOf(e, n, AltsRead)
    BY DEF Linked, EdgesLinked
  <2>5. \A e : e \in Edges <=> \E n \in Through : EdgeOf(e, n, N) BY <2>1, <2>4
  <2> QED BY <2>2, <2>3, <2>5 DEF EdgesLinked
<1>3. RecordsLinked'
  <2>1. countries' = countries /\ recCountry' = recCountry /\ prominence' = prominence
    OBVIOUS
  <2>2. ASSUME NEW n \in Through PROVE RecordOf(dump[n], OrdinalOf(n))'
    <3>1. PICK r, o : r = dump[n] /\ o = OrdinalOf(n) OBVIOUS
    <3>2. RecordOf(r, o)
      <4>1. RecordOf(dump[n], OrdinalOf(n)) BY DEF Linked, RecordsLinked
      <4> QED BY <3>1, <4>1
    <3>3. RecordOf(r, o)' BY <2>1, <3>2 DEF RecordOf
    <3>4. dump'[n] = r /\ OrdinalOf(n)' = o BY <1>1, <3>1
    <3> QED BY <3>3, <3>4 DEF RecordOf
  <2> QED BY <2>2 DEF RecordsLinked
<1>4. IdsLinked' BY <1>1 DEF Linked, IdsLinked, LastSoFar
<1> QED BY <1>1, <1>2, <1>3, <1>4 DEF Linked

\* The record that is added gets the country and the prominence of its place, and the
\* others keep theirs.
LEMMA AddRecords ==
  ASSUME Typed, TablesOK, Linked, NEW r, r = Row, NEW e, e = Encoded(r), AddRecord,
         ~TooMany(e.country), NEW o, o = Len(recOffsets)
  PROVE  /\ RecordOf(r, o)'
         /\ \A q, p : p # o /\ RecordOf(q, p) => RecordOf(q, p)'
<1>1. /\ prominence' = Put(prominence, o, ProminenceOf[<<r.population, r.feature>>])
      /\ recCountry' = Put(recCountry, o, e.country % MaxCountries)
  BY DEF AddRecord
<1>2. Reads(e, r)' /\ Grows(countries, countries') /\ e \in Encoding BY AddTables
<1>3. e.country \in Int /\ e.country + 1 \in 1..Len(countries') /\ countries'[e.country + 1] = r.country
  BY <1>2 DEF Reads, Encoding
<1>4. TablesOK' BY AddTables
<1>5. Len(countries) \in Nat /\ Len(countries') \in Nat BY <1>4 DEF TablesOK, IsTable
<1>6. e.country % MaxCountries = e.country
  <2>1. e.country < MaxCountries BY <1>3, BuildAssumption DEF TooMany
  <2>2. e.country \in Nat BY <1>3, <1>5
  <2> QED BY <2>1, <2>2, NoWrap, BuildAssumption
<1>7. PICK v : v = ProminenceOf[<<r.population, r.feature>>] OBVIOUS
<1>8. PICK c : c = e.country OBVIOUS
<1>9. prominence' = Put(prominence, o, v) /\ recCountry' = Put(recCountry, o, c)
  BY <1>1, <1>6, <1>7, <1>8
<1>10. /\ DOMAIN prominence' = DOMAIN prominence \cup {o} /\ prominence'[o] = v
       /\ \A p \in DOMAIN prominence : p # o => prominence'[p] = prominence[p]
       /\ DOMAIN recCountry' = DOMAIN recCountry \cup {o} /\ recCountry'[o] = c
       /\ \A p \in DOMAIN recCountry : p # o => recCountry'[p] = recCountry[p]
  BY <1>9 DEF Put
<1>11. RecordOf(r, o)' BY <1>3, <1>7, <1>8, <1>10 DEF RecordOf
<1>12. ASSUME NEW q, NEW p, p # o, RecordOf(q, p) PROVE RecordOf(q, p)'
  <2>1. /\ p \in DOMAIN recCountry /\ p \in DOMAIN prominence
        /\ recCountry[p] + 1 \in 1..Len(countries) /\ countries[recCountry[p] + 1] = q.country
        /\ prominence[p] = ProminenceOf[<<q.population, q.feature>>]
    BY <1>12 DEF RecordOf
  <2>2. recCountry'[p] = recCountry[p] /\ prominence'[p] = prominence[p] BY <1>10, <1>12, <2>1
  <2>3. PICK d : d = recCountry[p] + 1 OBVIOUS
  <2>4. d \in 1..Len(countries') /\ countries'[d] = q.country
    BY <1>2, <1>5, <2>1, <2>3 DEF Grows
  <2>5. p \in DOMAIN recCountry' /\ p \in DOMAIN prominence' BY <1>10, <2>1
  <2> QED BY <2>1, <2>2, <2>3, <2>4, <2>5 DEF RecordOf
<1> QED BY <1>11, <1>12

\* Adding a record links its names, its id and its country to it.
LEMMA AddLinks ==
  ASSUME Typed, TablesOK, Packed, Gathered, Linked, AddRecord,
         ~TooMany(Encoded(Row).country)
  PROVE  Linked'
<1>0. PICK r, o, e, l : r = Row /\ o = Len(recOffsets) /\ e = Encoded(r) /\ l = line + 1
  OBVIOUS
<1>1. /\ ReadingRow /\ r.class = "P" /\ Kept(r) /\ idToOrd' = Put(idToOrd, r.id, o)
      /\ keys' = keys \o OwnKeys(r, o) /\ line' = l /\ stage' = stage /\ UNCHANGED files
  BY <1>0 DEF AddRecord
<1>2. /\ l \in Places /\ r = dump[l] /\ OrdinalOf(l) = Cardinality(Through)
      /\ {n \in Places : n <= line + 1} = Through \cup {line + 1}
  BY <1>0, <1>1, RowIsPlace
<1>3. stage = "records" /\ stage' = "records" BY <1>1 DEF ReadingRow
<1>4. o = OrdinalOf(l) /\ o \in Nat
  BY <1>0, <1>2, <1>3, RowIsPlace, <1>1 DEF Packed, Typed
<1>5. /\ dump' = dump /\ Places' = Places /\ \A n : OrdinalOf(n)' = OrdinalOf(n)
      /\ \A d, n, N : EdgeOf(d, n, N)' <=> EdgeOf(d, n, N)
  BY <1>1, FilesStay
<1>6. Through = {n \in Places : n <= line} /\ Through' = Through \cup {l}
  BY <1>0, <1>1, <1>2, <1>3, <1>5 DEF Through
<1>7. \A n \in Through : n \in Places /\ n < l /\ n # l /\ ~(n > l)
  <2>1. \A n \in Places : n \in 1..Len(dump) BY PlacesFinite
  <2>2. line \in Nat BY DEF Typed
  <2> QED BY <1>0, <1>6, <2>1, <2>2
<1>8. \A n \in Through : OrdinalOf(n) # o BY <1>2, <1>4, <1>7, OrdinalsDiffer
<1>9. EdgesLinked'
  <2>1. \A d : d \in Edges' <=> d \in Edges \/ d \in ToSet(OwnKeys(r, o))
    <3>1. keys \in Seq(AnyEdge) BY DEF Gathered, KeysOK
    <3>2. OwnKeys(r, o) \in Seq(AnyEdge) BY <1>2, <1>4, PlacesFinite, OwnKeysType
    <3> HIDE DEF AnyEdge
    <3> QED BY <1>1, <3>1, <3>2, JoinedSet DEF Edges
  <2>2. \A d : d \in ToSet(OwnKeys(r, o)) <=> EdgeOf(d, l, 0)
    <3>1. \A d : d \in ToSet(OwnKeys(r, o)) <=> \E x \in OwnNames(l) : EdgeBy(d, o, x)
      BY <1>2, <1>4, OwnEdges
    <3>2. \A x : NamedSo(l, 0, x) <=> x \in OwnNames(l) BY DEF NamedSo
    <3> QED BY <1>4, <3>1, <3>2 DEF EdgeOf
  <2>3. AltsRead = 0 /\ AltsRead' = 0 BY <1>3 DEF AltsRead
  <2>4. \A d : d \in Edges <=> \E n \in Through : EdgeOf(d, n, 0)
    BY <2>3 DEF Linked, EdgesLinked
  <2>5. \A d : d \in Edges' <=> \E n \in Through' : EdgeOf(d, n, 0)
    BY <1>6, <2>1, <2>2, <2>4
  <2>6. \A d, n : EdgeOf(d, n, AltsRead)' <=> EdgeOf(d, n, 0)
    <3>1. \A d, n : EdgeOf(d, n, 0)' <=> EdgeOf(d, n, 0) BY <1>5
    <3>2. \A d, n : EdgeOf(d, n, AltsRead)' <=> EdgeOf(d, n, 0)'
      BY <2>3 DEF EdgeOf, NamedSo
    <3> QED BY <3>1, <3>2
  <2> QED BY <2>5, <2>6 DEF EdgesLinked
<1>10. RecordsLinked'
  <2>1. RecordOf(r, o)' /\ \A q, p : p # o /\ RecordOf(q, p) => RecordOf(q, p)'
    BY <1>0, AddRecords
  <2>2. ASSUME NEW n \in Through' PROVE RecordOf(dump[n], OrdinalOf(n))'
    <3>1. PICK q, p : q = dump[n] /\ p = OrdinalOf(n) OBVIOUS
    <3>2. RecordOf(q, p)'
      <4>1. CASE n = l BY <1>2, <1>4, <2>1, <3>1, <4>1 DEF RecordOf
      <4>2. CASE n \in Through
        <5>1. RecordOf(dump[n], OrdinalOf(n)) BY <4>2 DEF Linked, RecordsLinked
        <5>2. RecordOf(q, p) BY <3>1, <5>1
        <5> QED BY <1>8, <2>1, <3>1, <4>2, <5>2
      <4> QED BY <1>6, <2>2, <4>1, <4>2
    <3>3. dump'[n] = q /\ OrdinalOf(n)' = p BY <1>5, <3>1
    <3> QED BY <3>2, <3>3 DEF RecordOf
  <2> QED BY <2>2 DEF RecordsLinked
<1>11. IdsLinked'
  <2>1. PICK x : x = r.id OBVIOUS
  <2>2. idToOrd' = Put(idToOrd, x, o) BY <1>1, <2>1
  <2>3. /\ DOMAIN idToOrd' = DOMAIN idToOrd \cup {x} /\ idToOrd'[x] = o
        /\ \A y \in DOMAIN idToOrd : y # x => idToOrd'[y] = idToOrd[y]
    BY <2>2 DEF Put
  <2>4. /\ \A y : y \in DOMAIN idToOrd <=> \E n \in Through : dump[n].id = y
        /\ \A n \in Through : LastSoFar(n) => idToOrd[dump[n].id] = OrdinalOf(n)
    BY DEF Linked, IdsLinked
  <2>5. \A y : y \in DOMAIN idToOrd' <=> \E n \in Through' : dump[n].id = y
    BY <1>2, <1>6, <2>1, <2>3, <2>4
  <2>6. ASSUME NEW n \in Through', LastSoFar(n)' PROVE idToOrd'[dump[n].id] = OrdinalOf(n)
    <3>1. CASE n = l BY <1>2, <1>4, <2>1, <2>3, <3>1
    <3>2. CASE n \in Through
      <4>1. \A m \in Through' : m > n => dump[m].id # dump[n].id
        BY <1>5, <2>6 DEF LastSoFar
      <4>2. l > n
        <5>1. n < l BY <1>7, <3>2
        <5> QED BY <5>1
      <4>3. dump[n].id # x BY <1>2, <1>6, <2>1, <4>1, <4>2
      <4>4. LastSoFar(n) BY <1>6, <4>1 DEF LastSoFar
      <4> QED BY <2>3, <2>4, <3>2, <4>3, <4>4
    <3> QED BY <1>6, <2>6, <3>1, <3>2
  <2> QED BY <1>5, <2>5, <2>6 DEF IdsLinked
<1> QED BY <1>3, <1>9, <1>10, <1>11 DEF Linked

\* Of the places with an id one comes last, and only one.
LEMMA LastPlace ==
  ASSUME Typed, NEW n \in Places, NEW x, dump[n].id = x
  PROVE  \E l \in Places : IsPlaceOf(l, x) /\ \A m \in Places : IsPlaceOf(m, x) => m = l
<1> DEFINE S == {m \in Places : dump[m].id = x}
<1>1. \A m \in Places : m \in Int
  <2>1. \A m \in Places : m \in 1..Len(dump) BY PlacesFinite
  <2> QED BY <2>1
<1>2. S \in SUBSET Places /\ n \in S /\ \A m : m \in S <=> m \in Places /\ dump[m].id = x
  OBVIOUS
<1> HIDE DEF S
<1>3. IsFiniteSet(S) BY <1>2, PlacesFinite, FS_Subset
<1>4. Max(S) \in S /\ \A m \in S : m <= Max(S) BY <1>1, <1>2, <1>3, MaxIsGreatest
<1>5. PICK l : l = Max(S) OBVIOUS
<1>6. l \in Places /\ dump[l].id = x BY <1>2, <1>4, <1>5
<1>7. \A m \in Places : m > l => dump[m].id # x BY <1>1, <1>2, <1>4, <1>5, <1>6
<1>8. IsPlaceOf(l, x) BY <1>6, <1>7 DEF IsPlaceOf
<1>9. ASSUME NEW m \in Places, IsPlaceOf(m, x) PROVE m = l
  <2>1. dump[m].id = x /\ (l > m => dump[l].id # x) BY <1>6, <1>9 DEF IsPlaceOf
  <2>2. ~(l > m) /\ ~(m > l) BY <1>6, <1>7, <2>1
  <2> QED BY <1>1, <1>6, <2>2
<1> QED BY <1>6, <1>8, <1>9

\* Another line of alternate names gives its name to its place, if it is of use.
LEMMA MoreNamed ==
  ASSUME NEW n, NEW N \in Nat, NEW a, a = alts[N + 1]
  PROVE  \A x : NamedSo(n, N + 1, x) <=> NamedSo(n, N, x) \/ (GivenTo(n, a) /\ x = AltName(a))
<1>1. \A k : k \in 1..N + 1 <=> k \in 1..N \/ k = N + 1 OBVIOUS
<1>2. ASSUME NEW x
      PROVE  (\E k \in 1..N + 1 : GivenTo(n, alts[k]) /\ x = AltName(alts[k]))
               <=> \/ \E k \in 1..N : GivenTo(n, alts[k]) /\ x = AltName(alts[k])
                   \/ GivenTo(n, a) /\ x = AltName(a)
  BY <1>1
<1> QED BY <1>2 DEF NamedSo

\* An alternate name becomes an edge of the place its id stands for.
LEMMA AltLinks ==
  ASSUME Typed, Gathered, Linked, AddAlt
  PROVE  Linked'
<1>0. PICK a, o, c : a = Alt /\ o = idToOrd[a.id] /\ c = ClassOf(a) OBVIOUS
<1>1. /\ ReadingAlt /\ Usable(a) /\ Wanted(a) /\ keys' = keys \o KeyFor(a.name, o, c)
      /\ line' = line + 1 /\ stage' = stage
      /\ UNCHANGED files /\ UNCHANGED <<collected, recCountry, prominence>>
  BY <1>0 DEF AddAlt
<1>2. /\ stage = "altnames" /\ stage' = "altnames" /\ line < Len(alts) /\ line \in Nat
      /\ alts \in Seq(AltLine)
  BY <1>1 DEF ReadingAlt, Typed
<1>3. a = alts[line + 1] /\ a.name \in DOMAIN Fold
  <2>1. line + 1 \in 1..Len(alts) BY <1>2
  <2>2. alts[line + 1] \in AltLine BY <1>2, <2>1
  <2> QED BY <1>0, <2>2 DEF Alt, AltLine
<1>4. Through = Places /\ AltsRead = line BY <1>2 DEF Through, AltsRead
<1>5. /\ dump' = dump /\ alts' = alts /\ Places' = Places
      /\ \A n : OrdinalOf(n)' = OrdinalOf(n)
      /\ \A e, n, N : EdgeOf(e, n, N)' <=> EdgeOf(e, n, N)
  BY <1>1, FilesStay
<1>6. Through' = Places /\ AltsRead' = line + 1 BY <1>1, <1>2, <1>5 DEF Through, AltsRead
<1>7. PICK l \in Places : IsPlaceOf(l, a.id) /\ \A m \in Places : IsPlaceOf(m, a.id) => m = l
  <2>1. a.id \in DOMAIN idToOrd BY <1>1 DEF Wanted
  <2>2. PICK n \in Places : dump[n].id = a.id BY <1>4, <2>1 DEF Linked, IdsLinked
  <2> QED BY <2>2, LastPlace
<1>8. o = OrdinalOf(l) BY <1>0, <1>4, <1>7 DEF Linked, IdsLinked, LastSoFar, IsPlaceOf
<1>9. \A n \in Places : GivenTo(n, a) <=> n = l BY <1>1, <1>7 DEF GivenTo
<1>10. EdgesLinked'
  <2>1. \A e : e \in Edges' <=> e \in Edges \/ EdgeBy(e, o, AltName(a))
    <3>1. keys \in Seq(AnyEdge) BY DEF Gathered, KeysOK
    <3>2. KeyFor(a.name, o, c) \in Seq(AnyEdge)
      <4>1. c \in 0..3 BY <1>0 DEF ClassOf
      <4>2. o \in Nat BY <1>0, <1>1, <1>2 DEF Wanted, Gathered, RecordsOK
      <4> QED BY <1>3, <4>1, <4>2, KeyForType
    <3>3. \A e : e \in ToSet(KeyFor(a.name, o, c)) <=> EdgeBy(e, o, AltName(a))
      BY <1>0, <1>3, KeyForEdge DEF AltName
    <3> HIDE DEF AnyEdge
    <3>4. \A e : e \in ToSet(keys \o KeyFor(a.name, o, c))
                   <=> e \in ToSet(keys) \/ e \in ToSet(KeyFor(a.name, o, c))
      BY <3>1, <3>2, JoinedSet
    <3> QED BY <1>1, <3>3, <3>4 DEF Edges
  <2>2. ASSUME NEW n \in Places, NEW e
        PROVE  EdgeOf(e, n, line + 1)
                 <=> EdgeOf(e, n, line) \/ (n = l /\ EdgeBy(e, o, AltName(a)))
    <3>1. \A x : NamedSo(n, line + 1, x)
                   <=> NamedSo(n, line, x) \/ (n = l /\ x = AltName(a))
      BY <1>2, <1>3, <1>9, MoreNamed
    <3> QED BY <1>8, <3>1 DEF EdgeOf
  <2>3. \A e : e \in Edges <=> \E n \in Places : EdgeOf(e, n, line)
    BY <1>4 DEF Linked, EdgesLinked
  <2>4. \A e : e \in Edges' <=> \E n \in Places : EdgeOf(e, n, line + 1)
    BY <2>1, <2>2, <2>3
  <2>5. PICK N : N = line + 1 OBVIOUS
  <2>6. \A e, n : EdgeOf(e, n, AltsRead)' <=> EdgeOf(e, n, N)'
    BY <1>6, <2>5 DEF EdgeOf, NamedSo
  <2> QED BY <1>5, <1>6, <2>4, <2>5, <2>6 DEF EdgesLinked
<1>11. /\ countries' = countries /\ recCountry' = recCountry /\ prominence' = prominence
       /\ idToOrd' = idToOrd
  BY <1>1 DEF collected, tables
<1>12. RecordsLinked'
  <2>1. ASSUME NEW n \in Places PROVE RecordOf(dump[n], OrdinalOf(n))'
    <3>1. PICK r, p : r = dump[n] /\ p = OrdinalOf(n) OBVIOUS
    <3>2. RecordOf(r, p)
      <4>1. RecordOf(dump[n], OrdinalOf(n)) BY <1>4 DEF Linked, RecordsLinked
      <4> QED BY <3>1, <4>1
    <3>3. RecordOf(r, p)' BY <1>11, <3>2 DEF RecordOf
    <3>4. dump'[n] = r /\ OrdinalOf(n)' = p BY <1>5, <3>1
    <3> QED BY <3>3, <3>4 DEF RecordOf
  <2> QED BY <1>6, <2>1 DEF RecordsLinked
<1>13. IdsLinked' BY <1>4, <1>5, <1>6, <1>11 DEF Linked, IdsLinked, LastSoFar
<1>14. line' <= Len(alts') BY <1>1, <1>2, <1>5
<1> QED BY <1>10, <1>12, <1>13, <1>14 DEF Linked

\* A line of alternate names that is passed over gives no place a name.
LEMMA SkipAltLinks ==
  ASSUME Typed, Linked, SkipAlt
  PROVE  Linked'
<1>0. PICK a : a = Alt OBVIOUS
<1>1. /\ ReadingAlt /\ ~(Usable(a) /\ Wanted(a)) /\ line' = line + 1 /\ stage' = stage
      /\ UNCHANGED files /\ UNCHANGED <<collected, vars>>
  BY <1>0 DEF SkipAlt
<1>2. /\ stage = "altnames" /\ stage' = "altnames" /\ line < Len(alts) /\ line \in Nat
      /\ Len(alts) \in Nat
  BY <1>1 DEF ReadingAlt, Typed
<1>3. a = alts[line + 1] BY <1>0 DEF Alt
<1>4. Through = Places /\ AltsRead = line BY <1>2 DEF Through, AltsRead
<1>5. dump' = dump /\ alts' = alts /\ Places' = Places BY <1>1, FilesStay
<1>6. Through' = Places /\ AltsRead' = line + 1 BY <1>1, <1>2, <1>5 DEF Through, AltsRead
<1>7. ASSUME NEW n \in Places PROVE ~GivenTo(n, a)
  <2>1. SUFFICES ASSUME GivenTo(n, a) PROVE FALSE OBVIOUS
  <2>2. Usable(a) /\ dump[n].id = a.id BY <2>1 DEF GivenTo, IsPlaceOf
  <2>3. a.id \in DOMAIN idToOrd BY <1>4, <2>2 DEF Linked, IdsLinked
  <2> QED BY <1>1, <2>2, <2>3 DEF Wanted
<1>8. \A e : \A n \in Through : EdgeOf(e, n, AltsRead') <=> EdgeOf(e, n, AltsRead)
  <2> SUFFICES ASSUME NEW e, NEW n \in Places
               PROVE  EdgeOf(e, n, line + 1) <=> EdgeOf(e, n, line)
    BY <1>4, <1>6
  <2>1. \A x : NamedSo(n, line + 1, x) <=> NamedSo(n, line, x)
    BY <1>2, <1>3, <1>7, MoreNamed
  <2> QED BY <2>1 DEF EdgeOf
<1>9. /\ UNCHANGED <<files, countries, recCountry, prominence, idToOrd>> /\ Edges' = Edges
  BY <1>1 DEF collected, tables, vars, build, Edges
<1>10. line' <= Len(alts) BY <1>1, <1>2
<1>11. Through' = Through BY <1>4, <1>6
<1> QED BY <1>8, <1>9, <1>10, <1>11, LinkedStays

\* Nor does the end of a file, or a row that is passed over.
LEMMA QuietLinks ==
  ASSUME Typed, TablesOK, Linked, SkipRow \/ RecordsDone \/ AltsDone \/ UNCHANGED buildVars
  PROVE  Linked'
<1>1. /\ UNCHANGED <<files, countries, recCountry, prominence, idToOrd>> /\ keys' = keys
  BY DEF SkipRow, RecordsDone, AltsDone, buildVars, collected, tables, vars, build
<1>2. Edges' = Edges BY <1>1 DEF Edges
<1>3. /\ dump' = dump /\ alts' = alts /\ Places' = Places BY <1>1, FilesStay
<1>4. /\ \A n \in Places : n \in 1..Len(dump) /\ n \in Int
      /\ line \in Nat /\ Len(dump) \in Nat /\ Len(alts) \in Nat
  <2>1. \A n \in Places : n \in 1..Len(dump) BY PlacesFinite
  <2> QED BY <2>1 DEF Typed
<1>5. CASE SkipRow
  <2>1. /\ stage = "records" /\ stage' = stage /\ line' = line + 1
        /\ (Row.class # "P" \/ ~Kept(Row))
    BY <1>5 DEF SkipRow, ReadingRow
  <2>2. line + 1 \notin Places BY <2>1 DEF Row, Places
  <2>3. Through' = Through BY <1>3, <1>4, <2>1, <2>2 DEF Through
  <2>4. AltsRead' = AltsRead BY <2>1 DEF AltsRead
  <2> QED BY <1>1, <1>2, <2>1, <2>3, <2>4, LinkedStays
<1>6. CASE RecordsDone
  <2>1. stage = "records" /\ stage' = "altnames" /\ line = Len(dump) /\ line' = 0
    BY <1>6 DEF RecordsDone
  <2>2. Through' = Through BY <1>3, <1>4, <2>1 DEF Through
  <2>3. AltsRead' = AltsRead BY <2>1 DEF AltsRead
  <2>4. line' <= Len(alts) BY <1>4, <2>1
  <2> QED BY <1>1, <1>2, <2>2, <2>3, <2>4, LinkedStays
<1>7. CASE AltsDone
  <2>1. stage = "altnames" /\ stage' = "index" /\ line = Len(alts) BY <1>7 DEF AltsDone
  <2>2. Through' = Through BY <1>3, <2>1 DEF Through
  <2>3. AltsRead' = AltsRead BY <1>3, <2>1 DEF AltsRead
  <2> QED BY <1>1, <1>2, <2>1, <2>2, <2>3, LinkedStays
<1>8. CASE UNCHANGED buildVars
  <2>1. stage' = stage /\ line' = line BY <1>8 DEF buildVars
  <2>2. Through' = Through BY <1>3, <2>1 DEF Through
  <2>3. AltsRead' = AltsRead BY <1>3, <2>1 DEF AltsRead
  <2>4. stage' = "altnames" => line' <= Len(alts) BY <2>1 DEF Linked
  <2> QED BY <1>1, <1>2, <2>2, <2>3, <2>4, LinkedStays
<1> QED BY <1>5, <1>6, <1>7, <1>8

\* Nor the writing of the index, whose sorts leave the edges what they are.
LEMMA WriteLinks ==
  ASSUME Typed, Indexed, Linked, WriteIndex
  PROVE  Linked'
<1>1. stage = "index" /\ Next /\ UNCHANGED <<files, stage, line, collected>>
  BY DEF WriteIndex
<1>2. recCountry' = recCountry /\ prominence' = prominence
  BY <1>1 DEF Next, Start, HotPass, CountryHotPass, HotEdge, HotDone, CountryHotDone,
              PostingEdge, PostingsDone, Done, build, vars
<1>3. Edges' = Edges
  <2>1. RecordsOK /\ KeysOK /\ Written BY DEF Indexed, Gathered
  <2>2. keys' = keys \/ \E b \in BOOLEAN : keys' = SortedKeys(b)
    <3>1. HotDone => keys' = SortedKeys(TRUE) \/ keys' = keys BY DEF HotDone, build
    <3>2. Start => keys' = SortedKeys(FALSE) BY DEF Start
    <3>3. HotPass \/ CountryHotPass \/ CountryHotDone \/ PostingEdge \/ PostingsDone \/ Done
            => keys' = keys
      BY DEF HotPass, CountryHotPass, HotEdge, CountryHotDone, PostingEdge, PostingsDone,
             Done, build, vars
    <3> QED BY <1>1, <3>1, <3>2, <3>3 DEF Next
  <2>3. ASSUME NEW b \in BOOLEAN, keys' = SortedKeys(b) PROVE ToSet(keys') = ToSet(keys)
    BY <1>2, <2>1, <2>3, SortingOrders
  <2> QED BY <2>2, <2>3 DEF Edges
<1>4. dump' = dump /\ alts' = alts /\ Places' = Places BY <1>1, FilesStay
<1>5. Through' = Through BY <1>1, <1>4 DEF Through
<1>6. AltsRead' = AltsRead BY <1>1, <1>4 DEF AltsRead
<1>7. UNCHANGED <<files, countries, recCountry, prominence, idToOrd>>
  BY <1>1, <1>2 DEF collected, tables
<1>8. stage' # "altnames" BY <1>1
<1> QED BY <1>3, <1>5, <1>6, <1>7, <1>8, LinkedStays

\* A build that has not failed links.
LEMMA NextLinked ==
  ASSUME Collected, Indexed, stage # "failed" => Linked, [BuildNext]_buildVars
  PROVE  stage' # "failed" => Linked'
<1> SUFFICES ASSUME stage' # "failed" PROVE Linked' OBVIOUS
<1>0. Typed /\ TablesOK /\ (stage # "failed" => Packed) /\ Gathered
  BY DEF Collected, Indexed
<1>1. stage # "failed"
  BY DEF BuildNext, FailRow, SkipRow, AddRecord, RecordsDone, FailAlt, SkipAlt, AddAlt, AltsDone,
         WriteIndex, Failed, buildVars, ReadingRow, ReadingAlt
<1>2. CASE FailRow \/ FailAlt \/ Failed BY <1>1, <1>2 DEF FailRow, FailAlt, Failed
<1>3. CASE SkipRow \/ RecordsDone \/ AltsDone \/ UNCHANGED buildVars
  BY <1>0, <1>1, <1>3, QuietLinks
<1>4. CASE AddRecord
  <2>1. ~TooMany(Encoded(Row).country) BY <1>4 DEF AddRecord
  <2> QED BY <1>0, <1>1, <1>4, <2>1, AddLinks
<1>5. CASE SkipAlt BY <1>0, <1>1, <1>5, SkipAltLinks
<1>6. CASE AddAlt BY <1>0, <1>1, <1>6, AltLinks
<1>7. CASE WriteIndex BY <1>0, <1>1, <1>7, WriteLinks
<1> QED BY <1>2, <1>3, <1>4, <1>5, <1>6, <1>7 DEF BuildNext

\* The invariant, as a property of every build.
LEMMA AlwaysLinked == BuildSpec => [](stage # "failed" => Linked)
<1>1. BuildInit => (stage # "failed" => Linked) BY InitLinked
<1>2. Collected /\ Indexed /\ (stage # "failed" => Linked) /\ [BuildNext]_buildVars
        => (stage # "failed" => Linked)'
  BY NextLinked
<1> QED BY <1>1, <1>2, AlwaysCollected, AlwaysIndexed, PTL DEF BuildSpec

\* A record of the list stands there with its best score.
LEMMA ListedOnce ==
  ASSUME NEW k, NEW list, RightList(k, list), NEW E, E = EdgesAt(k[1], k[2])
  PROVE  /\ \A j \in DOMAIN list : \E e \in E : e.ord = list[j].ord
         /\ \A e \in E : \E j \in DOMAIN list : list[j].ord = e.ord
         /\ \A j \in DOMAIN list :
              list[j].score
                = Fixed(Max({EdgeScore(e) : e \in {d \in E : d.ord = list[j].ord}}))
<1> DEFINE Best(o) == Fixed(Max({EdgeScore(e) : e \in {d \in E : d.ord = o}}))
<1>1. /\ Listed(list) = BestScores(E)
      /\ \A j, m \in DOMAIN list : list[j].ord = list[m].ord => j = m
  BY DEF RightList
<1>2. Listed(list) = [o \in {list[j].ord : j \in DOMAIN list} |->
                        list[CHOOSE j \in DOMAIN list : list[j].ord = o].score]
  BY DEF Listed
<1>3. BestScores(E) = [o \in {e.ord : e \in E} |-> Best(o)] BY DEF BestScores
<1> HIDE DEF Best
<1>4. {list[j].ord : j \in DOMAIN list} = {e.ord : e \in E} BY <1>1, <1>2, <1>3
<1>5. ASSUME NEW j \in DOMAIN list PROVE list[j].score = Best(list[j].ord)
  <2>1. PICK o : o = list[j].ord OBVIOUS
  <2>2. o \in {list[m].ord : m \in DOMAIN list} BY <2>1
  <2>3. (CHOOSE m \in DOMAIN list : list[m].ord = o) = j BY <1>1, <2>1
  <2>4. Listed(list)[o] = list[CHOOSE m \in DOMAIN list : list[m].ord = o].score
    BY <1>2, <2>2
  <2>5. Listed(list)[o] = list[j].score BY <2>3, <2>4
  <2>6. BestScores(E)[o] = Best(o) BY <1>3, <1>4, <2>2
  <2> QED BY <1>1, <2>1, <2>5, <2>6
<1>6. \A j \in DOMAIN list : \E e \in E : e.ord = list[j].ord BY <1>4
<1>7. \A e \in E : \E j \in DOMAIN list : list[j].ord = e.ord BY <1>4
<1> QED BY <1>5, <1>6, <1>7 DEF Best

\* In the end a place has the edges by the names it can be searched by.
LEMMA EdgesOfPlaces ==
  ASSUME Typed, Linked, stage = "index"
  PROVE  /\ Through = Places
         /\ \A e : e \in Edges <=>
              \E n \in Places : \E x \in Searchable(n) :
                 e = [name |-> x[1], ord |-> OrdinalOf(n), class |-> x[2]]
<1>1. Through = Places /\ AltsRead = Len(alts) BY DEF Through, AltsRead
<1>2. DOMAIN alts = 1..Len(alts) BY DEF Typed
<1>3. ASSUME NEW n, NEW x
      PROVE  x \in NamesOf(n) <=> NamedSo(n, Len(alts), x)
  <2>1. x \in NamesOf(n) <=>
          \/ x \in OwnNames(n)
          \/ \E m \in {k \in DOMAIN alts : Usable(alts[k]) /\ IsPlaceOf(n, alts[k].id)} :
               x = AltName(alts[m])
    BY DEF NamesOf, OwnNames, AltName
  <2> QED BY <1>2, <2>1 DEF NamedSo, GivenTo
<1>4. ASSUME NEW n, NEW x
      PROVE  x \in Searchable(n) <=> NamedSo(n, Len(alts), x) /\ CanSearch(x)
  BY <1>3 DEF Searchable, CanSearch
<1>5. ASSUME NEW n, NEW e
      PROVE  EdgeOf(e, n, Len(alts)) <=>
               \E x \in Searchable(n) :
                 e = [name |-> x[1], ord |-> OrdinalOf(n), class |-> x[2]]
  BY <1>4 DEF EdgeOf, EdgeBy
<1> QED BY <1>1, <1>5 DEF Linked, EdgesLinked

\* The best score of a record among the edges at a key is that of its place under the name.
LEMMA BestOfPlace ==
  ASSUME Typed, Linked, stage = "index", NEW n \in Places, NEW c, NEW p,
         recCountry[OrdinalOf(n)] = c
  PROVE  Fixed(Max({EdgeScore(e) : e \in {d \in EdgesAt(c, p) : d.ord = OrdinalOf(n)}}))
           = BestScore(n, p)
<1>1. PICK o, v : /\ o = OrdinalOf(n)
                  /\ v = ProminenceOf[<<dump[n].population, dump[n].feature>>]
  OBVIOUS
<1>2. prominence[o] = v
  <2>1. RecordOf(dump[n], OrdinalOf(n)) BY EdgesOfPlaces DEF Linked, RecordsLinked
  <2> QED BY <1>1, <2>1 DEF RecordOf
<1> DEFINE S == {EdgeScore(e) : e \in {d \in EdgesAt(c, p) : d.ord = o}}
           T == {v - Penalty[x[2]] : x \in {y \in Searchable(n) : y[1] = p}}
           By(x) == [name |-> x[1], ord |-> o, class |-> x[2]]
<1>3. \A x : EdgeScore(By(x)) = v - Penalty[x[2]] /\ By(x).name = x[1] /\ By(x).ord = o
  BY <1>2 DEF EdgeScore
<1>4. ASSUME NEW x \in Searchable(n), x[1] = p PROVE By(x) \in EdgesAt(c, p)
  <2>1. By(x) \in Edges BY <1>1, EdgesOfPlaces
  <2> HIDE DEF By
  <2> QED BY <1>1, <1>3, <1>4, <2>1 DEF EdgesAt
<1>5. ASSUME NEW e \in EdgesAt(c, p), e.ord = o
      PROVE  \E x \in Searchable(n) : x[1] = p /\ e = By(x)
  <2>1. e \in Edges /\ e.name = p BY DEF EdgesAt
  <2>2. PICK m \in Places : \E x \in Searchable(m) :
          e = [name |-> x[1], ord |-> OrdinalOf(m), class |-> x[2]]
    BY <2>1, EdgesOfPlaces
  <2>3. PICK x \in Searchable(m) :
          e = [name |-> x[1], ord |-> OrdinalOf(m), class |-> x[2]]
    BY <2>2
  <2>4. OrdinalOf(m) = OrdinalOf(n) BY <1>1, <1>5, <2>3
  <2>5. m = n BY <2>4, OrdinalsTell
  <2>6. x[1] = p BY <2>1, <2>3
  <2> QED BY <1>1, <2>3, <2>5, <2>6
<1> HIDE DEF By
<1>6. \A s : s \in S <=> s \in T
  <2>1. ASSUME NEW s \in S PROVE s \in T
    <3>1. PICK e \in EdgesAt(c, p) : e.ord = o /\ s = EdgeScore(e) BY <2>1
    <3>2. PICK x \in Searchable(n) : x[1] = p /\ e = By(x) BY <1>5, <3>1
    <3> QED BY <1>3, <3>1, <3>2
  <2>2. ASSUME NEW s \in T PROVE s \in S
    <3>1. PICK x \in Searchable(n) : x[1] = p /\ s = v - Penalty[x[2]] BY <2>2
    <3> QED BY <1>3, <1>4, <3>1
  <2> QED BY <2>1, <2>2
<1>7. S = T BY <1>6
<1> HIDE DEF S, T
<1>8. Fixed(Max(S)) = Fixed(Max(T)) BY <1>7
<1>9. Fixed(Max({EdgeScore(e) : e \in {d \in EdgesAt(c, p) : d.ord = OrdinalOf(n)}}))
        = Fixed(Max(S))
  BY <1>1 DEF S
<1>10. BestScore(n, p) = Fixed(Max(T)) BY <1>1 DEF BestScore, T
<1> QED BY <1>8, <1>9, <1>10

\* What a posting list says of a record is what the files say of a place, ...
LEMMA FoundIsSaid ==
  ASSUME Typed, Linked, stage = "index", NEW c, NEW p, NEW list,
         RightList(<<c, p>>, list), NEW j \in DOMAIN list
  PROVE  \E n \in Places : \E x \in Searchable(n) :
            <<countries[c + 1], p, list[j].ord, list[j].score>>
              = <<dump[n].country, x[1], OrdinalOf(n), BestScore(n, x[1])>>
<1>1. PICK k : k = <<c, p>> OBVIOUS
<1>2. k[1] = c /\ k[2] = p /\ RightList(k, list) BY <1>1
<1>3. PICK E : E = EdgesAt(c, p) OBVIOUS
<1>4. PICK e \in E : e.ord = list[j].ord BY <1>2, <1>3, ListedOnce
<1>5. e \in Edges /\ e.name = p /\ recCountry[e.ord] = c BY <1>3, <1>4 DEF EdgesAt
<1>0. PICK n \in Places : \E x \in Searchable(n) :
        e = [name |-> x[1], ord |-> OrdinalOf(n), class |-> x[2]]
  BY <1>5, EdgesOfPlaces
<1>6. PICK x \in Searchable(n) :
        e = [name |-> x[1], ord |-> OrdinalOf(n), class |-> x[2]]
  BY <1>0
<1>7. list[j].ord = OrdinalOf(n) /\ x[1] = p /\ recCountry[OrdinalOf(n)] = c
  BY <1>4, <1>5, <1>6
<1>8. list[j].score = BestScore(n, p)
  <2>1. list[j].score = Fixed(Max({EdgeScore(d) : d \in {b \in E : b.ord = list[j].ord}}))
    BY <1>2, <1>3, ListedOnce
  <2> QED BY <1>3, <1>7, <2>1, BestOfPlace
<1>9. countries[c + 1] = dump[n].country
  <2>1. RecordOf(dump[n], OrdinalOf(n)) BY EdgesOfPlaces DEF Linked, RecordsLinked
  <2> QED BY <1>7, <2>1 DEF RecordOf
<1>10. <<countries[c + 1], p, list[j].ord, list[j].score>>
         = <<dump[n].country, x[1], OrdinalOf(n), BestScore(n, x[1])>>
  BY <1>7, <1>8, <1>9
<1> QED BY <1>10

\* ... and all that they say is found.
LEMMA SaidIsFound ==
  ASSUME Typed, Linked, stage = "index", FstRight(fst), NEW n \in Places,
         NEW x \in Searchable(n)
  PROVE  \E m \in DOMAIN fst : \E j \in DOMAIN fst[m][2] :
            <<dump[n].country, x[1], OrdinalOf(n), BestScore(n, x[1])>>
              = <<countries[fst[m][1][1] + 1], fst[m][1][2], fst[m][2][j].ord,
                  fst[m][2][j].score>>
<1>1. PICK o, c, p, e : /\ o = OrdinalOf(n) /\ c = recCountry[o] /\ p = x[1]
                        /\ e = [name |-> p, ord |-> o, class |-> x[2]]
  OBVIOUS
<1>2. e \in Edges BY <1>1, EdgesOfPlaces
<1>3. e.name = p /\ e.ord = o BY <1>1
<1>4. KeyOf(e) = <<c, p>> BY <1>1, <1>3 DEF KeyOf
<1>5. PICK m \in DOMAIN fst : fst[m][1] = <<c, p>>
  <2>1. KeyOf(e) \in {fst[m][1] : m \in DOMAIN fst} BY <1>2 DEF FstRight
  <2> QED BY <1>4, <2>1
<1>6. PICK k, list : k = fst[m][1] /\ list = fst[m][2] OBVIOUS
<1>7. RightList(k, list) /\ k[1] = c /\ k[2] = p BY <1>5, <1>6 DEF FstRight
<1>8. PICK E : E = EdgesAt(c, p) OBVIOUS
<1>9. e \in E BY <1>1, <1>2, <1>3, <1>8 DEF EdgesAt
<1>10. PICK j \in DOMAIN list : list[j].ord = e.ord BY <1>7, <1>8, <1>9, ListedOnce
<1>11. list[j].score = BestScore(n, p)
  <2>1. list[j].score = Fixed(Max({EdgeScore(d) : d \in {b \in E : b.ord = list[j].ord}}))
    BY <1>7, <1>8, ListedOnce
  <2>2. list[j].ord = OrdinalOf(n) /\ recCountry[OrdinalOf(n)] = c BY <1>1, <1>3, <1>10
  <2> QED BY <1>8, <2>1, <2>2, BestOfPlace
<1>12. countries[c + 1] = dump[n].country
  <2>1. RecordOf(dump[n], OrdinalOf(n)) BY EdgesOfPlaces DEF Linked, RecordsLinked
  <2> QED BY <1>1, <2>1 DEF RecordOf
<1>13. list[j].ord = OrdinalOf(n) BY <1>1, <1>3, <1>10
<1>14. <<dump[n].country, x[1], OrdinalOf(n), BestScore(n, x[1])>>
         = <<countries[k[1] + 1], k[2], list[j].ord, list[j].score>>
  BY <1>1, <1>7, <1>11, <1>12, <1>13
<1> QED BY <1>6, <1>10, <1>14

-----------------------------------------------------------------------------
\* The two bytes of a country are bytes, ...
LEMMA TwoBytes ==
  ASSUME NEW c \in Country
  PROVE  c \in Nat /\ High(c) \in Byte /\ Low(c) \in Byte
<1>1. c \in Int /\ c >= 0 /\ c <= 65535 BY BuildAssumption, KeyAssumption
<1>2. c \div 256 \in Int /\ c \div 256 >= 0 /\ c \div 256 <= 255 BY <1>1
<1>3. c % 256 \in Int /\ c % 256 >= 0 /\ c % 256 <= 255 BY <1>1
<1> QED BY <1>1, <1>2, <1>3 DEF High, Low, Byte

\* ... and tell it.
LEMMA BytesTell ==
  ASSUME NEW c \in Nat, NEW d \in Nat, High(c) = High(d), Low(c) = Low(d)
  PROVE  c = d
<1>1. c \div 256 = d \div 256 BY DEF High
<1>2. c % 256 = d % 256 BY DEF Low
<1> QED BY <1>1, <1>2

\* What the bytes of a key are: two for the country, then the name's.
Spells(k, c, q) ==
  /\ k \in Seq(Byte) /\ Len(k) = Len(q) + 2 /\ k[1] = High(c) /\ k[2] = Low(c)
  /\ \A m \in 1..Len(q) : k[m + 2] = q[m]

\* appendCountryKey makes such bytes.
LEMMA KeyBytesAre ==
  ASSUME NEW c \in Country, NEW q \in Seq(Byte)
  PROVE  Spells(KeyBytes(c, q), c, q)
<1>0. PICK k : k = KeyBytes(c, q) OBVIOUS
<1>1. PICK a, b : a = High(c) /\ b = Low(c) OBVIOUS
<1>2. a \in Byte /\ b \in Byte BY <1>1, TwoBytes
<1>3. PICK h : h = <<a, b>> OBVIOUS
<1>4. h \in Seq(Byte) /\ Len(h) = 2 /\ h[1] = a /\ h[2] = b BY <1>2, <1>3
<1>5. PICK N \in Nat : N = Len(q) OBVIOUS
<1>6. k = h \o q BY <1>0, <1>1, <1>3 DEF KeyBytes
<1>7. /\ k \in Seq(Byte) /\ Len(k) = 2 + N
      /\ \A m \in 1..2 : k[m] = h[m]
      /\ \A m \in 1..N : k[2 + m] = q[m]
  <2>1. /\ h \o q \in Seq(Byte) /\ Len(h \o q) = Len(h) + Len(q)
        /\ \A m \in 1..Len(h) : (h \o q)[m] = h[m]
        /\ \A m \in 1..Len(q) : (h \o q)[Len(h) + m] = q[m]
    <3>1. h \in Seq(Byte) BY <1>4
    <3> QED BY <3>1, Joined
  <2>2. /\ k \in Seq(Byte) /\ Len(k) = Len(h) + Len(q)
        /\ \A m \in 1..Len(h) : k[m] = h[m]
        /\ \A m \in 1..Len(q) : k[Len(h) + m] = q[m]
    BY <1>6, <2>1
  <2> QED BY <1>4, <1>5, <2>2
<1>10. \A m \in 1..N : 2 + m = m + 2 OBVIOUS
<1>11. \A m \in 1..Len(q) : k[m + 2] = q[m] BY <1>5, <1>7, <1>10
<1>12. Len(k) = Len(q) + 2 BY <1>5, <1>7
<1>13. k[1] = High(c) /\ k[2] = Low(c) BY <1>1, <1>4, <1>7
<1>14. Spells(k, c, q) BY <1>7, <1>11, <1>12, <1>13 DEF Spells
<1> QED BY <1>0, <1>14

\* What prefixSuccessor makes of a string of bytes.
Succeeds(s, p, n) ==
  /\ n \in 1..Len(p) /\ s \in Seq(Nat) /\ Len(s) = n
  /\ \A m \in 1..n - 1 : s[m] = p[m]
  /\ s[n] = p[n] + 1
  /\ \A m \in n + 1..Len(p) : p[m] = 255

\* It raises the last byte that can be raised and cuts off those that cannot.
LEMMA SuccessorIs ==
  ASSUME NEW p \in Seq(Byte), NEW s, s = Successor(p)
  PROVE  \/ s = <<>> /\ \A m \in 1..Len(p) : p[m] = 255
         \/ s # <<>> /\ \E n \in 1..Len(p) : Succeeds(s, p, n)
<1> DEFINE S == {0} \cup {m \in DOMAIN p : p[m] < 255}
<1>1. PICK N \in Nat : N = Len(p) OBVIOUS
<1>2. DOMAIN p = 1..N /\ \A m \in 1..N : p[m] \in Nat /\ p[m] <= 255 BY <1>1 DEF Byte
<1>3. S \subseteq 0..N /\ 0 \in S BY <1>2
<1>4. \A m \in 1..N : p[m] < 255 => m \in S BY <1>2
<1>5. \A m \in S : m # 0 => m \in 1..N /\ p[m] < 255 BY <1>2
<1>6. PICK n : n = Max(S) OBVIOUS
<1>7. s = IF n = 0 THEN <<>> ELSE [SubSeq(p, 1, n) EXCEPT ![n] = @ + 1]
  BY <1>6 DEF Successor
<1> HIDE DEF S
<1>8. n \in S /\ \A m \in S : m <= n
  <2>1. IsFiniteSet(0..N) BY <1>1, FS_Interval
  <2>2. IsFiniteSet(S) BY <1>3, <2>1, FS_Subset
  <2>3. S # {} /\ S \subseteq Int BY <1>3
  <2> QED BY <1>6, <2>2, <2>3, MaxIsGreatest
<1>9. \A m \in n + 1..N : p[m] = 255
  <2> SUFFICES ASSUME NEW m \in n + 1..N PROVE p[m] = 255 OBVIOUS
  <2>1. n \in 0..N BY <1>3, <1>8
  <2>2. m \in 1..N /\ ~(m <= n) BY <2>1
  <2>3. p[m] \in Nat /\ p[m] <= 255 /\ ~(p[m] < 255) BY <1>2, <1>4, <1>8, <2>2
  <2> QED BY <2>3
<1>10. CASE n = 0 BY <1>1, <1>7, <1>9, <1>10
<1>11. CASE n # 0
  <2>1. n \in 1..N /\ p[n] < 255 BY <1>5, <1>8, <1>11
  <2>2. PICK t : t = SubSeq(p, 1, n) OBVIOUS
  <2>3. t \in Seq(Nat) /\ Len(t) = n /\ \A k \in 1..n : t[k] = p[k]
    <3>1. p \in Seq(Nat) /\ n \in Nat /\ n <= Len(p) BY <1>1, <2>1 DEF Byte
    <3> QED BY <2>2, <3>1, PrefixOf
  <2>4. s = [t EXCEPT ![n] = @ + 1] BY <1>7, <1>11, <2>2
  <2>5. DOMAIN t = 1..n /\ \A k \in 1..n : t[k] \in Nat BY <2>3
  <2>6. /\ DOMAIN s = 1..n /\ s[n] = p[n] + 1
        /\ \A k \in 1..n : k # n => s[k] = p[k]
    BY <2>1, <2>3, <2>4, <2>5
  <2>7. s = [k \in 1..n |-> s[k]] BY <2>4, <2>5
  <2>8. \A k \in 1..n : s[k] \in Nat BY <1>2, <2>1, <2>3, <2>5, <2>6
  <2>9. s \in Seq(Nat) /\ Len(s) = n
    <3>1. s \in [1..n -> Nat] /\ n \in Nat BY <2>1, <2>7, <2>8
    <3> QED BY <3>1, AsSequence
  <2>10. s # <<>> BY <2>1, <2>9
  <2>11. \A k \in 1..n - 1 : s[k] = p[k] BY <2>1, <2>6
  <2> QED BY <1>1, <1>9, <2>1, <2>6, <2>9, <2>10, <2>11 DEF Succeeds
<1> QED BY <1>10, <1>11

\* The strings from p to its successor are those that begin with p.
LEMMA RangeIsPrefix ==
  ASSUME NEW p \in Seq(Byte), NEW s \in Seq(Byte), NEW hi, hi = Successor(p)
  PROVE  ~NameBefore(s, p) /\ (hi # <<>> => NameBefore(s, hi)) <=> Agree(p, s, Len(p))
<1>1. PICK P, Q \in Nat : P = Len(p) /\ Q = Len(s) OBVIOUS
<1>2. /\ \A k \in 1..P : p[k] \in Nat /\ p[k] <= 255
      /\ \A k \in 1..Q : s[k] \in Nat /\ s[k] <= 255
      /\ p \in Seq(Nat) /\ s \in Seq(Nat)
  BY <1>1 DEF Byte
<1>3. ASSUME Agree(p, s, P) PROVE ~NameBefore(s, p) /\ (hi # <<>> => NameBefore(s, hi))
  <2>1. P <= Q /\ \A k \in 1..P : p[k] = s[k] BY <1>1, <1>3 DEF Agree
  <2>2. ASSUME NEW n \in Nat, Splits(s, p, n) PROVE FALSE
    <3>1. n < P /\ n < Q /\ s[n + 1] < p[n + 1] BY <1>1, <2>1, <2>2 DEF Splits
    <3>2. n + 1 \in 1..P BY <3>1
    <3> QED BY <1>2, <2>1, <3>1, <3>2
  <2>3. ~NameBefore(s, p) BY <1>2, <2>2, BeforeSplits
  <2>4. ASSUME hi # <<>> PROVE NameBefore(s, hi)
    <3>1. PICK n \in 1..P : Succeeds(hi, p, n) BY <1>1, <2>4, SuccessorIs
    <3>2. /\ hi \in Seq(Nat) /\ Len(hi) = n /\ \A m \in 1..n - 1 : hi[m] = p[m]
          /\ hi[n] = p[n] + 1
      BY <3>1 DEF Succeeds
    <3>3. PICK m \in Nat : m = n - 1 BY <3>1
    <3>4. m < n /\ m < Q /\ m <= n /\ m <= Q /\ m + 1 = n BY <2>1, <3>1, <3>3
    <3>5. \A k \in 1..m : s[k] = hi[k] BY <2>1, <3>1, <3>2, <3>3
    <3>6. s[n] < hi[n] BY <1>2, <2>1, <3>1, <3>2
    <3>7. Splits(s, hi, m) BY <1>1, <3>2, <3>4, <3>5, <3>6 DEF Splits, Agree
    <3> QED BY <1>2, <3>2, <3>7, BeforeSplits
  <2> QED BY <2>3, <2>4
<1>4. ASSUME ~Agree(p, s, P), ~NameBefore(s, p), hi # <<>> => NameBefore(s, hi) PROVE FALSE
  <2>1. PICK n \in Nat : /\ n = CommonPrefixLen(s, p) /\ Agree(s, p, n)
                         /\ \A k \in Nat : Agree(s, p, k) => k <= n
    BY <1>2, CommonIsLongest
  <2>2. n <= P /\ n <= Q /\ \A k \in 1..n : s[k] = p[k] BY <1>1, <2>1 DEF Agree
  <2>3. n < P
    <3>1. n = P => Agree(p, s, P) BY <1>1, <2>2 DEF Agree
    <3> QED BY <1>4, <2>2, <3>1
  <2>4. n < Q /\ ~(s[n + 1] < p[n + 1])
    <3>1. ~Splits(s, p, n) BY <1>2, <1>4, BeforeSplits
    <3> QED BY <1>1, <2>1, <2>2, <2>3, <3>1 DEF Splits
  <2>5. n + 1 \in 1..P /\ n + 1 \in 1..Q BY <2>3, <2>4
  <2>6. s[n + 1] # p[n + 1]
    <3>1. ~Agree(s, p, n + 1) BY <2>1
    <3>2. \A k \in 1..n + 1 : k \in 1..n \/ k = n + 1 OBVIOUS
    <3> QED BY <1>1, <2>2, <2>3, <2>4, <3>1, <3>2 DEF Agree
  <2>7. s[n + 1] >= p[n + 1] + 1 /\ p[n + 1] < 255
    <3>1. /\ s[n + 1] \in Nat /\ s[n + 1] <= 255 /\ p[n + 1] \in Nat
          /\ p[n + 1] <= 255
      BY <1>2, <2>5
    <3> QED BY <2>4, <2>6, <3>1
  <2>8. hi # <<>> BY <1>1, <2>5, <2>7, SuccessorIs
  <2>9. PICK m \in 1..P : Succeeds(hi, p, m) BY <1>1, <2>8, SuccessorIs
  <2>10. /\ hi \in Seq(Nat) /\ Len(hi) = m /\ \A k \in 1..m - 1 : hi[k] = p[k]
         /\ hi[m] = p[m] + 1 /\ \A k \in m + 1..P : p[k] = 255
    BY <1>1, <2>9 DEF Succeeds
  <2>11. n + 1 <= m BY <2>5, <2>7, <2>9, <2>10
  <2>12. PICK d \in Nat : Splits(s, hi, d) BY <1>2, <1>4, <2>8, <2>10, BeforeSplits
  <2>13. /\ d < m /\ d <= Q /\ (d < Q => s[d + 1] < hi[d + 1])
         /\ \A k \in 1..d : s[k] = hi[k]
    BY <1>1, <2>10, <2>12 DEF Splits, Agree
  <2>14. hi[n + 1] <= s[n + 1] /\ hi[n + 1] \in Nat /\ s[n + 1] \in Nat
    <3>0. /\ s[n + 1] \in Nat /\ p[n + 1] \in Nat /\ s[n + 1] >= p[n + 1] + 1
      BY <1>2, <2>5, <2>7
    <3>1. CASE n + 1 = m
      <4>1. hi[n + 1] = p[n + 1] + 1 BY <2>10, <3>1
      <4> QED BY <3>0, <4>1
    <3>2. CASE n + 1 < m
      <4>1. n + 1 \in 1..m - 1 BY <2>9, <3>2
      <4>2. hi[n + 1] = p[n + 1] BY <2>10, <4>1
      <4> QED BY <3>0, <4>2
    <3> QED BY <2>9, <2>11, <3>1, <3>2
  <2>15. CASE d < n
    <3>1. d + 1 \in 1..n /\ d + 1 \in 1..m - 1 /\ d < Q BY <2>2, <2>9, <2>11, <2>15
    <3>2. s[d + 1] = p[d + 1] /\ hi[d + 1] = p[d + 1] /\ p[d + 1] \in Nat
      <4>1. d + 1 \in 1..P BY <2>3, <3>1
      <4> QED BY <1>2, <2>2, <2>10, <3>1, <4>1
    <3> QED BY <2>13, <3>1, <3>2
  <2>16. CASE d = n BY <2>4, <2>13, <2>14, <2>16
  <2>17. CASE d > n
    <3>1. n + 1 \in 1..d BY <2>17
    <3>2. s[n + 1] = hi[n + 1] BY <2>13, <3>1
    <3>3. n + 1 = m \/ n + 1 \in 1..m - 1 BY <2>9, <2>11
    <3>4. hi[n + 1] = p[n + 1] \/ n + 1 = m BY <2>10, <3>3
    <3>5. n + 1 < m BY <2>13, <2>17, <2>9
    <3> QED BY <1>2, <2>5, <2>6, <3>2, <3>4, <3>5
  <2> QED BY <2>15, <2>16, <2>17
<1> QED BY <1>1, <1>3, <1>4

\* A key begins with the bytes of another when it is of its country and has a name that
\* begins with its name.
LEMMA KeysBegin ==
  ASSUME NEW c \in Country, NEW q \in Seq(Byte), NEW d \in Country, NEW s \in Seq(Byte),
         NEW k, k = KeyBytes(c, q), NEW j, j = KeyBytes(d, s)
  PROVE  Agree(k, j, Len(k)) <=> c = d /\ IsPrefix(q, s)
<1>1. PICK Q, S \in Nat : Q = Len(q) /\ S = Len(s) OBVIOUS
<1>2. /\ k \in Seq(Byte) /\ Len(k) = Q + 2 /\ k[1] = High(c) /\ k[2] = Low(c)
      /\ \A m \in 1..Q : k[m + 2] = q[m]
  <2>1. Spells(k, c, q) BY KeyBytesAre
  <2> QED BY <1>1, <2>1 DEF Spells
<1>3. /\ j \in Seq(Byte) /\ Len(j) = S + 2 /\ j[1] = High(d) /\ j[2] = Low(d)
      /\ \A m \in 1..S : j[m + 2] = s[m]
  <2>1. Spells(j, d, s) BY KeyBytesAre
  <2> QED BY <1>1, <2>1 DEF Spells
<1>4. c = d <=> k[1] = j[1] /\ k[2] = j[2]
  <2>1. c \in Nat /\ d \in Nat BY TwoBytes
  <2>2. High(c) = High(d) /\ Low(c) = Low(d) => c = d BY <2>1, BytesTell
  <2> QED BY <1>2, <1>3, <2>2
<1>5. IsPrefix(q, s) <=> Q <= S /\ \A m \in 1..Q : q[m] = s[m]
  <2>1. q \in Seq(Nat) /\ s \in Seq(Nat) BY DEF Byte
  <2>2. Q <= S => (SubSeq(q, 1, Q) = SubSeq(s, 1, Q) <=> Agree(q, s, Q))
    <3>1. Len(q) <= Len(s) =>
            (SubSeq(q, 1, Len(q)) = SubSeq(s, 1, Len(q)) <=> Agree(q, s, Len(q)))
      <4>1. ASSUME Len(q) <= Len(s)
            PROVE  SubSeq(q, 1, Len(q)) = SubSeq(s, 1, Len(q)) <=> Agree(q, s, Len(q))
        <5>1. Len(q) \in Nat /\ Len(q) <= Len(q) BY <2>1
        <5> QED BY <2>1, <4>1, <5>1, AgreeIsPrefix
      <4> QED BY <4>1
    <3> QED BY <1>1, <3>1
  <2>3. IsPrefix(q, s) <=> Q <= S /\ SubSeq(q, 1, Q) = SubSeq(s, 1, Q) BY <1>1 DEF IsPrefix
  <2> QED BY <1>1, <2>2, <2>3 DEF Agree
<1>6. ASSUME Agree(k, j, Len(k)) PROVE c = d /\ IsPrefix(q, s)
  <2>1. Q + 2 <= S + 2 /\ \A m \in 1..Q + 2 : k[m] = j[m] BY <1>2, <1>3, <1>6 DEF Agree
  <2>2. 1 \in 1..Q + 2 /\ 2 \in 1..Q + 2 /\ Q <= S BY <2>1
  <2>3. ASSUME NEW m \in 1..Q PROVE q[m] = s[m]
    <3>1. m + 2 \in 1..Q + 2 /\ m \in 1..S BY <2>2
    <3> QED BY <1>2, <1>3, <2>1, <3>1
  <2> QED BY <1>4, <1>5, <2>1, <2>2, <2>3
<1>7. ASSUME c = d, IsPrefix(q, s) PROVE Agree(k, j, Len(k))
  <2>1. Q <= S /\ \A m \in 1..Q : q[m] = s[m] BY <1>5, <1>7
  <2>2. ASSUME NEW m \in 1..Q + 2 PROVE k[m] = j[m]
    <3>1. CASE m > 2
      <4>1. PICK l \in 1..Q : m = l + 2
        <5>1. m - 2 \in 1..Q /\ m = (m - 2) + 2 BY <3>1
        <5> QED BY <5>1
      <4>2. l \in 1..S BY <2>1
      <4> QED BY <1>2, <1>3, <2>1, <4>1, <4>2
    <3>2. CASE ~(m > 2)
      <4>1. m = 1 \/ m = 2 BY <3>2
      <4> QED BY <1>4, <1>7, <4>1
    <3> QED BY <3>1, <3>2
  <2> QED BY <1>2, <1>3, <2>1, <2>2 DEF Agree
<1> QED BY <1>6, <1>7

-----------------------------------------------------------------------------
\* What the FST that was written is read as.
Readable == FstRight(fst) /\ RecordsOK /\ KeysOK /\ Graded

\* A key of it is the country and the name of an edge, and the edges at it are those
\* whose key it is.
LEMMA EntriesAre ==
  ASSUME Readable, NEW n \in DOMAIN fst
  PROVE  /\ fst[n][1] = <<fst[n][1][1], fst[n][1][2]>>
         /\ fst[n][1][1] \in Country /\ fst[n][1][2] \in Seq(Byte)
         /\ RightList(fst[n][1], fst[n][2])
         /\ \A e \in Edges : KeyOf(e) = fst[n][1] <=> e \in EdgesAt(fst[n][1][1], fst[n][1][2])
<1>1. PICK k : k = fst[n][1] OBVIOUS
<1>2. PICK e \in Edges : k = KeyOf(e) BY <1>1 DEF Readable, FstRight
<1>3. k = <<recCountry[e.ord], e.name>> BY <1>2 DEF KeyOf
<1>4. k[1] = recCountry[e.ord] /\ k[2] = e.name BY <1>3
<1>5. e \in AnyEdge /\ e.ord \in DOMAIN recCountry
  <2>1. PICK j \in DOMAIN keys : e = keys[j] BY <1>2 DEF Edges, ToSet
  <2>2. j \in 1..Len(keys) BY <2>1 DEF Readable, KeysOK
  <2> QED BY <2>1, <2>2 DEF Readable, KeysOK
<1>6. recCountry[e.ord] \in Country BY <1>5 DEF Readable, Graded
<1>7. e.name \in Seq(Byte) BY <1>5, KeyAssumption DEF AnyEdge
<1>8. \A d \in Edges : KeyOf(d) = k <=> d \in EdgesAt(k[1], k[2])
  BY <1>3, <1>4 DEF KeyOf, EdgesAt
<1>9. RightList(k, fst[n][2]) BY <1>1 DEF Readable, FstRight
<1> QED BY <1>1, <1>3, <1>4, <1>6, <1>7, <1>8, <1>9

\* scanCountry comes to the keys of the country whose names begin with q, and to no other.
LEMMA MetKeys ==
  ASSUME Readable, NEW c \in Country, NEW q \in Query
  PROVE  \A n : n \in Met(c, q) <=>
           n \in DOMAIN fst /\ fst[n][1][1] = c /\ IsPrefix(q, fst[n][1][2])
<1>1. q \in Seq(Byte) BY KeyAssumption
<1>2. PICK lo, hi : lo = KeyBytes(c, q) /\ hi = Successor(lo) OBVIOUS
<1>3. lo \in Seq(Byte) BY <1>1, <1>2, KeyBytesAre DEF Spells
<1>4. ASSUME NEW n \in DOMAIN fst
      PROVE  LET k == KeyBytes(fst[n][1][1], fst[n][1][2])
             IN ~NameBefore(k, lo) /\ (hi # <<>> => NameBefore(k, hi))
                  <=> fst[n][1][1] = c /\ IsPrefix(q, fst[n][1][2])
  <2>1. PICK d, s : d = fst[n][1][1] /\ s = fst[n][1][2] OBVIOUS
  <2>2. d \in Country /\ s \in Seq(Byte) BY <2>1, EntriesAre
  <2>3. PICK k : k = KeyBytes(d, s) OBVIOUS
  <2>4. k \in Seq(Byte) BY <2>2, <2>3, KeyBytesAre DEF Spells
  <2>5. ~NameBefore(k, lo) /\ (hi # <<>> => NameBefore(k, hi)) <=> Agree(lo, k, Len(lo))
    BY <1>2, <1>3, <2>4, RangeIsPrefix
  <2>6. Agree(lo, k, Len(lo)) <=> c = d /\ IsPrefix(q, s)
    BY <1>1, <1>2, <2>2, <2>3, KeysBegin
  <2> QED BY <2>1, <2>3, <2>5, <2>6
<1>5. Met(c, q)
        = {n \in DOMAIN fst :
             /\ ~NameBefore(KeyBytes(fst[n][1][1], fst[n][1][2]), lo)
             /\ (hi # <<>> => NameBefore(KeyBytes(fst[n][1][1], fst[n][1][2]), hi))}
  BY <1>2 DEF Met, EntryKey
<1> QED BY <1>4, <1>5

\* The edges of E are those whose lists are the entries N of the FST.
ListedIn(E, N) ==
  /\ E \subseteq Edges /\ N \subseteq DOMAIN fst
  /\ \A n \in DOMAIN fst, e \in Edges : fst[n][1] = KeyOf(e) => (n \in N <=> e \in E)

\* The edges are finitely many, and have scores.
LEMMA EdgesAreRated ==
  ASSUME RecordsOK, KeysOK, Graded, NEW E, E \subseteq Edges
  PROVE  Rated(E)
<1>1. Scored BY EdgesScored
<1>2. DOMAIN keys = 1..Len(keys) /\ Len(keys) \in Nat BY DEF KeysOK
<1> DEFINE f == [n \in 1..Len(keys) |-> keys[n]]
<1>3. f \in Surjection(1..Len(keys), Edges) BY <1>2 DEF Surjection, Edges, ToSet
<1>4. IsFiniteSet(1..Len(keys)) BY <1>2, FS_Interval
<1> HIDE DEF f
<1>5. IsFiniteSet(Edges) BY <1>3, <1>4, FS_Surjection
<1>6. IsFiniteSet(E) BY <1>5, FS_Subset
<1>7. \A e \in Edges : EdgeScore(e) \in Score BY <1>1, <1>2 DEF Scored, Edges, ToSet
<1> QED BY <1>6, <1>7 DEF Rated

\* What is found in entries of the FST is the best scores of the records of their edges.
LEMMA FoundIs ==
  ASSUME Readable, NEW E, NEW N, ListedIn(E, N)
  PROVE  Found(N) = BestScores(E)
<1>1. PICK ps : ps = UNION {ToSet(fst[n][2]) : n \in N} OBVIOUS
<1>2. PICK r : r = RawBest(E) OBVIOUS
<1>3. /\ DOMAIN r = {e.ord : e \in E} /\ r \in [DOMAIN r -> Score]
      /\ \A o \in DOMAIN r : /\ \E e \in E : e.ord = o /\ r[o] = EdgeScore(e)
                             /\ \A e \in E : e.ord = o => EdgeScore(e) <= r[o]
  <2>1. Rated(E) BY EdgesAreRated DEF Readable, ListedIn
  <2>2. IsBest(E, r) BY <1>2, <2>1, RawBestIs
  <2> QED BY <2>2 DEF IsBest
<1>4. Score \subseteq Int BY ScoreAssumption
<1>5. ASSUME NEW x \in ps
      PROVE  x.ord \in DOMAIN r /\ \E e \in E : e.ord = x.ord /\ x.score = Fixed(EdgeScore(e))
  <2>1. PICK n \in N : x \in ToSet(fst[n][2]) BY <1>1
  <2>2. n \in DOMAIN fst BY DEF ListedIn
  <2>3. PICK k, list : k = fst[n][1] /\ list = fst[n][2] OBVIOUS
  <2>4. PICK j \in DOMAIN list : x = list[j] BY <2>1, <2>3 DEF ToSet
  <2>5. PICK F : F = EdgesAt(k[1], k[2]) OBVIOUS
  <2>6. RightList(k, list) /\ \A e \in Edges : KeyOf(e) = k <=> e \in F
    BY <2>2, <2>3, <2>5, EntriesAre
  <2>7. F \subseteq E BY <2>2, <2>3, <2>5, <2>6 DEF ListedIn, EdgesAt
  <2>8. PICK e \in F : e.ord = list[j].ord BY <2>5, <2>6, ListedOnce
  <2>9. list[j].score = Fixed(Max({EdgeScore(d) : d \in {b \in F : b.ord = list[j].ord}}))
    BY <2>5, <2>6, ListedOnce
  <2>10. PICK o : o = list[j].ord OBVIOUS
  <2>11. PICK s : s = RawBest(F) OBVIOUS
  <2>12. /\ DOMAIN s = {d.ord : d \in F}
         /\ \A a \in DOMAIN s : \E d \in F : d.ord = a /\ s[a] = EdgeScore(d)
    <3>1. F \subseteq Edges BY <2>5 DEF EdgesAt
    <3>2. Rated(F) BY <3>1, EdgesAreRated DEF Readable
    <3>3. IsBest(F, s) BY <2>11, <3>2, RawBestIs
    <3> QED BY <3>3 DEF IsBest
  <2>13. o \in DOMAIN s BY <2>8, <2>10, <2>12
  <2>14. s[o] = Max({EdgeScore(d) : d \in {b \in F : b.ord = o}})
    BY <2>11, <2>12, <2>13 DEF RawBest
  <2>15. PICK d \in F : d.ord = o /\ s[o] = EdgeScore(d) BY <2>12, <2>13
  <2>16. list[j].score = Fixed(EdgeScore(d)) BY <2>9, <2>10, <2>14, <2>15
  <2>17. d \in E /\ o \in DOMAIN r BY <1>3, <2>7, <2>15
  <2> QED BY <2>4, <2>10, <2>15, <2>16, <2>17
<1>6. ASSUME NEW o \in DOMAIN r
      PROVE  \E x \in ps : x.ord = o /\ x.score = Fixed(r[o])
  <2>1. PICK e \in E : e.ord = o /\ r[o] = EdgeScore(e) BY <1>3
  <2>2. e \in Edges BY DEF ListedIn
  <2>3. PICK n \in DOMAIN fst : fst[n][1] = KeyOf(e) BY <2>2 DEF Readable, FstRight
  <2>4. n \in N BY <2>2, <2>3 DEF ListedIn
  <2>5. PICK k, list : k = fst[n][1] /\ list = fst[n][2] OBVIOUS
  <2>6. PICK F : F = EdgesAt(k[1], k[2]) OBVIOUS
  <2>7. /\ RightList(k, list) /\ e \in F
        /\ \A d \in Edges : KeyOf(d) = k <=> d \in F
    BY <2>2, <2>3, <2>5, <2>6, EntriesAre
  <2>8. PICK j \in DOMAIN list : list[j].ord = e.ord BY <2>6, <2>7, ListedOnce
  <2>9. list[j].score = Fixed(Max({EdgeScore(d) : d \in {b \in F : b.ord = list[j].ord}}))
    BY <2>6, <2>7, ListedOnce
  <2>10. F \subseteq E BY <2>3, <2>4, <2>5, <2>6, <2>7 DEF ListedIn, EdgesAt
  <2> DEFINE S == {EdgeScore(d) : d \in {b \in F : b.ord = o}}
  <2>11. Max(S) = r[o]
    <3>1. S \subseteq Int
      <4>1. \A d \in E : d.ord = o => EdgeScore(d) \in Int
        <5>1. Rated(E) BY EdgesAreRated DEF Readable, ListedIn
        <5> QED BY <1>4, <5>1 DEF Rated
      <4> QED BY <2>10, <4>1
    <3>2. r[o] \in S BY <2>1, <2>7
    <3>3. \A y \in S : y <= r[o] BY <1>3, <2>10
    <3> HIDE DEF S
    <3> QED BY <3>1, <3>2, <3>3, MaxIs
  <2>12. list[j].score = Fixed(r[o]) BY <2>1, <2>8, <2>9, <2>11
  <2>13. list[j] \in ps BY <1>1, <2>4, <2>5 DEF ToSet
  <2> QED BY <2>1, <2>8, <2>12, <2>13
<1>7. {x.ord : x \in ps} = DOMAIN r BY <1>5, <1>6
<1>8. ASSUME NEW o \in DOMAIN r
      PROVE  Max({x.score : x \in {y \in ps : y.ord = o}}) = Fixed(r[o])
  <2> DEFINE S == {x.score : x \in {y \in ps : y.ord = o}}
  <2>1. ASSUME NEW x \in ps, x.ord = o PROVE x.score \in Int /\ x.score <= Fixed(r[o])
    <3>1. PICK e \in E : e.ord = o /\ x.score = Fixed(EdgeScore(e)) BY <1>5, <2>1
    <3>2. PICK a, b : a = EdgeScore(e) /\ b = r[o] OBVIOUS
    <3>3. a <= b /\ b \in Int BY <1>3, <1>4, <3>1, <3>2
    <3>4. a \in Int
      <4>1. Rated(E) BY EdgesAreRated DEF Readable, ListedIn
      <4> QED BY <1>4, <3>2, <4>1 DEF Rated
    <3> QED BY <3>1, <3>2, <3>3, <3>4, FixedMonotone
  <2>2. S \subseteq Int /\ \A y \in S : y <= Fixed(r[o]) BY <2>1
  <2>3. Fixed(r[o]) \in S BY <1>6
  <2> HIDE DEF S
  <2>4. Max(S) = Fixed(r[o]) BY <2>2, <2>3, MaxIs
  <2> QED BY <2>4 DEF S
<1>9. Found(N) = [o \in DOMAIN r |-> Fixed(r[o])]
  <2>1. Found(N) = [o \in {x.ord : x \in ps} |-> Max({x.score : x \in {y \in ps : y.ord = o}})]
    BY <1>1 DEF Found
  <2> QED BY <1>7, <1>8, <2>1
<1>10. ASSUME NEW o \in DOMAIN r
       PROVE  r[o] = Max({EdgeScore(e) : e \in {d \in E : d.ord = o}})
  BY <1>2, <1>3 DEF RawBest
<1>11. BestScores(E) = [o \in DOMAIN r |-> Fixed(r[o])]
  BY <1>3, <1>10 DEF BestScores
<1> QED BY <1>9, <1>11

\* An edge is of a country the manifest lists, and each country it lists is one.
LEMMA CountriesAre ==
  ASSUME Typed, TablesOK, Linked, Graded, stage = "index"
  PROVE  /\ \A e \in Edges : recCountry[e.ord] \in CountryIndexes
         /\ CountryIndexes \subseteq Country
<1>1. /\ countries \in Seq(Column) /\ Len(countries) \in Nat
      /\ \A m, n \in 1..Len(countries) : countries[m] = countries[n] => m = n
      /\ \A j \in 1..Len(countries) : \E n \in Places : countries[j] = dump[n].country
  BY DEF TablesOK, IsTable
<1>2. \A n \in Places : RecordOf(dump[n], OrdinalOf(n))
  BY EdgesOfPlaces DEF Linked, RecordsLinked
<1>3. ASSUME NEW n \in Places, NEW o, o = OrdinalOf(n)
      PROVE  recCountry[o] \in Country /\ recCountry[o] \in CountryIndexes
  <2>1. o \in DOMAIN recCountry /\ recCountry[o] + 1 \in 1..Len(countries)
    BY <1>2, <1>3 DEF RecordOf
  <2>2. recCountry[o] \in Country /\ recCountry[o] \in Int
    BY <2>1, BuildAssumption DEF Graded
  <2> QED BY <1>1, <2>1, <2>2 DEF CountryIndexes
<1>4. ASSUME NEW e \in Edges PROVE recCountry[e.ord] \in CountryIndexes
  <2>1. PICK n \in Places : \E x \in Searchable(n) :
          e = [name |-> x[1], ord |-> OrdinalOf(n), class |-> x[2]]
    BY EdgesOfPlaces
  <2>2. e.ord = OrdinalOf(n) BY <2>1
  <2> QED BY <1>3, <2>2
<1>5. ASSUME NEW c \in CountryIndexes PROVE c \in Country
  <2>1. c \in Nat /\ c + 1 \in 1..Len(countries) BY <1>1 DEF CountryIndexes
  <2>2. PICK n \in Places : countries[c + 1] = dump[n].country BY <1>1, <2>1
  <2>3. PICK o, d : o = OrdinalOf(n) /\ d = recCountry[o] OBVIOUS
  <2>4. d + 1 \in 1..Len(countries) /\ countries[d + 1] = dump[n].country
    BY <1>2, <2>3 DEF RecordOf
  <2>5. d \in Country /\ d \in Int BY <1>3, <2>3, BuildAssumption
  <2>6. d + 1 = c + 1 BY <1>1, <2>1, <2>2, <2>4
  <2> QED BY <2>1, <2>5, <2>6
<1> QED BY <1>4, <1>5

\* The entries met in a country are those of the edges beneath q, ...
LEMMA MetBeneath ==
  ASSUME Readable, NEW c \in Country, NEW q \in Query
  PROVE  ListedIn(EdgesBeneath(c, q), Met(c, q))
<1>1. c # World BY BuildAssumption DEF World
<1>2. EdgesBeneath(c, q) = {e \in Edges : IsPrefix(q, e.name) /\ recCountry[e.ord] = c}
  BY <1>1 DEF EdgesBeneath
<1>3. ASSUME NEW n \in DOMAIN fst, NEW e \in Edges, fst[n][1] = KeyOf(e)
      PROVE  n \in Met(c, q) <=> e \in EdgesBeneath(c, q)
  <2>1. fst[n][1][1] = recCountry[e.ord] /\ fst[n][1][2] = e.name BY <1>3 DEF KeyOf
  <2> QED BY <1>2, <2>1, MetKeys
<1>4. Met(c, q) \subseteq DOMAIN fst BY MetKeys
<1>5. EdgesBeneath(c, q) \subseteq Edges BY <1>2
<1> QED BY <1>3, <1>4, <1>5 DEF ListedIn

\* ... those of its length are those of the edges at q, ...
LEMMA MetExactly ==
  ASSUME Readable, NEW c \in Country, NEW q \in Query
  PROVE  ListedIn(EdgesAt(c, q), {n \in Met(c, q) : Len(fst[n][1][2]) = Len(q)})
<1>1. q \in Seq(Byte) BY KeyAssumption
<1>2. ASSUME NEW n \in DOMAIN fst, NEW e \in Edges, fst[n][1] = KeyOf(e)
      PROVE  n \in Met(c, q) /\ Len(fst[n][1][2]) = Len(q) <=> e \in EdgesAt(c, q)
  <2>1. fst[n][1][1] = recCountry[e.ord] /\ fst[n][1][2] = e.name BY <1>2 DEF KeyOf
  <2>2. PICK s : s = fst[n][1][2] OBVIOUS
  <2>3. s \in Seq(Byte) BY <2>2, EntriesAre
  <2>4. IsPrefix(q, s) /\ Len(s) = Len(q) <=> s = q
    <3>1. SubSeq(q, 1, Len(q)) = q BY <1>1
    <3>2. SubSeq(s, 1, Len(s)) = s BY <2>3
    <3>3. Len(q) \in Nat /\ Len(q) <= Len(q) BY <1>1
    <3>4. ASSUME IsPrefix(q, s), Len(s) = Len(q) PROVE s = q
      <4>1. SubSeq(q, 1, Len(q)) = SubSeq(s, 1, Len(q)) BY <3>4 DEF IsPrefix
      <4>2. SubSeq(s, 1, Len(q)) = s BY <3>2, <3>4
      <4> QED BY <3>1, <4>1, <4>2
    <3>5. IsPrefix(q, q) BY <3>3 DEF IsPrefix
    <3> QED BY <3>4, <3>5
  <2> QED BY <2>1, <2>2, <2>4, MetKeys DEF EdgesAt
<1>3. Met(c, q) \subseteq DOMAIN fst BY MetKeys
<1> QED BY <1>2, <1>3 DEF ListedIn, EdgesAt

\* ... and those met in any country those of all edges beneath q.
LEMMA MetAnywhere ==
  ASSUME Readable, Typed, TablesOK, Linked, stage = "index", NEW q \in Query
  PROVE  ListedIn(EdgesBeneath(World, q), UNION {Met(c, q) : c \in CountryIndexes})
<1>1. /\ \A e \in Edges : recCountry[e.ord] \in CountryIndexes
      /\ CountryIndexes \subseteq Country
  BY CountriesAre DEF Readable
<1>2. EdgesBeneath(World, q) = {e \in Edges : IsPrefix(q, e.name)} BY DEF EdgesBeneath
<1>3. ASSUME NEW n \in DOMAIN fst, NEW e \in Edges, fst[n][1] = KeyOf(e)
      PROVE  n \in UNION {Met(c, q) : c \in CountryIndexes} <=> e \in EdgesBeneath(World, q)
  <2>1. fst[n][1][1] = recCountry[e.ord] /\ fst[n][1][2] = e.name BY <1>3 DEF KeyOf
  <2>2. \A c \in CountryIndexes : n \in Met(c, q) => IsPrefix(q, e.name)
    BY <1>1, <2>1, MetKeys
  <2>3. IsPrefix(q, e.name) => n \in Met(recCountry[e.ord], q) BY <1>1, <2>1, MetKeys
  <2> QED BY <1>1, <1>2, <2>2, <2>3
<1>4. \A c \in CountryIndexes : Met(c, q) \subseteq DOMAIN fst BY <1>1, MetKeys
<1> QED BY <1>2, <1>3, <1>4 DEF ListedIn

\* A place's edge by the name x.
EdgeNamed(n, x) == [name |-> x[1], ord |-> OrdinalOf(n), class |-> x[2]]

\* A place's edges are those by the names it can be searched by, which are names.
LEMMA EdgesOfPlace ==
  ASSUME Typed, Linked, KeysOK, stage = "index", NEW n \in Places
  PROVE  /\ \A e : e \in Edges /\ e.ord = OrdinalOf(n)
                     <=> \E x \in Searchable(n) : e = EdgeNamed(n, x)
         /\ \A x \in Searchable(n) : x[1] \in Name
<1>1. ASSUME NEW e \in Edges, e.ord = OrdinalOf(n)
      PROVE  \E x \in Searchable(n) : e = EdgeNamed(n, x)
  <2>1. PICK m \in Places : \E x \in Searchable(m) :
          e = [name |-> x[1], ord |-> OrdinalOf(m), class |-> x[2]]
    BY EdgesOfPlaces
  <2>2. OrdinalOf(m) = OrdinalOf(n) BY <1>1, <2>1
  <2>3. m = n BY <2>2, OrdinalsTell
  <2> QED BY <2>1, <2>3 DEF EdgeNamed
<1>2. ASSUME NEW x \in Searchable(n), NEW e, e = EdgeNamed(n, x)
      PROVE  e \in Edges /\ e.ord = OrdinalOf(n) /\ e.name = x[1]
  BY <1>2, EdgesOfPlaces DEF EdgeNamed
<1>3. ASSUME NEW x \in Searchable(n) PROVE x[1] \in Name
  <2>1. PICK e : e = EdgeNamed(n, x) OBVIOUS
  <2>2. e \in Edges /\ e.name = x[1] BY <1>2, <2>1
  <2>3. e \in AnyEdge BY <2>2 DEF KeysOK, Edges, ToSet
  <2> QED BY <2>2, <2>3 DEF AnyEdge
<1> QED BY <1>1, <1>2, <1>3

\* f has the places of a country that have a name in Q, each at the score of its best.
Gives(f, c, Q) ==
  LET there == {n \in Places : dump[n].country = countries[c + 1]}
      Under(n) == {x \in Searchable(n) : x[1] \in Q}
      V(n) == ProminenceOf[<<dump[n].population, dump[n].feature>>]
  IN /\ DOMAIN f = {OrdinalOf(n) : n \in {m \in there : Under(m) # {}}}
     /\ \A n \in there : Under(n) # {} =>
          f[OrdinalOf(n)] = Fixed(Max({V(n) - Penalty[x[2]] : x \in Under(n)}))

\* So have the edges with a name in Q.
LEMMA BestByNames ==
  ASSUME Typed, Linked, Readable, TablesOK, stage = "index", NEW c \in CountryIndexes, NEW Q,
         NEW E, E = {e \in Edges : e.name \in Q /\ recCountry[e.ord] = c}
  PROVE  Gives(BestScores(E), c, Q)
<1> DEFINE there == {n \in Places : dump[n].country = countries[c + 1]}
           Under(n) == {x \in Searchable(n) : x[1] \in Q}
           V(n) == ProminenceOf[<<dump[n].population, dump[n].feature>>]
<1>1. /\ Len(countries) \in Nat
      /\ \A j, k \in 1..Len(countries) : countries[j] = countries[k] => j = k
  BY DEF TablesOK, IsTable
<1>2. c \in Nat /\ c + 1 \in 1..Len(countries) BY <1>1 DEF CountryIndexes
<1>3. ASSUME NEW n \in Places, NEW o, o = OrdinalOf(n)
      PROVE  /\ recCountry[o] = c <=> n \in there
             /\ prominence[o] = V(n)
  <2>1. RecordOf(dump[n], o) BY <1>3, EdgesOfPlaces DEF Linked, RecordsLinked
  <2>2. /\ recCountry[o] \in Nat /\ recCountry[o] + 1 \in 1..Len(countries)
        /\ countries[recCountry[o] + 1] = dump[n].country /\ prominence[o] = V(n)
    BY <2>1 DEF RecordOf, Readable, RecordsOK
  <2>3. recCountry[o] + 1 = c + 1 <=> recCountry[o] = c BY <1>2, <2>2
  <2> QED BY <1>1, <1>2, <2>2, <2>3
<1>4. ASSUME NEW n \in there, NEW e
      PROVE  e \in E /\ e.ord = OrdinalOf(n) <=> \E x \in Under(n) : e = EdgeNamed(n, x)
  <2>1. n \in Places /\ recCountry[OrdinalOf(n)] = c BY <1>3
  <2>2. e \in Edges /\ e.ord = OrdinalOf(n) <=> \E x \in Searchable(n) : e = EdgeNamed(n, x)
    BY <2>1, EdgesOfPlace DEF Readable
  <2>3. \A x : EdgeNamed(n, x).name = x[1] /\ EdgeNamed(n, x).ord = OrdinalOf(n)
    BY DEF EdgeNamed
  <2> QED BY <2>1, <2>2, <2>3
<1>5. ASSUME NEW e \in E PROVE \E n \in there : e.ord = OrdinalOf(n)
  <2>1. PICK n \in Places : \E x \in Searchable(n) :
          e = [name |-> x[1], ord |-> OrdinalOf(n), class |-> x[2]]
    BY EdgesOfPlaces
  <2>2. e.ord = OrdinalOf(n) BY <2>1
  <2> QED BY <1>3, <2>2
<1>6. DOMAIN BestScores(E) = {e.ord : e \in E} BY DEF BestScores
<1>7. {e.ord : e \in E} = {OrdinalOf(n) : n \in {m \in there : Under(m) # {}}}
  <2>1. ASSUME NEW e \in E PROVE e.ord \in {OrdinalOf(n) : n \in {m \in there : Under(m) # {}}}
    <3>1. PICK n \in there : e.ord = OrdinalOf(n) BY <1>5
    <3>2. Under(n) # {} BY <1>4, <3>1
    <3> QED BY <3>1, <3>2
  <2>2. ASSUME NEW n \in there, Under(n) # {} PROVE OrdinalOf(n) \in {e.ord : e \in E}
    <3>1. PICK x \in Under(n) : TRUE BY <2>2
    <3>2. PICK e : e = EdgeNamed(n, x) OBVIOUS
    <3>3. e \in E /\ e.ord = OrdinalOf(n) BY <1>4, <3>2
    <3> QED BY <3>3
  <2> HIDE DEF Under
  <2> QED BY <2>1, <2>2
<1>8. ASSUME NEW n \in there, Under(n) # {}
      PROVE  BestScores(E)[OrdinalOf(n)] = Fixed(Max({V(n) - Penalty[x[2]] : x \in Under(n)}))
  <2>1. PICK o : o = OrdinalOf(n) OBVIOUS
  <2>2. o \in {e.ord : e \in E} BY <1>7, <1>8, <2>1
  <2>3. BestScores(E)[o] = Fixed(Max({EdgeScore(e) : e \in {d \in E : d.ord = o}}))
    BY <2>2 DEF BestScores
  <2>4. \A x : EdgeScore(EdgeNamed(n, x)) = V(n) - Penalty[x[2]]
    BY <1>3 DEF EdgeScore, EdgeNamed
  <2> DEFINE S == {EdgeScore(e) : e \in {d \in E : d.ord = o}}
             T == {V(n) - Penalty[x[2]] : x \in Under(n)}
  <2> HIDE DEF Under, V
  <2>5. ASSUME NEW s \in S PROVE s \in T
    <3>1. PICK e \in E : e.ord = o /\ s = EdgeScore(e) OBVIOUS
    <3>2. PICK x \in Under(n) : e = EdgeNamed(n, x) BY <1>4, <2>1, <3>1
    <3> QED BY <2>4, <3>1, <3>2
  <2>6. ASSUME NEW t \in T PROVE t \in S
    <3>1. PICK x \in Under(n) : t = V(n) - Penalty[x[2]] OBVIOUS
    <3>2. PICK e : e = EdgeNamed(n, x) OBVIOUS
    <3>3. e \in E /\ e.ord = o BY <1>4, <2>1, <3>2
    <3> QED BY <2>4, <3>1, <3>2, <3>3
  <2>7. S = T BY <2>5, <2>6
  <2> QED BY <2>1, <2>3, <2>7
<1> QED BY <1>6, <1>7, <1>8 DEF Gives

\* What the files put under q in a country is what a walk finds there.
LEMMA WalkRight ==
  ASSUME Typed, TablesOK, Linked, Readable, stage = "index", NEW c \in CountryIndexes,
         NEW q \in Query
  PROVE  LET found == Found(Met(c, q))
             exact == Found({m \in Met(c, q) : Len(fst[m][1][2]) = Len(q)})
             there == {n \in Places : dump[n].country = countries[c + 1]}
             under == {n \in there : NamesUnder(n, q) # {}}
             named == {n \in there : \E x \in Searchable(n) : x[1] = q}
         IN /\ DOMAIN found = {OrdinalOf(n) : n \in under}
            /\ \A n \in under : found[OrdinalOf(n)] = BestUnder(n, q)
            /\ DOMAIN exact = {OrdinalOf(n) : n \in named}
            /\ \A n \in named : exact[OrdinalOf(n)] = BestScore(n, q)
<1> DEFINE found == Found(Met(c, q))
           exact == Found({m \in Met(c, q) : Len(fst[m][1][2]) = Len(q)})
           there == {n \in Places : dump[n].country = countries[c + 1]}
           under == {n \in there : NamesUnder(n, q) # {}}
           named == {n \in there : \E x \in Searchable(n) : x[1] = q}
           V(n) == ProminenceOf[<<dump[n].population, dump[n].feature>>]
<1>1. c \in Country /\ c # World
  BY CountriesAre, BuildAssumption DEF Readable, World
<1>2. found = BestScores(EdgesBeneath(c, q)) BY <1>1, MetBeneath, FoundIs
<1>3. exact = BestScores(EdgesAt(c, q)) BY <1>1, MetExactly, FoundIs
<1>4. PICK P : P = {s \in Name : IsPrefix(q, s)} OBVIOUS
<1>5. EdgesBeneath(c, q) = {e \in Edges : e.name \in P /\ recCountry[e.ord] = c}
  <2>0. \A e \in Edges : e \in AnyEdge BY DEF Readable, KeysOK, Edges, ToSet
  <2>1. \A e \in Edges : e.name \in Name BY <2>0 DEF AnyEdge
  <2> QED BY <1>1, <1>4, <2>1 DEF EdgesBeneath
<1>6. EdgesAt(c, q) = {e \in Edges : e.name \in {q} /\ recCountry[e.ord] = c}
  BY DEF EdgesAt
<1>7. \A n \in there : NamesUnder(n, q) = {x \in Searchable(n) : x[1] \in P}
  <2>1. \A n \in Places : \A x \in Searchable(n) : x[1] \in Name BY EdgesOfPlace DEF Readable
  <2> QED BY <1>4, <2>1 DEF NamesUnder
<1>8. /\ DOMAIN found = {OrdinalOf(n) :
                           n \in {m \in there : {x \in Searchable(m) : x[1] \in P} # {}}}
      /\ \A n \in there : {x \in Searchable(n) : x[1] \in P} # {} =>
           found[OrdinalOf(n)]
             = Fixed(Max({V(n) - Penalty[x[2]] : x \in {y \in Searchable(n) : y[1] \in P}}))
  <2>1. Gives(BestScores(EdgesBeneath(c, q)), c, P) BY <1>5, BestByNames
  <2>2. Gives(found, c, P) BY <1>2, <2>1
  <2> HIDE DEF found
  <2> QED BY <2>2 DEF Gives
<1>9. /\ DOMAIN exact = {OrdinalOf(n) :
                           n \in {m \in there : {x \in Searchable(m) : x[1] \in {q}} # {}}}
      /\ \A n \in there : {x \in Searchable(n) : x[1] \in {q}} # {} =>
           exact[OrdinalOf(n)]
             = Fixed(Max({V(n) - Penalty[x[2]] : x \in {y \in Searchable(n) : y[1] \in {q}}}))
  <2>1. Gives(BestScores(EdgesAt(c, q)), c, {q}) BY <1>6, BestByNames
  <2>2. Gives(exact, c, {q}) BY <1>3, <2>1
  <2> HIDE DEF exact
  <2> QED BY <2>2 DEF Gives
<1>10. under = {m \in there : {x \in Searchable(m) : x[1] \in P} # {}} BY <1>7
<1>11. ASSUME NEW n \in under PROVE found[OrdinalOf(n)] = BestUnder(n, q)
  <2>1. BestUnder(n, q) = Fixed(Max({V(n) - Penalty[x[2]] : x \in NamesUnder(n, q)}))
    BY DEF BestUnder
  <2> QED BY <1>7, <1>8, <2>1
<1>12. named = {m \in there : {x \in Searchable(m) : x[1] \in {q}} # {}} OBVIOUS
<1>13. ASSUME NEW n \in named PROVE exact[OrdinalOf(n)] = BestScore(n, q)
  <2>1. BestScore(n, q)
          = Fixed(Max({V(n) - Penalty[x[2]] : x \in {y \in Searchable(n) : y[1] = q}}))
    BY DEF BestScore
  <2>2. {y \in Searchable(n) : y[1] = q} = {y \in Searchable(n) : y[1] \in {q}} OBVIOUS
  <2>3. {y \in Searchable(n) : y[1] \in {q}} # {} OBVIOUS
  <2> QED BY <1>9, <2>1, <2>2, <2>3
<1>14. DOMAIN found = {OrdinalOf(n) : n \in under} BY <1>8, <1>10
<1>15. DOMAIN exact = {OrdinalOf(n) : n \in named} BY <1>9, <1>12
<1> HIDE DEF found, exact, under, named
<1>16. /\ DOMAIN found = {OrdinalOf(n) : n \in under}
       /\ \A n \in under : found[OrdinalOf(n)] = BestUnder(n, q)
       /\ DOMAIN exact = {OrdinalOf(n) : n \in named}
       /\ \A n \in named : exact[OrdinalOf(n)] = BestScore(n, q)
  BY <1>11, <1>13, <1>14, <1>15
<1> QED BY <1>16 DEF found, exact, under, named

\* What is read off a shortlist is a best-K list of what a walk finds.
LEMMA ListedWalks ==
  ASSUME Typed, TablesOK, Linked, Readable, stage = "index",
         FstLists(hotFST), FstLists(ccHotFST), NEW q \in Query
  PROVE  /\ \A c \in CountryIndexes : <<c, q>> \in DOMAIN ccHotFST =>
              IsShortlist(Found(Met(c, q)), Listed(ccHotFST[<<c, q>>]))
         /\ <<World, q>> \in DOMAIN hotFST =>
              IsShortlist(Found(UNION {Met(c, q) : c \in CountryIndexes}),
                          Listed(hotFST[<<World, q>>]))
<1>1. ASSUME NEW c \in CountryIndexes, <<c, q>> \in DOMAIN ccHotFST
      PROVE  IsShortlist(Found(Met(c, q)), Listed(ccHotFST[<<c, q>>]))
  <2>1. c \in Country BY CountriesAre DEF Readable
  <2>2. Found(Met(c, q)) = BestScores(EdgesBeneath(c, q)) BY <2>1, MetBeneath, FoundIs
  <2>3. PICK k : k = <<c, q>> OBVIOUS
  <2>4. k[1] = c /\ k[2] = q BY <2>3
  <2>5. RightHot(k, ccHotFST[k]) BY <1>1, <2>3 DEF FstLists
  <2> QED BY <2>2, <2>3, <2>4, <2>5 DEF RightHot
<1>2. ASSUME <<World, q>> \in DOMAIN hotFST
      PROVE  IsShortlist(Found(UNION {Met(c, q) : c \in CountryIndexes}),
                         Listed(hotFST[<<World, q>>]))
  <2>1. Found(UNION {Met(c, q) : c \in CountryIndexes}) = BestScores(EdgesBeneath(World, q))
    BY MetAnywhere, FoundIs
  <2>2. PICK k : k = <<World, q>> OBVIOUS
  <2>3. k[1] = World /\ k[2] = q BY <2>2
  <2>4. RightHot(k, hotFST[k]) BY <1>2, <2>2 DEF FstLists
  <2> QED BY <2>1, <2>2, <2>3, <2>4 DEF RightHot
<1> QED BY <1>1, <1>2

-----------------------------------------------------------------------------
\* names.fst takes every key (sortKeys(true) before the posting loop, the name
\* boundary in flush) and the two hot FSTs theirs (collectHot lists no prefix twice),
\* so writeIndex never fails, whatever the names, their number or the number of countries.
THEOREM BuildNeverRefused == BuildSpec => []NeverRefused
<1>1. Indexed => NeverRefused BY DEF Indexed, Written, NeverRefused
<1> QED BY <1>1, AlwaysIndexed, PTL

\* collectHot's counters see every name beneath a prefix once, however the names and
\* the countries follow one another, for any threshold and any longest prefix.
THEOREM BuildHotPrefixesExact == BuildSpec => []HotPrefixesExact
<1>1. Indexed => HotPrefixesExact BY DEF Indexed, Written, HotPrefixesExact
<1> QED BY <1>1, AlwaysIndexed, PTL

\* The posting loop gives every name of every country one list, with each record once,
\* at its best score, best first.
THEOREM BuildPostingsRight == BuildSpec => []PostingsRight
<1>1. Indexed => PostingsRight
  BY DEF Indexed, Written, PostingsRight, FstRight, RightList
<1> QED BY <1>1, AlwaysIndexed, PTL

\* Nothing of the prefix, level or country before leaks into a shortlist, its heap and
\* early exit lose nothing, and each record is in it at the score of its best name, for
\* any K, threshold and longest prefix.
THEOREM BuildShortlistsRight == BuildSpec => []ShortlistsRight
<1>1. Shortlisted => ShortlistsRight
  BY DEF Shortlisted, FstLists, RightHot, ShortlistsRight
<1> QED BY <1>1, AlwaysShortlisted, PTL

\* The variables have their types in every build, for any files: no list outgrows K, the
\* loops of writeIndex stay within the edges, and what refers to a record, a country
\* or an edge refers to one there is.
THEOREM BuildTypeCorrect == BuildSpec => []BuildTypeOK
<1>1. Collected /\ Indexed /\ Graded /\ Shortlisted /\ Bounded => BuildTypeOK
  <2>0. SUFFICES ASSUME Collected, Indexed, Graded, Shortlisted, Bounded PROVE BuildTypeOK
    OBVIOUS
  <2>1. /\ RecordsOK /\ KeysOK /\ Written /\ Typed
        /\ stage # "index" => pc = "start"
        /\ pc = "start" => Unwritten
    BY <2>0 DEF Indexed, Gathered, Collected
  <2>2. Sortable /\ Scored BY <2>0, <2>1, EdgesSortable, EdgesScored
  <2>3. DOMAIN keys = 1..Len(keys) /\ Len(keys) \in Nat /\ K \in Nat
    BY <2>2, KAssumption DEF Sortable
  <2>4. keys \in Seq(Edge)
    <3>1. \A n \in 1..Len(keys) : keys[n] \in Edge
      <4> SUFFICES ASSUME NEW n \in 1..Len(keys) PROVE keys[n] \in Edge OBVIOUS
      <4>1. keys[n] \in AnyEdge BY <2>1 DEF KeysOK
      <4>2. keys[n].ord \in Ord BY <2>2 DEF Scored
      <4> QED BY <4>1, <4>2 DEF AnyEdge, Edge
    <3>2. keys = [n \in 1..Len(keys) |-> keys[n]] BY <2>1 DEF KeysOK
    <3>3. keys \in [1..Len(keys) -> Edge] BY <3>1, <3>2
    <3> HIDE DEF Edge
    <3> QED BY <2>3, <3>3, AsSequence
  <2>5. \A e \in ToSet(keys) : EdgeScore(e) \in Score BY <2>2, <2>3 DEF Scored, ToSet
  <2>6. pc \in {"start", "hot", "cchot", "postings", "done", "refused"} BY <2>1 DEF Written
  <2>7. /\ i \in 1..Len(keys) + 1 /\ ToSet(postings) \subseteq Edges /\ Len(fst) <= Len(keys)
        /\ \A L \in Levels : Len(levels[L].e) <= K /\ counts[L] \in 0..Len(keys)
    <3>0. \A L \in Levels : /\ Len(FreshLevels[L].e) <= K
                            /\ NoCounts[L] \in 0..Len(keys)
      <4>1. Len(NewTopK.e) = 0 BY DEF NewTopK
      <4> QED BY <2>3, <4>1 DEF FreshLevels, NoCounts
    <3>1. CASE pc = "start"
      <4>1. Unwritten BY <2>1, <3>1
      <4>2. i = 1 /\ levels = FreshLevels /\ counts = NoCounts /\ postings = <<>> /\ fst = <<>>
        BY <4>1 DEF Unwritten
      <4>3. Len(fst) = 0 /\ ToSet(postings) = {} BY <4>2 DEF ToSet
      <4> QED BY <2>3, <3>0, <4>2, <4>3
    <3>2. CASE pc \in {"hot", "cchot"}
      <4>1. PICK b \in BOOLEAN : HotInv(b) /\ ListInv(b)
        BY <2>0, <2>1, <3>2 DEF Written, Shortlisted
      <4>2. postings = <<>> /\ fst = <<>> BY <2>1, <3>2 DEF Written
      <4>3. Len(fst) = 0 /\ ToSet(postings) = {} BY <4>2 DEF ToSet
      <4>4. \A L \in Levels : Len(levels[L].e) <= K /\ counts[L] \in 0..Len(keys)
        BY <2>2, <4>1, LevelsTyped
      <4>5. i \in 1..Len(keys) + 1 BY <4>1 DEF HotInv
      <4> QED BY <2>3, <4>3, <4>4, <4>5
    <3>3. CASE pc \in {"postings", "done"}
      <4>1. /\ i \in 1..Len(keys) + 1 /\ levels = FreshLevels /\ counts = NoCounts
            /\ ToSet(postings) \subseteq Edges /\ (\E S : fst \in Seq(S))
            /\ Len(fst) + (IF postings = <<>> THEN 0 ELSE 1) <= i - 1
        BY <2>0, <3>3 DEF Bounded
      <4>2. Len(fst) \in Nat BY <4>1
      <4>3. Len(fst) <= Len(keys) BY <2>3, <4>1, <4>2
      <4> QED BY <3>0, <4>1, <4>3
    <3> QED BY <2>1, <3>1, <3>2, <3>3 DEF Written
  <2>8. TypeOK BY <2>4, <2>5, <2>6, <2>7 DEF TypeOK
  <2> QED BY <2>0, <2>1, <2>8 DEF BuildTypeOK, Typed, Graded
<1> QED BY <1>1, AlwaysCollected, AlwaysIndexed, AlwaysShortlisted, AlwaysBounded, PTL

\* What can be found in the index that was written, country, key, record and score, is
\* what the files say of the places: no name of an alternate-names line is lost or goes
\* to another place, none is kept that is empty or too long, and the score is that of
\* the best class among the names that fold to the key.
THEOREM BuildPlacesFound == BuildSpec => []PlacesFound
<1>1. Collected /\ Indexed /\ (stage # "failed" => Linked) => PlacesFound
  <2> DEFINE F(m, j) == <<countries[fst[m][1][1] + 1], fst[m][1][2],
                          fst[m][2][j].ord, fst[m][2][j].score>>
             S(n, x) == <<dump[n].country, x[1], OrdinalOf(n), BestScore(n, x[1])>>
             There == UNION {{F(m, j) : j \in DOMAIN fst[m][2]} : m \in DOMAIN fst}
             Said == UNION {{S(n, x) : x \in Searchable(n)} : n \in Places}
  <2>0. SUFFICES ASSUME Collected, Indexed, stage # "failed" => Linked, pc = "done"
                 PROVE  There = Said
    BY DEF PlacesFound
  <2>1. Typed /\ Linked /\ stage = "index" /\ FstRight(fst)
    BY <2>0 DEF Collected, Indexed, Gathered, Written
  <2>2. ASSUME NEW m \in DOMAIN fst, NEW j \in DOMAIN fst[m][2]
        PROVE  \E n \in Places : \E x \in Searchable(n) : F(m, j) = S(n, x)
    <3>1. PICK e \in Edges : fst[m][1] = KeyOf(e) BY <2>1 DEF FstRight
    <3>2. PICK c, p, list : fst[m][1] = <<c, p>> /\ list = fst[m][2]
      BY <3>1 DEF KeyOf
    <3>3. RightList(<<c, p>>, list) BY <2>1, <3>2 DEF FstRight
    <3>4. \E n \in Places : \E x \in Searchable(n) :
            <<countries[c + 1], p, list[j].ord, list[j].score>> = S(n, x)
      BY <2>1, <3>2, <3>3, FoundIsSaid
    <3> QED BY <3>2, <3>4
  <2>3. ASSUME NEW n \in Places, NEW x \in Searchable(n)
        PROVE  \E m \in DOMAIN fst : \E j \in DOMAIN fst[m][2] : S(n, x) = F(m, j)
    BY <2>1, SaidIsFound
  <2> HIDE DEF F, S
  <2>4. There \subseteq Said BY <2>2
  <2>5. Said \subseteq There BY <2>3
  <2> QED BY <2>4, <2>5
<1> QED BY <1>1, AlwaysCollected, AlwaysIndexed, AlwaysLinked, PTL

\* Walking the keys from a query to the bound computed for it, past bytes of 0xff and into
\* the country's own two bytes when need be, finds the places that the files put under a
\* name beginning so and no neighbour, for any names, number of countries and query.
THEOREM BuildWalksFind == BuildSpec => []WalksFind
<1>1. Collected /\ Indexed /\ Graded /\ (stage # "failed" => Linked) => WalksFind
  <2>0. SUFFICES ASSUME Collected, Indexed, Graded, stage # "failed" => Linked, pc = "done"
                 PROVE  WalksFind
    BY DEF WalksFind
  <2>1. /\ Typed /\ TablesOK /\ Linked /\ stage = "index" /\ FstRight(fst)
        /\ RecordsOK /\ KeysOK
    BY <2>0 DEF Collected, Indexed, Gathered, Written
  <2>2. Readable BY <2>0, <2>1 DEF Readable
  <2> QED BY <2>1, <2>2, WalkRight DEF WalksFind
<1> QED BY <1>1, AlwaysCollected, AlwaysIndexed, AlwaysShortlisted, AlwaysLinked, PTL

\* A shortlist and a walk answer a prefix alike, within a country and across them, for any
\* K and threshold: the searches may take either.
THEOREM BuildListsMatchWalks == BuildSpec => []ListsMatchWalks
<1>1. Collected /\ Indexed /\ Graded /\ Shortlisted /\ (stage # "failed" => Linked)
        => ListsMatchWalks
  <2>0. SUFFICES ASSUME Collected, Indexed, Graded, Shortlisted, stage # "failed" => Linked,
                        pc = "done"
                 PROVE  ListsMatchWalks
    BY DEF ListsMatchWalks
  <2>1. /\ Typed /\ TablesOK /\ Linked /\ stage = "index" /\ FstRight(fst)
        /\ RecordsOK /\ KeysOK
    BY <2>0 DEF Collected, Indexed, Gathered, Written
  <2>2. Readable BY <2>0, <2>1 DEF Readable
  <2>3. FstLists(hotFST) /\ FstLists(ccHotFST) BY <2>0 DEF Shortlisted
  <2> QED BY <2>1, <2>2, <2>3, ListedWalks DEF ListsMatchWalks
<1> QED BY <1>1, AlwaysCollected, AlwaysIndexed, AlwaysShortlisted, AlwaysLinked, PTL

-----------------------------------------------------------------------------
\* The lines read from the dump and, by AltsRead, from the alternate names are none that
\* end a build.
RowsRead == IF stage = "records" THEN 1..line ELSE DOMAIN dump
Clean ==
  /\ \A n \in RowsRead : ~Unreadable(dump[n])
  /\ \A n \in 1..AltsRead : alts[n].form # "lost"

\* A row that ends the build is never got past, in either file.
LEMMA NextClean ==
  ASSUME Typed, Linked, Clean, [BuildNext]_buildVars, stage # "failed", stage' # "failed"
  PROVE  Clean'
<1>0. /\ line \in Nat /\ DOMAIN dump = 1..Len(dump) /\ DOMAIN alts = 1..Len(alts)
      /\ Len(dump) \in Nat /\ Len(alts) \in Nat
      /\ (stage = "altnames" => line <= Len(alts))
  BY DEF Typed, Linked
<1>1. dump' = dump /\ alts' = alts
  BY DEF BuildNext, FailRow, SkipRow, AddRecord, RecordsDone, FailAlt, SkipAlt, AddAlt, AltsDone,
         WriteIndex, Failed, buildVars, files
<1>2. CASE SkipRow \/ AddRecord
  <2>1. /\ stage = "records" /\ stage' = "records" /\ line' = line + 1
        /\ ~Unreadable(dump[line + 1])
    BY <1>2 DEF SkipRow, AddRecord, ReadingRow, Row
  <2>2. \A n \in 1..line + 1 : n \in 1..line \/ n = line + 1 BY <1>0
  <2>3. \A n \in RowsRead' : ~Unreadable(dump[n]) BY <2>1, <2>2 DEF RowsRead, Clean
  <2>4. AltsRead' = AltsRead BY <2>1 DEF AltsRead
  <2> QED BY <1>1, <2>3, <2>4 DEF Clean, Unreadable
<1>3. CASE RecordsDone
  <2>1. stage = "records" /\ stage' = "altnames" /\ line = Len(dump) /\ line' = 0
    BY <1>3 DEF RecordsDone
  <2>2. RowsRead' = RowsRead BY <1>0, <1>1, <2>1 DEF RowsRead
  <2>3. AltsRead' = AltsRead BY <2>1 DEF AltsRead
  <2> QED BY <1>1, <2>2, <2>3 DEF Clean, Unreadable
<1>4. CASE SkipAlt \/ AddAlt
  <2>1. /\ stage = "altnames" /\ stage' = "altnames" /\ line' = line + 1
        /\ alts[line + 1].form # "lost"
    BY <1>4 DEF SkipAlt, AddAlt, ReadingAlt, Alt, Usable
  <2>2. \A n \in 1..line + 1 : n \in 1..line \/ n = line + 1 BY <1>0
  <2>3. AltsRead' = line + 1 /\ AltsRead = line BY <2>1 DEF AltsRead
  <2>4. RowsRead' = RowsRead BY <1>1, <2>1 DEF RowsRead
  <2> QED BY <1>1, <2>1, <2>2, <2>3, <2>4 DEF Clean, Unreadable
<1>5. CASE AltsDone
  <2>1. stage = "altnames" /\ stage' = "index" /\ line = Len(alts) BY <1>5 DEF AltsDone
  <2>2. AltsRead' = AltsRead BY <1>1, <2>1 DEF AltsRead
  <2>3. RowsRead' = RowsRead BY <1>1, <2>1 DEF RowsRead
  <2> QED BY <1>1, <2>2, <2>3 DEF Clean, Unreadable
<1>6. CASE WriteIndex \/ UNCHANGED buildVars
  <2>1. stage' = stage /\ line' = line BY <1>6 DEF WriteIndex, buildVars
  <2>2. AltsRead' = AltsRead BY <1>1, <2>1 DEF AltsRead
  <2>3. RowsRead' = RowsRead BY <1>1, <2>1 DEF RowsRead
  <2> QED BY <1>1, <2>2, <2>3 DEF Clean, Unreadable
<1>7. CASE FailRow \/ FailAlt \/ Failed BY <1>7 DEF FailRow, FailAlt, Failed
<1> QED BY <1>2, <1>3, <1>4, <1>5, <1>6, <1>7 DEF BuildNext

\* A failed build stays failed.
LEMMA FailedStays == Typed /\ [BuildNext]_buildVars /\ stage = "failed" => stage' = "failed"
BY DEF BuildNext, FailRow, SkipRow, AddRecord, RecordsDone, FailAlt, SkipAlt, AddAlt, AltsDone,
       WriteIndex, Failed, buildVars, ReadingRow, ReadingAlt

\* Every build that has not failed is clean.
LEMMA AlwaysClean == BuildSpec => [](stage # "failed" => Clean)
<1>1. BuildInit => (stage # "failed" => Clean)
  BY DEF BuildInit, Clean, RowsRead, AltsRead
<1>2. Typed /\ (stage # "failed" => Linked) /\ (stage # "failed" => Clean) /\ [BuildNext]_buildVars
        => (stage # "failed" => Clean)'
  BY NextClean, FailedStays
<1>3. Collected => Typed BY DEF Collected
<1> QED BY <1>1, <1>2, <1>3, AlwaysCollected, AlwaysLinked, PTL DEF BuildSpec

\* A build that comes to the index has met no more countries than it has numbers for.
LEMMA CountriesFit ==
  ASSUME Typed, TablesOK, Linked, Graded, stage = "index"
  PROVE  ~(Cardinality({dump[n].country : n \in Places}) > MaxCountries)
<1> DEFINE C == {dump[n].country : n \in Places}
           D == {c \in Country : c + 1 \in 1..Len(countries)}
           f == [c \in D |-> countries[c + 1]]
<1>1. Country = 0..MaxCountries - 1 /\ MaxCountries \in Nat \ {0} BY BuildAssumption
<1>2. PICK m \in Int : m = MaxCountries - 1 BY <1>1
<1>3. IsFiniteSet(Country) /\ Cardinality(Country) = MaxCountries
  <2>1. IsFiniteSet(0..m) /\ Cardinality(0..m) = m - 0 + 1 BY <1>1, <1>2, FS_Interval
  <2> QED BY <1>1, <1>2, <2>1
<1>4. D \subseteq Country OBVIOUS
<1>5. \A n \in Places : RecordOf(dump[n], OrdinalOf(n))
  BY EdgesOfPlaces DEF Linked, RecordsLinked
<1>6. ASSUME NEW n \in Places PROVE \E c \in D : dump[n].country = f[c]
  <2>1. PICK c : c = recCountry[OrdinalOf(n)] OBVIOUS
  <2>2. c + 1 \in 1..Len(countries) /\ countries[c + 1] = dump[n].country
    BY <1>5, <2>1 DEF RecordOf
  <2>3. c \in Country BY <1>5, <2>1 DEF RecordOf, Graded
  <2> QED BY <2>2, <2>3
<1>7. PICK F : F = {f[c] : c \in D} OBVIOUS
<1>8. f \in Surjection(D, F) BY <1>7 DEF Surjection
<1>9. C \subseteq F BY <1>6, <1>7
<1> HIDE DEF C, D, f
<1>10. IsFiniteSet(D) /\ Cardinality(D) <= Cardinality(Country) BY <1>3, <1>4, FS_Subset
<1>11. IsFiniteSet(F) /\ Cardinality(F) <= Cardinality(D) BY <1>8, <1>10, FS_Surjection
<1>12. IsFiniteSet(C) /\ Cardinality(C) <= Cardinality(F) BY <1>9, <1>11, FS_Subset
<1>13. Cardinality(C) \in Nat /\ Cardinality(D) \in Nat /\ Cardinality(F) \in Nat
  BY <1>10, <1>11, <1>12, FS_CardinalityType
<1>14. ~(Cardinality(C) > MaxCountries)
  BY <1>1, <1>3, <1>10, <1>11, <1>12, <1>13
<1> QED BY <1>14 DEF C

\* A build gives up on a row it cannot make out, a file it cannot read to the end or a
\* country too many and on nothing else, and with one of these in the files it never gets
\* to the index, whatever else they hold (ReadDump, ReadAltNames and writeRecords).
THEOREM BuildFailsForCause == BuildSpec => []FailsForCause
<1>1. Collected /\ Graded /\ (stage # "failed" => Linked) /\ (stage # "failed" => Clean)
        => FailsForCause
  <2>0. SUFFICES ASSUME Collected, Graded, stage # "failed" => Linked,
                        stage # "failed" => Clean
                 PROVE  FailsForCause
    OBVIOUS
  <2>1. stage = "failed" => Cause BY <2>0 DEF Collected, Blamed
  <2>2. ASSUME stage = "index" PROVE ~Cause
    <3>1. Typed /\ TablesOK /\ Linked /\ Clean BY <2>0, <2>2 DEF Collected
    <3>2. RowsRead = DOMAIN dump /\ 1..AltsRead = DOMAIN alts
      BY <2>2, <3>1 DEF RowsRead, AltsRead, Typed
    <3>3. /\ \A n \in DOMAIN dump : ~Unreadable(dump[n])
          /\ \A n \in DOMAIN alts : alts[n].form # "lost"
      BY <3>1, <3>2 DEF Clean
    <3>4. ~(Cardinality({dump[n].country : n \in Places}) > MaxCountries)
      BY <2>0, <2>2, <3>1, CountriesFit
    <3> QED BY <3>3, <3>4 DEF Cause
  <2> QED BY <2>1, <2>2 DEF FailsForCause
<1> QED BY <1>1, AlwaysCollected, AlwaysShortlisted, AlwaysLinked, AlwaysClean, PTL
=============================================================================
