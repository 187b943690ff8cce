-------------------------------- MODULE Build --------------------------------
(***************************************************************************)
(* index.Build (internal/index/writer.go) from the GeoNames files to a     *)
(* finished index: writeRecords and addAltNames collect records and names, *)
(* writeIndex (module Writer) turns the names into FSTs.  What a reader    *)
(* makes of a record (reader.go, recordAt and decode) is here as well.     *)
(*                                                                         *)
(* A line of a file is a record of what its columns say.  Where a file     *)
(* cannot be read on (a line longer than the scanner's buffer, damaged     *)
(* data, no file at all) its line is lost; what a failing read had of one  *)
(* is handed out first, and is a line of its own here.  Spellings are      *)
(* values, Fold gives their folded bytes; coordinates, which are copied    *)
(* like the population, are left out.  records.bin is a sequence of cells: *)
(* an encoded place takes as many as it has bytes.                         *)
(***************************************************************************)
EXTENDS Writer

CONSTANTS Column,           \* what a column of text may hold
          Fold,             \* geonames.Fold: spelling -> bytes of its key
          NoName,           \* the spelling of an empty column
          ProminenceOf,     \* <<population, feature code>> -> Prominence
          Admin1,           \* Tables.Admin1: <<country code, admin1 code>> -> region
          NoRegion,         \* the name of no region, ""
          Filter,           \* [countries, minPopulation, includeParts]
          PseudoLanguages,
          MaxKeyLen,        \* 255
          MaxCountries,     \* 2^16
          Width,            \* 2^32, where record offsets wrap
          Query             \* the folded bytes of what is searched for

ASSUME BuildAssumption ==
  /\ MaxCountries \in Nat \ {0} /\ Width \in Nat \ {0} /\ MaxKeyLen \in Nat
  /\ Country = 0..MaxCountries - 1
  /\ NoName \in DOMAIN Fold /\ Fold[NoName] = <<>>
  /\ \A s \in DOMAIN Fold :
       Fold[s] \in Seq(Nat) /\ (Len(Fold[s]) \in 1..MaxKeyLen => Fold[s] \in Name)
  /\ 0..3 \subseteq Class /\ \A x \in DOMAIN ProminenceOf : ProminenceOf[x] \in Int
  /\ \A x \in DOMAIN ProminenceOf, c \in Class : ProminenceOf[x] - Penalty[c] \in Score
  /\ NoRegion \in Column /\ \A x \in DOMAIN Admin1 : Admin1[x] \in Column

Byte == {b \in Nat : b < 256}

\* A key takes bytes, two of them for the country.
ASSUME KeyAssumption ==
  Name \subseteq Seq(Byte) /\ Query \subseteq Seq(Byte) /\ MaxCountries <= 65536

VARIABLES dump, alts,       \* the lines of the two files
          stage,            \* what Build is doing
          line,             \* the lines of the current file already read
          records,          \* records.bin
          recOffsets,
          idToOrd,
          countries, regions, features      \* the manifest's string tables

files == <<dump, alts>>
tables == <<countries, regions, features>>
collected == <<records, recOffsets, idToOrd, tables>>
writing == <<pc, i, levels, counts, hots, hotFST, ccHotFST, postings, fst>>
buildVars == <<files, stage, line, collected, vars>>

Put(f, x, v) == [y \in DOMAIN f \cup {x} |-> IF y = x THEN v ELSE f[y]]

-----------------------------------------------------------------------------
\* Live.
Dead == {"PPLH", "PPLCH", "PPLQ", "PPLW"}

\* Filter.keep.
Kept(r) ==
  /\ r.feature \notin Dead
  /\ r.feature = "PPLX" => Filter.includeParts
  /\ r.population >= Filter.minPopulation
  /\ r.country \in Filter.countries

\* Tables.Region: no code, the code that means none, and an unknown one.
Region(r) ==
  IF r.admin1 \notin {"", "00"} /\ <<r.country, r.admin1>> \in DOMAIN Admin1
  THEN Admin1[<<r.country, r.admin1>>] ELSE NoRegion

\* intern*: the table with s in it, and where s is, counting from 0.
Interned(table, s) == IF s \in ToSet(table) THEN table ELSE Append(table, s)
IndexIn(table, s) == (CHOOSE n \in DOMAIN table : table[n] = s) - 1

\* Mutant of WithRegion: no entry is set aside for "no region".
WithRegionFromZero(s) == IF s = NoRegion THEN regions ELSE Interned(regions, s)

\* internRegion: entry 0 stands for "no region".
WithRegion(s) ==
  IF s = NoRegion THEN regions
  ELSE Interned(IF regions = <<>> THEN <<NoRegion>> ELSE regions, s)

RegionIndex(s) == IF s = NoRegion THEN 0 ELSE IndexIn(WithRegion(s), s)

Encoded(r) ==
  [id |-> r.id, population |-> r.population, name |-> r.name, size |-> r.size,
   feature |-> IndexIn(Interned(features, r.feature), r.feature),
   country |-> IndexIn(Interned(countries, r.country), r.country),
   region |-> RegionIndex(Region(r))]

Cells(e) == [n \in 1..e.size |-> <<e, n>>]

\* addKey.
KeyFor(s, o, class) ==
  IF Fold[s] = <<>> \/ Len(Fold[s]) > MaxKeyLen THEN <<>>
  ELSE <<[name |-> Fold[s], ord |-> o, class |-> class]>>

\* The primary names of a row.
OwnKeys(r, o) ==
  KeyFor(r.name, o, 0) \o (IF r.ascii \in {NoName, r.name} THEN <<>> ELSE KeyFor(r.ascii, o, 0))

-----------------------------------------------------------------------------
\* The lines the two files may hold.  An encoded place has a byte at least.
DumpLine ==
  [form : {"full", "short", "bad id", "lost"}, class : Column, id : Int, feature : Column,
   country : Column, admin1 : Column, population : Nat, name : DOMAIN Fold,
   ascii : DOMAIN Fold, size : Nat \ {0}]
AltLine ==
  [form : {"full", "short", "bad id", "lost"}, colloquial : BOOLEAN, historic : BOOLEAN,
   preferred : BOOLEAN, short : BOOLEAN, lang : Column, name : DOMAIN Fold, id : Int]

BuildInit ==
  /\ dump \in Seq(DumpLine) /\ alts \in Seq(AltLine)
  /\ \A n \in DOMAIN dump : <<dump[n].population, dump[n].feature>> \in DOMAIN ProminenceOf
  /\ 0..Len(dump) - 1 \subseteq Ord
  /\ stage = "records" /\ line = 0
  /\ records = <<>> /\ recOffsets = <<>> /\ idToOrd = <<>>
  /\ countries = <<>> /\ regions = <<>> /\ features = <<>>
  /\ keys = <<>> /\ recCountry = <<>> /\ prominence = <<>>
  /\ Init

Row == dump[line + 1]
ReadingRow == stage = "records" /\ line < Len(dump)

\* A row that cannot be read ends the build; the class is looked at before the id.
Unreadable(r) == r.form \in {"lost", "short"} \/ (r.class = "P" /\ r.form = "bad id")

FailRow ==
  /\ ReadingRow /\ Unreadable(Row)
  /\ stage' = "failed"
  /\ UNCHANGED <<files, line, collected, vars>>

SkipRow ==
  /\ ReadingRow /\ ~Unreadable(Row)
  /\ Row.class # "P" \/ ~Kept(Row)
  /\ line' = line + 1
  /\ UNCHANGED <<files, stage, collected, vars>>

\* Mutants of TooMany: a country too early, and never.
TooManyEarly(c) == c + 1 >= MaxCountries
TooManyNever(c) == FALSE

TooMany(c) == c >= MaxCountries

\* writeRecords' callback.  Offsets, ids and tables change before the check.
AddRecord ==
  LET r == Row
      o == Len(recOffsets)
      e == Encoded(r)
  IN /\ ReadingRow /\ ~Unreadable(r) /\ r.class = "P" /\ Kept(r)
     /\ recOffsets' = Append(recOffsets, Len(records) % Width)
     /\ idToOrd' = Put(idToOrd, r.id, o)
     /\ prominence' = Put(prominence, o, ProminenceOf[<<r.population, r.feature>>])
     /\ features' = Interned(features, r.feature)
     /\ countries' = Interned(countries, r.country)
     /\ regions' = WithRegion(Region(r))
     /\ IF TooMany(e.country)
        THEN stage' = "failed" /\ UNCHANGED <<line, recCountry, records, keys>>
        ELSE /\ recCountry' = Put(recCountry, o, e.country % MaxCountries)
             /\ records' = records \o Cells(e)
             /\ keys' = keys \o OwnKeys(r, o)
             /\ line' = line + 1
             /\ UNCHANGED stage
     /\ UNCHANGED <<files, writing>>

\* The sentinel: where the last record ends.
RecordsDone ==
  /\ stage = "records" /\ line = Len(dump)
  /\ recOffsets' = Append(recOffsets, Len(records) % Width)
  /\ stage' = "altnames" /\ line' = 0
  /\ UNCHANGED <<files, records, idToOrd, tables, vars>>

-----------------------------------------------------------------------------
Alt == alts[line + 1]
ReadingAlt == stage = "altnames" /\ line < Len(alts)

\* What ReadAltNames hands on for a wanted id; the rest, malformed lines included,
\* is passed over.
Usable(a) ==
  /\ a.form = "full" /\ ~a.colloquial
  /\ a.lang \notin PseudoLanguages /\ a.name # NoName
Wanted(a) == a.id \in DOMAIN idToOrd

\* Historic wins over every other flag, and "en" is official.
ClassOf(a) ==
  IF a.historic THEN 3
  ELSE IF a.preferred \/ a.short \/ a.lang = "en" THEN 1 ELSE 2

\* Mutant of FailAlt: the scanner's error is not asked for.
FailAltUnseen ==
  /\ ReadingAlt /\ Alt.form = "lost"
  /\ stage' = "index"
  /\ UNCHANGED <<files, line, collected, vars>>

\* The scanner's error.
FailAlt ==
  /\ ReadingAlt /\ Alt.form = "lost"
  /\ stage' = "failed"
  /\ UNCHANGED <<files, line, collected, vars>>

SkipAlt ==
  /\ ReadingAlt /\ Alt.form # "lost" /\ ~(Usable(Alt) /\ Wanted(Alt))
  /\ line' = line + 1
  /\ UNCHANGED <<files, stage, collected, vars>>

AddAlt ==
  /\ ReadingAlt /\ Usable(Alt) /\ Wanted(Alt)
  /\ keys' = keys \o KeyFor(Alt.name, idToOrd[Alt.id], ClassOf(Alt))
  /\ line' = line + 1
  /\ UNCHANGED <<files, stage, collected, recCountry, prominence, writing>>

\* A build without alternate names comes here with no lines.
AltsDone ==
  /\ stage = "altnames" /\ line = Len(alts)
  /\ stage' = "index"
  /\ UNCHANGED <<files, line, collected, vars>>

WriteIndex == stage = "index" /\ Next /\ UNCHANGED <<files, stage, line, collected>>

\* Build has returned an error; stuttering here tells the end from a deadlock.
Failed == stage = "failed" /\ UNCHANGED buildVars

BuildNext ==
  \/ FailRow \/ SkipRow \/ AddRecord \/ RecordsDone
  \/ FailAlt \/ SkipAlt \/ AddAlt \/ AltsDone
  \/ WriteIndex \/ Failed

BuildSpec == BuildInit /\ [][BuildNext]_buildVars

-----------------------------------------------------------------------------
\* The reader's side.
NoRecord == [error |-> TRUE]

\* Nothing when it is an error.
RecordAt(ord) ==
  IF ord + 1 >= Len(recOffsets) THEN <<>>
  ELSE LET start == recOffsets[ord + 1]
           end == recOffsets[ord + 2]
       IN IF start > end \/ end > Len(records) THEN <<>>
          ELSE SubSeq(records, start + 1, end)

EntryOf(table, n) == IF n < Len(table) THEN table[n + 1] ELSE ""

\* decode, of bytes that are one place; of others it yields anything or an error.
Decode(ord) ==
  LET b == RecordAt(ord)
  IN IF b = <<>> \/ b # Cells(b[1][1]) THEN NoRecord
     ELSE LET e == b[1][1]
          IN [id |-> e.id, name |-> e.name, population |-> e.population,
              kind |-> EntryOf(features, e.feature), cc |-> EntryOf(countries, e.country),
              region |-> IF e.region > 0 THEN EntryOf(regions, e.region) ELSE NoRegion]

\* appendCountryKey: the country in two bytes, then the name.
High(c) == c \div 256
Low(c) == c % 256
KeyBytes(c, name) == <<High(c), Low(c)>> \o name

\* prefixSuccessor: the last byte that can goes up, and the string ends there; no bound
\* if none can.
Successor(p) ==
  LET n == Max({0} \cup {m \in DOMAIN p : p[m] < 255})
  IN IF n = 0 THEN <<>> ELSE [SubSeq(p, 1, n) EXCEPT ![n] = @ + 1]

\* The key of an entry of names.fst.
EntryKey(n) == KeyBytes(fst[n][1][1], fst[n][1][2])

\* Mutant of Met: the walk takes the bound in.
MetThrough(c, q) ==
  LET lo == KeyBytes(c, q)
      hi == Successor(lo)
  IN {n \in DOMAIN fst : ~NameBefore(EntryKey(n), lo) /\ (hi # <<>> => ~NameBefore(hi, EntryKey(n)))}

\* scanCountry, without a budget: the entries of names.fst it comes to.
Met(c, q) ==
  LET lo == KeyBytes(c, q)
      hi == Successor(lo)
  IN {n \in DOMAIN fst : ~NameBefore(EntryKey(n), lo) /\ (hi # <<>> => NameBefore(EntryKey(n), hi))}

\* Its postings as Search's keep leaves them: each record at its highest score.
Found(N) ==
  LET ps == UNION {ToSet(fst[n][2]) : n \in N}
  IN [o \in {x.ord : x \in ps} |-> Max({x.score : x \in {y \in ps : y.ord = o}})]

-----------------------------------------------------------------------------
\* What the properties compare the index with, read off the files alone: the lines
\* of places, and the ordinal of each, counting from 0.
Places == {n \in DOMAIN dump : dump[n].class = "P" /\ Kept(dump[n])}
OrdinalOf(n) == Cardinality({m \in Places : m < n})
IsPlaceOf(n, x) == dump[n].id = x /\ \A m \in Places : m > n => dump[m].id # x

\* <<the name, its class>> of the place at line n, as a line of either file gives it.
NamesOf(n) ==
  {<<Fold[dump[n].name], 0>>, <<Fold[dump[n].ascii], 0>>}
    \cup {<<Fold[alts[m].name], ClassOf(alts[m])>> :
            m \in {k \in DOMAIN alts : Usable(alts[k]) /\ IsPlaceOf(n, alts[k].id)}}
Searchable(n) == {x \in NamesOf(n) : x[1] # <<>> /\ Len(x[1]) <= MaxKeyLen}
BestScore(n, name) ==
  Fixed(Max({ProminenceOf[<<dump[n].population, dump[n].feature>>] - Penalty[x[2]] :
               x \in {y \in Searchable(n) : y[1] = name}}))

BuildTypeOK ==
  /\ TypeOK
  /\ stage \in {"records", "altnames", "index", "failed"}
  /\ line \in Nat
  /\ DOMAIN recCountry \subseteq Ord /\ \A o \in DOMAIN recCountry : recCountry[o] \in Country
  /\ \A x \in DOMAIN idToOrd : idToOrd[x] \in Ord
  /\ stage # "index" => pc = "start"

\* Whatever was packed reads back: the ordinal of every kept row decodes to that
\* row, its strings resolved through the manifest's tables, and the ordinal after
\* the last to nothing (encodeRecord, internRegion and writeRecordIndex against
\* recordAt and decode), as long as the offsets do not wrap.
RecordsReadBack ==
  stage = "index" /\ pc = "start" /\ Len(records) < Width =>
    /\ \A n \in Places :
         LET r == dump[n]
         IN Decode(OrdinalOf(n)) = [id |-> r.id, name |-> r.name, population |-> r.population,
                             kind |-> r.feature, cc |-> r.country, region |-> Region(r)]
    /\ Decode(Cardinality(Places)) = NoRecord

\* names.fst lists what the two files say and nothing else: each place under each
\* of its names, at the score of its best class, in the country whose code
\* the manifest has at that index (writeRecords and addAltNames to writeIndex; of
\* rows with one id the last gets the alternate names).
PlacesFound ==
  pc = "done" =>
    UNION {{<<countries[fst[m][1][1] + 1], fst[m][1][2], fst[m][2][j].ord, fst[m][2][j].score>> :
              j \in DOMAIN fst[m][2]} : m \in DOMAIN fst}
    = UNION {{<<dump[n].country, x[1], OrdinalOf(n), BestScore(n, x[1])>> :
                x \in Searchable(n)} : n \in Places}

\* The names of the place at line n that begin with q, and the best of their scores.
NamesUnder(n, q) == {x \in Searchable(n) : IsPrefix(q, x[1])}
BestUnder(n, q) ==
  Fixed(Max({ProminenceOf[<<dump[n].population, dump[n].feature>>] - Penalty[x[2]] :
               x \in NamesUnder(n, q)}))

CountryIndexes == 0..Len(countries) - 1

\* Walking the keys from q to the bound computed for it, in one country, finds the places
\* that the files put there under a name beginning so, each at its best score, and no
\* neighbour; the keys as long as q are the exact matches (scanCountry and
\* prefixSuccessor against all that Build does).
WalksFind ==
  pc = "done" =>
    \A c \in CountryIndexes, q \in Query :
      LET found == Found(Met(c, q))
          exact == Found({m \in Met(c, q) : Len(fst[m][1][2]) = Len(q)})
          there == {n \in Places : dump[n].country = countries[c + 1]}
          under == {n \in there : NamesUnder(n, q) # {}}
          named == {n \in there : \E x \in Searchable(n) : x[1] = q}
      IN /\ DOMAIN found = {OrdinalOf(n) : n \in under}
         /\ \A n \in under : found[OrdinalOf(n)] = BestUnder(n, q)
         /\ DOMAIN exact = {OrdinalOf(n) : n \in named}
         /\ \A n \in named : exact[OrdinalOf(n)] = BestScore(n, q)

\* What a query reads off a shortlist is a best-K list of what it would find by walking,
\* in the country or in all of them: two files written in separate passes over the
\* edges agree, which all that the searches trust a list for rests on.
ListsMatchWalks ==
  pc = "done" =>
    \A q \in Query :
      /\ \A c \in CountryIndexes : <<c, q>> \in DOMAIN ccHotFST =>
           IsShortlist(Found(Met(c, q)), Listed(ccHotFST[<<c, q>>]))
      /\ <<World, q>> \in DOMAIN hotFST =>
           IsShortlist(Found(UNION {Met(c, q) : c \in CountryIndexes}),
                       Listed(hotFST[<<World, q>>]))

Cause ==
  \/ \E n \in DOMAIN dump : Unreadable(dump[n])
  \/ Cardinality({dump[n].country : n \in Places}) > MaxCountries
  \/ \E n \in DOMAIN alts : alts[n].form = "lost"

\* The collection gives up on a row it cannot make out, on a country too many and on a
\* file it cannot read to the end, and on nothing else: not on a malformed line among the
\* alternate names.  It never gets to the index with one of these behind it, so no
\* index lacks the rest of a file (ReadDump, ReadAltNames and writeRecords' callback).
FailsForCause ==
  /\ stage = "failed" => Cause
  /\ stage = "index" => ~Cause
=============================================================================
