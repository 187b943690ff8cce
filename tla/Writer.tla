------------------------------- MODULE Writer -------------------------------
(***************************************************************************)
(* builder.writeIndex (internal/index/writer.go): from the edges collected *)
(* off the GeoNames files (module Build, which runs it) to the index a     *)
(* reader queries.  Two passes over the sorted edges collect the hot       *)
(* prefixes, of the world and of each country; a third writes the posting  *)
(* lists and their FST.  A step handles one edge.                          *)
(*                                                                         *)
(* A name is the sequence of its folded bytes.  Scores here are the ones   *)
(* the sort sees, Fine to a stored unit.                                   *)
(***************************************************************************)
EXTENDS Heap, TLC

CONSTANTS Country, Name, Class,
          Penalty,          \* classPenalty: class -> what it costs
          Fine,             \* raw score units per stored one (1/scoreScale)
          HotThreshold, MaxPrefixLen

ASSUME WriterAssumption ==
  /\ Ord \subseteq Nat /\ Country \subseteq Nat
  /\ HotThreshold \in Nat \ {0} /\ MaxPrefixLen \in Nat \ {0} /\ Fine \in Nat \ {0}
  /\ Penalty \in [Class -> Nat] /\ Name \subseteq Seq(Nat)

VARIABLES keys,         \* b.keys: the edges [name, ord, class]
          recCountry, prominence,
          pc, i,
          levels, counts,       \* collectHot, per prefix length
          hots,                 \* its output: [key, list]
          hotFST, ccHotFST,     \* key -> shortlist
          postings,             \* the edges of the key being written
          fst                   \* <<key, posting list>>, in the order inserted

build == <<keys, recCountry, prominence>>
vars == <<build, pc, i, levels, counts, hots, hotFST, ccHotFST, postings, fst>>

Edge == [name : Name, ord : Ord, class : Class]
Levels == 1..MaxPrefixLen
World == -1             \* the country of a key that spans every country

-----------------------------------------------------------------------------
EdgeScore(e) == prominence[e.ord] - Penalty[e.class]

\* int64(score * scoreScale): towards zero.
Fixed(s) == IF s >= 0 THEN s \div Fine ELSE -((-s) \div Fine)

CommonPrefixLen(a, b) ==
  Max({n \in 0..Len(a) : n <= Len(b) /\ SubSeq(a, 1, n) = SubSeq(b, 1, n)})

\* strings.Compare(a, b) < 0.
NameBefore(a, b) ==
  LET n == CommonPrefixLen(a, b)
  IN n < Len(b) /\ (n < Len(a) => a[n + 1] < b[n + 1])

\* sortKeys' comparison.
EdgeBefore(byCountry, x, y) ==
  LET cx == recCountry[x.ord]
      cy == recCountry[y.ord]
  IN IF byCountry /\ cx # cy THEN cx < cy
     ELSE IF x.name # y.name THEN NameBefore(x.name, y.name)
     ELSE IF EdgeScore(x) # EdgeScore(y) THEN EdgeScore(x) > EdgeScore(y)
     ELSE x.ord < y.ord

\* Position a comes before b; edges that compare equal stay in order.
Precedes(byCountry, a, b) ==
  \/ EdgeBefore(byCountry, keys[a], keys[b])
  \/ a < b /\ ~EdgeBefore(byCountry, keys[b], keys[a])

\* How many positions come before a.
Rank(byCountry, a) == Cardinality({b \in DOMAIN keys : Precedes(byCountry, b, a)})

\* Mutant of SortedKeys: the country does not lead.
SortedByName(byCountry) ==
  LET rank == [a \in DOMAIN keys |-> Rank(FALSE, a)]
  IN [n \in DOMAIN keys |-> keys[CHOOSE a \in DOMAIN keys : rank[a] = n - 1]]

\* sortKeys: each edge goes where as many come before it.
SortedKeys(byCountry) ==
  LET rank == [a \in DOMAIN keys |-> Rank(byCountry, a)]
  IN [n \in DOMAIN keys |-> keys[CHOOSE a \in DOMAIN keys : rank[a] = n - 1]]

\* The byte order of names.fst keys: big-endian country, then name.
KeyBefore(j, k) == j[1] < k[1] \/ (j[1] = k[1] /\ NameBefore(j[2], k[2]))

-----------------------------------------------------------------------------
FreshLevels == [L \in Levels |-> NewTopK]
NoCounts == [L \in Levels |-> 0]

Init ==
  /\ pc = "start" /\ i = 1
  /\ levels = FreshLevels /\ counts = NoCounts
  /\ hots = <<>>
  /\ hotFST = <<>> /\ ccHotFST = <<>>
  /\ postings = <<>> /\ fst = <<>>

\* sortKeys(false), and a new collectHot.
Start ==
  /\ pc = "start"
  /\ keys' = SortedKeys(FALSE)
  /\ pc' = "hot"
  /\ UNCHANGED <<recCountry, prominence, i, levels, counts, hots, hotFST, ccHotFST,
                 postings, fst>>

Spans(byCountry, e) == IF byCountry THEN recCountry[e.ord] ELSE World

\* The levels flush(from) closes that turned out to be hot, prev their last edge.
Closed(byCountry, prev, from) ==
  {[key  |-> <<Spans(byCountry, prev), SubSeq(prev.name, 1, L)>>,
    list |-> [j \in DOMAIN levels[L].e |->
                LET c == Drain(levels[L])[j] IN Entry(c.ord, Fixed(c.score))]] :
     L \in {M \in from..MaxPrefixLen : counts[M] >= HotThreshold /\ M <= Len(prev.name)}}

\* Mutant of FlushFrom: a new country closes only what the names do not share.
FlushUnshared(byCountry, prev, e) == CommonPrefixLen(e.name, prev.name) + 1

\* Where a key that differs from the one before starts closing prefixes.
FlushFrom(byCountry, prev, e) ==
  IF Spans(byCountry, e) # Spans(byCountry, prev) THEN 1
  ELSE CommonPrefixLen(e.name, prev.name) + 1

\* Mutant of IsNewKey: every edge counts, also those that share a name.
IsNewEdge(byCountry) == TRUE

\* The current edge's name differs from the previous edge's.
IsNewKey(byCountry) ==
  \/ i = 1
  \/ Spans(byCountry, keys[i]) # Spans(byCountry, keys[i - 1])
  \/ keys[i].name # keys[i - 1].name

\* The body of collectHot's loop.
HotEdge(byCountry) ==
  LET e == keys[i]
      newKey == IsNewKey(byCountry)
      from == IF i > 1 /\ newKey THEN FlushFrom(byCountry, keys[i - 1], e)
              ELSE MaxPrefixLen + 1
      kept == [L \in Levels |-> IF L >= from THEN NewTopK ELSE levels[L]]
      counted == [L \in Levels |-> IF L >= from THEN 0 ELSE counts[L]]
      s == EdgeScore(e)
  IN /\ i <= Len(keys)
     /\ hots' = IF i = 1 THEN hots
                ELSE hots \o SetToSeq(Closed(byCountry, keys[i - 1], from))
     /\ levels' = [L \in Levels |->
                     IF L <= Len(e.name) /\ BeatsMin(kept[L], s)
                     THEN Added(kept[L], e.ord, s) ELSE kept[L]]
     /\ counts' = [L \in Levels |->
                     IF newKey /\ L <= Len(e.name) THEN counted[L] + 1 ELSE counted[L]]
     /\ i' = i + 1
     /\ UNCHANGED <<build, pc, hotFST, ccHotFST, postings, fst>>

\* The last flush, after which writeHot sorts the prefixes into an FST, which
\* refuses a key it already has.
AllHot(byCountry) ==
  IF keys = <<>> THEN hots
  ELSE hots \o SetToSeq(Closed(byCountry, keys[Len(keys)], 1))
Distinct(hs) == \A m, n \in DOMAIN hs : hs[m].key = hs[n].key => m = n
WrittenHot(hs) ==
  [k \in {hs[n].key : n \in DOMAIN hs} |->
     hs[CHOOSE n \in DOMAIN hs : hs[n].key = k].list]

HotDone ==
  /\ pc = "hot" /\ i > Len(keys)
  /\ IF Distinct(AllHot(FALSE))
     THEN hotFST' = WrittenHot(AllHot(FALSE)) /\ pc' = "cchot" /\ keys' = SortedKeys(TRUE)
     ELSE pc' = "refused" /\ UNCHANGED <<hotFST, keys>>
  /\ i' = 1 /\ levels' = FreshLevels /\ counts' = NoCounts /\ hots' = <<>>
  /\ UNCHANGED <<recCountry, prominence, ccHotFST, postings, fst>>

CountryHotDone ==
  /\ pc = "cchot" /\ i > Len(keys)
  /\ IF Distinct(AllHot(TRUE))
     THEN ccHotFST' = WrittenHot(AllHot(TRUE)) /\ pc' = "postings"
     ELSE pc' = "refused" /\ UNCHANGED ccHotFST
  /\ i' = 1 /\ levels' = FreshLevels /\ counts' = NoCounts /\ hots' = <<>>
  /\ UNCHANGED <<build, hotFST, postings, fst>>

-----------------------------------------------------------------------------
KeyOf(e) == <<recCountry[e.ord], e.name>>

\* What flush adds to the FST.
Flushed(ps) ==
  IF ps = <<>> THEN fst
  ELSE Append(fst, <<KeyOf(ps[1]),
                     [j \in DOMAIN ps |-> Entry(ps[j].ord, Fixed(EdgeScore(ps[j])))]>>)

\* vellum's Insert refuses a key that does not come after the last one.
Accepted(f) == Len(f) > 1 => KeyBefore(f[Len(f) - 1][1], f[Len(f)][1])

\* Mutant of WithPosting: a record may be listed twice.
WithEveryPosting(ps, e) == Append(ps, e)

\* One record can reach the same key by several names; its first is its best.
WithPosting(ps, e) ==
  IF \E j \in DOMAIN ps : ps[j].ord = e.ord THEN ps ELSE Append(ps, e)

PostingEdge ==
  LET e == keys[i]
      other == i > 1 /\ KeyOf(e) # KeyOf(keys[i - 1])
      f == IF other THEN Flushed(postings) ELSE fst
  IN /\ pc = "postings" /\ i <= Len(keys)
     /\ IF Accepted(f)
        THEN /\ fst' = f
             /\ postings' = WithPosting(IF other THEN <<>> ELSE postings, e)
             /\ i' = i + 1
             /\ UNCHANGED pc
        ELSE pc' = "refused" /\ UNCHANGED <<fst, postings, i>>
     /\ UNCHANGED <<build, levels, counts, hots, hotFST, ccHotFST>>

PostingsDone ==
  /\ pc = "postings" /\ i > Len(keys)
  /\ IF Accepted(Flushed(postings))
     THEN pc' = "done" /\ fst' = Flushed(postings) /\ postings' = <<>>
     ELSE pc' = "refused" /\ UNCHANGED <<fst, postings>>
  /\ UNCHANGED <<build, i, levels, counts, hots, hotFST, ccHotFST>>

\* Build has returned; stuttering here tells the end from a deadlock.
Done == pc \in {"done", "refused"} /\ UNCHANGED vars

HotPass == pc = "hot" /\ HotEdge(FALSE)
CountryHotPass == pc = "cchot" /\ HotEdge(TRUE)

Next ==
  \/ Start \/ HotPass \/ HotDone \/ CountryHotPass \/ CountryHotDone
  \/ PostingEdge \/ PostingsDone \/ Done

-----------------------------------------------------------------------------
\* What the properties compare the files with.
Edges == ToSet(keys)
EdgesAt(c, p) == {e \in Edges : e.name = p /\ recCountry[e.ord] = c}
EdgesBeneath(c, p) ==
  {e \in Edges : IsPrefix(p, e.name) /\ (c = World \/ recCountry[e.ord] = c)}

\* Each record's best stored score among the edges of E.
BestScores(E) ==
  [o \in {e.ord : e \in E} |-> Fixed(Max({EdgeScore(e) : e \in {d \in E : d.ord = o}}))]

LevelPrefixes(e) == {SubSeq(e.name, 1, L) : L \in {M \in Levels : M <= Len(e.name)}}
HotKeys(byCountry) ==
  {k \in UNION {{Spans(byCountry, e)} \X LevelPrefixes(e) : e \in Edges} :
     Cardinality({e.name : e \in EdgesBeneath(k[1], k[2])}) >= HotThreshold}

\* The records of an encoded list are distinct and come best first.
Listed(list) == [o \in {list[j].ord : j \in DOMAIN list} |->
                   list[CHOOSE j \in DOMAIN list : list[j].ord = o].score]
WellListed(list) ==
  /\ Cardinality(DOMAIN Listed(list)) = Len(list)
  /\ \A j \in 2..Len(list) : list[j].score <= list[j - 1].score

TypeOK ==
  /\ keys \in Seq(Edge)
  /\ \A e \in ToSet(keys) : EdgeScore(e) \in Score
  /\ pc \in {"start", "hot", "cchot", "postings", "done", "refused"}
  /\ i \in 1..Len(keys) + 1
  /\ \A L \in Levels : Len(levels[L].e) <= K /\ counts[L] \in 0..Len(keys)
  /\ ToSet(postings) \subseteq Edges
  /\ Len(fst) <= Len(keys)

\* names.fst takes its keys: they reach it in strictly increasing order, the
\* hot prefixes each once (sortKeys(true) and writeHot's sort against vellum's
\* Insert, which otherwise fails the build).
NeverRefused == pc # "refused"

\* A prefix has a shortlist, of the world or of a country, exactly when at least
\* HotThreshold distinct names lie beneath it there (collectHot).
HotPrefixesExact ==
  pc = "done" => DOMAIN hotFST = HotKeys(FALSE) /\ DOMAIN ccHotFST = HotKeys(TRUE)

\* Every shortlist is a best-K list of the records beneath its prefix, with the
\* score of each one's best name, best first: nothing of the prefix, level or
\* country before leaks into it, and the early exit on min loses nothing.
ShortlistsRight ==
  pc = "done" =>
    \A lists \in {hotFST, ccHotFST} : \A k \in DOMAIN lists :
      /\ WellListed(lists[k])
      /\ IsShortlist(BestScores(EdgesBeneath(k[1], k[2])), Listed(lists[k]))

\* Every name of every country has one posting list, with each record bearing it
\* once, at its best score, best first.
PostingsRight ==
  pc = "done" =>
    /\ {fst[n][1] : n \in DOMAIN fst} = {KeyOf(e) : e \in Edges}
    /\ \A n \in DOMAIN fst :
         /\ WellListed(fst[n][2])
         /\ Listed(fst[n][2]) = BestScores(EdgesAt(fst[n][1][1], fst[n][1][2]))
=============================================================================
