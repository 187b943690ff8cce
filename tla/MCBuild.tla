------------------------------ MODULE MCBuild ------------------------------
(***************************************************************************)
(* Build on small files.  One family varies names, countries and one       *)
(* alternate name, for what the sorts and passes of writeIndex make of     *)
(* shared prefixes; the other puts odd lines among plain ones.             *)
(***************************************************************************)
EXTENDS Build

\* "a~" folds like "a"; "~" folds to nothing; "longer" passes MaxKeyLen.
MCFold == [a |-> <<1>>, aa |-> <<1, 1>>, aaa |-> <<1, 1, 1>>, ab |-> <<1, 2>>, b |-> <<2>>]
          @@ ("a~" :> <<1>>) @@ ("~" :> <<>>) @@ ("" :> <<>>)
          @@ ("longer" :> <<1, 1, 1, 1>>)
MCColumn == STRING
MCName == {<<1>>, <<1, 1>>, <<1, 1, 1>>, <<1, 2>>, <<2>>}
MCQuery == MCName \cup {<<1, 3>>, <<2, 1>>}
MCPenalty == [c \in 0..3 |-> c]
MCScore == -4..6
\* Level at the top in raw units, apart in stored ones, and below zero.
MCProminence == [x \in (0..5) \X {"PPL", "PPLX", "PPLC", "PPLQ"} |->
                   IF x[2] = "PPLC" THEN x[1] + 1 ELSE x[1] - 1]
MCAdmin1 == (<<"GB", "ENG">> :> "England") @@ (<<"US", "NY">> :> "New York")
MCFilter == [countries |-> {"GB", "US", "FR"}, minPopulation |-> 1, includeParts |-> FALSE]

Place(x, name, country, population) ==
  [form |-> "full", class |-> "P", id |-> x, feature |-> "PPL", country |-> country,
   admin1 |-> IF country = "GB" THEN "ENG" ELSE "", population |-> population,
   name |-> name, ascii |-> "", size |-> 2]
Other(x, name) ==
  [form |-> "full", colloquial |-> FALSE, historic |-> FALSE, preferred |-> FALSE,
   short |-> FALSE, lang |-> "xx", name |-> name, id |-> x]

Anchor == Place(1, "aa", "GB", 5)
Spellings == {"a", "aa", "aaa", "ab", "b"}

Names ==
  /\ \E n2, n3 \in Spellings, c2, c3 \in {"GB", "US"} :
       dump = <<Anchor, Place(2, n2, c2, 5), Place(3, n3, c3, 3)>>
  /\ \E x \in 1..3, n \in Spellings, p \in BOOLEAN :
       alts = <<[Other(x, n) EXCEPT !.preferred = p]>>

\* Rows that are skipped, fail the build, repeat an id, or have unusual columns.
OddRows ==
  LET r == Place(3, "b", "US", 3)
      With(columns) == columns @@ r
  IN {r, With([form |-> "lost"]), With([form |-> "short"]), With([form |-> "bad id"]),
      With([form |-> "bad id", class |-> "S"]), With([class |-> "S"]),
      With([feature |-> "PPLQ"]), With([feature |-> "PPLX"]), With([feature |-> "PPLC"]),
      With([population |-> 0]), With([country |-> "PL"]), With([country |-> "FR"]),
      With([id |-> 1]), With([admin1 |-> "NY"]), With([admin1 |-> "00"]),
      With([ascii |-> "b"]), With([ascii |-> "a", size |-> 3]), With([ascii |-> "longer"]),
      With([name |-> "~", size |-> 4])}

OddAlts ==
  LET a == Other(3, "ab")
      With(columns) == columns @@ a
  IN {a, With([form |-> "lost"]), With([form |-> "short"]), With([form |-> "bad id"]),
      With([colloquial |-> TRUE]),
      With([lang |-> "link"]), With([lang |-> "en"]), With([name |-> ""]),
      With([name |-> "a~"]), With([name |-> "longer"]), With([historic |-> TRUE, preferred |-> TRUE]),
      With([short |-> TRUE]), With([id |-> 1]), With([id |-> 9])}

Odd ==
  /\ \E r \in OddRows : dump = <<Anchor, r, Place(2, "ab", "US", 4), Place(4, "b", "GB", 5)>>
  /\ \E x, y \in OddAlts : alts = <<x, y>>

MCInit == (Names \/ Odd) /\ BuildInit

MCSpec == MCInit /\ [][BuildNext]_buildVars
=============================================================================
