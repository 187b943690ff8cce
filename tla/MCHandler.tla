----------------------------- MODULE MCHandler -----------------------------
(***************************************************************************)
(* Handler with two clients and a handful of requests: two queries, the    *)
(* same one from two countries and two origins, and ones it refuses.       *)
(***************************************************************************)
EXTENDS Handler, TLC

\* "u~" is "u" with a diacritic; "?" is malformed.
MCText == {"u", "u~", "?"}
MCPlain == [x \in MCText \cup {NoText} |-> IF x = "u~" THEN "u" ELSE x]
MCKey == MCPlain

Plainly(q) ==
  [method |-> "GET", q |-> q, limit |-> None, home |-> "", header |-> "", origin |-> "",
   lat |-> "", lon |-> "", countries |-> ""]
With(columns) == columns @@ Plainly("u~")

MCUpper == [v \in {"US", "fr", "XX", "xx"} |->
              CASE v = "fr" -> "FR" [] v = "xx" -> "XX" [] OTHER -> v]

MCRequest ==
  {Plainly("u~"), Plainly("?"), With([header |-> "US", origin |-> "a"]),
   With([home |-> "fr", header |-> "US", origin |-> "b"]), With([home |-> "fr"]),
   With([header |-> "xx"]), With([header |-> "XX", limit |-> 9, lat |-> "ok", lon |-> "NaN"]),
   With([method |-> "HEAD", limit |-> 2, countries |-> "GB,IE"]),
   With([method |-> "OPTIONS"]), With([method |-> "POST"]),
   With([q |-> ""]), With([limit |-> 0]), With([lat |-> "ok"]), With([countries |-> "bad"])}

Configured(origins, header) ==
  [defaultLimit |-> 4, maxLimit |-> 3, home |-> "GB", homeHeader |-> header, cors |-> origins,
   cacheControl |-> TRUE]

MCConfig ==
  {Configured(<<>>, FALSE), Configured(<<"a", "b">>, TRUE), Configured(<<"a", "*">>, FALSE),
   [Configured(<<>>, TRUE) EXCEPT !.cacheControl = FALSE]}

\* Clients are alike, and so are transformers.
Alike == Permutations(Call) \cup Permutations(Transformer)
=============================================================================
