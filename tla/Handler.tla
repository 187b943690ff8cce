------------------------------ MODULE Handler ------------------------------
(***************************************************************************)
(* handler.ServeHTTP (http.go) answering several clients at once, each     *)
(* through a shared cache that does what the headers of an answer allow.   *)
(* Queries are folded concurrently (module FoldPool).  What the search     *)
(* finds depends on the folded query and the options; a body here is these *)
(* inputs, so that two bodies are the same when the answers have to be.    *)
(*                                                                         *)
(* A request says what its columns of the URL and its headers say,         *)
(* trimmed: limit is None without one and 0 for one that is no positive    *)
(* integer; lat and lon are "", "bad" (not a number, or out of range),     *)
(* "NaN" or "ok"; countries is "", "bad" or an upper-cased list.           *)
(***************************************************************************)
EXTENDS FoldPool, Integers, Sequences, FiniteSets

CONSTANTS Request, Config,
          Upper,            \* strings.ToUpper of a country
          NoQuery,          \* an empty q
          MaxCached         \* entries the cache has room for

None == -1

\* WithLimit takes no maximum but a positive one.
ASSUME HandlerAssumption ==
  /\ Request # {} /\ \A r \in Request : r.q \in Text \cup {NoQuery}
  /\ \A r \in Request : r.limit \in Nat \cup {None}
  /\ \A r \in Request : {r.home, r.header} \subseteq DOMAIN Upper \cup {""}
  /\ \A k \in Config : DOMAIN k.cors = 1..Len(k.cors) /\ Len(k.cors) \in Nat
  /\ \A k \in Config : k.maxLimit \in Nat \ {0}
  /\ MaxCached \in Nat

VARIABLES cfg,              \* the options the handler was made with
          at,               \* where each client's request is
          req,              \* client -> its request
          resp,             \* client -> the answer it was given
          hit,              \* client -> whether the cache gave it
          cache             \* [method, url, origin, resp], origin that of the first

vars == <<foldVars, cfg, at, req, resp, hit, cache>>

NoBody == [key |-> NoText, limit |-> None, home |-> "", near |-> "", countries |-> ""]
NoResponse == [status |-> 0, body |-> NoBody, allow |-> "", vary |-> FALSE, public |-> FALSE]

-----------------------------------------------------------------------------
\* A parameter is missing or malformed.
Mistaken(r) ==
  \/ r.q = NoQuery
  \/ r.limit = 0
  \/ r.lat = "" /\ r.lon # ""
  \/ r.lon = "" /\ r.lat # ""
  \/ "bad" \in {r.lat, r.lon, r.countries}

\* What a request is refused with; 0 when it is not.
Verdict(r) ==
  IF r.method = "OPTIONS" /\ cfg.cors # <<>> THEN 204
  ELSE IF r.method \notin {"GET", "HEAD"} THEN 405
  ELSE IF Mistaken(r) THEN 400 ELSE 0

\* Mutant of LimitFor: the maximum is not held against what a request asks for.
LimitAsked(r) == IF r.limit = None THEN cfg.defaultLimit ELSE r.limit

LimitFor(r) ==
  IF r.limit = None THEN cfg.defaultLimit
  ELSE IF r.limit > cfg.maxLimit THEN cfg.maxLimit ELSE r.limit

\* nearFrom: NaN is in no range and out of none.
NearFor(r) == IF r.lat = "" THEN "" ELSE IF "NaN" \in {r.lat, r.lon} THEN "NaN" ELSE "ok"

\* Mutant of HomeFor: the header wins over the parameter.
HeaderFirst(r) ==
  IF cfg.homeHeader /\ r.header \notin {"", "XX"} THEN Upper[r.header]
  ELSE IF r.home # "" THEN Upper[r.home] ELSE cfg.home

\* homeFor: the header's "XX" is none as it stands, before it is upper-cased.
HomeFor(r) ==
  IF r.home # "" THEN Upper[r.home]
  ELSE IF cfg.homeHeader /\ r.header \notin {"", "XX"} THEN Upper[r.header]
  ELSE cfg.home

\* setCORS: the first entry that is "*" or the caller's origin.
Allow(r) ==
  LET matching == {n \in DOMAIN cfg.cors : cfg.cors[n] \in {"*", r.origin}}
  IN IF matching = {} THEN ""
     ELSE cfg.cors[CHOOSE n \in matching : \A m \in matching : n <= m]

\* Mutant of Varies: an answer for one origin does not say so.
VariesNever(allow) == FALSE

Varies(allow) == allow \notin {"", "*"}

\* Mutant of Public: errors may be cached like answers.
PublicAlways(status) == cfg.cacheControl

\* Only a 200 has the Cache-Control header.
Public(status) == status = 200 /\ cfg.cacheControl

Response(r, status, body) ==
  [status |-> status, body |-> body, allow |-> Allow(r),
   vary |-> Varies(Allow(r)), public |-> Public(status)]

Found(r, k) ==
  [key |-> k, limit |-> LimitFor(r), home |-> HomeFor(r), near |-> NearFor(r),
   countries |-> r.countries]

-----------------------------------------------------------------------------
Init ==
  /\ FoldInit
  /\ cfg \in Config
  /\ at = [c \in Call |-> "idle"]
  /\ req = [c \in Call |-> CHOOSE r \in Request : TRUE]
  /\ resp = [c \in Call |-> NoResponse]
  /\ hit = [c \in Call |-> FALSE]
  /\ cache = {}

Send(c) ==
  /\ at[c] = "idle"
  /\ \E r \in Request : req' = [req EXCEPT ![c] = r]
  /\ at' = [at EXCEPT ![c] = "sent"]
  /\ UNCHANGED <<foldVars, cfg, resp, hit, cache>>

\* The cache: same method, same URL, and the same origin where the answer varies.
Url(r) == [q |-> r.q, limit |-> r.limit, home |-> r.home, lat |-> r.lat, lon |-> r.lon,
           countries |-> r.countries]
Answers(e, r) ==
  e.method = r.method /\ e.url = Url(r) /\ (e.resp.vary => e.origin = r.origin)

FromCache(c) ==
  /\ at[c] = "sent"
  /\ \E e \in cache :
       /\ Answers(e, req[c])
       /\ resp' = [resp EXCEPT ![c] = e.resp]
  /\ hit' = [hit EXCEPT ![c] = TRUE]
  /\ at' = [at EXCEPT ![c] = "answered"]
  /\ UNCHANGED <<foldVars, cfg, req, cache>>

\* An answer passes through the cache, which may keep it.
Reply(c, rs) ==
  /\ resp' = [resp EXCEPT ![c] = rs]
  /\ hit' = [hit EXCEPT ![c] = FALSE]
  /\ at' = [at EXCEPT ![c] = "answered"]
  /\ LET entry == [method |-> req[c].method, url |-> Url(req[c]),
                   origin |-> req[c].origin, resp |-> rs]
     IN \/ UNCHANGED cache
        \/ /\ rs.public /\ req[c].method \in {"GET", "HEAD"}
           /\ cache' = cache \cup {entry}
           /\ Cardinality(cache') <= MaxCached
  /\ UNCHANGED <<cfg, req>>

Evict ==
  /\ \E e \in cache : cache' = cache \ {e}
  /\ UNCHANGED <<foldVars, cfg, at, req, resp, hit>>

Refuse(c) ==
  /\ at[c] = "sent" /\ Verdict(req[c]) # 0
  /\ Reply(c, Response(req[c], Verdict(req[c]), NoBody))
  /\ UNCHANGED foldVars

Search(c) ==
  /\ at[c] = "sent" /\ Verdict(req[c]) = 0
  /\ Fold(c, req[c].q)
  /\ at' = [at EXCEPT ![c] = "search"]
  /\ UNCHANGED <<cfg, req, resp, hit, cache>>

FoldStep(c) == Folding(c) /\ UNCHANGED <<cfg, at, req, resp, hit, cache>>

Succeed(c) ==
  /\ at[c] = "search" /\ Return(c)
  /\ Reply(c, Response(req[c], 200,
                       IF req[c].method = "HEAD" THEN NoBody ELSE Found(req[c], key[c])))

\* The index is closed, or corrupt.
Fail(c) ==
  /\ at[c] = "search" /\ Return(c)
  /\ Reply(c, Response(req[c], 500, NoBody))

\* The client has its answer.
Read(c) ==
  /\ at[c] = "answered"
  /\ at' = [at EXCEPT ![c] = "idle"]
  /\ resp' = [resp EXCEPT ![c] = NoResponse] /\ hit' = [hit EXCEPT ![c] = FALSE]
  /\ UNCHANGED <<foldVars, cfg, req, cache>>

GC == Collect /\ UNCHANGED <<cfg, at, req, resp, hit, cache>>

Serving(c) == Refuse(c) \/ Search(c) \/ FoldStep(c) \/ Succeed(c) \/ Fail(c)

Next ==
  \/ \E c \in Call : Send(c) \/ FromCache(c) \/ Serving(c) \/ Read(c)
  \/ Evict \/ GC

Spec == Init /\ [][Next]_vars

-----------------------------------------------------------------------------
HandlerTypeOK ==
  /\ FoldTypeOK
  /\ at \in [Call -> {"idle", "sent", "search", "answered"}]
  /\ \A c \in Call :
       /\ resp[c].status \in {0, 200, 204, 400, 405, 500}
       /\ resp[c].body # NoBody =>
            \/ resp[c].body.limit = cfg.defaultLimit
            \/ resp[c].body.limit \in 1..cfg.maxLimit
  /\ Cardinality(cache) <= MaxCached

\* An answer, fresh or cached, is the one to the client's own query, limit,
\* position and countries, whoever asks at the same time; and to its own country,
\* unless that comes from a header and the answer from the cache (Fold, homeFor
\* and the Cache-Control of ServeHTTP).
AnswersOwn ==
  \A c \in Call :
    at[c] = "answered" /\ resp[c].body # NoBody =>
      LET r == req[c]
          own == Found(r, Folded(r.q, r.q))
      IN /\ [resp[c].body EXCEPT !.home = own.home] = own
         /\ ~(hit[c] /\ cfg.homeHeader /\ r.home = "") => resp[c].body = own

\* A failure is never remembered: what the cache gives is a search's answer
\* (fail writes no Cache-Control).
FailuresPass == \A c \in Call : at[c] = "answered" /\ hit[c] => resp[c].status = 200

\* No client is told that another's origin may read its answer, which its browser
\* would hold against it (setCORS and its Vary).
NoOtherOrigin ==
  \A c \in Call : at[c] = "answered" => resp[c].allow \in {"", "*", req[c].origin}
=============================================================================
