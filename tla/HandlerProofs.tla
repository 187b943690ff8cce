--------------------------- MODULE HandlerProofs ---------------------------
(***************************************************************************)
(* Fold is safe for concurrent use; and through a shared cache, each       *)
(* client of the handler gets the answer to its own request.  Both for any *)
(* number of clients, any requests and any configuration.                  *)
(***************************************************************************)
EXTENDS Handler, FiniteSetTheorems, WellFoundedInduction, TLAPS

Holding(c) == phase[c] \in {"reset", "transform", "put"}

\* A transformer is with one call, or in the pool, or nowhere.
Apart ==
  /\ \A c \in Call : Holding(c) => held[c] \in Transformer /\ held[c] \notin pool
  /\ \A c \in Call : ~Holding(c) => held[c] = NoTransformer
  /\ \A c, d \in Call : Holding(c) /\ Holding(d) /\ held[c] = held[d] => c = d

\* It holds the text of the call it is with.
Loaded == \A c \in Call : phase[c] = "transform" => text[held[c]] = arg[c]

\* Once taken out, the key stays what it is.
Taken == \A c \in Call : phase[c] \in {"put", "done"} => key[c] = Folded(arg[c], arg[c])

\* The state the inductive argument runs on.
FoldInvariant ==
  /\ FoldTypeOK /\ key = [c \in Call |-> key[c]]
  /\ Apart /\ Loaded /\ Taken

\* The initial state satisfies the invariant.
LEMMA FoldInitInv == FoldInit => FoldInvariant
BY DEF FoldInit, FoldInvariant, FoldTypeOK, Apart, Holding, Loaded, Taken

\* A call that begins holds nothing.
LEMMA BeginInv ==
  ASSUME FoldInvariant, NEW c \in Call, NEW s \in Text, Fold(c, s)
  PROVE  FoldInvariant'
BY DEF Fold, FoldInvariant, FoldTypeOK, Apart, Holding, Loaded, Taken

\* Get hands out a transformer no other call is in: neither the pool's nor a new
\* one is with a call.
LEMMA GetInv ==
  ASSUME FoldInvariant, NEW c \in Call, Get(c)
  PROVE  FoldInvariant'
<1>1. PICK t \in pool \cup New :
        held' = [held EXCEPT ![c] = t] /\ pool' = pool \ {t}
  BY DEF Get, Borrowed
<1>2. t \in Transformer /\ \A d \in Call : Holding(d) => held[d] # t
  BY <1>1 DEF New, FoldInvariant, FoldTypeOK, Apart
<1>3. phase' = [phase EXCEPT ![c] = "reset"] /\ phase[c] = "get"
      /\ UNCHANGED <<text, arg, key>>
  BY DEF Get
<1>4. FoldTypeOK'
  BY <1>1, <1>2, <1>3 DEF FoldInvariant, FoldTypeOK
<1>5. \A d \in Call : d # c => held'[d] = held[d] /\ (Holding(d)' <=> Holding(d))
  BY <1>1, <1>3 DEF FoldInvariant, FoldTypeOK, Holding
<1>6. Holding(c)' /\ held'[c] = t /\ ~Holding(c)
  BY <1>1, <1>3 DEF FoldInvariant, FoldTypeOK, Holding
<1>7. Apart'
  BY <1>1, <1>2, <1>5, <1>6 DEF FoldInvariant, Apart
<1>8. Loaded' /\ Taken'
  BY <1>1, <1>3 DEF FoldInvariant, FoldTypeOK, Loaded, Taken
<1> QED BY <1>3, <1>4, <1>7, <1>8 DEF FoldInvariant

\* Loading reaches no text but the call's own, since transformers are apart.
LEMMA LoadInv ==
  ASSUME FoldInvariant, NEW c \in Call, Load(c)
  PROVE  FoldInvariant'
<1>1. /\ text' = [text EXCEPT ![held[c]] = arg[c]]
      /\ phase' = [phase EXCEPT ![c] = "transform"] /\ phase[c] = "reset"
      /\ UNCHANGED <<pool, arg, held, key>>
  BY DEF Load
<1>2. held[c] \in Transformer
  BY <1>1 DEF FoldInvariant, Apart, Holding
<1>3. FoldTypeOK'
  BY <1>1, <1>2 DEF FoldInvariant, FoldTypeOK
<1>4. Apart'
  BY <1>1 DEF FoldInvariant, FoldTypeOK, Apart, Holding
<1>5. ASSUME NEW d \in Call, phase'[d] = "transform" PROVE text'[held'[d]] = arg'[d]
  <2>1. CASE d = c
    BY <1>1, <1>2, <2>1 DEF FoldInvariant, FoldTypeOK
  <2>2. CASE d # c
    <3>1. phase[d] = "transform" /\ held[d] # held[c] /\ held[d] \in Transformer
      BY <1>1, <1>5, <2>2 DEF FoldInvariant, FoldTypeOK, Apart, Holding
    <3> QED BY <1>1, <3>1 DEF FoldInvariant, FoldTypeOK, Loaded
  <2> QED BY <2>1, <2>2
<1>6. Taken'
  BY <1>1 DEF FoldInvariant, FoldTypeOK, Taken
<1> QED BY <1>1, <1>3, <1>4, <1>5, <1>6 DEF FoldInvariant, Loaded

\* The key taken out is that of the call's own text.
LEMMA TakeInv ==
  ASSUME FoldInvariant, NEW c \in Call, Take(c)
  PROVE  FoldInvariant'
<1>1. /\ key' = [key EXCEPT ![c] = Folded(arg[c], text[held[c]])]
      /\ phase' = [phase EXCEPT ![c] = "put"] /\ phase[c] = "transform"
      /\ UNCHANGED <<pool, text, arg, held>>
  BY DEF Take
<1>2. text[held[c]] = arg[c]
  BY <1>1 DEF FoldInvariant, Loaded
<1>3. FoldTypeOK' /\ Apart' /\ Loaded'
  BY <1>1 DEF FoldInvariant, FoldTypeOK, Apart, Holding, Loaded
<1>4. \A d \in Call : key'[d] = IF d = c THEN Folded(arg[c], arg[c]) ELSE key[d]
  BY <1>1, <1>2 DEF FoldInvariant
<1>5. Taken'
  <2> SUFFICES ASSUME NEW d \in Call, phase'[d] \in {"put", "done"}
               PROVE key'[d] = Folded(arg'[d], arg'[d])
    BY DEF Taken, Folded
  <2> QED BY <1>1, <1>4 DEF FoldInvariant, FoldTypeOK, Taken, Folded
<1>6. key' = [d \in Call |-> key'[d]]
  BY <1>1 DEF FoldInvariant
<1> QED BY <1>3, <1>5, <1>6 DEF FoldInvariant

\* What goes back to the pool is with no other call.
LEMMA PutInv ==
  ASSUME FoldInvariant, NEW c \in Call, Put(c)
  PROVE  FoldInvariant'
<1>1. /\ pool' = pool \cup {held[c]} /\ held' = [held EXCEPT ![c] = NoTransformer]
      /\ phase' = [phase EXCEPT ![c] = "done"] /\ phase[c] = "put"
      /\ UNCHANGED <<text, arg, key>>
  BY DEF Put
<1>2. held[c] \in Transformer /\ \A d \in Call : d # c /\ Holding(d) => held[d] # held[c]
  BY <1>1 DEF FoldInvariant, Apart, Holding
<1>3. FoldTypeOK'
  BY <1>1, <1>2 DEF FoldInvariant, FoldTypeOK
<1>4. \A d \in Call : d # c => held'[d] = held[d] /\ (Holding(d)' <=> Holding(d))
  BY <1>1 DEF FoldInvariant, FoldTypeOK, Holding
<1>5. ~Holding(c)' /\ held'[c] = NoTransformer
  BY <1>1 DEF FoldInvariant, FoldTypeOK, Holding
<1>6. Apart'
  BY <1>1, <1>2, <1>4, <1>5 DEF FoldInvariant, Apart
<1>7. Loaded' /\ Taken'
  BY <1>1 DEF FoldInvariant, FoldTypeOK, Loaded, Taken
<1> QED BY <1>1, <1>3, <1>6, <1>7 DEF FoldInvariant

\* A call that has returned holds nothing.
LEMMA ReturnInv ==
  ASSUME FoldInvariant, NEW c \in Call, Return(c)
  PROVE  FoldInvariant'
BY DEF Return, FoldInvariant, FoldTypeOK, Apart, Holding, Loaded, Taken

\* The collector touches no transformer that is with a call.
LEMMA CollectInv ==
  ASSUME FoldInvariant, Collect
  PROVE  FoldInvariant'
BY DEF Collect, FoldInvariant, FoldTypeOK, Apart, Holding, Loaded, Taken

\* Every step preserves the invariant.
LEMMA FoldNextInv == FoldInvariant /\ [FoldNext]_foldVars => FoldInvariant'
<1> SUFFICES ASSUME FoldInvariant, [FoldNext]_foldVars PROVE FoldInvariant' OBVIOUS
<1>1. ASSUME NEW c \in Call, NEW s \in Text, Fold(c, s) PROVE FoldInvariant' BY <1>1, BeginInv
<1>2. ASSUME NEW c \in Call, Get(c) PROVE FoldInvariant' BY <1>2, GetInv
<1>3. ASSUME NEW c \in Call, Load(c) PROVE FoldInvariant' BY <1>3, LoadInv
<1>4. ASSUME NEW c \in Call, Take(c) PROVE FoldInvariant' BY <1>4, TakeInv
<1>5. ASSUME NEW c \in Call, Put(c) PROVE FoldInvariant' BY <1>5, PutInv
<1>6. ASSUME NEW c \in Call, Return(c) PROVE FoldInvariant' BY <1>6, ReturnInv
<1>7. CASE Collect BY <1>7, CollectInv
<1>8. CASE UNCHANGED foldVars
  BY <1>8 DEF foldVars, FoldInvariant, FoldTypeOK, Apart, Holding, Loaded, Taken, Folded
<1> QED BY <1>1, <1>2, <1>3, <1>4, <1>5, <1>6, <1>7, <1>8 DEF FoldNext, Folding

\* For any number of concurrent calls, texts and transformers, each call returns
\* the key of its own text ("Fold is safe for concurrent use").
THEOREM FoldIsSafe == FoldSpec => []FoldsOwn
<1>1. FoldInvariant => FoldsOwn
  BY DEF FoldInvariant, Taken, FoldsOwn
<1> QED BY FoldInitInv, FoldNextInv, <1>1, PTL DEF FoldSpec

-----------------------------------------------------------------------------
\* The answer to r of a search that succeeds.
Answer(r) == Response(r, 200, IF r.method = "HEAD" THEN NoBody ELSE Found(r, Folded(r.q, r.q)))

\* A client's search folds the client's own query.
Searching ==
  /\ cfg \in Config
  /\ req \in [Call -> Request] /\ at \in [Call -> {"idle", "sent", "search", "answered"}]
  /\ DOMAIN resp = Call /\ resp = [c \in Call |-> resp[c]]
  /\ DOMAIN hit = Call /\ hit = [c \in Call |-> hit[c]]
  /\ \A c \in Call : at[c] = "search" <=> phase[c] # "idle"
  /\ \A c \in Call : at[c] = "search" => arg[c] = req[c].q

\* What the cache holds is the answer to the request it came from.
Cached ==
  \A e \in cache : \E r \in Request :
    e = [method |-> r.method, url |-> Url(r), origin |-> r.origin, resp |-> Answer(r)]

\* rs was made for r, or for a request the cache may take it for.
Fits(r, rs, cached) ==
  \/ /\ cached = FALSE
     /\ \E s \in {200, 204, 400, 405, 500}, b \in {NoBody, Answer(r).body} :
          rs = Response(r, s, b)
  \/ /\ cached = TRUE
     /\ \E q \in Request :
          /\ rs = Answer(q) /\ q.method = r.method /\ Url(q) = Url(r)
          /\ Varies(Allow(q)) => q.origin = r.origin

Answered == \A c \in Call : at[c] = "answered" => Fits(req[c], resp[c], hit[c])

\* The state the inductive argument runs on.
Inv == FoldInvariant /\ Searching /\ Cached /\ Answered

\* What is said of an answer depends on nothing a step changes.
LEMMA AnswerFixed ==
  ASSUME cfg' = cfg
  PROVE  /\ \A r : Answer(r)' = Answer(r)
         /\ \A r, s, b : Response(r, s, b)' = Response(r, s, b)
         /\ \A r : Allow(r)' = Allow(r)
         /\ \A a : Varies(a)' = Varies(a)
         /\ \A r, rs, cached : Fits(r, rs, cached)' <=> Fits(r, rs, cached)
<1>1. \A r : Allow(r)' = Allow(r)
  BY DEF Allow
<1>2. \A a : Varies(a)' = Varies(a)
  BY DEF Varies
<1>3. \A r, s, b : Response(r, s, b)' = Response(r, s, b)
  BY DEF Response, Public, Allow, Varies
<1>4. \A r : Answer(r)' = Answer(r)
  BY <1>3 DEF Answer, Response, Public, Allow, Varies, Found, LimitFor, HomeFor, NearFor, Folded, NoBody, None
<1>5. \A r, rs, cached : Fits(r, rs, cached)' <=> Fits(r, rs, cached)
  <2> SUFFICES ASSUME NEW r, NEW rs, NEW cached
               PROVE Fits(r, rs, cached)' <=> Fits(r, rs, cached)
    OBVIOUS
  <2> DEFINE Own == \E s \in {200, 204, 400, 405, 500}, b \in {NoBody, Answer(r).body} :
                      rs = Response(r, s, b)
             Lent == \E q \in Request :
                       /\ rs = Answer(q) /\ q.method = r.method /\ Url(q) = Url(r)
                       /\ Varies(Allow(q)) => q.origin = r.origin
  <2>1. Own' <=> Own
    <3>1. NoBody' = NoBody
      BY DEF NoBody, None
    <3>2. Answer(r)' = Answer(r) /\ \A s, b : Response(r, s, b)' = Response(r, s, b)
      BY <1>3, <1>4
    <3> QED BY <3>1, <3>2
  <2>2. Lent' <=> Lent
    BY <1>1, <1>2, <1>4 DEF Url, Varies
  <2>3. Fits(r, rs, cached) <=> (cached = FALSE /\ Own) \/ (cached = TRUE /\ Lent)
    BY DEF Fits
  <2>4. Fits(r, rs, cached)' <=> (cached = FALSE /\ Own') \/ (cached = TRUE /\ Lent')
    BY DEF Fits
  <2> QED BY <2>1, <2>2, <2>3, <2>4
<1> QED BY <1>1, <1>2, <1>3, <1>4, <1>5

\* Every step of the handler is one of the pool, or leaves it alone.
LEMMA StepsFold ==
  ASSUME Inv, [Next]_vars
  PROVE  [FoldNext]_foldVars
<1>1. ASSUME NEW c \in Call, Send(c) \/ FromCache(c) \/ Refuse(c) \/ Read(c)
      PROVE UNCHANGED foldVars
  BY <1>1 DEF Send, FromCache, Refuse, Read
<1>2. ASSUME NEW c \in Call, Search(c) PROVE FoldNext
  <2>1. Verdict(req[c]) = 0 /\ req[c] \in Request
    BY <1>2 DEF Search, Inv, Searching
  <2>2. req[c].q # NoQuery
    <3>1. ~Mistaken(req[c])
      BY <2>1 DEF Verdict
    <3> QED BY <3>1 DEF Mistaken
  <2>3. req[c].q \in Text
    BY <2>1, <2>2, HandlerAssumption
  <2> QED BY <1>2, <2>3 DEF Search, FoldNext
<1>3. ASSUME NEW c \in Call, FoldStep(c) \/ Succeed(c) \/ Fail(c) PROVE FoldNext
  BY <1>3 DEF FoldStep, Succeed, Fail, FoldNext
<1>4. CASE Evict \/ GC
  BY <1>4 DEF Evict, GC, FoldNext
<1>5. CASE UNCHANGED vars
  BY <1>5 DEF vars
<1> QED BY <1>1, <1>2, <1>3, <1>4, <1>5 DEF Next, Serving

\* A step that answers nobody and stores nothing keeps what is known of answers.
LEMMA KeepAnswers ==
  ASSUME Inv, cfg' = cfg, cache' \subseteq cache,
         \A c \in Call : at'[c] = "answered" =>
           /\ at[c] = "answered" /\ req'[c] = req[c]
           /\ resp'[c] = resp[c] /\ hit'[c] = hit[c]
  PROVE  Cached' /\ Answered'
<1>1. Cached'
  BY AnswerFixed DEF Inv, Cached, Url
<1>2. Answered'
  BY AnswerFixed DEF Inv, Answered
<1> QED BY <1>1, <1>2

\* An answer of the handler's own, which the cache may keep if it is a 200.
LEMMA ReplyAnswers ==
  ASSUME Inv, NEW c \in Call, NEW s \in {200, 204, 400, 405, 500},
         NEW b \in {NoBody, Answer(req[c]).body},
         s = 200 => b = Answer(req[c]).body,
         Reply(c, Response(req[c], s, b))
  PROVE  Cached' /\ Answered'
<1> DEFINE rs == Response(req[c], s, b)
<1>1. cfg' = cfg /\ req' = req
  BY DEF Reply
<1>2. rs.public => rs = Answer(req[c])
  BY DEF Response, Public, Answer
<1>3. ASSUME NEW e \in cache', e \notin cache
      PROVE e = [method |-> req[c].method, url |-> Url(req[c]), origin |-> req[c].origin,
                 resp |-> Answer(req[c])]
  BY <1>2, <1>3 DEF Reply
<1>4. Cached'
  BY <1>1, <1>3, AnswerFixed DEF Inv, Cached, Searching, Url
<1>5. resp' = [resp EXCEPT ![c] = rs] /\ hit' = [hit EXCEPT ![c] = FALSE]
      /\ at' = [at EXCEPT ![c] = "answered"]
  BY DEF Reply
<1>6. Answered'
  <2> SUFFICES ASSUME NEW d \in Call, at'[d] = "answered"
               PROVE Fits(req'[d], resp'[d], hit'[d])
    BY <1>1, <1>3, AnswerFixed DEF Answered
  <2>1. CASE d = c
    BY <1>1, <1>5, <2>1 DEF Inv, Searching, Fits
  <2>2. CASE d # c
    BY <1>1, <1>5, <2>2 DEF Inv, Searching, Answered
  <2> QED BY <2>1, <2>2
<1> QED BY <1>4, <1>6

\* What the cache gives was the answer to a request like the client's.
LEMMA FromCacheInv ==
  ASSUME Inv, NEW c \in Call, FromCache(c)
  PROVE  Searching' /\ Cached' /\ Answered'
<1>1. PICK e \in cache : Answers(e, req[c]) /\ resp' = [resp EXCEPT ![c] = e.resp]
  BY DEF FromCache
<1>2. PICK r \in Request :
        e = [method |-> r.method, url |-> Url(r), origin |-> r.origin, resp |-> Answer(r)]
  BY <1>1 DEF Inv, Cached
<1>3. /\ hit' = [hit EXCEPT ![c] = TRUE] /\ at' = [at EXCEPT ![c] = "answered"]
      /\ at[c] = "sent"
      /\ UNCHANGED <<foldVars, cfg, req, cache>>
  BY DEF FromCache
<1>4. Searching'
  BY <1>1, <1>3 DEF Inv, Searching, foldVars
<1>5. Cached'
  BY <1>3, AnswerFixed DEF Inv, Cached, Url
<1>6. r.method = req[c].method /\ Url(r) = Url(req[c])
      /\ (Varies(Allow(r)) => r.origin = req[c].origin)
  BY <1>1, <1>2 DEF Answers, Answer, Response
<1>7. Answered'
  <2> SUFFICES ASSUME NEW d \in Call, at'[d] = "answered"
               PROVE Fits(req'[d], resp'[d], hit'[d])
    BY <1>1, <1>3, AnswerFixed DEF Answered
  <2>1. CASE d = c
    BY <1>1, <1>2, <1>3, <1>6, <2>1 DEF Inv, Searching, Fits
  <2>2. CASE d # c
    BY <1>1, <1>3, <2>2 DEF Inv, Searching, Answered
  <2> QED BY <2>1, <2>2
<1> QED BY <1>4, <1>5, <1>7

\* Once answered, a client's call of Fold is over.
LEMMA ReplySearching ==
  ASSUME Inv, NEW c \in Call, NEW rs, Reply(c, rs),
         phase'[c] = "idle",
         \A d \in Call : d # c => phase'[d] = phase[d] /\ arg'[d] = arg[d]
  PROVE  Searching'
<1>1. /\ resp' = [resp EXCEPT ![c] = rs] /\ hit' = [hit EXCEPT ![c] = FALSE]
      /\ at' = [at EXCEPT ![c] = "answered"] /\ req' = req /\ cfg' = cfg
  BY DEF Reply
<1> QED BY <1>1 DEF Inv, Searching

\* A search that succeeds returns the key of the client's query.
LEMMA SucceedInv ==
  ASSUME Inv, NEW c \in Call, Succeed(c)
  PROVE  Searching' /\ Cached' /\ Answered'
<1> DEFINE b == IF req[c].method = "HEAD" THEN NoBody ELSE Found(req[c], key[c])
<1>1. at[c] = "search" /\ phase[c] = "done" /\ Reply(c, Response(req[c], 200, b))
  BY DEF Succeed, Return
<1>2. arg[c] = req[c].q /\ key[c] = Folded(arg[c], arg[c])
  BY <1>1 DEF Inv, Searching, FoldInvariant, Taken
<1>3. b = Answer(req[c]).body
  BY <1>2 DEF Answer, Response
<1>4. Cached' /\ Answered'
  BY <1>1, <1>3, ReplyAnswers
<1>5. Searching'
  BY <1>1, ReplySearching DEF Succeed, Return, Inv, FoldInvariant, FoldTypeOK
<1> QED BY <1>4, <1>5

\* Every other answer has no body.
LEMMA RefuseFailInv ==
  ASSUME Inv, NEW c \in Call, Refuse(c) \/ Fail(c)
  PROVE  Searching' /\ Cached' /\ Answered'
<1>1. PICK s \in {204, 400, 405, 500} : Reply(c, Response(req[c], s, NoBody))
  <2>1. Verdict(req[c]) # 0 => Verdict(req[c]) \in {204, 400, 405, 500}
    BY DEF Verdict
  <2> QED BY <2>1 DEF Refuse, Fail
<1>2. Cached' /\ Answered'
  BY <1>1, ReplyAnswers
<1>3. Searching'
  <2>1. CASE Refuse(c)
    <3>1. phase' = phase /\ arg' = arg /\ phase[c] = "idle"
      BY <2>1 DEF Refuse, foldVars, Inv, Searching
    <3> QED BY <1>1, <3>1, ReplySearching DEF Inv, FoldInvariant, FoldTypeOK
  <2>2. CASE Fail(c)
    BY <1>1, <2>2, ReplySearching DEF Fail, Return, Inv, FoldInvariant, FoldTypeOK
  <2> QED BY <2>1, <2>2
<1> QED BY <1>2, <1>3

\* The steps that answer nobody.
LEMMA QuietInv ==
  ASSUME Inv, NEW c \in Call, Send(c) \/ Search(c) \/ FoldStep(c) \/ Read(c)
  PROVE  Searching' /\ Cached' /\ Answered'
<1>1. Searching'
  <2>1. CASE Send(c)
    BY <2>1 DEF Send, foldVars, Inv, Searching
  <2>2. CASE Search(c)
    BY <2>2 DEF Search, Fold, Inv, Searching, FoldInvariant, FoldTypeOK
  <2>3. CASE FoldStep(c)
    BY <2>3 DEF FoldStep, Folding, Get, Load, Take, Put, Inv, Searching, FoldInvariant, FoldTypeOK
  <2>4. CASE Read(c)
    BY <2>4 DEF Read, foldVars, Inv, Searching
  <2> QED BY <2>1, <2>2, <2>3, <2>4
<1>2. /\ cfg' = cfg /\ cache' \subseteq cache
      /\ \A d \in Call : at'[d] = "answered" =>
           /\ at[d] = "answered" /\ req'[d] = req[d]
           /\ resp'[d] = resp[d] /\ hit'[d] = hit[d]
  BY DEF Send, Search, FoldStep, Read, Inv, Searching
<1>3. Cached' /\ Answered'
  BY <1>2, KeepAnswers
<1> QED BY <1>1, <1>3

\* The initial state satisfies the invariant.
LEMMA InitInv == Init => Inv
<1> SUFFICES ASSUME Init PROVE Inv OBVIOUS
<1>1. (CHOOSE r \in Request : TRUE) \in Request
  BY HandlerAssumption DEF Init
<1> QED BY <1>1, FoldInitInv DEF Init, FoldInit, Inv, Searching, Cached, Answered

\* Every step preserves the invariant.
LEMMA NextInv == Inv /\ [Next]_vars => Inv'
<1> SUFFICES ASSUME Inv, [Next]_vars PROVE Inv' OBVIOUS
<1>1. FoldInvariant'
  BY StepsFold, FoldNextInv DEF Inv
<1>2. ASSUME NEW c \in Call, Send(c) \/ Search(c) \/ FoldStep(c) \/ Read(c) PROVE Inv'
  BY <1>1, <1>2, QuietInv DEF Inv
<1>3. ASSUME NEW c \in Call, FromCache(c) PROVE Inv'
  BY <1>1, <1>3, FromCacheInv DEF Inv
<1>4. ASSUME NEW c \in Call, Succeed(c) PROVE Inv'
  BY <1>1, <1>4, SucceedInv DEF Inv
<1>5. ASSUME NEW c \in Call, Refuse(c) \/ Fail(c) PROVE Inv'
  BY <1>1, <1>5, RefuseFailInv DEF Inv
<1>6. CASE Evict \/ GC \/ UNCHANGED vars
  <2>1. Searching'
    BY <1>6 DEF Evict, GC, Collect, vars, foldVars, Inv, Searching
  <2>2. Cached' /\ Answered'
    BY <1>6, KeepAnswers DEF Evict, GC, vars
  <2> QED BY <1>1, <2>1, <2>2 DEF Inv
<1> QED BY <1>2, <1>3, <1>4, <1>5, <1>6 DEF Next, Serving

-----------------------------------------------------------------------------
\* The header of CORS names the caller's own origin, or "*", or is missing.
LEMMA AllowOwn ==
  ASSUME Inv, NEW r \in Request
  PROVE  Allow(r) \in {"", "*", r.origin}
<1> DEFINE M == {n \in DOMAIN cfg.cors : cfg.cors[n] \in {"*", r.origin}}
<1>1. DOMAIN cfg.cors = 1..Len(cfg.cors) /\ Len(cfg.cors) \in Nat
  BY HandlerAssumption DEF Inv, Searching
<1>2. CASE M = {}
  BY <1>2 DEF Allow
<1>3. CASE M # {}
  <2>1. M \subseteq Nat BY <1>1
  <2>2. IsWellFoundedOn(OpToRel(<, Nat), Nat) BY NatLessThanWellFounded
  <2>3. PICK n \in M : \A m \in M : <<m, n>> \notin OpToRel(<, Nat)
    <3> HIDE DEF M
    <3> QED BY <1>3, <2>1, <2>2, WFMin
  <2>4. \E k \in M : \A m \in M : k <= m
    <3>1. \A m \in M : m \in Nat /\ n \in Nat /\ ~(m < n)
      BY <2>1, <2>3 DEF OpToRel
    <3> HIDE DEF M
    <3> QED BY <3>1
  <2>5. (CHOOSE k \in M : \A m \in M : k <= m) \in M
    BY <2>4
  <2> QED BY <1>3, <2>5 DEF Allow
<1> QED BY <1>2, <1>3

\* Two requests with one URL differ in nothing but whose country a header gives.
LEMMA SameUrl ==
  ASSUME NEW q, NEW r, Url(q) = Url(r)
  PROVE  /\ q.q = r.q /\ q.countries = r.countries
         /\ LimitFor(q) = LimitFor(r) /\ NearFor(q) = NearFor(r)
         /\ ~(cfg.homeHeader /\ r.home = "") => HomeFor(q) = HomeFor(r)
<1>1. /\ q.q = r.q /\ q.limit = r.limit /\ q.home = r.home
      /\ q.lat = r.lat /\ q.lon = r.lon /\ q.countries = r.countries
  BY DEF Url
<1>2. LimitFor(q) = LimitFor(r) /\ NearFor(q) = NearFor(r)
  BY <1>1 DEF LimitFor, NearFor
<1>3. ~(cfg.homeHeader /\ r.home = "") => HomeFor(q) = HomeFor(r)
  BY <1>1 DEF HomeFor
<1> QED BY <1>1, <1>2, <1>3

\* The invariant says of each answer what the properties ask.
LEMMA InvImplies == Inv => AnswersOwn /\ FailuresPass /\ NoOtherOrigin
<1> SUFFICES ASSUME Inv, NEW c \in Call, at[c] = "answered"
             PROVE  /\ resp[c].body # NoBody =>
                         LET r == req[c]
                             own == Found(r, Folded(r.q, r.q))
                         IN /\ [resp[c].body EXCEPT !.home = own.home] = own
                            /\ ~(hit[c] /\ cfg.homeHeader /\ r.home = "") =>
                                 resp[c].body = own
                    /\ hit[c] => resp[c].status = 200
                    /\ resp[c].allow \in {"", "*", req[c].origin}
  BY DEF AnswersOwn, FailuresPass, NoOtherOrigin
<1> DEFINE r == req[c]
           own == Found(r, Folded(r.q, r.q))
<1>1. r \in Request /\ Fits(r, resp[c], hit[c])
  BY DEF Inv, Searching, Answered
<1>2. own.home = HomeFor(r)
  BY DEF Found
<1>3. CASE hit[c] = FALSE
  <2>1. PICK s \in {200, 204, 400, 405, 500}, b \in {NoBody, Answer(r).body} :
          resp[c] = Response(r, s, b)
    BY <1>1, <1>3 DEF Fits
  <2>2. Answer(r).body \in {NoBody, own}
    BY DEF Answer, Response
  <2>3. resp[c].body = b /\ resp[c].allow = Allow(r)
    BY <2>1 DEF Response
  <2>4. [own EXCEPT !.home = own.home] = own
    BY DEF Found
  <2>5. PICK q \in Request : q = r BY <1>1
  <2>6. Allow(q) \in {"", "*", q.origin} BY AllowOwn
  <2>7. resp[c].allow \in {"", "*", r.origin} BY <2>3, <2>5, <2>6
  <2>8. resp[c].body # NoBody => resp[c].body = own BY <2>2, <2>3
  <2> HIDE DEF own
  <2> QED BY <1>3, <2>4, <2>7, <2>8 DEF own
<1>4. CASE hit[c] = TRUE
  <2>1. PICK q \in Request :
          /\ resp[c] = Answer(q) /\ q.method = r.method /\ Url(q) = Url(r)
          /\ Varies(Allow(q)) => q.origin = r.origin
    BY <1>1, <1>4 DEF Fits
  <2>2. /\ resp[c].status = 200 /\ resp[c].allow = Allow(q)
        /\ resp[c].body \in {NoBody, Found(q, Folded(q.q, q.q))}
    BY <2>1 DEF Answer, Response
  <2>3. Allow(q) \in {"", "*", r.origin}
    BY <2>1, AllowOwn DEF Varies
  <2>4. /\ q.q = r.q
        /\ [Found(q, Folded(r.q, r.q)) EXCEPT !.home = HomeFor(r)] = own
        /\ ~(cfg.homeHeader /\ r.home = "") => HomeFor(q) = HomeFor(r)
    <3> HIDE DEF r
    <3>1. /\ q.q = r.q /\ q.countries = r.countries
          /\ LimitFor(q) = LimitFor(r) /\ NearFor(q) = NearFor(r)
          /\ ~(cfg.homeHeader /\ r.home = "") => HomeFor(q) = HomeFor(r)
      BY <2>1, SameUrl
    <3> DEFINE k == Folded(r.q, r.q)
    <3>2. /\ Found(q, k) = [key |-> k, limit |-> LimitFor(r), home |-> HomeFor(q),
                            near |-> NearFor(r), countries |-> r.countries]
          /\ own = [key |-> k, limit |-> LimitFor(r), home |-> HomeFor(r),
                    near |-> NearFor(r), countries |-> r.countries]
      BY <3>1 DEF Found
    <3> HIDE DEF k, own
    <3>3. [Found(q, k) EXCEPT !.home = HomeFor(r)] = own
      BY <3>2
    <3> QED BY <3>1, <3>3 DEF k
  <2>5. ~(cfg.homeHeader /\ r.home = "") => Found(q, Folded(r.q, r.q)) = own
    BY <2>4 DEF Found
  <2>6. CASE resp[c].body = NoBody
    BY <1>4, <2>2, <2>3, <2>6
  <2>7. CASE resp[c].body = Found(q, Folded(r.q, r.q))
    <3>1. [resp[c].body EXCEPT !.home = own.home] = own
      BY <1>2, <2>4, <2>7
    <3>2. ~(cfg.homeHeader /\ r.home = "") => resp[c].body = own
      BY <2>5, <2>7
    <3> HIDE DEF own
    <3> QED BY <1>4, <2>2, <2>3, <3>1, <3>2 DEF own
  <2> QED BY <2>2, <2>4, <2>6, <2>7
<1>5. hit[c] \in BOOLEAN
  BY <1>1 DEF Fits
<1> QED BY <1>3, <1>4, <1>5

\* For any clients, requests and configuration, each client gets the answer to its
\* own request; only a country told by a header may be another's, from the cache
\* (ServeHTTP, homeFor and Fold).
THEOREM HandlerAnswersOwn == Spec => []AnswersOwn
BY InitInv, NextInv, InvImplies, PTL DEF Spec

\* For any configuration, the cache gives nobody an answer that names an origin
\* other than the one that asks (setCORS and its Vary).
THEOREM HandlerNoOtherOrigin == Spec => []NoOtherOrigin
BY InitInv, NextInv, InvImplies, PTL DEF Spec

\* No refusal or failure comes out of the cache (fail).
THEOREM HandlerFailuresPass == Spec => []FailuresPass
BY InitInv, NextInv, InvImplies, PTL DEF Spec

\* Among the handler's requests, too, each fold is of its own text.
THEOREM HandlerFoldsOwn == Spec => []FoldsOwn
<1>1. Inv => FoldsOwn
  BY DEF Inv, FoldInvariant, Taken, FoldsOwn
<1> QED BY InitInv, NextInv, <1>1, PTL DEF Spec

\* What the handler's clients do to the pool is what callers of Fold do.
THEOREM HandlerImplementsPool == Spec => FoldSpec
<1>1. Init => FoldInit
  BY DEF Init
<1>2. Inv /\ [Next]_vars => [FoldNext]_foldVars
  BY StepsFold
<1> QED BY InitInv, NextInv, <1>1, <1>2, PTL DEF Spec, FoldSpec

-----------------------------------------------------------------------------
\* An answer with results has as many as the client may ask for.
Meant(rs) ==
  /\ rs.status \in {0, 200, 204, 400, 405, 500}
  /\ rs.body # NoBody =>
       rs.body.limit = cfg.defaultLimit \/ rs.body.limit \in 1..cfg.maxLimit

\* What is searched for was asked for properly, and the cache is as small as it
\* should be.
Sized ==
  /\ \A c \in Call : at[c] = "search" => ~Mistaken(req[c])
  /\ \A c \in Call : Meant(resp[c])
  /\ \A e \in cache : Meant(e.resp)
  /\ IsFiniteSet(cache) /\ Cardinality(cache) <= MaxCached

\* The limit of a request that is not refused is in range.
LEMMA LimitInRange ==
  ASSUME cfg \in Config, NEW r \in Request, ~Mistaken(r)
  PROVE  LimitFor(r) = cfg.defaultLimit \/ LimitFor(r) \in 1..cfg.maxLimit
<1>1. r.limit # 0 /\ r.limit \in Nat \cup {None} /\ cfg.maxLimit \in Nat \ {0}
  BY HandlerAssumption DEF Mistaken
<1> QED BY <1>1 DEF LimitFor

\* A cache that loses entries, or takes one it has room for, is no larger than it
\* should be.
LEMMA CacheSized ==
  ASSUME Sized, NEW e,
         \/ cache' \subseteq cache
         \/ cache' = cache \cup {e} /\ Cardinality(cache') <= MaxCached
  PROVE  IsFiniteSet(cache') /\ Cardinality(cache') <= MaxCached
<1>1. IsFiniteSet(cache) /\ Cardinality(cache) <= MaxCached /\ MaxCached \in Nat
  BY HandlerAssumption DEF Sized
<1>2. CASE cache' \subseteq cache
  <2>1. IsFiniteSet(cache') /\ Cardinality(cache') <= Cardinality(cache)
    BY <1>1, <1>2, FS_Subset
  <2>2. Cardinality(cache') \in Nat /\ Cardinality(cache) \in Nat
    BY <1>1, <2>1, FS_CardinalityType
  <2> QED BY <1>1, <2>1, <2>2
<1>3. CASE cache' = cache \cup {e} /\ Cardinality(cache') <= MaxCached
  BY <1>1, <1>3, FS_AddElement
<1> QED BY <1>2, <1>3

\* An answer that passes through the cache.
LEMMA ReplySized ==
  ASSUME Inv, Sized, NEW c \in Call, NEW rs, Reply(c, rs), Meant(rs)
  PROVE  Sized'
<1> DEFINE entry == [method |-> req[c].method, url |-> Url(req[c]),
                     origin |-> req[c].origin, resp |-> rs]
<1>1. /\ resp' = [resp EXCEPT ![c] = rs] /\ at' = [at EXCEPT ![c] = "answered"]
      /\ req' = req /\ cfg' = cfg
      /\ cache' = cache \/ (cache' = cache \cup {entry} /\ Cardinality(cache') <= MaxCached)
  BY DEF Reply
<1>2. IsFiniteSet(cache') /\ Cardinality(cache') <= MaxCached
  <2> HIDE DEF entry
  <2> QED BY <1>1, CacheSized
<1>3. \A x : Meant(x)' <=> Meant(x)
  <2>1. cfg'.defaultLimit = cfg.defaultLimit /\ cfg'.maxLimit = cfg.maxLimit BY <1>1
  <2>2. NoBody' = NoBody BY DEF NoBody, None
  <2> HIDE DEF NoBody
  <2> QED BY <2>1, <2>2 DEF Meant
<1>4. \A e \in cache' : Meant(e.resp)
  BY <1>1 DEF Sized
<1>5. \A d \in Call : Meant(resp'[d])
  BY <1>1 DEF Sized, Inv, Searching
<1>6. \A d \in Call : at'[d] = "search" => ~Mistaken(req'[d])
  BY <1>1 DEF Sized, Inv, Searching
<1> QED BY <1>1, <1>2, <1>3, <1>4, <1>5, <1>6 DEF Sized, Mistaken

\* A step that stores nothing, and answers nobody but from the cache.
LEMMA QuietSized ==
  ASSUME Inv, Sized, cfg' = cfg, cache' \subseteq cache,
         \A c \in Call : at'[c] = "search" => ~Mistaken(req'[c]),
         \A c \in Call : \/ resp'[c] = resp[c] \/ resp'[c] = NoResponse
                         \/ \E e \in cache : resp'[c] = e.resp
  PROVE  Sized'
<1>1. IsFiniteSet(cache') /\ Cardinality(cache') <= MaxCached
  BY CacheSized
<1>2. \A x : Meant(x)' <=> Meant(x)
  BY DEF Meant, NoBody, None
<1>3. Meant(NoResponse)
  BY DEF Meant, NoResponse
<1>4. \A c \in Call : Meant(resp'[c])
  BY <1>3 DEF Sized
<1> QED BY <1>1, <1>2, <1>4 DEF Sized, Mistaken

\* The handler starts with nothing answered and nothing cached.
LEMMA InitSized == Init => Sized
<1> SUFFICES ASSUME Init PROVE Sized OBVIOUS
<1>1. IsFiniteSet({}) /\ Cardinality({}) = 0 BY FS_EmptySet
<1>2. cache = {} /\ \A c \in Call : at[c] = "idle" /\ resp[c] = NoResponse
  BY DEF Init
<1>3. Meant(NoResponse)
  BY DEF Meant, NoResponse
<1>4. IsFiniteSet(cache) /\ Cardinality(cache) <= MaxCached
  <2>1. MaxCached \in Nat BY HandlerAssumption
  <2>2. IsFiniteSet(cache) /\ Cardinality(cache) = 0 BY <1>1, <1>2
  <2> QED BY <2>1, <2>2
<1> QED BY <1>2, <1>3, <1>4 DEF Sized

\* Every step keeps the limits.
LEMMA NextSized == Inv /\ Sized /\ [Next]_vars => Sized'
<1> SUFFICES ASSUME Inv, Sized, [Next]_vars PROVE Sized' OBVIOUS
<1>1. ASSUME NEW c \in Call, Send(c) \/ Search(c) \/ FoldStep(c) \/ Read(c) \/ FromCache(c)
      PROVE Sized'
  <2>1. cfg' = cfg /\ cache' = cache
    BY <1>1 DEF Send, Search, FoldStep, Read, FromCache
  <2>2. ASSUME NEW d \in Call, at'[d] = "search" PROVE ~Mistaken(req'[d])
    <3>1. CASE at[d] = "search" /\ req'[d] = req[d]
      BY <3>1 DEF Sized
    <3>2. CASE Search(c) /\ d = c
      BY <3>2 DEF Search, Verdict
    <3> QED BY <1>1, <2>2, <3>1, <3>2
          DEF Send, Search, FoldStep, Read, FromCache, Inv, Searching
  <2>3. \A d \in Call : \/ resp'[d] = resp[d] \/ resp'[d] = NoResponse
                        \/ \E e \in cache : resp'[d] = e.resp
    BY <1>1 DEF Send, Search, FoldStep, Read, FromCache, Inv, Searching
  <2> QED BY <2>1, <2>2, <2>3, QuietSized
<1>2. ASSUME NEW c \in Call, Succeed(c) PROVE Sized'
  <2> DEFINE b == IF req[c].method = "HEAD" THEN NoBody ELSE Found(req[c], key[c])
  <2>1. at[c] = "search" /\ Reply(c, Response(req[c], 200, b))
    BY <1>2 DEF Succeed
  <2>2. LimitFor(req[c]) = cfg.defaultLimit \/ LimitFor(req[c]) \in 1..cfg.maxLimit
    BY <2>1, LimitInRange DEF Sized, Inv, Searching
  <2>3. Meant(Response(req[c], 200, b))
    BY <2>2 DEF Meant, Response, Found
  <2> HIDE DEF b
  <2> QED BY <2>1, <2>3, ReplySized
<1>3. ASSUME NEW c \in Call, Refuse(c) \/ Fail(c) PROVE Sized'
  <2>1. PICK s \in {204, 400, 405, 500} : Reply(c, Response(req[c], s, NoBody))
    <3>1. Verdict(req[c]) # 0 => Verdict(req[c]) \in {204, 400, 405, 500}
      BY DEF Verdict
    <3> QED BY <1>3, <3>1 DEF Refuse, Fail
  <2>2. Meant(Response(req[c], s, NoBody))
    BY DEF Meant, Response
  <2> QED BY <2>1, <2>2, ReplySized
<1>4. CASE Evict \/ GC \/ UNCHANGED vars
  <2>1. /\ cfg' = cfg /\ cache' \subseteq cache /\ at' = at /\ req' = req /\ resp' = resp
    BY <1>4 DEF Evict, GC, vars
  <2> QED BY <2>1, QuietSized DEF Sized, Mistaken
<1> QED BY <1>1, <1>2, <1>3, <1>4 DEF Next, Serving

\* No answer has another status than the five of the code, none returns more than
\* the configured maximum unless that is the default, and the cache keeps to its
\* room (ServeHTTP, min(n, h.maxLimit)).
THEOREM HandlerTypeCorrect == Spec => []HandlerTypeOK
<1>1. Inv /\ Sized => HandlerTypeOK
  BY DEF Inv, FoldInvariant, Searching, Sized, Meant, HandlerTypeOK
<1> QED BY InitInv, NextInv, InitSized, NextSized, <1>1, PTL DEF Spec
=============================================================================
