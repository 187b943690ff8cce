------------------------------ MODULE FoldPool ------------------------------
(***************************************************************************)
(* Concurrent calls of geonames.Fold (internal/geonames/normalize.go).  A  *)
(* transformer holds the text that is passing through it, so two calls     *)
(* must never be in one; the pool is what keeps them apart.  sync.Pool may *)
(* drop what was put back, and makes a new transformer when it has none to *)
(* give or finds none.                                                     *)
(***************************************************************************)
CONSTANTS Call,             \* goroutines that call Fold
          Transformer, NoTransformer,
          Text, NoText,     \* NoText: what a transformer never used holds
          Plain,            \* text -> what comes out of a transformer
          Key,              \* text -> lower-cased, white space collapsed
          Malformed         \* the texts a transformer fails on

VARIABLES pool,             \* the transformers sync.Pool holds
          text,             \* transformer -> the text in it
          phase,            \* how far each call is
          arg,              \* call -> s
          held,             \* call -> t
          key               \* call -> what it returns

foldVars == <<pool, text, phase, arg, held, key>>

\* What Fold makes of s when the text through is in its transformer at the end.
Folded(s, through) == Key[IF through \in Malformed THEN s ELSE Plain[through]]

-----------------------------------------------------------------------------
FoldInit ==
  /\ pool = {}
  /\ text = [t \in Transformer |-> NoText]
  /\ phase = [c \in Call |-> "idle"]
  /\ arg = [c \in Call |-> NoText]
  /\ held = [c \in Call |-> NoTransformer]
  /\ key = [c \in Call |-> NoText]

Fold(c, s) ==
  /\ phase[c] = "idle"
  /\ phase' = [phase EXCEPT ![c] = "get"]
  /\ arg' = [arg EXCEPT ![c] = s]
  /\ UNCHANGED <<pool, text, held, key>>

\* Mutant of Borrowed: one instance, shared.
Shared(t) == pool \cup {t}

\* folders.Get takes what it gives out of the pool.
Borrowed(t) == pool \ {t}

New == {t \in Transformer \ pool : \A c \in Call : held[c] # t}

Get(c) ==
  /\ phase[c] = "get"
  /\ \E t \in pool \cup New :
       /\ held' = [held EXCEPT ![c] = t]
       /\ pool' = Borrowed(t)
  /\ phase' = [phase EXCEPT ![c] = "reset"]
  /\ UNCHANGED <<text, arg, key>>

\* transform.String resets the transformer, and fills it ...
Load(c) ==
  /\ phase[c] = "reset"
  /\ text' = [text EXCEPT ![held[c]] = arg[c]]
  /\ phase' = [phase EXCEPT ![c] = "transform"]
  /\ UNCHANGED <<pool, arg, held, key>>

\* ... and takes the result out; it can fail.
Take(c) ==
  /\ phase[c] = "transform"
  /\ key' = [key EXCEPT ![c] = Folded(arg[c], text[held[c]])]
  /\ phase' = [phase EXCEPT ![c] = "put"]
  /\ UNCHANGED <<pool, text, arg, held>>

Put(c) ==
  /\ phase[c] = "put"
  /\ pool' = pool \cup {held[c]}
  /\ held' = [held EXCEPT ![c] = NoTransformer]
  /\ phase' = [phase EXCEPT ![c] = "done"]
  /\ UNCHANGED <<text, arg, key>>

\* The caller has the key, and the call's variables are gone.
Return(c) ==
  /\ phase[c] = "done"
  /\ phase' = [phase EXCEPT ![c] = "idle"]
  /\ arg' = [arg EXCEPT ![c] = NoText] /\ key' = [key EXCEPT ![c] = NoText]
  /\ UNCHANGED <<pool, text, held>>

\* The garbage collector empties the pool; t stands for a new one from then on.
Collect ==
  /\ \E t \in pool :
       pool' = pool \ {t} /\ text' = [text EXCEPT ![t] = NoText]
  /\ UNCHANGED <<phase, arg, held, key>>

Folding(c) == Get(c) \/ Load(c) \/ Take(c) \/ Put(c)

FoldNext ==
  \/ \E c \in Call : Folding(c) \/ Return(c) \/ \E s \in Text : Fold(c, s)
  \/ Collect

FoldSpec == FoldInit /\ [][FoldNext]_foldVars

-----------------------------------------------------------------------------
FoldTypeOK ==
  /\ pool \in SUBSET Transformer
  /\ text \in [Transformer -> Text \cup {NoText}]
  /\ phase \in [Call -> {"idle", "get", "reset", "transform", "put", "done"}]
  /\ arg \in [Call -> Text \cup {NoText}]
  /\ held \in [Call -> Transformer \cup {NoTransformer}]

\* "Fold is safe for concurrent use": a call returns the key of its own text,
\* whatever texts the calls beside it fold and whichever transformers they had
\* before (folders.Get to folders.Put).
FoldsOwn == \A c \in Call : phase[c] = "done" => key[c] = Folded(arg[c], arg[c])
=============================================================================
