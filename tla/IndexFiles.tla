----------------------------- MODULE IndexFiles -----------------------------
(***************************************************************************)
(* An index as nine files: index.Build writing them one after another into *)
(* a directory (internal/index/writer.go), index.OpenWith acquiring them   *)
(* one after another, and Close (reader.go, mapping.go).  A builder may    *)
(* fail or be killed anywhere; a reader may open a directory at any time.  *)
(*                                                                         *)
(* A file is told by the build that wrote it and whether it is whole.  A   *)
(* mapping is a live view of its file, a read one a copy.                  *)
(***************************************************************************)
EXTENDS Integers, Sequences, FiniteSets

CONSTANTS Dir,
          MaxBuilds,    \* bound: builds started
          InPlace,      \* may a build overwrite an index?
          Records,      \* build -> how many records it writes
          Format,       \* build -> the FormatVersion of the release that made it
          FormatVersion \* the reader's

ASSUME FilesAssumption ==
  /\ MaxBuilds \in Nat /\ InPlace \in BOOLEAN
  /\ Records \in [1..MaxBuilds -> Nat] /\ Format \in [1..MaxBuilds -> Nat]

\* Mutant of WriteOrder: the manifest leads.
ManifestFirst ==
  <<{"manifest.json"}, {"records.bin"}, {"records.idx"}, {"hot.fst", "hot.bin"},
    {"countryhot.fst", "countryhot.bin"}, {"names.fst", "postings.bin"}>>

\* What Build creates, fills and flushes together, in order.
WriteOrder ==
  <<{"records.bin"}, {"records.idx"}, {"hot.fst", "hot.bin"},
    {"countryhot.fst", "countryhot.bin"}, {"names.fst", "postings.bin"},
    {"manifest.json"}>>

\* What OpenWith acquires, in order.
OpenOrder ==
  <<"manifest.json", "records.bin", "records.idx", "postings.bin", "hot.bin",
    "countryhot.bin", "names.fst", "hot.fst", "countryhot.fst">>

File == {OpenOrder[n] : n \in 1..9}
FST == {"names.fst", "hot.fst", "countryhot.fst"}

VARIABLES disk,         \* dir -> file -> what is in it
          builds,       \* builds started
          target,       \* the directory being built in
          stage,        \* of WriteOrder; 0: no build is running
          writing,      \* has the stage created its files?
          reader,       \* "closed", "opening", "open"
          dir, noMmap,  \* what it opens
          got,          \* the files acquired: file -> [live, copy]
          view          \* what the files showed when Open returned

vars == <<disk, builds, target, stage, writing, reader, dir, noMmap, got, view>>
building == <<disk, builds, target, stage, writing>>
reading == <<reader, dir, noMmap, got, view>>

Absent == [build |-> 0, whole |-> FALSE]
Content == [build : 0..MaxBuilds, whole : BOOLEAN]
NoFiles == [f \in {} |-> Absent]

Init ==
  /\ disk = [d \in Dir |-> [f \in File |-> Absent]]
  /\ builds = 0 /\ target \in Dir /\ stage = 0 /\ writing = FALSE
  /\ reader = "closed" /\ dir \in Dir /\ noMmap = FALSE
  /\ got = NoFiles /\ view = NoFiles

-----------------------------------------------------------------------------
\* The builder.
Used(d) == \E f \in File : disk[d][f] # Absent

StartBuild(d) ==
  /\ stage = 0 /\ builds < MaxBuilds
  /\ InPlace \/ ~Used(d)
  /\ builds' = builds + 1 /\ target' = d /\ stage' = 1
  /\ UNCHANGED <<disk, writing, reading>>

Written(whole) ==
  disk' = [disk EXCEPT ![target] =
             [f \in File |-> IF f \in WriteOrder[stage]
                             THEN [build |-> builds, whole |-> whole] ELSE @[f]]]

\* os.Create: new files, or those there truncated.
Create ==
  /\ stage > 0 /\ ~writing
  /\ Written(FALSE) /\ writing' = TRUE
  /\ UNCHANGED <<builds, target, stage, reading>>

Flush ==
  /\ stage > 0 /\ writing
  /\ Written(TRUE) /\ writing' = FALSE
  /\ stage' = (IF stage = Len(WriteOrder) THEN 0 ELSE stage + 1)
  /\ UNCHANGED <<builds, target, reading>>

\* Any error, or the end of the process.
Fail ==
  /\ stage > 0 /\ stage' = 0 /\ writing' = FALSE
  /\ UNCHANGED <<disk, builds, target, reading>>

-----------------------------------------------------------------------------
\* The reader.
Opening(d, heap) ==
  /\ reader = "closed"
  /\ reader' = "opening" /\ dir' = d /\ noMmap' = heap
  /\ UNCHANGED <<building, got, view>>

NextFile == OpenOrder[Cardinality(DOMAIN got) + 1]

\* The manifest is read, an FST is vellum's to open, and it maps it.
Live(f) == f # "manifest.json" /\ (f \in FST \/ ~noMmap)

\* What OpenWith demands of file f with c in it: the manifest must parse and be of
\* this format, records.idx as long as the manifest says.
Acceptable(f, c) ==
  /\ c # Absent
  /\ f = "manifest.json" => c.whole /\ Format[c.build] = FormatVersion
  /\ f = "records.idx" => c.whole /\ Records[c.build] = Records[got["manifest.json"].copy.build]

\* vellum looks at an FST's header and size: one cut short may pass, or not.
Refusable(f, c) == ~Acceptable(f, c) \/ (f \in FST /\ ~c.whole)

Now(g, f) == IF g[f].live THEN disk[dir][f] ELSE g[f].copy
View(g) == [f \in DOMAIN g |-> Now(g, f)]

Acquire ==
  LET f == NextFile
      g == [h \in DOMAIN got \cup {f} |->
              IF h = f THEN [live |-> Live(f), copy |-> disk[dir][f]] ELSE got[h]]
  IN /\ reader = "opening"
     /\ Acceptable(f, disk[dir][f])
     /\ got' = g
     /\ IF DOMAIN g = File
        THEN reader' = "open" /\ view' = View(g)
        ELSE UNCHANGED <<reader, view>>
     /\ UNCHANGED <<building, dir, noMmap>>

\* Mutant of Released: what was acquired before the error is kept.
ReleasedNone == got

\* OpenWith's deferred Close, and Close itself.
Released == NoFiles

Refuse ==
  /\ reader = "opening" /\ Refusable(NextFile, disk[dir][NextFile])
  /\ reader' = "closed" /\ got' = Released
  /\ UNCHANGED <<building, dir, noMmap, view>>

Close ==
  /\ reader = "open"
  /\ reader' = "closed" /\ got' = Released /\ view' = NoFiles
  /\ UNCHANGED <<building, dir, noMmap>>

Next ==
  \/ \E d \in Dir : StartBuild(d) \/ \E heap \in BOOLEAN : Opening(d, heap)
  \/ Create \/ Flush \/ Fail
  \/ Acquire \/ Refuse \/ Close

Spec == Init /\ [][Next]_vars

-----------------------------------------------------------------------------
\* A reader that is closed holds no file, also after an Open that failed.
FilesTypeOK ==
  /\ disk \in [Dir -> [File -> Content]]
  /\ builds \in 0..MaxBuilds /\ target \in Dir /\ stage \in 0..6 /\ writing \in BOOLEAN
  /\ reader \in {"closed", "opening", "open"} /\ dir \in Dir /\ noMmap \in BOOLEAN
  /\ DOMAIN got \subseteq File /\ got \in [DOMAIN got -> [live : BOOLEAN, copy : Content]]
  /\ view \in {NoFiles} \cup [File -> Content]
  /\ reader = "closed" => got = NoFiles

\* "Replace an index by building into a new directory" (mapping.go): as long as
\* every build does, an index that Open returns is the whole of one build of this
\* format and stays so, whichever builds failed and whenever Open was called.
OpenIsOneBuild ==
  reader = "open" =>
    \E b \in 1..MaxBuilds :
      /\ Format[b] = FormatVersion
      /\ \A f \in File : Now(got, f) = [build |-> b, whole |-> TRUE]

\* With NoMmap an index is "a snapshot that cannot change underneath you"
\* (typetown.go, Options).
SnapshotFixed == reader = "open" /\ noMmap => View(got) = view
=============================================================================
