-------------------------- MODULE LifecycleProofs --------------------------
(***************************************************************************)
(* The life of an index.  As long as every build has a directory to        *)
(* itself, an index that Open returned is one whole build, and stays so:   *)
(* because the manifest is written last and read first.  At its other end  *)
(* a server closes it behind every request that ends in time, however many *)
(* there are; that a stop ends the process is left to TLC.  And the UI at  *)
(* a terminal: whatever is typed and whatever the terminal's height, the   *)
(* screen shows what the next key will act on.                             *)
(***************************************************************************)
EXTENDS IndexFiles, Serve, Live, FiniteSetTheorems, SequenceTheorems,
        WellFoundedInduction, TLAPS

Manifest == "manifest.json"

Whole(b) == [build |-> b, whole |-> TRUE]
Torn(b) == [build |-> b, whole |-> FALSE]

\* How far the running build is.
Progress ==
  stage > 0 =>
    /\ builds > 0
    /\ \A i \in 1..6 : \A f \in WriteOrder[i] :
         disk[target][f] = IF i < stage THEN Whole(builds)
                           ELSE IF i = stage /\ writing THEN Torn(builds)
                           ELSE Absent

\* A directory with a whole manifest is a whole index.
Complete ==
  \A d \in Dir : disk[d][Manifest].whole =>
    \E b \in 1..MaxBuilds : \A f \in File : disk[d][f] = Whole(b)

\* What a reader has, it has from the index that is there.
Faithful ==
  DOMAIN got # {} =>
    /\ Manifest \in DOMAIN got
    /\ disk[dir][Manifest].whole
    /\ Format[disk[dir][Manifest].build] = FormatVersion
    /\ \A f \in DOMAIN got : got[f].copy = disk[dir][f]

\* What holds wherever indexes are built.
Sound ==
  /\ FilesTypeOK
  /\ stage = 0 => ~writing
  /\ stage > 0 => builds > 0
  /\ reader = "opening" => DOMAIN got # File
  /\ reader = "open" => DOMAIN got = File

\* What holds as long as no index is overwritten.
Inv == Sound /\ Progress /\ Complete /\ Faithful

-----------------------------------------------------------------------------
\* Each file is written in one stage, the manifest in the last.
LEMMA Stages ==
  /\ Len(WriteOrder) = 6
  /\ \A i \in 1..6 : WriteOrder[i] \subseteq File
  /\ \A f \in File : \E i \in 1..6 : f \in WriteOrder[i]
  /\ \A i, j \in 1..6 : \A f \in WriteOrder[i] : f \in WriteOrder[j] => i = j
  /\ Manifest \in File
  /\ \A i \in 1..6 : Manifest \in WriteOrder[i] <=> i = 6
<1>1. File = {"manifest.json", "records.bin", "records.idx", "postings.bin", "hot.bin",
              "countryhot.bin", "names.fst", "hot.fst", "countryhot.fst"}
  <2>1. 1..9 = {1, 2, 3, 4, 5, 6, 7, 8, 9} OBVIOUS
  <2> QED BY <2>1 DEF File, OpenOrder
<1>2. /\ WriteOrder[1] = {"records.bin"} /\ WriteOrder[2] = {"records.idx"}
      /\ WriteOrder[3] = {"hot.fst", "hot.bin"}
      /\ WriteOrder[4] = {"countryhot.fst", "countryhot.bin"}
      /\ WriteOrder[5] = {"names.fst", "postings.bin"}
      /\ WriteOrder[6] = {"manifest.json"} /\ Len(WriteOrder) = 6
  BY DEF WriteOrder
<1>3. 1..6 = {1, 2, 3, 4, 5, 6} OBVIOUS
<1>4. \A i \in 1..6 : WriteOrder[i] \subseteq File BY <1>1, <1>2, <1>3
<1>5. ASSUME NEW f \in File PROVE \E i \in 1..6 : f \in WriteOrder[i]
  BY <1>1, <1>2, <1>3
<1>6. ASSUME NEW i \in 1..6, NEW j \in 1..6, NEW f \in WriteOrder[i], f \in WriteOrder[j]
      PROVE  i = j
  BY <1>2, <1>3, <1>6
<1>7. Manifest \in File BY <1>1 DEF Manifest
<1>8. \A i \in 1..6 : Manifest \in WriteOrder[i] <=> i = 6
  BY <1>2, <1>3 DEF Manifest
<1> QED BY <1>2, <1>4, <1>5, <1>6, <1>7, <1>8

\* A reader that does not have every file has a next one to acquire, and the
\* first is the manifest.
LEMMA NextFileExists ==
  ASSUME DOMAIN got \subseteq File, DOMAIN got # File
  PROVE  NextFile \in File /\ (DOMAIN got = {} => NextFile = Manifest)
<1>1. OpenOrder \in Surjection(1..9, File)
  <2>1. DOMAIN OpenOrder = 1..9 /\ OpenOrder = [n \in 1..9 |-> OpenOrder[n]]
    BY DEF OpenOrder
  <2>2. OpenOrder \in [1..9 -> File] BY <2>1 DEF File
  <2> QED BY <2>2 DEF Surjection, File
<1>2. IsFiniteSet(File) /\ Cardinality(File) <= 9
  <2>0. \A a, b \in Int : /\ IsFiniteSet(a..b)
                          /\ Cardinality(a..b) = IF a > b THEN 0 ELSE b - a + 1
    BY FS_Interval
  <2>1. IsFiniteSet(1..9) /\ Cardinality(1..9) = 9
    <3>1. 1 \in Int /\ 9 \in Int /\ ~(1 > 9) /\ 9 - 1 + 1 = 9 OBVIOUS
    <3> QED BY <2>0, <3>1
  <2> QED BY <1>1, <2>1, FS_Surjection
<1>3. DOMAIN got \in SUBSET File OBVIOUS
<1>4. /\ IsFiniteSet(DOMAIN got) /\ Cardinality(DOMAIN got) <= Cardinality(File)
      /\ Cardinality(DOMAIN got) # Cardinality(File)
  BY <1>2, <1>3, FS_Subset
<1>5. Cardinality(DOMAIN got) \in Nat /\ Cardinality(File) \in Nat
  BY <1>2, <1>4, FS_CardinalityType
<1>6. Cardinality(DOMAIN got) + 1 \in 1..9 BY <1>2, <1>4, <1>5
<1>7. NextFile \in File BY <1>6 DEF NextFile, File
<1>8. ASSUME DOMAIN got = {} PROVE NextFile = Manifest
  <2>1. Cardinality(DOMAIN got) + 1 = 1 BY <1>8, FS_EmptySet
  <2>2. OpenOrder[1] = Manifest BY DEF OpenOrder, Manifest
  <2> QED BY <2>1, <2>2 DEF NextFile
<1> QED BY <1>7, <1>8

-----------------------------------------------------------------------------
\* What a stage of the builder leaves in the files.
LEMMA WrittenFacts ==
  ASSUME FilesTypeOK, NEW w \in BOOLEAN, Written(w), stage \in 1..6, builds > 0
  PROVE  /\ disk' \in [Dir -> [File -> Content]]
         /\ \A d \in Dir \ {target} : disk'[d] = disk[d]
         /\ \A f \in File : disk'[target][f] =
              IF f \in WriteOrder[stage] THEN [build |-> builds, whole |-> w]
              ELSE disk[target][f]
<1> DEFINE new == [f \in File |-> IF f \in WriteOrder[stage]
                                  THEN [build |-> builds, whole |-> w]
                                  ELSE disk[target][f]]
<1>1. disk \in [Dir -> [File -> Content]] /\ target \in Dir /\ builds \in 0..MaxBuilds
  BY DEF FilesTypeOK
<1>2. disk' = [disk EXCEPT ![target] = new] BY DEF Written
<1>3. [build |-> builds, whole |-> w] \in Content BY <1>1 DEF Content
<1>4. new \in [File -> Content] BY <1>1, <1>3
<1>5. \A f \in File : new[f] = IF f \in WriteOrder[stage]
                               THEN [build |-> builds, whole |-> w]
                               ELSE disk[target][f]
  OBVIOUS
<1> HIDE DEF new
<1>6. /\ disk' \in [Dir -> [File -> Content]] /\ disk'[target] = new
      /\ \A d \in Dir \ {target} : disk'[d] = disk[d]
  BY <1>1, <1>2, <1>4
<1> QED BY <1>5, <1>6

\* The files a reader has after one more.
LEMMA AcquireFacts ==
  ASSUME Sound, Acquire
  PROVE  /\ NextFile \in File /\ reader = "opening"
         /\ Acceptable(NextFile, disk[dir][NextFile])
         /\ DOMAIN got' = DOMAIN got \cup {NextFile}
         /\ got'[NextFile].copy = disk[dir][NextFile]
         /\ \A f \in DOMAIN got \ {NextFile} : got'[f] = got[f]
         /\ got' \in [DOMAIN got' -> [live : BOOLEAN, copy : Content]]
         /\ DOMAIN got' = File => reader' = "open" /\ view' \in [File -> Content]
         /\ DOMAIN got' # File => UNCHANGED <<reader, view>>
         /\ UNCHANGED <<building, dir, noMmap>>
<1> DEFINE f == NextFile
           g == [h \in DOMAIN got \cup {f} |->
                   IF h = f THEN [live |-> Live(f), copy |-> disk[dir][f]] ELSE got[h]]
<1>1. /\ reader = "opening" /\ Acceptable(f, disk[dir][f]) /\ got' = g
      /\ DOMAIN g = File => reader' = "open" /\ view' = View(g)
      /\ DOMAIN g # File => UNCHANGED <<reader, view>>
      /\ UNCHANGED <<building, dir, noMmap>>
  BY DEF Acquire
<1>2. /\ disk \in [Dir -> [File -> Content]] /\ dir \in Dir /\ DOMAIN got \subseteq File
      /\ got \in [DOMAIN got -> [live : BOOLEAN, copy : Content]]
  BY DEF Sound, FilesTypeOK
<1>3. f \in File BY <1>1, <1>2, NextFileExists DEF Sound
<1>4. Live(f) \in BOOLEAN BY DEF Live
<1>5. [live |-> Live(f), copy |-> disk[dir][f]] \in [live : BOOLEAN, copy : Content]
  BY <1>2, <1>3, <1>4
<1>6. g \in [DOMAIN got \cup {f} -> [live : BOOLEAN, copy : Content]]
  BY <1>2, <1>5
<1>7. /\ DOMAIN g = DOMAIN got \cup {f} /\ g[f].copy = disk[dir][f]
      /\ \A h \in DOMAIN got \ {f} : g[h] = got[h]
  OBVIOUS
<1> HIDE DEF g
<1>8. ASSUME DOMAIN g = File PROVE View(g) \in [File -> Content]
  <2>1. \A h \in File : g[h].copy \in Content BY <1>6, <1>7, <1>8
  <2>2. \A h \in File : Now(g, h) \in Content BY <1>2, <2>1 DEF Now
  <2> QED BY <1>8, <2>2 DEF View
<1> QED BY <1>1, <1>3, <1>6, <1>7, <1>8

-----------------------------------------------------------------------------
\* Before anything happened nobody has a file.
LEMMA InitSound == Init => Sound
<1> SUFFICES ASSUME Init PROVE Sound OBVIOUS
<1>1. Absent \in Content BY FilesAssumption DEF Absent, Content
<1>2. NoFiles = [f \in {} |-> Absent] /\ DOMAIN NoFiles = {} BY DEF NoFiles
<1>3. disk \in [Dir -> [File -> Content]] BY <1>1 DEF Init
<1>4. got \in [DOMAIN got -> [live : BOOLEAN, copy : Content]]
  BY <1>2 DEF Init
<1>5. DOMAIN got \subseteq File BY <1>2 DEF Init
<1>6. builds \in 0..MaxBuilds BY FilesAssumption DEF Init
<1>7. writing \in BOOLEAN /\ noMmap \in BOOLEAN BY DEF Init
<1>8. /\ target \in Dir /\ dir \in Dir /\ stage \in 0..6
      /\ reader \in {"closed", "opening", "open"} /\ got = NoFiles
      /\ view \in {NoFiles} \cup [File -> Content]
  BY DEF Init
<1>9. FilesTypeOK BY <1>3, <1>4, <1>5, <1>6, <1>7, <1>8 DEF FilesTypeOK
<1>10. ~writing /\ stage = 0 /\ reader = "closed" BY DEF Init
<1> QED BY <1>9, <1>10 DEF Sound

\* Every step keeps what holds wherever indexes are built.
LEMMA NextSound == Sound /\ [Next]_vars => Sound'
<1> SUFFICES ASSUME Sound, [Next]_vars PROVE Sound' OBVIOUS
<1>0. FilesTypeOK BY DEF Sound
<1>1. ASSUME NEW d \in Dir, StartBuild(d) PROVE Sound'
  <2>1. builds' \in 0..MaxBuilds /\ builds' > 0
    BY <1>0, <1>1, FilesAssumption DEF StartBuild, FilesTypeOK
  <2> QED BY <1>0, <1>1, <2>1 DEF StartBuild, Sound, FilesTypeOK, reading
<1>2. ASSUME NEW d \in Dir, NEW heap \in BOOLEAN, Opening(d, heap) PROVE Sound'
  <2>1. DOMAIN got = {}
    BY <1>0, <1>2 DEF Opening, FilesTypeOK, NoFiles
  <2>2. DOMAIN got # File BY <2>1, Stages
  <2> QED BY <1>0, <1>2, <2>2 DEF Opening, Sound, FilesTypeOK, building
<1>3. CASE Create
  <2>0. stage > 0 /\ Written(FALSE) /\ UNCHANGED <<builds, target, reading>>
    BY <1>3 DEF Create
  <2>1. stage \in 1..6 /\ builds > 0 BY <1>0, <2>0 DEF FilesTypeOK, Sound
  <2>2. disk' \in [Dir -> [File -> Content]] BY <1>0, <2>0, <2>1, WrittenFacts
  <2>3. stage' = stage /\ writing' = TRUE BY <1>3 DEF Create
  <2>4. FilesTypeOK' BY <1>0, <2>0, <2>2, <2>3 DEF FilesTypeOK, reading
  <2> QED BY <2>0, <2>1, <2>3, <2>4 DEF Sound, reading
<1>4. CASE Flush
  <2>0. stage > 0 /\ Written(TRUE) /\ UNCHANGED <<builds, target, reading>>
    BY <1>4 DEF Flush
  <2>1. stage \in 1..6 /\ builds > 0 BY <1>0, <2>0 DEF FilesTypeOK, Sound
  <2>2. disk' \in [Dir -> [File -> Content]] BY <1>0, <2>0, <2>1, WrittenFacts
  <2>3. stage' \in 0..6 BY <1>4, <2>1, Stages DEF Flush
  <2>4. writing' = FALSE BY <1>4 DEF Flush
  <2>5. FilesTypeOK' BY <1>0, <2>0, <2>2, <2>3, <2>4 DEF FilesTypeOK, reading
  <2>6. ~writing' BY <2>4
  <2> QED BY <2>0, <2>1, <2>5, <2>6 DEF Sound, reading
<1>5. CASE Fail
  <2>1. stage' = 0 /\ UNCHANGED reading /\ UNCHANGED <<disk, builds, target>>
    BY <1>5 DEF Fail
  <2>2. FilesTypeOK'
    <3>1. writing' \in BOOLEAN BY <1>5 DEF Fail
    <3> QED BY <1>0, <2>1, <3>1 DEF FilesTypeOK, reading
  <2>3. stage' = 0 => ~writing' BY <1>5 DEF Fail
  <2> QED BY <2>1, <2>2, <2>3 DEF Sound, reading
<1>6. CASE Acquire
  <2>1. /\ NextFile \in File /\ DOMAIN got' = DOMAIN got \cup {NextFile}
        /\ got' \in [DOMAIN got' -> [live : BOOLEAN, copy : Content]]
        /\ DOMAIN got' = File => reader' = "open" /\ view' \in [File -> Content]
        /\ DOMAIN got' # File => UNCHANGED <<reader, view>>
        /\ UNCHANGED <<building, dir, noMmap>> /\ reader = "opening"
    BY <1>6, AcquireFacts
  <2>2. DOMAIN got' \subseteq File BY <1>0, <2>1 DEF FilesTypeOK
  <2>3. view' \in {NoFiles} \cup [File -> Content] BY <1>0, <2>1 DEF FilesTypeOK
  <2> QED BY <1>0, <2>1, <2>2, <2>3 DEF Sound, FilesTypeOK, building
<1>7. ASSUME Refuse \/ Close PROVE Sound'
  <2>1. /\ reader' = "closed" /\ got' = NoFiles /\ UNCHANGED <<building, dir, noMmap>>
        /\ view' = view \/ view' = NoFiles
    BY <1>7 DEF Refuse, Close, Released
  <2>2. DOMAIN NoFiles = {} BY DEF NoFiles
  <2>3. NoFiles \in [{} -> [live : BOOLEAN, copy : Content]] BY DEF NoFiles
  <2>4. DOMAIN got' \subseteq File /\ got' \in [DOMAIN got' -> [live : BOOLEAN, copy : Content]]
    BY <2>1, <2>2, <2>3
  <2> QED BY <1>0, <2>1, <2>4 DEF Sound, FilesTypeOK, building
<1>8. CASE UNCHANGED vars BY <1>0, <1>8 DEF vars, Sound, FilesTypeOK
<1> QED BY <1>1, <1>2, <1>3, <1>4, <1>5, <1>6, <1>7, <1>8 DEF Next

\* "An index is written once by Build and is immutable afterwards" (writer.go):
\* the state of the builder, the files and the reader stays well formed, and a
\* reader that is closed holds no file, also when builds overwrite indexes.
THEOREM IndexFilesTypeCorrect == Spec => []FilesTypeOK
<1>1. Sound => FilesTypeOK BY DEF Sound
<1> QED BY InitSound, NextSound, <1>1, PTL DEF Spec

-----------------------------------------------------------------------------
\* While a build runs its directory has no whole manifest.
LEMMA ManifestLast ==
  ASSUME Inv, stage > 0
  PROVE  ~disk[target][Manifest].whole
<1>1. Manifest \in WriteOrder[6] /\ stage \in 1..6 /\ 6 \in 1..6
  BY Stages DEF Inv, Sound, FilesTypeOK
<1>2. disk[target][Manifest] = IF 6 < stage THEN Whole(builds)
                               ELSE IF 6 = stage /\ writing THEN Torn(builds)
                               ELSE Absent
  BY <1>1 DEF Inv, Progress
<1>3. disk[target][Manifest] \in {Torn(builds), Absent} BY <1>1, <1>2
<1> QED BY <1>3 DEF Torn, Absent

\* The files of a directory with a whole manifest change no more.
LEMMA Settled ==
  ASSUME Inv, [Next]_vars, NEW d \in Dir, disk[d][Manifest].whole
  PROVE  disk'[d] = disk[d]
<1>0. FilesTypeOK BY DEF Inv, Sound
<1>1. ASSUME Create \/ Flush PROVE disk'[d] = disk[d]
  <2>1. stage > 0 BY <1>1 DEF Create, Flush
  <2>2. d # target BY <2>1, ManifestLast
  <2>3. PICK w \in BOOLEAN : Written(w) BY <1>1 DEF Create, Flush
  <2>4. stage \in 1..6 /\ builds > 0 BY <1>0, <2>1 DEF FilesTypeOK, Inv, Sound
  <2> QED BY <1>0, <2>2, <2>3, <2>4, WrittenFacts
<1>2. ASSUME ~(Create \/ Flush) PROVE disk' = disk
  BY <1>2 DEF Next, vars, building, StartBuild, Opening, Fail, Acquire, Refuse, Close
<1> QED BY <1>1, <1>2

\* Nothing has been built or opened.
LEMMA InitInv == Init => Inv
<1> SUFFICES ASSUME Init PROVE Inv OBVIOUS
<1>1. Sound BY InitSound
<1>2. Progress BY DEF Init, Progress
<1>3. Complete
  <2>1. \A d \in Dir : disk[d][Manifest] = Absent BY Stages DEF Init
  <2> QED BY <2>1 DEF Complete, Absent
<1>4. Faithful BY DEF Init, Faithful, NoFiles
<1> QED BY <1>1, <1>2, <1>3, <1>4 DEF Inv

\* A build keeps to its order, and its last file completes an index.
LEMMA BuilderInv ==
  ASSUME InPlace = FALSE, Inv, [Next]_vars
  PROVE  Progress' /\ Complete'
<1>0. FilesTypeOK /\ Sound /\ Progress /\ Complete BY DEF Inv, Sound
<1>1. ASSUME NEW d \in Dir, StartBuild(d) PROVE Progress' /\ Complete'
  <2>1. /\ builds' = builds + 1 /\ target' = d /\ stage' = 1 /\ stage = 0
        /\ disk' = disk /\ writing' = writing /\ ~Used(d)
    BY <1>1 DEF StartBuild
  <2>2. \A f \in File : disk[d][f] = Absent BY <2>1 DEF Used
  <2>3. ~writing' /\ builds' > 0 BY <1>0, <2>1 DEF Sound, FilesTypeOK
  <2>4. \A i \in 1..6 : \A f \in WriteOrder[i] : f \in File /\ ~(i < 1)
    BY Stages
  <2>5. Progress' BY <2>1, <2>2, <2>3, <2>4 DEF Progress
  <2>6. Complete' BY <1>0, <2>1 DEF Complete
  <2> QED BY <2>5, <2>6
<1>2. CASE Create
  <2>1. /\ stage > 0 /\ ~writing /\ Written(FALSE) /\ writing'
        /\ UNCHANGED <<builds, target, stage>>
    BY <1>2 DEF Create
  <2>2. stage \in 1..6 /\ builds > 0 /\ target \in Dir
    BY <1>0, <2>1 DEF FilesTypeOK, Sound
  <2>3. /\ \A d \in Dir \ {target} : disk'[d] = disk[d]
        /\ \A f \in File : disk'[target][f] =
             IF f \in WriteOrder[stage] THEN Torn(builds) ELSE disk[target][f]
    BY <1>0, <2>1, <2>2, WrittenFacts DEF Torn
  <2>4. ASSUME NEW i \in 1..6, NEW f \in WriteOrder[i]
        PROVE  disk'[target][f] = IF i < stage THEN Whole(builds)
                                  ELSE IF i = stage THEN Torn(builds) ELSE Absent
    <3>1. f \in File /\ (f \in WriteOrder[stage] <=> i = stage)
      BY <2>2, Stages
    <3>2. disk[target][f] = IF i < stage THEN Whole(builds) ELSE Absent
      BY <1>0, <2>1 DEF Progress
    <3> QED BY <2>2, <2>3, <3>1, <3>2
  <2>5. Progress' BY <2>1, <2>2, <2>4 DEF Progress
  <2>6. ~disk'[target][Manifest].whole
    <3>1. disk'[target][Manifest] \in {Torn(builds), disk[target][Manifest]}
      BY <2>3, Stages
    <3>2. ~disk[target][Manifest].whole BY <2>1, ManifestLast
    <3> QED BY <3>1, <3>2 DEF Torn
  <2>7. Complete' BY <1>0, <2>3, <2>6 DEF Complete
  <2> QED BY <2>5, <2>7
<1>3. CASE Flush
  <2>1. /\ stage > 0 /\ writing /\ Written(TRUE) /\ ~writing'
        /\ stage' = (IF stage = 6 THEN 0 ELSE stage + 1)
        /\ UNCHANGED <<builds, target>>
    BY <1>3, Stages DEF Flush
  <2>2. stage \in 1..6 /\ builds > 0 /\ target \in Dir /\ builds \in 1..MaxBuilds
    BY <1>0, <2>1 DEF FilesTypeOK, Sound
  <2>3. /\ \A d \in Dir \ {target} : disk'[d] = disk[d]
        /\ \A f \in File : disk'[target][f] =
             IF f \in WriteOrder[stage] THEN Whole(builds) ELSE disk[target][f]
    BY <1>0, <2>1, <2>2, WrittenFacts DEF Whole
  <2>4. ASSUME NEW i \in 1..6, NEW f \in WriteOrder[i]
        PROVE  disk'[target][f] = IF i <= stage THEN Whole(builds) ELSE Absent
    <3>1. f \in File /\ (f \in WriteOrder[stage] <=> i = stage)
      BY <2>2, Stages
    <3>2. i # stage => disk[target][f] = IF i < stage THEN Whole(builds) ELSE Absent
      BY <1>0, <2>1 DEF Progress
    <3> QED BY <2>2, <2>3, <3>1, <3>2
  <2>5. CASE stage = 6
    <3>1. stage' = 0 BY <2>1, <2>5
    <3>2. Progress' BY <3>1 DEF Progress
    <3>3. ASSUME NEW f \in File PROVE disk'[target][f] = Whole(builds)
      <4>1. PICK i \in 1..6 : f \in WriteOrder[i] BY Stages
      <4> QED BY <2>4, <2>5, <4>1
    <3>4. Complete' BY <1>0, <2>2, <2>3, <3>3 DEF Complete
    <3> QED BY <3>2, <3>4
  <2>6. CASE stage # 6
    <3>1. stage' = stage + 1 BY <2>1, <2>6
    <3>2. \A i \in 1..6 : i <= stage <=> i < stage + 1 BY <2>2
    <3>3. Progress' BY <2>1, <2>2, <2>4, <3>1, <3>2 DEF Progress
    <3>4. disk'[target][Manifest] = Absent
      <4>1. Manifest \in WriteOrder[6] /\ 6 \in 1..6 /\ ~(6 <= stage)
        BY <2>2, <2>6, Stages
      <4> QED BY <2>4, <4>1
    <3>5. Complete' BY <1>0, <2>3, <3>4 DEF Complete, Absent
    <3> QED BY <3>3, <3>5
  <2> QED BY <2>5, <2>6
<1>4. CASE Fail BY <1>0, <1>4 DEF Fail, Progress, Complete
<1>5. ASSUME UNCHANGED building PROVE Progress' /\ Complete'
  BY <1>0, <1>5 DEF building, Progress, Complete
<1>6. ASSUME NEW d \in Dir, NEW heap \in BOOLEAN, Opening(d, heap)
      PROVE  UNCHANGED building
  BY <1>6 DEF Opening
<1>7. ASSUME Acquire \/ Refuse \/ Close \/ UNCHANGED vars PROVE UNCHANGED building
  BY <1>7 DEF Acquire, Refuse, Close, vars, building
<1> QED BY <1>1, <1>2, <1>3, <1>4, <1>5, <1>6, <1>7 DEF Next

\* A reader's copies stay those of the index they came from.
LEMMA ReaderInv ==
  ASSUME Inv, [Next]_vars
  PROVE  Faithful'
<1>0. FilesTypeOK /\ Sound /\ Faithful BY DEF Inv, Sound
<1>1. DOMAIN got # {} => disk'[dir] = disk[dir]
  BY <1>0, Settled DEF Faithful, FilesTypeOK
<1>2. ASSUME UNCHANGED <<dir, got>> PROVE Faithful'
  BY <1>0, <1>1, <1>2 DEF Faithful
<1>3. ASSUME NEW d \in Dir, NEW heap \in BOOLEAN, Opening(d, heap) PROVE Faithful'
  <2>1. got' = NoFiles BY <1>0, <1>3 DEF Opening, FilesTypeOK
  <2> QED BY <2>1 DEF Faithful, NoFiles
<1>4. CASE Acquire
  <2> DEFINE f == NextFile
  <2>1. /\ f \in File /\ Acceptable(f, disk[dir][f])
        /\ DOMAIN got' = DOMAIN got \cup {f} /\ got'[f].copy = disk[dir][f]
        /\ \A h \in DOMAIN got \ {f} : got'[h] = got[h]
        /\ UNCHANGED <<disk, dir>> /\ reader = "opening"
    BY <1>0, <1>4, AcquireFacts DEF building
  <2>2. DOMAIN got = {} => f = Manifest
    BY <1>0, <2>1, NextFileExists DEF FilesTypeOK, Sound
  <2>3. f = Manifest => /\ disk[dir][Manifest].whole
                        /\ Format[disk[dir][Manifest].build] = FormatVersion
    BY <2>1 DEF Acceptable, Manifest
  <2> HIDE DEF f
  <2>4. /\ Manifest \in DOMAIN got' /\ disk[dir][Manifest].whole
        /\ Format[disk[dir][Manifest].build] = FormatVersion
    BY <1>0, <2>1, <2>2, <2>3 DEF Faithful
  <2>5. \A h \in DOMAIN got' : got'[h].copy = disk[dir][h]
    BY <1>0, <2>1 DEF Faithful
  <2> QED BY <2>1, <2>4, <2>5 DEF Faithful
<1>5. ASSUME Refuse \/ Close PROVE Faithful'
  <2>1. got' = NoFiles BY <1>5 DEF Refuse, Close, Released
  <2> QED BY <2>1 DEF Faithful, NoFiles
<1>6. ASSUME NEW d \in Dir, StartBuild(d) PROVE UNCHANGED <<dir, got>>
  BY <1>6 DEF StartBuild, reading
<1>7. ASSUME Create \/ Flush \/ Fail \/ UNCHANGED vars PROVE UNCHANGED <<dir, got>>
  BY <1>7 DEF Create, Flush, Fail, vars, reading
<1> QED BY <1>2, <1>3, <1>4, <1>5, <1>6, <1>7 DEF Next

\* An open reader has the manifest, so its directory is one whole build, and what
\* it has is what is there.
LEMMA InvOneBuild == Inv => OpenIsOneBuild
<1> SUFFICES ASSUME Inv, reader = "open"
    PROVE \E b \in 1..MaxBuilds :
            /\ Format[b] = FormatVersion
            /\ \A f \in File : Now(got, f) = [build |-> b, whole |-> TRUE]
  BY DEF OpenIsOneBuild
<1>1. DOMAIN got = File /\ Manifest \in File /\ dir \in Dir
  BY Stages DEF Inv, Sound, FilesTypeOK
<1>2. /\ disk[dir][Manifest].whole
      /\ Format[disk[dir][Manifest].build] = FormatVersion
      /\ \A f \in File : got[f].copy = disk[dir][f]
  BY <1>1 DEF Inv, Faithful
<1>3. PICK b \in 1..MaxBuilds : \A f \in File : disk[dir][f] = Whole(b)
  BY <1>1, <1>2 DEF Inv, Complete
<1>4. Format[b] = FormatVersion BY <1>1, <1>2, <1>3 DEF Whole
<1>5. \A f \in File : Now(got, f) = Whole(b) BY <1>2, <1>3 DEF Now
<1> QED BY <1>4, <1>5 DEF Whole

\* "Replace an index by building into a new directory" (mapping.go): if every
\* build does, what Open returns is the whole of one build, of this release's
\* format, for as long as it is open, whatever builders and readers there are,
\* wherever they fail and however many files have the same length.
THEOREM OpenedIsOneBuild ==
  ASSUME InPlace = FALSE
  PROVE  Spec => []OpenIsOneBuild
<1>1. Inv /\ [Next]_vars => Inv'
  <2>1. Inv /\ [Next]_vars => Sound' BY NextSound DEF Inv
  <2> QED BY <2>1, BuilderInv, ReaderInv DEF Inv
<1> QED BY InitInv, <1>1, InvOneBuild, PTL DEF Spec

-----------------------------------------------------------------------------
\* The index closes behind runServe's back only, and once Shutdown has returned
\* nothing runs that could have ended in time and no connection may still bring a request.
Stopped == main \in {"returned", "exited"}
ServeInv ==
  /\ ServeTypeOK
  /\ files # "open" \/ ~handle => Stopped
  /\ ~serveErr => \A r \in Request \ Overdue :
                    req[r] \notin Harmed /\ (Stopped => ~InFlight(r))
  /\ ~serveErr /\ Stopped => \A r \in Request : req[r] # "connected"

\* A server that starts satisfies the invariant.
LEMMA InitServe == ServeInit => ServeInv
  BY ServeAssumption DEF ServeInit, ServeInv, ServeTypeOK, Stopped, InFlight, Harmed

\* What a request does leaves the others as they are.
LEMMA RequestSteps ==
  ASSUME ServeInv, NEW q \in Request, Connect(q) \/ Arrive(q) \/ Drop(q) \/ Handle(q)
  PROVE  ServeInv'
<1>1. CASE Arrive(q)
  BY <1>1 DEF Arrive, Step, ServeInv, ServeTypeOK, Stopped, InFlight, Harmed
<1>2. CASE Check(q)
  BY <1>2 DEF Check, Step, ServeInv, ServeTypeOK, Stopped, InFlight, Harmed
<1>3. CASE Enter(q)
  BY <1>3 DEF Enter, Step, ServeInv, ServeTypeOK, Stopped, InFlight, Harmed
<1>4. CASE Read(q)
  BY <1>4 DEF Read, Step, ServeInv, ServeTypeOK, Stopped, InFlight, Harmed
<1>5. CASE Connect(q)
  BY <1>5 DEF Connect, Listening, Step, ServeInv, ServeTypeOK, Stopped, InFlight, Harmed
<1>6. CASE Drop(q)
  BY <1>6 DEF Drop, Step, ServeInv, ServeTypeOK, Stopped, InFlight, Harmed
<1>7. QED
  BY <1>1, <1>2, <1>3, <1>4, <1>5, <1>6 DEF Handle

\* The steps of runServe itself: it returns from Shutdown when nothing runs that
\* could have ended in time.
LEMMA ServeSteps ==
  ASSUME ServeInv, Serve
  PROVE  ServeInv'
<1> USE DEF ServeInv, ServeTypeOK, Stopped, InFlight, Harmed
<1>1. CASE OnServeError
  BY <1>1 DEF OnServeError, Goto
<1>2. CASE OnSignal
  BY <1>2 DEF OnSignal, Goto
<1>3. CASE ShutdownDone
  BY <1>3 DEF ShutdownDone, Idle, Goto
<1>4. CASE Deadline
  BY <1>4 DEF Deadline, Goto
<1>5. CASE CloseFiles
  BY <1>5 DEF CloseFiles
<1>6. CASE CloseIndex
  BY <1>6 DEF CloseIndex
<1>7. CASE Exit
  BY <1>7 DEF Exit
<1>8. QED
  BY <1>1, <1>2, <1>3, <1>4, <1>5, <1>6, <1>7 DEF Serve

\* The invariant is inductive.
LEMMA NextServe == ServeInv /\ [ServeNext]_serveVars => ServeInv'
<1> SUFFICES ASSUME ServeInv, [ServeNext]_serveVars PROVE ServeInv'
  OBVIOUS
<1>1. CASE Serve
  BY <1>1, ServeSteps
<1>2. CASE Signal
  BY <1>2 DEF Signal, ServeInv, ServeTypeOK, Stopped, InFlight, Harmed
<1>3. CASE ServeFails
  BY <1>3 DEF ServeFails, Listening, ServeInv, ServeTypeOK, Stopped, InFlight, Harmed
<1>4. CASE Done \/ UNCHANGED serveVars
  BY <1>4 DEF Done, serveVars, ServeInv, ServeTypeOK, Stopped, InFlight, Harmed
<1>5. ASSUME NEW q \in Request, Connect(q) \/ Arrive(q) \/ Drop(q) \/ Handle(q)
      PROVE  ServeInv'
  BY <1>5, RequestSteps
<1>6. QED
  BY <1>1, <1>2, <1>3, <1>4, <1>5 DEF ServeNext

\* The state of the server stays what ServeTypeOK says (runServe).
THEOREM ServeTypeCorrect == ServeSpec => []ServeTypeOK
<1>1. ServeInv => ServeTypeOK
  BY DEF ServeInv
<1>2. QED
  BY InitServe, NextServe, <1>1, PTL DEF ServeSpec

\* A stop harms no request that ends before the deadline, however many requests
\* there are and however they interleave with runServe (serve.go, 92-93).
THEOREM ServeOthersFinish == ServeSpec => []OthersFinish
<1>1. ServeInv => OthersFinish
  BY DEF ServeInv, OthersFinish
<1>2. QED
  BY InitServe, NextServe, <1>1, PTL DEF ServeSpec

-----------------------------------------------------------------------------
\* The bytes of all keys.
Byte == UNION {ToSet(k) : k \in Key}

\* What a row of a frame may show.
Line == ({"prompt"} \X Seq(Printable)) \cup ({"chosen", "result"} \X Result) \cup {<<"status">>}

\* A frame is on the screen: between keys, and for good once a read has failed.
Up == pc \in Reading \cup {"failed"}

\* The frame that should be on the screen.
Ui == IF Up THEN Frame(query, res, sel) ELSE <<>>

\* The rows above the cursor are the shell's, and as much of ui as fits, its end, is below
\* them, and nothing else.
Shows(ui) ==
  /\ \A r \in 1..row - 1 : screen[r] = Shell
  /\ \A n \in DOMAIN ui :
       Top(Len(ui)) + n > 1 =>
         Top(Len(ui)) + n - 1 <= Rows /\ screen[Top(Len(ui)) + n - 1] = ui[n]
  /\ \A r \in Top(Len(ui)) + Len(ui)..Rows : screen[r] = Blank

LiveInv ==
  /\ LiveTypeOK
  /\ Len(res) <= MaxResults
  /\ pc # "done" => out = <<>>
  /\ Shows(Ui)

\* A function on 1..n is a sequence of length n.
LEMMA ListIsSeq ==
  ASSUME NEW n \in Nat, NEW S, NEW f \in [1..n -> S]
  PROVE  f \in Seq(S) /\ Len(f) = n /\ DOMAIN f = 1..n
OBVIOUS

\* A set of numbers up to a bound has a greatest one.
LEMMA BoundedMax ==
  ASSUME NEW N \in Nat, NEW S, S \subseteq 0..N, S # {}
  PROVE  Max(S) \in S
<1> DEFINE T == {N - x : x \in S}
<1>1. T \subseteq Nat /\ T # {} OBVIOUS
<1>2. IsWellFoundedOn(OpToRel(<, Nat), Nat) BY NatLessThanWellFounded
<1>3. PICK m \in T : \A k \in T : <<k, m>> \notin OpToRel(<, Nat)
  <2> HIDE DEF T
  <2> QED BY <1>1, <1>2, WFMin
<1>4. PICK x \in S : m = N - x OBVIOUS
<1>5. ASSUME NEW y \in S PROVE x >= y
  <2>1. N - y \in T /\ N - y \in Nat /\ m \in Nat BY <1>1
  <2>2. ~(N - y < m) BY <1>3, <2>1 DEF OpToRel
  <2>3. x \in Int /\ y \in Int OBVIOUS
  <2> QED BY <1>4, <2>2, <2>3
<1>6. \E z \in S : \A y \in S : z >= y BY <1>5
<1> QED BY <1>6 DEF Max

\* What is left of a query is a query.
LEMMA WordDropped ==
  ASSUME NEW q \in Seq(Printable)
  PROVE  WithoutWord(q) \in Seq(Printable)
<1> DEFINE A == {m \in 0..Len(q) : m > 0 => q[m] # Space}
           n == Max(A)
           B == {m \in 0..n : m > 0 => q[m] = Space}
           m == Max(B)
<1>1. Len(q) \in Nat OBVIOUS
<1>2. A \subseteq 0..Len(q) /\ 0 \in A BY <1>1
<1> HIDE DEF A
<1>3. n \in 0..Len(q) BY <1>1, <1>2, BoundedMax
<1> HIDE DEF n
<1>4. B \subseteq 0..n /\ 0 \in B /\ n \in Nat BY <1>3
<1> HIDE DEF B
<1>5. m \in 0..n BY <1>4, BoundedMax
<1> HIDE DEF m
<1>6. m \in 0..Len(q) BY <1>1, <1>3, <1>5
<1>7. SubSeq(q, 1, m) \in Seq(Printable)
  <2>1. \A i \in 1..m : q[i] \in Printable BY <1>1, <1>6
  <2> QED BY <1>6, <2>1, SubSeqProperties
<1> QED BY <1>7 DEF WithoutWord, A, n, B, m

\* Of two lists one after the other, each line is a line of the first or of the second.
LEMMA LinesJoined ==
  ASSUME NEW S, NEW s \in Seq(S), NEW t \in Seq(S)
  PROVE  /\ s \o t \in Seq(S) /\ Len(s \o t) = Len(s) + Len(t)
         /\ \A k \in 1..Len(s) : (s \o t)[k] = s[k]
         /\ \A k \in 1..Len(t) : (s \o t)[Len(s) + k] = t[k]
OBVIOUS

\* A list between a first line and a last one.
LEMMA LinesBetween ==
  ASSUME NEW S, NEW x \in S, NEW b \in Seq(S), NEW y \in S
  PROVE  /\ <<x>> \o b \o <<y>> \in Seq(S)
         /\ Len(<<x>> \o b \o <<y>>) = Len(b) + 2
         /\ \A n \in 1..Len(b) : (<<x>> \o b \o <<y>>)[n + 1] = b[n]
<1>0. <<x>> \in Seq(S) /\ Len(<<x>>) = 1 /\ <<y>> \in Seq(S) /\ Len(<<y>>) = 1
  OBVIOUS
<1>1. PICK a \in Seq(S) : a = <<x>> /\ Len(a) = 1 BY <1>0
<1>2. PICK c \in Seq(S) : c = <<y>> /\ Len(c) = 1 BY <1>0
<1>3. PICK N \in Nat : N = Len(b) OBVIOUS
<1>4. PICK d \in Seq(S) : d = a \o b BY LinesJoined
<1>5. Len(d) = 1 + N /\ \A n \in 1..N : d[1 + n] = b[n]
  BY <1>1, <1>3, <1>4, LinesJoined
<1>6. PICK e \in Seq(S) : e = d \o c BY LinesJoined
<1>7. Len(e) = 1 + N + 1 /\ \A n \in 1..1 + N : e[n] = d[n]
  BY <1>2, <1>5, <1>6, LinesJoined
<1>8. ASSUME NEW n \in 1..N PROVE e[n + 1] = b[n]
  <2>1. n + 1 = 1 + n /\ 1 + n \in 1..1 + N BY <1>3
  <2> QED BY <1>5, <1>7, <2>1
<1>9. e = <<x>> \o b \o <<y>> BY <1>1, <1>2, <1>4, <1>6
<1>10. Len(e) = N + 2 BY <1>7
<1> QED BY <1>3, <1>8, <1>9, <1>10

\* A frame is the prompt, a row for each result and the status.
LEMMA FrameLines ==
  ASSUME NEW q \in Seq(Printable), NEW rs \in Seq(Result), NEW s
  PROVE  /\ Frame(q, rs, s) \in Seq(Line)
         /\ Len(Frame(q, rs, s)) = Len(rs) + 2 /\ DOMAIN Frame(q, rs, s) = 1..Len(rs) + 2
         /\ \A n \in 1..Len(rs) :
              Frame(q, rs, s)[n + 1] = <<IF n = s + 1 THEN "chosen" ELSE "result", rs[n]>>
<1> DEFINE p == <<"prompt", q>>
           b == [n \in DOMAIN rs |-> <<IF n = s + 1 THEN "chosen" ELSE "result", rs[n]>>]
<1>1. DOMAIN rs = 1..Len(rs) /\ Len(rs) \in Nat /\ \A n \in 1..Len(rs) : rs[n] \in Result
  OBVIOUS
<1>2. p \in Line /\ <<"status">> \in Line BY DEF Line
<1>3. b \in [1..Len(rs) -> Line] BY <1>1 DEF Line
<1>4. \A n \in 1..Len(rs) : b[n] = <<IF n = s + 1 THEN "chosen" ELSE "result", rs[n]>>
  BY <1>1
<1> HIDE DEF p, b, Line
<1>5. b \in Seq(Line) /\ Len(b) = Len(rs) BY <1>1, <1>3, ListIsSeq
<1>6. PICK f : f = Frame(q, rs, s) OBVIOUS
<1>7. f = <<p>> \o b \o <<<<"status">>>> BY <1>6 DEF Frame, p, b
<1>8. f \in Seq(Line) /\ Len(f) = Len(b) + 2 /\ \A n \in 1..Len(b) : f[n + 1] = b[n]
  BY <1>2, <1>5, <1>7, LinesBetween
<1>9. DOMAIN f = 1..Len(rs) + 2 BY <1>5, <1>8
<1> QED BY <1>4, <1>5, <1>6, <1>8, <1>9

\* Whatever a frame is written over and however tall it is, afterwards the rows above the
\* cursor are still the shell's, and the end of the frame is there with nothing below.
LEMMA PaintShows ==
  ASSUME row \in 1..Rows, history \in Nat, \A r \in 1..row - 1 : screen[r] = Shell,
         NEW at \in 1..row, NEW S, NEW f \in Seq(S), Paint(at, f)
  PROVE  row' \in 1..Rows /\ history' \in Nat /\ Shows(f)'
<1>1. PICK N, over, w : /\ N = Len(f) /\ over = Scrolled(at, f) /\ w = Overlaid(at, f)
  OBVIOUS
<1>2. /\ N \in Nat /\ Rows \in Nat /\ row \in Nat /\ at \in Nat /\ at >= 1 /\ at <= row
      /\ row <= Rows
  BY <1>1, LiveAssumption DEF LiveAssumption
<1>3. /\ over \in Nat
      /\ over = IF at + N - Rows < 1 THEN 0 ELSE at + N - Rows - 1
  BY <1>1, <1>2 DEF Scrolled, Highest
<1>4. \A r \in 1..Rows + N : w[r] = IF r < at THEN screen[r]
                                    ELSE IF r < at + N THEN f[r - at + 1] ELSE Blank
  BY <1>1 DEF Overlaid
<1>5. /\ \A r \in 1..Rows : screen'[r] = w[r + over]
      /\ row' = IF at - over < 1 THEN 1 ELSE at - over
      /\ history' = history + Cardinality({r \in 1..over : w[r] = Shell})
  BY <1>1, <1>2 DEF Paint, Highest
<1>6. row' \in 1..Rows BY <1>2, <1>3, <1>5
<1>7. history' \in Nat
  <2> DEFINE C == {r \in 1..over : w[r] = Shell}
  <2>1. C \subseteq 1..over /\ IsFiniteSet(1..over) BY <1>3, FS_Interval
  <2> HIDE DEF C
  <2>2. Cardinality(C) \in Nat BY <2>1, FS_Subset, FS_CardinalityType
  <2>3. history' = history + Cardinality(C) BY <1>5 DEF C
  <2> QED BY <2>2, <2>3
<1>8. ASSUME NEW r \in 1..row' - 1 PROVE screen'[r] = Shell
  <2>1. row' = at - over /\ r \in 1..Rows /\ r + over < at /\ r + over >= 1
    BY <1>2, <1>3, <1>5, <1>8
  <2>2. r + over \in 1..Rows + N /\ r + over \in 1..row - 1 BY <1>2, <1>3, <2>1
  <2>3. w[r + over] = screen[r + over] BY <1>4, <2>1, <2>2
  <2> QED BY <1>5, <2>1, <2>2, <2>3
<1>9. PICK top : top = at - over OBVIOUS
<1>10. top \in Int /\ top + over = at /\ Top(N)' = top
  BY <1>2, <1>3, <1>5, <1>9 DEF Top
<1>11. top + N <= Rows + 1 BY <1>2, <1>3, <1>9
<1>12. ASSUME NEW n \in 1..N, top + n > 1
       PROVE  top + n - 1 <= Rows /\ screen'[top + n - 1] = f[n]
  <2>1. top + n - 1 \in 1..Rows BY <1>2, <1>10, <1>11, <1>12
  <2>2. (top + n - 1) + over = at + n - 1 BY <1>2, <1>3, <1>10
  <2>3. at + n - 1 \in 1..Rows + N /\ ~(at + n - 1 < at) /\ at + n - 1 < at + N
        /\ (at + n - 1) - at + 1 = n
    BY <1>2
  <2>4. w[at + n - 1] = f[n] BY <1>4, <2>3
  <2>5. screen'[top + n - 1] = w[(top + n - 1) + over] BY <1>5, <2>1
  <2> QED BY <2>1, <2>2, <2>4, <2>5
<1>13. ASSUME NEW r \in top + N..Rows PROVE screen'[r] = Blank
  <2>1. r \in Int /\ r >= top + N BY <1>2, <1>10
  <2>2. r + over >= at + N /\ r + over <= Rows + N
    <3>1. over <= N BY <1>2, <1>3
    <3> QED BY <1>2, <1>3, <1>10, <2>1, <3>1
  <2>3. r \in 1..Rows
    <3>1. top + N >= 1 BY <1>2, <1>3, <1>9
    <3> QED BY <1>2, <1>10, <2>1, <3>1
  <2>4. r + over \in 1..Rows + N BY <1>2, <1>3, <2>2, <2>3
  <2>5. w[r + over] = Blank BY <1>2, <1>3, <1>4, <2>2, <2>4
  <2> QED BY <1>5, <2>3, <2>5
<1>14. DOMAIN f = 1..N BY <1>1
<1>15. /\ \A r \in 1..row' - 1 : screen'[r] = Shell
       /\ \A n \in DOMAIN f :
            Top(N)' + n > 1 => Top(N)' + n - 1 <= Rows /\ screen'[Top(N)' + n - 1] = f[n]
       /\ \A r \in Top(N)' + N..Rows : screen'[r] = Blank
  BY <1>8, <1>10, <1>12, <1>13, <1>14
<1>16. Top(Len(f))' = Top(N)' BY <1>1 DEF Top
<1>17. Shows(f)' BY <1>1, <1>15, <1>16 DEF Shows, Shell, Blank
<1> QED BY <1>6, <1>7, <1>17

-----------------------------------------------------------------------------
\* Drawing a frame, of whatever query and results, from where the cursor is.
LEMMA DrawShows ==
  ASSUME LiveInv, NEW q \in Seq(Printable), NEW rs \in Seq(Result), NEW s, Draw(q, rs, s)
  PROVE  /\ row' \in 1..Rows /\ history' \in Nat /\ drawn' \in Nat
         /\ \A f : f = Frame(q, rs, s) => Shows(f)'
<1>1. PICK f : f = Frame(q, rs, s) OBVIOUS
<1>2. f \in Seq(Line) /\ Len(f) \in Nat BY <1>1, FrameLines
<1>3. PICK at : at = Climbed OBVIOUS
<1>4. Paint(at, f) /\ drawn' = Len(f) BY <1>1, <1>3 DEF Draw
<1>5. /\ row \in 1..Rows /\ history \in Nat /\ drawn \in Nat
      /\ \A r \in 1..row - 1 : screen[r] = Shell
  BY DEF LiveInv, LiveTypeOK, Shows
<1>6. at \in 1..row BY <1>3, <1>5 DEF Climbed, Highest
<1> HIDE DEF Line
<1>7. row' \in 1..Rows /\ history' \in Nat /\ Shows(f)'
  BY <1>2, <1>4, <1>5, <1>6, PaintShows
<1> QED BY <1>1, <1>2, <1>4, <1>7

\* Drawing the query, the results and the selection it is left with.
LEMMA DrawKeeps ==
  ASSUME LiveInv, NEW q \in Seq(Printable), NEW rs \in Seq(Result), NEW s, Draw(q, rs, s),
         query' = q, res' = rs, sel' = s, pc' \in Reading
  PROVE  row' \in 1..Rows /\ history' \in Nat /\ drawn' \in Nat /\ Shows(Ui)'
<1>1. PICK f : f = Frame(q, rs, s) OBVIOUS
<1>2. row' \in 1..Rows /\ history' \in Nat /\ drawn' \in Nat /\ Shows(f)'
  BY <1>1, DrawShows
<1>3. Ui' = f BY <1>1 DEF Ui, Up, Frame
<1> QED BY <1>2, <1>3 DEF Shows, Top

\* Erasing the frame leaves nothing of it.
LEMMA EraseShows ==
  ASSUME LiveInv, Erase, pc' = "done"
  PROVE  row' \in 1..Rows /\ history' \in Nat /\ drawn' \in Nat /\ Shows(Ui)'
<1>1. PICK at : at = Climbed OBVIOUS
<1>2. PICK f \in Seq(Line) : f = <<>>
  <2>1. <<>> \in Seq(Line) OBVIOUS
  <2> QED BY <2>1
<1>3. Paint(at, f) /\ drawn' = 0 BY <1>1, <1>2 DEF Erase
<1>4. /\ row \in 1..Rows /\ history \in Nat /\ drawn \in Nat
      /\ \A r \in 1..row - 1 : screen[r] = Shell
  BY DEF LiveInv, LiveTypeOK, Shows
<1>5. at \in 1..row BY <1>1, <1>4 DEF Climbed, Highest
<1> HIDE DEF Line
<1>6. row' \in 1..Rows /\ history' \in Nat /\ Shows(f)'
  BY <1>3, <1>4, <1>5, PaintShows
<1>7. Ui' = f BY <1>2 DEF Ui, Up, Reading
<1> QED BY <1>3, <1>6, <1>7 DEF Shows, Top

\* A screen left alone still shows the frame it showed.
LEMMA StillShows ==
  ASSUME LiveInv, UNCHANGED <<frame, query, res, sel>>, Up <=> Up'
  PROVE  row' \in 1..Rows /\ history' \in Nat /\ drawn' \in Nat /\ Shows(Ui)'
<1>1. row' \in 1..Rows /\ history' \in Nat /\ drawn' \in Nat
  BY DEF LiveInv, LiveTypeOK, frame
<1>2. Ui' = Ui BY DEF Ui, Up, Frame
<1>3. row' = row /\ screen' = screen BY DEF frame
<1> QED BY <1>1, <1>2, <1>3 DEF Shows, Top, LiveInv, Shell, Blank

-----------------------------------------------------------------------------
\* What reaches the program is bytes of keys, also when it is cut anywhere.
LEMMA BytesCut ==
  ASSUME NEW S, NEW q \in Seq(S), NEW n \in 0..Len(q)
  PROVE  SubSeq(q, 1, n) \in Seq(S) /\ SubSeq(q, n + 1, Len(q)) \in Seq(S)
<1>1. Len(q) \in Nat /\ \A i \in 1..Len(q) : q[i] \in S OBVIOUS
<1>2. SubSeq(q, 1, n) \in Seq(S)
  <2>1. \A i \in 1..n : q[i] \in S BY <1>1
  <2> QED BY <2>1, SubSeqProperties
<1>3. SubSeq(q, n + 1, Len(q)) \in Seq(S)
  <2>1. \A i \in n + 1..Len(q) : q[i] \in S BY <1>1
  <2> QED BY <1>1, <2>1, SubSeqProperties
<1> QED BY <1>2, <1>3

\* A key is a list of bytes.
LEMMA KeyBytes ==
  ASSUME NEW k \in Key
  PROVE  k \in Seq(Byte)
<1>1. /\ \A i \in 1..Len(k) : k[i] \in ToSet(k)
      /\ Len(k) \in Nat /\ DOMAIN k = 1..Len(k) /\ k \in Seq(ToSet(k))
  BY DEF Key, ToSet
<1>2. ToSet(k) \subseteq Byte BY DEF Byte
<1> QED BY <1>1, <1>2

\* What a search leaves: the query, results for it and the selection on the first.
LEMMA SearchFinds ==
  ASSUME NEW q \in Seq(Printable), Search(q)
  PROVE  query' = q /\ sel' = 0 /\ res' \in Seq(Result) /\ Len(res') <= MaxResults
<1>1. PICK n \in 0..MaxResults : res' = [i \in 1..n |-> <<q, i>>] BY DEF Search
<1>2. n \in Nat /\ n <= MaxResults BY LiveAssumption
<1>3. PICK f \in [1..n -> Result] : f = [i \in 1..n |-> <<q, i>>]
  <2>1. [i \in 1..n |-> <<q, i>>] \in [1..n -> Result] BY <1>2, LiveAssumption DEF Result
  <2> QED BY <2>1
<1>4. f \in Seq(Result) /\ Len(f) = n BY <1>2, ListIsSeq
<1> QED BY <1>1, <1>2, <1>3, <1>4 DEF Search

-----------------------------------------------------------------------------
\* The part of the invariant about the keys.
InputOK == tty \in Seq(Byte) /\ buf \in Seq(Byte) /\ eof \in BOOLEAN /\ presses \in 0..MaxPresses

\* The part about what is shown and written.
UiOK ==
  /\ pc \in {"start", "read", "csi", "done", "failed"}
  /\ query \in Seq(Printable) /\ res \in Seq(Result) /\ Len(res) <= MaxResults
  /\ sel = 0 \/ sel \in 0..Len(res) - 1
  /\ out \in Seq(Result) /\ Len(out) <= 1 /\ (pc # "done" => out = <<>>)
  /\ row \in 1..Rows /\ drawn \in Nat /\ history \in Nat
  /\ Shows(Ui)

\* The two parts are the invariant.
LEMMA LiveParts == LiveInv <=> InputOK /\ UiOK
BY DEF LiveInv, LiveTypeOK, InputOK, UiOK, Byte

\* The same of the next state.
LEMMA PartsNext == InputOK' /\ UiOK' => LiveInv'
BY DEF LiveInv, LiveTypeOK, InputOK, UiOK, Byte

\* At the start there is no frame, and the rows above the cursor are the shell's.
LEMMA InitLive == LiveInit => LiveInv
<1> SUFFICES ASSUME LiveInit PROVE LiveInv OBVIOUS
<1>1. InputOK
  <2>1. <<>> \in Seq(Byte) OBVIOUS
  <2>2. 0 \in 0..MaxPresses BY LiveAssumption DEF LiveAssumption
  <2> HIDE DEF Byte
  <2> QED BY <2>1, <2>2 DEF LiveInit, InputOK
<1>2. Ui = <<>> BY DEF LiveInit, Ui, Up, Reading
<1>3. Shows(Ui)
  <2>1. DOMAIN Ui = {} /\ Len(Ui) = 0 BY <1>2
  <2>2. row = FirstRow /\ FirstRow \in 1..Rows /\ Rows \in Nat
        /\ screen = [r \in 1..Rows |-> IF r < FirstRow THEN Shell ELSE Blank]
    BY LiveAssumption DEF LiveInit
  <2> QED BY <2>1, <2>2 DEF Shows, Top, Shell, Blank
<1>4. UiOK BY <1>3, LiveAssumption DEF LiveInit, UiOK, LiveAssumption
<1> QED BY <1>1, <1>4, LiveParts

\* A new query, its results and the frame that shows them.
LEMMA RequeryLive ==
  ASSUME LiveInv, pc \in Reading, NEW q \in Seq(Printable), Requery(q)
  PROVE  UiOK'
<1>1. PICK rs : rs = res' OBVIOUS
<1>2. Search(q) /\ Draw(q, rs, 0) /\ pc' = pc /\ out' = out BY <1>1 DEF Requery
<1>3. query' = q /\ sel' = 0 /\ rs \in Seq(Result) /\ Len(rs) <= MaxResults
  BY <1>1, <1>2, SearchFinds
<1>4. pc' \in Reading BY <1>2
<1>5. row' \in 1..Rows /\ history' \in Nat /\ drawn' \in Nat /\ Shows(Ui)'
  BY <1>1, <1>2, <1>3, <1>4, DrawKeeps
<1>6. UiOK BY LiveParts
<1> QED BY <1>1, <1>2, <1>3, <1>5, <1>6 DEF UiOK

\* The same query and results, drawn again with another selection.
LEMMA MovedLive ==
  ASSUME LiveInv, pc \in Reading, pc' \in Reading, NEW s, s = 0 \/ s \in 0..Len(res) - 1,
         Draw(query, res, s), sel' = s, UNCHANGED <<query, res, out>>
  PROVE  UiOK'
<1>1. UiOK BY LiveParts
<1>2. PICK q, rs : q = query /\ rs = res OBVIOUS
<1>3. q \in Seq(Printable) /\ rs \in Seq(Result) /\ Draw(q, rs, s) /\ query' = q /\ res' = rs
  BY <1>1, <1>2 DEF UiOK
<1>4. row' \in 1..Rows /\ history' \in Nat /\ drawn' \in Nat /\ Shows(Ui)'
  BY <1>3, DrawKeeps
<1>5. pc' \in {"start", "read", "csi", "done", "failed"} /\ out = <<>> BY <1>1 DEF UiOK, Reading
<1> QED BY <1>1, <1>4, <1>5 DEF UiOK

\* A step that leaves the screen and what it shows alone.
LEMMA StillLive ==
  ASSUME LiveInv, UNCHANGED <<frame, query, res, sel, out>>,
         pc' = pc \/ (pc \in Reading /\ (pc' \in Reading \/ pc' = "failed"))
  PROVE  UiOK'
<1>1. UiOK BY LiveParts
<1>2. /\ Up <=> Up'
      /\ pc' \in {"start", "read", "csi", "done", "failed"} /\ (pc' = "done" => pc = "done")
      /\ (pc = "done" => pc' = "done")
  BY <1>1 DEF UiOK, Up, Reading
<1>3. row' \in 1..Rows /\ history' \in Nat /\ drawn' \in Nat /\ Shows(Ui)'
  BY <1>2, StillShows
<1> QED BY <1>1, <1>2, <1>3 DEF UiOK

\* Leaving writes at most the selected result.
LEMMA FinishLive ==
  ASSUME LiveInv, pc \in Reading, NEW accept, Finish(accept)
  PROVE  UiOK'
<1>1. UiOK BY LiveParts
<1>2. Erase /\ pc' = "done" /\ UNCHANGED <<query, res, sel>> BY DEF Finish
<1>3. row' \in 1..Rows /\ history' \in Nat /\ drawn' \in Nat /\ Shows(Ui)'
  BY <1>2, EraseShows
<1>4. out' \in Seq(Result) /\ Len(out') <= 1
  <2>1. out = <<>> BY <1>1 DEF UiOK, Reading
  <2>2. CASE accept /\ sel < Len(res)
    <3>1. PICK r : r = res[sel + 1] OBVIOUS
    <3>2. r \in Result
      <4>1. sel + 1 \in 1..Len(res) BY <1>1, <2>2 DEF UiOK
      <4> QED BY <1>1, <3>1, <4>1 DEF UiOK
    <3>3. out' = <<r>> BY <2>1, <2>2, <3>1 DEF Finish
    <3> QED BY <3>2, <3>3
  <2>3. CASE ~(accept /\ sel < Len(res))
    <3>1. out' = <<>> BY <2>1, <2>3 DEF Finish
    <3> QED BY <3>1
  <2> QED BY <2>2, <2>3
<1> QED BY <1>1, <1>2, <1>3, <1>4 DEF UiOK

\* A byte that edits the query.
LEMMA EditLive ==
  ASSUME LiveInv, pc = "read", NEW b, Edit(b)
  PROVE  UiOK'
<1>1. UiOK /\ pc \in Reading BY LiveParts DEF Reading
<1>2. query \in Seq(Printable) BY <1>1 DEF UiOK
<1>3. ASSUME query # <<>>, Requery(Front(query)) PROVE UiOK'
  <2>1. PICK q : q = Front(query) OBVIOUS
  <2>2. q \in Seq(Printable)
    <3>1. q = SubSeq(query, 1, Len(query) - 1) BY <2>1 DEF Front
    <3>2. Len(query) - 1 \in 0..Len(query) BY <1>2, <1>3
    <3> QED BY <1>2, <3>1, <3>2, BytesCut
  <2> QED BY <1>1, <1>3, <2>1, <2>2, RequeryLive
<1>4. ASSUME Redraw PROVE UiOK'
  <2>1. PICK s : s = sel OBVIOUS
  <2>2. /\ Draw(query, res, s) /\ sel' = s /\ UNCHANGED <<query, res, out>> /\ pc' \in Reading
        /\ s = 0 \/ s \in 0..Len(res) - 1
    BY <1>1, <1>4, <2>1 DEF Redraw, UiOK
  <2> QED BY <1>1, <2>2, MovedLive
<1>5. ASSUME Requery(<<>>) PROVE UiOK'
  <2>1. <<>> \in Seq(Printable) OBVIOUS
  <2> QED BY <1>1, <1>5, <2>1, RequeryLive
<1>6. ASSUME Requery(WithoutWord(query)) PROVE UiOK'
  <2>1. PICK q : q = WithoutWord(query) OBVIOUS
  <2>2. q \in Seq(Printable) BY <1>2, <2>1, WordDropped
  <2> QED BY <1>1, <1>6, <2>1, <2>2, RequeryLive
<1>7. ASSUME b \in Printable, Requery(Append(query, b)) PROVE UiOK'
  <2>1. PICK q : q = Append(query, b) OBVIOUS
  <2>2. q \in Seq(Printable) BY <1>2, <1>7, <2>1
  <2> QED BY <1>1, <1>7, <2>1, <2>2, RequeryLive
<1>8. ASSUME UNCHANGED <<frame, pc, query, res, sel, out>> PROVE UiOK'
  BY <1>8, StillLive
<1> QED BY <1>3, <1>4, <1>5, <1>6, <1>7, <1>8 DEF Edit

\* What is left of a list without its first element.
LEMMA TailIsSeq ==
  ASSUME NEW S, NEW q \in Seq(S), q # <<>>
  PROVE  Tail(q) \in Seq(S)
OBVIOUS

\* Reading a byte in the middle of no key, or of one.
LEMMA ReadInput ==
  ASSUME LiveInv, ReadKey \/ ReadCursor
  PROVE  InputOK'
<1>1. InputOK BY LiveParts
<1>2. buf # <<>> /\ UNCHANGED <<tty, eof, presses>> BY DEF ReadKey, ReadCursor
<1>3. PICK t : t = Tail(buf) OBVIOUS
<1>4. t \in Seq(Byte) BY <1>1, <1>2, <1>3, TailIsSeq DEF InputOK
<1>5. t # <<>> => Tail(t) \in Seq(Byte) BY <1>4, TailIsSeq
<1>6. buf' = t \/ (t # <<>> /\ buf' = Tail(t)) BY <1>3 DEF ReadKey, ReadCursor, Escape
<1>7. buf' \in Seq(Byte) BY <1>4, <1>5, <1>6
<1> QED BY <1>1, <1>2, <1>7 DEF InputOK

\* A byte between keys: it edits, leaves, or begins a sequence.
LEMMA ReadKeyLive ==
  ASSUME LiveInv, ReadKey
  PROVE  UiOK'
<1>1. pc = "read" /\ pc \in Reading BY DEF ReadKey, Reading
<1>2. PICK b : b = Head(buf) OBVIOUS
<1>3. CASE Edit(b) BY <1>1, <1>3, EditLive
<1>4. CASE Leave(b)
  <2>1. Finish(FALSE) \/ Finish(TRUE) BY <1>4 DEF Leave
  <2> QED BY <1>1, <2>1, FinishLive
<1>5. CASE Escape(Tail(buf))
  <2>1. CASE pc' = "csi" /\ UNCHANGED <<frame, query, res, sel, out>>
    <3>1. pc' \in Reading BY <2>1 DEF Reading
    <3> QED BY <1>1, <2>1, <3>1, StillLive
  <2>2. CASE Finish(FALSE) BY <1>1, <2>2, FinishLive
  <2> QED BY <1>5, <2>1, <2>2 DEF Escape
<1> QED BY <1>2, <1>3, <1>4, <1>5 DEF ReadKey

\* The byte that ends a sequence: an arrow moves the selection, never off the results.
LEMMA ReadCursorLive ==
  ASSUME LiveInv, ReadCursor
  PROVE  UiOK'
<1>1. pc \in Reading /\ pc' \in Reading BY DEF ReadCursor, Reading
<1>2. UiOK BY LiveParts
<1>3. ASSUME NEW s, s = 0 \/ s \in 0..Len(res) - 1, MoveTo(s) PROVE UiOK'
  <2>1. Draw(query, res, s) /\ sel' = s /\ UNCHANGED <<query, res, out>> BY <1>3 DEF MoveTo
  <2> QED BY <1>1, <1>3, <2>1, MovedLive
<1>4. CASE MoveTo(IF sel > 0 THEN sel - 1 ELSE sel)
  <2>1. PICK s : s = IF sel > 0 THEN sel - 1 ELSE sel OBVIOUS
  <2>2. s = 0 \/ s \in 0..Len(res) - 1 BY <1>2, <2>1 DEF UiOK
  <2>3. MoveTo(s) BY <1>4, <2>1
  <2> QED BY <1>3, <2>2, <2>3
<1>5. CASE MoveTo(IF sel < Len(res) - 1 THEN sel + 1 ELSE sel)
  <2>1. PICK s : s = IF sel < Len(res) - 1 THEN sel + 1 ELSE sel OBVIOUS
  <2>2. Len(res) \in Nat BY <1>2 DEF UiOK
  <2>3. s = 0 \/ s \in 0..Len(res) - 1 BY <1>2, <2>1, <2>2 DEF UiOK
  <2>4. MoveTo(s) BY <1>5, <2>1
  <2> QED BY <1>3, <2>3, <2>4
<1>6. CASE UNCHANGED <<frame, query, res, sel, out>> BY <1>1, <1>6, StillLive
<1> QED BY <1>4, <1>5, <1>6 DEF ReadCursor

\* Every step keeps the invariant.
LEMMA NextLive == LiveInv /\ [LiveNext]_liveVars => LiveInv'
<1> SUFFICES ASSUME LiveInv, [LiveNext]_liveVars PROVE LiveInv' OBVIOUS
<1>1. InputOK /\ UiOK BY LiveParts
<1>2. CASE Start
  <2>1. InputOK' BY <1>1, <1>2 DEF Start, input, InputOK
  <2>2. PICK q, rs, s : q = query /\ rs = res /\ s = sel OBVIOUS
  <2>3. /\ q \in Seq(Printable) /\ rs \in Seq(Result) /\ Draw(q, rs, s)
        /\ query' = q /\ res' = rs /\ sel' = s /\ pc' \in Reading
    BY <1>1, <1>2, <2>2 DEF Start, UiOK, Reading
  <2>4. row' \in 1..Rows /\ history' \in Nat /\ drawn' \in Nat /\ Shows(Ui)'
    BY <2>3, DrawKeeps
  <2>5. UiOK' BY <1>1, <1>2, <2>4 DEF Start, UiOK
  <2> QED BY <2>1, <2>5, PartsNext
<1>3. ASSUME NEW k \in Key, Press(k) PROVE LiveInv'
  <2>1. tty' \in Seq(Byte)
    <3>1. k \in Seq(Byte) BY KeyBytes
    <3>2. tty \in Seq(Byte) /\ tty' = tty \o k BY <1>1, <1>3 DEF InputOK, Press
    <3> QED BY <3>1, <3>2, LinesJoined
  <2>2. presses' \in 0..MaxPresses
    BY <1>1, <1>3, LiveAssumption DEF InputOK, Press, LiveAssumption
  <2>3. InputOK' BY <1>1, <1>3, <2>1, <2>2 DEF InputOK, Press
  <2>4. UiOK' BY <1>3, StillLive DEF Press
  <2> QED BY <2>3, <2>4, PartsNext
<1>4. CASE Hangup
  <2>1. PICK n \in 0..Len(tty) : tty' = SubSeq(tty, 1, n) BY <1>4 DEF Hangup
  <2>2. tty' \in Seq(Byte) BY <1>1, <2>1, BytesCut DEF InputOK
  <2>3. InputOK' BY <1>1, <1>4, <2>2 DEF InputOK, Hangup
  <2>4. UiOK' BY <1>4, StillLive DEF Hangup
  <2> QED BY <2>3, <2>4, PartsNext
<1>5. CASE Fetch
  <2>1. PICK n \in 1..Len(tty) : buf' = SubSeq(tty, 1, n) /\ tty' = SubSeq(tty, n + 1, Len(tty))
    BY <1>5 DEF Fetch
  <2>2. n \in 0..Len(tty) OBVIOUS
  <2>3. tty' \in Seq(Byte) /\ buf' \in Seq(Byte) BY <1>1, <2>1, <2>2, BytesCut DEF InputOK
  <2>4. InputOK' BY <1>1, <1>5, <2>3 DEF InputOK, Fetch
  <2>5. UiOK' BY <1>5, StillLive DEF Fetch
  <2> QED BY <2>4, <2>5, PartsNext
<1>6. CASE ReadKey BY <1>6, ReadInput, ReadKeyLive, PartsNext
<1>7. CASE ReadCursor BY <1>7, ReadInput, ReadCursorLive, PartsNext
<1>8. CASE ReadEnd
  <2>1. InputOK' BY <1>1, <1>8 DEF ReadEnd, input, InputOK
  <2>2. pc \in Reading /\ (Finish(FALSE) \/ ReadFails) BY <1>8 DEF ReadEnd, Ended
  <2>3. CASE Finish(FALSE) BY <2>1, <2>2, <2>3, FinishLive, PartsNext
  <2>4. CASE ReadFails
    <3>1. UiOK' BY <2>2, <2>4, StillLive DEF ReadFails
    <3> QED BY <2>1, <3>1, PartsNext
  <2> QED BY <2>2, <2>3, <2>4
<1>9. CASE UNCHANGED liveVars
  <2>1. InputOK' BY <1>1, <1>9 DEF liveVars, input, InputOK
  <2>2. UiOK' BY <1>9, StillLive DEF liveVars
  <2> QED BY <2>1, <2>2, PartsNext
<1> QED BY <1>2, <1>3, <1>4, <1>5, <1>6, <1>7, <1>8, <1>9 DEF LiveNext, Run, LiveDone

\* The invariant holds in every reachable state.
LEMMA LiveInvariant == LiveSpec => []LiveInv
BY InitLive, NextLive, PTL DEF LiveSpec

\* The live UI keeps its types, however the keys' bytes are cut and whenever the terminal
\* hangs up: the selection is on a result whenever there is one, and at most one result
\* is written (run, search, handleEscape and finish).
THEOREM LiveTypeCorrect == LiveSpec => []LiveTypeOK
<1>1. LiveInv => LiveTypeOK BY DEF LiveInv
<1> QED BY <1>1, LiveInvariant, PTL

\* On a terminal of any height and with the cursor on any row of it, after every key the
\* screen shows the query, its results and the selection, once, or the end of them, with
\* the shell's rows above and nothing below (draw and finish).
THEOREM LiveScreenMatches == LiveSpec => []ScreenMatches
<1>1. LiveInv => ScreenMatches BY DEF LiveInv, Shows, Ui, Up, ScreenMatches
<1> QED BY <1>1, LiveInvariant, PTL

-----------------------------------------------------------------------------
\* Only Enter writes a result, and it is the selected one.
LEMMA OnlyEnterWrites ==
  ASSUME LiveNext, out' # out
  PROVE  pc \in Reading /\ sel < Len(res) /\ out' = Append(out, res[sel + 1])
<1>1. PICK accept : pc \in Reading /\ Finish(accept)
  <2>1. ReadKey \/ ReadEnd
    BY DEF LiveNext, Run, Start, Press, Hangup, Fetch, ReadCursor, MoveTo, LiveDone, liveVars
  <2>2. CASE ReadKey
    <3>1. pc \in Reading BY <2>2 DEF ReadKey, Reading
    <3>2. Finish(FALSE) \/ Finish(TRUE)
      BY <2>2 DEF ReadKey, Edit, Requery, Redraw, Leave, Escape
    <3> QED BY <3>1, <3>2
  <2>3. CASE ReadEnd BY <2>3 DEF ReadEnd, Ended, ReadFails
  <2> QED BY <2>1, <2>2, <2>3
<1> QED BY <1>1 DEF Finish

\* The selected result is on the screen, and marked, unless it has scrolled off.
LEMMA ChosenShown ==
  ASSUME LiveInv, pc \in Reading, sel < Len(res), Len(res) - sel + 1 <= Rows
  PROVE  \E n \in 1..Rows : screen[n] = <<"chosen", res[sel + 1]>>
<1>1. PICK f, q, rs, s : f = Frame(q, rs, s) /\ q = query /\ rs = res /\ s = sel OBVIOUS
<1>2. /\ q \in Seq(Printable) /\ rs \in Seq(Result) /\ s \in Nat /\ s < Len(rs)
      /\ row \in 1..Rows /\ Rows \in Nat
  BY <1>1, LiveAssumption DEF LiveInv, LiveTypeOK, LiveAssumption
<1>3. s + 1 \in 1..Len(rs) BY <1>2
<1>4. Len(f) = Len(rs) + 2 /\ DOMAIN f = 1..Len(rs) + 2
  BY <1>1, <1>2, FrameLines
<1>5. f[(s + 1) + 1] = <<"chosen", rs[s + 1]>> BY <1>1, <1>2, <1>3, FrameLines
<1>6. Ui = f BY <1>1 DEF Ui, Up
<1>7. PICK top : top = Top(Len(f)) OBVIOUS
<1>8. \A n \in DOMAIN f : top + n > 1 => top + n - 1 <= Rows /\ screen[top + n - 1] = f[n]
  <2>1. Shows(Ui) BY DEF LiveInv
  <2> QED BY <1>6, <1>7, <2>1 DEF Shows
<1>9. PICK n \in DOMAIN f : n = (s + 1) + 1 BY <1>2, <1>3, <1>4
<1>10. top \in Int /\ top + n > 1
  <2>1. PICK N, M \in Nat : N = Len(f) /\ M = Len(rs) BY <1>2, <1>4
  <2>2. N = M + 2 /\ M - s + 1 <= Rows /\ s \in Nat /\ n = s + 2
    BY <1>1, <1>2, <1>4, <1>9, <2>1
  <2>3. top = IF N > Rows THEN Rows - N + 1 ELSE row BY <1>7, <2>1 DEF Top
  <2>4. row \in Nat /\ row >= 1 BY <1>2
  <2>5. CASE N > Rows
    <3>1. top = Rows - N + 1 BY <2>3, <2>5
    <3> QED BY <1>2, <2>1, <2>2, <3>1
  <2>6. CASE ~(N > Rows)
    <3>1. top = row BY <2>3, <2>6
    <3> QED BY <2>2, <2>4, <3>1
  <2> QED BY <2>5, <2>6
<1>11. top + n - 1 <= Rows /\ screen[top + n - 1] = f[n] BY <1>8, <1>10
<1>12. top + n - 1 \in 1..Rows BY <1>2, <1>9, <1>10, <1>11
<1> QED BY <1>1, <1>5, <1>9, <1>11, <1>12

\* What Enter writes is the result the frame highlighted when it was read: the selection
\* and the list are the ones last drawn, never newer than the screen (run and finish).
THEOREM LiveAcceptsWhatIsShown == LiveSpec => AcceptsWhatIsShown
<1>1. LiveInv /\ [LiveNext]_liveVars =>
        [out' # out /\ Len(res) - sel + 1 <= Rows =>
           \A r \in ToSet(out') : \E n \in 1..Rows : screen[n] = <<"chosen", r>>]_liveVars
  <2> SUFFICES ASSUME LiveInv, [LiveNext]_liveVars, out' # out,
                      Len(res) - sel + 1 <= Rows, NEW r \in ToSet(out')
               PROVE  \E n \in 1..Rows : screen[n] = <<"chosen", r>>
    OBVIOUS
  <2>1. LiveNext BY DEF liveVars
  <2>2. pc \in Reading /\ sel < Len(res) /\ out' = Append(out, res[sel + 1])
    BY <2>1, OnlyEnterWrites
  <2>3. out = <<>> BY <2>2 DEF LiveInv, Reading
  <2>4. PICK c : c = res[sel + 1] OBVIOUS
  <2>5. out' = <<c>> BY <2>2, <2>3, <2>4
  <2>6. r = c BY <2>5 DEF ToSet
  <2>7. \E n \in 1..Rows : screen[n] = <<"chosen", c>> BY <2>2, <2>4, ChosenShown
  <2> QED BY <2>6, <2>7
<1> QED BY <1>1, LiveInvariant, PTL DEF LiveSpec, AcceptsWhatIsShown

-----------------------------------------------------------------------------
\* How many steps of the UI there can be at most, once no more keys come.
Remaining == 2 * Len(tty) + Len(buf) + (CASE pc = "start" -> 2 [] pc \in Reading -> 1 [] OTHER -> 0)

\* What a step may do to it after a hangup.
Nearer == eof => Remaining' < Remaining

\* The end is a number of steps away.
LEMMA RemainingIsNat == LiveInv => Remaining \in Nat
<1> SUFFICES ASSUME LiveInv PROVE Remaining \in Nat OBVIOUS
<1>1. tty \in Seq(Byte) /\ buf \in Seq(Byte) /\ pc \in {"start", "read", "csi", "done", "failed"}
  BY DEF LiveInv, LiveTypeOK, Byte
<1>2. PICK t, b \in Nat : t = Len(tty) /\ b = Len(buf) BY <1>1
<1> QED BY <1>1, <1>2 DEF Remaining, Reading

\* A byte read is gone from the buffer, and the UI does not start again.
LEMMA ReadNearer ==
  ASSUME LiveInv, ReadKey \/ ReadCursor
  PROVE  Remaining' < Remaining
<1>1. tty \in Seq(Byte) /\ buf \in Seq(Byte) /\ buf # <<>> /\ tty' = tty /\ pc \in Reading
  BY DEF LiveInv, LiveTypeOK, Byte, ReadKey, ReadCursor, Reading
<1>2. PICK b, t : b = buf /\ t = Tail(buf) OBVIOUS
<1>3. t \in Seq(Byte) /\ Len(t) = Len(b) - 1 /\ Len(b) \in Nat BY <1>1, <1>2
<1>4. t # <<>> => Len(Tail(t)) = Len(t) - 1 BY <1>3
<1>5. buf' = t \/ (t # <<>> /\ buf' = Tail(t)) BY <1>2 DEF ReadKey, ReadCursor, Escape
<1>6. Len(buf') <= Len(b) - 1 /\ Len(buf') \in Int
  <2>1. CASE buf' = t BY <1>3, <2>1
  <2>2. CASE t # <<>> /\ buf' = Tail(t) BY <1>3, <1>4, <2>2
  <2> QED BY <1>5, <2>1, <2>2
<1>7. pc' # "start"
  BY <1>1 DEF ReadKey, Edit, Requery, Redraw, Leave, Escape, Finish, ReadCursor, Reading
<1>8. PICK m, k, l \in Int : m = Len(tty) /\ k = Len(buf) /\ l = Len(buf')
  <2>1. Len(tty) \in Int /\ Len(buf) \in Int BY <1>1
  <2> QED BY <1>6, <2>1
<1>9. Remaining = 2 * m + k + 1
  BY <1>1, <1>8 DEF Remaining, Reading
<1>10. Remaining' = 2 * m + l + (IF pc' \in Reading THEN 1 ELSE 0)
  BY <1>1, <1>7, <1>8 DEF Remaining, Reading
<1>11. l <= k - 1 BY <1>2, <1>6, <1>8
<1>12. l <= k - 1 /\ m \in Int /\ k \in Int /\ l \in Int => 2 * m + l + 1 < 2 * m + k + 1 /\ 2 * m + l + 0 < 2 * m + k + 1
  OBVIOUS
<1> QED BY <1>8, <1>9, <1>10, <1>11, <1>12

\* After the terminal has hung up every step the UI takes brings its end nearer, whatever
\* was pressed and wherever the bytes were cut: no key is asked for again (readByte's
\* error and handleEscape).  This is what HangupEnds rests on, for inputs of any length.
THEOREM HangupShortens == LiveSpec => [][Nearer]_liveVars
<1>1. LiveInv /\ [LiveNext]_liveVars => [Nearer]_liveVars
  <2> SUFFICES ASSUME LiveInv, LiveNext, liveVars' # liveVars, eof
               PROVE  Remaining' < Remaining
    BY DEF Nearer
  <2>1. tty \in Seq(Byte) /\ buf \in Seq(Byte) /\ pc \in {"start", "read", "csi", "done", "failed"}
    BY DEF LiveInv, LiveTypeOK, Byte
  <2>2. PICK m, k \in Nat : m = Len(tty) /\ k = Len(buf) BY <2>1
  <2>3. CASE Start
    BY <2>2, <2>3 DEF Start, input, Remaining, Reading
  <2>4. CASE Fetch
    <3>1. PICK n \in 1..Len(tty) : buf' = SubSeq(tty, 1, n) /\ tty' = SubSeq(tty, n + 1, Len(tty))
      BY <2>4 DEF Fetch
    <3>2. n \in 1..m /\ Len(buf') = n /\ Len(tty') = m - n
      <4>1. Len(SubSeq(tty, 1, n)) = n /\ Len(SubSeq(tty, n + 1, Len(tty))) = m - n
        BY <2>1, <2>2, SubSeqProperties
      <4> QED BY <2>2, <3>1, <4>1
    <3>3. buf = <<>> /\ pc' = pc /\ pc \in Reading BY <2>4 DEF Fetch, Reading
    <3>4. Remaining = 2 * m + 1 BY <2>2, <3>3 DEF Remaining, Reading
    <3>5. Remaining' = 2 * (m - n) + n + 1 BY <3>2, <3>3 DEF Remaining, Reading
    <3> QED BY <2>2, <3>2, <3>4, <3>5
  <2>5. CASE ReadKey \/ ReadCursor BY <2>5, ReadNearer
  <2>6. CASE ReadEnd
    <3>1. tty' = tty /\ buf' = buf /\ pc \in Reading /\ pc' \in {"done", "failed"}
      BY <2>6 DEF ReadEnd, Ended, Finish, ReadFails, input
    <3> QED BY <2>2, <3>1 DEF Remaining, Reading
  <2> QED BY <2>3, <2>4, <2>5, <2>6 DEF LiveNext, Run, Press, Hangup, LiveDone
<1> QED BY <1>1, LiveInvariant, PTL DEF LiveSpec
=============================================================================
