---------------------------- MODULE ExtractProofs ----------------------------
(***************************************************************************)
(* What the runs of extract leave, for any runs, command lines and inputs. *)
(* FilesAreListed holds of runs that overlap, too: it is about a run and   *)
(* the files that are still its own.  NotOverwritten, TornIsRepaired and   *)
(* the refinement of ExtractContract are proved of runs one after the      *)
(* other.                                                                  *)
(***************************************************************************)
EXTENDS Extract, TLAPS

USE ExtractAssumption
------------------------------------------------------------------------------
(* The steps and their paths.                                              *)

\* The steps are numbered, and each family is written by one of them.
LEMMA Steps ==
    /\ Len(Order) = 19 /\ DOMAIN Order = 1 .. 19
    /\ \A n \in 1 .. 19 : Order[n] \in Family
    /\ \A f \in Family : \E n \in 1 .. 19 : Order[n] = f
<1>1. Len(Order) = 19 /\ DOMAIN Order = 1 .. 19
  BY DEF Order
<1> QED BY <1>1 DEF Family

\* No two steps write the same family.
LEMMA StepsDiffer == \A m, n \in 1 .. 19 : Order[m] = Order[n] => m = n
BY DEF Order

\* What a path outside the families is called, no family is.
LEMMA OtherPaths ==
    \A f \in Family : f \notin {"manifest", "manifest elsewhere", "raw elsewhere", "text elsewhere"}
<1>1. \A n \in 1 .. 19 : Order[n] \in
        {"strings", "tables", "books", "matrices", "excel", "functions", "notes", "graphs", "summary", "tree",
         "decoded", "inventory", "reports", "raw", "text", "images", "envelopes", "map", "provenance"}
  BY DEF Order
<1> QED BY ZenonT(30), <1>1, Steps

\* Each family and the manifest of a run have a path of their own.
LEMMA Paths ==
    ASSUME NEW o, NEW f \in Family
    PROVE  /\ PathOf(o, f) \in Path /\ ManifestPath(o) \in Path
           /\ ManifestPath(o) # PathOf(o, f)
           /\ \A g \in Family : PathOf(o, g) = PathOf(o, f) => g = f
<1>1. ManifestPath(o) \in {"manifest", "manifest elsewhere"} \cap Path
  BY DEF ManifestPath, Path
<1>2. \A g \in Family : PathOf(o, g) = IF g = "raw" /\ o.rawDir THEN "raw elsewhere"
                                      ELSE IF g = "text" /\ o.textDir THEN "text elsewhere" ELSE g
  BY DEF PathOf
<1>3. PathOf(o, f) \in {f, "raw elsewhere", "text elsewhere"} /\ PathOf(o, f) \in Path
  BY <1>2 DEF Path
<1>4. ASSUME NEW g \in Family, PathOf(o, g) = PathOf(o, f) PROVE g = f
  BY <1>2, <1>4, OtherPaths
<1> QED BY <1>1, <1>3, <1>4, OtherPaths

\* The next step is not behind the one that was asked for.
LEMMA ReachIsAhead ==
    ASSUME NEW o, NEW type, NEW n \in 1 .. 20
    PROVE  Reach(o, type, n) \in n .. 20
<1> DEFINE rest == {m \in n .. 19 : StepEnabled(o, type, Order[m])}
<1>1. CASE rest = {}
  BY <1>1, Steps DEF Reach
<1>2. CASE rest # {}
  <2>1. PICK m \in rest : \A k \in rest : m <= k
    <3>1. \A k \in Int : k \in rest => k \in 1 .. 19
      OBVIOUS
    <3> QED BY <1>2
  <2> QED BY SMTT(20), <1>2, <2>1, Steps DEF Reach
<1> QED BY <1>1, <1>2
------------------------------------------------------------------------------
(* The type.                                                               *)

\* There are nineteen steps.
LEMMA StepCount == Len(Order) = 19
BY Steps

\* The actions keep the type, and a run that writes is at a step.
TypeInv == TypeOK /\ \A r \in Run : pc[r] = "write" => at[r] <= 19

\* A first state has its type.
LEMMA TypeInit == Init => TypeInv
<1> SUFFICES ASSUME Init PROVE TypeInv
  OBVIOUS
<1>1. /\ at \in [Run -> 1 .. Len(Order) + 1]
      /\ failures \in 0 .. MaxFailures
  BY StepCount DEF Init
<1>2. \A r \in Run : pc[r] = "idle"
  BY DEF Init
<1>3. /\ pc \in [Run -> {"idle", "check", "scan", "step", "write", "retain", "open",
                         "publish", "answer", "ended"}]
      /\ exit \in [Run -> {"none", "success", "general", "usage", "unsupported", "partial",
                           "corrupted", "killed"}]
  BY DEF Init
<1>4. /\ items \in [Run -> [Family -> {"none", "extracted", "partial", "skipped"}]]
      /\ partial \in [Run -> BOOLEAN]
      /\ shown \in [Run -> {"nothing", "exported", "failed"}]
      /\ disk \in [Path -> {Absent} \cup Content]
  BY DEF Init
<1> QED BY <1>1, <1>2, <1>3, <1>4 DEF Init, TypeInv, TypeOK

\* A run that ends goes to the answer of Export All, or nowhere.
LEMMA ExitType ==
    ASSUME TypeInv, NEW r \in Run, NEW code \in {"success", "general", "usage", "unsupported", "partial",
                                                 "corrupted", "killed"}, Exit(r, code)
    PROVE  /\ exit' \in [Run -> {"none", "success", "general", "usage", "unsupported", "partial",
                                 "corrupted", "killed"}]
           /\ pc' \in [Run -> {"idle", "check", "scan", "step", "write", "retain", "open",
                               "publish", "answer", "ended"}]
           /\ pc'[r] \in {"answer", "ended"}
           /\ \A q \in Run \ {r} : pc'[q] = pc[q] /\ exit'[q] = exit[q]
           /\ exit'[r] = code
BY DEF Exit, Goto, TypeInv, TypeOK

\* A step keeps the type.
LEMMA ProceedType == ASSUME TypeInv, NEW r \in Run, Proceed(r) \/ Fail(r) PROVE TypeInv'
<1> USE StepCount DEF TypeInv, TypeOK, Goto
<1>1. CASE Start(r)
  <2>1. CASE Exit(r, "unsupported")
    BY <1>1, <2>1, ExitType DEF Start, files
  <2>2. CASE ~Exit(r, "unsupported")
    BY ZenonT(30), <1>1, <2>2 DEF Start, files
  <2> QED BY <2>1, <2>2
<1>2. CASE Check(r)
  <2>1. CASE Exit(r, "general")
    BY SMTT(20), <1>2, <2>1, ExitType DEF Check
  <2>2. CASE ~Exit(r, "general")
    BY <1>2, <2>2 DEF Check
  <2> QED BY <2>1, <2>2
<1>3. CASE Scan(r)
  BY <1>3, ReachIsAhead DEF Scan, files
<1>4. ASSUME NEW f \in Family, Step(r, f) PROVE TypeInv'
  <2>1. at[r] \in 1 .. 19
    BY <1>4 DEF Step, AtFamily
  <2>2. Reach(opts[r], file.type, at[r] + 1) \in 1 .. 20
    BY <2>1, ReachIsAhead
  <2> QED BY <1>4, <2>2 DEF Step, Advance, AtFamily, files
<1>5. ASSUME NEW f \in Family, Open(r, f) PROVE TypeInv'
  BY <1>5, Paths DEF Open, AtFamily, Torn, Content
<1>6. ASSUME NEW f \in Family, Write(r, f) PROVE TypeInv'
  <2>1. at[r] \in 1 .. 19
    BY <1>6 DEF Write
  <2>2. Reach(opts[r], file.type, at[r] + 1) \in 1 .. 20
    BY <2>1, ReachIsAhead
  <2>3. StatusOf(f) \in {"partial", "extracted"}
    BY DEF StatusOf
  <2>4. disk' \in [Path -> {Absent} \cup Content]
    BY <1>6, Paths DEF Write, Written, Content
  <2> QED BY <1>6, <2>2, <2>3, <2>4 DEF Write, Advance
<1>7. ASSUME NEW f \in Family, RefuseLength(r, f) PROVE TypeInv'
  BY <1>7, ExitType DEF RefuseLength, files
<1>8. ASSUME NEW f \in Family, Omit(r, f) PROVE TypeInv'
  BY <1>8, Paths DEF Omit, Drop
<1>9. CASE Finish(r)
  BY <1>9 DEF Finish, files
<1>10. CASE Retained(r)
  BY <1>10 DEF Retained, files
<1>11. CASE OpenManifest(r)
  BY ZenonT(30), <1>11, Paths DEF OpenManifest, Torn, ManifestPath, Path, Content
<1>12. CASE WriteManifest(r)
  <2>1. PICK code \in ExitCodes(r) : Exit(r, code)
    BY <1>12 DEF WriteManifest
  <2>2. code \in {"corrupted", "success", "partial"}
    BY DEF ExitCodes
  <2>3. Listed(r) \in SUBSET Path
    BY Paths DEF Listed
  <2>4. disk' \in [Path -> {Absent} \cup Content]
    BY ZenonT(30), <1>12, <2>3 DEF WriteManifest, ManifestPath, Path, Content
  <2> QED BY <1>12, <2>1, <2>2, <2>4, ExitType DEF WriteManifest
<1>13. CASE Answer(r)
  BY <1>13 DEF Answer, files
<1>14. CASE Fail(r)
  BY <1>14, ExitType DEF Fail, files
<1> QED BY <1>1, <1>2, <1>3, <1>4, <1>5, <1>6, <1>7, <1>8, <1>9, <1>10, <1>11, <1>12, <1>13, <1>14
         DEF Proceed
------------------------------------------------------------------------------
(* What a run has written.                                                 *)

AtWork == {"step", "write", "retain", "open", "publish"}
Over == {"answer", "ended"}

\* The file of the family is there and it is r that wrote it.
Has(r, f) == Exists(PathOf(opts[r], f)) /\ disk[PathOf(opts[r], f)].by = r

\* It is whole, and the manifest knows of it.
Whole(r, f) == disk[PathOf(opts[r], f)].whole /\ items[r][f] \in {"extracted", "partial"}

HasBegun(r) == \A p \in Path : Exists(p) /\ disk[p].by = r => pc[r] \in AtWork \cup Over

\* The files of r are of the steps r has done, and the one it is at.
Behind(r) ==
    pc[r] \in {"step", "write"} =>
        \A f \in Family : Has(r, f) =>
            \E n \in 1 .. at[r] : f = Order[n] /\ (n = at[r] => pc[r] = "write")

WholeButOne(r) ==
    pc[r] \in AtWork =>
        \A f \in Family : Has(r, f) => Whole(r, f) \/ (pc[r] = "write" /\ f = Order[at[r]])

\* The human profile has kept what it trusts before the manifest is opened.
Kept(r) == pc[r] \in {"open", "publish"} => opts[r].extended \/ \A f \in Family : ~Leaves(r, f)

AfterAll(r) ==
    Completed(r) =>
        /\ pc[r] \in Over
        /\ \A f \in Family : Has(r, f) => Whole(r, f) /\ (opts[r].extended \/ ~Leaves(r, f))

FilesInv(r) == HasBegun(r) /\ Behind(r) /\ WholeButOne(r) /\ Kept(r) /\ AfterAll(r)

IInv == TypeInv /\ \A r \in Run : FilesInv(r)

\* The invariant is what the property needs.
LEMMA InvImpliesListed == IInv => FilesAreListed
BY DEF IInv, FilesInv, AfterAll, Has, Whole, Leaves, TypeInv, FilesAreListed

\* No run has written before it begins.
LEMMA InvInit == Init => IInv
<1> SUFFICES ASSUME Init PROVE IInv
  OBVIOUS
<1>1. \A p \in Path : ~Exists(p)
  BY DEF Init, Exists
<1>2. \A r \in Run, f \in Family : ~Has(r, f)
  BY <1>1, Paths DEF Has
<1>3. ASSUME NEW r \in Run PROVE ~Completed(r) /\ pc[r] = "idle"
  BY DEF Init, Completed
<1> QED BY <1>1, <1>2, <1>3, TypeInit
        DEF IInv, FilesInv, HasBegun, Behind, WholeButOne, Kept, AfterAll, AtWork

\* A run changes a path by writing there or taking its file away.
Touches(r) ==
    \A p \in Path : disk'[p] = disk[p] \/ disk'[p] = Absent \/ disk'[p].by = r

\* What another run does costs a run no more than files.
LEMMA OthersKeep ==
    ASSUME NEW r \in Run, NEW q \in Run \ {r}, FilesInv(q), Touches(r),
           opts' = opts, file' = file, pc'[q] = pc[q], at'[q] = at[q],
           items'[q] = items[q], exit'[q] = exit[q]
    PROVE  FilesInv(q)'
<1>1. \A p \in Path : (Exists(p) /\ disk[p].by = q)' => disk'[p] = disk[p] /\ Exists(p) /\ disk[p].by = q
  BY DEF Touches, Exists
<1>2. ASSUME NEW f \in Family
      PROVE  /\ Has(q, f)' => Has(q, f) /\ (Whole(q, f) => Whole(q, f)')
             /\ Leaves(q, f)' <=> Leaves(q, f)
  <2>1. PathOf(opts[q], f) \in Path /\ PathOf(opts[q], f)' = PathOf(opts[q], f)
    BY Paths DEF PathOf
  <2> QED BY <1>1, <2>1 DEF Has, Whole, Leaves, Exists
<1>3. HasBegun(q)'
  BY <1>1 DEF FilesInv, HasBegun
<1>4. Behind(q)'
  BY <1>2 DEF FilesInv, Behind
<1>5. WholeButOne(q)'
  BY <1>2 DEF FilesInv, WholeButOne
<1>6. Kept(q)' /\ AfterAll(q)'
  BY <1>2 DEF FilesInv, Kept, AfterAll, Completed
<1> QED BY <1>3, <1>4, <1>5, <1>6 DEF FilesInv

\* A step of a run is about its own state, and what it does to the files is write and remove.
LEMMA StepsTouch ==
    ASSUME TypeInv, NEW r \in Run, Proceed(r) \/ Fail(r)
    PROVE  /\ Touches(r) /\ opts' = opts /\ file' = file
           /\ \A q \in Run \ {r} : /\ pc'[q] = pc[q] /\ at'[q] = at[q]
                                   /\ items'[q] = items[q] /\ exit'[q] = exit[q]
<1> DEFINE Frame == /\ opts' = opts /\ file' = file
                    /\ \A q \in Run \ {r} : /\ pc'[q] = pc[q] /\ at'[q] = at[q]
                                            /\ items'[q] = items[q] /\ exit'[q] = exit[q]
<1> USE DEF TypeInv, TypeOK, Goto, Exit
<1>1. CASE Start(r)
  BY <1>1 DEF Start, files, Touches
<1>2. CASE Check(r)
  BY <1>2 DEF Check, Touches
<1>3. CASE Scan(r)
  BY <1>3 DEF Scan, files, Touches
<1>4. ASSUME NEW f \in Family, Step(r, f) PROVE Touches(r) /\ Frame
  BY <1>4 DEF Step, Advance, files, Touches
<1>5. ASSUME NEW f \in Family, Open(r, f) PROVE Touches(r) /\ Frame
  BY <1>5, Paths DEF Open, Torn, Touches
<1>6. ASSUME NEW f \in Family, Write(r, f) PROVE Touches(r) /\ Frame
  BY <1>6, Paths DEF Write, Advance, Written, Touches
<1>7. ASSUME NEW f \in Family, RefuseLength(r, f) PROVE Touches(r) /\ Frame
  BY <1>7 DEF RefuseLength, files, Touches
<1>8. ASSUME NEW f \in Family, Omit(r, f) PROVE Touches(r) /\ Frame
  BY <1>8, Paths DEF Omit, Drop, Touches
<1>9. CASE Finish(r)
  BY <1>9 DEF Finish, files, Touches
<1>10. CASE Retained(r)
  BY <1>10 DEF Retained, files, Touches
<1>11. CASE OpenManifest(r)
  BY <1>11 DEF OpenManifest, Torn, ManifestPath, Path, Touches
<1>12. CASE WriteManifest(r)
  BY <1>12 DEF WriteManifest, ManifestPath, Path, Touches
<1>13. CASE Answer(r)
  BY <1>13 DEF Answer, files, Touches
<1>14. CASE Fail(r)
  BY <1>14 DEF Fail, files, Touches
<1> QED BY <1>1, <1>2, <1>3, <1>4, <1>5, <1>6, <1>7, <1>8, <1>9, <1>10, <1>11, <1>12, <1>13, <1>14
         DEF Proceed

\* A step that leaves the files and the items leaves what is said of them.
LEMMA SameFiles ==
    ASSUME NEW r \in Run, disk' = disk, items'[r] = items[r], opts' = opts, file' = file
    PROVE  /\ \A p \in Path : Exists(p)' <=> Exists(p)
           /\ \A f \in Family : /\ Has(r, f)' <=> Has(r, f)
                                /\ Whole(r, f)' <=> Whole(r, f)
                                /\ Leaves(r, f)' <=> Leaves(r, f)
BY DEF Exists, Has, Whole, Leaves, PathOf

\* A run that has not begun has no files.
LEMMA NothingYet ==
    ASSUME NEW r \in Run, FilesInv(r), pc[r] \notin AtWork \cup Over
    PROVE  /\ \A p \in Path : Exists(p) => disk[p].by # r
           /\ \A f \in Family : ~Has(r, f)
           /\ ~Completed(r)
BY Paths DEF FilesInv, HasBegun, AfterAll, Has

\* A run that begins has no files.
LEMMA BeginKeeps ==
    ASSUME IInv, NEW r \in Run, Start(r) \/ Check(r) \/ Scan(r) PROVE FilesInv(r)'
<1>1. FilesInv(r) /\ TypeInv /\ pc[r] \in {"idle", "check", "scan"}
  BY DEF IInv, Start, Check, Scan
<1>2. /\ disk' = disk /\ items' = items /\ opts' = opts /\ file' = file
      /\ pc'[r] \in {"check", "scan", "step"} \cup Over
      /\ exit'[r] \in {exit[r], "unsupported", "general"}
  BY <1>1 DEF Start, Check, Scan, Exit, Goto, files, TypeInv, TypeOK, Over
<1>3. /\ \A p \in Path : Exists(p) => disk[p].by # r
      /\ \A f \in Family : ~Has(r, f)
      /\ ~Completed(r)
  BY <1>1, NothingYet DEF AtWork, Over
<1>4. \A f \in Family : ~Has(r, f)'
  BY <1>2, <1>3, SameFiles
<1>5. \A p \in Path : Exists(p)' => disk'[p].by # r
  BY <1>2, <1>3, SameFiles
<1>6. ~Completed(r)'
  BY <1>2, <1>3 DEF Completed
<1> QED BY <1>2, <1>4, <1>5, <1>6
        DEF FilesInv, HasBegun, Behind, WholeButOne, Kept, AfterAll, Over

\* A run goes on behind the step it was at.
LEMMA AdvanceIsAhead ==
    ASSUME TypeInv, NEW r \in Run, at[r] \in 1 .. 19, Advance(r)
    PROVE  at'[r] \in at[r] + 1 .. 20
<1>1. Reach(opts[r], file.type, at[r] + 1) \in at[r] + 1 .. 20
  <2>1. at[r] + 1 \in 1 .. 20
    OBVIOUS
  <2> QED BY <2>1, ReachIsAhead
<1> QED BY <1>1 DEF Advance, TypeInv, TypeOK

\* Where a run is at a family, it has no file of it yet.
LEMMA NotYet ==
    ASSUME IInv, NEW r \in Run, NEW f \in Family, AtFamily(r, f)
    PROVE  /\ ~Has(r, f) /\ at[r] \in 1 .. 19
           /\ \A g \in Family : Has(r, g) => Whole(r, g) /\ \E n \in 1 .. at[r] - 1 : g = Order[n]
<1>1. at[r] \in 1 .. 19 /\ pc[r] = "step" /\ f = Order[at[r]]
  BY StepCount DEF IInv, TypeInv, TypeOK, AtFamily
<1>2. Behind(r) /\ WholeButOne(r)
  BY DEF IInv, FilesInv
<1>3. ASSUME NEW g \in Family, Has(r, g)
      PROVE  Whole(r, g) /\ \E n \in 1 .. at[r] - 1 : g = Order[n]
  BY <1>1, <1>2, <1>3 DEF Behind, WholeButOne, AtWork
<1>4. ~Has(r, f)
  BY <1>1, <1>3, StepsDiffer
<1> QED BY <1>1, <1>3, <1>4

\* A step that writes nothing leaves what was said of the files of the others.
LEMMA StepKeeps == ASSUME IInv, NEW r \in Run, NEW f \in Family, Step(r, f) PROVE FilesInv(r)'
<1>1. /\ disk' = disk /\ opts' = opts /\ file' = file /\ pc' = pc /\ exit' = exit /\ pc[r] = "step"
      /\ \A g \in Family : g # f => items'[r][g] = items[r][g]
  BY DEF Step, AtFamily, files, IInv, TypeInv, TypeOK
<1>2. /\ ~Has(r, f) /\ at[r] \in 1 .. 19
      /\ \A g \in Family : Has(r, g) => Whole(r, g) /\ \E n \in 1 .. at[r] - 1 : g = Order[n]
  BY NotYet DEF Step
<1>3. at'[r] \in at[r] + 1 .. 20
  BY <1>2, AdvanceIsAhead DEF Step, IInv
<1>4. \A g \in Family : Has(r, g)' => Has(r, g) /\ Whole(r, g)'
  <2>1. \A g \in Family : Has(r, g)' <=> Has(r, g)
    BY <1>1 DEF Has, Exists, PathOf
  <2>2. \A g \in Family : g # f => (Whole(r, g)' <=> Whole(r, g))
    BY <1>1 DEF Whole, PathOf
  <2> QED BY <1>2, <2>1, <2>2
<1>5. HasBegun(r)'
  BY <1>1 DEF HasBegun, AtWork
<1>6. Behind(r)' /\ WholeButOne(r)'
  BY <1>1, <1>2, <1>3, <1>4 DEF Behind, WholeButOne
<1>7. Kept(r)' /\ AfterAll(r)'
  BY <1>1 DEF Kept, AfterAll, Completed, Over, IInv, FilesInv
<1> QED BY <1>5, <1>6, <1>7 DEF FilesInv

\* The file that is opened is the one that may be torn.
LEMMA OpenKeeps == ASSUME IInv, NEW r \in Run, NEW f \in Family, Open(r, f) PROVE FilesInv(r)'
<1>1. /\ items' = items /\ opts' = opts /\ file' = file /\ at' = at /\ exit' = exit
      /\ pc[r] = "step" /\ pc'[r] = "write" /\ f = Order[at[r]]
      /\ \A g \in Family : g # f => disk'[PathOf(opts[r], g)] = disk[PathOf(opts[r], g)]
  BY Paths DEF Open, AtFamily, Goto, IInv, TypeInv, TypeOK
<1>2. /\ at[r] \in 1 .. 19
      /\ \A g \in Family : Has(r, g) => Whole(r, g) /\ \E n \in 1 .. at[r] - 1 : g = Order[n]
  BY NotYet DEF Open
<1>3. \A g \in Family : g # f => (Has(r, g)' <=> Has(r, g)) /\ (Whole(r, g)' <=> Whole(r, g))
  BY <1>1 DEF Has, Whole, Exists, PathOf
<1>4. HasBegun(r)'
  BY <1>1 DEF HasBegun, AtWork
<1>5. Behind(r)' /\ WholeButOne(r)'
  BY <1>1, <1>2, <1>3 DEF Behind, WholeButOne
<1>6. Kept(r)' /\ AfterAll(r)'
  BY <1>1 DEF Kept, AfterAll, Completed, Over, IInv, FilesInv
<1> QED BY <1>4, <1>5, <1>6 DEF FilesInv

\* The file that is written is whole, and its item is listed.
LEMMA WriteKeeps == ASSUME IInv, NEW r \in Run, NEW f \in Family, Write(r, f) PROVE FilesInv(r)'
<1>1. /\ opts' = opts /\ file' = file /\ exit' = exit
      /\ pc[r] = "write" /\ pc'[r] = "step" /\ f = Order[at[r]] /\ at[r] \in 1 .. 19
      /\ disk'[PathOf(opts[r], f)].whole
      /\ items'[r][f] \in {"extracted", "partial"}
      /\ \A g \in Family : g # f => /\ items'[r][g] = items[r][g]
                                    /\ disk'[PathOf(opts[r], g)] = disk[PathOf(opts[r], g)]
  BY Paths, StepCount DEF Write, Goto, Written, StatusOf, IInv, TypeInv, TypeOK
<1>2. at'[r] \in at[r] + 1 .. 20
  BY <1>1, AdvanceIsAhead DEF Write, IInv
<1>3. \A g \in Family : g # f => (Has(r, g)' <=> Has(r, g)) /\ (Whole(r, g)' <=> Whole(r, g))
  BY <1>1 DEF Has, Whole, Exists, PathOf
<1>4. Whole(r, f)'
  BY <1>1 DEF Whole, PathOf
<1>5. HasBegun(r)'
  BY <1>1 DEF HasBegun, AtWork
<1>6. Behind(r)' /\ WholeButOne(r)'
  <2>1. Behind(r) /\ WholeButOne(r)
    BY DEF IInv, FilesInv
  <2>2. ASSUME NEW g \in Family, Has(r, g)' PROVE Whole(r, g)' /\ \E n \in 1 .. at[r] : g = Order[n]
    BY <1>1, <1>3, <1>4, <2>1, <2>2 DEF Behind, WholeButOne, AtWork
  <2> QED BY <1>1, <1>2, <2>2 DEF Behind, WholeButOne
<1>7. Kept(r)' /\ AfterAll(r)'
  BY <1>1 DEF Kept, AfterAll, Completed, Over, IInv, FilesInv
<1> QED BY <1>5, <1>6, <1>7 DEF FilesInv

\* A run that ends without a manifest has not completed.
LEMMA EndKeeps ==
    ASSUME IInv, NEW r \in Run, Fail(r) \/ \E f \in Family : RefuseLength(r, f)
    PROVE  FilesInv(r)'
<1>1. pc'[r] \in Over /\ exit'[r] \in {"general", "corrupted", "killed", "usage"}
  BY DEF Fail, RefuseLength, Exit, Goto, Over, IInv, TypeInv, TypeOK
<1> QED BY <1>1
        DEF FilesInv, HasBegun, Behind, WholeButOne, Kept, AfterAll, Over, AtWork, Completed

\* After the last step every file is whole, and after the retention every item is trusted.
LEMMA FinishKeeps == ASSUME IInv, NEW r \in Run, Finish(r) \/ Retained(r) PROVE FilesInv(r)'
<1>1. /\ disk' = disk /\ items' = items /\ opts' = opts /\ file' = file /\ exit' = exit
      /\ pc[r] \in {"step", "retain"} /\ pc'[r] \in {"retain", "open"}
      /\ pc'[r] = "open" => opts[r].extended \/ \A f \in Family : ~Leaves(r, f)
  BY DEF Finish, Retained, Goto, files, IInv, TypeInv, TypeOK
<1>2. \A f \in Family : Has(r, f) => Whole(r, f)
  BY <1>1 DEF IInv, FilesInv, WholeButOne, AtWork
<1>3. HasBegun(r)' /\ Behind(r)'
  BY <1>1 DEF HasBegun, Behind, AtWork
<1>4. WholeButOne(r)' /\ Kept(r)'
  BY <1>1, <1>2, SameFiles DEF WholeButOne, Kept
<1>5. AfterAll(r)'
  BY <1>1 DEF AfterAll, Completed, Over, IInv, FilesInv
<1> QED BY <1>3, <1>4, <1>5 DEF FilesInv

\* An item that is left out takes its file along.
LEMMA OmitKeeps == ASSUME IInv, NEW r \in Run, NEW f \in Family, Omit(r, f) PROVE FilesInv(r)'
<1>1. /\ opts' = opts /\ file' = file /\ exit' = exit /\ pc' = pc /\ pc[r] = "retain"
      /\ disk'[PathOf(opts[r], f)] = Absent
      /\ \A g \in Family : g # f => /\ items'[r][g] = items[r][g]
                                    /\ disk'[PathOf(opts[r], g)] = disk[PathOf(opts[r], g)]
  BY Paths DEF Omit, Drop, IInv, TypeInv, TypeOK
<1>2. \A g \in Family : Has(r, g) => Whole(r, g)
  BY <1>1 DEF IInv, FilesInv, WholeButOne, AtWork
<1>3. ~Has(r, f)'
  BY <1>1 DEF Has, Exists, PathOf
<1>4. \A g \in Family : g # f => (Has(r, g)' <=> Has(r, g)) /\ (Whole(r, g)' <=> Whole(r, g))
  BY <1>1 DEF Has, Whole, Exists, PathOf
<1>5. HasBegun(r)' /\ Behind(r)' /\ Kept(r)'
  BY <1>1 DEF HasBegun, Behind, Kept, AtWork
<1>6. WholeButOne(r)'
  BY <1>2, <1>3, <1>4 DEF WholeButOne
<1>7. AfterAll(r)'
  BY <1>1 DEF AfterAll, Completed, Over, IInv, FilesInv
<1> QED BY <1>5, <1>6, <1>7 DEF FilesInv

\* The manifest is at no path of a family.
LEMMA ManifestKeeps ==
    ASSUME IInv, NEW r \in Run, OpenManifest(r) \/ WriteManifest(r) PROVE FilesInv(r)'
<1>1. /\ items' = items /\ opts' = opts /\ file' = file
      /\ pc[r] \in {"open", "publish"} /\ pc'[r] \in {"publish"} \cup Over
      /\ pc'[r] = "publish" => exit' = exit
      /\ \A g \in Family : disk'[PathOf(opts[r], g)] = disk[PathOf(opts[r], g)]
  BY Paths DEF OpenManifest, WriteManifest, Exit, Goto, Over, IInv, TypeInv, TypeOK
<1>2. \A g \in Family : Has(r, g) => Whole(r, g)
  BY <1>1 DEF IInv, FilesInv, WholeButOne, AtWork
<1>3. opts[r].extended \/ \A f \in Family : ~Leaves(r, f)
  BY <1>1 DEF IInv, FilesInv, Kept
<1>4. \A g \in Family : /\ Has(r, g)' <=> Has(r, g)
                        /\ Whole(r, g)' <=> Whole(r, g)
                        /\ Leaves(r, g)' <=> Leaves(r, g)
  BY <1>1 DEF Has, Whole, Leaves, Exists, PathOf
<1>5. HasBegun(r)' /\ Behind(r)'
  BY <1>1 DEF HasBegun, Behind, AtWork, Over
<1>6. WholeButOne(r)' /\ Kept(r)'
  BY <1>1, <1>2, <1>3, <1>4 DEF WholeButOne, Kept
<1>7. AfterAll(r)'
  BY <1>1, <1>2, <1>3, <1>4 DEF AfterAll, Completed, Over, IInv, FilesInv
<1> QED BY <1>5, <1>6, <1>7 DEF FilesInv

\* Export All looks at the files, and leaves them.
LEMMA AnswerKeeps == ASSUME IInv, NEW r \in Run, Answer(r) PROVE FilesInv(r)'
<1>1. /\ disk' = disk /\ items' = items /\ opts' = opts /\ file' = file /\ exit' = exit
      /\ pc'[r] = "ended"
  BY DEF Answer, Goto, files, IInv, TypeInv, TypeOK
<1>2. AfterAll(r)
  BY DEF IInv, FilesInv
<1>3. AfterAll(r)'
  BY <1>1, <1>2, SameFiles DEF AfterAll, Completed, Over
<1> QED BY <1>1, <1>3 DEF FilesInv, HasBegun, Behind, WholeButOne, Kept, AtWork, Over

\* A completed run leaves the files its manifest knows of, whole, and of a human run trusted.
THEOREM FilesAreAsListed == Spec => []FilesAreListed
<1>1. IInv /\ [Next]_vars => IInv'
  <2> SUFFICES ASSUME IInv, [Next]_vars PROVE IInv'
    OBVIOUS
  <2>1. ASSUME NEW r \in Run, Proceed(r) \/ Fail(r) PROVE IInv'
    <3>1. TypeInv'
      BY <2>1, ProceedType DEF IInv
    <3>2. FilesInv(r)'
      BY <2>1, BeginKeeps, StepKeeps, OpenKeeps, WriteKeeps, EndKeeps, FinishKeeps, OmitKeeps,
         ManifestKeeps, AnswerKeeps DEF Proceed
    <3>3. \A q \in Run \ {r} : FilesInv(q)'
      BY <2>1, StepsTouch, OthersKeep DEF IInv
    <3> QED BY <3>1, <3>2, <3>3 DEF IInv
  <2>2. CASE UNCHANGED vars
    <3>1. TypeInv'
      BY <2>2 DEF vars, files, IInv, TypeInv, TypeOK
    <3>2. ASSUME NEW r \in Run PROVE FilesInv(r)'
      <4>1. \A f \in Family : /\ Has(r, f)' <=> Has(r, f)
                              /\ Whole(r, f)' <=> Whole(r, f)
                              /\ Leaves(r, f)' <=> Leaves(r, f)
        BY <2>2, SameFiles DEF vars, files
      <4>2. FilesInv(r)
        BY DEF IInv
      <4> QED BY <2>2, <4>1, <4>2 DEF vars, files, FilesInv, HasBegun, Behind, WholeButOne, Kept,
                                      AfterAll, Completed, Exists
    <3> QED BY <3>1, <3>2 DEF IInv
  <2> QED BY <2>1, <2>2 DEF Next
<1> QED BY <1>1, InvInit, InvImpliesListed, PTL DEF Spec
------------------------------------------------------------------------------
(* Runs that follow one another.                                           *)

\* No two runs are in progress.
Alone == \A q, r \in Run : ~Idle(q) /\ ~Idle(r) => q = r

ManifestOf(r) == ManifestPath(opts[r])

\* What a run is about to write over is its own, unless it has --force.
OwnManifest(r) ==
    /\ pc[r] \in {"scan"} \cup AtWork /\ ~opts[r].force /\ Exists(ManifestOf(r)) =>
          disk[ManifestOf(r)].by = r
    /\ pc[r] = "publish" => Exists(ManifestOf(r)) /\ disk[ManifestOf(r)].by = r

OwnFile(r) == pc[r] = "write" => Has(r, Order[at[r]])

AloneInv == TypeInv /\ Alone /\ \A r \in Run : OwnManifest(r) /\ OwnFile(r)

\* A run steps when it is in progress, or begins when no run is.
LEMMA OneSteps ==
    ASSUME MayOverlap = FALSE, TypeInv, Alone, NEW r \in Run, Proceed(r) \/ Fail(r)
    PROVE  \A q \in Run \ {r} : Idle(q)
<1>1. CASE Start(r)
  BY <1>1 DEF Start
<1>2. CASE ~Start(r)
  <2>1. ~Idle(r)
    BY <1>2 DEF Idle, Proceed, Check, Scan, Step, Open, Write, RefuseLength, Omit, Finish, Retained,
                OpenManifest, WriteManifest, Answer, Fail, AtFamily
  <2> QED BY <2>1 DEF Alone
<1> QED BY <1>1, <1>2

\* What is written is there.
LEMMA WrittenExists ==
    ASSUME NEW r \in Run
    PROVE  /\ Torn(r) # Absent /\ Torn(r).by = r
           /\ Written(r) # Absent /\ Written(r).by = r
<1>1. Torn(r) \in Content /\ Written(r) \in Content
  BY DEF Torn, Written, Content
<1> QED BY <1>1 DEF Torn, Written

\* Where a manifest may be, --force or nothing there lets a run go on.
LEMMA CheckedManifest ==
    ASSUME NEW o, ~Refuses(o), ~o.force PROVE ~Exists(ManifestPath(o))
<1>1. CASE o.manifest
  BY <1>1 DEF Refuses
<1>2. CASE ~o.manifest
  BY <1>2 DEF Refuses, ManifestPath, Inside
<1> QED BY <1>1, <1>2

\* A step of a run leaves it what it may write over.
LEMMA OwnKeeps ==
    ASSUME AloneInv, NEW r \in Run, Proceed(r) \/ Fail(r)
    PROVE  OwnManifest(r)' /\ OwnFile(r)'
<1> USE DEF AloneInv, TypeInv, TypeOK, Goto, Exit
<1> DEFINE mp == ManifestOf(r)
<1>1. OwnManifest(r) /\ opts' = opts /\ mp' = mp /\ mp \in Path
  BY StepsTouch, Paths DEF ManifestOf, ManifestPath, Path
<1>2. CASE pc'[r] \notin {"scan"} \cup AtWork
  BY <1>2 DEF OwnManifest, OwnFile, AtWork
<1>3. CASE Check(r)
  <2>1. disk' = disk /\ pc'[r] \in {"scan", "ended", "answer"}
    BY <1>3 DEF Check
  <2>2. pc'[r] = "scan" /\ ~opts[r].force => ~Exists(mp)
    BY <1>3, CheckedManifest DEF Check, ManifestOf
  <2> QED BY <1>1, <2>1, <2>2 DEF OwnManifest, OwnFile, Exists, AtWork
<1>4. CASE \/ Scan(r) \/ Finish(r) \/ Retained(r)
           \/ \E f \in Family : Step(r, f)
  <2>1. /\ disk' = disk /\ pc[r] \in {"scan"} \cup AtWork
        /\ pc'[r] \in {"step", "retain", "open"}
    BY <1>4 DEF Scan, Finish, Retained, Step, AtFamily, files, AtWork
  <2> QED BY <1>1, <2>1 DEF OwnManifest, OwnFile, Exists
<1>5. ASSUME NEW f \in Family, Open(r, f) \/ Write(r, f) \/ Omit(r, f)
      PROVE  OwnManifest(r)' /\ OwnFile(r)'
  <2>1. /\ disk'[mp] = disk[mp] /\ pc[r] \in AtWork
        /\ pc'[r] \in {"write", "step", "retain"}
    BY <1>5, <1>1, Paths DEF Open, Write, Omit, Drop, AtFamily, AtWork, ManifestOf
  <2>2. pc'[r] = "write" => f = Order[at'[r]] /\ disk'[PathOf(opts[r], f)] = Torn(r)
    <3>1. CASE Open(r, f)
      BY <3>1, Paths DEF Open, AtFamily
    <3>2. CASE Write(r, f) \/ Omit(r, f)
      BY <3>2 DEF Write, Omit
    <3> QED BY <1>5, <3>1, <3>2
  <2>3. OwnFile(r)'
    <3> SUFFICES ASSUME pc'[r] = "write" PROVE Has(r, f)'
      BY <2>2 DEF OwnFile
    <3>1. PathOf(opts[r], f)' = PathOf(opts[r], f)
      BY <1>1
    <3> QED BY <2>2, <3>1, WrittenExists DEF Has, Exists
  <2> QED BY <1>1, <2>1, <2>3 DEF OwnManifest, Exists
<1>6. CASE OpenManifest(r)
  <2>1. disk'[mp] = Torn(r) /\ pc'[r] = "publish"
    BY <1>6, <1>1 DEF OpenManifest, ManifestOf
  <2> QED BY <1>1, <2>1, WrittenExists DEF OwnManifest, OwnFile, Exists
<1>7. CASE \/ Start(r) \/ WriteManifest(r) \/ Answer(r) \/ Fail(r)
           \/ \E f \in Family : RefuseLength(r, f)
  BY <1>2, <1>7 DEF Start, WriteManifest, Answer, Fail, RefuseLength, AtWork
<1> QED BY <1>3, <1>4, <1>5, <1>6, <1>7 DEF Proceed

\* A file that is there is written over by its own run, or by one with --force.
LEMMA OwnOverwrites ==
    ASSUME AloneInv, NEW r \in Run, Proceed(r) \/ Fail(r), NEW p \in Path,
           Exists(p), disk'[p] # Absent, disk'[p].by # disk[p].by
    PROVE  opts[disk'[p].by].force
<1> USE DEF AloneInv, TypeInv, TypeOK
<1>1. OwnManifest(r) /\ OwnFile(r)
  OBVIOUS
<1>2. CASE disk' = disk
  BY <1>2
<1>3. ASSUME NEW f \in Family, Open(r, f) PROVE opts[disk'[p].by].force
  BY <1>3, Paths, WrittenExists DEF Open, SkipsExisting
<1>4. ASSUME NEW f \in Family, Write(r, f) PROVE opts[disk'[p].by].force
  <2>1. disk[PathOf(opts[r], f)].by = r
    BY <1>1, <1>4 DEF Write, OwnFile, Has
  <2> QED BY <1>4, <2>1, Paths, WrittenExists DEF Write
<1>5. ASSUME NEW f \in Family, Omit(r, f) PROVE opts[disk'[p].by].force
  BY <1>5, Paths DEF Omit, Drop
<1>6. CASE OpenManifest(r)
  BY <1>1, <1>6, WrittenExists DEF OpenManifest, OwnManifest, ManifestOf, AtWork
<1>7. CASE WriteManifest(r)
  BY <1>1, <1>7 DEF WriteManifest, OwnManifest, ManifestOf
<1>8. CASE \/ Start(r) \/ Check(r) \/ Scan(r) \/ Finish(r) \/ Retained(r) \/ Answer(r) \/ Fail(r)
           \/ \E f \in Family : Step(r, f) \/ RefuseLength(r, f)
  BY <1>2, <1>8 DEF Start, Check, Scan, Finish, Retained, Answer, Fail, Step, RefuseLength, files
<1> QED BY <1>3, <1>4, <1>5, <1>6, <1>7, <1>8 DEF Proceed

\* Runs stay one at a time, each with what is its own.
LEMMA AloneKeeps ==
    ASSUME MayOverlap = FALSE, AloneInv, NEW r \in Run, Proceed(r) \/ Fail(r)
    PROVE  AloneInv'
<1>1. TypeInv' /\ OwnManifest(r)' /\ OwnFile(r)'
  BY ProceedType, OwnKeeps DEF AloneInv
<1>2. \A q \in Run \ {r} : Idle(q) /\ Idle(q)'
  BY OneSteps, StepsTouch DEF AloneInv, Idle
<1>3. \A q \in Run \ {r} : OwnManifest(q)' /\ OwnFile(q)'
  BY <1>2 DEF OwnManifest, OwnFile, Idle, AtWork
<1> QED BY <1>1, <1>2, <1>3 DEF AloneInv, Alone

\* No run is in progress at first.
LEMMA AloneInit == Init => AloneInv
<1> SUFFICES ASSUME Init PROVE AloneInv
  OBVIOUS
<1>1. \A r \in Run : pc[r] = "idle"
  BY DEF Init
<1> QED BY <1>1, TypeInit DEF AloneInv, Alone, Idle, OwnManifest, OwnFile, AtWork

\* So do steps that change nothing.
LEMMA AloneNext == ASSUME MayOverlap = FALSE PROVE AloneInv /\ [Next]_vars => AloneInv'
<1> SUFFICES ASSUME AloneInv, [Next]_vars PROVE AloneInv'
  OBVIOUS
<1>1. CASE Next
  BY <1>1, AloneKeeps DEF Next
<1>2. CASE UNCHANGED vars
  BY <1>2 DEF vars, files, AloneInv, TypeInv, TypeOK, Alone, Idle, OwnManifest, OwnFile, ManifestOf,
              Has, Exists
<1> QED BY <1>1, <1>2

\* Runs that follow one another write over no file of an earlier one without --force: the look
\* at the directory holds until the manifest, which nothing looks at again.
THEOREM NothingIsOverwritten == ASSUME MayOverlap = FALSE PROVE Spec => NotOverwritten
<1> DEFINE Kind == \A p \in Path :
                      Exists(p) /\ disk'[p] # Absent /\ disk'[p].by # disk[p].by
                      => opts[disk'[p].by].force
<1>1. AloneInv /\ [Next]_vars => [Kind]_vars
  BY OwnOverwrites DEF Next
<1>2. AloneInv /\ [Next]_vars => AloneInv'
  BY AloneNext
<1> QED BY <1>1, <1>2, AloneInit, PTL DEF Spec, NotOverwritten
------------------------------------------------------------------------------
(* The contract.                                                           *)

Manifests == {"manifest", "manifest elsewhere"}
IsList(m) == Exists(m) /\ "listed" \in DOMAIN disk[m]

\* A manifest that lists files is of a run that is over, and lists no manifest.
ListsAreOver ==
    \A m \in Manifests :
        IsList(m) => pc[disk[m].by] \in Over /\ disk[m].listed \cap Manifests = {}

\* A run has items for the steps behind it, and a whole file for each it may list.
NoneYet(r) == pc[r] \in {"idle", "check", "scan"} => \A f \in Family : items[r][f] = "none"

ItemsBehind(r) ==
    pc[r] \in {"step", "write"} =>
        \A f \in Family : items[r][f] # "none" => \E n \in 1 .. at[r] - 1 : f = Order[n]

HasListed(r) ==
    pc[r] \in AtWork =>
        \A f \in Family : items[r][f] \in {"extracted", "partial"} =>
            disk[PathOf(opts[r], f)] = Written(r)

ItemsInv(r) == NoneYet(r) /\ ItemsBehind(r) /\ HasListed(r)

NoOutcome(r) == pc[r] \notin Over => exit[r] = "none"

PubInv == AloneInv /\ ListsAreOver /\ \A r \in Run : ItemsInv(r) /\ NoOutcome(r)

\* Families have no file where manifests are.
LEMMA Apart == ASSUME NEW o, NEW f \in Family PROVE PathOf(o, f) \notin Manifests
<1>1. PathOf(o, f) \in {f, "raw elsewhere", "text elsewhere"}
  BY DEF PathOf
<1> QED BY <1>1, OtherPaths DEF Manifests

\* Nothing is listed at first.
LEMMA PubInit == Init => PubInv
<1> SUFFICES ASSUME Init PROVE PubInv
  OBVIOUS
<1>1. \A m \in Manifests : ~IsList(m)
  BY DEF Init, Manifests, IsList, Exists, Path
<1>2. \A r \in Run : pc[r] = "idle" /\ exit[r] = "none" /\ \A f \in Family : items[r][f] = "none"
  BY DEF Init
<1> QED BY <1>1, <1>2, AloneInit DEF PubInv, ListsAreOver, ItemsInv, NoneYet, ItemsBehind, HasListed, NoOutcome, AtWork

\* Lists are of paths.
LEMMA ListsOfPaths ==
    ASSUME TypeInv, NEW m \in Manifests, IsList(m)
    PROVE  disk[m].listed \in SUBSET Path /\ disk[m].by \in Run
<1>1. m \in Path
  BY DEF Manifests, Path
<1>2. disk[m] \in Content
  BY <1>1 DEF TypeInv, TypeOK, IsList, Exists
<1>3. \A x \in [by : Run, whole : BOOLEAN] : "listed" \notin DOMAIN x
  OBVIOUS
<1>4. disk[m] \in [by : Run, whole : {TRUE}, listed : SUBSET Path]
  BY <1>2, <1>3 DEF Content, IsList
<1> QED BY <1>4

\* The items of a run that steps.
LEMMA ItemsKeep ==
    ASSUME PubInv, NEW r \in Run, Proceed(r) \/ Fail(r) PROVE ItemsInv(r)' /\ NoOutcome(r)'
<1> DEFINE p(f) == PathOf(opts[r], f)
<1>1. /\ TypeInv /\ NoneYet(r) /\ ItemsBehind(r) /\ HasListed(r) /\ NoOutcome(r)
      /\ opts' = opts
      /\ \A f \in Family : p(f)' = p(f) /\ p(f) \in Path
  BY StepsTouch, Paths DEF PubInv, AloneInv, ItemsInv
<1>2. CASE Start(r) \/ Check(r) \/ Scan(r)
  <2>1. /\ pc[r] \in {"idle", "check", "scan"} /\ items' = items
        /\ pc'[r] \in {"check", "scan", "step"} \cup Over
        /\ pc'[r] \notin Over => exit' = exit
    BY <1>1, <1>2 DEF Start, Check, Scan, Over, Exit, Goto, TypeInv, TypeOK
  <2>2. \A f \in Family : items'[r][f] = "none"
    BY <1>1, <2>1 DEF NoneYet
  <2>3. NoneYet(r)' /\ ItemsBehind(r)' /\ HasListed(r)'
    BY <2>2 DEF NoneYet, ItemsBehind, HasListed
  <2>4. NoOutcome(r)'
    BY <1>1, <2>1 DEF NoOutcome, Over
  <2> QED BY <2>3, <2>4 DEF ItemsInv
<1>3. ASSUME NEW f \in Family, Step(r, f) PROVE ItemsInv(r)' /\ NoOutcome(r)'
  <2>1. /\ disk' = disk /\ pc' = pc /\ exit' = exit /\ pc[r] = "step"
        /\ f = Order[at[r]] /\ at[r] \in 1 .. 19
        /\ items'[r][f] \in {items[r][f], "skipped"}
        /\ \A g \in Family : g # f => items'[r][g] = items[r][g]
    BY <1>1, <1>3, StepCount DEF Step, AtFamily, files, TypeInv, TypeOK
  <2>2. at'[r] \in at[r] + 1 .. 20
    BY <1>1, <1>3, <2>1, AdvanceIsAhead DEF Step
  <2>3. ItemsBehind(r)'
    BY <1>1, <2>1, <2>2 DEF ItemsBehind
  <2>4. HasListed(r)'
    BY <1>1, <2>1 DEF HasListed, AtWork
  <2> QED BY <1>1, <2>1, <2>3, <2>4 DEF ItemsInv, NoneYet, NoOutcome
<1>4. ASSUME NEW f \in Family, Open(r, f) PROVE ItemsInv(r)' /\ NoOutcome(r)'
  <2>1. /\ items' = items /\ exit' = exit /\ at' = at /\ pc[r] = "step" /\ pc'[r] = "write"
        /\ f = Order[at[r]] /\ at[r] \in 1 .. 19
    BY <1>1, <1>4, StepCount DEF Open, AtFamily, Goto, TypeInv, TypeOK
  <2>2. \A g \in Family : g # f => disk'[p(g)] = disk[p(g)]
    BY <1>1, <1>4, Paths DEF Open, TypeInv, TypeOK
  <2>3. items[r][f] = "none"
    BY <1>1, <2>1, StepsDiffer DEF ItemsBehind
  <2>4. ItemsBehind(r)'
    BY <1>1, <2>1 DEF ItemsBehind
  <2>5. HasListed(r)'
    BY <1>1, <2>1, <2>2, <2>3 DEF HasListed, AtWork
  <2> QED BY <1>1, <2>1, <2>4, <2>5 DEF ItemsInv, NoneYet, NoOutcome, Over
<1>5. ASSUME NEW f \in Family, Write(r, f) PROVE ItemsInv(r)' /\ NoOutcome(r)'
  <2>1. /\ exit' = exit /\ pc[r] = "write" /\ pc'[r] = "step"
        /\ f = Order[at[r]] /\ at[r] \in 1 .. 19
        /\ \A g \in Family : g # f => items'[r][g] = items[r][g]
    BY <1>1, <1>5, StepCount DEF Write, Goto, TypeInv, TypeOK
  <2>2. /\ disk'[p(f)] = Written(r)
        /\ \A g \in Family : g # f => disk'[p(g)] = disk[p(g)]
    BY <1>1, <1>5, Paths DEF Write, TypeInv, TypeOK
  <2>3. at'[r] \in at[r] + 1 .. 20
    BY <1>1, <1>5, <2>1, AdvanceIsAhead DEF Write
  <2>4. ItemsBehind(r)'
    BY <1>1, <2>1, <2>3 DEF ItemsBehind
  <2>5. HasListed(r)'
    BY <1>1, <2>1, <2>2 DEF HasListed, AtWork
  <2> QED BY <1>1, <2>1, <2>4, <2>5 DEF ItemsInv, NoneYet, NoOutcome, Over
<1>6. ASSUME NEW f \in Family, Omit(r, f) PROVE ItemsInv(r)' /\ NoOutcome(r)'
  <2>1. /\ exit' = exit /\ pc' = pc /\ pc[r] = "retain" /\ items'[r][f] = "skipped"
        /\ \A g \in Family : g # f => items'[r][g] = items[r][g]
    BY <1>1, <1>6 DEF Omit, TypeInv, TypeOK
  <2>2. \A g \in Family : g # f => disk'[p(g)] = disk[p(g)]
    BY <1>1, <1>6, Paths DEF Omit, Drop, TypeInv, TypeOK
  <2>3. HasListed(r)'
    BY <1>1, <2>1, <2>2 DEF HasListed, AtWork
  <2> QED BY <1>1, <2>1, <2>3 DEF ItemsInv, NoneYet, ItemsBehind, NoOutcome
<1>7. CASE Finish(r) \/ Retained(r) \/ OpenManifest(r)
  <2>1. /\ exit' = exit /\ items' = items /\ pc[r] \in {"step", "retain", "open"}
        /\ pc'[r] \in {"retain", "open", "publish"}
    BY <1>1, <1>7 DEF Finish, Retained, OpenManifest, Goto, files, TypeInv, TypeOK
  <2>2. \A g \in Family : disk'[p(g)] = disk[p(g)]
    BY <1>1, <1>7, Paths DEF Finish, Retained, OpenManifest, files, TypeInv, TypeOK
  <2>3. HasListed(r)'
    BY <1>1, <2>1, <2>2 DEF HasListed, AtWork
  <2> QED BY <1>1, <2>1, <2>3 DEF ItemsInv, NoneYet, ItemsBehind, NoOutcome, Over
<1>8. CASE \/ WriteManifest(r) \/ Answer(r) \/ Fail(r)
           \/ \E f \in Family : RefuseLength(r, f)
  <2>1. pc'[r] \in Over
    BY <1>1, <1>8 DEF WriteManifest, Answer, Fail, RefuseLength, Over, Exit, Goto, TypeInv, TypeOK
  <2> QED BY <2>1 DEF ItemsInv, NoneYet, ItemsBehind, HasListed, NoOutcome, AtWork, Over
<1> QED BY <1>2, <1>3, <1>4, <1>5, <1>6, <1>7, <1>8 DEF Proceed

\* A step adds a list only of a run that is over with it.
LEMMA ListsKeep ==
    ASSUME PubInv, NEW r \in Run, Proceed(r) \/ Fail(r) PROVE ListsAreOver'
<1>1. /\ TypeInv /\ ListsAreOver
      /\ \A q \in Run : pc[q] \in Over => pc'[q] \in Over
  <2>1. pc[r] \in Over => pc'[r] \in Over
    BY DEF Over, PubInv, AloneInv, TypeInv, TypeOK, Proceed, Start, Check, Scan, Step, Open, Write, RefuseLength,
           Omit, Finish, Retained, OpenManifest, WriteManifest, Answer, Fail, AtFamily, Goto
  <2> QED BY <2>1, StepsTouch DEF PubInv, AloneInv
<1>2. ASSUME NEW m \in Manifests, disk'[m] = disk[m], IsList(m)'
      PROVE  pc'[disk'[m].by] \in Over /\ disk'[m].listed \cap Manifests = {}
  <2>1. IsList(m)
    BY <1>2 DEF IsList, Exists
  <2> QED BY <1>1, <1>2, <2>1, ListsOfPaths DEF ListsAreOver
<1>3. CASE OpenManifest(r)
  <2>1. \A m \in Manifests : disk'[m] = disk[m] \/ disk'[m] = Torn(r)
    BY <1>1, <1>3 DEF OpenManifest, Manifests, Path, TypeInv, TypeOK
  <2>2. "listed" \notin DOMAIN Torn(r)
    BY DEF Torn
  <2> QED BY <1>2, <2>1, <2>2 DEF ListsAreOver, IsList
<1>4. CASE WriteManifest(r)
  <2> DEFINE list == [by |-> r, whole |-> TRUE, listed |-> Listed(r)]
  <2>1. \A m \in Manifests : disk'[m] = disk[m] \/ disk'[m] = list
    BY <1>1, <1>4 DEF WriteManifest, Manifests, Path, TypeInv, TypeOK
  <2>2. pc'[r] \in Over
    BY <1>1, <1>4 DEF WriteManifest, Exit, Goto, Over, TypeInv, TypeOK
  <2>3. Listed(r) \cap Manifests = {}
    BY Apart DEF Listed
  <2>4. list.by = r /\ list.listed = Listed(r)
    OBVIOUS
  <2>5. ASSUME NEW m \in Manifests, disk'[m] = list
        PROVE  pc'[disk'[m].by] \in Over /\ disk'[m].listed \cap Manifests = {}
    BY <2>2, <2>3, <2>4, <2>5
  <2> HIDE DEF list
  <2>6. ASSUME NEW m \in Manifests, IsList(m)'
        PROVE  pc'[disk'[m].by] \in Over /\ disk'[m].listed \cap Manifests = {}
    <3>1. CASE disk'[m] = disk[m]
      BY <1>2, <2>6, <3>1
    <3>2. CASE disk'[m] = list
      BY <2>5, <3>2
    <3> QED BY <2>1, <3>1, <3>2
  <2> QED BY <2>6 DEF ListsAreOver
<1>5. ASSUME NEW f \in Family, Open(r, f) \/ Write(r, f) \/ Omit(r, f) PROVE ListsAreOver'
  <2>1. \A m \in Manifests : disk'[m] = disk[m]
    <3>1. PICK x : disk' = [disk EXCEPT ![PathOf(opts[r], f)] = x]
      BY <1>5 DEF Open, Write, Omit, Drop
    <3> QED BY <1>1, <3>1, Apart DEF TypeInv, TypeOK, Manifests, Path
  <2> QED BY <1>2, <2>1 DEF ListsAreOver
<1>6. CASE disk' = disk
  BY <1>2, <1>6 DEF ListsAreOver
<1>7. CASE \/ Start(r) \/ Check(r) \/ Scan(r) \/ Finish(r) \/ Retained(r) \/ Answer(r) \/ Fail(r)
           \/ \E f \in Family : Step(r, f) \/ RefuseLength(r, f)
  BY <1>6, <1>7 DEF Start, Check, Scan, Finish, Retained, Answer, Fail, Step, RefuseLength, files
<1> QED BY <1>3, <1>4, <1>5, <1>7 DEF Proceed

\* A step of one run keeps what is said of the others, which wait or are over.
LEMMA PubNext == ASSUME MayOverlap = FALSE PROVE PubInv /\ [Next]_vars => PubInv'
<1> SUFFICES ASSUME PubInv, [Next]_vars PROVE PubInv'
  OBVIOUS
<1>1. ASSUME NEW r \in Run, Proceed(r) \/ Fail(r) PROVE PubInv'
  <2>1. AloneInv' /\ ListsAreOver' /\ ItemsInv(r)' /\ NoOutcome(r)'
    BY <1>1, AloneKeeps, ListsKeep, ItemsKeep DEF PubInv
  <2>2. ASSUME NEW q \in Run \ {r} PROVE ItemsInv(q)' /\ NoOutcome(q)'
    <3>1. /\ Idle(q) /\ pc'[q] = pc[q] /\ items'[q] = items[q] /\ exit'[q] = exit[q]
          /\ NoneYet(q) /\ NoOutcome(q)
      BY <1>1, OneSteps, StepsTouch DEF PubInv, AloneInv, ItemsInv
    <3> QED BY <3>1 DEF Idle, ItemsInv, NoneYet, ItemsBehind, HasListed, NoOutcome, AtWork
  <2> QED BY <2>1, <2>2 DEF PubInv
<1>2. CASE UNCHANGED vars
  <2>1. AloneInv'
    BY <1>2, AloneNext DEF PubInv
  <2>2. ListsAreOver'
    BY <1>2 DEF vars, files, PubInv, ListsAreOver, IsList, Exists
  <2>3. \A r \in Run : ItemsInv(r)' /\ NoOutcome(r)'
    BY ZenonT(30), <1>2 DEF vars, files, PubInv, ItemsInv, NoneYet, ItemsBehind, HasListed, NoOutcome, PathOf
  <2> QED BY <2>1, <2>2, <2>3 DEF PubInv
<1> QED BY <1>1, <1>2 DEF Next

(* How the steps of the runs are steps of the contract.                    *)

Stays == \A m \in Manifests : Publication(m)' = Publication(m)

\* Files that stay publish what they published.
LEMMA SamePublished ==
    ASSUME NEW m \in Manifests, disk'[m] = disk[m],
           IsList(m) => \A p \in disk[m].listed : disk'[p] = disk[p]
    PROVE  Publication(m)' = Publication(m)
BY DEF Publication, IsList, Exists, Written

\* A file of a family that a run writes or takes away is of no publication, or of one that
\* --force takes back.
LEMMA FamilyPublished ==
    ASSUME PubInv, NEW r \in Run, pc[r] \notin Over, NEW f \in Family,
           NEW x \in {Absent, Torn(r), Written(r)},
           disk' = [disk EXCEPT ![PathOf(opts[r], f)] = x],
           Exists(PathOf(opts[r], f)) => disk[PathOf(opts[r], f)].by = r \/ opts[r].force
    PROVE  /\ \A m \in Manifests : Publication(m)' \in {Publication(m), Absent}
           /\ Stays \/ opts[r].force
<1> DEFINE p == PathOf(opts[r], f)
<1>1. ASSUME NEW m \in Manifests
      PROVE  \/ Publication(m)' = Publication(m)
             \/ Publication(m)' = Absent /\ opts[r].force
  <2>1. disk'[m] = disk[m] /\ p \in Path
    <3>1. m \in Path /\ p \in Path /\ p # m
      BY Apart, Paths DEF Manifests, Path
    <3> QED BY <3>1 DEF PubInv, AloneInv, TypeInv, TypeOK
  <2>2. CASE ~IsList(m)
    BY <2>1, <2>2, SamePublished
  <2>3. CASE IsList(m) /\ p \notin disk[m].listed
    <3>1. \A q \in disk[m].listed : disk'[q] = disk[q]
      BY <2>3, ListsOfPaths DEF PubInv, AloneInv, TypeInv, TypeOK
    <3> QED BY <2>1, <3>1, SamePublished
  <2>4. CASE IsList(m) /\ p \in disk[m].listed
    <3> DEFINE w == disk[m].by
    <3>1. w \in Run /\ w # r
      BY <2>4, ListsOfPaths DEF PubInv, AloneInv, ListsAreOver
    <3>2. disk'[p] = x
      BY <2>1 DEF PubInv, AloneInv, TypeInv, TypeOK
    <3>3. x # Written(w)
      BY <3>1, WrittenExists DEF Torn, Written
    <3>4. Publication(m)' = Absent
      BY <2>1, <2>4, <3>2, <3>3 DEF Publication, Exists, Written
    <3>5. CASE opts[r].force
      BY <3>4, <3>5
    <3>6. CASE ~opts[r].force
      <4>1. disk[p] # Written(w)
        BY <3>1, <3>6, WrittenExists DEF Exists
      <4> QED BY <2>4, <3>4, <4>1 DEF Publication
    <3> QED BY <3>5, <3>6
  <2> QED BY <2>2, <2>3, <2>4
<1> QED BY <1>1 DEF Stays

\* A manifest that is written over publishes nothing, and the others what they did.
LEMMA ManifestPublished ==
    ASSUME PubInv, NEW r \in Run, NEW x, disk' = [disk EXCEPT ![ManifestOf(r)] = x]
    PROVE  /\ ManifestOf(r) \in Manifests /\ disk'[ManifestOf(r)] = x
           /\ \A m \in Manifests \ {ManifestOf(r)} : Publication(m)' = Publication(m)
<1>1. ManifestOf(r) \in Manifests /\ Manifests \subseteq Path
  BY DEF ManifestOf, ManifestPath, Manifests, Path
<1>2. ASSUME NEW m \in Manifests \ {ManifestOf(r)} PROVE Publication(m)' = Publication(m)
  <2>1. disk'[m] = disk[m]
    BY <1>1 DEF PubInv, AloneInv, TypeInv, TypeOK
  <2>2. CASE IsList(m)
    <3>1. \A p \in disk[m].listed : disk'[p] = disk[p]
      BY <1>1, <2>2, ListsOfPaths DEF PubInv, AloneInv, TypeInv, TypeOK, ListsAreOver
    <3> QED BY <2>1, <3>1, SamePublished
  <2>3. CASE ~IsList(m)
    BY <2>1, <2>3, SamePublished
  <2> QED BY <2>2, <2>3
<1> QED BY <1>1, <1>2 DEF PubInv, AloneInv, TypeInv, TypeOK

\* A run that goes on has published nothing.
LEMMA NotPublished ==
    ASSUME PubInv, NEW r \in Run, pc[r] \notin Over, NEW m \in Manifests,
           Exists(m) => disk[m].by = r
    PROVE  Publication(m) = Absent
BY DEF PubInv, ListsAreOver, IsList, Publication

\* A step that publishes and ends nothing is none of the contract.
LEMMA StutterStep ==
    ASSUME opts' = opts, exit' = exit, Stays
    PROVE  UNCHANGED Contract!vars
BY DEF Contract!vars, Stays, Manifests, Completed

\* A run with --force may take publications back.
LEMMA WithdrawStep ==
    ASSUME NEW r \in Run, opts' = opts, exit' = exit, exit[r] = "none", TypeInv,
           \A m \in Manifests : Publication(m)' \in {Publication(m), Absent},
           Stays \/ opts[r].force
    PROVE  Contract!Withdraw(r) \/ UNCHANGED Contract!vars
<1>1. CASE Stays
  BY <1>1, StutterStep
<1>2. CASE opts[r].force
  <2> DEFINE gone == {m \in Manifests : Publication(m)' # Publication(m)}
  <2>1. gone \in SUBSET Manifests
    OBVIOUS
  <2>2. [m \in Manifests |-> Publication(m)']
        = [m \in Manifests |-> IF m \in gone THEN Absent ELSE Publication(m)]
    OBVIOUS
  <2> HIDE DEF gone
  <2> QED BY <1>2, <2>1, <2>2 DEF Contract!Withdraw, Manifests, Completed
<1> QED BY <1>1, <1>2

\* A run that ends without a manifest has failed.
LEMMA FailStep ==
    ASSUME NEW r \in Run, NEW code \in {"general", "usage", "unsupported", "corrupted", "killed"},
           opts' = opts, exit[r] = "none", TypeInv, Exit(r, code), Stays
    PROVE  Contract!Fail(r)
<1>1. exit' = [exit EXCEPT ![r] = code]
  BY DEF Exit
<1>2. [q \in Run |-> IF exit'[q] = "none" THEN "none"
                     ELSE IF Completed(q)' THEN "complete" ELSE "failed"]
      = [[q \in Run |-> IF exit[q] = "none" THEN "none"
                        ELSE IF Completed(q) THEN "complete" ELSE "failed"] EXCEPT ![r] = "failed"]
  BY <1>1 DEF Completed, TypeInv, TypeOK
<1> QED BY <1>2 DEF Contract!Fail, Stays, Manifests

\* A run that writes its manifest ends with it published.
LEMMA CompleteStep ==
    ASSUME PubInv, NEW r \in Run, WriteManifest(r) PROVE Contract!Complete(r)
<1>0. PICK mp, listed : mp = ManifestOf(r) /\ listed = Listed(r)
  OBVIOUS
<1> DEFINE list == [by |-> r, whole |-> TRUE, listed |-> listed]
<1>1. pc[r] = "publish" /\ opts' = opts /\ items' = items
      /\ disk' = [disk EXCEPT ![mp] = list]
  BY <1>0 DEF WriteManifest, ManifestOf
<1>2. /\ TypeInv /\ OwnManifest(r) /\ HasListed(r) /\ exit[r] = "none"
  BY <1>1 DEF PubInv, AloneInv, ItemsInv, NoOutcome, Over
<1>3. /\ mp \in Manifests /\ disk'[mp] = list
      /\ \A m \in Manifests \ {mp} : Publication(m)' = Publication(m)
  BY <1>0, <1>1, ManifestPublished
<1>4. Publication(mp) = Absent
  BY <1>0, <1>1, <1>2, <1>3, NotPublished DEF OwnManifest, Over
<1>5. Publication(mp)' = [by |-> r, files |-> listed] /\ listed \in SUBSET Path
  <2>1. ASSUME NEW p \in listed PROVE disk'[p] = Written(r) /\ p \in Path
    <3>1. PICK f \in Family : items[r][f] = "extracted" /\ p = PathOf(opts[r], f)
      BY <1>0, <2>1 DEF Listed
    <3>2. disk[p] = Written(r) /\ p \in Path /\ p # mp
      BY <1>1, <1>2, <1>3, <3>1, Paths, Apart DEF HasListed, AtWork
    <3> QED BY <1>1, <1>2, <3>2 DEF TypeInv, TypeOK
  <2>2. list \in Content /\ "listed" \in DOMAIN list /\ list.by = r /\ list.listed = listed
    BY <2>1 DEF Content
  <2> HIDE DEF list
  <2>3. Exists(mp)' /\ ("listed" \in DOMAIN disk[mp])'
    BY <1>3, <2>2 DEF Exists
  <2>4. (\A p \in disk[mp].listed : disk[p] = Written(disk[mp].by))'
    BY <1>3, <2>1, <2>2 DEF Written
  <2> QED BY <1>3, <2>1, <2>2, <2>3, <2>4 DEF Publication
<1>6. PICK code \in ExitCodes(r) : Exit(r, code)
  BY DEF WriteManifest
<1>7. exit' = [exit EXCEPT ![r] = code] /\ code \in {"success", "partial", "corrupted"}
  BY <1>6 DEF ExitCodes, Exit
<1>8. \E result \in {"complete", "failed"} :
        [q \in Run |-> IF exit'[q] = "none" THEN "none"
                       ELSE IF Completed(q)' THEN "complete" ELSE "failed"]
        = [[q \in Run |-> IF exit[q] = "none" THEN "none"
                          ELSE IF Completed(q) THEN "complete" ELSE "failed"] EXCEPT ![r] = result]
  <2>1. CASE code = "corrupted"
    BY <1>2, <1>7, <2>1 DEF Completed, TypeInv, TypeOK
  <2>2. CASE code # "corrupted"
    BY <1>2, <1>7, <2>2 DEF Completed, TypeInv, TypeOK
  <2> QED BY <2>1, <2>2
<1> DEFINE pub == [m \in Manifests |-> Publication(m)]
<1>9. /\ pub[mp] = Absent
      /\ pub'[mp] \in [by : {r}, files : SUBSET Path]
      /\ pub' = [pub EXCEPT ![mp] = pub'[mp]]
  <2>1. pub[mp] = Absent /\ pub'[mp] = Publication(mp)'
    BY <1>3, <1>4
  <2>2. \A m \in Manifests \ {mp} : pub'[m] = pub[m]
    BY <1>3
  <2>3. pub' = [pub EXCEPT ![mp] = pub'[mp]]
    BY <2>2
  <2>4. Publication(mp)' \in [by : {r}, files : SUBSET Path]
    BY <1>5
  <2> QED BY <2>1, <2>3, <2>4
<1> QED BY <1>1, <1>2, <1>3, <1>8, <1>9 DEF Contract!Complete, Manifests

\* Every step of a run is one of the contract, or none.
LEMMA ContractStep ==
    ASSUME PubInv, NEW r \in Run, Proceed(r) \/ Fail(r)
    PROVE  Contract!Next \/ UNCHANGED Contract!vars
<1>1. /\ TypeInv /\ opts' = opts
      /\ OwnManifest(r) /\ OwnFile(r) /\ HasListed(r) /\ NoOutcome(r)
  BY StepsTouch DEF PubInv, AloneInv, ItemsInv
<1>2. disk' = disk => Stays
  BY DEF Stays, Publication, Exists, Written
<1>3. CASE Exit(r, "unsupported") /\ Start(r)
  BY <1>1, <1>2, <1>3, FailStep DEF Start, files, NoOutcome, Over, Contract!Next
<1>4. CASE Exit(r, "general") /\ Check(r)
  BY <1>1, <1>2, <1>4, FailStep DEF Check, NoOutcome, Over, Contract!Next
<1>5. CASE \/ Start(r) /\ ~Exit(r, "unsupported")
           \/ Check(r) /\ ~Exit(r, "general")
           \/ Scan(r) \/ Finish(r) \/ Retained(r) \/ Answer(r)
           \/ \E f \in Family : Step(r, f)
  <2>1. exit' = exit /\ disk' = disk
    BY <1>5 DEF Start, Check, Scan, Finish, Retained, Answer, Step, files
  <2> QED BY <1>1, <1>2, <2>1, StutterStep
<1>6. ASSUME NEW f \in Family, Open(r, f) \/ Write(r, f) \/ Omit(r, f)
      PROVE  Contract!Next \/ UNCHANGED Contract!vars
  <2> DEFINE p == PathOf(opts[r], f)
  <2>1. /\ exit' = exit /\ pc[r] \in AtWork
        /\ \E x \in {Absent, Torn(r), Written(r)} : disk' = [disk EXCEPT ![p] = x]
    BY <1>6 DEF Open, Write, Omit, Drop, AtFamily, AtWork
  <2>2. Exists(p) => disk[p].by = r \/ opts[r].force
    <3>1. CASE Open(r, f)
      BY <3>1 DEF Open, SkipsExisting
    <3>2. CASE Write(r, f)
      BY <1>1, <3>2 DEF Write, OwnFile, Has
    <3>3. CASE Omit(r, f)
      BY <1>1, <3>3, WrittenExists DEF Omit, Leaves, HasListed, AtWork
    <3> QED BY <1>6, <3>1, <3>2, <3>3
  <2>3. pc[r] \notin Over /\ exit[r] = "none"
    BY <1>1, <2>1 DEF AtWork, Over, NoOutcome
  <2>4. /\ \A m \in Manifests : Publication(m)' \in {Publication(m), Absent}
        /\ Stays \/ opts[r].force
    BY <2>1, <2>2, <2>3, FamilyPublished
  <2> QED BY <1>1, <2>1, <2>3, <2>4, WithdrawStep DEF Contract!Next
<1>7. CASE OpenManifest(r)
  <2> PICK mp : mp = ManifestOf(r)
    OBVIOUS
  <2>1. exit' = exit /\ pc[r] = "open" /\ disk' = [disk EXCEPT ![mp] = Torn(r)] /\ exit[r] = "none"
    BY <1>1, <1>7 DEF OpenManifest, ManifestOf, NoOutcome, Over
  <2>2. /\ mp \in Manifests /\ disk'[mp] = Torn(r)
        /\ \A m \in Manifests \ {mp} : Publication(m)' = Publication(m)
    BY <2>1, ManifestPublished
  <2>3. Publication(mp)' = Absent
    BY <2>2 DEF Publication, Torn
  <2>4. opts[r].force \/ Publication(mp) = Absent
    BY <1>1, <2>1, <2>2, NotPublished DEF OwnManifest, AtWork, Over
  <2>5. /\ \A m \in Manifests : Publication(m)' \in {Publication(m), Absent}
        /\ Stays \/ opts[r].force
    BY <2>2, <2>3, <2>4 DEF Stays
  <2> QED BY <1>1, <2>1, <2>5, WithdrawStep DEF Contract!Next
<1>8. CASE WriteManifest(r)
  BY <1>8, CompleteStep DEF Contract!Next
<1>9. CASE Fail(r) \/ \E f \in Family : RefuseLength(r, f)
  <2>1. PICK code \in {"general", "usage", "corrupted", "killed"} : Exit(r, code)
    BY <1>9 DEF Fail, RefuseLength
  <2>2. disk' = disk /\ pc[r] \notin Over
    BY <1>9 DEF Fail, RefuseLength, AtFamily, files, Over
  <2> QED BY <1>1, <1>2, <2>1, <2>2, FailStep DEF NoOutcome, Contract!Next
<1> QED BY <1>3, <1>4, <1>5, <1>6, <1>7, <1>8, <1>9 DEF Proceed

\* No run has published or ended at first.
LEMMA ContractInit == Init => Contract!Init
<1> SUFFICES ASSUME Init PROVE Contract!Init
  OBVIOUS
<1>1. [r \in Run |-> opts[r].force] \in [Run -> BOOLEAN]
  BY DEF Init
<1>2. \A r \in Run : exit[r] = "none"
  BY DEF Init
<1>3. \A m \in Manifests : Publication(m) = Absent
  BY DEF Init, Publication, Exists, Manifests, Path
<1> QED BY <1>1, <1>2, <1>3 DEF Contract!Init, Manifests

\* Runs that follow one another keep the contract of the command: who completes has published
\* whole files, and what is published stays as it is until a run with --force begins.
THEOREM RunsKeepTheContract == ASSUME MayOverlap = FALSE PROVE Spec => ImplementsContract
<1>1. PubInv /\ [Next]_vars => [Contract!Next]_(Contract!vars)
  <2> SUFFICES ASSUME PubInv, [Next]_vars PROVE [Contract!Next]_(Contract!vars)
    OBVIOUS
  <2>1. CASE Next
    BY <2>1, ContractStep DEF Next
  <2>2. CASE UNCHANGED vars
    <3>1. opts' = opts /\ exit' = exit /\ Stays
      BY <2>2 DEF vars, files, Stays, Publication, Exists, Written
    <3> QED BY <3>1, StutterStep
  <2> QED BY <2>1, <2>2
<1>2. PubInv /\ [Next]_vars => PubInv'
  BY PubNext
<1> QED BY <1>1, <1>2, PubInit, ContractInit, PTL DEF Spec, ImplementsContract, Contract!Spec
------------------------------------------------------------------------------
(* The repair.                                                             *)

\* The run is between its look at the directory and its exit.
Works(r) == pc[r] \in {"scan"} \cup AtWork

\* The run has a step for the family, and the step has something to write.
Makes(r, f) == StepEnabled(opts[r], file.type, f) /\ f \in file.found \cup WritesEmpty

\* The run at work is the last one that found the directory available, and it is at a step
\* of its own.
Holds(r) ==
    /\ Works(r) => holder = r
    /\ pc[r] \in {"step", "write"} /\ at[r] <= 19 => StepEnabled(opts[r], file.type, Order[at[r]])
    /\ pc[r] = "write" => Order[at[r]] \in file.found \cup WritesEmpty

\* What is in the directory was made by a step of a run that was started.
MadeBy(q, p) == p = ManifestOf(q) \/ \E f \in Family : p = PathOf(opts[q], f) /\ Makes(q, f)
MadeByARun ==
    \A p \in Path, q \in Run : Exists(p) /\ disk[p].by = q => pc[q] # "idle" /\ MadeBy(q, p)

\* The run has --force and does what every run before it did.
Repeats(r) == opts[r].force /\ \A q \in Run : pc[q] = "idle" \/ SameSteps(opts[q], opts[r])

\* The run has still to write the path.
Ahead(r, p) ==
    \/ p = ManifestOf(r)
    \/ \E n \in 1 .. 19 : /\ p = PathOf(opts[r], Order[n]) /\ Makes(r, Order[n])
                          /\ pc[r] \in {"step", "write"} => at[r] <= n
                          /\ pc[r] \in {"scan", "step", "write"}

\* What is torn has still to be written, and when the run has completed nothing is.
Repairs(r) ==
    holder = r /\ Repeats(r) =>
        /\ Works(r) => \A p \in Path : Exists(p) => disk[p].whole \/ Ahead(r, p)
        /\ Completed(r) => \A p \in Path : Exists(p) => disk[p].whole

RepairInv == PubInv /\ MadeByARun /\ \A r \in Run : Holds(r) /\ Repairs(r)

\* No enabled step from n on is before the next step, and the next one is enabled.
LEMMA ReachFinds ==
    ASSUME NEW o, NEW type, NEW n \in 1 .. 20
    PROVE  /\ Reach(o, type, n) <= 19 => StepEnabled(o, type, Order[Reach(o, type, n)])
           /\ \A m \in n .. 19 : StepEnabled(o, type, Order[m]) => Reach(o, type, n) <= m
<1> DEFINE rest == {m \in n .. 19 : StepEnabled(o, type, Order[m])}
<1>1. CASE rest = {}
  BY <1>1, Steps DEF Reach
<1>2. CASE rest # {}
  <2>1. \E m \in rest : \A k \in rest : m <= k
    <3>1. \A k \in Int : k \in rest => k \in 1 .. 19
      OBVIOUS
    <3> QED BY <1>2
  <2>2. Reach(o, type, n) = CHOOSE m \in rest : \A k \in rest : m <= k
    BY <1>2, Steps DEF Reach
  <2>3. Reach(o, type, n) \in rest /\ \A k \in rest : Reach(o, type, n) <= k
    BY <2>1, <2>2
  <2> QED BY <2>3
<1> QED BY <1>1, <1>2

\* Command lines that differ in --force and in where they come from do the same steps and
\* write the same paths.
LEMMA SameCommand ==
    ASSUME NEW o \in Options, NEW q \in Options, SameSteps(q, o)
    PROVE  /\ ManifestPath(q) = ManifestPath(o)
           /\ \A f : PathOf(q, f) = PathOf(o, f)
           /\ \A type, f : StepEnabled(q, type, f) <=> StepEnabled(o, type, f)
<1>1. o \in CommandLine /\ q \in CommandLine
  BY OptionsAssumption
<1>2. /\ q.extended = o.extended /\ q.objects = o.objects /\ q.images = o.images
      /\ q.strings = o.strings /\ q.tables = o.tables /\ q.map = o.map
      /\ q.rawDir = o.rawDir /\ q.textDir = o.textDir /\ q.manifest = o.manifest
  BY <1>1 DEF SameSteps, CommandLine
<1>3. ManifestPath(q) = ManifestPath(o) /\ \A f : PathOf(q, f) = PathOf(o, f)
  BY <1>2 DEF ManifestPath, PathOf
<1>4. \A type, f : StepEnabled(q, type, f) <=> StepEnabled(o, type, f)
  BY <1>2 DEF StepEnabled
<1> QED BY <1>3, <1>4

\* A run at work stays the holder, at a step of its own.
LEMMA HoldsKeeps ==
    ASSUME TypeInv, NEW r \in Run, Holds(r), Proceed(r) \/ Fail(r) PROVE Holds(r)'
<1> USE StepCount DEF TypeInv, TypeOK, Goto, Exit
<1> DEFINE AtEnabled == StepEnabled(opts[r], file.type, Order[at'[r]])
<1>1. opts' = opts /\ file' = file
  BY StepsTouch
<1>2. CASE pc'[r] \notin {"scan"} \cup AtWork
  BY <1>2 DEF Holds, Works, AtWork
<1>3. CASE Check(r)
  BY <1>3, <1>2 DEF Check, Holds, Works, AtWork
<1>4. CASE Scan(r)
  <2>1. /\ at'[r] = Reach(opts[r], file.type, 1) /\ holder' = holder
        /\ pc[r] = "scan" /\ pc'[r] = "step"
    BY <1>4 DEF Scan, files
  <2>2. at'[r] <= 19 => AtEnabled
    BY <2>1, ReachFinds
  <2> QED BY <1>1, <2>1, <2>2 DEF Holds, Works, AtWork
<1>5. ASSUME NEW f \in Family, Step(r, f) \/ Write(r, f) PROVE Holds(r)'
  <2>1. at[r] \in 1 .. 19 /\ pc[r] \in {"step", "write"}
    BY <1>5 DEF Step, Write, AtFamily
  <2>2. /\ at'[r] = Reach(opts[r], file.type, at[r] + 1) /\ holder' = holder
        /\ pc'[r] = "step"
    BY <1>5 DEF Step, Write, AtFamily, Advance, files
  <2>3. at'[r] <= 19 => AtEnabled
    BY <2>1, <2>2, ReachFinds
  <2> QED BY <1>1, <2>1, <2>2, <2>3 DEF Holds, Works, AtWork
<1>6. ASSUME NEW f \in Family, Open(r, f) PROVE Holds(r)'
  BY <1>1, <1>6 DEF Open, AtFamily, Holds, Works, AtWork
<1>7. CASE Finish(r) \/ Retained(r) \/ OpenManifest(r) \/ \E f \in Family : Omit(r, f)
  <2>1. pc[r] \in AtWork /\ pc'[r] \in {"retain", "open", "publish"} /\ holder' = holder
    BY <1>7 DEF Finish, Retained, OpenManifest, Omit, files, AtWork
  <2> QED BY <2>1 DEF Holds, Works
<1>8. CASE \/ Start(r) \/ WriteManifest(r) \/ Answer(r) \/ Fail(r)
           \/ \E f \in Family : RefuseLength(r, f)
  BY <1>2, <1>8 DEF Start, WriteManifest, Answer, Fail, RefuseLength, AtWork
<1> QED BY <1>3, <1>4, <1>5, <1>6, <1>7, <1>8 DEF Proceed

\* A run that works writes where its steps do.
LEMMA MadeKeeps ==
    ASSUME TypeInv, NEW r \in Run, Holds(r), MadeByARun, Proceed(r) \/ Fail(r)
    PROVE  MadeByARun'
<1>1. opts' = opts /\ file' = file /\ \A p, q : ManifestOf(q)' = ManifestOf(q)
  BY StepsTouch DEF ManifestOf
<1>2. \A q \in Run : pc[q] # "idle" => pc'[q] # "idle"
  <2>1. pc'[r] # "idle"
    BY StepCount DEF TypeInv, TypeOK, Proceed, Start, Check, Scan, Step, Open, Write, RefuseLength, Omit,
       Finish, Retained, OpenManifest, WriteManifest, Answer, Fail, AtFamily, Goto, Exit
  <2> QED BY <2>1, StepsTouch
<1>3. \A q, p : MadeBy(q, p)' <=> MadeBy(q, p)
  BY <1>1 DEF MadeBy, Makes
<1>4. \A p \in Path, q \in Run :
         Exists(p)' /\ disk'[p] = disk[p] /\ disk'[p].by = q => pc'[q] # "idle" /\ MadeBy(q, p)'
  BY <1>2, <1>3 DEF MadeByARun, Exists
<1>5. CASE disk' = disk
  BY <1>4, <1>5 DEF MadeByARun
<1>6. ASSUME NEW f \in Family, Open(r, f) \/ Write(r, f) PROVE MadeByARun'
  <2>1. /\ pc[r] \in {"step", "write"} /\ pc'[r] \in {"step", "write"} /\ at[r] \in 1 .. 19
        /\ f = Order[at[r]] /\ f \in file.found \cup WritesEmpty
    BY <1>6, StepCount DEF TypeInv, TypeOK, Open, Write, AtFamily, Goto, Holds
  <2>2. Makes(r, f)
    BY <2>1 DEF Holds, Makes
  <2>3. MadeBy(r, PathOf(opts[r], f))
    BY <2>2 DEF MadeBy
  <2>4. /\ \A p \in Path \ {PathOf(opts[r], f)} : disk'[p] = disk[p]
        /\ disk'[PathOf(opts[r], f)].by = r
    BY <1>6, Paths, WrittenExists DEF TypeInv, TypeOK, Open, Write
  <2>5. \A p \in Path : p = PathOf(opts[r], f) => MadeBy(r, p)'
    BY <1>3, <2>3
  <2> QED BY <1>4, <2>1, <2>4, <2>5 DEF MadeByARun
<1>7. ASSUME NEW f \in Family, Omit(r, f) PROVE MadeByARun'
  <2>1. \A p \in Path : Exists(p)' => disk'[p] = disk[p]
    BY <1>7, Paths DEF TypeInv, TypeOK, Omit, Drop, Exists
  <2> QED BY <1>4, <2>1 DEF MadeByARun
<1>8. CASE OpenManifest(r) \/ WriteManifest(r)
  <2>1. /\ \A p \in Path \ {ManifestOf(r)} : disk'[p] = disk[p]
        /\ disk'[ManifestOf(r)].by = r
    <3>1. ManifestOf(r) \in Path /\ disk \in [Path -> {Absent} \cup Content]
      BY DEF ManifestOf, ManifestPath, Path, TypeInv, TypeOK
    <3>2. CASE OpenManifest(r)
      BY <3>1, <3>2, WrittenExists DEF OpenManifest, ManifestOf
    <3>3. CASE WriteManifest(r)
      BY <3>1, <3>3 DEF WriteManifest, ManifestOf
    <3> QED BY <1>8, <3>2, <3>3
  <2>2. pc[r] # "idle"
    BY <1>8 DEF OpenManifest, WriteManifest
  <2>3. \A p \in Path : p = ManifestOf(r) => MadeBy(r, p)'
    BY <1>3 DEF MadeBy
  <2> QED BY <1>2, <1>4, <2>1, <2>2, <2>3 DEF MadeByARun
<1>9. CASE \/ Start(r) \/ Check(r) \/ Scan(r) \/ Finish(r) \/ Retained(r) \/ Answer(r) \/ Fail(r)
           \/ \E f \in Family : Step(r, f) \/ RefuseLength(r, f)
  BY <1>5, <1>9 DEF Start, Check, Scan, Finish, Retained, Answer, Fail, Step, RefuseLength, files
<1> QED BY <1>6, <1>7, <1>8, <1>9 DEF Proceed

\* Who repeats after a step repeated before it: no run is started twice.
LEMMA RepeatsBefore ==
    ASSUME TypeInv, NEW r \in Run, Proceed(r) \/ Fail(r), NEW q \in Run, Repeats(q)'
    PROVE  Repeats(q)
<1>1. opts' = opts /\ \A u \in Run \ {r} : pc'[u] = pc[u]
  BY StepsTouch
<1>2. pc'[r] # "idle"
  BY StepCount DEF TypeInv, TypeOK, Proceed, Start, Check, Scan, Step, Open, Write, RefuseLength, Omit,
     Finish, Retained, OpenManifest, WriteManifest, Answer, Fail, AtFamily, Goto, Exit
<1> QED BY <1>1, <1>2 DEF Repeats

\* A run that begins has all of the directory before it.
LEMMA CheckRepairs ==
    ASSUME TypeInv, NEW r \in Run, MadeByARun, NoOutcome(r), Check(r) PROVE Repairs(r)'
<1> USE DEF TypeInv, TypeOK
<1>1. CASE pc'[r] # "scan"
  <2>1. Exit(r, "general")
    BY <1>1 DEF Check, Goto
  <2> QED BY <2>1 DEF Exit, Goto, Repairs, Works, AtWork, Completed
<1>2. CASE pc'[r] = "scan"
  <2>1. /\ pc[r] = "check" /\ disk' = disk /\ opts' = opts /\ file' = file /\ exit[r] = "none"
        /\ \A u \in Run \ {r} : pc'[u] = pc[u]
    BY <1>2, StepsTouch DEF Check, Proceed, NoOutcome, Over
  <2>2. exit'[r] = "none"
    BY <1>2, <2>1 DEF Check, Exit, Goto
  <2>3. ASSUME Repeats(r)', NEW p \in Path, Exists(p)' PROVE Ahead(r, p)'
    <3>1. /\ Exists(p) /\ disk[p].by \in Run /\ pc[disk[p].by] # "idle" /\ MadeBy(disk[p].by, p)
      BY <2>1, <2>3 DEF Exists, Content, MadeByARun
    <3>2. SameSteps(opts[disk[p].by], opts[r])
      BY <1>2, <2>1, <2>3, <3>1 DEF Repeats
    <3>3. MadeBy(r, p)
      BY <3>1, <3>2, SameCommand DEF MadeBy, Makes, ManifestOf
    <3>4. CASE p = ManifestOf(r)
      BY <2>1, <3>4 DEF Ahead, ManifestOf
    <3>5. ASSUME NEW f \in Family, p = PathOf(opts[r], f), Makes(r, f) PROVE Ahead(r, p)'
      <4>1. PICK n \in 1 .. 19 : f = Order[n]
        BY Steps
      <4>2. p = PathOf(opts[r], Order[n])' /\ Makes(r, Order[n])'
        BY <2>1, <3>5, <4>1 DEF Makes
      <4> QED BY <1>2, <4>2 DEF Ahead
    <3> QED BY <3>3, <3>4, <3>5 DEF MadeBy
  <2> QED BY <2>2, <2>3 DEF Repairs, Completed
<1> QED BY <1>1, <1>2

\* A step of the run that holds the directory leaves what is torn for a later step.
LEMMA WorkRepairs ==
    ASSUME TypeInv, NEW r \in Run, Holds(r), NoOutcome(r), Repairs(r), Works(r),
           Proceed(r) \/ Fail(r)
    PROVE  Repairs(r)'
<1> USE StepCount DEF TypeInv, TypeOK, Goto
<1> SUFFICES ASSUME Repeats(r)'
             PROVE  /\ Works(r)' => \A p \in Path : Exists(p)' => disk'[p].whole \/ Ahead(r, p)'
                    /\ Completed(r)' => \A p \in Path : Exists(p)' => disk'[p].whole
  BY DEF Repairs
<1> DEFINE IsTorn(p) == Exists(p) /\ ~disk[p].whole
           mp == ManifestOf(r)
<1>1. opts' = opts /\ file' = file /\ mp' = mp /\ mp \in Path /\ \A f : PathOf(opts[r], f)' = PathOf(opts[r], f)
  BY StepsTouch DEF ManifestOf, ManifestPath, PathOf, Path
<1>2. opts[r].force /\ \A p \in Path : IsTorn(p) => Ahead(r, p)
  BY RepeatsBefore DEF Holds, Repairs, Repeats
<1>3. exit[r] = "none"
  BY DEF NoOutcome, Works, AtWork, Over
<1>4. \A f : Makes(r, f)' <=> Makes(r, f)
  BY <1>1 DEF Makes
<1>5. \A p : p = mp => Ahead(r, p)'
  BY <1>1 DEF Ahead
<1>6. \A p : (\E n \in 1 .. 19 : /\ p = PathOf(opts[r], Order[n]) /\ Makes(r, Order[n])
                                 /\ pc'[r] \in {"step", "write"} /\ at'[r] <= n) => Ahead(r, p)'
  BY <1>1, <1>4 DEF Ahead
<1>7. \A p : Ahead(r, p) => \/ p = mp
                            \/ \E n \in 1 .. 19 :
                                  /\ p = PathOf(opts[r], Order[n]) /\ Makes(r, Order[n])
                                  /\ pc[r] \in {"step", "write"} => at[r] <= n
                                  /\ pc[r] \in {"scan", "step", "write"}
  BY DEF Ahead
<1> HIDE DEF mp
<1>8. CASE Scan(r)
  <2>1. /\ at'[r] = Reach(opts[r], file.type, 1) /\ disk' = disk /\ exit' = exit
        /\ pc[r] = "scan" /\ pc'[r] = "step"
    BY <1>8 DEF Scan, files
  <2>2. \A n \in 1 .. 19 : Makes(r, Order[n]) => at'[r] <= n
    BY <2>1, ReachFinds DEF Makes
  <2> QED BY <1>2, <1>3, <1>5, <1>6, <1>7, <2>1, <2>2 DEF Exists, Completed
<1>9. ASSUME NEW f \in Family, Step(r, f) \/ Write(r, f)
      PROVE  /\ exit' = exit
             /\ \A p \in Path : Exists(p)' => disk'[p].whole \/ Ahead(r, p)'
  <2>1. /\ at[r] \in 1 .. 19 /\ f = Order[at[r]] /\ pc[r] \in {"step", "write"}
        /\ at'[r] = Reach(opts[r], file.type, at[r] + 1) /\ pc'[r] = "step" /\ exit' = exit
    BY <1>9 DEF Step, Write, AtFamily, Advance, files
  <2>2. \A n \in 1 .. 19 : Makes(r, Order[n]) /\ at[r] + 1 <= n => at'[r] <= n
    BY <2>1, ReachFinds DEF Makes
  <2>3. ASSUME NEW p \in Path, Exists(p)', ~disk'[p].whole
        PROVE  IsTorn(p) /\ (Makes(r, f) => p # PathOf(opts[r], f))
    <3>1. CASE Step(r, f)
      BY <1>2, <2>3, <3>1 DEF Step, files, Exists, SkipsExisting, Makes
    <3>2. CASE Write(r, f)
      BY <2>3, <3>2, Paths DEF Write, Written, Exists
    <3> QED BY <1>9, <3>1, <3>2
  <2> QED BY <1>2, <1>5, <1>6, <1>7, <2>1, <2>2, <2>3
<1>10. ASSUME NEW f \in Family, Open(r, f)
       PROVE  /\ exit' = exit
              /\ \A p \in Path : Exists(p)' => disk'[p].whole \/ Ahead(r, p)'
  <2>1. /\ at[r] \in 1 .. 19 /\ f = Order[at[r]] /\ pc[r] = "step" /\ pc'[r] = "write"
        /\ at' = at /\ exit' = exit /\ Makes(r, f)
    BY <1>10 DEF Open, AtFamily, Makes, Holds
  <2>2. \A p \in Path : disk'[p] = disk[p] \/ p = PathOf(opts[r], f)
    BY <1>10 DEF Open
  <2> QED BY SMTT(20), <1>2, <1>5, <1>6, <1>7, <2>1, <2>2 DEF Exists
<1>11. CASE Finish(r) \/ Retained(r) \/ OpenManifest(r) \/ \E f \in Family : Omit(r, f)
  <2>1. /\ pc[r] \in {"step", "retain", "open"} /\ exit' = exit
        /\ pc[r] = "step" => at[r] > 19 /\ at[r] \in Int
    BY <1>11 DEF Finish, Retained, OpenManifest, Omit
  <2>3. \A p : Ahead(r, p) => p = mp
    BY <1>7, <2>1
  <2>2. \A p \in Path : Exists(p)' => disk'[p] = disk[p] \/ p = mp
    BY <1>11, Paths DEF Finish, Retained, OpenManifest, Omit, Drop, files, mp, ManifestOf, Exists
  <2> QED BY <1>2, <1>3, <1>5, <2>1, <2>2, <2>3 DEF Exists, Completed, mp
<1>12. CASE WriteManifest(r)
  <2>1. \A p : Ahead(r, p) => p = mp
    BY <1>7, <1>12 DEF WriteManifest
  <2>2. /\ \A p \in Path \ {mp} : disk'[p] = disk[p]
        /\ disk'[mp].whole
    BY <1>1, <1>12 DEF WriteManifest, mp, ManifestOf
  <2>3. ~Works(r)'
    BY <1>12 DEF WriteManifest, Exit, Works, AtWork
  <2> QED BY <1>2, <2>1, <2>2, <2>3 DEF Exists
<1>13. CASE Fail(r) \/ \E f \in Family : RefuseLength(r, f)
  BY <1>13 DEF Fail, RefuseLength, Exit, Works, AtWork, Completed
<1>14. ~Start(r) /\ ~Check(r) /\ ~Answer(r)
  BY DEF Works, AtWork, Start, Check, Answer
<1> QED BY <1>3, <1>8, <1>9, <1>10, <1>11, <1>12, <1>13, <1>14 DEF Proceed, Completed

\* A run that is over does not change, and what is not at work writes nothing.
LEMMA RestRepairs ==
    ASSUME MayOverlap = FALSE, AloneInv, NEW r \in Run, Proceed(r) \/ Fail(r), Holds(r), ~Works(r),
           NEW q \in Run, NoOutcome(q), Repairs(q), q # r \/ ~Check(r)
    PROVE  Repairs(q)'
<1> USE DEF AloneInv, TypeInv, TypeOK, Goto, Exit
<1>1. Start(r) \/ Check(r) \/ Answer(r)
  BY DEF Works, AtWork, Proceed, Scan, Step, Open, Write, RefuseLength, Omit, Finish, Retained, OpenManifest,
         WriteManifest, Fail, AtFamily
<1>2. disk' = disk
  BY <1>1 DEF Start, Check, Answer, files
<1>3. CASE holder' # holder
  <2>1. Check(r) /\ holder' = r
    BY <1>1, <1>3 DEF Start, Check, Answer, files
  <2> QED BY <2>1 DEF Repairs
<1>4. CASE holder' = holder /\ q # r
  <2>1. Idle(q) /\ pc'[q] = pc[q] /\ exit'[q] = exit[q]
    BY <1>4, OneSteps, StepsTouch
  <2> QED BY <1>2, <1>4, <2>1, RepeatsBefore DEF Repairs, Works, AtWork, Idle, Completed, Exists
<1>5. CASE holder' = holder /\ q = r
  <2>1. ~Works(r)' /\ (Completed(r)' => Completed(r))
    BY <1>1, <1>5 DEF Start, Answer, Works, AtWork, Completed, files
  <2> QED BY <1>2, <1>5, <2>1, RepeatsBefore DEF Repairs, Exists
<1> QED BY <1>3, <1>4, <1>5

\* No file is there at first.
LEMMA RepairInit == Init => RepairInv
<1> SUFFICES ASSUME Init PROVE RepairInv
  OBVIOUS
<1>1. \A r \in Run : pc[r] = "idle" /\ exit[r] = "none"
  BY DEF Init
<1>2. \A p \in Path : ~Exists(p)
  BY DEF Init, Exists
<1> QED BY <1>1, <1>2, PubInit DEF RepairInv, MadeByARun, Holds, Repairs, Works, AtWork

\* The steps of the runs, one run after the other, keep it.
LEMMA RepairNext == ASSUME MayOverlap = FALSE PROVE RepairInv /\ [Next]_vars => RepairInv'
<1> SUFFICES ASSUME RepairInv, [Next]_vars PROVE RepairInv'
  OBVIOUS
<1>1. PubInv'
  BY PubNext DEF RepairInv
<1>2. ASSUME NEW r \in Run, Proceed(r) \/ Fail(r) PROVE RepairInv'
  <2>1. AloneInv /\ TypeInv /\ MadeByARun /\ \A q \in Run : Holds(q) /\ Repairs(q) /\ NoOutcome(q)
    BY DEF RepairInv, PubInv, AloneInv
  <2>2. MadeByARun' /\ Holds(r)'
    BY <1>2, <2>1, MadeKeeps, HoldsKeeps
  <2>3. \A q \in Run \ {r} : Holds(q)'
    BY <1>2, <2>1, OneSteps, StepsTouch DEF AloneInv, Holds, Works, AtWork, Idle
  <2>4. Repairs(r)'
    BY <1>2, <2>1, CheckRepairs, WorkRepairs, RestRepairs
  <2>5. ASSUME NEW q \in Run \ {r} PROVE Repairs(q)'
    <3>1. CASE Works(r)
      <4>1. holder = r /\ holder' = r
        BY <1>2, <2>1, <3>1 DEF Holds, Works, AtWork, Proceed, Start, Check, Scan, Step, Open, Write, RefuseLength,
           Omit, Finish, Retained, OpenManifest, WriteManifest, Answer, Fail, files
      <4> QED BY <4>1 DEF Repairs
    <3>2. CASE ~Works(r)
      BY <1>2, <2>1, <3>2, RestRepairs
    <3> QED BY <3>1, <3>2
  <2> QED BY <1>1, <2>2, <2>3, <2>4, <2>5 DEF RepairInv
<1>3. CASE UNCHANGED vars
  BY <1>1, <1>3 DEF vars, files, RepairInv, MadeByARun, MadeBy, Makes, ManifestOf, Exists, Holds, Works,
     Repairs, Repeats, Ahead, Completed
<1> QED BY <1>2, <1>3 DEF Next

\* The same command with --force repairs what killed or failed runs of it have left: when it
\* completes, no file of the directory is torn, the manifest included.
THEOREM TornFilesAreRepaired == ASSUME MayOverlap = FALSE PROVE Spec => []TornIsRepaired
<1>1. RepairInv => TornIsRepaired
  BY DEF RepairInv, Repairs, Repeats, TornIsRepaired
<1> QED BY <1>1, RepairInit, RepairNext, PTL DEF Spec
=============================================================================
