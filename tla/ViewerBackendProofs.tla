------------------------ MODULE ViewerBackendProofs ------------------------
(***************************************************************************)
(* Theorems about ViewerBackend, for any number of projects, calls,        *)
(* workers and replacements of the input files.                            *)
(***************************************************************************)
EXTENDS ViewerBackend, TLAPS

(***************************************************************************)
(* The invariant the theorems rest on.  TypeOK is not inductive: what a    *)
(* subprocess produces has the right type because the call was submitted   *)
(* for something, an item is only materialized for a get or an export,     *)
(* and the bytes hashed were those of a file.                              *)
(***************************************************************************)
ForItem == {"get_start", "get_parse", "get_store", "catalog_ready"}

WithCatalog ==
    {"list_store", "catalog_ready", "get_start", "get_parse", "get_store", "done"}

JobsAreGiven ==
    \A f \in Futures : /\ pc[f] # "free" => job[f] \in Jobs
                       /\ pc[f] \in ForItem => job[f].kind # "catalog"

CatalogsAreHeld ==
    \A f \in Futures : pc[f] \in WithCatalog => catalog[f] \in Catalogs

HashedAFile ==
    \A f \in Futures : pc[f] \in {"list_parse", "get_parse"} => child[f].bytes \in Digests

TypeInv == TypeOK /\ JobsAreGiven /\ CatalogsAreHeld /\ HashedAFile /\ QueueHoldsTheWaiting

\* A subprocess that has ended leaves nothing hashed.
LEMMA EndedChild ==
    ASSUME TypeInv, NEW f \in Futures, ChildEnds(f)
    PROVE  /\ child' \in [Futures -> Inputs]
           /\ \A g \in Futures \ {f} : child'[g] = child[g]
<1>1. NoInput \in Inputs
  BY ConstantsAssumption DEF NoInput, Inputs, Stamps
<1> QED
  BY <1>1 DEF TypeInv, TypeOK, ChildEnds

\* A job for an item names one.
LEMMA ItemOfJob ==
    ASSUME NEW j \in Jobs, j.kind # "catalog"
    PROVE  j.item \in Items /\ j.kind \in {"get", "export"}
BY DEF Jobs

\* A job that was given names the path of a project.
LEMMA PathOfJob ==
    ASSUME NEW j \in Jobs
    PROVE  j.path \in Paths
BY DEF Jobs

\* What is submitted is a job: the items offered are items of catalogs.
LEMMA SubmittedJob ==
    ASSUME TypeInv, NEW f \in Futures, Submit(f)
    PROVE  \E j \in Jobs : Enqueue(f, j)
<1>1. PICK p \in Paths : \/ SubmitCatalog(f, p)
                        \/ \E i \in Offered(p) : SubmitGet(f, p, i) \/ SubmitExport(f, p, i)
  BY DEF Submit
<1>2. CASE SubmitCatalog(f, p)
  BY <1>2 DEF SubmitCatalog, Jobs
<1>3. ASSUME NEW i \in Offered(p), SubmitGet(f, p, i) \/ SubmitExport(f, p, i)
      PROVE  \E j \in Jobs : Enqueue(f, j)
  <2>1. PICK g \in Futures : pc[g] = "done" /\ i \in CatalogItems(catalog[g])
    BY DEF Offered
  <2>2. catalog[g] \in Catalogs
    BY <2>1 DEF TypeInv, CatalogsAreHeld, WithCatalog
  <2>3. i \in Items
    BY <2>1, <2>2, ConstantsAssumption DEF CatalogItems, Catalogs, Items
  <2> QED
    BY <1>3, <2>3 DEF SubmitGet, SubmitExport, Jobs
<1> QED
  BY <1>1, <1>2, <1>3

\* The first state has the type invariant.
LEMMA TypeInvInit == Init => TypeInv
<1> SUFFICES ASSUME Init PROVE TypeInv
  OBVIOUS
<1> USE DEF Init
<1>1. TypeOK
  <2>1. input \in [Paths -> Inputs]
    BY ConstantsAssumption DEF Inputs, Stamps
  <2>2. pc \in [Futures -> Steps]
    BY DEF Steps
  <2>3. child \in [Futures -> Inputs] /\ key \in [Futures -> Stamps]
    BY ConstantsAssumption DEF Inputs, Stamps, NoInput
  <2>4. queue \in Seq(Futures)
    OBVIOUS
  <2>8. stable \in BOOLEAN /\ closed \in BOOLEAN /\ shutdown \in BOOLEAN
    BY Zenon
  <2>7. /\ job \in [Futures -> Jobs \cup {None}]
        /\ catalog \in [Futures -> Catalogs \cup {None}]
        /\ object \in [Futures -> Objects \cup {None}]
        /\ written \in [Futures -> Digests \cup {None}]
    OBVIOUS
  <2>5. catalogCache \in [Paths \X Stamps -> Catalogs \cup {None}]
    OBVIOUS
  <2>6. objectCache \in [Digests \X Items -> Objects \cup {None}]
    OBVIOUS
  <2> QED
    BY <2>1, <2>2, <2>3, <2>4, <2>5, <2>6, <2>7, <2>8 DEF TypeOK
<1>2. JobsAreGiven /\ CatalogsAreHeld /\ HashedAFile
  BY DEF JobsAreGiven, CatalogsAreHeld, HashedAFile, ForItem, WithCatalog
<1>3. QueueHoldsTheWaiting
  BY DEF QueueHoldsTheWaiting
<1> QED
  BY <1>1, <1>2, <1>3 DEF TypeInv

\* What a step of a worker keeps, whatever else the step does.
LEMMA WorkerMoves ==
    ASSUME TypeInv, NEW f \in Futures, NEW step \in Steps,
           pc[f] \in Running, step \notin {"free", "queued"}, Goto(f, step),
           UNCHANGED <<queue, job>>,
           step \in ForItem => job[f].kind # "catalog"
    PROVE  /\ pc' \in [Futures -> Steps]
           /\ JobsAreGiven'
           /\ QueueHoldsTheWaiting'
<1> USE DEF TypeInv, TypeOK, Goto
<1>1. pc' \in [Futures -> Steps]
  OBVIOUS
<1>2. JobsAreGiven'
  BY DEF JobsAreGiven, Running, Starting, InChild
<1>3. QueueHoldsTheWaiting'
  BY DEF QueueHoldsTheWaiting, Running, Starting, InChild
<1> QED
  BY <1>1, <1>2, <1>3

\* Replacing an input keeps the type invariant.
LEMMA TypeInvReplace ==
    ASSUME TypeInv, NEW p \in Paths, NEW bytes \in Digests \cup {None}, ReplaceInput(p, bytes)
    PROVE  TypeInv'
<1> USE DEF TypeInv, TypeOK, ReplaceInput, flagVars, requestVars, cacheVars
<1>1. input' \in [Paths -> Inputs]
  <2>1. input[p].stamp + 1 \in Stamps
    BY ConstantsAssumption DEF Inputs, Stamps
  <2>2. [stamp |-> input[p].stamp + 1, bytes |-> bytes] \in Inputs
    BY <2>1 DEF Inputs
  <2> QED
    BY <2>2
<1>2. /\ JobsAreGiven' /\ CatalogsAreHeld' /\ HashedAFile' /\ QueueHoldsTheWaiting'
  BY DEF JobsAreGiven, CatalogsAreHeld, HashedAFile, QueueHoldsTheWaiting
<1> QED
  BY <1>1, <1>2

\* Submitting a call keeps the type invariant: a free call is not in the queue yet.
LEMMA TypeInvEnqueue ==
    ASSUME TypeInv, NEW f \in Futures, NEW j \in Jobs, Enqueue(f, j)
    PROVE  TypeInv'
<1> USE DEF TypeInv, TypeOK, Enqueue, Goto, flagVars, cacheVars
<1>1. TypeOK'
  <2>1. pc' \in [Futures -> Steps]
    BY DEF Steps
  <2> QED
    BY <2>1
<1>2. JobsAreGiven' /\ CatalogsAreHeld' /\ HashedAFile'
  BY DEF JobsAreGiven, CatalogsAreHeld, HashedAFile, ForItem, WithCatalog
<1>3. QueueHoldsTheWaiting'
  <2>1. \A n \in 1 .. Len(queue) : queue[n] # f
    BY DEF QueueHoldsTheWaiting
  <2>2. /\ Len(queue') = Len(queue) + 1
        /\ \A n \in 1 .. Len(queue) : queue'[n] = queue[n]
        /\ queue'[Len(queue) + 1] = f
        /\ Len(queue) \in Nat
    OBVIOUS
  <2>3. \A g \in Futures : pc'[g] = "queued" <=> \E n \in 1 .. Len(queue') : queue'[n] = g
    <3> SUFFICES ASSUME NEW g \in Futures
                 PROVE  pc'[g] = "queued" <=> \E n \in 1 .. Len(queue') : queue'[n] = g
      OBVIOUS
    <3>1. CASE g = f
      BY <2>2, <3>1
    <3>2. CASE g # f
      <4>1. pc'[g] = pc[g]
        BY <3>2
      <4>2. pc[g] = "queued" <=> \E n \in 1 .. Len(queue) : queue[n] = g
        BY DEF QueueHoldsTheWaiting
      <4> QED
        BY <2>2, <3>2, <4>1, <4>2
    <3> QED
      BY <3>1, <3>2
  <2>4. \A m, n \in 1 .. Len(queue') : queue'[m] = queue'[n] => m = n
    BY <2>1, <2>2 DEF QueueHoldsTheWaiting
  <2> QED
    BY <2>3, <2>4 DEF QueueHoldsTheWaiting
<1> QED
  BY <1>1, <1>2, <1>3

\* Closing the backend keeps the type invariant: it only raises flags.
LEMMA TypeInvClose == TypeInv /\ (Close \/ ShutDown) => TypeInv'
<1> SUFFICES ASSUME TypeInv, Close \/ ShutDown PROVE TypeInv'
  OBVIOUS
<1>1. UNCHANGED <<stable, input, queue, pc, job, key, catalog, child, object, written,
                  catalogCache, objectCache>>
  BY DEF Close, ShutDown, requestVars, cacheVars
<1>2. closed' \in BOOLEAN /\ shutdown' \in BOOLEAN
  BY Zenon DEF Close, ShutDown, TypeInv, TypeOK
<1> QED
  BY <1>1, <1>2 DEF TypeInv, TypeOK, JobsAreGiven, CatalogsAreHeld, HashedAFile,
                    QueueHoldsTheWaiting

\* Taking the oldest call, or cancelling it, keeps the type invariant: it is in the queue once.
LEMMA TypeInvTake == TypeInv /\ (Take \/ Drain) => TypeInv'
<1> SUFFICES ASSUME TypeInv, Take \/ Drain PROVE TypeInv'
  OBVIOUS
<1> USE DEF TypeInv, TypeOK, Goto
<1> DEFINE f == Head(queue)
<1>7. queue # <<>> /\ queue' = Tail(queue)
  BY DEF Take, Drain
<1>1. /\ Len(queue) \in Nat \ {0} /\ f = queue[1] /\ f \in Futures
      /\ Len(queue') = Len(queue) - 1
      /\ \A n \in 1 .. Len(queue') : queue'[n] = queue[n + 1]
      /\ queue' \in Seq(Futures)
  <2>1. queue \in Seq(Futures)
    OBVIOUS
  <2> HIDE DEF TypeInv, TypeOK
  <2> QED
    BY <1>7, <2>1
<1>6. /\ UNCHANGED <<stable, closed, shutdown, input, job, key, catalog, child, object, written,
                     catalogCache, objectCache>>
      /\ pc' = [pc EXCEPT ![f] = "stat"] \/ pc' = [pc EXCEPT ![f] = "cancelled"]
  <2>1. CASE Take
    BY <2>1 DEF Take, flagVars, cacheVars
  <2>2. CASE Drain
    BY <2>2 DEF Drain, flagVars, cacheVars
  <2> QED
    BY <2>1, <2>2
<1>2. pc[f] = "queued"
  <2>1. 1 \in 1 .. Len(queue) /\ queue[1] = f /\ f \in Futures
    BY <1>1
  <2> QED
    BY <2>1 DEF QueueHoldsTheWaiting
<1>3. TypeOK'
  <2>1. pc' \in [Futures -> Steps]
    BY <1>1, <1>6 DEF Steps, Running, Settled
  <2> QED
    BY <1>1, <1>6, <2>1
<1>4. JobsAreGiven' /\ CatalogsAreHeld' /\ HashedAFile'
  BY <1>1, <1>2, <1>6 DEF JobsAreGiven, CatalogsAreHeld, HashedAFile, ForItem, WithCatalog
<1>5. QueueHoldsTheWaiting'
  <2>1. \A g \in Futures : pc'[g] = "queued" <=> \E n \in 1 .. Len(queue') : queue'[n] = g
    <3> SUFFICES ASSUME NEW g \in Futures
                 PROVE  pc'[g] = "queued" <=> \E n \in 1 .. Len(queue') : queue'[n] = g
      OBVIOUS
    <3>1. CASE g = f
      <4>1. \A n \in 1 .. Len(queue') : queue'[n] # f
        BY <1>1 DEF QueueHoldsTheWaiting
      <4>2. pc'[g] # "queued"
        BY <1>1, <1>6, <3>1
      <4> QED
        BY <3>1, <4>1, <4>2
    <3>2. CASE g # f
      <4>1. pc'[g] = pc[g]
        BY <1>1, <1>6, <3>2
      <4>2. pc[g] = "queued" <=> \E n \in 1 .. Len(queue) : queue[n] = g
        BY DEF QueueHoldsTheWaiting
      <4>3. (\E n \in 1 .. Len(queue) : queue[n] = g) => \E n \in 1 .. Len(queue') : queue'[n] = g
        <5> SUFFICES ASSUME NEW n \in 1 .. Len(queue), queue[n] = g
                     PROVE  \E m \in 1 .. Len(queue') : queue'[m] = g
          OBVIOUS
        <5>1. n # 1 /\ n - 1 \in 1 .. Len(queue')
          BY <1>1, <3>2
        <5>2. queue'[n - 1] = queue[(n - 1) + 1] /\ (n - 1) + 1 = n
          BY <1>1, <5>1
        <5> QED
          BY <5>1, <5>2
      <4>4. (\E n \in 1 .. Len(queue') : queue'[n] = g) => \E n \in 1 .. Len(queue) : queue[n] = g
        BY <1>1, <1>7
      <4> QED
        BY <4>1, <4>2, <4>3, <4>4
    <3> QED
      BY <3>1, <3>2
  <2>2. \A m, n \in 1 .. Len(queue') : queue'[m] = queue'[n] => m = n
    BY <1>1, <1>7 DEF QueueHoldsTheWaiting
  <2> QED
    BY <2>1, <2>2 DEF QueueHoldsTheWaiting
<1> QED
  BY <1>3, <1>4, <1>5

(***************************************************************************)
(* The workers.  Each step moves one call, and writes one more variable    *)
(* at most.                                                                *)
(***************************************************************************)
LEMMA TypeInvFileKey ==
    ASSUME TypeInv, NEW f \in Futures, FileKey(f)
    PROVE  TypeInv'
<1> USE DEF FileKey, flagVars, requestVars, cacheVars
<1>1. pc[f] \in Running /\ job[f] \in Jobs /\ job[f].path \in Paths
  BY PathOfJob DEF TypeInv, JobsAreGiven, Running
<1>2. PICK step \in {"raised", "lookup"} : Goto(f, step)
  OBVIOUS
<1>3. pc' \in [Futures -> Steps] /\ JobsAreGiven' /\ QueueHoldsTheWaiting'
  BY <1>1, <1>2, WorkerMoves DEF Steps, Running, Settled, ForItem
<1>4. key' \in [Futures -> Stamps]
  BY <1>1 DEF TypeInv, TypeOK, Inputs
<1>5. CatalogsAreHeld' /\ HashedAFile'
  BY <1>2 DEF TypeInv, TypeOK, CatalogsAreHeld, HashedAFile, WithCatalog, Goto
<1> QED
  BY <1>3, <1>4, <1>5 DEF TypeInv, TypeOK

\* Looking a catalog up keeps the type invariant.
LEMMA TypeInvLookupCatalog ==
    ASSUME TypeInv, NEW f \in Futures, LookupCatalog(f)
    PROVE  TypeInv'
<1> USE DEF LookupCatalog, flagVars, requestVars, cacheVars
<1>1. pc[f] \in Running /\ job[f] \in Jobs /\ job[f].path \in Paths /\ key[f] \in Stamps
  BY PathOfJob DEF TypeInv, TypeOK, JobsAreGiven, Running
<1>2. catalogCache[<<job[f].path, key[f]>>] \in Catalogs \cup {None}
  BY <1>1 DEF TypeInv, TypeOK
<1>3. CASE catalogCache[<<job[f].path, key[f]>>] # None
  <2>1. PICK step \in {"done", "catalog_ready"} :
            Goto(f, step) /\ (step \in ForItem => job[f].kind # "catalog")
    BY <1>3 DEF AfterCatalog, ForItem
  <2>2. pc' \in [Futures -> Steps] /\ JobsAreGiven' /\ QueueHoldsTheWaiting'
    BY <1>1, <2>1, WorkerMoves DEF Steps, Running, Settled
  <2>3. catalog' \in [Futures -> Catalogs \cup {None}]
    BY <1>2, <1>3 DEF TypeInv, TypeOK
  <2>4. CatalogsAreHeld' /\ HashedAFile'
    BY <1>2, <1>3, <2>1 DEF TypeInv, TypeOK, CatalogsAreHeld, HashedAFile, WithCatalog, Goto
  <2> QED
    BY <1>3, <2>2, <2>3, <2>4 DEF TypeInv, TypeOK
<1>4. CASE catalogCache[<<job[f].path, key[f]>>] = None
  <2>1. PICK step \in {"raised", "list_start"} : Goto(f, step)
    BY <1>4 DEF Spawn
  <2>2. pc' \in [Futures -> Steps] /\ JobsAreGiven' /\ QueueHoldsTheWaiting'
    BY <1>1, <2>1, WorkerMoves DEF Steps, Running, Settled, Starting, InChild, ForItem
  <2>3. CatalogsAreHeld' /\ HashedAFile'
    BY <1>4, <2>1 DEF TypeInv, TypeOK, CatalogsAreHeld, HashedAFile, WithCatalog, Goto
  <2> QED
    BY <1>4, <2>2, <2>3 DEF TypeInv, TypeOK
<1> QED
  BY <1>3, <1>4

\* Storing a catalog keeps the type invariant.
LEMMA TypeInvStoreCatalog ==
    ASSUME TypeInv, NEW f \in Futures, StoreCatalog(f)
    PROVE  TypeInv'
<1> USE DEF StoreCatalog, flagVars, requestVars
<1>1. /\ pc[f] \in Running /\ job[f] \in Jobs /\ job[f].path \in Paths
      /\ key[f] \in Stamps /\ catalog[f] \in Catalogs
  BY PathOfJob DEF TypeInv, TypeOK, JobsAreGiven, CatalogsAreHeld, WithCatalog, Running
<1>2. PICK step \in {"done", "catalog_ready"} :
          Goto(f, step) /\ (step \in ForItem => job[f].kind # "catalog")
  BY DEF AfterCatalog, ForItem
<1>3. pc' \in [Futures -> Steps] /\ JobsAreGiven' /\ QueueHoldsTheWaiting'
  BY <1>1, <1>2, WorkerMoves DEF Steps, Running, Settled
<1>4. catalogCache' \in [Paths \X Stamps -> Catalogs \cup {None}]
  BY <1>1 DEF TypeInv, TypeOK
<1>5. CatalogsAreHeld' /\ HashedAFile'
  BY <1>1, <1>2 DEF TypeInv, TypeOK, CatalogsAreHeld, HashedAFile, WithCatalog, Goto
<1> QED
  BY <1>3, <1>4, <1>5 DEF TypeInv, TypeOK

\* Looking an object up keeps the type invariant.
LEMMA TypeInvLookupObject ==
    ASSUME TypeInv, NEW f \in Futures, LookupObject(f)
    PROVE  TypeInv'
<1> USE DEF LookupObject, flagVars, requestVars, cacheVars
<1>1. /\ pc[f] \in Running /\ job[f] \in Jobs /\ job[f].kind # "catalog"
      /\ job[f].item \in Items /\ catalog[f] \in Catalogs
  BY ItemOfJob DEF TypeInv, JobsAreGiven, CatalogsAreHeld, WithCatalog, Running, ForItem
<1>2. objectCache[<<catalog[f].document, job[f].item>>] \in Objects \cup {None}
  BY <1>1 DEF TypeInv, TypeOK, Catalogs
<1>3. PICK step \in {"done", "raised", "get_start"} : Goto(f, step)
  BY DEF Spawn
<1>4. pc' \in [Futures -> Steps] /\ JobsAreGiven' /\ QueueHoldsTheWaiting'
  BY <1>1, <1>3, WorkerMoves DEF Steps, Running, Settled, Starting, InChild
<1>5. object' \in [Futures -> Objects \cup {None}]
  BY <1>2 DEF TypeInv, TypeOK
<1>6. CatalogsAreHeld' /\ HashedAFile'
  BY <1>1, <1>3 DEF TypeInv, TypeOK, CatalogsAreHeld, HashedAFile, WithCatalog, Goto
<1> QED
  BY <1>4, <1>5, <1>6 DEF TypeInv, TypeOK

\* Storing an object keeps the type invariant.
LEMMA TypeInvStoreObject ==
    ASSUME TypeInv, NEW f \in Futures, StoreObject(f)
    PROVE  TypeInv'
<1> USE DEF StoreObject, flagVars, requestVars
<1>1. /\ pc[f] \in Running /\ job[f] \in Jobs /\ job[f].kind # "catalog"
      /\ job[f].item \in Items /\ catalog[f] \in Catalogs
  BY ItemOfJob DEF TypeInv, JobsAreGiven, CatalogsAreHeld, WithCatalog, Running, ForItem
<1>2. pc' \in [Futures -> Steps] /\ JobsAreGiven' /\ QueueHoldsTheWaiting'
  BY <1>1, WorkerMoves DEF Steps, Settled
<1>3. objectCache' \in [Digests \X Items -> Objects \cup {None}]
  BY <1>1 DEF TypeInv, TypeOK, Catalogs
<1>4. CatalogsAreHeld' /\ HashedAFile'
  BY <1>1 DEF TypeInv, TypeOK, CatalogsAreHeld, HashedAFile, WithCatalog, Goto
<1> QED
  BY <1>2, <1>3, <1>4 DEF TypeInv, TypeOK

\* Checking the format of an export keeps the type invariant.
LEMMA TypeInvCheckFormat ==
    ASSUME TypeInv, NEW f \in Futures, CheckFormat(f)
    PROVE  TypeInv'
<1> USE DEF CheckFormat, flagVars, requestVars, cacheVars
<1>1. pc[f] \in Running /\ job[f].kind # "catalog" /\ catalog[f] \in Catalogs
  BY DEF TypeInv, CatalogsAreHeld, WithCatalog, Running
<1>2. PICK step \in {"raised", "get_start"} : Goto(f, step)
  BY DEF Spawn
<1>3. pc' \in [Futures -> Steps] /\ JobsAreGiven' /\ QueueHoldsTheWaiting'
  BY <1>1, <1>2, WorkerMoves DEF Steps, Running, Settled, Starting, InChild
<1>4. CatalogsAreHeld' /\ HashedAFile'
  BY <1>1, <1>2 DEF TypeInv, TypeOK, CatalogsAreHeld, HashedAFile, WithCatalog, Goto
<1> QED
  BY <1>3, <1>4 DEF TypeInv, TypeOK

\* Starting a subprocess, which hashes the input, keeps the type invariant.
LEMMA TypeInvStart ==
    ASSUME TypeInv, NEW f \in Futures, ListStart(f) \/ GetStart(f)
    PROVE  TypeInv'
<1> USE DEF ListStart, GetStart, StartsAndHashes, flagVars, requestVars, cacheVars
<1>1. /\ pc[f] \in Running /\ job[f] \in Jobs /\ job[f].path \in Paths
      /\ pc[f] = "get_start" => job[f].kind # "catalog" /\ catalog[f] \in Catalogs
  BY PathOfJob
     DEF TypeInv, JobsAreGiven, CatalogsAreHeld, WithCatalog, Running, Starting, InChild, ForItem
<1>2. /\ input[job[f].path] \in Inputs
      /\ input[job[f].path].bytes \in Digests
  BY <1>1 DEF TypeInv, TypeOK, Inputs
<1>3. PICK step \in {"list_parse", "get_parse"} :
          Goto(f, step) /\ (step = "get_parse" => pc[f] = "get_start")
  BY Zenon
<1>4. pc' \in [Futures -> Steps] /\ JobsAreGiven' /\ QueueHoldsTheWaiting'
  BY <1>1, <1>3, WorkerMoves DEF Steps, Running, Starting, InChild, ForItem
<1>5. child' \in [Futures -> Inputs]
  BY <1>2 DEF TypeInv, TypeOK
<1>6. CatalogsAreHeld' /\ HashedAFile'
  BY <1>1, <1>2, <1>3 DEF TypeInv, TypeOK, CatalogsAreHeld, HashedAFile, WithCatalog, Goto
<1> QED
  BY <1>4, <1>5, <1>6 DEF TypeInv, TypeOK

\* The end of "deopjufy list" keeps the type invariant.
LEMMA TypeInvListParse ==
    ASSUME TypeInv, NEW f \in Futures, ListParse(f)
    PROVE  TypeInv'
<1> USE DEF ListParse, flagVars, requestVars, cacheVars
<1> DEFINE c == [document |-> child[f].bytes, content |-> input[job[f].path].bytes,
                 readAt |-> child[f].stamp]
<1>1. /\ pc[f] \in Running /\ job[f] \in Jobs /\ job[f].path \in Paths
      /\ child[f].bytes \in Digests
  BY PathOfJob DEF TypeInv, JobsAreGiven, HashedAFile, Running, Starting, InChild
<1>2. c \in Catalogs
  BY <1>1 DEF TypeInv, TypeOK, Inputs, Catalogs
<1>3. pc' \in [Futures -> Steps] /\ JobsAreGiven' /\ QueueHoldsTheWaiting'
  BY <1>1, WorkerMoves DEF Steps, Running, ForItem
<1>4. catalog' \in [Futures -> Catalogs \cup {None}]
  BY <1>2 DEF TypeInv, TypeOK
<1>5. CatalogsAreHeld' /\ HashedAFile'
  BY <1>2, EndedChild DEF TypeInv, TypeOK, CatalogsAreHeld, HashedAFile, WithCatalog, Goto
<1> QED
  BY <1>3, <1>4, <1>5, EndedChild DEF TypeInv, TypeOK

\* The end of "deopjufy get", with an item or a refusal, keeps the type invariant.
LEMMA TypeInvGet ==
    ASSUME TypeInv, NEW f \in Futures, GetRefuses(f) \/ GetParse(f)
    PROVE  TypeInv'
<1> USE DEF GetRefuses, GetParse, flagVars, requestVars, cacheVars
<1>1. /\ pc[f] \in Running /\ job[f] \in Jobs /\ job[f].path \in Paths
      /\ job[f].kind # "catalog" /\ job[f].item \in Items
      /\ child[f].bytes \in Digests /\ catalog[f] \in Catalogs
  BY PathOfJob, ItemOfJob
     DEF TypeInv, JobsAreGiven, HashedAFile, CatalogsAreHeld, WithCatalog, Running, Starting, InChild, ForItem
<1>2. PICK step \in {"get_store", "done"} : Goto(f, step)
  BY DEF AfterGet
<1>3. pc' \in [Futures -> Steps] /\ JobsAreGiven' /\ QueueHoldsTheWaiting'
  BY <1>1, <1>2, WorkerMoves DEF Steps, Running, Settled
<1>4. /\ object' \in [Futures -> Objects \cup {None}]
      /\ written' \in [Futures -> Digests \cup {None}]
  <2>1. CASE GetRefuses(f)
    <3>1. FailurePayload(job[f].item) \in Objects
      BY <1>1 DEF FailurePayload, Objects
    <3> QED
      BY <2>1, <3>1 DEF TypeInv, TypeOK
  <2>2. CASE GetParse(f)
    <3>1. input[job[f].path].bytes \in Digests
      BY <1>1, <2>2 DEF TypeInv, TypeOK, Inputs
    <3>2. [status |-> "ok", document |-> child[f].bytes, item |-> job[f].item,
           content |-> input[job[f].path].bytes] \in Objects
      BY <1>1, <3>1 DEF Objects
    <3> QED
      BY <2>2, <3>1, <3>2 DEF TypeInv, TypeOK
  <2> QED
    BY <2>1, <2>2
<1>5. CatalogsAreHeld' /\ HashedAFile'
  BY <1>1, <1>2, EndedChild DEF TypeInv, TypeOK, CatalogsAreHeld, HashedAFile, WithCatalog, Goto
<1> QED
  BY <1>3, <1>4, <1>5, EndedChild DEF TypeInv, TypeOK

\* A subprocess that fails keeps the type invariant.
LEMMA TypeInvCommandFails ==
    ASSUME TypeInv, NEW f \in Futures, CommandFails(f)
    PROVE  TypeInv'
<1> USE DEF CommandFails, flagVars, requestVars, cacheVars
<1>1. pc' \in [Futures -> Steps] /\ JobsAreGiven' /\ QueueHoldsTheWaiting'
  BY WorkerMoves DEF Steps, Running, Settled, ForItem
<1>2. CatalogsAreHeld' /\ HashedAFile'
  BY EndedChild DEF TypeInv, TypeOK, CatalogsAreHeld, HashedAFile, WithCatalog, Goto
<1> QED
  BY <1>1, <1>2, EndedChild DEF TypeInv, TypeOK

\* The type invariant is inductive.
LEMMA TypeInvNext == TypeInv /\ [Next]_vars => TypeInv'
<1> SUFFICES ASSUME TypeInv, [Next]_vars PROVE TypeInv'
  OBVIOUS
<1>1. CASE \E p \in Written, bytes \in Digests \cup {None} : ReplaceInput(p, bytes)
  BY <1>1, TypeInvReplace, ConstantsAssumption
<1>2. ASSUME NEW f \in Futures, Submit(f) PROVE TypeInv'
  <2>1. PICK j \in Jobs : Enqueue(f, j)
    BY <1>2, SubmittedJob
  <2> QED
    BY <2>1, TypeInvEnqueue
<1>3. ASSUME NEW f \in Futures, Worker(f) PROVE TypeInv'
  BY <1>3, TypeInvFileKey, TypeInvLookupCatalog, TypeInvStoreCatalog, TypeInvLookupObject,
     TypeInvStoreObject, TypeInvCheckFormat, TypeInvStart, TypeInvListParse, TypeInvGet,
     TypeInvCommandFails, Zenon
     DEF Worker
<1>4. CASE UNCHANGED vars
  BY <1>4 DEF vars, flagVars, requestVars, cacheVars, TypeInv, TypeOK, JobsAreGiven, CatalogsAreHeld,
              HashedAFile, QueueHoldsTheWaiting
<1> QED
  BY <1>1, <1>2, <1>3, <1>4, TypeInvClose, TypeInvTake DEF Next, Exited

\* Every variable of the backend keeps to the values its type allows.
THEOREM TypeCorrect == Spec => []TypeOK
<1>1. TypeInv => TypeOK
  BY DEF TypeInv
<1> QED
  BY <1>1, TypeInvInit, TypeInvNext, PTL DEF Spec

\* The queue of the pool holds the calls that wait for a worker, once each.
THEOREM QueueCorrect == Spec => []QueueHoldsTheWaiting
<1>1. TypeInv => QueueHoldsTheWaiting
  BY DEF TypeInv
<1> QED
  BY <1>1, TypeInvInit, TypeInvNext, PTL DEF Spec
-----------------------------------------------------------------------------
(***************************************************************************)
(* No stale catalog.  What a call reads of the input before it has a       *)
(* catalog is no newer than the input, and what the subprocess hashed is   *)
(* no older than the identity the call read first.                         *)
(***************************************************************************)
StampOfJob(f) == input[job[f].path].stamp

KeyIsOfThePast ==
    \A f \in Futures : pc[f] \in {"lookup", "list_start"} => key[f] <= StampOfJob(f)

HashIsCurrent ==
    \A f \in Futures :
        pc[f] = "list_parse" =>
            /\ key[f] <= child[f].stamp
            /\ child[f].stamp <= StampOfJob(f)
            /\ child[f].stamp = StampOfJob(f) => child[f].bytes = input[job[f].path].bytes

CurrentInv == KeyIsOfThePast /\ HashIsCurrent /\ NoStaleCatalog /\ CachedCatalogIsCurrent

\* The first state caches nothing, so nothing is out of date.
LEMMA CurrentInvInit == Init => CurrentInv
BY DEF Init, CurrentInv, KeyIsOfThePast, HashIsCurrent, NoStaleCatalog, CachedCatalogIsCurrent

\* Replacing an input only makes what is known of it older.
LEMMA ReplacedIsNewer ==
    ASSUME TypeInv, NEW p \in Paths, NEW bytes \in Digests \cup {None}, ReplaceInput(p, bytes),
           NEW q \in Paths
    PROVE  /\ input[q].stamp \in Nat /\ input'[q].stamp \in Nat
           /\ input[q].stamp <= input'[q].stamp
           /\ input[q].stamp = input'[q].stamp => input[q] = input'[q]
BY ConstantsAssumption DEF TypeInv, TypeOK, Inputs, Stamps, ReplaceInput

\* A catalog that is current stays so when its input is replaced.
LEMMA CurrentIsKept ==
    ASSUME TypeInv, NEW p \in Paths, NEW bytes \in Digests \cup {None}, ReplaceInput(p, bytes),
           NEW q \in Paths, NEW s \in Stamps, NEW c \in Catalogs, Current(c, q, s)
    PROVE  Current(c, q, s)'
<1>1. s \in Nat /\ c.readAt \in Nat
  BY ConstantsAssumption DEF Catalogs, Stamps
<1> QED
  BY <1>1, ReplacedIsNewer DEF Current

\* Replacing an input makes no catalog wrong about the stamp it was read at.
LEMMA CurrentInvReplace ==
    ASSUME TypeInv, CurrentInv, NEW p \in Paths, NEW bytes \in Digests \cup {None},
           ReplaceInput(p, bytes)
    PROVE  CurrentInv'
<1> USE DEF CurrentInv
<1>1. UNCHANGED <<pc, job, key, catalog, child, catalogCache>>
  BY DEF ReplaceInput, requestVars, cacheVars
<1>2. \A f \in Futures : pc[f] # "free" => job[f].path \in Paths /\ key[f] \in Stamps
  BY PathOfJob DEF TypeInv, TypeOK, JobsAreGiven
<1>3. \A f \in Futures : child[f].stamp \in Nat /\ key[f] \in Nat
  BY ConstantsAssumption DEF TypeInv, TypeOK, Inputs, Stamps
<1>4. KeyIsOfThePast'
  <2> SUFFICES ASSUME NEW f \in Futures, pc[f] \in {"lookup", "list_start"}
               PROVE  key[f] <= input'[job[f].path].stamp
    BY <1>1 DEF KeyIsOfThePast, StampOfJob
  <2>1. key[f] <= input[job[f].path].stamp
    BY DEF KeyIsOfThePast, StampOfJob
  <2> QED
    BY <1>2, <1>3, <2>1, ReplacedIsNewer
<1>5. HashIsCurrent'
  <2> SUFFICES ASSUME NEW f \in Futures, pc[f] = "list_parse"
               PROVE  /\ key[f] <= child[f].stamp
                      /\ child[f].stamp <= input'[job[f].path].stamp
                      /\ child[f].stamp = input'[job[f].path].stamp =>
                            child[f].bytes = input'[job[f].path].bytes
    BY <1>1 DEF HashIsCurrent, StampOfJob
  <2>1. /\ key[f] <= child[f].stamp
        /\ child[f].stamp <= input[job[f].path].stamp
        /\ child[f].stamp = input[job[f].path].stamp => child[f].bytes = input[job[f].path].bytes
    BY DEF HashIsCurrent, StampOfJob
  <2>2. job[f].path \in Paths
    BY <1>2
  <2> QED
    BY <1>3, <2>1, <2>2, ReplacedIsNewer
<1>6. NoStaleCatalog'
  <2> SUFFICES ASSUME NEW f \in Futures, pc[f] \in WithCatalog
               PROVE  Current(catalog[f], job[f].path, key[f])'
    BY <1>1 DEF NoStaleCatalog, WithCatalog
  <2>1. /\ Current(catalog[f], job[f].path, key[f])
        /\ catalog[f] \in Catalogs /\ job[f].path \in Paths /\ key[f] \in Stamps
    BY <1>2 DEF NoStaleCatalog, WithCatalog, TypeInv, CatalogsAreHeld
  <2> QED
    BY <1>1, <2>1, CurrentIsKept DEF Current
<1>7. CachedCatalogIsCurrent'
  <2> SUFFICES ASSUME NEW q \in Paths, NEW s \in Stamps, catalogCache[<<q, s>>] # None
               PROVE  Current(catalogCache[<<q, s>>], q, s)'
    BY <1>1 DEF CachedCatalogIsCurrent
  <2>1. Current(catalogCache[<<q, s>>], q, s) /\ catalogCache[<<q, s>>] \in Catalogs
    BY DEF CachedCatalogIsCurrent, TypeInv, TypeOK
  <2> QED
    BY <1>1, <2>1, CurrentIsKept DEF Current
<1> QED
  BY <1>4, <1>5, <1>6, <1>7

\* Every other step leaves the input as it is, and moves one call.
LEMMA CurrentInvWorker ==
    ASSUME TypeInv, CurrentInv, NEW f \in Futures, Worker(f)
    PROVE  CurrentInv'
<1> USE DEF CurrentInv, flagVars, requestVars, cacheVars
<1>1. /\ UNCHANGED <<input, job>>
      /\ \A g \in Futures \ {f} : /\ pc'[g] = pc[g] /\ key'[g] = key[g]
                                  /\ catalog'[g] = catalog[g] /\ child'[g] = child[g]
  BY DEF Worker, FileKey, LookupCatalog, StoreCatalog, LookupObject, StoreObject, CheckFormat,
         ListStart, GetStart, StartsAndHashes, ListParse, GetRefuses, GetParse, CommandFails,
         ChildEnds, Goto, Spawn, TypeInv, TypeOK
<1>2. job[f].path \in Paths /\ key[f] \in Stamps /\ StampOfJob(f) \in Nat /\ key[f] \in Nat
  BY PathOfJob, ConstantsAssumption
     DEF Worker, FileKey, LookupCatalog, StoreCatalog, LookupObject, StoreObject, CheckFormat,
         ListStart, GetStart, ListParse, GetRefuses, GetParse, CommandFails, Starting, InChild,
         TypeInv, TypeOK, JobsAreGiven, Inputs, Stamps, StampOfJob
<1>3. SUFFICES
        /\ pc'[f] \in {"lookup", "list_start"} => key'[f] <= StampOfJob(f)
        /\ pc'[f] = "list_parse" =>
              /\ key'[f] <= child'[f].stamp
              /\ child'[f].stamp <= StampOfJob(f)
              /\ child'[f].stamp = StampOfJob(f) => child'[f].bytes = input[job[f].path].bytes
        /\ pc'[f] \in WithCatalog => Current(catalog'[f], job[f].path, key'[f])
        /\ CachedCatalogIsCurrent'
  BY <1>1 DEF KeyIsOfThePast, HashIsCurrent, NoStaleCatalog, StampOfJob, WithCatalog, Current
<1>4. CASE FileKey(f)
  <2>1. pc'[f] \in {"raised", "lookup"} /\ UNCHANGED catalogCache
    BY <1>4 DEF FileKey, Goto, TypeInv, TypeOK
  <2>2. pc'[f] = "lookup" => key'[f] = StampOfJob(f)
    BY <1>4 DEF FileKey, Goto, StampOfJob, TypeInv, TypeOK
  <2> QED
    BY <1>1, <1>2, <2>1, <2>2 DEF WithCatalog, CachedCatalogIsCurrent, Current
<1>5. CASE LookupCatalog(f)
  <2> DEFINE cached == catalogCache[<<job[f].path, key[f]>>]
  <2>1. UNCHANGED <<key, child, catalogCache>> /\ pc[f] = "lookup"
    BY <1>5 DEF LookupCatalog
  <2>2. CASE cached # None
    <3>1. catalog'[f] = cached /\ pc'[f] \in {"done", "catalog_ready"}
      BY <1>5, <2>2 DEF LookupCatalog, AfterCatalog, Goto, TypeInv, TypeOK
    <3>2. Current(cached, job[f].path, key[f])
      BY <1>2, <2>2 DEF CachedCatalogIsCurrent
    <3> QED
      BY <1>1, <2>1, <3>1, <3>2 DEF CachedCatalogIsCurrent, Current
  <2>3. CASE cached = None
    <3>1. pc'[f] \in {"raised", "list_start"}
      BY <1>5, <2>3 DEF LookupCatalog, Spawn, Goto, TypeInv, TypeOK
    <3>2. key[f] <= StampOfJob(f)
      BY <2>1 DEF KeyIsOfThePast
    <3> QED
      BY <1>1, <2>1, <3>1, <3>2 DEF CachedCatalogIsCurrent, Current, WithCatalog
  <2> QED
    BY <2>2, <2>3
<1>6. CASE StoreCatalog(f)
  <2>1. /\ UNCHANGED <<key, child, catalog>> /\ pc[f] = "list_store"
        /\ pc'[f] \in {"done", "catalog_ready"}
    BY <1>6 DEF StoreCatalog, AfterCatalog, Goto, TypeInv, TypeOK
  <2>2. Current(catalog[f], job[f].path, key[f])
    BY <2>1 DEF NoStaleCatalog
  <2>3. CachedCatalogIsCurrent'
    <3> SUFFICES ASSUME NEW q \in Paths, NEW s \in Stamps, catalogCache'[<<q, s>>] # None
                 PROVE  Current(catalogCache'[<<q, s>>], q, s)
      BY <1>1 DEF CachedCatalogIsCurrent, Current
    <3>1. CASE <<q, s>> = <<job[f].path, key[f]>>
      <4>1. catalogCache'[<<q, s>>] = catalog[f]
        BY <1>2, <1>6, <3>1 DEF StoreCatalog, TypeInv, TypeOK
      <4> QED
        BY <2>2, <3>1, <4>1
    <3>2. CASE <<q, s>> # <<job[f].path, key[f]>>
      <4>1. catalogCache'[<<q, s>>] = catalogCache[<<q, s>>]
        BY <1>6, <3>2 DEF StoreCatalog, TypeInv, TypeOK
      <4> QED
        BY <4>1 DEF CachedCatalogIsCurrent
    <3> QED
      BY <3>1, <3>2
  <2> QED
    BY <2>1, <2>2, <2>3
<1>7. CASE ListStart(f)
  <2>1. /\ UNCHANGED <<key, catalogCache>> /\ pc[f] = "list_start"
        /\ pc'[f] = "list_parse" /\ child'[f] = input[job[f].path]
    BY <1>7 DEF ListStart, StartsAndHashes, Goto, TypeInv, TypeOK
  <2>2. key[f] <= StampOfJob(f)
    BY <2>1 DEF KeyIsOfThePast
  <2> QED
    BY <1>1, <1>2, <2>1, <2>2 DEF StampOfJob, WithCatalog, CachedCatalogIsCurrent, Current
<1>8. CASE ListParse(f)
  <2>1. /\ UNCHANGED <<key, catalogCache>> /\ pc[f] = "list_parse" /\ pc'[f] = "list_store"
        /\ catalog'[f] = [document |-> child[f].bytes, content |-> input[job[f].path].bytes,
                          readAt |-> child[f].stamp]
    BY <1>8 DEF ListParse, Goto, TypeInv, TypeOK
  <2>2. /\ key[f] <= child[f].stamp
        /\ child[f].stamp <= StampOfJob(f)
        /\ child[f].stamp = StampOfJob(f) => child[f].bytes = input[job[f].path].bytes
    BY <2>1 DEF HashIsCurrent
  <2>3. Current(catalog'[f], job[f].path, key[f])
    BY <2>1, <2>2 DEF Current, StampOfJob
  <2> QED
    BY <1>1, <2>1, <2>3 DEF CachedCatalogIsCurrent, Current
<1>9. CASE \/ LookupObject(f) \/ StoreObject(f) \/ CheckFormat(f) \/ GetStart(f)
           \/ GetRefuses(f) \/ GetParse(f)
  <2>1. /\ UNCHANGED <<key, catalog, catalogCache>> /\ pc[f] \in WithCatalog
        /\ pc'[f] \in WithCatalog \cup {"raised", "done"}
        /\ pc'[f] \notin {"lookup", "list_start", "list_parse"}
    BY <1>9 DEF LookupObject, StoreObject, CheckFormat, GetStart, StartsAndHashes, GetRefuses, GetParse,
                AfterGet, Spawn, Goto, WithCatalog, TypeInv, TypeOK
  <2>2. Current(catalog[f], job[f].path, key[f])
    BY <2>1 DEF NoStaleCatalog, WithCatalog
  <2> QED
    BY <1>1, <2>1, <2>2 DEF CachedCatalogIsCurrent, Current
<1>10. CASE CommandFails(f)
  <2>1. UNCHANGED <<key, catalog, catalogCache>> /\ pc'[f] = "raised"
    BY <1>10 DEF CommandFails, Goto, TypeInv, TypeOK
  <2> QED
    BY <1>1, <2>1 DEF WithCatalog, CachedCatalogIsCurrent, Current
<1> QED
  BY <1>4, <1>5, <1>6, <1>7, <1>8, <1>9, <1>10 DEF Worker

\* Submitting, taking and closing leave the catalogs alone.
LEMMA CurrentInvQueue ==
    ASSUME TypeInv, CurrentInv,
           Close \/ ShutDown \/ Drain \/ Take \/ \E f \in Futures, j \in Jobs : Enqueue(f, j)
    PROVE  CurrentInv'
<1> USE DEF CurrentInv, cacheVars
<1>1. UNCHANGED <<input, key, catalog, child, catalogCache>>
  BY DEF Close, ShutDown, Drain, Take, Enqueue, requestVars
<1>2. \A g \in Futures :
          pc'[g] \in WithCatalog \cup {"lookup", "list_start", "list_parse"} =>
              pc[g] = pc'[g] /\ job'[g] = job[g]
  <2>1. CASE Close \/ ShutDown
    BY <2>1 DEF Close, ShutDown, requestVars
  <2>2. CASE Take \/ Drain
    <3>1. /\ \E step \in {"stat", "cancelled"} : pc' = [pc EXCEPT ![Head(queue)] = step]
          /\ job' = job
      BY <2>2 DEF Take, Drain, Goto
    <3> QED
      BY <3>1 DEF WithCatalog, TypeInv, TypeOK
  <2>3. ASSUME NEW f \in Futures, NEW j \in Jobs, Enqueue(f, j)
        PROVE  \A g \in Futures :
                   pc'[g] \in WithCatalog \cup {"lookup", "list_start", "list_parse"} =>
                       pc[g] = pc'[g] /\ job'[g] = job[g]
    BY <2>3 DEF Enqueue, Goto, WithCatalog, TypeInv, TypeOK
  <2> QED
    BY <2>1, <2>2, <2>3
<1> QED
  BY <1>1, <1>2
     DEF KeyIsOfThePast, HashIsCurrent, NoStaleCatalog, CachedCatalogIsCurrent, StampOfJob,
         WithCatalog, Current

\* What is known of the inputs is inductive, given the type invariant.
LEMMA CurrentInvNext == TypeInv /\ CurrentInv /\ [Next]_vars => CurrentInv'
<1> SUFFICES ASSUME TypeInv, CurrentInv, [Next]_vars PROVE CurrentInv'
  OBVIOUS
<1>1. CASE \E p \in Written, bytes \in Digests \cup {None} : ReplaceInput(p, bytes)
  BY <1>1, CurrentInvReplace, ConstantsAssumption
<1>2. ASSUME NEW f \in Futures, Submit(f) PROVE CurrentInv'
  <2>1. PICK j \in Jobs : Enqueue(f, j)
    BY <1>2, SubmittedJob
  <2> QED
    BY <2>1, CurrentInvQueue
<1>3. ASSUME NEW f \in Futures, Worker(f) PROVE CurrentInv'
  BY <1>3, CurrentInvWorker
<1>4. CASE UNCHANGED vars
  BY <1>4 DEF vars, flagVars, requestVars, cacheVars, CurrentInv, KeyIsOfThePast, HashIsCurrent,
              NoStaleCatalog, CachedCatalogIsCurrent, StampOfJob, Current
<1> QED
  BY <1>1, <1>2, <1>3, <1>4, CurrentInvQueue DEF Next, Exited

\* A catalog cached under the identity a file has now describes the bytes of that file,
\* however the calls, the replacements and the subprocesses interleave.
THEOREM CachedCatalogsAreCurrent == Spec => []CachedCatalogIsCurrent
<1>1. CurrentInv => CachedCatalogIsCurrent
  BY DEF CurrentInv
<1> QED
  BY <1>1, TypeInvInit, TypeInvNext, CurrentInvInit, CurrentInvNext, PTL DEF Spec

\* No call is answered from a catalog older than the identity it read itself.
THEOREM AnswersAreNotStale == Spec => []NoStaleCatalog
<1>1. CurrentInv => NoStaleCatalog
  BY DEF CurrentInv
<1> QED
  BY <1>1, TypeInvInit, TypeInvNext, CurrentInvInit, CurrentInvNext, PTL DEF Spec
-----------------------------------------------------------------------------
(***************************************************************************)
(* No content of other bytes.  While inputs are stable under a command,    *)
(* what it parses is what it hashed, and cmd_get only materializes an      *)
(* item whose id was made for those bytes.                                 *)
(***************************************************************************)
ChildReadsWhatItHashed ==
    \A f \in Futures :
        pc[f] \in {"list_parse", "get_parse"} => child[f].bytes = input[job[f].path].bytes

NothingIsAnsweredBeforeAsked ==
    \A f \in Futures : pc[f] = "free" => object[f] = None /\ written[f] = None

\* A payload that is about to be cached fits the key it will be cached under.
StoredObjectFits ==
    \A f \in Futures :
        pc[f] = "get_store" =>
            /\ object[f].item = job[f].item
            /\ object[f].content \in {catalog[f].document, None}
            /\ object[f].content = catalog[f].document => job[f].item.digest = catalog[f].document

ContentInv ==
    /\ ChildReadsWhatItHashed
    /\ NothingIsAnsweredBeforeAsked
    /\ StoredObjectFits
    /\ CachedContentIsOfItsDigest
    /\ AnswerIsOfTheItemAsked

\* The first state holds no content.
LEMMA ContentInvInit == Init => ContentInv
BY DEF Init, ContentInv, ChildReadsWhatItHashed, NothingIsAnsweredBeforeAsked, StoredObjectFits,
       CachedContentIsOfItsDigest, AnswerIsOfTheItemAsked

\* Where inputs are stable, a replacement leaves every running command its bytes.
LEMMA ContentInvReplace ==
    ASSUME TypeInv, ContentInv, stable,
           NEW p \in Paths, NEW bytes \in Digests \cup {None}, ReplaceInput(p, bytes)
    PROVE  ContentInv'
<1> USE DEF ContentInv
<1>1. UNCHANGED <<pc, job, catalog, child, object, written, objectCache>>
  BY DEF ReplaceInput, requestVars, cacheVars
<1>2. ChildReadsWhatItHashed'
  <2> SUFFICES ASSUME NEW f \in Futures, pc[f] \in {"list_parse", "get_parse"}
               PROVE  child[f].bytes = input'[job[f].path].bytes
    BY <1>1 DEF ChildReadsWhatItHashed
  <2>1. job[f].path # p /\ job[f].path \in Paths
    BY PathOfJob DEF ReplaceInput, Starting, InChild, TypeInv, JobsAreGiven
  <2>2. input'[job[f].path] = input[job[f].path]
    BY <2>1 DEF ReplaceInput, TypeInv, TypeOK
  <2> QED
    BY <2>2 DEF ChildReadsWhatItHashed
<1> QED
  BY <1>1, <1>2 DEF NothingIsAnsweredBeforeAsked, StoredObjectFits, CachedContentIsOfItsDigest,
                    AnswerIsOfTheItemAsked

\* Submitting, taking and closing leave the objects alone.
LEMMA ContentInvQueue ==
    ASSUME TypeInv, ContentInv, stable,
           Close \/ ShutDown \/ Drain \/ Take \/ \E f \in Futures, j \in Jobs : Enqueue(f, j)
    PROVE  ContentInv'
<1> USE DEF ContentInv, cacheVars
<1>1. UNCHANGED <<input, catalog, child, object, written, objectCache>>
  BY DEF Close, ShutDown, Drain, Take, Enqueue, requestVars
<1>2. \A g \in Futures :
          /\ pc'[g] \in {"list_parse", "get_parse", "get_store", "free"} => pc[g] = pc'[g]
          /\ pc[g] # "free" => job'[g] = job[g]
          /\ job'[g] # job[g] => pc[g] = "free" /\ pc'[g] = "queued"
  <2>1. CASE Close \/ ShutDown
    BY <2>1 DEF Close, ShutDown, requestVars
  <2>2. CASE Take \/ Drain
    <3>1. /\ \E step \in {"stat", "cancelled"} : pc' = [pc EXCEPT ![Head(queue)] = step]
          /\ job' = job
      BY <2>2 DEF Take, Drain, Goto
    <3> QED
      BY <3>1 DEF TypeInv, TypeOK
  <2>3. ASSUME NEW f \in Futures, NEW j \in Jobs, Enqueue(f, j)
        PROVE  \A g \in Futures :
                   /\ pc'[g] \in {"list_parse", "get_parse", "get_store", "free"} => pc[g] = pc'[g]
                   /\ pc[g] # "free" => job'[g] = job[g]
                   /\ job'[g] # job[g] => pc[g] = "free" /\ pc'[g] = "queued"
    BY <2>3 DEF Enqueue, Goto, TypeInv, TypeOK
  <2> QED
    BY <2>1, <2>2, <2>3
<1>3. ChildReadsWhatItHashed' /\ NothingIsAnsweredBeforeAsked' /\ StoredObjectFits'
  BY <1>1, <1>2 DEF ChildReadsWhatItHashed, NothingIsAnsweredBeforeAsked, StoredObjectFits
<1>4. CachedContentIsOfItsDigest'
  BY <1>1 DEF CachedContentIsOfItsDigest
<1>5. AnswerIsOfTheItemAsked'
  BY <1>1, <1>2 DEF AnswerIsOfTheItemAsked, NothingIsAnsweredBeforeAsked
<1> QED
  BY <1>3, <1>4, <1>5

\* A step of a worker or of a subprocess stores and answers only what was asked for.
LEMMA ContentInvWorker ==
    ASSUME TypeInv, ContentInv, stable, NEW f \in Futures, Worker(f)
    PROVE  ContentInv'
<1> USE DEF ContentInv, flagVars, requestVars, cacheVars
<1>1. /\ UNCHANGED <<input, job>>
      /\ \A g \in Futures \ {f} :
            /\ pc'[g] = pc[g] /\ catalog'[g] = catalog[g] /\ child'[g] = child[g]
            /\ object'[g] = object[g] /\ written'[g] = written[g]
      /\ pc[f] \in Running /\ pc'[f] # "free"
  <2>1. UNCHANGED <<input, job>> /\ pc[f] \in Running
    BY DEF Worker, FileKey, LookupCatalog, StoreCatalog, LookupObject, StoreObject, CheckFormat,
           ListStart, GetStart, StartsAndHashes, ListParse, GetRefuses, GetParse, CommandFails,
           Running, Starting, InChild
  <2>3. pc'[f] # "free"
    BY DEF Worker, FileKey, LookupCatalog, StoreCatalog, LookupObject, StoreObject, CheckFormat,
           ListStart, GetStart, StartsAndHashes, ListParse, GetRefuses, GetParse, CommandFails,
           Goto, Spawn, AfterGet, AfterCatalog, TypeInv, TypeOK
  <2>2. \A g \in Futures \ {f} : pc'[g] = pc[g] /\ catalog'[g] = catalog[g]
    BY DEF Worker, FileKey, LookupCatalog, StoreCatalog, LookupObject, StoreObject, CheckFormat,
           ListStart, GetStart, StartsAndHashes, ListParse, GetRefuses, GetParse, CommandFails,
           Goto, Spawn, TypeInv, TypeOK
  <2>4. \A g \in Futures \ {f} : child'[g] = child[g] /\ object'[g] = object[g]
    BY DEF Worker, FileKey, LookupCatalog, StoreCatalog, LookupObject, StoreObject, CheckFormat,
           ListStart, GetStart, StartsAndHashes, ListParse, GetRefuses, GetParse, CommandFails,
           ChildEnds, TypeInv, TypeOK
  <2>5. \A g \in Futures \ {f} : written'[g] = written[g]
    BY DEF Worker, FileKey, LookupCatalog, StoreCatalog, LookupObject, StoreObject, CheckFormat,
           ListStart, GetStart, StartsAndHashes, ListParse, GetRefuses, GetParse, CommandFails,
           TypeInv, TypeOK
  <2> QED
    BY <2>1, <2>2, <2>3, <2>4, <2>5
<1>2. job[f] \in Jobs /\ job[f].path \in Paths
  BY <1>1, PathOfJob DEF Running, Starting, InChild, TypeInv, JobsAreGiven
<1>3. SUFFICES
        /\ pc'[f] \in {"list_parse", "get_parse"} =>
              child'[f].bytes = input[job[f].path].bytes
        /\ pc'[f] = "get_store" =>
              /\ object'[f].item = job[f].item
              /\ object'[f].content \in {catalog'[f].document, None}
              /\ object'[f].content = catalog'[f].document =>
                    job[f].item.digest = catalog'[f].document
        /\ object'[f] # None => /\ object'[f].item = job[f].item
                                /\ object'[f].content \in {job[f].item.digest, None}
        /\ written'[f] # None => written'[f] = job[f].item.digest
        /\ CachedContentIsOfItsDigest'
  BY <1>1 DEF ChildReadsWhatItHashed, NothingIsAnsweredBeforeAsked, StoredObjectFits,
              AnswerIsOfTheItemAsked
<1>4. /\ object[f] # None => /\ object[f].item = job[f].item
                             /\ object[f].content \in {job[f].item.digest, None}
      /\ written[f] # None => written[f] = job[f].item.digest
  BY DEF AnswerIsOfTheItemAsked
<1>5. CASE \/ FileKey(f) \/ LookupCatalog(f) \/ StoreCatalog(f) \/ CheckFormat(f) \/ ListParse(f)
           \/ CommandFails(f)
  <2>1. /\ UNCHANGED <<object, written, objectCache>>
        /\ pc'[f] \notin {"list_parse", "get_parse", "get_store"}
    BY <1>5 DEF FileKey, LookupCatalog, StoreCatalog, CheckFormat, ListParse, CommandFails,
                Spawn, AfterCatalog, Goto, TypeInv, TypeOK
  <2> QED
    BY <1>4, <2>1 DEF CachedContentIsOfItsDigest
<1>6. CASE ListStart(f) \/ GetStart(f)
  <2>1. /\ UNCHANGED <<object, written, objectCache>>
        /\ pc'[f] # "get_store" /\ child'[f] = input[job[f].path]
    BY <1>6 DEF ListStart, GetStart, StartsAndHashes, Goto, TypeInv, TypeOK
  <2> QED
    BY <1>4, <2>1 DEF CachedContentIsOfItsDigest
<1>7. CASE LookupObject(f)
  <2> DEFINE cached == objectCache[<<catalog[f].document, job[f].item>>]
  <2>1. /\ UNCHANGED <<written, objectCache>> /\ pc[f] = "catalog_ready"
        /\ pc'[f] \notin {"list_parse", "get_parse", "get_store"}
        /\ object'[f] = object[f] \/ (cached # None /\ object'[f] = cached)
    BY <1>7 DEF LookupObject, Spawn, Goto, TypeInv, TypeOK
  <2>2. catalog[f].document \in Digests /\ job[f].item \in Items
    BY <1>2, <1>7, ItemOfJob
       DEF LookupObject, TypeInv, CatalogsAreHeld, WithCatalog, Catalogs
  <2>3. cached # None => cached.item = job[f].item /\ cached.content \in {job[f].item.digest, None}
    BY <2>2 DEF CachedContentIsOfItsDigest
  <2> QED
    BY <1>4, <2>1, <2>3 DEF CachedContentIsOfItsDigest
<1>8. CASE StoreObject(f)
  <2>1. /\ UNCHANGED <<object, written, catalog>> /\ pc[f] = "get_store" /\ pc'[f] = "done"
        /\ objectCache' =
              [objectCache EXCEPT ![<<catalog[f].document, job[f].item>>] = object[f]]
    BY <1>8 DEF StoreObject, Goto, TypeInv, TypeOK
  <2>2. CachedContentIsOfItsDigest'
    <3> SUFFICES ASSUME NEW d \in Digests, NEW i \in Items, objectCache'[<<d, i>>] # None
                 PROVE  /\ objectCache'[<<d, i>>].item = i
                        /\ objectCache'[<<d, i>>].content \in {d, None}
                        /\ objectCache'[<<d, i>>].content = d => i.digest = d
      BY DEF CachedContentIsOfItsDigest
    <3>1. CASE <<d, i>> = <<catalog[f].document, job[f].item>>
      <4>1. objectCache'[<<d, i>>] = object[f]
        BY <2>1, <3>1 DEF TypeInv, TypeOK
      <4>2. d = catalog[f].document /\ i = job[f].item
        BY <3>1
      <4> QED
        BY <2>1, <4>1, <4>2 DEF StoredObjectFits
    <3>2. CASE <<d, i>> # <<catalog[f].document, job[f].item>>
      <4>1. objectCache'[<<d, i>>] = objectCache[<<d, i>>]
        BY <2>1, <3>2 DEF TypeInv, TypeOK
      <4> QED
        BY <4>1 DEF CachedContentIsOfItsDigest
    <3> QED
      BY <3>1, <3>2
  <2> QED
    BY <1>4, <2>1, <2>2
<1>9. CASE GetRefuses(f)
  <2>1. /\ UNCHANGED <<written, catalog, objectCache>> /\ pc[f] = "get_parse"
        /\ object'[f] = FailurePayload(job[f].item)
        /\ pc'[f] \in {"get_store", "done"}
    BY <1>9 DEF GetRefuses, AfterGet, Goto, TypeInv, TypeOK
  <2>2. object'[f].item = job[f].item /\ object'[f].content = None
    BY <2>1 DEF FailurePayload
  <2>3. catalog[f].document # None
    BY <2>1, ConstantsAssumption DEF TypeInv, CatalogsAreHeld, WithCatalog, Catalogs
  <2> QED
    BY <1>4, <2>1, <2>2, <2>3 DEF CachedContentIsOfItsDigest
<1>10. CASE GetParse(f)
  <2>1. /\ UNCHANGED <<catalog, objectCache>> /\ pc[f] = "get_parse"
        /\ SuppliedCatalogFits(f)
        /\ object'[f] = [status |-> "ok", document |-> child[f].bytes,
                         item |-> job[f].item, content |-> input[job[f].path].bytes]
        /\ written'[f] \in {written[f], input[job[f].path].bytes}
        /\ pc'[f] \in {"get_store", "done"}
    BY <1>10 DEF GetParse, AfterGet, Goto, TypeInv, TypeOK
  <2>2. child[f].bytes = input[job[f].path].bytes
    BY <2>1 DEF ChildReadsWhatItHashed
  <2>3. catalog[f].document = child[f].bytes /\ job[f].item.digest = child[f].bytes
    BY <2>1 DEF SuppliedCatalogFits
  <2> QED
    BY <1>4, <2>1, <2>2, <2>3 DEF CachedContentIsOfItsDigest
<1> QED
  BY <1>5, <1>6, <1>7, <1>8, <1>9, <1>10 DEF Worker

\* The contents held are inductive, given the type invariant.
LEMMA ContentInvNext ==
    TypeInv /\ stable /\ ContentInv /\ [Next]_vars => ContentInv'
<1> SUFFICES ASSUME TypeInv, stable, ContentInv, [Next]_vars PROVE ContentInv'
  OBVIOUS
<1>1. CASE \E p \in Written, bytes \in Digests \cup {None} : ReplaceInput(p, bytes)
  BY <1>1, ContentInvReplace, ConstantsAssumption
<1>2. ASSUME NEW f \in Futures, Submit(f) PROVE ContentInv'
  <2>1. PICK j \in Jobs : Enqueue(f, j)
    BY <1>2, SubmittedJob
  <2> QED
    BY <2>1, ContentInvQueue
<1>3. ASSUME NEW f \in Futures, Worker(f) PROVE ContentInv'
  BY <1>3, ContentInvWorker
<1>4. CASE UNCHANGED vars
  BY <1>4 DEF vars, flagVars, requestVars, cacheVars, ContentInv, ChildReadsWhatItHashed,
              NothingIsAnsweredBeforeAsked, StoredObjectFits, CachedContentIsOfItsDigest,
              AnswerIsOfTheItemAsked
<1> QED
  BY <1>1, <1>2, <1>3, <1>4, ContentInvQueue DEF Next, Exited

\* What other programs do is assumed once and for all.
LEMMA StableIsKept == [Next]_vars => stable' = stable
BY DEF Next, ReplaceInput, Submit, SubmitCatalog, SubmitGet, SubmitExport, Enqueue, Close, ShutDown,
       Drain, Take, Worker, FileKey, LookupCatalog, StoreCatalog, LookupObject, StoreObject,
       CheckFormat, ListStart, GetStart, StartsAndHashes, ListParse, GetRefuses, GetParse,
       CommandFails, Exited, vars, flagVars

StableContentInv == stable => ContentInv

\* Where inputs are stable the contents held are inductive.
LEMMA StableContentInvNext == TypeInv /\ StableContentInv /\ [Next]_vars => StableContentInv'
BY StableIsKept, ContentInvNext DEF StableContentInv

\* Where inputs do not change under a running command, get and export_item never deliver
\* or write the content of other bytes than those the requested item id was made for.
THEOREM AnswersAreOfTheItemAsked == Spec => []AnswerIsOfTheItemAsked
<1>1. Init => StableContentInv
  BY ContentInvInit DEF StableContentInv
<1>2. StableContentInv => AnswerIsOfTheItemAsked
  BY DEF StableContentInv, ContentInv, AnswerIsOfTheItemAsked
<1> QED
  BY <1>1, <1>2, TypeInvInit, TypeInvNext, StableContentInvNext, PTL DEF Spec

\* The content in the object cache is that of its digest and its item.
THEOREM CachedContentFits == Spec => []CachedContentIsOfItsDigest
<1>1. Init => StableContentInv
  BY ContentInvInit DEF StableContentInv
<1>2. StableContentInv => CachedContentIsOfItsDigest
  BY DEF StableContentInv, ContentInv, CachedContentIsOfItsDigest
<1> QED
  BY <1>1, <1>2, TypeInvInit, TypeInvNext, StableContentInvNext, PTL DEF Spec
-----------------------------------------------------------------------------
(***************************************************************************)
(* Closing.  A call comes to a subprocess only through _run, which tests   *)
(* _closed; what the pool still hands out after that is of no consequence. *)
(***************************************************************************)

\* Once the backend is closed the calls that run or start a subprocess only get fewer.
THEOREM ClosedStartsNothing == Spec => NoNewCommandsOnceClosed
<1>1. TypeInv /\ [Next]_vars => [closed => Commanding' \subseteq Commanding]_vars
  <2> SUFFICES ASSUME TypeInv, Next, closed, NEW g \in Futures,
                      pc'[g] \in Starting \cup InChild
               PROVE  pc[g] \in Starting \cup InChild
    BY DEF Commanding, vars
  <2>1. CASE \/ \E p \in Written, bytes \in Digests \cup {None} : ReplaceInput(p, bytes)
             \/ Close \/ ShutDown \/ Exited
    BY <2>1 DEF ReplaceInput, Close, ShutDown, Exited, vars
  <2>2. CASE Take \/ Drain
    <3>1. PICK f \in Futures, step \in {"stat", "cancelled"} : pc' = [pc EXCEPT ![f] = step]
      BY <2>2 DEF Take, Drain, Goto, TypeInv, TypeOK
    <3> QED
      BY <3>1 DEF Starting, InChild, TypeInv, TypeOK
  <2>3. ASSUME NEW f \in Futures, Submit(f) PROVE pc[g] \in Starting \cup InChild
    BY <2>3, SubmittedJob DEF Enqueue, Goto, Starting, InChild, TypeInv, TypeOK
  <2>4. ASSUME NEW f \in Futures, Worker(f) PROVE pc[g] \in Starting \cup InChild
    <3>1. CASE g # f
      BY <2>4, <3>1
         DEF Worker, FileKey, LookupCatalog, StoreCatalog, LookupObject, StoreObject, CheckFormat,
             ListStart, GetStart, StartsAndHashes, ListParse, GetRefuses, GetParse, CommandFails,
             Goto, Spawn, TypeInv, TypeOK
    <3>2. CASE g = f
      BY <2>4, <3>2
         DEF Worker, FileKey, LookupCatalog, StoreCatalog, LookupObject, StoreObject, CheckFormat,
             ListStart, GetStart, StartsAndHashes, ListParse, GetRefuses, GetParse, CommandFails,
             Goto, Spawn, AfterCatalog, AfterGet, Starting, InChild, TypeInv, TypeOK
    <3> QED
      BY <3>1, <3>2
  <2> QED
    BY <2>1, <2>2, <2>3, <2>4 DEF Next
<1> QED
  BY <1>1, TypeInvInit, TypeInvNext, PTL DEF Spec, NoNewCommandsOnceClosed
-----------------------------------------------------------------------------
(***************************************************************************)
(* The backend implements the retrieval service: each of its steps is a    *)
(* step of the service, or one the service does not see.                   *)
(***************************************************************************)
Open == Running \cup {"queued"}

StateFor(step) ==
    CASE step = "free" -> "free"
      [] step = "done" -> "answered"
      [] step = "raised" -> "failed"
      [] step = "cancelled" -> "cancelled"
      [] OTHER -> "open"

\* What the service sees of a call depends on its step alone.
LEMMA StateIsOfStep == \A f \in Futures : ServiceState[f] = StateFor(pc[f])
BY DEF ServiceState, StateFor

\* The same in the next state.
LEMMA StateIsOfStepNext == \A f \in Futures : ServiceState'[f] = StateFor(pc'[f])
BY DEF ServiceState, StateFor

\* A queued or running call is open to the service, and not answered.
LEMMA OpenSteps == \A step \in Open : StateFor(step) = "open" /\ step # "done"
BY DEF Open, Running, Starting, InChild, StateFor

\* The first state of the backend is a first state of the service.
LEMMA ServiceInit == Init => Service!Init
BY DEF Init, Service!Init, ServiceState, ServiceAnswer

\* A step of a worker leaves what the service sees of the other calls.
LEMMA OthersAreUnseen ==
    ASSUME TypeInv, NEW f \in Futures, Worker(f)
    PROVE  /\ pc[f] \in Running /\ pc'[f] \in Running \cup {"done", "raised"}
           /\ UNCHANGED <<shutdown, job>>
           /\ \A g \in Futures \ {f} : /\ ServiceState'[g] = ServiceState[g]
                                       /\ ServiceAnswer'[g] = ServiceAnswer[g]
<1> USE DEF flagVars, requestVars, cacheVars
<1>1. /\ pc[f] \in Running /\ pc'[f] \in Running \cup {"done", "raised"}
      /\ UNCHANGED <<shutdown, job>>
      /\ \A g \in Futures \ {f} :
            pc'[g] = pc[g] /\ catalog'[g] = catalog[g] /\ object'[g] = object[g]
  BY DEF Worker, FileKey, LookupCatalog, StoreCatalog, LookupObject, StoreObject, CheckFormat,
         ListStart, GetStart, StartsAndHashes, ListParse, GetRefuses, GetParse, CommandFails,
         ChildEnds, Goto, Spawn, AfterGet, AfterCatalog, Running, Starting, InChild, TypeInv, TypeOK
<1> QED
  BY <1>1 DEF ServiceState, ServiceAnswer

\* A call that is done has an answer the service allows.
LEMMA AnswerIsAllowed ==
    ASSUME stable, TypeInv, ContentInv, NEW f \in Futures, Worker(f), pc'[f] = "done"
    PROVE  ServiceAnswer'[f] \in Asked[job[f]] \cup {None}
<1> USE DEF ContentInv, flagVars, requestVars, cacheVars
<1>1. job[f] \in Jobs /\ job' = job /\ pc[f] \in Running
  BY OthersAreUnseen DEF TypeInv, JobsAreGiven, Running, Starting, InChild
<1>2. TypeInv' /\ ContentInv'
  BY TypeInvNext, ContentInvNext DEF Next
<1>3. CASE job[f].kind = "catalog"
  <2>1. catalog'[f] \in Catalogs
    BY <1>2 DEF TypeInv, CatalogsAreHeld, WithCatalog
  <2> QED
    BY <1>1, <1>3, <2>1 DEF ServiceAnswer, Asked, Catalogs
<1>4. CASE job[f].kind # "catalog"
  <2>1. Asked[job[f]] = {job[f].item.digest}
    BY <1>1, <1>4 DEF Asked
  <2>2. ServiceAnswer'[f] = object'[f].content
    BY <1>1, <1>4 DEF ServiceAnswer
  <2>3. object'[f].content \in {job[f].item.digest, None}
    <3>1. CASE LookupObject(f)
      <4>1. object'[f] # None
        BY <3>1 DEF LookupObject, Spawn, Goto, TypeInv, TypeOK
      <4> QED
        BY <1>1, <1>2, <4>1, StableIsKept DEF AnswerIsOfTheItemAsked, Next
    <3>2. CASE StoreObject(f)
      BY <3>2 DEF StoreObject, StoredObjectFits
    <3>3. CASE GetRefuses(f)
      BY <3>3 DEF GetRefuses, FailurePayload, TypeInv, TypeOK
    <3>4. CASE GetParse(f)
      BY <3>4 DEF GetParse, SuppliedCatalogFits, ChildReadsWhatItHashed, TypeInv, TypeOK
    <3>5. CASE \/ FileKey(f) \/ LookupCatalog(f) \/ StoreCatalog(f) \/ CheckFormat(f)
               \/ ListStart(f) \/ GetStart(f) \/ ListParse(f) \/ CommandFails(f)
      BY <1>4, <3>5
         DEF FileKey, LookupCatalog, StoreCatalog, CheckFormat, ListStart, GetStart, StartsAndHashes,
             ListParse, CommandFails, Spawn, AfterCatalog, Goto, TypeInv, TypeOK
    <3> QED
      BY <3>1, <3>2, <3>3, <3>4, <3>5 DEF Worker
  <2> QED
    BY <2>1, <2>2, <2>3
<1> QED
  BY <1>3, <1>4

\* A step of a worker answers the call, fails it, or is not seen by the service.
LEMMA ServiceWorker ==
    ASSUME stable, TypeInv, ContentInv, NEW f \in Futures, Worker(f)
    PROVE  [Service!Next]_(Service!vars)
<1>1. /\ ServiceState = [g \in Futures |-> ServiceState[g]]
      /\ ServiceAnswer = [g \in Futures |-> ServiceAnswer[g]]
      /\ ServiceState' = [g \in Futures |-> ServiceState'[g]]
      /\ ServiceAnswer' = [g \in Futures |-> ServiceAnswer'[g]]
  BY DEF ServiceState, ServiceAnswer
<1>2. ServiceState[f] = "open" /\ ServiceAnswer[f] = None
  BY OthersAreUnseen, StateIsOfStep, OpenSteps DEF ServiceAnswer, Open
<1>3. CASE pc'[f] \in Running
  <2>1. ServiceState'[f] = "open" /\ ServiceAnswer'[f] = None
    BY <1>3, StateIsOfStepNext, OpenSteps DEF ServiceAnswer, Open
  <2>2. ServiceState' = ServiceState /\ ServiceAnswer' = ServiceAnswer
    BY <1>1, <1>2, <2>1, OthersAreUnseen
  <2> QED
    BY <2>2, OthersAreUnseen DEF Service!vars
<1>4. CASE pc'[f] = "raised"
  <2>1. ServiceState'[f] = "failed" /\ ServiceAnswer'[f] = None
    BY <1>4, StateIsOfStepNext DEF ServiceAnswer, StateFor
  <2>2. /\ ServiceState' = [ServiceState EXCEPT ![f] = "failed"]
        /\ ServiceAnswer' = ServiceAnswer
    BY <1>1, <1>2, <2>1, OthersAreUnseen
  <2>3. Service!Fail(f)
    BY <1>2, <2>2, OthersAreUnseen DEF Service!Fail
  <2> QED
    BY <2>3 DEF Service!Next
<1>5. CASE pc'[f] = "done"
  <2>1. ServiceState'[f] = "answered"
    BY <1>5, StateIsOfStepNext DEF StateFor
  <2>2. ServiceState' = [ServiceState EXCEPT ![f] = "answered"]
    BY <1>1, <2>1, OthersAreUnseen
  <2>3. ServiceAnswer' = [ServiceAnswer EXCEPT ![f] = ServiceAnswer'[f]]
    BY <1>1, OthersAreUnseen
  <2>4. Service!Answer(f)
    BY <1>2, <1>5, <2>2, <2>3, AnswerIsAllowed, OthersAreUnseen DEF Service!Answer
  <2> QED
    BY <2>4 DEF Service!Next
<1> QED
  BY <1>3, <1>4, <1>5, OthersAreUnseen

\* Every step of the backend is one of the service or is not seen by it.
LEMMA ServiceNext ==
    ASSUME stable, TypeInv, ContentInv, [Next]_vars
    PROVE  [Service!Next]_(Service!vars)
<1>1. CASE \/ \E p \in Written, bytes \in Digests \cup {None} : ReplaceInput(p, bytes)
           \/ Close
           \/ UNCHANGED vars
  <2>1. UNCHANGED <<shutdown, job, pc, catalog, object>>
    BY <1>1 DEF ReplaceInput, Close, flagVars, cacheVars, requestVars, vars
  <2> QED
    BY <2>1 DEF Service!vars, ServiceState, ServiceAnswer
<1>2. ASSUME NEW f \in Futures, NEW j \in Jobs, Enqueue(f, j)
      PROVE  [Service!Next]_(Service!vars)
  <2>1. /\ ~shutdown /\ shutdown' = shutdown /\ pc[f] = "free"
        /\ pc' = [pc EXCEPT ![f] = "queued"] /\ job' = [job EXCEPT ![f] = j]
        /\ UNCHANGED <<catalog, object>>
    BY <1>2 DEF Enqueue, Goto, flagVars
  <2>2. ServiceState[f] = "free" /\ ServiceState' = [ServiceState EXCEPT ![f] = "open"]
    BY <2>1 DEF ServiceState, TypeInv, TypeOK
  <2>3. ServiceAnswer' = ServiceAnswer
    BY <2>1 DEF ServiceAnswer, TypeInv, TypeOK
  <2>4. Service!Submit(f)
    BY <2>1, <2>2, <2>3 DEF Service!Submit
  <2> QED
    BY <2>4 DEF Service!Next
<1>3. CASE ShutDown
  <2>1. ~shutdown /\ shutdown' = TRUE /\ UNCHANGED <<pc, job, catalog, object>>
    BY <1>3 DEF ShutDown, requestVars
  <2>2. ServiceState' = ServiceState /\ ServiceAnswer' = ServiceAnswer
    BY <2>1 DEF ServiceState, ServiceAnswer
  <2>3. Service!Close
    BY <2>1, <2>2 DEF Service!Close
  <2> QED
    BY <2>3 DEF Service!Next
<1>6. CASE Drain
  <2> DEFINE f == Head(queue)
  <2>1. /\ f \in Futures /\ shutdown /\ UNCHANGED <<shutdown, job, catalog, object>>
        /\ pc' = [pc EXCEPT ![f] = "cancelled"]
        /\ pc[f] = "queued"
    BY <1>6 DEF Drain, Goto, flagVars, TypeInv, TypeOK, QueueHoldsTheWaiting
  <2>2. ServiceState[f] = "open" /\ ServiceState' = [ServiceState EXCEPT ![f] = "cancelled"]
    BY <2>1 DEF ServiceState, TypeInv, TypeOK
  <2>3. ServiceAnswer' = ServiceAnswer
    BY <2>1 DEF ServiceAnswer, TypeInv, TypeOK
  <2>4. Service!Cancel(f)
    BY <2>1, <2>2, <2>3 DEF Service!Cancel
  <2> QED
    BY <2>1, <2>4 DEF Service!Next
<1>4. CASE Take
  <2>1. /\ UNCHANGED <<shutdown, job, catalog, object>>
        /\ pc' = [pc EXCEPT ![Head(queue)] = "stat"]
        /\ pc[Head(queue)] = "queued"
    BY <1>4 DEF Take, Goto, flagVars, cacheVars, TypeInv, TypeOK, QueueHoldsTheWaiting
  <2>2. ServiceState' = ServiceState /\ ServiceAnswer' = ServiceAnswer
    BY <2>1 DEF ServiceState, ServiceAnswer, TypeInv, TypeOK
  <2> QED
    BY <2>1, <2>2 DEF Service!vars
<1>5. ASSUME NEW f \in Futures, Submit(f) PROVE [Service!Next]_(Service!vars)
  <2>1. PICK j \in Jobs : Enqueue(f, j)
    BY <1>5, SubmittedJob
  <2> QED
    BY <1>2, <2>1
<1> QED
  BY <1>1, <1>3, <1>4, <1>5, <1>6, ServiceWorker DEF Next, Exited

\* Where inputs do not change under a running command, the backend with its pool, caches
\* and subprocesses resolves each request once, with the content asked for or none.
THEOREM BackendImplementsService ==
    Spec /\ stable => Service!Spec
<1>3. stable /\ [Next]_vars => stable'
  BY StableIsKept
<1>1. TypeInv /\ stable /\ ContentInv /\ [Next]_vars => [Service!Next]_(Service!vars)
  BY ServiceNext
<1>2. TypeInv /\ stable /\ ContentInv /\ [Next]_vars => ContentInv'
  BY ContentInvNext
<1> QED
  BY <1>1, <1>2, <1>3, ServiceInit, TypeInvInit, TypeInvNext, ContentInvInit, PTL
     DEF Spec, Service!Spec
=============================================================================
