---------------------------- MODULE ViewerBackend ----------------------------
(***************************************************************************)
(* The subprocess adapter of the viewer (deopjufy_view/backend.py) over    *)
(* input files that other programs may replace.                            *)
(*                                                                         *)
(* The GUI thread submits calls of catalog, get and export_item to a       *)
(* thread pool of MaxWorkers workers.  A call identifies the input by its  *)
(* size and modification time, looks for the catalog in a cache under that *)
(* identity, runs "deopjufy list" when it is not there, and then, for one  *)
(* item, runs "deopjufy get" with the catalog on its standard input.  The  *)
(* retrieved object is cached under the digest the catalog names.  The     *)
(* lock of the backend covers single reads and writes of the caches only,  *)
(* so the calls interleave between any two of the steps below, and the     *)
(* input may change between them.                                          *)
(*                                                                         *)
(* A subprocess first hashes its input (ExtractionSession.from_path) and   *)
(* reads it again when it parses it.  A stamp stands for the size and the  *)
(* modification time, a digest for the bytes.                              *)
(***************************************************************************)
EXTENDS Naturals, Sequences, FiniteSets

CONSTANTS
    Paths,         \* resolved paths of the projects
    Written,       \* the paths whose files other programs write
    Digests,       \* the contents an input can have, named by their sha256
    Entries,       \* positions of items in a catalog
    EntriesOf,     \* EntriesOf[d]: the positions that bytes d yield items at
    Exportable,    \* the positions whose item offers the exported format
    Futures,       \* the calls submitted in a behaviour (bounds their number)
    MaxWorkers,    \* max_workers of the thread pool
    MaxStamp,      \* bounds how often an input is replaced
    None

ASSUME ConstantsAssumption ==
    /\ EntriesOf \in [Digests -> SUBSET Entries]
    /\ Exportable \subseteq Entries
    /\ Written \subseteq Paths
    /\ MaxWorkers \in Nat \ {0}
    /\ MaxStamp \in Nat
    /\ None \notin Digests

VARIABLES
    stable,        \* never changes: no input changes while a command runs on it
    input,         \* input[p]: identity and bytes of the file at p (bytes None: no file)
    closed,        \* _closed, which _run tests
    shutdown,      \* the flag of the pool, which submit tests
    queue,         \* the calls the pool has not started
    pc,            \* pc[f]: the step call f is at
    job,           \* job[f]: what call f was asked to do
    key,           \* key[f]: the stamp _file_key read
    catalog,       \* catalog[f]: the catalog call f holds, or its result
    child,         \* child[f]: what the running subprocess hashed
    object,        \* object[f]: the payload of "deopjufy get"
    written,       \* written[f]: bytes an export wrote to the file chosen for it
    catalogCache,  \* _catalog_cache
    objectCache    \* _object_cache

vars == <<stable, input, closed, shutdown, queue, pc, job, key, catalog, child, object,
          written, catalogCache, objectCache>>

flagVars == <<stable, closed, shutdown>>
requestVars == <<queue, job>>
cacheVars == <<catalogCache, objectCache>>
-----------------------------------------------------------------------------
Stamps == 0 .. MaxStamp

Inputs == [stamp : Stamps, bytes : Digests \cup {None}]

\* The id of an item is a hash over the digest of its document and its identity fields.
Items == [digest : Digests, entry : Entries]

\* A catalog names the digest it was built for; its items come from the bytes parsed.
\* readAt is auxiliary: the stamp of the input when the subprocess hashed it.
Catalogs == [document : Digests, content : Digests, readAt : Stamps]

CatalogItems(c) == [digest : {c.document}, entry : EntriesOf[c.content]]

\* The failure payload of cmd_get carries an empty digest and no content.
Objects == [status : {"ok", "error"}, document : Digests \cup {None},
            item : Items, content : Digests \cup {None}]

FailurePayload(i) ==
    [status |-> "error", document |-> None, item |-> i, content |-> None]

Jobs == [kind : {"catalog"}, path : Paths, item : {None}]
        \cup [kind : {"get", "export"}, path : Paths, item : Items]

Starting == {"list_start", "get_start"}
InChild == {"list_parse", "get_parse"}
Running == Starting \cup InChild \cup {"stat", "lookup", "list_store", "catalog_ready", "get_store"}
Settled == {"done", "raised", "cancelled"}
Steps == Running \cup Settled \cup {"free", "queued"}

TypeOK ==
    /\ stable \in BOOLEAN
    /\ input \in [Paths -> Inputs]
    /\ closed \in BOOLEAN
    /\ shutdown \in BOOLEAN
    /\ queue \in Seq(Futures)
    /\ pc \in [Futures -> Steps]
    /\ job \in [Futures -> Jobs \cup {None}]
    /\ key \in [Futures -> Stamps]
    /\ catalog \in [Futures -> Catalogs \cup {None}]
    /\ child \in [Futures -> Inputs]
    /\ object \in [Futures -> Objects \cup {None}]
    /\ written \in [Futures -> Digests \cup {None}]
    /\ catalogCache \in [Paths \X Stamps -> Catalogs \cup {None}]
    /\ objectCache \in [Digests \X Items -> Objects \cup {None}]

NoInput == [stamp |-> 0, bytes |-> None]

Init ==
    /\ stable \in BOOLEAN
    /\ input \in [Paths -> [stamp : {0}, bytes : Digests]]
    /\ closed = FALSE
    /\ shutdown = FALSE
    /\ queue = <<>>
    /\ pc = [f \in Futures |-> "free"]
    /\ job = [f \in Futures |-> None]
    /\ key = [f \in Futures |-> 0]
    /\ catalog = [f \in Futures |-> None]
    /\ child = [f \in Futures |-> NoInput]
    /\ object = [f \in Futures |-> None]
    /\ written = [f \in Futures |-> None]
    /\ catalogCache = [k \in Paths \X Stamps |-> None]
    /\ objectCache = [k \in Digests \X Items |-> None]

Goto(f, step) == pc' = [pc EXCEPT ![f] = step]
-----------------------------------------------------------------------------
(* The rest of the system. *)

\* Another program replaces or removes the file at p, which changes its stamp.
ReplaceInput(p, bytes) ==
    /\ input[p].stamp < MaxStamp
    /\ bytes # input[p].bytes
    /\ stable => \A f \in Futures : pc[f] \in InChild => job[f].path # p
    /\ input' = [input EXCEPT ![p] = [stamp |-> input[p].stamp + 1, bytes |-> bytes]]
    /\ UNCHANGED <<flagVars, requestVars, pc, key, catalog, child, object, written, cacheVars>>

(* The GUI thread. *)

\* The pool refuses calls once it shuts down: submit does not look at _closed.
Enqueue(f, j) ==
    /\ ~shutdown
    /\ pc[f] = "free"
    /\ Goto(f, "queued")
    /\ job' = [job EXCEPT ![f] = j]
    /\ queue' = Append(queue, f)
    /\ UNCHANGED <<input, flagVars, key, catalog, child, object, written, cacheVars>>

SubmitCatalog(f, p) == Enqueue(f, [kind |-> "catalog", path |-> p, item |-> None])

SubmitGet(f, p, i) == Enqueue(f, [kind |-> "get", path |-> p, item |-> i])

SubmitExport(f, p, i) == Enqueue(f, [kind |-> "export", path |-> p, item |-> i])

\* The frame only names items of a catalog it was given.
Offered(p) ==
    LET given == {g \in Futures : pc[g] = "done" /\ job[g].kind = "catalog" /\ job[g].path = p}
    IN UNION {CatalogItems(catalog[g]) : g \in given}

\* close() sets _closed, which stops neither the queue nor the workers,
Close ==
    /\ ~closed
    /\ closed' = TRUE
    /\ UNCHANGED <<stable, shutdown, input, requestVars, pc, key, catalog, child, object, written,
                   cacheVars>>

\* and then shuts the pool down,
ShutDown ==
    /\ closed
    /\ ~shutdown
    /\ shutdown' = TRUE
    /\ UNCHANGED <<stable, closed, input, requestVars, pc, key, catalog, child, object, written,
                   cacheVars>>

\* Mutants: a call is cancelled and left in the queue, or dropped from it and forgotten.
CancelsWithoutDropping ==
    /\ shutdown
    /\ queue # <<>>
    /\ Goto(Head(queue), "cancelled")
    /\ UNCHANGED <<input, flagVars, requestVars, key, catalog, child, object, written, cacheVars>>

DropsWithoutCancelling ==
    /\ shutdown
    /\ queue # <<>>
    /\ queue' = Tail(queue)
    /\ UNCHANGED <<input, flagVars, pc, job, key, catalog, child, object, written, cacheVars>>

\* which cancels, one after the other, the calls that no worker takes meanwhile.
Drain ==
    /\ shutdown
    /\ queue # <<>>
    /\ Goto(Head(queue), "cancelled")
    /\ queue' = Tail(queue)
    /\ UNCHANGED <<input, flagVars, job, key, catalog, child, object, written, cacheVars>>
-----------------------------------------------------------------------------
(* The workers. *)

Busy == {f \in Futures : pc[f] \in Running}

\* A worker that is free takes the oldest call, whatever was closed.
Take ==
    /\ queue # <<>>
    /\ Cardinality(Busy) < MaxWorkers
    /\ Goto(Head(queue), "stat")
    /\ queue' = Tail(queue)
    /\ UNCHANGED <<input, flagVars, job, key, catalog, child, object, written, cacheVars>>

\* Mutant: _run does not look at _closed.
SpawnsAlways(f, step) == Goto(f, step)

\* _run tests _closed.  The caches are looked up in the same step: a call that finds the
\* backend closed only after its look-up fails here when its subprocess would start.
Spawn(f, step) == Goto(f, IF closed THEN "raised" ELSE step)

FileKey(f) ==
    /\ pc[f] = "stat"
    /\ IF input[job[f].path].bytes = None
       THEN /\ Goto(f, "raised")
            /\ UNCHANGED key
       ELSE /\ Goto(f, "lookup")
            /\ key' = [key EXCEPT ![f] = input[job[f].path].stamp]
    /\ UNCHANGED <<input, flagVars, requestVars, catalog, child, object, written, cacheVars>>

AfterCatalog(f) == IF job[f].kind = "catalog" THEN "done" ELSE "catalog_ready"

\* Mutant: a catalog is taken from the cache by its path alone.
TakesAnyCatalog(f) ==
    LET cached == {s \in Stamps : catalogCache[<<job[f].path, s>>] # None} IN
    /\ pc[f] = "lookup"
    /\ IF cached # {}
       THEN /\ Goto(f, AfterCatalog(f))
            /\ \E s \in cached : catalog' = [catalog EXCEPT ![f] = catalogCache[<<job[f].path, s>>]]
       ELSE /\ Spawn(f, "list_start")
            /\ UNCHANGED catalog
    /\ UNCHANGED <<input, flagVars, requestVars, key, child, object, written, cacheVars>>

LookupCatalog(f) ==
    LET cached == catalogCache[<<job[f].path, key[f]>>] IN
    /\ pc[f] = "lookup"
    /\ IF cached # None
       THEN /\ Goto(f, AfterCatalog(f))
            /\ catalog' = [catalog EXCEPT ![f] = cached]
       ELSE /\ Spawn(f, "list_start")
            /\ UNCHANGED catalog
    /\ UNCHANGED <<input, flagVars, requestVars, key, child, object, written, cacheVars>>

\* Mutant: the catalog is stored under the identity the file has when it is stored.
StoresUnderNewKey(f) ==
    /\ pc[f] = "list_store"
    /\ catalogCache' =
          [catalogCache EXCEPT ![<<job[f].path, input[job[f].path].stamp>>] = catalog[f]]
    /\ Goto(f, AfterCatalog(f))
    /\ UNCHANGED <<input, flagVars, requestVars, key, catalog, child, object, written, objectCache>>

StoreCatalog(f) ==
    /\ pc[f] = "list_store"
    /\ catalogCache' = [catalogCache EXCEPT ![<<job[f].path, key[f]>>] = catalog[f]]
    /\ Goto(f, AfterCatalog(f))
    /\ UNCHANGED <<input, flagVars, requestVars, key, catalog, child, object, written, objectCache>>

LookupObject(f) ==
    LET cached == objectCache[<<catalog[f].document, job[f].item>>] IN
    /\ pc[f] = "catalog_ready"
    /\ job[f].kind = "get"
    /\ IF cached # None
       THEN /\ Goto(f, "done")
            /\ object' = [object EXCEPT ![f] = cached]
       ELSE /\ Spawn(f, "get_start")
            /\ UNCHANGED object
    /\ UNCHANGED <<input, flagVars, requestVars, key, catalog, child, written, cacheVars>>

\* Mutant: the object is stored under the digest of the file as it is then.
StoresUnderNewDigest(f) ==
    LET bytes == input[job[f].path].bytes IN
    /\ pc[f] = "get_store"
    /\ objectCache' = IF bytes = None THEN objectCache
                      ELSE [objectCache EXCEPT ![<<bytes, job[f].item>>] = object[f]]
    /\ Goto(f, "done")
    /\ UNCHANGED <<input, flagVars, requestVars, key, catalog, child, object, written, catalogCache>>

StoreObject(f) ==
    /\ pc[f] = "get_store"
    /\ objectCache' = [objectCache EXCEPT ![<<catalog[f].document, job[f].item>>] = object[f]]
    /\ Goto(f, "done")
    /\ UNCHANGED <<input, flagVars, requestVars, key, catalog, child, object, written, catalogCache>>

\* export_item: the catalog must list the item with the format asked for.
CheckFormat(f) ==
    /\ pc[f] = "catalog_ready"
    /\ job[f].kind = "export"
    /\ IF job[f].item \in CatalogItems(catalog[f]) /\ job[f].item.entry \in Exportable
       THEN Spawn(f, "get_start")
       ELSE Goto(f, "raised")
    /\ UNCHANGED <<input, flagVars, requestVars, key, catalog, child, object, written, cacheVars>>
-----------------------------------------------------------------------------
(* The subprocesses. *)

ChildEnds(f) == child' = [child EXCEPT ![f] = NoInput]

\* subprocess.run starts the command, with no lock held since the test of _closed, and
\* ExtractionSession.from_path hashes the input.
StartsAndHashes(f, next) ==
    /\ input[job[f].path].bytes # None
    /\ child' = [child EXCEPT ![f] = input[job[f].path]]
    /\ Goto(f, next)
    /\ UNCHANGED <<input, flagVars, requestVars, key, catalog, object, written, cacheVars>>

ListStart(f) == pc[f] = "list_start" /\ StartsAndHashes(f, "list_parse")

GetStart(f) == pc[f] = "get_start" /\ StartsAndHashes(f, "get_parse")

\* Mutant: the catalog of a file that is gone is accepted.
ListParsesMissing(f) ==
    /\ pc[f] = "list_parse"
    /\ catalog' = [catalog EXCEPT ![f] =
          [document |-> child[f].bytes, content |-> input[job[f].path].bytes,
           readAt |-> child[f].stamp]]
    /\ Goto(f, "list_store")
    /\ ChildEnds(f)
    /\ UNCHANGED <<input, flagVars, requestVars, key, object, written, cacheVars>>

\* "deopjufy list" reads the input again, and its payload is accepted.
ListParse(f) ==
    LET bytes == input[job[f].path].bytes IN
    /\ pc[f] = "list_parse"
    /\ bytes # None
    /\ catalog' = [catalog EXCEPT ![f] =
          [document |-> child[f].bytes, content |-> bytes, readAt |-> child[f].stamp]]
    /\ Goto(f, "list_store")
    /\ ChildEnds(f)
    /\ UNCHANGED <<input, flagVars, requestVars, key, object, written, cacheVars>>

\* Mutant: the catalog is only compared with the bytes hashed, and the item found by position.
CatalogIsOfTheBytes(f) == catalog[f].document = child[f].bytes

\* The supplied catalog must be of the bytes hashed, and list the item: its ids are
\* rebuilt from the digest of those bytes.
SuppliedCatalogFits(f) ==
    /\ catalog[f].document = child[f].bytes
    /\ job[f].item \in [digest : {child[f].bytes}, entry : EntriesOf[catalog[f].content]]

AfterGet(f) == IF job[f].kind = "get" THEN "get_store" ELSE "done"

\* cmd_get refuses with exit status 3, which _run_json takes for a payload.
GetRefuses(f) ==
    /\ pc[f] = "get_parse"
    /\ ~SuppliedCatalogFits(f)
    /\ object' = [object EXCEPT ![f] = FailurePayload(job[f].item)]
    /\ Goto(f, AfterGet(f))
    /\ ChildEnds(f)
    /\ UNCHANGED <<input, flagVars, requestVars, key, catalog, written, cacheVars>>

\* cmd_get materializes the item from the input, and writes it for an export.
GetParse(f) ==
    LET bytes == input[job[f].path].bytes IN
    /\ pc[f] = "get_parse"
    /\ bytes # None
    /\ SuppliedCatalogFits(f)
    /\ object' = [object EXCEPT ![f] = [status |-> "ok", document |-> child[f].bytes,
                                        item |-> job[f].item, content |-> bytes]]
    /\ written' = IF job[f].kind = "export" THEN [written EXCEPT ![f] = bytes] ELSE written
    /\ Goto(f, AfterGet(f))
    /\ ChildEnds(f)
    /\ UNCHANGED <<input, flagVars, requestVars, key, catalog, cacheVars>>

\* The subprocess times out, cannot start, or ends with a status that is refused.
CommandFails(f) ==
    /\ pc[f] \in Starting \cup InChild
    /\ Goto(f, "raised")
    /\ ChildEnds(f)
    /\ UNCHANGED <<input, flagVars, requestVars, key, catalog, object, written, cacheVars>>
-----------------------------------------------------------------------------
Worker(f) ==
    \/ FileKey(f) \/ LookupCatalog(f) \/ StoreCatalog(f)
    \/ LookupObject(f) \/ StoreObject(f) \/ CheckFormat(f)
    \/ ListStart(f) \/ ListParse(f)
    \/ GetStart(f) \/ GetRefuses(f) \/ GetParse(f)
    \/ CommandFails(f)

Submit(f) ==
    \E p \in Paths : \/ SubmitCatalog(f, p)
                     \/ \E i \in Offered(p) : SubmitGet(f, p, i) \/ SubmitExport(f, p, i)

\* The pool has shut down and its workers have nothing left to do: the process ends.
Exited ==
    /\ shutdown
    /\ queue = <<>>
    /\ Busy = {}
    /\ UNCHANGED vars

Next ==
    \/ \E p \in Written, bytes \in Digests \cup {None} : ReplaceInput(p, bytes)
    \/ \E f \in Futures : Submit(f)
    \/ Close \/ ShutDown \/ Drain
    \/ Take
    \/ \E f \in Futures : Worker(f)
    \/ Exited

Spec == Init /\ [][Next]_vars

\* A worker goes on with its call, and subprocess.run has a timeout.
\* Nothing is asked of the GUI thread: a queue that is not drained is worked off.
Fairness ==
    /\ WF_vars(Take)
    /\ \A f \in Futures : WF_vars(Worker(f))

FairSpec == Spec /\ Fairness
-----------------------------------------------------------------------------
(* Properties. *)

\* What an answer, or a cached catalog, says of the input at p: it was read no earlier
\* than the stamp asked for, and it describes the bytes p still has if p did not change since.
Current(c, p, stamp) ==
    /\ stamp <= c.readAt
    /\ c.readAt <= input[p].stamp
    /\ c.readAt = input[p].stamp => /\ c.document = input[p].bytes
                                    /\ c.content = input[p].bytes

\* A catalog cached under the identity a file has now describes the bytes of that file,
\* whatever happened between _file_key, the subprocess and the store in catalog().
CachedCatalogIsCurrent ==
    \A p \in Paths, s \in Stamps :
        catalogCache[<<p, s>>] # None => Current(catalogCache[<<p, s>>], p, s)

\* No call is answered from a catalog older than the identity the call itself read.
NoStaleCatalog ==
    \A f \in Futures :
        pc[f] \in {"list_store", "catalog_ready", "get_start", "get_parse", "get_store", "done"} =>
            Current(catalog[f], job[f].path, key[f])

\* The content in the object cache was read from the bytes its key names, for the
\* item its key names: the check of cmd_get on the supplied catalog ensures it.
CachedContentIsOfItsDigest ==
    stable =>
        \A d \in Digests, i \in Items :
            LET cached == objectCache[<<d, i>>] IN
            cached # None => /\ cached.item = i
                             /\ cached.content \in {d, None}
                             /\ cached.content = d => i.digest = d

\* get and export_item never deliver or write the content of other bytes than those
\* the requested item id was made for, even after the file was replaced.
AnswerIsOfTheItemAsked ==
    stable =>
        \A f \in Futures :
            /\ object[f] # None => /\ object[f].item = job[f].item
                                   /\ object[f].content \in {job[f].item.digest, None}
            /\ written[f] # None => written[f] = job[f].item.digest

\* A call in the queue waits for a worker, and no call is in it twice.
QueueHoldsTheWaiting ==
    /\ \A f \in Futures : pc[f] = "queued" <=> \E n \in 1 .. Len(queue) : queue[n] = f
    /\ \A m, n \in 1 .. Len(queue) : queue[m] = queue[n] => m = n

\* The calls that run a subprocess, or have passed the test of _closed to start one.
Commanding == {f \in Futures : pc[f] \in Starting \cup InChild}

\* Once the backend is closed these calls only get fewer, although workers go on taking
\* calls until the pool has emptied its queue: no call taken later, and no running one
\* that still wants an object after its catalog, comes to a subprocess.
NoNewCommandsOnceClosed == [][closed => Commanding' \subseteq Commanding]_vars

\* Every future is resolved or cancelled, so no view waits for ever.
EveryCallSettles == \A f \in Futures : pc[f] = "queued" ~> pc[f] \in Settled

-----------------------------------------------------------------------------
(* The backend implements the retrieval service. *)

ServiceState ==
    [f \in Futures |->
        CASE pc[f] = "free" -> "free"
          [] pc[f] = "done" -> "answered"
          [] pc[f] = "raised" -> "failed"
          [] pc[f] = "cancelled" -> "cancelled"
          [] OTHER -> "open"]

ServiceAnswer ==
    [f \in Futures |->
        IF pc[f] # "done" THEN None
        ELSE IF job[f].kind = "catalog" THEN catalog[f].document
        ELSE object[f].content]

\* A request for an item is answered with its content, one for a catalog with any digest.
Asked == [j \in Jobs |-> IF j.kind = "catalog" THEN Digests ELSE {j.item.digest}]

Service == INSTANCE RetrievalService
           WITH Requests <- Jobs, accepting <- ~shutdown, request <- job,
                state <- ServiceState, answer <- ServiceAnswer

\* The workers, caches and subprocesses add up to requests that are resolved once,
\* each with the content asked for, a refusal or an exception.
ImplementsService == Service!FairSpec
=============================================================================
