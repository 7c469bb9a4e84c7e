----------------------------- MODULE ParseCaches -----------------------------
(***************************************************************************)
(* The caches of one process that reads projects: the store of a command   *)
(* (io/parse_cache), and the caches of modules that outlive commands.      *)
(* What a parser returns is known by the bytes it has read; the parameters *)
(* of a parser are part of every key and are not told apart here.  The     *)
(* files have one length, which the keys hold besides.                     *)
(***************************************************************************)
EXTENDS Commons

CONSTANTS
    Files,          \* the paths of the projects
    Contents,       \* what a project may hold
    FirstContent,   \* what is at each path to begin with
    Places,         \* where bytes may lie in memory, what id() returns
    SectionsLimit,  \* _OPJ_DATA_SECTION_CACHE_SIZE
    RecordsLimit,   \* _OPJU_RECORDS_CACHE_MAX_ENTRIES
    RecoveryLimit,  \* _OPJU_RECOVERY_RECORDS_CACHE_LIMIT
    LastStamp       \* a bound: how often a file is replaced

ASSUME CachesAssumption ==
    /\ FirstContent \in [Files -> Contents]
    /\ None \notin Contents
    /\ {SectionsLimit, RecordsLimit, RecoveryLimit} \subseteq Nat

VARIABLES
    clock,      \* when a file was last replaced
    file,       \* what is at a path, and its modification time
    memory,     \* the bytes that are alive
    caller,     \* what a session holds, and of which path
    store,      \* _ACTIVE_STORE: None outside a command
    sections,   \* _OPJ_DATA_SECTION_CACHE, the oldest first
    records,    \* _OPJU_RECORDS_CACHE, the oldest first
    recovered,  \* _OPJU_RECOVERY_RECORDS_CACHE, the oldest first
    scanned     \* _IMAGE_BLOCK_CACHE and _NUMERIC_TABLE_CACHE

cacheVars == <<sections, records, recovered, scanned>>
parseVars == <<clock, file, memory, caller, store, cacheVars>>

(***************************************************************************)
(* Keys, and caches as sequences of entries with a key and a result.       *)
(***************************************************************************)
\* Mutant: a file is known by its path alone.
KeyByPath(f) == [path |-> f, stamp |-> 0]

\* One state of a file.
FileKey(f) == [path |-> f, stamp |-> file[f].stamp]

ResultsOf(entries, key) == {e.result : e \in {d \in entries : d.key = key}}

Given(entries, key, fresh) ==
    IF ResultsOf(entries, key) = {} THEN fresh ELSE CHOOSE r \in ResultsOf(entries, key) : TRUE

Bounded(cache, limit) == IF Len(cache) > limit THEN Tail(cache) ELSE cache

\* The entry is the youngest from now on, whether it was there or not.
Touched(cache, key, fresh, limit) ==
    IF ResultsOf(ToSet(cache), key) = {}
    THEN Bounded(Append(cache, [key |-> key, result |-> fresh]), limit)
    ELSE LET n == CHOOSE i \in DOMAIN cache : cache[i].key = key
         IN  Append(RemoveAt(cache, n), cache[n])

\* An entry keeps its age when it is used.
Put(cache, key, fresh, limit) ==
    IF ResultsOf(ToSet(cache), key) # {} THEN cache ELSE Bounded(Append(cache, [key |-> key, result |-> fresh]), limit)

(***************************************************************************)
(* The store of a command.                                                 *)
(***************************************************************************)
Scoped(name, key) == <<name, key>>

Memo(name, key) == IF store = None THEN {} ELSE ResultsOf(store, Scoped(name, key))

Memoized(name, key, fresh) == IF store = None THEN fresh ELSE Given(store, Scoped(name, key), fresh)

Stored(name, key, fresh) ==
    IF store = None \/ Memo(name, key) # {}
    THEN store
    ELSE store \union {[key |-> Scoped(name, key), result |-> fresh]}

\* The bytes that the store of a command keeps alive.
Kept(s) == IF s = None THEN {} ELSE {e.result : e \in {d \in s : d.key[1] = "file_bytes"}}

\* Bytes nothing refers to are gone at once, and their place is free.
Freed(held, s) ==
    [p \in Places |-> IF p \in Kept(s) \/ (held # None /\ held.at = p) THEN memory[p] ELSE None]

(***************************************************************************)
(* The process.                                                            *)
(***************************************************************************)
CachesInit ==
    /\ clock = 0
    /\ file = [f \in Files |-> [content |-> FirstContent[f], stamp |-> 0]]
    /\ memory = [p \in Places |-> None]
    /\ caller = None
    /\ store = None
    /\ sections = <<>> /\ records = <<>> /\ recovered = <<>> /\ scanned = {}

Enter ==
    /\ store = None /\ caller = None
    /\ store' = {}
    /\ UNCHANGED <<clock, file, memory, caller, cacheVars>>

Leave ==
    /\ store # None /\ caller = None
    /\ store' = None
    /\ memory' = Freed(None, None)
    /\ UNCHANGED <<clock, file, caller, cacheVars>>

\* Inputs are not replaced under a command or a session, and a replacement has a time of its own.
Replace(f, c) ==
    /\ store = None /\ (caller # None => caller.path # f)
    /\ clock < LastStamp /\ c # file[f].content
    /\ clock' = clock + 1
    /\ file' = [file EXCEPT ![f] = [content |-> c, stamp |-> clock + 1]]
    /\ UNCHANGED <<memory, caller, store, cacheVars>>

\* A session reads its file: the bytes the command has, or new ones at any free place.
OpenSession(f) ==
    /\ caller = None
    /\ \E p \in Places :
        /\ \/ p \in Memo("file_bytes", FileKey(f)) /\ UNCHANGED memory
           \/ /\ Memo("file_bytes", FileKey(f)) = {} /\ memory[p] = None
              /\ memory' = [memory EXCEPT ![p] = file[f].content]
        /\ caller' = [at |-> p, path |-> f]
        /\ store' = Stored("file_bytes", FileKey(f), p)
    /\ UNCHANGED <<clock, file, cacheVars>>

CloseSession ==
    /\ caller # None
    /\ caller' = None
    /\ memory' = Freed(None, store)
    /\ UNCHANGED <<clock, file, store, cacheVars>>

Data == memory[caller.at]

(***************************************************************************)
(* What the calls of a session return, and what they leave in the caches.  *)
(***************************************************************************)
\* The sections of an OPJ file are kept by the identity of the bytes.
SectionsGiven == Given(ToSet(sections), caller.at, Data)

Sections ==
    /\ caller # None
    /\ sections' = Touched(sections, caller.at, Data, SectionsLimit)
    /\ UNCHANGED <<clock, file, memory, caller, store, records, recovered, scanned>>

\* The inventory asks for them by the file, once in a command.
SectionsOfFileGiven == Memoized("opj_data_sections", FileKey(caller.path), SectionsGiven)

SectionsOfFile ==
    /\ caller # None
    /\ store' = Stored("opj_data_sections", FileKey(caller.path), SectionsGiven)
    /\ sections' = IF Memo("opj_data_sections", FileKey(caller.path)) = {}
                   THEN Touched(sections, caller.at, Data, SectionsLimit)
                   ELSE sections
    /\ UNCHANGED <<clock, file, memory, caller, records, recovered, scanned>>

\* The records of an OPJU file are kept by the file, or by the bytes if no path is given.
ParseKey(path) == IF path = None THEN [data |-> Data] ELSE [file |-> FileKey(path)]

RecordsGiven(path) == Given(ToSet(records), ParseKey(path), Data)

RecordsParsed(path) == Touched(records, ParseKey(path), Data, RecordsLimit)

Records(path) ==
    /\ records' = RecordsParsed(path)
    /\ UNCHANGED <<store, recovered>>

\* The inventory asks once in a command.
InventoryGiven(path) == Memoized("opju_records", FileKey(path), RecordsGiven(path))

RecordsOfInventory(path) ==
    /\ store' = Stored("opju_records", FileKey(path), RecordsGiven(path))
    /\ records' = IF Memo("opju_records", FileKey(path)) = {} THEN RecordsParsed(path) ELSE records
    /\ UNCHANGED recovered

\* The recovery has a cache of its own before them, which drops the oldest, used or not.
RecoveryGiven(path) == Given(ToSet(recovered), FileKey(path), RecordsGiven(path))

RecordsOfRecovery(path) ==
    /\ recovered' = Put(recovered, FileKey(path), RecordsGiven(path), RecoveryLimit)
    /\ records' = IF ResultsOf(ToSet(recovered), FileKey(path)) = {} THEN RecordsParsed(path) ELSE records
    /\ UNCHANGED store

AskRecords ==
    /\ caller # None
    /\ \/ Records(None)
       \/ Records(caller.path)
       \/ RecordsOfInventory(caller.path)
       \/ RecordsOfRecovery(caller.path)
    /\ UNCHANGED <<clock, file, memory, caller, sections, scanned>>

\* The column descriptors of an OPJU file are kept by the bytes, as long as the command runs.
ColumnsGiven == Memoized("opju_column_descriptors", [data |-> Data], Data)

DescribeColumns ==
    /\ caller # None
    /\ store' = Stored("opju_column_descriptors", [data |-> Data], Data)
    /\ UNCHANGED <<clock, file, memory, caller, cacheVars>>

\* Images and numeric tables are looked for in the file itself, and kept without a bound.
ScanGiven(f) == Given(scanned, FileKey(f), file[f].content)

Scan(f) ==
    /\ scanned' = scanned \union {[key |-> FileKey(f), result |-> ScanGiven(f)]}
    /\ UNCHANGED <<clock, file, memory, caller, store, sections, records, recovered>>

Serve ==
    \/ Enter
    \/ Leave
    \/ \E f \in Files, c \in Contents : Replace(f, c)
    \/ \E f \in Files : OpenSession(f)
    \/ CloseSession
    \/ Sections
    \/ SectionsOfFile
    \/ AskRecords
    \/ DescribeColumns
    \/ \E f \in Files : Scan(f)

CachesSpec == CachesInit /\ [][Serve]_parseVars

(***************************************************************************)
(* Properties.                                                             *)
(***************************************************************************)
\* Whatever was asked before, of whichever file, in this command or an earlier one: the records,
\* columns, images and tables a call would return now are those of its bytes, or of the file as it is.
CachesAreCurrent ==
    /\ \A f \in Files : ScanGiven(f) = file[f].content
    /\ caller # None =>
        /\ {RecordsGiven(None), RecordsGiven(caller.path), InventoryGiven(caller.path),
            RecoveryGiven(caller.path), ColumnsGiven} = {Data}
        /\ \* a session of a command has the bytes of its file, read now or kept since the first read
           store # None => Data = file[caller.path].content

\* docs/cache-policy.md: a new size, modification time or path produces a new cache key.  Sections
\* that were parsed from bytes that are gone are returned for others that lie at the same place.
SectionsAreOfTheData == caller # None => {SectionsGiven, SectionsOfFileGiven} = {Data}
=============================================================================
